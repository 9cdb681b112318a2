--------------------------- MODULE CoPipelineProofs ---------------------------
(***************************************************************************)
(* Proofs about co_pipeline (CoPipeline): the user reads what the pipeline  *)
(* says, for every number of items, every pipeline of the stages there are, *)
(* every bound of the source's channel and every interleaving.              *)
(*                                                                         *)
(* What goes through channel i is After[i], a function of the pipeline      *)
(* alone.  Of what a stage has popped it has sent, or has in its hand or    *)
(* its batch, exactly what Apply makes of it (Follows; Forwards for a fork, *)
(* whose workers send in any order).  So whatever is sent is a part of      *)
(* After[i] (IsPart), because Apply makes a part of a part; and it is the   *)
(* whole of it (IsWhole) when the stage is through without anybody having   *)
(* stopped reading (Completes), because Apply makes the whole of the whole. *)
(* Channels are closed only when that is so (Closes).  These parts of Flow  *)
(* are inductive together.  Behind a fork the order is lost: there a part   *)
(* is told by what its items consist of, which no two have in common        *)
(* (Contents, Apart).                                                       *)
(***************************************************************************)
EXTENDS CoPipeline, QueueLemmas

-----------------------------------------------------------------------------
(* The contents of items *)

(* The contents of one item more, and what it takes for them to be apart.   *)
LEMMA ContentsAppend ==
    ASSUME NEW S, NEW xs \in Seq(S), NEW x \in S
    PROVE  /\ Contents(Append(xs, x)) = Contents(xs) \cup {ToSet(x)}
           /\ Apart(Append(xs, x)) <=>
                /\ Apart(xs)
                /\ IsInjective(x)
                /\ \A p \in Contents(xs) : p # ToSet(x) /\ p \cap ToSet(x) = {}
  <1> DEFINE ys == Append(xs, x)
             n == Len(xs)
  <1>1. /\ DOMAIN xs = 1..n /\ n \in Nat /\ DOMAIN ys = 1..(n + 1)
        /\ \A i \in 1..n : ys[i] = xs[i]
        /\ ys[n + 1] = x
    OBVIOUS
  <1>2. DOMAIN ys = (DOMAIN xs) \cup {n + 1} /\ n + 1 \notin DOMAIN xs
    BY <1>1
  <1> HIDE DEF ys, n
  <1>3. Contents(ys) = Contents(xs) \cup {ToSet(x)}
    BY <1>1, <1>2, Zenon DEF Contents
  <1>4. ASSUME Apart(ys)
        PROVE  /\ Apart(xs) /\ IsInjective(x)
               /\ \A p \in Contents(xs) : p # ToSet(x) /\ p \cap ToSet(x) = {}
    <2>1. /\ \A k \in DOMAIN ys : IsInjective(ys[k])
          /\ \A j, k \in DOMAIN ys : j # k =>
               ToSet(ys[j]) # ToSet(ys[k]) /\ ToSet(ys[j]) \cap ToSet(ys[k]) = {}
      BY <1>4 DEF Apart
    <2>2. Apart(xs) /\ IsInjective(x)
      BY <1>1, <1>2, <2>1, Zenon DEF Apart
    <2>3. ASSUME NEW k \in DOMAIN xs
          PROVE  ToSet(xs[k]) # ToSet(x) /\ ToSet(xs[k]) \cap ToSet(x) = {}
      <3>1. k \in DOMAIN ys /\ n + 1 \in DOMAIN ys /\ k # n + 1
        BY <1>2
      <3> QED
        BY <1>1, <2>1, <3>1, Zenon
    <2> QED
      BY <2>2, <2>3 DEF Contents
  <1>5. ASSUME Apart(xs), IsInjective(x),
               \A p \in Contents(xs) : p # ToSet(x) /\ p \cap ToSet(x) = {}
        PROVE  Apart(ys)
    <2>1. ASSUME NEW k \in DOMAIN ys PROVE IsInjective(ys[k])
      BY <1>1, <1>2, <1>5, <2>1 DEF Apart
    <2>2. ASSUME NEW j \in DOMAIN ys, NEW k \in DOMAIN ys, j # k
          PROVE  ToSet(ys[j]) # ToSet(ys[k]) /\ ToSet(ys[j]) \cap ToSet(ys[k]) = {}
      <3>1. CASE j \in DOMAIN xs /\ k \in DOMAIN xs
        BY <1>1, <1>5, <2>2, <3>1 DEF Apart
      <3>2. CASE j = n + 1
        <4>1. k \in DOMAIN xs /\ ys[k] = xs[k] /\ ys[j] = x
          BY <1>1, <1>2, <2>2, <3>2
        <4>2. ToSet(xs[k]) \in Contents(xs)
          BY <4>1 DEF Contents
        <4> QED
          BY <1>5, <4>1, <4>2
      <3>3. CASE k = n + 1
        <4>1. j \in DOMAIN xs /\ ys[j] = xs[j] /\ ys[k] = x
          BY <1>1, <1>2, <2>2, <3>3
        <4>2. ToSet(xs[j]) \in Contents(xs)
          BY <4>1 DEF Contents
        <4> QED
          BY <1>5, <4>1, <4>2
      <3> QED
        BY <1>2, <3>1, <3>2, <3>3
    <2> QED
      BY <2>1, <2>2 DEF Apart
  <1> QED
    BY <1>3, <1>4, <1>5 DEF ys

(* Of no items there are no contents.                                       *)
LEMMA EmptyApart == Contents(<<>>) = {} /\ Apart(<<>>) /\ IsInjective(<<>>) /\ ToSet(<<>>) = {}
  BY DEF Contents, Apart, IsInjective, ToSet

(* FlattenSeq has exactly the parts of the items, none of them twice.       *)
LEMMA FlattenFacts ==
    ASSUME NEW U, NEW xs \in Seq(Seq(U))
    PROVE  /\ FlattenSeq(xs) \in Seq(U)
           /\ ToSet(FlattenSeq(xs)) = UNION Contents(xs)
           /\ Apart(xs) => IsInjective(FlattenSeq(xs))
  <1> DEFINE v(n) == SubSeq(xs, 1, n)
             P(s) == /\ FlattenSeq(s) \in Seq(U)
                     /\ ToSet(FlattenSeq(s)) = UNION Contents(s)
                     /\ Apart(s) => IsInjective(FlattenSeq(s))
             T == {n \in Nat : n <= Len(xs) => P(v(n))}
  <1>1. Len(xs) \in Nat /\ v(0) = <<>> /\ v(Len(xs)) = xs
    BY WholeSubSeq
  <1>2. 0 \in T
    <2>1. P(<<>>)
      <3>1. <<>> \in Seq(U) /\ UNION {} = {}
        OBVIOUS
      <3> QED
        BY <3>1, FlattenEmpty, EmptyApart
    <2> QED
      BY <1>1, <2>1
  <1>3. ASSUME NEW n \in Nat, n \in T PROVE n + 1 \in T
    <2> SUFFICES ASSUME n + 1 <= Len(xs) PROVE P(v(n + 1))
      OBVIOUS
    <2> DEFINE x == xs[n + 1]
               s == v(n)
    <2>1. s \in Seq(Seq(U)) /\ x \in Seq(U) /\ v(n + 1) = Append(s, x)
      <3>1. n < Len(xs)
        BY <1>1
      <3> QED
        BY <3>1, GrowBy1
    <2>2. P(s)
      BY <1>1, <1>3
    <2> HIDE DEF s, x
    <2>3. FlattenSeq(Append(s, x)) = FlattenSeq(s) \o x
      BY <2>1, FlattenAppend
    <2>4. /\ FlattenSeq(s) \o x \in Seq(U)
          /\ ToSet(FlattenSeq(s) \o x) = ToSet(FlattenSeq(s)) \cup ToSet(x)
          /\ IsInjective(FlattenSeq(s)) /\ IsInjective(x) /\ ToSet(FlattenSeq(s)) \cap ToSet(x) = {}
             => IsInjective(FlattenSeq(s) \o x)
      BY <2>1, <2>2, ConcatProperties, ConcatInjective
    <2>5. /\ Contents(Append(s, x)) = Contents(s) \cup {ToSet(x)}
          /\ Apart(Append(s, x)) =>
               /\ Apart(s) /\ IsInjective(x)
               /\ \A p \in Contents(s) : p \cap ToSet(x) = {}
      BY <2>1, ContentsAppend
    <2>6. P(Append(s, x))
      <3>1. ToSet(FlattenSeq(s) \o x) = UNION Contents(Append(s, x))
        BY <2>2, <2>4, <2>5
      <3>2. Apart(Append(s, x)) => ToSet(FlattenSeq(s)) \cap ToSet(x) = {}
        BY <2>2, <2>5
      <3> QED
        BY <2>2, <2>3, <2>4, <2>5, <3>1, <3>2
    <2> QED
      BY <2>1, <2>6
  <1> HIDE DEF T
  <1>4. Len(xs) \in T
    BY <1>1, <1>2, <1>3, SetInduction
  <1> HIDE DEF P, v
  <1>5. P(xs)
    BY <1>1, <1>4 DEF T
  <1> QED
    BY <1>5 DEF P

(* Items that are apart are different.                                      *)
LEMMA ApartInjective ==
    ASSUME NEW S, NEW xs \in Seq(S), Apart(xs)
    PROVE  IsInjective(xs)
  BY DEF Apart, IsInjective

(* Some of the items are apart if all are, ...                              *)
LEMMA ApartSome ==
    ASSUME NEW S, NEW xs \in Seq(S), Apart(xs),
           NEW ys \in Seq(S), IsInjective(ys), ToSet(ys) \subseteq ToSet(xs)
    PROVE  Apart(ys)
  <1>1. ASSUME NEW k \in DOMAIN ys PROVE \E j \in DOMAIN xs : ys[k] = xs[j]
    BY DEF ToSet
  <1>2. \A k \in DOMAIN ys : IsInjective(ys[k])
    BY <1>1, Zenon DEF Apart
  <1>3. ASSUME NEW j \in DOMAIN ys, NEW k \in DOMAIN ys, j # k
        PROVE  ToSet(ys[j]) # ToSet(ys[k]) /\ ToSet(ys[j]) \cap ToSet(ys[k]) = {}
    <2>1. PICK l \in DOMAIN xs : ys[j] = xs[l]
      BY <1>1
    <2>2. PICK m \in DOMAIN xs : ys[k] = xs[m]
      BY <1>1
    <2>3. l # m
      BY <1>3, <2>1, <2>2 DEF IsInjective
    <2> QED
      BY <2>1, <2>2, <2>3, Zenon DEF Apart
  <1> QED
    BY <1>2, <1>3 DEF Apart

(* ... have some of the contents, ...                                       *)
LEMMA ContentsSome ==
    ASSUME NEW S, NEW xs \in Seq(S), NEW ys \in Seq(S), ToSet(ys) \subseteq ToSet(xs)
    PROVE  Contents(ys) \subseteq Contents(xs)
  <1>1. ASSUME NEW k \in DOMAIN ys PROVE ToSet(ys[k]) \in Contents(xs)
    <2>1. PICK j \in DOMAIN xs : ys[k] = xs[j]
      BY DEF ToSet
    <2> QED
      BY <2>1, Zenon DEF Contents
  <1> QED
    BY <1>1 DEF Contents

(* ... and so is and does a prefix, ...                                     *)
LEMMA PrefixSome ==
    ASSUME NEW S, NEW xs \in Seq(S), NEW ys \in Seq(S), IsPrefix(ys, xs)
    PROVE  /\ ToSet(ys) \subseteq ToSet(xs)
           /\ Contents(ys) \subseteq Contents(xs)
           /\ IsInjective(xs) => IsInjective(ys)
           /\ Apart(xs) => Apart(ys)
  <1>1. /\ Len(ys) <= Len(xs) /\ \A i \in 1..Len(ys) : ys[i] = xs[i]
        /\ Len(ys) \in Nat /\ Len(xs) \in Nat /\ DOMAIN ys = 1..Len(ys) /\ DOMAIN xs = 1..Len(xs)
    BY PrefixElements
  <1>2. \A i \in DOMAIN ys : i \in DOMAIN xs /\ ys[i] = xs[i]
    BY <1>1
  <1>3. ToSet(ys) \subseteq ToSet(xs) /\ (IsInjective(xs) => IsInjective(ys))
    BY <1>2 DEF ToSet, IsInjective
  <1> QED
    BY <1>3, ApartSome, ApartInjective, ContentsSome

(* ... and there are as many of them as there are contents.                 *)
LEMMA ApartCount ==
    ASSUME NEW S, NEW xs \in Seq(S), Apart(xs)
    PROVE  IsFiniteSet(Contents(xs)) /\ Cardinality(Contents(xs)) = Len(xs)
  <1> DEFINE f == [k \in 1..Len(xs) |-> ToSet(xs[k])]
  <1>1. Len(xs) \in Nat /\ DOMAIN xs = 1..Len(xs)
    OBVIOUS
  <1>2. f \in Bijection(1..Len(xs), Contents(xs))
    <2>1. f \in [1..Len(xs) -> Contents(xs)]
      BY <1>1 DEF Contents
    <2>2. \A j, k \in 1..Len(xs) : f[j] = f[k] => j = k
      BY <1>1 DEF Apart
    <2>3. \A p \in Contents(xs) : \E k \in 1..Len(xs) : f[k] = p
      BY <1>1 DEF Contents
    <2> QED
      BY <2>1, <2>2, <2>3 DEF Bijection, Injection, Surjection, IsInjective
  <1>3. ExistsBijection(1..Len(xs), Contents(xs))
    BY <1>2 DEF ExistsBijection
  <1> HIDE DEF f
  <1>4. IsFiniteSet(1..Len(xs))
    BY <1>1, FS_Interval
  <1>5. f \in Surjection(1..Len(xs), Contents(xs))
    BY <1>2 DEF Bijection
  <1>6. IsFiniteSet(Contents(xs))
    BY <1>4, <1>5, FS_Surjection
  <1> QED
    BY <1>1, <1>3, <1>6, FS_CountingElements

(* So who has all the contents has at least as many items.                  *)
LEMMA ApartLength ==
    ASSUME NEW S, NEW xs \in Seq(S), Apart(xs), NEW ys \in Seq(S), Apart(ys),
           Contents(xs) \subseteq Contents(ys)
    PROVE  Len(xs) <= Len(ys)
  BY ApartCount, FS_Subset

-----------------------------------------------------------------------------
(* Slices *)

(* The elements of a slice, which are apart if all are.                     *)
LEMMA SliceFacts ==
    ASSUME NEW S, NEW xs \in Seq(S), NEW a \in Int, NEW b \in Int, 1 <= a, b <= Len(xs)
    PROVE  /\ SubSeq(xs, a, b) \in Seq(S)
           /\ Len(SubSeq(xs, a, b)) = IF a <= b THEN b - a + 1 ELSE 0
           /\ \A i \in 1..(b - a + 1) : SubSeq(xs, a, b)[i] = xs[a + i - 1]
           /\ ToSet(SubSeq(xs, a, b)) = {xs[k] : k \in a..b}
           /\ IsInjective(xs) => IsInjective(SubSeq(xs, a, b))
           /\ Apart(xs) => Apart(SubSeq(xs, a, b))
  <1> DEFINE t == SubSeq(xs, a, b)
             l == Len(t)
  <1>1. Len(xs) \in Nat /\ DOMAIN xs = 1..Len(xs) /\ \A i \in 1..Len(xs) : xs[i] \in S
    OBVIOUS
  <1>2. \A i \in a..b : i \in 1..Len(xs) /\ xs[i] \in S
    BY <1>1
  <1>3. /\ t \in Seq(S)
        /\ l = IF a <= b THEN b - a + 1 ELSE 0
        /\ \A i \in 1..(b - a + 1) : t[i] = xs[a + i - 1]
    BY <1>2, SubSeqProperties
  <1>4. DOMAIN t = 1..l /\ l \in Nat
    BY <1>3
  <1> HIDE DEF t, l
  <1>5. ASSUME NEW i \in DOMAIN t PROVE a + i - 1 \in a..b /\ t[i] = xs[a + i - 1]
    BY <1>3, <1>4
  <1>6. ASSUME NEW k \in a..b PROVE k - a + 1 \in DOMAIN t /\ t[k - a + 1] = xs[k]
    <2>1. k - a + 1 \in 1..(b - a + 1) /\ a + (k - a + 1) - 1 = k /\ a <= b
      OBVIOUS
    <2> QED
      BY <1>3, <1>4, <2>1
  <1>7. ToSet(t) = {xs[k] : k \in a..b}
    <2>1. ToSet(t) \subseteq {xs[k] : k \in a..b}
      BY <1>5 DEF ToSet
    <2>2. ASSUME NEW k \in a..b PROVE xs[k] \in ToSet(t)
      BY <1>6, Zenon DEF ToSet
    <2> QED
      BY <2>1, <2>2
  <1>8. ASSUME IsInjective(xs) PROVE IsInjective(t)
    <2> SUFFICES ASSUME NEW i \in DOMAIN t, NEW j \in DOMAIN t, t[i] = t[j] PROVE i = j
      BY DEF IsInjective
    <2>1. a + i - 1 = a + j - 1
      BY <1>1, <1>2, <1>5, <1>8 DEF IsInjective
    <2> QED
      BY <1>4, <2>1
  <1>9. ToSet(t) \subseteq ToSet(xs)
    BY <1>1, <1>2, <1>7 DEF ToSet
  <1>10. Apart(xs) => Apart(t)
    BY <1>3, <1>8, <1>9, ApartInjective, ApartSome
  <1> QED
    BY <1>3, <1>7, <1>8, <1>10 DEF t, l

(* Slices of a prefix are slices of the whole.                              *)
LEMMA SliceOfPrefix ==
    ASSUME NEW S, NEW xs \in Seq(S), NEW ys \in Seq(S), IsPrefix(xs, ys),
           NEW a \in Int, NEW b \in Int, 1 <= a, b <= Len(xs)
    PROVE  SubSeq(xs, a, b) = SubSeq(ys, a, b)
  <1>1. /\ Len(xs) <= Len(ys) /\ \A i \in 1..Len(xs) : xs[i] = ys[i]
        /\ Len(xs) \in Nat /\ Len(ys) \in Nat
    BY PrefixElements
  <1> DEFINE t == SubSeq(xs, a, b)
             u == SubSeq(ys, a, b)
  <1>2. /\ t \in Seq(S) /\ Len(t) = IF a <= b THEN b - a + 1 ELSE 0
        /\ \A i \in 1..(b - a + 1) : t[i] = xs[a + i - 1]
    BY SliceFacts
  <1>3. /\ u \in Seq(S) /\ Len(u) = IF a <= b THEN b - a + 1 ELSE 0
        /\ \A i \in 1..(b - a + 1) : u[i] = ys[a + i - 1]
    BY <1>1, SliceFacts
  <1> HIDE DEF t, u
  <1>4. ASSUME NEW i \in 1..Len(t) PROVE t[i] = u[i]
    <2>1. i \in 1..(b - a + 1) /\ a + i - 1 \in 1..Len(xs)
      BY <1>1, <1>2
    <2> QED
      BY <1>1, <1>2, <1>3, <2>1
  <1>5. t = u
    BY <1>2, <1>3, <1>4, SeqEqual
  <1> QED
    BY <1>5 DEF t, u

-----------------------------------------------------------------------------
(* The stages as functions on sequences *)

Passing == {x \in Item : Passes(x)}
Block(s, xs, k) == SubSeq(xs, (k - 1) * s.n + 1, k * s.n)

(* An item is a sequence of the numbers the source has counted.             *)
LEMMA ItemSeq == Item = Seq(1..Items)
  BY DEF Item

(* The cases of Apply, one by one.                                          *)
LEMMA ApplyIs ==
    ASSUME NEW s \in Stages, NEW xs
    PROVE  /\ s.kind \in {"func", "fork"} => Apply(s, xs) = xs
           /\ s.kind = "filter" => Apply(s, xs) = Only(xs, Passing)
           /\ s.kind = "take" => Apply(s, xs) = SubSeq(xs, 1, IF s.n < Len(xs) THEN s.n ELSE Len(xs))
           /\ s.kind = "skip" => Apply(s, xs) = SubSeq(xs, s.n + 1, Len(xs))
           /\ s.kind = "group" => Apply(s, xs) = [k \in 1..(Len(xs) \div s.n) |-> FlattenSeq(Block(s, xs, k))]
           /\ s.kind = "reduce" => Apply(s, xs) = <<FlattenSeq(xs)>>
  BY DEF Apply, Passing, Block

(* The kinds of stages there are.                                           *)
LEMMA Kinds ==
    ASSUME NEW s \in Stages
    PROVE  /\ s.kind \in {"func", "fork", "filter", "take", "skip", "group", "reduce"}
           /\ s.n \in Nat
  BY DEF Stages, Plain, Counted

(* The elements of block k of group.                                        *)
LEMMA BlockFacts ==
    ASSUME NEW s \in Stages, s.n > 0, NEW xs \in Seq(Item),
           NEW k \in 1..(Len(xs) \div s.n)
    PROVE  /\ 1 <= (k - 1) * s.n + 1 /\ (k - 1) * s.n + 1 <= k * s.n /\ k * s.n <= Len(xs)
           /\ (k - 1) * s.n + 1 \in Int /\ k * s.n \in Int
           /\ (k - 1) * s.n + 1 \in ((k - 1) * s.n + 1)..(k * s.n)
           /\ Block(s, xs, k) \in Seq(Item)
           /\ ToSet(Block(s, xs, k)) = {xs[i] : i \in ((k - 1) * s.n + 1)..(k * s.n)}
           /\ Apart(xs) => Apart(Block(s, xs, k))
           /\ FlattenSeq(Block(s, xs, k)) \in Item
  <1> DEFINE n == s.n
             m == Len(xs) \div n
             a == (k - 1) * n + 1
             b == k * n
  <1>1. n \in Nat /\ Len(xs) \in Nat /\ m \in Nat /\ k \in Nat /\ 1 <= k /\ k <= m
    BY Kinds, DivBounds
  <1>2. k * n <= m * n /\ m * n <= Len(xs) /\ (k - 1) * n + n = k * n /\ 0 <= (k - 1) * n
        /\ (k - 1) * n \in Int /\ k * n \in Int /\ m * n \in Int
    <2>1. 0 * n <= (k - 1) * n /\ 0 * n = 0
      BY <1>1, TimesMonotonic
    <2> HIDE DEF n, m
    <2>2. k * n <= m * n /\ (k - 1) * n + n = k * n /\ (k - 1) * n \in Int /\ k * n \in Int /\ m * n \in Int
      BY <1>1, TimesMonotonic
    <2>3. m * n <= Len(xs)
      BY <1>1, DivBounds DEF m, n
    <2> QED
      BY <2>1, <2>2, <2>3
  <1> HIDE DEF n, m
  <1>3. a \in Int /\ b \in Int /\ 1 <= a /\ a <= b /\ b <= Len(xs) /\ a \in a..b
    <2> DEFINE c == (k - 1) * n
               d == k * n
    <2>1. c \in Int /\ d \in Int /\ c + n = d /\ 0 <= c /\ d <= Len(xs) /\ n > 0
      BY <1>1, <1>2 DEF n
    <2> HIDE DEF c, d
    <2>2. c + 1 \in Int /\ 1 <= c + 1 /\ c + 1 <= d
      BY <1>1, <2>1
    <2> QED
      BY <2>1, <2>2 DEF c, d
  <1> HIDE DEF a, b
  <1>4. /\ SubSeq(xs, a, b) \in Seq(Item)
        /\ ToSet(SubSeq(xs, a, b)) = {xs[i] : i \in a..b}
        /\ Apart(xs) => Apart(SubSeq(xs, a, b))
    BY <1>3, SliceFacts
  <1>5. FlattenSeq(SubSeq(xs, a, b)) \in Item
    BY <1>4, FlattenFacts DEF Item
  <1> QED
    BY <1>3, <1>4, <1>5 DEF a, b, n, Block

(* A stage makes items from items.                                          *)
LEMMA ApplyType ==
    ASSUME NEW s \in Stages, s.kind = "group" => s.n > 0, NEW xs \in Seq(Item)
    PROVE  Apply(s, xs) \in Seq(Item)
  <1>1. s.n \in Nat /\ Len(xs) \in Nat
    BY Kinds
  <1>2. CASE s.kind \in {"func", "fork"}
    BY <1>2, ApplyIs
  <1>3. CASE s.kind = "filter"
    BY <1>3, ApplyIs, OnlyMembers
  <1>4. CASE s.kind = "take"
    <2> DEFINE m == IF s.n < Len(xs) THEN s.n ELSE Len(xs)
    <2>1. m \in Int /\ m <= Len(xs)
      BY <1>1
    <2>2. Apply(s, xs) = SubSeq(xs, 1, m)
      BY <1>4, ApplyIs
    <2> HIDE DEF m
    <2> QED
      BY <1>1, <2>1, <2>2, SliceFacts
  <1>5. CASE s.kind = "skip"
    <2> DEFINE m == s.n + 1
    <2>1. m \in Int /\ 1 <= m
      BY <1>1
    <2>2. Apply(s, xs) = SubSeq(xs, m, Len(xs))
      BY <1>5, ApplyIs
    <2> HIDE DEF m
    <2> QED
      BY <1>1, <2>1, <2>2, SliceFacts
  <1>6. CASE s.kind = "group"
    <2> DEFINE m == Len(xs) \div s.n
               t == [k \in 1..m |-> FlattenSeq(Block(s, xs, k))]
    <2>1. m \in Nat
      BY <1>1, <1>6, DivBounds
    <2>2. \A k \in 1..m : FlattenSeq(Block(s, xs, k)) \in Item
      BY <1>6, BlockFacts
    <2> HIDE DEF m
    <2>3. t \in Seq(Item)
      BY <2>1, <2>2
    <2> QED
      BY <1>6, <2>3, ApplyIs DEF m
  <1>7. CASE s.kind = "reduce"
    <2>1. FlattenSeq(xs) \in Item
      BY FlattenFacts DEF Item
    <2>2. <<FlattenSeq(xs)>> \in Seq(Item)
      BY <2>1
    <2> QED
      BY <1>7, <2>2, ApplyIs
  <1> QED
    BY <1>2, <1>3, <1>4, <1>5, <1>6, <1>7, Kinds

(* A prefix goes to a prefix, except by reduce.                             *)
LEMMA ApplyPrefix ==
    ASSUME NEW s \in Stages, s.kind = "group" => s.n > 0, s.kind # "reduce",
           NEW xs \in Seq(Item), NEW ys \in Seq(Item), IsPrefix(xs, ys)
    PROVE  IsPrefix(Apply(s, xs), Apply(s, ys))
  <1>1. /\ s.n \in Nat /\ Len(xs) \in Nat /\ Len(ys) \in Nat /\ Len(xs) <= Len(ys)
        /\ \A i \in 1..Len(xs) : xs[i] = ys[i]
    BY Kinds, PrefixElements
  <1>2. CASE s.kind \in {"func", "fork"}
    BY <1>2, ApplyIs
  <1>3. CASE s.kind = "filter"
    BY <1>3, ApplyIs, OnlyPrefix
  <1> DEFINE t == Apply(s, xs)
             u == Apply(s, ys)
  <1>4. t \in Seq(Item) /\ u \in Seq(Item)
    BY ApplyType
  <1>5. CASE s.kind = "take"
    <2> DEFINE l == IF s.n < Len(xs) THEN s.n ELSE Len(xs)
               m == IF s.n < Len(ys) THEN s.n ELSE Len(ys)
    <2>1. l \in Nat /\ m \in Nat /\ l <= m /\ l <= Len(xs) /\ m <= Len(ys)
      BY <1>1
    <2>2. t = SubSeq(xs, 1, l) /\ u = SubSeq(ys, 1, m)
      BY <1>5, ApplyIs
    <2> HIDE DEF t, u, l, m
    <2>3. /\ Len(t) = l /\ Len(u) = m
          /\ \A i \in 1..l : t[i] = xs[i]
          /\ \A i \in 1..m : u[i] = ys[i]
      BY <2>1, <2>2
    <2> QED
      BY <1>1, <1>4, <2>1, <2>3, PrefixElements DEF t, u
  <1>6. CASE s.kind = "skip"
    <2> DEFINE n == s.n
               a == s.n + 1
               l == Len(xs)
               m == Len(ys)
    <2>1. t = SubSeq(xs, a, l) /\ u = SubSeq(ys, a, m)
      BY <1>6, ApplyIs
    <2>2. n \in Nat /\ l \in Nat /\ m \in Nat /\ l <= m /\ a = n + 1
      BY <1>1
    <2> HIDE DEF t, u, n, a
    <2>3. /\ Len(t) = IF a <= l THEN l - a + 1 ELSE 0
          /\ \A i \in 1..(l - a + 1) : t[i] = xs[a + i - 1]
      BY <2>1, <2>2, SliceFacts
    <2>4. /\ Len(u) = IF a <= m THEN m - a + 1 ELSE 0
          /\ \A i \in 1..(m - a + 1) : u[i] = ys[a + i - 1]
      BY <2>1, <2>2, SliceFacts
    <2> HIDE DEF l, m
    <2>5. Len(t) <= Len(u)
      BY <2>2, <2>3, <2>4
    <2>6. ASSUME NEW i \in 1..Len(t) PROVE t[i] = u[i]
      <3>1. i \in 1..(l - a + 1) /\ i \in 1..(m - a + 1) /\ a + i - 1 \in 1..l
        BY <2>2, <2>3
      <3>2. xs[a + i - 1] = ys[a + i - 1]
        BY <1>1, <3>1 DEF l
      <3> QED
        BY <2>3, <2>4, <3>1, <3>2
    <2> QED
      BY <1>4, <2>5, <2>6, PrefixElements DEF t, u
  <1>7. CASE s.kind = "group"
    <2> DEFINE l == Len(xs) \div s.n
               m == Len(ys) \div s.n
    <2>1. l \in Nat /\ m \in Nat /\ l <= m
      BY <1>1, <1>7, DivBounds, DivMonotonic
    <2>2. ASSUME NEW k \in 1..l PROVE Block(s, xs, k) = Block(s, ys, k)
      BY <1>7, BlockFacts, SliceOfPrefix DEF Block
    <2>3. /\ t = [k \in 1..l |-> FlattenSeq(Block(s, xs, k))]
          /\ u = [k \in 1..m |-> FlattenSeq(Block(s, ys, k))]
      BY <1>7, ApplyIs
    <2> HIDE DEF t, u, l, m
    <2>4. /\ Len(t) = l /\ Len(u) = m
          /\ \A i \in 1..l : t[i] = u[i]
      BY <2>1, <2>2, <2>3
    <2> QED
      BY <1>4, <2>1, <2>4, PrefixElements DEF t, u
  <1> QED
    BY <1>2, <1>3, <1>5, <1>6, <1>7, Kinds

(* No stage uses a part twice.                                              *)
LEMMA ApplyApart ==
    ASSUME NEW s \in Stages, s.kind = "group" => s.n > 0, NEW xs \in Seq(Item), Apart(xs)
    PROVE  Apart(Apply(s, xs))
  <1>1. s.n \in Nat /\ Len(xs) \in Nat /\ IsInjective(xs) /\ DOMAIN xs = 1..Len(xs)
    BY Kinds, ApartInjective
  <1>2. CASE s.kind \in {"func", "fork"}
    BY <1>2, ApplyIs
  <1>3. CASE s.kind = "filter"
    <2> DEFINE t == Only(xs, Passing)
    <2>1. t \in Seq(Item) /\ IsInjective(t) /\ \A e : Contains(t, e) => Contains(xs, e)
      BY <1>1, OnlyMembers
    <2> HIDE DEF t
    <2>2. ASSUME NEW e \in ToSet(t) PROVE e \in ToSet(xs)
      <3>1. DOMAIN t = 1..Len(t)
        BY <2>1
      <3>2. Contains(t, e)
        BY <3>1, Zenon DEF Contains, ToSet
      <3>3. Contains(xs, e)
        BY <2>1, <3>2
      <3> QED
        BY <1>1, <3>3, Zenon DEF Contains, ToSet
    <2> QED
      BY <1>3, <2>1, <2>2, ApplyIs, ApartSome DEF t
  <1>4. CASE s.kind = "take"
    <2> DEFINE m == IF s.n < Len(xs) THEN s.n ELSE Len(xs)
    <2>1. m \in Int /\ m <= Len(xs)
      BY <1>1
    <2>2. Apply(s, xs) = SubSeq(xs, 1, m)
      BY <1>4, ApplyIs
    <2> HIDE DEF m
    <2>3. Apart(SubSeq(xs, 1, m))
      BY ONLY xs \in Seq(Item), Apart(xs), <2>1, SliceFacts
    <2> QED
      BY <2>2, <2>3
  <1>5. CASE s.kind = "skip"
    <2> DEFINE m == s.n + 1
    <2>1. m \in Int /\ 1 <= m
      BY <1>1
    <2>2. Apply(s, xs) = SubSeq(xs, m, Len(xs))
      BY <1>5, ApplyIs
    <2> HIDE DEF m
    <2>3. Apart(SubSeq(xs, m, Len(xs)))
      BY ONLY xs \in Seq(Item), Apart(xs), <1>1, <2>1, SliceFacts
    <2> QED
      BY <2>2, <2>3
  <1>6. CASE s.kind = "group"
    <2> DEFINE m == Len(xs) \div s.n
               t == Apply(s, xs)
               lo(k) == (k - 1) * s.n + 1
               hi(k) == k * s.n
    <2>1. /\ m \in Nat /\ DOMAIN t = 1..m
          /\ \A k \in 1..m : t[k] = FlattenSeq(Block(s, xs, k))
      <3>1. t = [k \in 1..m |-> FlattenSeq(Block(s, xs, k))]
        BY <1>6, ApplyIs
      <3> HIDE DEF t
      <3> QED
        BY <1>1, <1>6, <3>1, DivBounds
    <2>2. ASSUME NEW k \in 1..m
          PROVE  /\ IsInjective(t[k])
                 /\ \A e : e \in ToSet(t[k]) <=> \E i \in lo(k)..hi(k) : e \in ToSet(xs[i])
                 /\ lo(k) \in lo(k)..hi(k) /\ lo(k) \in 1..Len(xs) /\ hi(k) \in 1..Len(xs)
      <3> DEFINE b == Block(s, xs, k)
      <3>1. /\ b \in Seq(Item) /\ Apart(b)
            /\ ToSet(b) = {xs[i] : i \in lo(k)..hi(k)}
            /\ lo(k) \in lo(k)..hi(k) /\ lo(k) \in 1..Len(xs) /\ hi(k) \in 1..Len(xs)
        <4>1. 1 <= lo(k) /\ lo(k) <= hi(k) /\ hi(k) <= Len(xs) /\ lo(k) \in Int /\ hi(k) \in Int
          BY <1>6, BlockFacts
        <4>2. /\ b \in Seq(Item) /\ Apart(b)
              /\ ToSet(b) = {xs[i] : i \in lo(k)..hi(k)}
          BY <1>6, BlockFacts
        <4> HIDE DEF b, lo, hi
        <4> QED
          BY <1>1, <4>1, <4>2
      <3> HIDE DEF b, lo, hi
      <3>2. IsInjective(FlattenSeq(b)) /\ ToSet(FlattenSeq(b)) = UNION Contents(b)
        BY <3>1, FlattenFacts DEF Item
      <3>3. \A e : e \in UNION Contents(b) <=> \E x \in ToSet(b) : e \in ToSet(x)
        <4>1. ASSUME NEW x \in ToSet(b) PROVE ToSet(x) \in Contents(b)
          <5>1. PICK i \in DOMAIN b : x = b[i]
            BY DEF ToSet
          <5> QED
            BY <5>1, Zenon DEF Contents
        <4>2. ASSUME NEW p \in Contents(b) PROVE \E x \in ToSet(b) : p = ToSet(x)
          <5>1. PICK i \in DOMAIN b : p = ToSet(b[i])
            BY Zenon DEF Contents
          <5>2. b[i] \in ToSet(b)
            BY Zenon DEF ToSet
          <5> QED
            BY <5>1, <5>2
        <4> QED
          BY <4>1, <4>2
      <3>4. t[k] = FlattenSeq(b)
        BY <2>1 DEF b
      <3> QED
        BY <3>1, <3>2, <3>3, <3>4
    <2>3. ASSUME NEW j \in 1..m, NEW k \in 1..m, j < k
          PROVE  ToSet(t[j]) # ToSet(t[k]) /\ ToSet(t[j]) \cap ToSet(t[k]) = {}
      <3>1. hi(j) < lo(k)
        <4>1. j * s.n <= (k - 1) * s.n /\ j * s.n \in Int /\ (k - 1) * s.n \in Int
          BY <1>1, <2>3, TimesMonotonic
        <4> QED
          BY <4>1
      <3>2. lo(j) \in 1..Len(xs) /\ hi(j) \in 1..Len(xs) /\ lo(k) \in 1..Len(xs) /\ hi(k) \in 1..Len(xs)
            /\ lo(j) <= hi(j)
        BY <2>2
      <3> HIDE DEF lo, hi, t
      <3>3. ASSUME NEW i \in lo(j)..hi(j), NEW l \in lo(k)..hi(k)
            PROVE  ToSet(xs[i]) # ToSet(xs[l]) /\ ToSet(xs[i]) \cap ToSet(xs[l]) = {}
        <4>1. i \in 1..Len(xs) /\ l \in 1..Len(xs) /\ i # l
          BY <3>1, <3>2
        <4> QED
          BY <1>1, <4>1 DEF Apart
      <3>4. ToSet(t[j]) \cap ToSet(t[k]) = {}
        BY <2>2, <3>3
      <3>5. PICK e : e \in ToSet(xs[lo(j)]) \/ e \in ToSet(xs[lo(k)])
        <4>1. lo(j) \in lo(j)..hi(j) /\ lo(k) \in lo(k)..hi(k)
          BY <2>2
        <4> QED
          BY <3>3, <4>1
      <3>6. e \in ToSet(t[j]) \/ e \in ToSet(t[k])
        BY <2>2, <3>5
      <3> QED
        BY <3>4, <3>6
    <2> HIDE DEF t, m, lo, hi
    <2>4. ASSUME NEW j \in DOMAIN t, NEW k \in DOMAIN t, j # k
          PROVE  ToSet(t[j]) # ToSet(t[k]) /\ ToSet(t[j]) \cap ToSet(t[k]) = {}
      <3>1. j \in 1..m /\ k \in 1..m /\ (j < k \/ k < j)
        BY <2>1, <2>4
      <3> QED
        BY <2>3, <3>1
    <2>5. Apart(t)
      BY <2>1, <2>2, <2>4 DEF Apart
    <2> QED
      BY <2>5 DEF t
  <1>7. CASE s.kind = "reduce"
    <2> DEFINE x == FlattenSeq(xs)
    <2>1. IsInjective(x)
      BY FlattenFacts DEF Item
    <2> HIDE DEF x
    <2>2. Apart(<<x>>)
      BY <2>1 DEF Apart
    <2> QED
      BY <1>7, <2>2, ApplyIs DEF x
  <1> QED
    BY <1>2, <1>3, <1>4, <1>5, <1>6, <1>7, Kinds

-----------------------------------------------------------------------------
(* One item more *)

(* take passes on an item as long as it has not passed on its number.       *)
LEMMA TakeOneMore ==
    ASSUME NEW s \in Stages, s.kind = "take", NEW xs \in Seq(Item), NEW x \in Item
    PROVE  /\ Len(Apply(s, xs)) = IF s.n < Len(xs) THEN s.n ELSE Len(xs)
           /\ Len(xs) < s.n => Apply(s, Append(xs, x)) = Append(Apply(s, xs), x)
  <1> DEFINE n == s.n
             l == Len(xs)
             ys == Append(xs, x)
             m == IF n < l THEN n ELSE l
  <1>1. n \in Nat /\ l \in Nat /\ ys \in Seq(Item) /\ Len(ys) = l + 1
    BY Kinds
  <1>2. m \in Nat /\ m <= l
    BY <1>1
  <1>3. Apply(s, xs) = SubSeq(xs, 1, m)
    BY ApplyIs
  <1>4. Len(SubSeq(xs, 1, m)) = m
    BY <1>1, <1>2
  <1>5. ASSUME l < n PROVE Apply(s, ys) = Append(Apply(s, xs), x)
    <2>1. (IF n < Len(ys) THEN n ELSE Len(ys)) = Len(ys)
      BY <1>1, <1>5
    <2>2. Apply(s, ys) = SubSeq(ys, 1, Len(ys))
      BY <2>1, ApplyIs
    <2>3. m = l
      BY <1>1, <1>5
    <2> QED
      BY <1>1, <1>3, <2>2, <2>3, WholeSubSeq
  <1> QED
    BY <1>3, <1>4, <1>5

(* skip drops an item as long as it has not dropped its number.             *)
LEMMA SkipOneMore ==
    ASSUME NEW s \in Stages, s.kind = "skip", NEW xs \in Seq(Item), NEW x \in Item
    PROVE  Apply(s, Append(xs, x)) =
             IF Len(xs) < s.n THEN Apply(s, xs) ELSE Append(Apply(s, xs), x)
  <1> DEFINE n == s.n
             a == s.n + 1
             l == Len(xs)
             ys == Append(xs, x)
             t == SubSeq(xs, a, l)
             u == SubSeq(ys, a, l + 1)
  <1>1. /\ n \in Nat /\ l \in Nat /\ ys \in Seq(Item) /\ Len(ys) = l + 1
        /\ \A i \in 1..l : ys[i] = xs[i]
        /\ ys[l + 1] = x
        /\ a = n + 1
    BY Kinds, AppendProperties
  <1>2. Apply(s, xs) = t /\ Apply(s, ys) = u
    BY <1>1, ApplyIs
  <1> HIDE DEF n, a, ys
  <1>3. /\ t \in Seq(Item) /\ Len(t) = IF a <= l THEN l - a + 1 ELSE 0
        /\ \A i \in 1..(l - a + 1) : t[i] = xs[a + i - 1]
    BY <1>1, SliceFacts
  <1>4. /\ u \in Seq(Item) /\ Len(u) = IF a <= l + 1 THEN l - a + 2 ELSE 0
        /\ \A i \in 1..(l - a + 2) : u[i] = ys[a + i - 1]
    <2> DEFINE m == l + 1
    <2>1. m \in Int /\ m = Len(ys) /\ m - a + 1 = l - a + 2
      BY <1>1
    <2> HIDE DEF m
    <2>2. /\ SubSeq(ys, a, m) \in Seq(Item) /\ Len(SubSeq(ys, a, m)) = IF a <= m THEN m - a + 1 ELSE 0
          /\ \A i \in 1..(m - a + 1) : SubSeq(ys, a, m)[i] = ys[a + i - 1]
      BY <1>1, <2>1, SliceFacts
    <2> QED
      BY <2>1, <2>2 DEF m
  <1> HIDE DEF t, u, l
  <1>5. CASE l < n
    <2>1. Len(t) = 0 /\ Len(u) = 0
      BY <1>1, <1>3, <1>4, <1>5
    <2>2. t = <<>> /\ u = <<>>
      BY <1>3, <1>4, <2>1
    <2> QED
      BY <1>2, <1>5, <2>2 DEF ys, n, l
  <1>6. CASE ~(l < n)
    <2> DEFINE v == Append(t, x)
    <2>1. /\ Len(t) = l - n /\ Len(u) = l - n + 1
          /\ v \in Seq(Item) /\ Len(v) = l - n + 1
          /\ \A i \in 1..(l - n) : v[i] = t[i]
          /\ v[l - n + 1] = x
      <3>1. Len(t) = l - n /\ Len(u) = l - n + 1
        BY <1>1, <1>3, <1>4, <1>6
      <3>2. /\ v \in Seq(Item) /\ Len(v) = Len(t) + 1
            /\ \A i \in 1..Len(t) : v[i] = t[i]
            /\ v[Len(t) + 1] = x
        BY <1>3, AppendProperties
      <3> HIDE DEF v
      <3> QED
        BY <3>1, <3>2
    <2> HIDE DEF v
    <2>2. ASSUME NEW i \in 1..(l - n + 1) PROVE u[i] = v[i]
      <3>1. u[i] = ys[n + i]
        BY <1>1, <1>4
      <3>2. CASE i = l - n + 1
        <4>1. n + i = l + 1
          BY <1>1, <3>2
        <4> QED
          BY <1>1, <2>1, <3>1, <3>2, <4>1
      <3>3. CASE i # l - n + 1
        <4>1. i \in 1..(l - n) /\ i \in 1..(l - a + 1) /\ n + i \in 1..l /\ a + i - 1 = n + i
          BY <1>1, <3>3
        <4> QED
          BY <1>1, <1>3, <2>1, <3>1, <4>1
      <3> QED
        BY <3>2, <3>3
    <2>3. u = v
      BY <1>4, <2>1, <2>2, SeqEqual
    <2> QED
      BY <1>2, <1>6, <2>3 DEF ys, n, l, v
  <1> QED
    BY <1>5, <1>6

(* What group has collected: the items behind the last full block.          *)
Rest(s, xs) == SubSeq(xs, (Len(xs) \div s.n) * s.n + 1, Len(xs))

(* group makes an item when it has collected its number of them.            *)
LEMMA GroupOneMore ==
    ASSUME NEW s \in Stages, s.kind = "group", s.n > 0, NEW xs \in Seq(Item), NEW x \in Item
    PROVE  LET all == Append(Rest(s, xs), x)
               ys  == Append(xs, x)
           IN  /\ Rest(s, xs) \in Seq(Item)
               /\ Len(Rest(s, xs)) < s.n
               /\ Len(all) = s.n => /\ Rest(s, ys) = <<>>
                                    /\ Apply(s, ys) = Append(Apply(s, xs), FlattenSeq(all))
               /\ Len(all) # s.n => /\ Rest(s, ys) = all
                                    /\ Apply(s, ys) = Apply(s, xs)
  <1> DEFINE n == s.n
             l == Len(xs)
             k == l \div n
             p == k * n
             r == SubSeq(xs, p + 1, l)
             all == Append(r, x)
             ys == Append(xs, x)
  <1>1. /\ n \in Nat /\ n > 0 /\ l \in Nat /\ ys \in Seq(Item) /\ Len(ys) = l + 1
        /\ \A i \in 1..l : ys[i] = xs[i]
        /\ ys[l + 1] = x
    BY Kinds, AppendProperties
  <1>2. k \in Nat /\ p <= l /\ l < p + n
    BY <1>1, DivBounds
  <1>3. p \in Nat /\ (k + 1) * n = p + n
    <2> HIDE DEF k, n
    <2> QED
      BY <1>1, <1>2
  <1>4. r = Rest(s, xs)
    BY DEF Rest
  <1> HIDE DEF l, n, p, k, ys
  <1>5. r \in Seq(Item) /\ Len(r) = l - p /\ \A i \in 1..(l - p) : r[i] = xs[p + i]
    <2> DEFINE a == p + 1
    <2>1. a \in Int /\ 1 <= a /\ l \in Int /\ l <= Len(xs) /\ a = p + 1
      BY <1>1, <1>3 DEF l
    <2> HIDE DEF a
    <2>2. /\ SubSeq(xs, a, l) \in Seq(Item) /\ Len(SubSeq(xs, a, l)) = IF a <= l THEN l - a + 1 ELSE 0
          /\ \A i \in 1..(l - a + 1) : SubSeq(xs, a, l)[i] = xs[a + i - 1]
      BY <2>1, SliceFacts
    <2>3. Len(SubSeq(xs, a, l)) = l - p
      BY <1>1, <1>2, <1>3, <2>1, <2>2
    <2>4. \A i \in 1..(l - p) : SubSeq(xs, a, l)[i] = xs[p + i]
      BY <1>1, <1>2, <1>3, <2>1, <2>2
    <2> QED
      BY <2>2, <2>3, <2>4 DEF a
  <1> HIDE DEF r
  <1>6. /\ all \in Seq(Item) /\ Len(all) = l - p + 1
        /\ \A i \in 1..(l - p + 1) : all[i] = ys[p + i]
    <2>1. /\ all \in Seq(Item) /\ Len(all) = l - p + 1
          /\ \A i \in 1..(l - p) : all[i] = r[i]
          /\ all[l - p + 1] = x
      BY <1>1, <1>2, <1>3, <1>5
    <2> HIDE DEF all
    <2>2. ASSUME NEW i \in 1..(l - p + 1) PROVE all[i] = ys[p + i]
      <3>1. CASE i = l - p + 1
        <4>1. p + i = l + 1
          BY <1>1, <1>3, <3>1
        <4> QED
          BY <1>1, <2>1, <3>1, <4>1
      <3>2. CASE i # l - p + 1
        <4>1. i \in 1..(l - p) /\ p + i \in 1..l
          BY <1>1, <1>2, <1>3, <3>2
        <4> QED
          BY <1>1, <1>5, <2>1, <4>1
      <3> QED
        BY <3>1, <3>2
    <2> QED
      BY <2>1, <2>2
  <1> HIDE DEF all
  (* A slice of ys that starts behind the full blocks of xs is all. *)
  <1>7. SubSeq(ys, p + 1, l + 1) = all
    <2> DEFINE a == p + 1
               b == l + 1
    <2>1. a \in Int /\ 1 <= a /\ b \in Int /\ b <= Len(ys) /\ a <= b /\ b - a + 1 = l - p + 1
      BY <1>1, <1>2, <1>3
    <2>2. \A i \in 1..(l - p + 1) : a + i - 1 = p + i
      BY <1>1, <1>2, <1>3
    <2> HIDE DEF a, b
    <2>3. /\ SubSeq(ys, a, b) \in Seq(Item) /\ Len(SubSeq(ys, a, b)) = b - a + 1
          /\ \A i \in 1..(b - a + 1) : SubSeq(ys, a, b)[i] = ys[a + i - 1]
      BY <1>1, <2>1, SliceFacts
    <2> DEFINE v == SubSeq(ys, a, b)
    <2> HIDE DEF v
    <2>4. Len(v) = Len(all) /\ \A i \in 1..Len(v) : v[i] = all[i]
      BY <1>6, <2>1, <2>2, <2>3 DEF v
    <2>5. v = all
      BY <1>6, <2>3, <2>4, SeqEqual DEF v
    <2> QED
      BY <2>5 DEF a, b, v
  (* The full blocks of xs are blocks of ys. *)
  <1>8. ASSUME NEW j \in 1..k PROVE Block(s, xs, j) = Block(s, ys, j)
    <2>1. IsPrefix(xs, ys)
      BY PrefixFacts DEF ys
    <2>2. j \in 1..(Len(xs) \div s.n)
      BY DEF k, l, n
    <2> QED
      BY <1>1, <2>1, <2>2, BlockFacts, SliceOfPrefix DEF Block
  <1>9. Apply(s, xs) = [j \in 1..k |-> FlattenSeq(Block(s, xs, j))]
    BY ApplyIs DEF k, l, n
  <1>10. Apply(s, xs) \in Seq(Item) /\ Apply(s, ys) \in Seq(Item)
    BY <1>1, ApplyType DEF n
  <1>11. ASSUME Len(all) = n
         PROVE  Rest(s, ys) = <<>> /\ Apply(s, ys) = Append(Apply(s, xs), FlattenSeq(all))
    <2>1. l + 1 = p + n
      BY <1>1, <1>2, <1>3, <1>6, <1>11
    <2>2. (l + 1) \div n = k + 1
      <3>1. k + 1 \in Nat /\ l + 1 \in Nat /\ (k + 1) * n <= l + 1 /\ l + 1 < (k + 1) * n + n
        BY <1>1, <1>2, <1>3, <2>1
      <3> QED
        BY <1>1, <3>1, DivIs
    <2>3. Rest(s, ys) = <<>>
      <3>1. Rest(s, ys) = SubSeq(ys, (k + 1) * n + 1, l + 1)
        BY <1>1, <2>2 DEF Rest, n
      <3>2. (k + 1) * n + 1 = l + 2
        BY <1>1, <1>3, <2>1
      <3>3. SubSeq(ys, l + 2, l + 1) = <<>>
        BY <1>1, SubSeqEmpty
      <3> QED
        BY <3>1, <3>2, <3>3
    <2> DEFINE t == Apply(s, ys)
               u == Append(Apply(s, xs), FlattenSeq(all))
    <2>4. t = [j \in 1..(k + 1) |-> FlattenSeq(Block(s, ys, j))]
      BY <1>1, <2>2, ApplyIs DEF n
    <2>5. Block(s, ys, k + 1) = all
      <3> DEFINE next == k + 1
      <3>1. (next - 1) * s.n + 1 = p + 1 /\ next * s.n = l + 1
        BY <1>2, <1>3, <2>1 DEF n, p
      <3> HIDE DEF next
      <3>2. \A j : Block(s, ys, j) = SubSeq(ys, (j - 1) * s.n + 1, j * s.n)
        BY DEF Block
      <3> QED
        BY <1>7, <3>1, <3>2 DEF next
    <2>6. FlattenSeq(all) \in Item
      BY <1>6, FlattenFacts DEF Item
    <2>7. /\ u \in Seq(Item) /\ Len(u) = k + 1
          /\ \A j \in 1..k : u[j] = FlattenSeq(Block(s, xs, j))
          /\ u[k + 1] = FlattenSeq(all)
      <3>1. Len(Apply(s, xs)) = k
        BY <1>2, <1>9
      <3>2. \A j \in 1..k : Apply(s, xs)[j] = FlattenSeq(Block(s, xs, j))
        BY <1>9
      <3> DEFINE g == Apply(s, xs)
                 y == FlattenSeq(all)
      <3> HIDE DEF g, y
      <3>3. /\ Append(g, y) \in Seq(Item) /\ Len(Append(g, y)) = Len(g) + 1
            /\ \A j \in 1..Len(g) : Append(g, y)[j] = g[j]
            /\ Append(g, y)[Len(g) + 1] = y
        BY <1>10, <2>6, AppendProperties DEF g, y
      <3> QED
        BY <3>1, <3>2, <3>3 DEF g, y
    <2> HIDE DEF t, u
    <2>8. Len(t) = k + 1 /\ \A j \in 1..(k + 1) : t[j] = FlattenSeq(Block(s, ys, j))
      BY <1>2, <2>4
    <2>9. ASSUME NEW j \in 1..(k + 1) PROVE t[j] = u[j]
      <3>1. CASE j = k + 1
        BY <2>5, <2>7, <2>8, <3>1
      <3>2. CASE j # k + 1
        <4>1. j \in 1..k
          BY <1>2, <3>2
        <4> QED
          BY <1>8, <2>7, <2>8, <4>1
      <3> QED
        BY <3>1, <3>2
    <2>10. t = u
      BY <1>10, <2>7, <2>8, <2>9, SeqEqual DEF t
    <2> QED
      BY <2>3, <2>10 DEF t, u
  <1>12. ASSUME Len(all) # n
         PROVE  Rest(s, ys) = all /\ Apply(s, ys) = Apply(s, xs)
    <2>1. l + 1 < p + n
      BY <1>1, <1>2, <1>3, <1>6, <1>12
    <2>2. (l + 1) \div n = k
      <3>1. l + 1 \in Nat /\ k * n <= l + 1 /\ l + 1 < k * n + n
        BY <1>1, <1>2, <1>3, <2>1 DEF p
      <3> QED
        BY <1>1, <1>2, <3>1, DivIs
    <2>3. Rest(s, ys) = SubSeq(ys, p + 1, l + 1)
      BY <1>1, <2>2 DEF Rest, n, p
    <2>4. Apply(s, ys) = [j \in 1..k |-> FlattenSeq(Block(s, ys, j))]
      BY <1>1, <2>2, ApplyIs DEF n
    <2> QED
      BY <1>7, <1>8, <1>9, <2>3, <2>4
  <1>13. Len(r) < n
    BY <1>1, <1>2, <1>3, <1>5
  <1> QED
    BY <1>4, <1>5, <1>11, <1>12, <1>13 DEF all, ys, n

-----------------------------------------------------------------------------
(* What the pipeline says *)

(* What the assumption says of the pipelines, stage by stage.               *)
LEMMA StageFacts ==
    ASSUME pipe \in Pipes
    PROVE  /\ LastChan \in Nat /\ DOMAIN pipe = 1..LastChan
           /\ \A i \in 1..LastChan : pipe[i] \in Stages /\ (pipe[i].kind \in {"fork", "group"} => pipe[i].n > 0)
  <1>1. pipe \in Seq(Stages)
    BY PipelineAssumption
  <1> QED
    BY <1>1, PipelineAssumption DEF LastChan

(* What the recursive function After is, up to channel n.                   *)
AfterSteps(f, n) ==
    f = [i \in 0..n |-> IF i = 0 THEN [k \in 1..Items |-> <<k>>] ELSE Apply(pipe[i], f[i - 1])]

(* There is such a function, ...                                            *)
LEMMA AfterStepsExist ==
    ASSUME NEW m \in Nat
    PROVE  \E f : AfterSteps(f, m)
  <1> DEFINE T == {n \in Nat : \E f : AfterSteps(f, n)}
             first == [k \in 1..Items |-> <<k>>]
  <1>1. 0 \in T
    <2>1. AfterSteps([i \in 0..0 |-> first], 0)
      BY DEF AfterSteps
    <2> QED
      BY <2>1
  <1>2. ASSUME NEW n \in Nat, n \in T PROVE n + 1 \in T
    <2>1. PICK f : AfterSteps(f, n)
      BY <1>2
    <2> HIDE DEF first
    <2> DEFINE g == [i \in 0..(n + 1) |->
                       IF i <= n THEN f[i] ELSE IF i = 0 THEN first ELSE Apply(pipe[i], f[i - 1])]
    <2>2. \A i \in 0..(n + 1) : i # 0 => i - 1 \in 0..n /\ g[i - 1] = f[i - 1]
      OBVIOUS
    <2>3. ASSUME NEW i \in 0..(n + 1)
          PROVE  g[i] = IF i = 0 THEN first ELSE Apply(pipe[i], g[i - 1])
      <3>1. CASE i <= n
        <4>1. i \in 0..n /\ g[i] = f[i]
          BY <3>1
        <4>2. f[i] = IF i = 0 THEN first ELSE Apply(pipe[i], f[i - 1])
          BY <2>1, <4>1 DEF AfterSteps, first
        <4> HIDE DEF g
        <4> QED
          BY <2>2, <4>1, <4>2
      <3>2. CASE i = n + 1
        BY <2>2, <3>2
      <3> QED
        BY <3>1, <3>2
    <2>4. g = [i \in 0..(n + 1) |-> g[i]]
      OBVIOUS
    <2> HIDE DEF g
    <2>5. AfterSteps(g, n + 1)
      BY <2>3, <2>4 DEF AfterSteps, first
    <2> QED
      BY <2>5
  <1> HIDE DEF T
  <1>3. m \in T
    BY <1>1, <1>2, SetInduction
  <1> QED
    BY <1>3 DEF T

(* ... so After satisfies its recursive definition, ...                     *)
LEMMA AfterIs ==
    ASSUME pipe \in Pipes
    PROVE  /\ After[0] = [k \in 1..Items |-> <<k>>]
           /\ \A i \in 1..LastChan : After[i] = Apply(pipe[i], After[i - 1])
  <1>1. LastChan \in Nat
    BY StageFacts
  <1>2. PICK g : AfterSteps(g, LastChan)
    BY <1>1, AfterStepsExist
  <1>3. AfterSteps(CHOOSE f : AfterSteps(f, LastChan), LastChan)
    BY <1>2, Zenon
  <1>4. After = CHOOSE f : AfterSteps(f, LastChan)
    BY DEF After, AfterSteps, LastChan
  <1>5. AfterSteps(After, LastChan)
    BY <1>3, <1>4
  <1>6. ASSUME NEW i \in 0..LastChan
        PROVE  After[i] = IF i = 0 THEN [k \in 1..Items |-> <<k>>] ELSE Apply(pipe[i], After[i - 1])
    BY <1>5 DEF AfterSteps
  <1> HIDE DEF LastChan
  <1>7. 0 \in 0..LastChan /\ \A i \in 1..LastChan : i \in 0..LastChan /\ i # 0
    BY <1>1
  <1> QED
    BY <1>6, <1>7

(* ... and what the pipeline says are items that have no part in common.    *)
LEMMA AfterFacts ==
    ASSUME pipe \in Pipes
    PROVE  \A i \in 0..LastChan : After[i] \in Seq(Item) /\ Apart(After[i])
  <1> DEFINE T == {n \in Nat : n <= LastChan => After[n] \in Seq(Item) /\ Apart(After[n])}
  <1>1. LastChan \in Nat
    BY StageFacts
  <1>2. 0 \in T
    <2> DEFINE s == [k \in 1..Items |-> <<k>>]
    <2>1. Items \in Nat
      BY PipelineAssumption
    <2>2. \A k \in 1..Items : <<k>> \in Item
      BY DEF Item
    <2>3. s \in Seq(Item) /\ DOMAIN s = 1..Items /\ \A k \in 1..Items : s[k] = <<k>>
      BY <2>1, <2>2
    <2> HIDE DEF s
    <2>4. \A k \in 1..Items : ToSet(<<k>>) = {k} /\ IsInjective(<<k>>)
      BY DEF ToSet, IsInjective
    <2>5. \A j, k \in 1..Items : j # k => {j} # {k} /\ {j} \cap {k} = {}
      OBVIOUS
    <2>6. \A k \in 1..Items : ToSet(s[k]) = {k} /\ IsInjective(s[k])
      BY <2>3, <2>4
    <2>7. Apart(s)
      BY <2>3, <2>5, <2>6, Zenon DEF Apart
    <2> QED
      BY <2>3, <2>7, AfterIs DEF s
  <1>3. ASSUME NEW n \in Nat, n \in T PROVE n + 1 \in T
    <2> SUFFICES ASSUME n + 1 <= LastChan
                 PROVE  After[n + 1] \in Seq(Item) /\ Apart(After[n + 1])
      OBVIOUS
    <2>1. n + 1 \in 1..LastChan /\ (n + 1) - 1 = n /\ n <= LastChan
      BY <1>1
    <2>2. After[n + 1] = Apply(pipe[n + 1], After[n])
      BY <2>1, AfterIs
    <2>3. pipe[n + 1] \in Stages /\ (pipe[n + 1].kind = "group" => pipe[n + 1].n > 0)
      BY <2>1, StageFacts
    <2>4. After[n] \in Seq(Item) /\ Apart(After[n])
      BY <1>3, <2>1
    <2> QED
      BY <2>2, <2>3, <2>4, ApplyType, ApplyApart
  <1> HIDE DEF T
  <1>4. ASSUME NEW i \in 0..LastChan PROVE i \in T
    <2>1. i \in Nat
      BY <1>1
    <2> QED
      BY <1>2, <1>3, <2>1, SetInduction
  <1> QED
    BY <1>1, <1>4 DEF T

-----------------------------------------------------------------------------
(* Parts of it *)

(* A filter looks only at the contents of an item, not at its order.        *)
LEMMA FilterContents ==
    ASSUME NEW xs \in Seq(Item)
    PROVE  Contents(Only(xs, Passing)) = {p \in Contents(xs) : p \cap Dropped = {}}
  <1> DEFINE t == Only(xs, Passing)
  <1>1. t \in Seq(Item) /\ \A e : Contains(t, e) <=> Contains(xs, e) /\ e \in Passing
    BY OnlyMembers
  <1> HIDE DEF t
  <1>2. ASSUME NEW k \in DOMAIN t
        PROVE  ToSet(t[k]) \in Contents(xs) /\ ToSet(t[k]) \cap Dropped = {}
    <2>1. Contains(xs, t[k]) /\ t[k] \in Passing
      <3>1. Contains(t, t[k])
        BY <1>1 DEF Contains
      <3> QED
        BY <1>1, <3>1
    <2>2. PICK j \in DOMAIN xs : xs[j] = t[k]
      BY <2>1 DEF Contains
    <2> QED
      BY <2>1, <2>2, Zenon DEF Contents, Passing, Passes
  <1>3. ASSUME NEW j \in DOMAIN xs, ToSet(xs[j]) \cap Dropped = {}
        PROVE  ToSet(xs[j]) \in Contents(t)
    <2>1. xs[j] \in Item
      OBVIOUS
    <2>2. Contains(xs, xs[j]) /\ xs[j] \in Passing
      BY <1>3, <2>1 DEF Contains, Passing, Passes
    <2>3. PICK k \in DOMAIN t : t[k] = xs[j]
      BY <1>1, <2>2 DEF Contains
    <2> QED
      BY <2>3, Zenon DEF Contents
  <1>4. ASSUME NEW p \in Contents(t) PROVE p \in Contents(xs) /\ p \cap Dropped = {}
    BY <1>2, <1>4 DEF Contents
  <1>5. ASSUME NEW p \in Contents(xs), p \cap Dropped = {} PROVE p \in Contents(t)
    BY <1>3, <1>5 DEF Contents
  <1> QED
    BY <1>4, <1>5 DEF t

(* The contents of one item.                                                *)
LEMMA OneContent == ASSUME NEW x PROVE Contents(<<x>>) = {ToSet(x)}
  BY DEF Contents

(* Where the order is still that of the source.                             *)
LEMMA OrderedFacts ==
    ASSUME pipe \in Pipes, NEW i \in 1..LastChan
    PROVE  /\ Ordered(i) => Ordered(i - 1) /\ pipe[i].kind # "fork"
           /\ pipe[i].kind = "fork" => ~Ordered(i)
           /\ pipe[i].kind # "fork" /\ Ordered(i - 1) => Ordered(i)
           /\ OrderFree /\ ~Ordered(i) => pipe[i].kind \in {"func", "filter", "reduce", "fork"}
  <1>1. LastChan \in Nat /\ DOMAIN pipe = 1..LastChan /\ i \in DOMAIN pipe
    BY StageFacts
  <1>2. i \in Forks <=> pipe[i].kind = "fork"
    BY <1>1 DEF Forks
  <1>3. i \in 1..i /\ 1..i = (1..(i - 1)) \cup {i}
    BY <1>1
  <1>4. ASSUME OrderFree, ~Ordered(i) PROVE pipe[i].kind \in {"func", "filter", "reduce", "fork"}
    <2>1. PICK j \in 1..i : j \in Forks
      BY <1>4 DEF Ordered
    <2>2. CASE j = i
      BY <1>2, <2>1, <2>2
    <2>3. CASE j # i
      <3>1. j \in DOMAIN pipe /\ j < i
        BY <1>1, <2>3
      <3> QED
        BY <1>1, <1>4, <2>1, <3>1 DEF OrderFree
    <2> QED
      BY <2>2, <2>3
  <1> QED
    BY <1>2, <1>3, <1>4 DEF Ordered

(* A part of what the pipeline says has parts, and the whole is one.        *)
LEMMA PartFacts ==
    ASSUME pipe \in Pipes, NEW i \in 0..LastChan, NEW xs \in Seq(Item)
    PROVE  /\ IsPart(i, xs) => Apart(xs)
           /\ IsWhole(i, xs) => IsPart(i, xs)
           /\ \A ys \in Seq(Item) : IsPart(i, xs) /\ IsPrefix(ys, xs) => IsPart(i, ys)
  <1>1. After[i] \in Seq(Item) /\ Apart(After[i])
    BY AfterFacts
  <1>2. ASSUME IsPart(i, xs) PROVE Apart(xs)
    BY <1>1, <1>2, PrefixSome DEF IsPart
  <1>3. ASSUME IsWhole(i, xs) PROVE IsPart(i, xs)
    BY <1>1, <1>3, PrefixFacts DEF IsPart, IsWhole
  <1>4. ASSUME NEW ys \in Seq(Item), IsPart(i, xs), IsPrefix(ys, xs) PROVE IsPart(i, ys)
    <2>1. CASE Ordered(i)
      BY <1>1, <1>4, <2>1, PrefixTrans DEF IsPart
    <2>2. CASE ~Ordered(i)
      BY <1>4, <2>2, PrefixSome DEF IsPart
    <2> QED
      BY <2>1, <2>2
  <1> QED
    BY <1>2, <1>3, <1>4

(* What a stage makes of a part is a part of what is after it, ...          *)
LEMMA PartApply ==
    ASSUME pipe \in Pipes, OrderFree, NEW i \in 1..LastChan, NEW xs \in Seq(Item),
           pipe[i].kind # "fork", pipe[i].kind # "reduce", IsPart(i - 1, xs)
    PROVE  IsPart(i, Apply(pipe[i], xs))
  <1> DEFINE s == pipe[i]
             ws == After[i - 1]
  <1>1. s \in Stages /\ (s.kind = "group" => s.n > 0) /\ LastChan \in Nat
    BY StageFacts
  <1>2. i - 1 \in 0..LastChan /\ i \in 0..LastChan
    BY <1>1
  <1>3. ws \in Seq(Item) /\ After[i] = Apply(s, ws)
    BY <1>2, AfterIs, AfterFacts
  <1>4. Apart(xs)
    BY <1>2, PartFacts
  <1>5. Apart(Apply(s, xs))
    BY <1>1, <1>4, ApplyApart
  <1>6. CASE Ordered(i)
    <2>1. IsPrefix(xs, ws)
      BY <1>6, OrderedFacts DEF IsPart
    <2>2. IsPrefix(Apply(s, xs), Apply(s, ws))
      BY <1>1, <1>3, <2>1, ApplyPrefix
    <2> QED
      BY <1>3, <1>6, <2>2 DEF IsPart
  <1>7. CASE ~Ordered(i)
    <2>1. s.kind \in {"func", "filter"} /\ ~Ordered(i - 1)
      BY <1>7, OrderedFacts
    <2>2. Contents(xs) \subseteq Contents(ws)
      BY <2>1 DEF IsPart
    <2>3. Contents(Apply(s, xs)) \subseteq Contents(Apply(s, ws))
      <3>1. CASE s.kind = "func"
        BY <1>1, <2>2, <3>1, ApplyIs
      <3>2. CASE s.kind = "filter"
        BY <1>1, <1>3, <2>2, <3>2, ApplyIs, FilterContents
      <3> QED
        BY <2>1, <3>1, <3>2
    <2> QED
      BY <1>3, <1>5, <1>7, <2>3 DEF IsPart
  <1> QED
    BY <1>6, <1>7

(* ... and what it makes of the whole is the whole.                         *)
LEMMA WholeApply ==
    ASSUME pipe \in Pipes, OrderFree, NEW i \in 1..LastChan, NEW xs \in Seq(Item),
           pipe[i].kind # "fork", IsWhole(i - 1, xs)
    PROVE  IsWhole(i, Apply(pipe[i], xs))
  <1> DEFINE s == pipe[i]
             ws == After[i - 1]
  <1>1. s \in Stages /\ (s.kind = "group" => s.n > 0) /\ LastChan \in Nat
    BY StageFacts
  <1>2. i - 1 \in 0..LastChan /\ i \in 0..LastChan
    BY <1>1
  <1>3. ws \in Seq(Item) /\ After[i] = Apply(s, ws)
    BY <1>2, AfterIs, AfterFacts
  <1>4. Apart(xs)
    BY <1>2, PartFacts
  <1>5. Apart(Apply(s, xs))
    BY <1>1, <1>4, ApplyApart
  <1>6. CASE Ordered(i)
    BY <1>3, <1>6, OrderedFacts DEF IsWhole
  <1>7. CASE ~Ordered(i)
    <2>1. s.kind \in {"func", "filter", "reduce"} /\ ~Ordered(i - 1)
      BY <1>7, OrderedFacts
    <2>2. Contents(xs) = Contents(ws)
      BY <2>1 DEF IsWhole
    <2>3. Contents(Apply(s, xs)) = Contents(Apply(s, ws))
      <3>1. CASE s.kind = "func"
        BY <1>1, <2>2, <3>1, ApplyIs
      <3>2. CASE s.kind = "filter"
        BY <1>1, <1>3, <2>2, <3>2, ApplyIs, FilterContents
      <3>3. CASE s.kind = "reduce"
        <4>1. ToSet(FlattenSeq(xs)) = UNION Contents(xs) /\ ToSet(FlattenSeq(ws)) = UNION Contents(ws)
          BY <1>3, FlattenFacts DEF Item
        <4>2. Apply(s, xs) = <<FlattenSeq(xs)>> /\ Apply(s, ws) = <<FlattenSeq(ws)>>
          BY <1>1, <3>3, ApplyIs
        <4> QED
          BY <2>2, <4>1, <4>2, OneContent
      <3> QED
        BY <2>1, <3>1, <3>2, <3>3
    <2> QED
      BY <1>3, <1>5, <1>7, <2>3 DEF IsWhole
  <1> QED
    BY <1>6, <1>7

(* A fork lets everything through, in any order.                            *)
LEMMA ForkApply ==
    ASSUME pipe \in Pipes, NEW i \in 1..LastChan, NEW xs \in Seq(Item),
           pipe[i].kind = "fork", IsPart(i - 1, xs),
           NEW ys \in Seq(Item), IsInjective(ys), ToSet(ys) \subseteq ToSet(xs)
    PROVE  /\ IsPart(i, ys)
           /\ IsWhole(i - 1, xs) /\ ToSet(xs) \subseteq ToSet(ys) => IsWhole(i, ys)
  <1> DEFINE ws == After[i - 1]
  <1>1. pipe[i] \in Stages /\ LastChan \in Nat
    BY StageFacts
  <1>2. i - 1 \in 0..LastChan /\ i \in 0..LastChan /\ ~Ordered(i)
    BY <1>1, OrderedFacts
  <1>3. ws \in Seq(Item) /\ After[i] = ws
    BY <1>1, <1>2, AfterIs, AfterFacts, ApplyIs
  <1>4. Apart(xs)
    BY <1>2, PartFacts
  <1>5. Apart(ys)
    BY <1>4, ApartSome
  <1>6. Contents(ys) \subseteq Contents(xs) /\ Contents(xs) \subseteq Contents(ws)
    <2>1. Contents(xs) \subseteq Contents(ws)
      BY <1>3, PrefixSome DEF IsPart
    <2>2. Contents(ys) \subseteq Contents(xs)
      BY ContentsSome
    <2> QED
      BY <2>1, <2>2
  <1>7. ASSUME IsWhole(i - 1, xs), ToSet(xs) \subseteq ToSet(ys) PROVE IsWhole(i, ys)
    <2>1. Contents(xs) = Contents(ws)
      BY <1>7 DEF IsWhole
    <2>2. Contents(xs) \subseteq Contents(ys)
      BY <1>7, ContentsSome
    <2> HIDE DEF ws
    <2>3. Contents(ys) = Contents(ws)
      BY <1>6, <2>1, <2>2
    <2> QED
      BY <1>2, <1>3, <1>5, <2>3 DEF IsWhole
  <1> QED
    BY <1>2, <1>3, <1>5, <1>6, <1>7 DEF IsPart

-----------------------------------------------------------------------------
(* Types *)

Where == {"pop", "push", "taken", "join", "close", "closeIn", "done"}

TypeInv == TypeOK /\ AtLabels

Limit(c) == IF c = Source THEN Items ELSE Stage(c).n

(* The coroutines other than the source. *)
LEMMA CoFacts ==
    ASSUME pipe \in Pipes, NEW c \in Cos(pipe), c # Source
    PROVE  /\ c[1] \in 1..LastChan
           /\ Stage(c) = pipe[c[1]] /\ Stage(c) \in Stages /\ Stage(c).n \in Nat
           /\ In(c) = c[1] - 1 /\ In(c) \in 0..LastChan /\ Out(c) = c[1] /\ Out(c) \in 0..LastChan
           /\ \/ c = Main(c[1]) /\ c[2] = 0
              \/ c \in Workers(pipe, c[1]) /\ c[2] # 0 /\ Stage(c).kind = "fork"
  <1>1. DOMAIN pipe = 1..LastChan /\ LastChan \in Nat
    BY StageFacts
  <1>2. PICK i \in DOMAIN pipe : c \in {<<i, 0>>} \cup Workers(pipe, i)
    BY DEF Cos
  <1>3. \A w : <<i, w>>[1] = i /\ <<i, w>>[2] = w
    OBVIOUS
  <1>4. \/ c = <<i, 0>>
        \/ pipe[i].kind = "fork" /\ \E w \in 1..pipe[i].n : c = <<i, w>>
    BY <1>2 DEF Workers
  <1>5. c[1] = i /\ c \in {<<i, 0>>} \cup Workers(pipe, i)
    BY <1>2, <1>3, <1>4
  <1>6. pipe[i] \in Stages /\ pipe[i].n \in Nat
    BY <1>1, StageFacts, Kinds
  <1>7. \/ c = Main(c[1]) /\ c[2] = 0
        \/ c \in Workers(pipe, c[1]) /\ c[2] # 0 /\ Stage(c).kind = "fork"
    <2>1. CASE c = <<i, 0>>
      BY <1>3, <1>5, <2>1 DEF Main
    <2>2. CASE pipe[i].kind = "fork" /\ \E w \in 1..pipe[i].n : c = <<i, w>>
      <3>1. PICK w \in 1..pipe[i].n : c = <<i, w>>
        BY <2>2
      <3>2. w # 0 /\ c[2] = w
        BY <1>3, <1>6, <3>1
      <3>3. c \in Workers(pipe, c[1])
        BY <1>5, <2>2, <3>1 DEF Workers
      <3> QED
        BY <1>5, <2>2, <3>2, <3>3 DEF Stage
    <2> QED
      BY <1>4, <2>1, <2>2
  <1>8. c[1] - 1 \in 0..LastChan /\ c[1] \in 1..LastChan /\ c[1] \in 0..LastChan
    BY <1>1, <1>5
  <1> QED
    BY <1>5, <1>6, <1>7, <1>8 DEF Stage, In, Out

(* Each stage has its own coroutine, and none has that of another.          *)
LEMMA MainFacts ==
    ASSUME pipe \in Pipes
    PROVE  /\ Source \in Cos(pipe) /\ Source = Main(0)
           /\ \A i \in 1..LastChan : /\ Main(i) \in Cos(pipe) /\ Main(i) # Source
                                     /\ Main(i)[1] = i /\ Main(i)[2] = 0
                                     /\ Workers(pipe, i) \subseteq Cos(pipe)
           /\ \A i, j \in 0..LastChan : Main(i) = Main(j) => i = j
  <1>1. DOMAIN pipe = 1..LastChan /\ LastChan \in Nat
    BY StageFacts
  <1>2. \A i, j \in 0..LastChan : <<i, 0>> = <<j, 0>> => i = j
    OBVIOUS
  <1>3. \A i \in 1..LastChan : i \in 0..LastChan /\ 0 \in 0..LastChan /\ i # 0
    BY <1>1
  <1>4. \A i \in 1..LastChan : /\ Main(i) \in Cos(pipe) /\ Main(i)[1] = i /\ Main(i)[2] = 0
                               /\ Workers(pipe, i) \subseteq Cos(pipe)
    BY <1>1 DEF Main, Cos
  <1> QED
    BY <1>2, <1>3, <1>4 DEF Main, Cos, Source

(* A coroutine that moves to one of its places leaves all at theirs.        *)
LEMMA LabelStep ==
    ASSUME TypeInv, UNCHANGED <<pipe>>, NEW c \in Cos(pipe),
           NEW to \in Labels(c), pc' = [pc EXCEPT ![c] = to],
           count' \in [Cos(pipe) -> Nat], count'[c] <= Limit(c),
           \A d \in Cos(pipe) : d # c => count'[d] = count[d],
           c # Source /\ Stage(c).kind = "take" /\ to \in {"pop", "push"} => count'[c] < Stage(c).n
    PROVE  /\ AtLabels'
           /\ pc' \in [Cos(pipe) -> Where]
           /\ \A d \in Cos(pipe) : count'[d] <= Limit(d)
  <1>1. \A d \in Cos(pipe) : Labels(d)' = Labels(d) /\ Stage(d)' = Stage(d) /\ Labels(d) \subseteq Where
    BY DEF Labels, Stage, Where
  <1>2. pc \in [Cos(pipe) -> Where] /\ \A d \in Cos(pipe) : count[d] <= Limit(d)
    BY DEF TypeInv, TypeOK, Where, Limit
  <1>3. pc' \in [Cos(pipe) -> Where] /\ pc'[c] = to /\ \A d \in Cos(pipe) : d # c => pc'[d] = pc[d]
    BY <1>1, <1>2
  <1>4. ASSUME NEW d \in Cos(pipe)
        PROVE  /\ pc'[d] \in Labels(d)'
               /\ d # Source /\ Stage(d)'.kind = "take" /\ pc'[d] \in {"pop", "push"} => count'[d] < Stage(d)'.n
    <2>1. CASE d = c
      BY <1>1, <1>3, <2>1
    <2>2. CASE d # c
      BY <1>1, <1>3, <2>2 DEF TypeInv, AtLabels
    <2> QED
      BY <2>1, <2>2
  <1>5. AtLabels'
    BY <1>4 DEF AtLabels
  <1>6. \A d \in Cos(pipe) : count'[d] <= Limit(d)
    BY <1>2
  <1> QED
    BY <1>3, <1>5, <1>6

(* A push and a pop keep the types of the channels.                         *)
LEMMA ChanStep ==
    ASSUME TypeOK, NEW i \in 0..LastChan
    PROVE  /\ Popped(i) => /\ data[i] # <<>> /\ Head(data[i]) \in Item
                           /\ data' \in [0..LastChan -> Seq(Item)]
                           /\ popped' \in [0..LastChan -> Seq(Item)]
           /\ \A x \in Item : Accepted(i, x) => /\ data' \in [0..LastChan -> Seq(Item)]
                                                /\ popped' \in [0..LastChan -> Seq(Item)]
  <1>1. data \in [0..LastChan -> Seq(Item)] /\ popped \in [0..LastChan -> Seq(Item)]
    BY DEF TypeOK
  <1>2. ASSUME Popped(i)
        PROVE  /\ data[i] # <<>> /\ Head(data[i]) \in Item
               /\ data' \in [0..LastChan -> Seq(Item)]
               /\ popped' \in [0..LastChan -> Seq(Item)]
    <2>1. /\ data[i] # <<>> /\ data' = [data EXCEPT ![i] = Tail(data[i])]
          /\ popped' = [popped EXCEPT ![i] = Append(popped[i], Head(data[i]))]
      BY <1>2 DEF Popped
    <2>2. Head(data[i]) \in Item /\ Tail(data[i]) \in Seq(Item)
      BY <1>1, <2>1, HeadTailProperties
    <2>3. Append(popped[i], Head(data[i])) \in Seq(Item)
      BY <1>1, <2>2
    <2> QED
      BY <1>1, <2>1, <2>2, <2>3
  <1>3. ASSUME NEW x \in Item, Accepted(i, x)
        PROVE  data' \in [0..LastChan -> Seq(Item)] /\ popped' \in [0..LastChan -> Seq(Item)]
    <2>1. data' = [data EXCEPT ![i] = Append(data[i], x)] /\ popped' = popped
      BY <1>3 DEF Accepted
    <2>2. Append(data[i], x) \in Seq(Item)
      BY <1>1
    <2> QED
      BY <1>1, <2>1, <2>2
  <1> QED
    BY <1>2, <1>3

(* Where a coroutine can go from where it is.                               *)
LEMMA LabelFacts ==
    ASSUME TypeInv, NEW c \in Cos(pipe)
    PROVE  /\ pc[c] \in Labels(c)
           /\ pc[c] \in {"pop", "push"} /\ c # Source =>
                /\ {"pop", "push"} \subseteq Labels(c)
                /\ Stage(c).kind = "fork" => "done" \in Labels(c) /\ c \in Workers(pipe, c[1])
                /\ Stage(c).kind # "fork" => "close" \in Labels(c) /\ c = Main(c[1])
                /\ Stage(c).kind \in {"take", "group"} => "closeIn" \in Labels(c)
           /\ pc[c] = "pop" => c # Source
           /\ pc[c] \in {"push", "taken"} /\ c = Source => {"push", "taken", "close"} \subseteq Labels(c)
           /\ pc[c] = "join" => c # Source /\ Stage(c).kind = "fork" /\ c = Main(c[1]) /\ "close" \in Labels(c)
           /\ pc[c] = "close" => "done" \in Labels(c) /\ (c # Source => c = Main(c[1]))
           /\ pc[c] = "close" /\ c # Source /\ Stage(c).kind = "take" => "closeIn" \in Labels(c)
           /\ pc[c] = "closeIn" => /\ c # Source /\ Stage(c).kind \in {"take", "group"}
                                   /\ c = Main(c[1]) /\ "done" \in Labels(c)
  <1>1. pc[c] \in Labels(c) /\ pipe \in Pipes
    BY DEF TypeInv, TypeOK, AtLabels
  <1>2. CASE c = Source
    BY <1>1, <1>2 DEF Labels
  <1>3. CASE c # Source
    <2>1. /\ Stage(c) \in Stages
          /\ \/ c = Main(c[1]) /\ c[2] = 0
             \/ c \in Workers(pipe, c[1]) /\ c[2] # 0 /\ Stage(c).kind = "fork"
      BY <1>1, <1>3, CoFacts
    <2> DEFINE k == Stage(c).kind
               z == c[2]
    <2> HIDE DEF k, z
    <2>2. Labels(c) =
            CASE k = "fork" /\ z = 0       -> {"join", "close", "done"}
              [] k = "fork" /\ z # 0       -> {"pop", "push", "done"}
              [] k \in {"take", "group"}   -> {"pop", "push", "close", "closeIn", "done"}
              [] OTHER                     -> {"pop", "push", "close", "done"}
      BY <1>3 DEF Labels, k, z
    <2>3. \/ k = "fork" /\ z = 0 /\ Labels(c) = {"join", "close", "done"}
          \/ k = "fork" /\ z # 0 /\ Labels(c) = {"pop", "push", "done"}
          \/ k \in {"take", "group"} /\ Labels(c) = {"pop", "push", "close", "closeIn", "done"}
          \/ k \notin {"take", "group", "fork"} /\ Labels(c) = {"pop", "push", "close", "done"}
      BY <2>2
    <2> QED
      BY <1>1, <1>3, <2>1, <2>3 DEF k, z
  <1> QED
    BY <1>2, <1>3

(* A step of one coroutine, with what it does to the rest.                  *)
LEMMA CoTypes ==
    ASSUME TypeInv, UNCHANGED <<pipe, maxSize>>, NEW c \in Cos(pipe),
           NEW to \in Labels(c), pc' = [pc EXCEPT ![c] = to],
           count' \in [Cos(pipe) -> Nat], count'[c] <= Limit(c),
           \A d \in Cos(pipe) : d # c => count'[d] = count[d],
           c # Source /\ Stage(c).kind = "take" /\ to \in {"pop", "push"} => count'[c] < Stage(c).n,
           data' \in [0..LastChan -> Seq(Item)], popped' \in [0..LastChan -> Seq(Item)],
           closed' \subseteq 0..LastChan,
           batch' \in [Cos(pipe) -> Seq(Item)], hand' \in [Cos(pipe) -> Item],
           ended' \in BOOLEAN, quit' \in BOOLEAN
    PROVE  TypeInv'
  <1>1. /\ AtLabels'
        /\ pc' \in [Cos(pipe) -> Where]
        /\ \A d \in Cos(pipe) : count'[d] <= Limit(d)
    BY LabelStep
  <1>2. \A d \in Cos(pipe) : Limit(d) = IF d = Source THEN Items ELSE Stage(d).n
    BY DEF Limit
  <1>3. TypeOK'
    BY <1>1, <1>2 DEF TypeInv, TypeOK, Where, Stage, LastChan
  <1> QED
    BY <1>1, <1>3 DEF TypeInv

(* The source keeps the types, ...                                          *)
LEMMA SourceTypes ==
    ASSUME TypeInv, SourceNext
    PROVE  TypeInv'
  <1> DEFINE c == Source
  <1>1. /\ pipe \in Pipes /\ c \in Cos(pipe) /\ Items \in Nat
        /\ data \in [0..LastChan -> Seq(Item)] /\ popped \in [0..LastChan -> Seq(Item)]
        /\ closed \subseteq 0..LastChan /\ ended \in BOOLEAN /\ quit \in BOOLEAN
        /\ count \in [Cos(pipe) -> Nat] /\ count[c] <= Limit(c) /\ Limit(c) = Items
        /\ batch \in [Cos(pipe) -> Seq(Item)] /\ hand \in [Cos(pipe) -> Item]
        /\ pc \in [Cos(pipe) -> Where] /\ 0 \in 0..LastChan
    BY MainFacts, StageFacts, PipelineAssumption DEF TypeInv, TypeOK, Limit, Where
  <1>2. CASE SourcePush
    <2>1. pc[c] = "push" /\ {"push", "taken", "close"} \subseteq Labels(c)
      BY <1>1, <1>2, LabelFacts DEF SourcePush
    <2>2. <<count[c] + 1>> \in Item
      <3>1. count[c] + 1 \in 1..Items
        BY <1>1, <1>2 DEF SourcePush
      <3> QED
        BY <3>1 DEF Item
    <2>3. data' \in [0..LastChan -> Seq(Item)] /\ popped' \in [0..LastChan -> Seq(Item)]
      BY <1>1, <1>2, <2>2, ChanStep DEF SourcePush, TypeInv
    <2>4. /\ count' = [count EXCEPT ![c] = count[c] + 1]
          /\ count' \in [Cos(pipe) -> Nat] /\ count'[c] <= Limit(c)
          /\ \A d \in Cos(pipe) : d # c => count'[d] = count[d]
      BY <1>1, <1>2 DEF SourcePush, Counting
    <2>5. PICK to \in {"push", "taken"} : pc' = [pc EXCEPT ![c] = to]
      BY <1>1, <1>2, <2>1 DEF SourcePush, Goto
    <2>6. to \in Labels(c)
      BY <2>1, <2>5
    <2>7. UNCHANGED <<pipe, maxSize, closed, batch, hand, ended, quit>>
      BY <1>2 DEF SourcePush, userVars
    <2> HIDE DEF c
    <2> QED
      BY <1>1, <2>3, <2>4, <2>5, <2>6, <2>7, CoTypes DEF c
  <1>3. ASSUME SourceTaken \/ SourceStops PROVE TypeInv'
    <2>1. pc[c] \in {"push", "taken"} /\ {"push", "taken", "close"} \subseteq Labels(c)
      BY <1>1, <1>3, LabelFacts DEF SourceTaken, SourceStops
    <2>2. PICK to \in {"push", "close"} : pc' = [pc EXCEPT ![c] = to]
      BY <1>3 DEF SourceTaken, SourceStops, Goto
    <2>3. to \in Labels(c)
      BY <2>1, <2>2
    <2>4. UNCHANGED <<pipe, maxSize, data, popped, closed, count, batch, hand, ended, quit>>
      BY <1>3 DEF SourceTaken, SourceStops, chanVars, ownVars, userVars
    <2> HIDE DEF c
    <2> QED
      BY <1>1, <2>2, <2>3, <2>4, CoTypes DEF c
  <1> QED
    BY <1>2, <1>3 DEF SourceNext

(* What a coroutine that has popped x does. *)
LEMMA PopTypes ==
    ASSUME TypeInv, NEW c \in Cos(pipe), c # Source, Stage(c).kind # "fork" \/ c # Main(c[1]),
           pc[c] = "pop", NEW x \in Item, {"pop", "push"} \subseteq Labels(c),
           PassOn(c, x) \/ Filter(c, x) \/ Skip(c, x) \/ Group(c, x) \/ Reduce(c, x)
    PROVE  /\ \E to \in Labels(c) : to \in {"pop", "push"} /\ pc' = [pc EXCEPT ![c] = to]
           /\ count' \in [Cos(pipe) -> Nat] /\ count'[c] <= Limit(c)
           /\ \A d \in Cos(pipe) : d # c => count'[d] = count[d]
           /\ Stage(c).kind = "take" => count'[c] = count[c]
           /\ batch' \in [Cos(pipe) -> Seq(Item)] /\ hand' \in [Cos(pipe) -> Item]
  <1>1. /\ pc \in [Cos(pipe) -> Where] /\ count \in [Cos(pipe) -> Nat] /\ count[c] <= Limit(c)
        /\ batch \in [Cos(pipe) -> Seq(Item)] /\ hand \in [Cos(pipe) -> Item]
        /\ Limit(c) = Stage(c).n /\ pipe \in Pipes
    BY DEF TypeInv, TypeOK, Where, Limit
  <1>2. pc = [pc EXCEPT ![c] = "pop"] /\ Stage(c).n \in Nat
    BY <1>1, CoFacts
  <1>3. CASE PassOn(c, x)
    BY <1>1, <1>3 DEF PassOn, Goto
  <1>4. CASE Filter(c, x)
    BY <1>1, <1>2, <1>4 DEF Filter, Goto
  <1>5. CASE Skip(c, x)
    <2>1. batch' = batch /\ Stage(c).kind = "skip"
      BY <1>5 DEF Skip
    <2>2. CASE count[c] < Stage(c).n
      <3>1. count' = [count EXCEPT ![c] = count[c] + 1] /\ hand' = hand /\ pc' = pc
        BY <1>5, <2>2 DEF Skip, Counting
      <3>2. count' \in [Cos(pipe) -> Nat] /\ count'[c] = count[c] + 1 /\ \A d \in Cos(pipe) : d # c => count'[d] = count[d]
        BY <1>1, <3>1
      <3>3. count'[c] <= Limit(c)
        BY <1>1, <1>2, <2>2, <3>2
      <3> QED
        BY <1>1, <1>2, <2>1, <3>1, <3>2, <3>3
    <2>3. CASE ~(count[c] < Stage(c).n)
      BY <1>1, <1>5, <2>1, <2>3 DEF Skip, Goto
    <2> QED
      BY <2>2, <2>3
  <1>6. CASE Group(c, x)
    <2> DEFINE all == Append(batch[c], x)
    <2>1. all \in Seq(Item) /\ FlattenSeq(all) \in Item
      <3>1. batch[c] \in Seq(Item)
        BY <1>1
      <3>2. all \in Seq(Seq(1..Items))
        BY <3>1 DEF Item
      <3> QED
        BY <3>2, FlattenFacts DEF Item
    <2>2. /\ count' = count
          /\ \/ hand' = [hand EXCEPT ![c] = FlattenSeq(all)] /\ batch' = [batch EXCEPT ![c] = <<>>]
                /\ pc' = [pc EXCEPT ![c] = "push"]
             \/ batch' = [batch EXCEPT ![c] = all] /\ hand' = hand /\ pc' = pc
      BY <1>6, Zenon DEF Group, Goto
    <2> HIDE DEF all
    <2>3. <<>> \in Seq(Item)
      OBVIOUS
    <2> QED
      BY <1>1, <1>2, <2>1, <2>2, <2>3
  <1>7. CASE Reduce(c, x)
    <2>1. batch' = [batch EXCEPT ![c] = Append(batch[c], x)] /\ count' = count /\ hand' = hand /\ pc' = pc
      BY <1>7 DEF Reduce
    <2>2. Append(batch[c], x) \in Seq(Item)
      BY <1>1
    <2> QED
      BY <1>1, <1>2, <2>1, <2>2
  <1> QED
    BY <1>3, <1>4, <1>5, <1>6, <1>7

(* ... a coroutine of a stage does, ...                                     *)
LEMMA CoStepTypes ==
    ASSUME TypeInv, NEW c \in Cos(pipe), CoNext(c)
    PROVE  TypeInv'
  <1>1. /\ pipe \in Pipes /\ Items \in Nat
        /\ data \in [0..LastChan -> Seq(Item)] /\ popped \in [0..LastChan -> Seq(Item)]
        /\ closed \subseteq 0..LastChan /\ ended \in BOOLEAN /\ quit \in BOOLEAN
        /\ count \in [Cos(pipe) -> Nat] /\ count[c] <= Limit(c)
        /\ batch \in [Cos(pipe) -> Seq(Item)] /\ hand \in [Cos(pipe) -> Item]
        /\ pc \in [Cos(pipe) -> Where] /\ 0 \in 0..LastChan /\ LastChan \in Nat
    BY MainFacts, StageFacts, PipelineAssumption DEF TypeInv, TypeOK, Limit, Where
  <1>2. /\ pc[c] \in Labels(c)
        /\ pc[c] = "pop" => c # Source
        /\ c # Source /\ Stage(c).kind = "take" /\ pc[c] \in {"pop", "push"} => count[c] < Stage(c).n
    BY LabelFacts DEF TypeInv, AtLabels
  <1>3. c # Source =>
            /\ In(c) \in 0..LastChan /\ Out(c) \in 0..LastChan /\ Stage(c) \in Stages /\ Stage(c).n \in Nat
            /\ Limit(c) = Stage(c).n
            /\ \/ c = Main(c[1]) /\ c[2] = 0
               \/ c \in Workers(pipe, c[1]) /\ c[2] # 0 /\ Stage(c).kind = "fork"
    BY <1>1, CoFacts DEF Limit
  <1>4. c = Source => Out(c) = 0
    BY DEF Out, Source
  <1>5. CASE Pop(c)
    <2>1. pc[c] = "pop" /\ c # Source /\ Popped(In(c)) /\ UNCHANGED <<pipe, maxSize, closed, ended, quit>>
      BY <1>2, <1>5 DEF Pop, userVars
    <2>2. PICK x : /\ x = Head(data[In(c)])
                   /\ PassOn(c, x) \/ Filter(c, x) \/ Skip(c, x) \/ Group(c, x) \/ Reduce(c, x)
      BY <1>5 DEF Pop
    <2>3. /\ x \in Item
          /\ data' \in [0..LastChan -> Seq(Item)] /\ popped' \in [0..LastChan -> Seq(Item)]
      BY <1>3, <2>1, <2>2, ChanStep DEF TypeInv
    <2>4. {"pop", "push"} \subseteq Labels(c) /\ (Stage(c).kind # "fork" \/ c # Main(c[1]))
      <3>1. {"pop", "push"} \subseteq Labels(c)
        BY <2>1, LabelFacts
      <3>2. c = Main(c[1]) /\ Stage(c).kind = "fork" => FALSE
        <4> HAVE c = Main(c[1]) /\ Stage(c).kind = "fork"
        <4>1. c[2] = 0
          BY DEF Main
        <4>2. Labels(c) = {"join", "close", "done"}
          BY <2>1, <4>1 DEF Labels
        <4> QED
          BY <3>1, <4>2
      <3> QED
        BY <3>1, <3>2
    <2>5. /\ \E to \in Labels(c) : to \in {"pop", "push"} /\ pc' = [pc EXCEPT ![c] = to]
          /\ count' \in [Cos(pipe) -> Nat] /\ count'[c] <= Limit(c)
          /\ \A d \in Cos(pipe) : d # c => count'[d] = count[d]
          /\ Stage(c).kind = "take" => count'[c] = count[c]
          /\ batch' \in [Cos(pipe) -> Seq(Item)] /\ hand' \in [Cos(pipe) -> Item]
      BY <2>1, <2>2, <2>3, <2>4, PopTypes
    <2>6. PICK to \in Labels(c) : to \in {"pop", "push"} /\ pc' = [pc EXCEPT ![c] = to]
      BY <2>5
    <2> QED
      BY <1>1, <1>2, <2>1, <2>3, <2>5, <2>6, CoTypes
  <1>6. CASE PopEnd(c)
    <2>1. pc[c] = "pop" /\ c # Source /\ UNCHANGED <<pipe, maxSize, data, popped, closed, count, batch, ended, quit>>
      BY <1>2, <1>6 DEF PopEnd, AtEnd, userVars, chanVars
    <2>2. FlattenSeq(batch[c]) \in Item
      <3>1. batch[c] \in Seq(Seq(1..Items))
        BY <1>1 DEF Item
      <3> QED
        BY <3>1, FlattenFacts DEF Item
    <2>3. PICK to \in Labels(c) : /\ pc' = [pc EXCEPT ![c] = to]
                                  /\ to \in {"pop", "push"} => Stage(c).kind # "take"
                                  /\ hand' \in [Cos(pipe) -> Item]
      <3>1. CASE Stage(c).kind = "reduce"
        <4>1. hand' = [hand EXCEPT ![c] = FlattenSeq(batch[c])] /\ pc' = [pc EXCEPT ![c] = "push"]
          BY <1>6, <3>1 DEF PopEnd, Goto
        <4>2. "push" \in Labels(c)
          BY <2>1, LabelFacts
        <4>3. hand' \in [Cos(pipe) -> Item]
          BY <1>1, <2>2, <4>1
        <4> QED
          BY <3>1, <4>1, <4>2, <4>3
      <3>2. CASE Stage(c).kind = "fork"
        <4>1. hand' = hand /\ pc' = [pc EXCEPT ![c] = "done"]
          BY <1>6, <3>2 DEF PopEnd, Goto
        <4> QED
          BY <1>1, <2>1, <3>2, <4>1, LabelFacts
      <3>3. CASE Stage(c).kind \notin {"reduce", "fork"}
        <4>1. hand' = hand /\ pc' = [pc EXCEPT ![c] = "close"]
          BY <1>6, <3>3 DEF PopEnd, Goto
        <4> QED
          BY <1>1, <2>1, <3>3, <4>1, LabelFacts
      <3> QED
        BY <3>1, <3>2, <3>3
    <2> QED
      BY <1>1, <1>2, <2>1, <2>3, CoTypes
  <1>7. CASE Push(c)
    <2>1. pc[c] = "push" /\ c # Source /\ Accepted(Out(c), hand[c])
          /\ UNCHANGED <<pipe, maxSize, closed, batch, hand, ended, quit>>
      BY <1>7 DEF Push, userVars
    <2>2. data' \in [0..LastChan -> Seq(Item)] /\ popped' \in [0..LastChan -> Seq(Item)]
      BY <1>1, <1>3, <2>1, ChanStep DEF TypeInv
    <2>3. PICK to \in Labels(c) :
            /\ pc' = [pc EXCEPT ![c] = to]
            /\ count' \in [Cos(pipe) -> Nat] /\ count'[c] <= Limit(c)
            /\ \A d \in Cos(pipe) : d # c => count'[d] = count[d]
            /\ Stage(c).kind = "take" /\ to \in {"pop", "push"} => count'[c] < Stage(c).n
      <3>1. CASE Stage(c).kind = "take"
        <4>1. count' = [count EXCEPT ![c] = count[c] + 1]
              /\ pc' = [pc EXCEPT ![c] = IF count'[c] = Stage(c).n THEN "close" ELSE "pop"]
          BY <1>7, <3>1 DEF Push, Goto, Counting
        <4>2. count' \in [Cos(pipe) -> Nat] /\ count'[c] = count[c] + 1
              /\ \A d \in Cos(pipe) : d # c => count'[d] = count[d]
          BY <1>1, <4>1
        <4>3. count[c] < Stage(c).n /\ count[c] \in Nat
          BY <1>1, <1>2, <2>1, <3>1
        <4>4. count'[c] <= Stage(c).n /\ (count'[c] # Stage(c).n => count'[c] < Stage(c).n)
          BY <1>3, <2>1, <4>2, <4>3
        <4>5. {"pop", "close"} \subseteq Labels(c)
          BY <2>1, <3>1, LabelFacts
        <4>6. CASE count'[c] = Stage(c).n
          BY <1>3, <2>1, <4>1, <4>2, <4>4, <4>5, <4>6
        <4>7. CASE count'[c] # Stage(c).n
          BY <1>3, <2>1, <4>1, <4>2, <4>4, <4>5, <4>7
        <4> QED
          BY <4>6, <4>7
      <3>2. CASE Stage(c).kind # "take"
        <4>1. count' = count /\ \E to \in {"close", "pop"} : /\ pc' = [pc EXCEPT ![c] = to]
                                                             /\ to = "close" => Stage(c).kind = "reduce"
          BY <1>7, <3>2 DEF Push, Goto
        <4>2. "pop" \in Labels(c) /\ (Stage(c).kind = "reduce" => "close" \in Labels(c))
          BY <2>1, LabelFacts
        <4> QED
          BY <1>1, <3>2, <4>1, <4>2
      <3> QED
        BY <3>1, <3>2
    <2> QED
      BY <1>1, <2>1, <2>2, <2>3, CoTypes
  <1>8. ASSUME PushRefused(c) \/ Join(c) \/ Close(c) \/ CloseIn(c)
        PROVE  TypeInv'
    <2>1. /\ UNCHANGED <<pipe, maxSize, data, popped, count, batch, hand, ended, quit>>
          /\ closed' \in {closed, closed \cup {Out(c)}, closed \cup {In(c)}}
      BY <1>8 DEF PushRefused, Refused, Join, Close, CloseIn, userVars, chanVars, ownVars
    <2>2. closed' \subseteq 0..LastChan
      <3>1. CASE closed' = closed
        BY <1>1, <3>1
      <3>2. CASE closed' = closed \cup {Out(c)}
        BY <1>1, <1>3, <1>4, <3>2
      <3>3. CASE CloseIn(c)
        <4>1. c # Source /\ closed' = closed \cup {In(c)}
          BY <3>3, LabelFacts DEF CloseIn
        <4> QED
          BY <1>1, <1>3, <4>1
      <3> QED
        BY <1>8, <3>1, <3>2, <3>3 DEF PushRefused, Join, Close
    <2>3. PICK to \in Labels(c) : /\ pc' = [pc EXCEPT ![c] = to] /\ to \in {"close", "closeIn", "done"}
      <3>1. CASE PushRefused(c)
        <4>1. pc[c] = "push" /\ c # Source
          BY <3>1 DEF PushRefused
        <4>2. /\ Stage(c).kind = "fork" => "done" \in Labels(c)
              /\ Stage(c).kind # "fork" => "close" \in Labels(c)
              /\ Stage(c).kind \in {"take", "group"} => "closeIn" \in Labels(c)
          BY <4>1, LabelFacts
        <4> QED
          BY <3>1, <4>2 DEF PushRefused, Goto
      <3>2. CASE Join(c)
        BY <3>2, LabelFacts DEF Join, Goto
      <3>3. CASE Close(c)
        <4>1. pc[c] = "close" /\ pc' = [pc EXCEPT ![c] = IF c # Source /\ Stage(c).kind = "take" THEN "closeIn" ELSE "done"]
          BY <3>3 DEF Close, Goto
        <4> QED
          BY <4>1, LabelFacts
      <3>4. CASE CloseIn(c)
        BY <3>4, LabelFacts DEF CloseIn, Goto
      <3> QED
        BY <1>8, <3>1, <3>2, <3>3, <3>4
    <2>4. to \notin {"pop", "push"}
      BY <2>3
    <2> QED
      BY <1>1, <2>1, <2>2, <2>3, <2>4, CoTypes
  <1> QED
    BY <1>5, <1>6, <1>7, <1>8 DEF CoNext

(* ... and so does the user.                                                *)
LEMMA UserTypes ==
    ASSUME TypeInv, UserNext
    PROVE  TypeInv'
  <1>1. /\ pipe \in Pipes /\ LastChan \in 0..LastChan
        /\ data \in [0..LastChan -> Seq(Item)] /\ popped \in [0..LastChan -> Seq(Item)]
        /\ closed \subseteq 0..LastChan
    BY StageFacts DEF TypeInv, TypeOK
  <1>2. UNCHANGED <<pipe, maxSize, pc, count, batch, hand>>
    BY DEF UserNext, Read, ReadEnd, Quit, ownVars
  <1>3. data' \in [0..LastChan -> Seq(Item)] /\ popped' \in [0..LastChan -> Seq(Item)]
    <2>1. CASE Read
      BY <1>1, <2>1, ChanStep DEF Read, TypeInv
    <2>2. CASE ReadEnd \/ Quit
      BY <1>1, <2>2 DEF ReadEnd, Quit, AtEnd, chanVars
    <2> QED
      BY <2>1, <2>2 DEF UserNext
  <1>4. closed' \subseteq 0..LastChan
    BY <1>1 DEF UserNext, Read, ReadEnd, Quit
  <1>5. ended' \in BOOLEAN /\ quit' \in BOOLEAN
    BY DEF UserNext, Read, ReadEnd, Quit, TypeInv, TypeOK
  <1>6. TypeOK'
    BY <1>1, <1>2, <1>3, <1>4, <1>5 DEF TypeInv, TypeOK, LastChan, Stage
  <1>7. AtLabels'
    BY <1>2 DEF TypeInv, AtLabels, Labels, Stage
  <1> QED
    BY <1>6, <1>7 DEF TypeInv

(* Where the coroutines start. *)
LEMMA EntryFacts ==
    ASSUME pipe \in Pipes, NEW c \in Cos(pipe)
    PROVE  /\ Entry(pipe, c) \in Labels(c) /\ Entry(pipe, c) \in Where
           /\ c # Source /\ Stage(c).kind = "take" /\ Entry(pipe, c) \in {"pop", "push"} => 0 < Stage(c).n
  <1>1. CASE c = Source
    BY <1>1 DEF Entry, Labels, Where
  <1>2. CASE c # Source
    <2>1. /\ Stage(c) = pipe[c[1]] /\ Stage(c) \in Stages /\ Stage(c).n \in Nat
      BY <1>2, CoFacts
    <2> DEFINE k == Stage(c).kind
               z == c[2]
               n == Stage(c).n
    <2>2. Entry(pipe, c) = CASE k = "fork" /\ z = 0 -> "join"
                             [] k = "take" /\ n = 0 -> "close"
                             [] OTHER -> "pop"
      BY <1>2, <2>1 DEF Entry
    <2>3. Labels(c) =
            CASE k = "fork" /\ z = 0       -> {"join", "close", "done"}
              [] k = "fork" /\ z # 0       -> {"pop", "push", "done"}
              [] k \in {"take", "group"}   -> {"pop", "push", "close", "closeIn", "done"}
              [] OTHER                     -> {"pop", "push", "close", "done"}
      BY <1>2 DEF Labels
    <2> HIDE DEF k, z, n
    <2>4. \/ k = "fork" /\ z = 0 /\ Labels(c) = {"join", "close", "done"} /\ Entry(pipe, c) = "join"
          \/ k = "fork" /\ z # 0 /\ Labels(c) = {"pop", "push", "done"} /\ Entry(pipe, c) = "pop"
          \/ k \in {"take", "group"} /\ Labels(c) = {"pop", "push", "close", "closeIn", "done"}
             /\ Entry(pipe, c) = IF k = "take" /\ n = 0 THEN "close" ELSE "pop"
          \/ k \notin {"take", "group", "fork"} /\ Labels(c) = {"pop", "push", "close", "done"} /\ Entry(pipe, c) = "pop"
      BY <2>2, <2>3
    <2>5. n \in Nat
      BY <2>1 DEF n
    <2>6. Entry(pipe, c) \in Labels(c) /\ Entry(pipe, c) \in Where
      BY <2>4 DEF Where
    <2>7. k = "take" /\ Entry(pipe, c) \in {"pop", "push"} => 0 < n
      BY <2>4, <2>5
    <2> QED
      BY <2>6, <2>7 DEF k, n
  <1> QED
    BY <1>1, <1>2

(* The types to begin with.                                                 *)
LEMMA InitTypes == Init => TypeInv
  <1> SUFFICES ASSUME Init PROVE TypeInv
    OBVIOUS
  <1>1. pipe \in Pipes /\ Items \in Nat
    BY PipelineAssumption DEF Init
  <1>2. <<>> \in Seq(Item) /\ <<>> \in Item
    BY DEF Item
  <1>3. /\ data \in [0..LastChan -> Seq(Item)] /\ popped \in [0..LastChan -> Seq(Item)]
        /\ count \in [Cos(pipe) -> Nat] /\ \A c \in Cos(pipe) : count[c] = 0
        /\ batch \in [Cos(pipe) -> Seq(Item)] /\ hand \in [Cos(pipe) -> Item]
    BY <1>2, Zenon DEF Init
  <1>4. \A c \in Cos(pipe) : c # Source => Stage(c).n \in Nat
    BY <1>1, CoFacts
  <1>5. pc \in [Cos(pipe) -> Where] /\ \A c \in Cos(pipe) : pc[c] = Entry(pipe, c)
    BY <1>1, EntryFacts DEF Init
  <1>8. \A c \in Cos(pipe) : count[c] <= IF c = Source THEN Items ELSE Stage(c).n
    BY <1>1, <1>3, <1>4
  <1>9. maxSize \in Sizes /\ closed = {} /\ ended = FALSE /\ quit = FALSE
    BY DEF Init
  <1>6. TypeOK
    BY <1>1, <1>3, <1>5, <1>8, <1>9 DEF TypeOK, Where
  <1>7. AtLabels
    BY <1>1, <1>3, <1>5, EntryFacts DEF AtLabels
  <1> QED
    BY <1>6, <1>7 DEF TypeInv

(* Every step keeps them.                                                   *)
LEMMA StepTypes == TypeInv /\ [Next]_vars => TypeInv'
  <1> SUFFICES ASSUME TypeInv, [Next]_vars PROVE TypeInv'
    OBVIOUS
  <1>1. CASE SourceNext
    BY <1>1, SourceTypes
  <1>2. CASE \E c \in Cos(pipe) : CoNext(c)
    BY <1>2, CoStepTypes
  <1>3. CASE UserNext
    BY <1>3, UserTypes
  <1>4. CASE UNCHANGED vars
    BY <1>4 DEF vars, TypeInv, TypeOK, AtLabels, Labels, Stage, LastChan
  <1> QED
    BY <1>1, <1>2, <1>3, <1>4 DEF Next

(* Every variable has its type, and every coroutine of a pipeline is at one *)
(* of its own places, in every state (co_pipeline.h:217-459).               *)
THEOREM PipelineTypes == SafeSpec => []TypeOK
  <1>1. TypeInv => TypeOK
    BY DEF TypeInv
  <1> QED
    BY <1>1, InitTypes, StepTypes, PTL DEF SafeSpec

-----------------------------------------------------------------------------
(* What a step leaves alone *)

(* What the pipeline says does not change in a step. *)
LEMMA SameWish ==
    ASSUME pipe' = pipe
    PROVE  After' = After
  BY DEF After

(* ... so what is a part and what is the whole is as before the step.       *)
LEMMA SameParts ==
    ASSUME pipe' = pipe, NEW i
    PROVE  /\ IsPart(i, Sent(i))' <=> IsPart(i, Sent(i)')
           /\ IsWhole(i, Sent(i))' <=> IsWhole(i, Sent(i)')
           /\ IsWhole(i, <<hand[Main(i)]>>)' <=> IsWhole(i, <<hand'[Main(i)]>>)
           /\ Cos(pipe)' = Cos(pipe)
           /\ LastChan' = LastChan
           /\ Forks' = Forks
           /\ Workers(pipe, i)' = Workers(pipe, i)
           /\ OrderFree' = OrderFree
  <1>1. After' = After
    BY SameWish
  <1>2. Ordered(i)' = Ordered(i)
    BY DEF Ordered, Forks
  <1>3. IsPart(i, Sent(i))' <=> IsPart(i, Sent(i)')
    BY <1>1, <1>2 DEF IsPart
  <1>4. IsWhole(i, Sent(i))' <=> IsWhole(i, Sent(i)')
    BY <1>1, <1>2 DEF IsWhole
  <1>5. IsWhole(i, <<hand[Main(i)]>>)' <=> IsWhole(i, <<hand'[Main(i)]>>)
    BY <1>1, <1>2 DEF IsWhole, Main
  <1> QED
    BY <1>3, <1>4, <1>5 DEF LastChan, Forks, OrderFree

(* A step of stage i, the source being 0 and the user LastChan + 1: the     *)
(* others' state, and what has been sent, stay as they were.                *)
StepAt(i) ==
    /\ UNCHANGED pipe
    /\ closed \subseteq closed'
    /\ \A j \in 0..LastChan : j # i => Sent(j)' = Sent(j)
    /\ \A j \in 0..LastChan : j # i - 1 => popped'[j] = popped[j]
    /\ \A j \in closed : data[j] = <<>> => data'[j] = <<>>
    /\ \A c \in Cos(pipe) : c[1] # i => /\ pc'[c] = pc[c] /\ count'[c] = count[c]
                                        /\ batch'[c] = batch[c] /\ hand'[c] = hand[c]
    /\ \A c \in Cos(pipe) : pc[c] = "done" => pc'[c] = "done"
    /\ quit => quit'
    /\ ended' => ended \/ (LastChan \in closed /\ data[LastChan] = <<>>)

StageInv(i) == IF i \in Forks THEN Forwards(i) ELSE Follows(i)

(* A step at one channel leaves alone what another stage has done, ...      *)
LEMMA FrameFollows ==
    ASSUME TypeInv, NEW i \in 0..(LastChan + 1), StepAt(i), NEW j \in 1..LastChan, j # i, Follows(j)
    PROVE  Follows(j)'
  <1> DEFINE c == Main(j)
  <1>1. pipe \in Pipes /\ LastChan \in Nat
    BY StageFacts DEF TypeInv, TypeOK
  <1>2. c \in Cos(pipe) /\ c[1] = j
    BY <1>1, MainFacts
  <1>3. pc'[c] = pc[c] /\ count'[c] = count[c] /\ batch'[c] = batch[c] /\ hand'[c] = hand[c]
    BY <1>2 DEF StepAt
  <1>4. Sent(j)' = Sent(j) /\ popped'[j - 1] = popped[j - 1] /\ pipe' = pipe
    BY <1>1 DEF StepAt
  <1>5. IsWhole(j, <<hand[c]>>)' <=> IsWhole(j, <<hand'[c]>>)
    BY <1>4, SameParts
  <1>6. Main(j)' = Main(j)
    BY DEF Main
  <1>7. Apply(pipe[j], popped[j - 1])' = Apply(pipe[j], popped[j - 1])
    BY <1>4 DEF Apply, Passes
  <1> QED
    BY <1>3, <1>4, <1>5, <1>6, <1>7 DEF Follows

(* ... does not make the one who has stopped reading go on, ...             *)
LEMMA SameCut ==
    ASSUME TypeInv, NEW i \in 0..(LastChan + 1), StepAt(i), NEW j \in 0..LastChan
    PROVE  Cut(j) => Cut(j)'
  <1>1. pipe \in Pipes /\ LastChan \in Nat
    BY StageFacts DEF TypeInv, TypeOK
  <1>2. LastChan' = LastChan
    BY SameParts DEF StepAt
  <1>3. CASE j = LastChan
    BY <1>2, <1>3 DEF Cut, StepAt
  <1>4. CASE j # LastChan
    <2>1. j + 1 \in 1..LastChan
      BY <1>1, <1>4
    <2>2. Main(j + 1) \in Cos(pipe)
      BY <1>1, <2>1, MainFacts
    <2>3. Main(j + 1)' = Main(j + 1)
      BY DEF Main
    <2> QED
      BY <1>2, <1>4, <2>2, <2>3 DEF Cut, StepAt
  <1> QED
    BY <1>3, <1>4

(* ... and leaves alone what another fork has done.                         *)
LEMMA FrameForwards ==
    ASSUME TypeInv, NEW i \in 0..(LastChan + 1), StepAt(i), NEW j \in 1..LastChan, j # i, Forwards(j)
    PROVE  Forwards(j)'
  <1> DEFINE ws == Workers(pipe, j)
             held == {c \in ws : pc[c] = "push"}
             taken == {hand[c] : c \in held}
  <1>1. pipe \in Pipes /\ LastChan \in Nat /\ j \in 0..LastChan /\ j - 1 \in 0..LastChan
    BY StageFacts DEF TypeInv, TypeOK
  <1>2. /\ Main(j) \in Cos(pipe) /\ Main(j)[1] = j
        /\ \A c \in ws : c \in Cos(pipe) /\ c[1] = j
    BY <1>1, MainFacts DEF Workers
  <1>3. /\ pc'[Main(j)] = pc[Main(j)]
        /\ \A c \in ws : pc'[c] = pc[c] /\ hand'[c] = hand[c]
    BY <1>2 DEF StepAt
  <1>4. Sent(j)' = Sent(j) /\ popped'[j - 1] = popped[j - 1] /\ pipe' = pipe
    BY <1>1 DEF StepAt
  <1>5. ws' = ws /\ Main(j)' = Main(j)
    BY <1>4 DEF Workers, Main
  <1>6. held' = held
    BY <1>3, <1>5
  <1>7. taken' = taken
    BY <1>3, <1>6
  <1>8. Cut(j) => Cut(j)'
    BY <1>1, SameCut
  <1>9. j - 1 \in closed /\ data[j - 1] = <<>> => j - 1 \in closed' /\ data'[j - 1] = <<>>
    BY DEF StepAt
  <1>10. /\ pc[Main(j)] # "join" => \A c \in ws : pc[c] = "done"
         /\ IsInjective(Sent(j))
         /\ ToSet(Sent(j)) \cup taken \subseteq ToSet(popped[j - 1])
         /\ \A c \in held : hand[c] \notin ToSet(Sent(j))
         /\ \A c, d \in held : c # d => hand[c] # hand[d]
         /\ ~Cut(j) =>
              /\ ToSet(popped[j - 1]) \subseteq ToSet(Sent(j)) \cup taken
              /\ \A c \in ws : pc[c] = "done" => j - 1 \in closed /\ data[j - 1] = <<>>
    BY DEF Forwards
  <1> SUFFICES
         /\ pc'[Main(j)] # "join" => \A c \in ws : pc'[c] = "done"
         /\ IsInjective(Sent(j)')
         /\ ToSet(Sent(j)') \cup taken' \subseteq ToSet(popped'[j - 1])
         /\ \A c \in held' : hand'[c] \notin ToSet(Sent(j)')
         /\ \A c, d \in held' : c # d => hand'[c] # hand'[d]
         /\ ~Cut(j)' =>
              /\ ToSet(popped'[j - 1]) \subseteq ToSet(Sent(j)') \cup taken'
              /\ \A c \in ws : pc'[c] = "done" => j - 1 \in closed' /\ data'[j - 1] = <<>>
    BY <1>5 DEF Forwards
  <1>11. \A c \in held : hand'[c] = hand[c]
    BY <1>3
  <1> HIDE DEF ws, held, taken
  <1> QED
    BY <1>3, <1>4, <1>6, <1>7, <1>8, <1>9, <1>10, <1>11

(* So Flow is to be shown only where the step is.                           *)
LEMMA FlowStep ==
    ASSUME TypeInv, Flow, NEW i \in 0..(LastChan + 1), StepAt(i),
           i = 0 => (Sent(0) = SubSeq(After[0], 1, count[Source]))',
           i \in 1..LastChan => StageInv(i)',
           i \in 0..LastChan => IsPart(i, Sent(i)') /\ Completes(i)',
           \A j \in 0..LastChan : j \in closed' /\ (j = i \/ j \notin closed) => Closes(j)'
    PROVE  Flow'
  <1>1. pipe \in Pipes /\ LastChan \in Nat /\ DOMAIN pipe = 1..LastChan /\ pipe' = pipe
    BY StageFacts DEF TypeInv, TypeOK, StepAt
  <1>2. Source \in Cos(pipe) /\ Source[1] = 0 /\ LastChan' = LastChan /\ Forks' = Forks /\ After' = After
    BY <1>1, MainFacts, SameParts, SameWish DEF Source
  <1>3. (Sent(0) = SubSeq(After[0], 1, count[Source]))'
    <2>1. ASSUME i # 0 PROVE Sent(0)' = Sent(0) /\ count'[Source] = count[Source]
      BY <1>1, <1>2, <2>1 DEF StepAt
    <2>2. Sent(0) = SubSeq(After[0], 1, count[Source]) /\ Source' = Source
      BY DEF Flow, Source
    <2> QED
      BY <1>2, <2>1, <2>2
  <1>4. ASSUME NEW j \in DOMAIN pipe PROVE (IF j \in Forks THEN Forwards(j) ELSE Follows(j))'
    <2>1. IF j \in Forks THEN Forwards(j) ELSE Follows(j)
      BY DEF Flow
    <2>2. CASE j = i
      BY <1>1, <2>2 DEF StageInv
    <2>3. CASE j # i
      BY <1>1, <1>2, <2>1, <2>3, FrameFollows, FrameForwards
    <2> QED
      BY <2>2, <2>3
  <1>5. ASSUME NEW j \in 0..LastChan PROVE (IsPart(j, Sent(j)) /\ Closes(j) /\ Completes(j))'
    <2>1. IsPart(j, Sent(j)) /\ Closes(j) /\ Completes(j)
      BY DEF Flow
    <2>2. Cut(j) => Cut(j)'
      BY SameCut
    <2>3. /\ IsPart(j, Sent(j))' <=> IsPart(j, Sent(j)')
          /\ IsWhole(j, Sent(j))' <=> IsWhole(j, Sent(j)')
          /\ Main(j)' = Main(j)
      BY <1>1, SameParts DEF Main
    <2>4. Main(j) \in Cos(pipe) /\ Main(j)[1] = j
      BY <1>1, MainFacts DEF Main
    <2>5. j # i => Sent(j)' = Sent(j) /\ pc'[Main(j)] = pc[Main(j)]
      BY <2>4 DEF StepAt
    <2>6. IsPart(j, Sent(j))' /\ Completes(j)'
      <3>1. CASE j = i
        BY <2>3, <3>1
      <3>2. CASE j # i
        BY <2>1, <2>2, <2>3, <2>5, <3>2 DEF Completes
      <3> QED
        BY <3>1, <3>2
    <2>7. Closes(j)'
      <3>1. CASE j \in closed' /\ (j = i \/ j \notin closed)
        BY <3>1
      <3>2. CASE j \in closed /\ j # i
        BY <1>1, <2>1, <2>2, <2>3, <2>5, <3>2 DEF Closes
      <3>3. CASE j \notin closed'
        BY <3>3 DEF Closes
      <3> QED
        BY <3>1, <3>2, <3>3
    <2> QED
      BY <2>6, <2>7
  <1>6. ended' => LastChan \in closed' /\ data'[LastChan] = <<>>
    BY DEF Flow, StepAt
  <1> QED
    BY <1>1, <1>2, <1>3, <1>4, <1>5, <1>6 DEF Flow

-----------------------------------------------------------------------------
(* The channels, the source and the user *)

(* What a push and a pop do to the channels. *)
LEMMA PopMoves ==
    ASSUME TypeOK, NEW i \in 0..LastChan, Popped(i)
    PROVE  /\ data[i] # <<>> /\ Head(data[i]) \in Item
           /\ popped'[i] = Append(popped[i], Head(data[i])) /\ popped'[i] \in Seq(Item)
           /\ \A j \in 0..LastChan : Sent(j)' = Sent(j)
           /\ \A j \in 0..LastChan : j # i => popped'[j] = popped[j] /\ data'[j] = data[j]
           /\ IsPrefix(popped'[i], Sent(i))
  <1>1. data \in [0..LastChan -> Seq(Item)] /\ popped \in [0..LastChan -> Seq(Item)]
    BY DEF TypeOK
  <1>2. /\ data[i] # <<>> /\ data' = [data EXCEPT ![i] = Tail(data[i])]
        /\ popped' = [popped EXCEPT ![i] = Append(popped[i], Head(data[i]))]
    BY DEF Popped
  <1>3. Head(data[i]) \in Item /\ Tail(data[i]) \in Seq(Item)
    BY <1>1, <1>2, HeadTailProperties
  <1>8. Append(popped[i], Head(data[i])) \in Seq(Item)
    BY <1>1, <1>3, AppendProperties
  <1>4. /\ data'[i] = Tail(data[i]) /\ popped'[i] = Append(popped[i], Head(data[i]))
        /\ popped'[i] \in Seq(Item)
        /\ \A j \in 0..LastChan : j # i => popped'[j] = popped[j] /\ data'[j] = data[j]
    BY <1>1, <1>2, <1>8
  <1>5. popped'[i] \o data'[i] = popped[i] \o data[i]
    BY <1>1, <1>2, <1>4, ConcatMove
  <1>6. \A j \in 0..LastChan : Sent(j)' = Sent(j)
    BY <1>4, <1>5 DEF Sent
  <1>7. IsPrefix(popped'[i], popped'[i] \o data'[i])
    BY <1>3, <1>4, PrefixFacts
  <1> QED
    BY <1>2, <1>3, <1>4, <1>5, <1>6, <1>7 DEF Sent

(* A push adds an item to what has been sent, and to no other channel.      *)
LEMMA PushMoves ==
    ASSUME TypeOK, NEW i \in 0..LastChan, NEW x \in Item, Accepted(i, x)
    PROVE  /\ i \notin closed /\ popped' = popped
           /\ Sent(i)' = Append(Sent(i), x)
           /\ \A j \in 0..LastChan : j # i => Sent(j)' = Sent(j) /\ data'[j] = data[j]
  <1>1. data \in [0..LastChan -> Seq(Item)] /\ popped \in [0..LastChan -> Seq(Item)]
    BY DEF TypeOK
  <1>2. i \notin closed /\ data' = [data EXCEPT ![i] = Append(data[i], x)] /\ popped' = popped
    BY DEF Accepted
  <1>3. /\ data'[i] = Append(data[i], x)
        /\ \A j \in 0..LastChan : j # i => data'[j] = data[j]
    BY <1>1, <1>2
  <1>4. popped[i] \o data'[i] = Append(popped[i] \o data[i], x)
    BY <1>1, <1>3, ConcatAppend
  <1> QED
    BY <1>2, <1>3, <1>4 DEF Sent

(* What has been sent are items, and what has been popped is the front of   *)
(* it.                                                                      *)
LEMMA SentType ==
    ASSUME TypeOK, NEW i \in 0..LastChan
    PROVE  Sent(i) \in Seq(Item) /\ popped[i] \in Seq(Item) /\ data[i] \in Seq(Item) /\ IsPrefix(popped[i], Sent(i))
  <1>1. popped[i] \in Seq(Item) /\ data[i] \in Seq(Item)
    BY DEF TypeOK
  <1> QED
    BY <1>1, PrefixFacts DEF Sent

(* The others do not move with coroutine c. *)
LEMMA OthersStand ==
    ASSUME TypeInv, NEW c \in Cos(pipe), NEW to, pc' = [pc EXCEPT ![c] = to], pc[c] # "done",
           count' = count \/ \E n : count' = [count EXCEPT ![c] = n],
           batch' = batch \/ \E b : batch' = [batch EXCEPT ![c] = b],
           hand' = hand \/ \E h : hand' = [hand EXCEPT ![c] = h]
    PROVE  /\ \A d \in Cos(pipe) : d[1] # c[1] => /\ pc'[d] = pc[d] /\ count'[d] = count[d]
                                                  /\ batch'[d] = batch[d] /\ hand'[d] = hand[d]
           /\ \A d \in Cos(pipe) : pc[d] = "done" => pc'[d] = "done"
           /\ \A d \in Cos(pipe) : d # c => pc'[d] = pc[d] /\ hand'[d] = hand[d]
           /\ pc'[c] = to
  <1>1. /\ pc \in [Cos(pipe) -> Where] /\ count \in [Cos(pipe) -> Nat]
        /\ batch \in [Cos(pipe) -> Seq(Item)] /\ hand \in [Cos(pipe) -> Item]
    BY DEF TypeInv, TypeOK, Where
  <1>2. \A d \in Cos(pipe) : d # c => pc'[d] = pc[d] /\ count'[d] = count[d]
    BY <1>1
  <1>3. \A d \in Cos(pipe) : d # c => batch'[d] = batch[d] /\ hand'[d] = hand[d]
    BY <1>1
  <1>4. pc'[c] = to
    BY <1>1
  <1> QED
    BY <1>2, <1>3, <1>4

-----------------------------------------------------------------------------
(* There is no fork before the channel of the source.                       *)
LEMMA OrderedFirst == Ordered(0)
  BY DEF Ordered

(* The source pushes the next number, or nothing.                           *)
LEMMA SourceFlow ==
    ASSUME TypeInv, Flow, SourceNext
    PROVE  Flow'
  <1> DEFINE c == Source
             n == count[c]
             A == After[0]
  <1>1. /\ TypeOK /\ pipe \in Pipes /\ c \in Cos(pipe) /\ c[1] = 0 /\ c = Main(0) /\ 0 \in 0..LastChan
        /\ LastChan \in Nat /\ Items \in Nat /\ n \in Nat /\ n <= Items /\ 0 \in 0..(LastChan + 1)
    BY MainFacts, StageFacts, PipelineAssumption DEF TypeInv, TypeOK, Source
  <1>2. /\ A \in Seq(Item) /\ Len(A) = Items /\ \A k \in 1..Items : A[k] = <<k>>
    <2>1. A = [k \in 1..Items |-> <<k>>] /\ A \in Seq(Item)
      BY <1>1, AfterIs, AfterFacts
    <2> QED
      BY <1>1, <2>1
  <1>3. Sent(0) = SubSeq(A, 1, n) /\ Closes(0) /\ Completes(0)
    BY <1>1 DEF Flow
  <1>4. /\ After' = After /\ Source' = Source /\ Main(0)' = Main(0)
        /\ IsPart(0, Sent(0))' <=> IsPart(0, Sent(0)')
        /\ IsWhole(0, Sent(0))' <=> IsWhole(0, Sent(0)')
        /\ UNCHANGED <<pipe, maxSize, closed, popped, batch, hand, ended, quit>>
    <2>1. UNCHANGED <<pipe, maxSize, closed, popped, batch, hand, ended, quit>>
      BY DEF SourceNext, SourcePush, SourceTaken, SourceStops, Accepted, chanVars, ownVars, userVars
    <2> QED
      BY <2>1, SameWish, SameParts DEF Source, Main
  <1> HIDE DEF c, A
  <1>5. CASE SourcePush
    <2> DEFINE x == <<n + 1>>
    <2>1. /\ pc[c] = "push" /\ n < Items /\ Accepted(0, x)
          /\ count' = [count EXCEPT ![c] = n + 1]
          /\ \E to \in {"push", "taken"} : pc' = [pc EXCEPT ![c] = to]
      BY <1>1, <1>5 DEF SourcePush, Counting, Goto, c, TypeOK
    <2>2. x \in Item
      BY <1>1, <2>1 DEF Item
    <2>3. PICK to \in {"push", "taken"} : pc' = [pc EXCEPT ![c] = to]
      BY <2>1
    <2>4. /\ 0 \notin closed /\ popped' = popped /\ Sent(0)' = Append(Sent(0), x)
          /\ \A j \in 0..LastChan : j # 0 => Sent(j)' = Sent(j) /\ data'[j] = data[j]
      BY <1>1, <2>1, <2>2, PushMoves
    <2>5. /\ \A d \in Cos(pipe) : d[1] # 0 => /\ pc'[d] = pc[d] /\ count'[d] = count[d]
                                              /\ batch'[d] = batch[d] /\ hand'[d] = hand[d]
          /\ \A d \in Cos(pipe) : pc[d] = "done" => pc'[d] = "done"
          /\ pc'[c] = to
      <3>1. \E k : count' = [count EXCEPT ![c] = k]
        BY <2>1
      <3>2. batch' = batch /\ hand' = hand /\ pc[c] # "done"
        BY <1>4, <2>1
      <3> QED
        BY <1>1, <2>3, <3>1, <3>2, OthersStand
    <2>6. closed \subseteq 0..LastChan /\ count'[c] = n + 1
      BY <1>1, <2>1 DEF TypeOK
    <2>7. StepAt(0)
      BY <1>1, <1>4, <2>4, <2>5, <2>6 DEF StepAt
    <2>8. A[n + 1] = x
      BY <1>1, <1>2, <2>1
    <2>9. Sent(0)' = SubSeq(A, 1, n + 1)
      <3>1. n < Len(A)
        BY <1>2, <2>1
      <3>2. SubSeq(A, 1, n + 1) = Append(SubSeq(A, 1, n), A[n + 1])
        BY <1>1, <1>2, <3>1, GrowBy1
      <3> QED
        BY <1>3, <2>4, <2>8, <3>2
    <2>10. (Sent(0) = SubSeq(After[0], 1, count[Source]))'
      BY <1>4, <2>6, <2>9 DEF c, A
    <2>11. IsPart(0, Sent(0)')
      <3>1. n + 1 \in Nat /\ n + 1 <= Len(A)
        BY <1>1, <1>2, <2>1
      <3>2. IsPrefix(Sent(0)', A)
        BY <1>2, <2>9, <3>1, PrefixFacts
      <3> QED
        BY <3>2, OrderedFirst DEF IsPart, A
    <2>12. Completes(0)'
      BY <1>1, <1>4, <2>5 DEF Completes
    <2>13. \A j \in 0..LastChan : j \in closed' /\ (j = 0 \/ j \notin closed) => Closes(j)'
      BY <1>4, <2>4
    <2>14. 0 \notin 1..LastChan
      OBVIOUS
    <2> QED
      BY <1>1, <2>7, <2>10, <2>11, <2>12, <2>13, <2>14, FlowStep
  <1>6. ASSUME SourceTaken \/ SourceStops PROVE Flow'
    <2>1. /\ data' = data /\ count' = count
          /\ \/ pc[c] = "taken" /\ pc' = [pc EXCEPT ![c] = "push"]
             \/ pc[c] = "push" /\ pc' = [pc EXCEPT ![c] = "close"] /\ (n = Items \/ 0 \in closed)
      BY <1>6 DEF SourceTaken, SourceStops, Goto, chanVars, ownVars, c
    <2>2. PICK to \in {"push", "close"} : /\ pc' = [pc EXCEPT ![c] = to]
                                          /\ to = "close" => n = Items \/ 0 \in closed
      BY <2>1
    <2>3. /\ \A d \in Cos(pipe) : d[1] # 0 => /\ pc'[d] = pc[d] /\ count'[d] = count[d]
                                              /\ batch'[d] = batch[d] /\ hand'[d] = hand[d]
          /\ \A d \in Cos(pipe) : pc[d] = "done" => pc'[d] = "done"
          /\ pc'[c] = to
      BY <1>1, <1>4, <2>1, <2>2, OthersStand
    <2>4. \A j : Sent(j)' = Sent(j)
      BY <1>4, <2>1 DEF Sent
    <2>5. StepAt(0)
      BY <1>1, <1>4, <2>1, <2>3, <2>4 DEF StepAt
    <2>6. Cut(0) => Cut(0)'
      BY <1>1, <2>5, SameCut
    <2>7. 0 \in closed => Cut(0)'
      BY <1>1, <1>3, <2>1, <2>6 DEF Closes
    <2>8. (Sent(0) = SubSeq(After[0], 1, count[Source]))'
      BY <1>3, <1>4, <2>1, <2>4 DEF c, A
    <2>9. IsPart(0, Sent(0)')
      BY <1>1, <2>4 DEF Flow
    <2>10. Completes(0)'
      <3>1. CASE to = "push"
        BY <1>1, <1>4, <2>3, <3>1 DEF Completes
      <3>2. CASE 0 \in closed
        BY <2>7, <3>2 DEF Completes
      <3>3. CASE n = Items
        <4>1. Sent(0) = A
          BY <1>2, <1>3, <3>3, WholeSubSeq
        <4>2. IsWhole(0, Sent(0)')
          BY <2>4, <4>1, OrderedFirst DEF IsWhole, A
        <4> QED
          BY <1>4, <4>2 DEF Completes
      <3> QED
        BY <2>2, <3>1, <3>2, <3>3
    <2>11. \A j \in 0..LastChan : j \in closed' /\ (j = 0 \/ j \notin closed) => Closes(j)'
      BY <1>4, <2>7 DEF Closes
    <2>12. 0 \notin 1..LastChan
      OBVIOUS
    <2> QED
      BY <1>1, <2>5, <2>8, <2>9, <2>10, <2>11, <2>12, FlowStep
  <1> QED
    BY <1>5, <1>6 DEF SourceNext

(* The user pops from the last channel, finds its end or closes it.         *)
LEMMA UserFlow ==
    ASSUME TypeInv, Flow, UserNext
    PROVE  Flow'
  <1>1. /\ TypeOK /\ pipe \in Pipes /\ LastChan \in Nat /\ LastChan \in 0..LastChan
        /\ LastChan + 1 \in 0..(LastChan + 1) /\ LastChan + 1 \notin 0..LastChan
        /\ LastChan + 1 \notin 1..LastChan /\ LastChan + 1 # 0 /\ (LastChan + 1) - 1 = LastChan
    BY StageFacts DEF TypeInv, TypeOK
  <1>2. UNCHANGED <<pipe, pc, count, batch, hand>> /\ ~ended
    BY DEF UserNext, Read, ReadEnd, Quit, ownVars
  <1>3. /\ \A j \in 0..LastChan : Sent(j)' = Sent(j)
        /\ \A j \in 0..LastChan : j # LastChan => popped'[j] = popped[j] /\ data'[j] = data[j]
        /\ data[LastChan] = <<>> => data'[LastChan] = <<>>
    <2>1. CASE Read
      <3>1. Popped(LastChan)
        BY <2>1 DEF Read
      <3> QED
        BY <1>1, <3>1, PopMoves
    <2>2. CASE ReadEnd \/ Quit
      <3>1. data' = data /\ popped' = popped
        BY <2>2 DEF ReadEnd, Quit, AtEnd, chanVars
      <3> QED
        BY <3>1 DEF Sent
    <2> QED
      BY <2>1, <2>2 DEF UserNext
  <1>4. closed \subseteq closed' /\ (quit => quit')
    BY DEF UserNext, Read, ReadEnd, Quit
  <1>5. ended' => LastChan \in closed /\ data[LastChan] = <<>>
    BY <1>2 DEF UserNext, Read, ReadEnd, Quit, AtEnd
  <1>6. \A j \in closed : data[j] = <<>> => data'[j] = <<>>
    <2>1. closed \subseteq 0..LastChan
      BY <1>1 DEF TypeOK
    <2> QED
      BY <1>3, <2>1
  <1>7. StepAt(LastChan + 1)
    BY <1>1, <1>2, <1>3, <1>4, <1>5, <1>6 DEF StepAt
  <1>8. \A j \in 0..LastChan : j \in closed' /\ (j = LastChan + 1 \/ j \notin closed) => Closes(j)'
    <2> SUFFICES ASSUME NEW j \in 0..LastChan, j \in closed', j \notin closed PROVE Closes(j)'
      BY <1>1
    <2>1. Quit /\ j = LastChan
      BY DEF UserNext, Read, ReadEnd, Quit
    <2>2. quit' /\ LastChan' = LastChan
      BY <1>2, <2>1, SameParts DEF Quit
    <2> QED
      BY <2>1, <2>2 DEF Closes, Cut
  <1> DEFINE i == LastChan + 1
  <1>9. /\ i \in 0..(LastChan + 1) /\ StepAt(i) /\ i # 0 /\ i \notin 1..LastChan /\ i \notin 0..LastChan
        /\ \A j \in 0..LastChan : j \in closed' /\ (j = i \/ j \notin closed) => Closes(j)'
    BY <1>1, <1>7, <1>8
  <1> HIDE DEF i
  <1> QED
    BY <1>9, FlowStep

(* What has been popped from a channel is a part of what goes through it.   *)
LEMMA PoppedPart ==
    ASSUME TypeInv, Flow, NEW i \in 0..LastChan, NEW xs \in Seq(Item), IsPrefix(xs, Sent(i))
    PROVE  IsPart(i, xs) /\ Apart(xs)
  <1>1. pipe \in Pipes /\ Sent(i) \in Seq(Item) /\ IsPart(i, Sent(i))
    BY SentType DEF TypeInv, TypeOK, Flow
  <1> QED
    BY <1>1, PartFacts

(* Whoever pops nothing has popped everything. *)
LEMMA AtEndWhole ==
    ASSUME TypeInv, Flow, NEW i \in 1..LastChan, pc[Main(i)] # "done",
           i - 1 \in closed, data[i - 1] = <<>>
    PROVE  IsWhole(i - 1, popped[i - 1])
  <1>1. pipe \in Pipes /\ LastChan \in Nat /\ i - 1 \in 0..LastChan /\ i - 1 # LastChan /\ (i - 1) + 1 = i
    BY StageFacts DEF TypeInv, TypeOK
  <1>2. ~Cut(i - 1)
    BY <1>1 DEF Cut
  <1>3. Closes(i - 1) /\ Completes(i - 1)
    BY <1>1 DEF Flow
  <1>4. IsWhole(i - 1, Sent(i - 1))
    BY <1>2, <1>3 DEF Closes, Completes
  <1>5. popped[i - 1] \in Seq(Item)
    BY <1>1 DEF TypeInv, TypeOK
  <1>6. Sent(i - 1) = popped[i - 1]
    BY <1>5 DEF Sent
  <1> QED
    BY <1>4, <1>6

(* A coroutine that pops an item: what becomes of the item is one of five.  *)
LEMMA PopStep ==
    ASSUME TypeInv, NEW c \in Cos(pipe), Pop(c)
    PROVE  LET i == c[1]
               x == Head(data[i - 1])
           IN  /\ c # Source /\ i \in 1..LastChan /\ StepAt(i)
               /\ UNCHANGED <<pipe, closed>>
               /\ x \in Item /\ popped'[i - 1] = Append(popped[i - 1], x) /\ popped'[i - 1] \in Seq(Item)
               /\ IsPrefix(popped'[i - 1], Sent(i - 1)) /\ data[i - 1] # <<>>
               /\ Sent(i)' = Sent(i)
               /\ PassOn(c, x) \/ Filter(c, x) \/ Skip(c, x) \/ Group(c, x) \/ Reduce(c, x)
               /\ pc'[c] \in {"pop", "push"}
               /\ \A d \in Cos(pipe) : d # c => pc'[d] = pc[d] /\ hand'[d] = hand[d]
  <1> DEFINE i == c[1]
             x == Head(data[i - 1])
  <1>1. TypeOK /\ pipe \in Pipes /\ LastChan \in Nat /\ pc[c] = "pop" /\ c # Source
    BY StageFacts, LabelFacts DEF TypeInv, TypeOK, Pop
  <1>2. i \in 1..LastChan /\ i - 1 \in 0..LastChan /\ In(c) = i - 1 /\ i \in 0..LastChan /\ i # i - 1
    BY <1>1, CoFacts
  <1>3. /\ Popped(i - 1)
        /\ PassOn(c, x) \/ Filter(c, x) \/ Skip(c, x) \/ Group(c, x) \/ Reduce(c, x)
        /\ UNCHANGED <<pipe, maxSize, closed, ended, quit>>
    BY <1>2 DEF Pop, userVars
  <1> DEFINE k == i - 1
  <1>4. k \in 0..LastChan /\ Popped(k)
    BY <1>2, <1>3
  <1> HIDE DEF k
  <1>5. /\ data[k] # <<>> /\ Head(data[k]) \in Item
        /\ popped'[k] = Append(popped[k], Head(data[k])) /\ popped'[k] \in Seq(Item)
        /\ \A j \in 0..LastChan : Sent(j)' = Sent(j)
        /\ \A j \in 0..LastChan : j # k => popped'[j] = popped[j] /\ data'[j] = data[j]
        /\ IsPrefix(popped'[k], Sent(k))
    BY <1>1, <1>4, PopMoves
  <1> HIDE DEF i
  <1>6. /\ \E to \in {"pop", "push"} : pc' = [pc EXCEPT ![c] = to]
        /\ count' = count \/ \E n : count' = [count EXCEPT ![c] = n]
        /\ batch' = batch \/ \E b : batch' = [batch EXCEPT ![c] = b]
        /\ hand' = hand \/ \E h : hand' = [hand EXCEPT ![c] = h]
    <2> DEFINE y == x
    <2>1. PassOn(c, y) \/ Filter(c, y) \/ Skip(c, y) \/ Group(c, y) \/ Reduce(c, y)
      BY <1>3
    <2> HIDE DEF y
    <2>2. pc = [pc EXCEPT ![c] = "pop"]
      BY <1>1 DEF TypeOK
    <2>3. CASE PassOn(c, y)
      BY <2>3 DEF PassOn, Goto
    <2>4. CASE Filter(c, y)
      BY <2>2, <2>4 DEF Filter, Goto
    <2>5. CASE Skip(c, y)
      BY <2>2, <2>5 DEF Skip, Goto, Counting
    <2>6. CASE Group(c, y)
      <3> DEFINE all == Append(batch[c], y)
      <3>1. /\ count' = count
            /\ \/ hand' = [hand EXCEPT ![c] = FlattenSeq(all)] /\ batch' = [batch EXCEPT ![c] = <<>>]
                  /\ pc' = [pc EXCEPT ![c] = "push"]
               \/ batch' = [batch EXCEPT ![c] = all] /\ hand' = hand /\ pc' = pc
        BY <2>6, Zenon DEF Group, Goto
      <3> HIDE DEF all
      <3> QED
        BY <2>2, <3>1
    <2>7. CASE Reduce(c, y)
      BY <2>2, <2>7 DEF Reduce
    <2> QED
      BY <2>1, <2>3, <2>4, <2>5, <2>6, <2>7
  <1>7. PICK to \in {"pop", "push"} : pc' = [pc EXCEPT ![c] = to]
    BY <1>6
  <1>8. /\ \A d \in Cos(pipe) : d[1] # i => /\ pc'[d] = pc[d] /\ count'[d] = count[d]
                                            /\ batch'[d] = batch[d] /\ hand'[d] = hand[d]
        /\ \A d \in Cos(pipe) : pc[d] = "done" => pc'[d] = "done"
        /\ \A d \in Cos(pipe) : d # c => pc'[d] = pc[d] /\ hand'[d] = hand[d]
        /\ pc'[c] = to
    BY <1>1, <1>6, <1>7, OthersStand DEF i
  <1>9. closed \subseteq 0..LastChan
    BY <1>1 DEF TypeOK
  <1>10. \A j \in closed : data[j] = <<>> => data'[j] = <<>>
    BY <1>5, <1>9
  <1>11. StepAt(i)
    BY <1>3, <1>5, <1>8, <1>10 DEF StepAt, k
  <1> QED
    BY <1>1, <1>2, <1>3, <1>5, <1>7, <1>8, <1>11 DEF i, k

-----------------------------------------------------------------------------
(* A stage with one coroutine *)

(* Follows, said of what the coroutine has: its place, counter, batch and   *)
(* item, what it has popped and what it has sent.                           *)
FollowsFrom(i, at, n, b, h, xs, ys) ==
    LET s == pipe[i]
    IN  at \in {"pop", "push"} =>
          CASE s.kind = "reduce" -> /\ ys = <<>>
                                    /\ at = "pop" => b = xs
                                    /\ at = "push" => IsWhole(i, <<h>>)
            [] OTHER ->
                 /\ Apply(s, xs) = IF at = "pop" THEN ys ELSE Append(ys, h)
                 /\ s.kind = "take" => n = Len(ys)
                 /\ s.kind = "skip" => n = IF Len(xs) < s.n THEN Len(xs) ELSE s.n
                 /\ s.kind = "group" => b = Rest(s, xs)

(* Follows is what FollowsFrom says of the present state.                   *)
LEMMA FollowsIs ==
    ASSUME NEW i, NEW c, c = Main(i)
    PROVE  /\ Follows(i) <=> FollowsFrom(i, pc[c], count[c], batch[c], hand[c], popped[i - 1], Sent(i))
           /\ pipe' = pipe =>
                (Follows(i)' <=> FollowsFrom(i, pc'[c], count'[c], batch'[c], hand'[c], popped'[i - 1], Sent(i)'))
  <1>1. Follows(i) <=> FollowsFrom(i, pc[c], count[c], batch[c], hand[c], popped[i - 1], Sent(i))
    BY DEF Follows, FollowsFrom, Rest
  <1>2. ASSUME pipe' = pipe
        PROVE  Follows(i)' <=> FollowsFrom(i, pc'[c], count'[c], batch'[c], hand'[c], popped'[i - 1], Sent(i)')
    <2>1. IsWhole(i, <<hand[Main(i)]>>)' <=> IsWhole(i, <<hand'[Main(i)]>>)
      BY <1>2, SameParts
    <2>2. Main(i)' = Main(i)
      BY DEF Main
    <2>3. Apply(pipe[i], popped[i - 1])' = Apply(pipe[i], popped'[i - 1])
      BY <1>2 DEF Apply, Passes
    <2> QED
      BY <1>2, <2>1, <2>2, <2>3 DEF Follows, FollowsFrom, Rest
  <1> QED
    BY <1>1, <1>2

(* A stage with one coroutine has done with one item more what Apply does.  *)
LEMMA MainPopFollows ==
    ASSUME TypeInv, NEW i \in 1..LastChan, pipe[i].kind # "fork", Follows(i), pc[Main(i)] = "pop",
           NEW x \in Item, popped'[i - 1] = Append(popped[i - 1], x), Sent(i)' = Sent(i), pipe' = pipe,
           LET c == Main(i) IN PassOn(c, x) \/ Filter(c, x) \/ Skip(c, x) \/ Group(c, x) \/ Reduce(c, x)
    PROVE  Follows(i)'
  <1> DEFINE c == Main(i)
             s == pipe[i]
             xs == popped[i - 1]
             zs == Append(xs, x)
             ys == Sent(i)
  <1>1. /\ pipe \in Pipes /\ LastChan \in Nat /\ i - 1 \in 0..LastChan /\ i \in 0..LastChan
        /\ s \in Stages /\ s.n \in Nat /\ (s.kind = "group" => s.n > 0)
        /\ c \in Cos(pipe) /\ Stage(c) = s /\ c # Source
    BY StageFacts, Kinds, MainFacts DEF TypeInv, TypeOK, Stage
  <1>2. xs \in Seq(Item) /\ Len(xs) \in Nat /\ ys \in Seq(Item)
    BY <1>1, SentType DEF TypeInv
  <1>3. /\ pc \in [Cos(pipe) -> Where] /\ count \in [Cos(pipe) -> Nat]
        /\ batch \in [Cos(pipe) -> Seq(Item)] /\ hand \in [Cos(pipe) -> Item]
    BY DEF TypeInv, TypeOK, Where
  <1>4. pc[c] = "pop" /\ (s.kind = "take" => count[c] < s.n)
    BY <1>1 DEF TypeInv, AtLabels
  <1>5. FollowsFrom(i, "pop", count[c], batch[c], hand[c], xs, ys)
    BY <1>4, FollowsIs
  <1> SUFFICES FollowsFrom(i, pc'[c], count'[c], batch'[c], hand'[c], zs, ys)
    BY FollowsIs
  <1>6. /\ s.kind = "reduce" => ys = <<>> /\ batch[c] = xs
        /\ s.kind # "reduce" => Apply(s, xs) = ys
        /\ s.kind = "take" => count[c] = Len(ys)
        /\ s.kind = "skip" => count[c] = IF Len(xs) < s.n THEN Len(xs) ELSE s.n
        /\ s.kind = "group" => batch[c] = Rest(s, xs)
    BY <1>5 DEF FollowsFrom
  <1>7. PassOn(c, x) \/ Filter(c, x) \/ Skip(c, x) \/ Group(c, x) \/ Reduce(c, x)
    OBVIOUS
  <1>8. zs \in Seq(Item) /\ Len(zs) = Len(xs) + 1
    BY <1>2
  <1> HIDE DEF c, s, xs, zs, ys
  <1>9. CASE PassOn(c, x)
    <2>1. /\ s.kind \in {"func", "take"} /\ hand'[c] = x /\ pc'[c] = "push" /\ count'[c] = count[c]
      BY <1>1, <1>3, <1>9 DEF PassOn, Goto, s
    <2>2. CASE s.kind = "func"
      <3>1. Apply(s, xs) = xs /\ Apply(s, zs) = zs
        BY <1>1, <2>2, ApplyIs
      <3> QED
        BY <1>6, <2>1, <2>2, <3>1 DEF FollowsFrom, s, zs
    <2>3. CASE s.kind = "take"
      <3>1. /\ Len(Apply(s, xs)) = IF s.n < Len(xs) THEN s.n ELSE Len(xs)
            /\ Len(xs) < s.n => Apply(s, zs) = Append(Apply(s, xs), x)
        BY <1>1, <1>2, <2>3, TakeOneMore DEF zs
      <3>2. Len(xs) < s.n
        BY <1>1, <1>2, <1>4, <1>6, <2>3, <3>1
      <3> QED
        BY <1>6, <2>1, <2>3, <3>1, <3>2 DEF FollowsFrom, s
    <2> QED
      BY <2>1, <2>2, <2>3
  <1>10. CASE Filter(c, x)
    <2>1. s.kind = "filter" /\ Apply(s, xs) = Only(xs, Passing) /\ Apply(s, zs) = Only(zs, Passing)
      BY <1>1, <1>10, ApplyIs DEF Filter
    <2>2. Only(zs, Passing) = IF x \in Passing THEN Append(Only(xs, Passing), x) ELSE Only(xs, Passing)
      BY <1>2, OnlyAppend DEF zs
    <2>3. x \in Passing <=> Passes(x)
      BY DEF Passing
    <2>4. /\ Passes(x) => hand'[c] = x /\ pc'[c] = "push"
          /\ ~Passes(x) => pc'[c] = "pop"
      BY <1>1, <1>3, <1>4, <1>10 DEF Filter, Goto
    <2> QED
      BY <1>6, <2>1, <2>2, <2>3, <2>4 DEF FollowsFrom, s
  <1>11. CASE Skip(c, x)
    <2>1. s.kind = "skip" /\ Apply(s, zs) = IF Len(xs) < s.n THEN Apply(s, xs) ELSE Append(Apply(s, xs), x)
      BY <1>1, <1>2, <1>11, SkipOneMore DEF Skip, zs
    <2>2. count[c] < s.n <=> Len(xs) < s.n
      BY <1>1, <1>2, <1>6, <2>1
    <2>3. /\ count[c] < s.n => count'[c] = count[c] + 1 /\ pc'[c] = "pop"
          /\ ~(count[c] < s.n) => hand'[c] = x /\ pc'[c] = "push" /\ count'[c] = count[c]
      BY <1>1, <1>3, <1>4, <1>11 DEF Skip, Goto, Counting
    <2>4. count'[c] = IF Len(zs) < s.n THEN Len(zs) ELSE s.n
      BY <1>1, <1>2, <1>6, <1>8, <2>1, <2>2, <2>3
    <2> QED
      BY <1>6, <2>1, <2>2, <2>3, <2>4 DEF FollowsFrom, s
  <1>12. CASE Group(c, x)
    <2> DEFINE all == Append(batch[c], x)
    <2>1. s.kind = "group"
      BY <1>1, <1>12 DEF Group
    <2>2. \/ /\ Len(all) = s.n
             /\ hand' = [hand EXCEPT ![c] = FlattenSeq(all)] /\ batch' = [batch EXCEPT ![c] = <<>>]
             /\ pc' = [pc EXCEPT ![c] = "push"]
          \/ Len(all) # s.n /\ batch' = [batch EXCEPT ![c] = all] /\ hand' = hand /\ pc' = pc
      BY <1>1, <1>12, Zenon DEF Group, Goto
    <2>3. all = Append(Rest(s, xs), x)
      BY <1>6, <2>1
    <2>4. /\ Len(all) = s.n => /\ Rest(s, zs) = <<>>
                               /\ Apply(s, zs) = Append(Apply(s, xs), FlattenSeq(all))
          /\ Len(all) # s.n => /\ Rest(s, zs) = all
                               /\ Apply(s, zs) = Apply(s, xs)
      BY <1>1, <1>2, <2>1, <2>3, GroupOneMore DEF zs
    <2> HIDE DEF all
    <2>5. CASE Len(all) = s.n
      <3>1. hand'[c] = FlattenSeq(all) /\ batch'[c] = <<>> /\ pc'[c] = "push"
        BY <1>1, <1>3, <2>2, <2>5
      <3> QED
        BY <1>6, <2>1, <2>4, <2>5, <3>1 DEF FollowsFrom, s
    <2>6. CASE Len(all) # s.n
      <3>1. batch'[c] = all /\ pc'[c] = "pop"
        BY <1>1, <1>3, <1>4, <2>2, <2>6
      <3> QED
        BY <1>6, <2>1, <2>4, <2>6, <3>1 DEF FollowsFrom, s
    <2> QED
      BY <2>5, <2>6
  <1>13. CASE Reduce(c, x)
    <2>1. s.kind = "reduce" /\ batch'[c] = Append(batch[c], x) /\ pc'[c] = "pop"
      BY <1>1, <1>3, <1>4, <1>13 DEF Reduce
    <2> QED
      BY <1>6, <2>1 DEF FollowsFrom, s, zs
  <1> QED
    BY <1>7, <1>9, <1>10, <1>11, <1>12, <1>13

(* What a stage with one coroutine is. *)
LEMMA MainContext ==
    ASSUME TypeInv, Flow, NEW c \in Cos(pipe), c # Source, c = Main(c[1])
    PROVE  LET i == c[1]
           IN  /\ pipe \in Pipes /\ LastChan \in Nat /\ i \in 1..LastChan /\ i \in 0..LastChan
               /\ i - 1 \in 0..LastChan /\ i - 1 # i /\ i \in 0..(LastChan + 1) /\ i # 0
               /\ Stage(c) = pipe[i] /\ pipe[i] \in Stages /\ pipe[i].n \in Nat
               /\ In(c) = i - 1 /\ Out(c) = i
               /\ pipe[i].kind # "fork" => i \notin Forks /\ Follows(i)
               /\ pipe[i].kind = "fork" => i \in Forks /\ Forwards(i)
               /\ IsPart(i, Sent(i)) /\ Closes(i) /\ Completes(i)
               /\ IsPart(i - 1, popped[i - 1]) /\ popped[i - 1] \in Seq(Item) /\ Sent(i) \in Seq(Item)
  <1> DEFINE i == c[1]
             k == i - 1
  <1>1. pipe \in Pipes /\ LastChan \in Nat /\ DOMAIN pipe = 1..LastChan /\ TypeOK
    BY StageFacts DEF TypeInv, TypeOK
  <1>2. /\ i \in 1..LastChan /\ i \in 0..LastChan /\ k \in 0..LastChan /\ k # i /\ i \in 0..(LastChan + 1) /\ i # 0
        /\ Stage(c) = pipe[i] /\ pipe[i] \in Stages /\ pipe[i].n \in Nat
        /\ In(c) = k /\ Out(c) = i
    BY <1>1, CoFacts
  <1> HIDE DEF i, k
  <1>3. popped[k] \in Seq(Item) /\ Sent(i) \in Seq(Item) /\ IsPart(k, popped[k])
    BY <1>1, <1>2, SentType, PoppedPart
  <1>4. IF i \in Forks THEN Forwards(i) ELSE Follows(i)
    BY <1>1, <1>2 DEF Flow
  <1>5. i \in Forks <=> pipe[i].kind = "fork"
    BY <1>1, <1>2 DEF Forks
  <1>6. IsPart(i, Sent(i)) /\ Closes(i) /\ Completes(i)
    BY <1>2 DEF Flow
  <1> QED
    BY <1>1, <1>2, <1>3, <1>4, <1>5, <1>6 DEF i, k

(* So a pop of a stage with one coroutine preserves Flow.                   *)
LEMMA MainPopFlow ==
    ASSUME TypeInv, Flow, NEW c \in Cos(pipe), c # Source, c = Main(c[1]), Stage(c).kind # "fork", Pop(c)
    PROVE  Flow'
  <1> DEFINE i == c[1]
             k == i - 1
             x == Head(data[k])
  <1>1. /\ pipe \in Pipes /\ i \in 1..LastChan /\ i \in 0..LastChan /\ i \in 0..(LastChan + 1) /\ i # 0
        /\ Stage(c) = pipe[i]
        /\ pipe[i].kind # "fork" => i \notin Forks /\ Follows(i)
        /\ IsPart(i, Sent(i)) /\ Closes(i)
    BY MainContext
  <1>2. /\ StepAt(i) /\ UNCHANGED <<pipe, closed>>
        /\ x \in Item /\ popped'[k] = Append(popped[k], x)
        /\ Sent(i)' = Sent(i)
        /\ PassOn(c, x) \/ Filter(c, x) \/ Skip(c, x) \/ Group(c, x) \/ Reduce(c, x)
        /\ pc'[c] \in {"pop", "push"}
    BY PopStep
  <1>3. pc[c] = "pop"
    BY DEF Pop
  <1> HIDE DEF i
  <1>4. c = Main(i)
    BY DEF i
  <1>5. Follows(i)'
    <2> HIDE DEF x
    <2>1. pipe[i].kind # "fork" /\ Follows(i)
      BY <1>1
    <2> QED
      BY <1>1, <1>2, <1>3, <1>4, <2>1, MainPopFollows
  <1>6. StageInv(i)' /\ Main(i)' = Main(i)
    <2>1. Forks' = Forks
      BY <1>2, SameParts
    <2> QED
      BY <1>1, <1>5, <2>1 DEF StageInv, Main
  <1>7. IsPart(i, Sent(i)')
    BY <1>1, <1>2
  <1>8. Completes(i)'
    BY <1>2, <1>4, <1>6 DEF Completes
  <1>9. \A j \in 0..LastChan : j \in closed' /\ (j = i \/ j \notin closed) => Closes(j)'
    <2>1. Cut(i) => Cut(i)'
      BY <1>1, <1>2, SameCut
    <2>2. i \in closed => Cut(i)'
      BY <1>1, <1>3, <1>4, <2>1 DEF Closes
    <2> QED
      BY <1>2, <2>2 DEF Closes
  <1> QED
    BY <1>1, <1>2, <1>6, <1>7, <1>8, <1>9, FlowStep

(* A stage with one coroutine ends, or gives up. *)
LEMMA StopFlow ==
    ASSUME TypeInv, OrderFree, Flow, NEW c \in Cos(pipe), c # Source, c = Main(c[1]), StepAt(c[1]),
           pc'[c] \in {"close", "closeIn", "done"}, Sent(c[1])' = Sent(c[1]),
           Stage(c).kind # "fork" \/ Forwards(c[1])',
           \A j \in 0..LastChan : j \in closed' /\ j \notin closed => Closes(j)',
           c[1] \in closed => Closes(c[1])',
           \/ pc[c] \in {"close", "closeIn", "done"}
           \/ Cut(c[1])
           \/ IsWhole(c[1], Sent(c[1]))
    PROVE  Flow'
  <1> DEFINE i == c[1]
  <1>1. /\ i \in 1..LastChan /\ i \in 0..LastChan /\ i \in 0..(LastChan + 1) /\ i # 0
        /\ Stage(c) = pipe[i]
        /\ pipe[i].kind # "fork" => i \notin Forks
        /\ pipe[i].kind = "fork" => i \in Forks
        /\ IsPart(i, Sent(i)) /\ Completes(i)
    BY MainContext
  <1> HIDE DEF i
  <1>2. c = Main(i) /\ StepAt(i) /\ pipe' = pipe /\ Sent(i)' = Sent(i)
    BY DEF i, StepAt
  <1>3. Forks' = Forks /\ Main(i)' = Main(i) /\ (IsWhole(i, Sent(i))' <=> IsWhole(i, Sent(i)'))
    BY <1>2, SameParts DEF Main
  <1>4. StageInv(i)'
    <2>1. CASE pipe[i].kind = "fork"
      BY <1>1, <1>3, <2>1 DEF StageInv, i
    <2>2. CASE pipe[i].kind # "fork"
      <3>1. Follows(i)'
        BY <1>2, <1>3 DEF Follows
      <3> QED
        BY <1>1, <1>3, <2>2, <3>1 DEF StageInv
    <2> QED
      BY <2>1, <2>2
  <1>5. Cut(i) => Cut(i)'
    BY <1>1, <1>2, SameCut
  <1>6. Completes(i)'
    <2>1. \/ pc[c] \in {"close", "closeIn", "done"}
          \/ Cut(i)
          \/ IsWhole(i, Sent(i))
      BY DEF i
    <2>2. ~Cut(i)' => IsWhole(i, Sent(i))
      BY <1>1, <1>2, <1>5, <2>1 DEF Completes
    <2> QED
      BY <1>2, <1>3, <2>2 DEF Completes
  <1>7. \A j \in 0..LastChan : j \in closed' /\ (j = i \/ j \notin closed) => Closes(j)'
    BY DEF i
  <1>8. IsPart(i, Sent(i)')
    BY <1>1, <1>2
  <1> QED
    BY <1>1, <1>2, <1>4, <1>6, <1>7, <1>8, FlowStep

(* A step of c that leaves the channels alone. *)
LEMMA PlainStep ==
    ASSUME TypeInv, NEW c \in Cos(pipe), pc[c] # "done", UNCHANGED <<pipe, data, popped, ended, quit>>,
           closed \subseteq closed',
           NEW to, pc' = [pc EXCEPT ![c] = to], count' = count, batch' = batch,
           hand' = hand \/ \E h : hand' = [hand EXCEPT ![c] = h]
    PROVE  /\ StepAt(c[1]) /\ pc'[c] = to
           /\ \A j : Sent(j)' = Sent(j)
           /\ \A d \in Cos(pipe) : d # c => pc'[d] = pc[d] /\ hand'[d] = hand[d]
  <1>1. /\ \A d \in Cos(pipe) : d[1] # c[1] => /\ pc'[d] = pc[d] /\ count'[d] = count[d]
                                               /\ batch'[d] = batch[d] /\ hand'[d] = hand[d]
        /\ \A d \in Cos(pipe) : pc[d] = "done" => pc'[d] = "done"
        /\ \A d \in Cos(pipe) : d # c => pc'[d] = pc[d] /\ hand'[d] = hand[d]
        /\ pc'[c] = to
    BY OthersStand
  <1>2. \A j : Sent(j)' = Sent(j)
    BY DEF Sent
  <1> QED
    BY <1>1, <1>2 DEF StepAt

(* A stage at the end of the channel before it: it has popped the whole.    *)
LEMMA MainPopEndFlow ==
    ASSUME TypeInv, OrderFree, Flow, NEW c \in Cos(pipe), c # Source, c = Main(c[1]), Stage(c).kind # "fork", PopEnd(c)
    PROVE  Flow'
  <1> DEFINE i == c[1]
             k == i - 1
             xs == popped[k]
             s == pipe[i]
  <1>1. /\ pipe \in Pipes /\ LastChan \in Nat /\ i \in 1..LastChan /\ i \in 0..LastChan /\ i \in 0..(LastChan + 1) /\ i # 0
        /\ Stage(c) = s /\ s \in Stages /\ In(c) = k
        /\ s.kind # "fork" => i \notin Forks /\ Follows(i)
        /\ IsPart(i, Sent(i)) /\ Closes(i) /\ xs \in Seq(Item)
    BY MainContext
  <1>2. pc[c] = "pop" /\ data[k] = <<>> /\ k \in closed /\ UNCHANGED <<pipe, data, popped, closed, count, batch, ended, quit>>
    BY <1>1 DEF PopEnd, AtEnd, chanVars, userVars
  <1> HIDE DEF i
  <1>3. c = Main(i)
    BY DEF i
  <1>4. IsWhole(k, xs)
    <2>1. pc[Main(i)] # "done"
      BY <1>2, <1>3
    <2> QED
      BY <1>1, <1>2, <2>1, AtEndWhole
  <1>5. IsWhole(i, Apply(s, xs))
    BY <1>1, <1>4, WholeApply
  <1>6. FollowsFrom(i, "pop", count[c], batch[c], hand[c], xs, Sent(i))
    BY <1>1, <1>2, <1>3, FollowsIs
  <1>7. i \in closed => Cut(i)
    BY <1>1, <1>2, <1>3 DEF Closes
  <1>8. CASE s.kind = "reduce"
    <2> DEFINE h == FlattenSeq(batch[c])
    <2>1. hand' = [hand EXCEPT ![c] = h] /\ pc' = [pc EXCEPT ![c] = "push"]
      BY <1>1, <1>8 DEF PopEnd, Goto
    <2> HIDE DEF h
    <2>2. StepAt(i) /\ pc'[c] = "push" /\ Sent(i)' = Sent(i)
      <3>1. StepAt(c[1]) /\ pc'[c] = "push" /\ \A j : Sent(j)' = Sent(j)
        BY <1>2, <2>1, PlainStep
      <3> QED
        BY <3>1 DEF i
    <2>3. hand'[c] = h
      BY <2>1 DEF TypeInv, TypeOK
    <2>4. Sent(i) = <<>> /\ batch[c] = xs
      BY <1>6, <1>8 DEF FollowsFrom
    <2>5. IsWhole(i, <<h>>)
      BY <1>1, <1>5, <1>8, <2>4, ApplyIs DEF h
    <2>6. FollowsFrom(i, pc'[c], count'[c], batch'[c], hand'[c], popped'[i - 1], Sent(i)')
      BY <1>8, <2>2, <2>3, <2>4, <2>5 DEF FollowsFrom
    <2>7. Follows(i)'
      BY <1>2, <1>3, <2>6, FollowsIs
    <2>8. StageInv(i)' /\ Main(i)' = Main(i)
      <3>1. Forks' = Forks
        BY <1>2, SameParts
      <3> QED
        BY <1>1, <1>8, <2>7, <3>1 DEF StageInv, Main
    <2>9. IsPart(i, Sent(i)') /\ Completes(i)'
      BY <1>1, <1>3, <2>2, <2>8 DEF Completes
    <2>10. \A j \in 0..LastChan : j \in closed' /\ (j = i \/ j \notin closed) => Closes(j)'
      <3>1. Cut(i) => Cut(i)'
        BY <1>1, <2>2, SameCut
      <3> QED
        BY <1>2, <1>7, <3>1 DEF Closes
    <2> QED
      BY <1>1, <2>2, <2>8, <2>9, <2>10, FlowStep
  <1>9. CASE s.kind # "reduce"
    <2>1. hand' = hand /\ pc' = [pc EXCEPT ![c] = "close"]
      BY <1>1, <1>9 DEF PopEnd, Goto, i
    <2>2. StepAt(c[1]) /\ pc'[c] = "close" /\ Sent(c[1])' = Sent(c[1])
      <3>1. StepAt(c[1]) /\ pc'[c] = "close" /\ \A j : Sent(j)' = Sent(j)
        BY <1>2, <2>1, PlainStep
      <3> QED
        BY <3>1
    <2>3. IsWhole(c[1], Sent(c[1]))
      BY <1>5, <1>6, <1>9 DEF FollowsFrom, i
    <2>4. \A j \in 0..LastChan : j \in closed' /\ j \notin closed => Closes(j)'
      BY <1>2
    <2>5. c[1] \in closed => Closes(c[1])'
      <3>1. Cut(i) => Cut(i)'
        BY <1>1, <2>2, SameCut DEF i
      <3> QED
        BY <1>7, <3>1 DEF Closes, i
    <2>6. pc'[c] \in {"close", "closeIn", "done"}
      BY <2>2
    <2> QED
      BY <2>2, <2>3, <2>4, <2>5, <2>6, StopFlow
  <1> QED
    BY <1>8, <1>9

(* A stage whose push was refused: somebody has stopped reading.            *)
LEMMA MainRefusedFlow ==
    ASSUME TypeInv, OrderFree, Flow, NEW c \in Cos(pipe), c # Source, c = Main(c[1]), Stage(c).kind # "fork", PushRefused(c)
    PROVE  Flow'
  <1> DEFINE i == c[1]
  <1>1. i \in 0..(LastChan + 1) /\ i \in 0..LastChan /\ Out(c) = i /\ Closes(i)
    BY MainContext
  <1>2. /\ pc[c] = "push" /\ i \in closed
        /\ UNCHANGED <<pipe, data, popped, closed, count, batch, hand, ended, quit>>
    BY <1>1 DEF PushRefused, Refused, chanVars, ownVars, userVars
  <1>3. PICK to \in {"close", "closeIn"} : pc' = [pc EXCEPT ![c] = to]
    BY DEF PushRefused, Goto
  <1>4. StepAt(i) /\ pc'[c] = to /\ \A j : Sent(j)' = Sent(j)
    BY <1>2, <1>3, PlainStep
  <1>5. Cut(i) /\ Cut(i)'
    <2>1. Cut(i)
      BY <1>1, <1>2 DEF Closes
    <2> HIDE DEF i
    <2> QED
      BY <1>1, <1>4, <2>1, SameCut
  <1>6. /\ \A j \in 0..LastChan : j \in closed' /\ j \notin closed => Closes(j)'
        /\ Closes(i)' /\ Sent(i)' = Sent(i) /\ pc'[c] \in {"close", "closeIn", "done"}
    BY <1>2, <1>3, <1>4, <1>5 DEF Closes
  <1> QED
    BY <1>4, <1>5, <1>6, StopFlow

(* take has as many as it takes, or reduce its only one: this is everything. *)
LEMMA TakeIsFull ==
    ASSUME pipe \in Pipes, OrderFree, NEW i \in 1..LastChan, pipe[i].kind = "take",
           NEW ys \in Seq(Item), IsPart(i, ys), Len(ys) = pipe[i].n
    PROVE  IsWhole(i, ys)
  <1>1. Ordered(i) /\ i \in 0..LastChan /\ i - 1 \in 0..LastChan
    BY OrderedFacts, StageFacts
  <1>2. /\ pipe[i] \in Stages /\ pipe[i].n \in Nat
        /\ After[i] \in Seq(Item) /\ After[i - 1] \in Seq(Item) /\ After[i] = Apply(pipe[i], After[i - 1])
    BY <1>1, StageFacts, Kinds, AfterFacts, AfterIs
  <1>3. Len(After[i]) = IF pipe[i].n < Len(After[i - 1]) THEN pipe[i].n ELSE Len(After[i - 1])
    <2>1. <<>> \in Item
      BY DEF Item
    <2> QED
      BY <1>2, <2>1, TakeOneMore
  <1>4. Len(After[i]) <= Len(ys)
    <2>1. Len(After[i - 1]) \in Nat
      BY <1>2
    <2> QED
      BY <1>2, <1>3, <2>1
  <1>5. IsPrefix(ys, After[i])
    BY <1>1 DEF IsPart
  <1>6. ys = After[i]
    BY <1>2, <1>4, <1>5, PrefixSameLength
  <1> QED
    BY <1>1, <1>6 DEF IsWhole

(* A push of a stage with one coroutine sends what Apply has made.          *)
LEMMA MainPushFlow ==
    ASSUME TypeInv, OrderFree, Flow, NEW c \in Cos(pipe), c # Source, c = Main(c[1]), Stage(c).kind # "fork", Push(c)
    PROVE  Flow'
  <1> DEFINE i == c[1]
             k == i - 1
             s == pipe[i]
             xs == popped[k]
             ys == Sent(i)
             h == hand[c]
             zs == Append(ys, h)
  <1>1. /\ TypeOK /\ pipe \in Pipes /\ LastChan \in Nat /\ i \in 1..LastChan /\ i \in 0..LastChan /\ i \in 0..(LastChan + 1) /\ i # 0
        /\ Stage(c) = s /\ s \in Stages /\ s.n \in Nat /\ Out(c) = i
        /\ s.kind # "fork" => i \notin Forks /\ Follows(i)
        /\ IsPart(i, ys) /\ IsPart(k, xs) /\ xs \in Seq(Item) /\ ys \in Seq(Item)
    BY MainContext DEF TypeInv
  <1>2. /\ pc \in [Cos(pipe) -> Where] /\ count \in [Cos(pipe) -> Nat] /\ hand \in [Cos(pipe) -> Item]
        /\ h \in Item /\ Len(ys) \in Nat /\ closed \subseteq 0..LastChan
    <2>1. /\ pc \in [Cos(pipe) -> Where] /\ count \in [Cos(pipe) -> Nat] /\ hand \in [Cos(pipe) -> Item]
          /\ closed \subseteq 0..LastChan
      BY <1>1 DEF TypeOK, Where
    <2>2. Len(ys) \in Nat
      <3>1. ys \in Seq(Item)
        BY <1>1
      <3> HIDE DEF ys
      <3> QED
        BY <3>1
    <2> QED
      BY <2>1, <2>2
  <1>3. /\ pc[c] = "push" /\ Accepted(i, h) /\ UNCHANGED <<pipe, closed, batch, hand, ended, quit>>
    BY <1>1 DEF Push, userVars
  <1>4. /\ i \notin closed /\ popped' = popped /\ Sent(i)' = zs
        /\ \A j \in 0..LastChan : j # i => Sent(j)' = Sent(j) /\ data'[j] = data[j]
    BY <1>1, <1>2, <1>3, PushMoves
  <1>5. /\ s.kind = "take" => /\ count' = [count EXCEPT ![c] = count[c] + 1]
                              /\ pc' = [pc EXCEPT ![c] = IF count'[c] = s.n THEN "close" ELSE "pop"]
        /\ s.kind = "reduce" => count' = count /\ pc' = [pc EXCEPT ![c] = "close"]
        /\ s.kind \notin {"take", "reduce"} => count' = count /\ pc' = [pc EXCEPT ![c] = "pop"]
    BY <1>1 DEF Push, Goto, Counting
  <1>6. PICK to \in {"close", "pop"} : /\ pc' = [pc EXCEPT ![c] = to]
                                       /\ s.kind = "take" => (to = "close" <=> count'[c] = s.n)
                                       /\ s.kind = "reduce" => to = "close"
                                       /\ s.kind \notin {"take", "reduce"} => to = "pop"
    <2>1. CASE s.kind = "take"
      BY <1>5, <2>1
    <2>2. CASE s.kind # "take"
      BY <1>5, <2>2
    <2> QED
      BY <2>1, <2>2
  <1>7. count' = count \/ \E n : count' = [count EXCEPT ![c] = n]
    BY <1>5
  <1>8. /\ s.kind = "take" => count'[c] = count[c] + 1
        /\ s.kind # "take" => count'[c] = count[c]
    BY <1>2, <1>5
  <1>9. /\ \A d \in Cos(pipe) : d[1] # c[1] => /\ pc'[d] = pc[d] /\ count'[d] = count[d]
                                               /\ batch'[d] = batch[d] /\ hand'[d] = hand[d]
        /\ \A d \in Cos(pipe) : pc[d] = "done" => pc'[d] = "done"
        /\ pc'[c] = to
    <2>1. pc[c] # "done"
      BY <1>3
    <2> QED
      BY <1>3, <1>6, <1>7, <2>1, OthersStand
  <1>10. \A j \in closed : data[j] = <<>> => data'[j] = <<>>
    BY <1>2, <1>4
  <1>11. StepAt(i)
    BY <1>3, <1>4, <1>9, <1>10 DEF StepAt
  <1> HIDE DEF i, zs
  <1>12. c = Main(i) /\ Main(i)' = Main(i)
    BY DEF i, Main
  <1>13. FollowsFrom(i, "push", count[c], batch[c], h, xs, ys)
    <2>1. Follows(i)
      BY <1>1 DEF i
    <2> QED
      BY <1>3, <1>12, <2>1, FollowsIs
  <1>14. /\ s.kind = "reduce" => ys = <<>> /\ IsWhole(i, <<h>>)
         /\ s.kind # "reduce" => Apply(s, xs) = zs
         /\ s.kind = "take" => count[c] = Len(ys)
    BY <1>13 DEF FollowsFrom, zs
  <1>15. zs \in Seq(Item) /\ Len(zs) = Len(ys) + 1 /\ (s.kind = "reduce" => zs = <<h>>)
    <2>1. ys \in Seq(Item) /\ h \in Item
      BY <1>1, <1>2
    <2> HIDE DEF ys, h
    <2>2. zs \in Seq(Item) /\ Len(zs) = Len(ys) + 1
      BY <2>1, AppendProperties DEF zs
    <2>3. s.kind = "reduce" => zs = <<h>>
      <3>1. s.kind = "reduce" => ys = <<>>
        BY <1>14
      <3> QED
        BY <3>1 DEF zs
    <2> QED
      BY <2>2, <2>3
  <1>16. IsPart(i, zs) /\ (s.kind = "reduce" => IsWhole(i, zs))
    <2>1. CASE s.kind = "reduce"
      BY <1>1, <1>14, <1>15, <2>1, PartFacts
    <2>2. CASE s.kind # "reduce"
      <3>1. IsPart(i, Apply(s, xs))
        BY <1>1, <2>2, PartApply DEF i
      <3> QED
        BY <1>14, <2>2, <3>1
    <2> QED
      BY <2>1, <2>2
  <1>17. to = "close" => IsWhole(i, zs)
    <2> HAVE to = "close"
    <2>1. CASE s.kind = "reduce"
      BY <1>16, <2>1
    <2>2. CASE s.kind = "take"
      <3>1. Len(zs) = s.n
        BY <1>6, <1>8, <1>14, <1>15, <2>2
      <3> QED
        BY <1>1, <1>15, <1>16, <2>2, <3>1, TakeIsFull
    <2> QED
      BY <1>6, <2>1, <2>2
  <1>18. Follows(i)'
    <2>1. CASE to = "close"
      BY <1>9, <1>12, <2>1 DEF Follows
    <2>2. CASE to = "pop"
      <3>1. s.kind # "reduce"
        BY <1>6, <2>2
      <3>2. /\ s.kind = "take" => count'[c] = Len(zs)
            /\ s.kind = "skip" => count[c] = IF Len(xs) < s.n THEN Len(xs) ELSE s.n
            /\ s.kind = "group" => batch[c] = Rest(s, xs)
        BY <1>8, <1>13, <1>14, <1>15 DEF FollowsFrom
      <3>3. FollowsFrom(i, "pop", count'[c], batch'[c], hand'[c], xs, zs)
        BY <1>3, <1>8, <1>14, <3>1, <3>2 DEF FollowsFrom
      <3> QED
        BY <1>3, <1>4, <1>9, <1>12, <2>2, <3>3, FollowsIs
    <2> QED
      BY <2>1, <2>2
  <1>19. StageInv(i)'
    <2>1. Forks' = Forks
      BY <1>3, SameParts
    <2> QED
      BY <1>1, <1>18, <2>1 DEF StageInv, i
  <1>20. Completes(i)'
    <2>1. IsWhole(i, Sent(i))' <=> IsWhole(i, Sent(i)')
      BY <1>3, SameParts
    <2> QED
      BY <1>4, <1>6, <1>9, <1>12, <1>17, <2>1 DEF Completes
  <1>21. \A j \in 0..LastChan : j \in closed' /\ (j = i \/ j \notin closed) => Closes(j)'
    BY <1>3, <1>4
  <1>22. IsPart(i, Sent(i)')
    BY <1>4, <1>16
  <1> QED
    BY <1>1, <1>11, <1>19, <1>20, <1>21, <1>22, FlowStep

-----------------------------------------------------------------------------
(* Closing, and the parent of a fork *)

(* Forwards after a step, with the workers and their items by name.         *)
LEMMA ForwardsNext ==
    ASSUME pipe' = pipe, NEW i, NEW ws, ws = Workers(pipe, i),
           NEW held, held = {c \in ws : pc'[c] = "push"},
           NEW taken, taken = {hand'[c] : c \in held},
           pc'[Main(i)] # "join" => \A c \in ws : pc'[c] = "done",
           IsInjective(Sent(i)'),
           ToSet(Sent(i)') \cup taken \subseteq ToSet(popped'[i - 1]),
           \A c \in held : hand'[c] \notin ToSet(Sent(i)'),
           \A c, d \in held : c # d => hand'[c] # hand'[d],
           ~Cut(i)' => /\ ToSet(popped'[i - 1]) \subseteq ToSet(Sent(i)') \cup taken
                       /\ \A c \in ws : pc'[c] = "done" => i - 1 \in closed' /\ data'[i - 1] = <<>>
    PROVE  Forwards(i)'
  <1>1. Workers(pipe, i)' = ws /\ Main(i)' = Main(i)
    BY DEF Workers, Main
  <1> QED
    BY <1>1 DEF Forwards

(* The parent of the workers moves, but they do not. *)
LEMMA ParentForwards ==
    ASSUME TypeInv, NEW i \in 1..LastChan, Forwards(i), StepAt(i),
           Sent(i)' = Sent(i), popped'[i - 1] = popped[i - 1],
           \A c \in Workers(pipe, i) : pc'[c] = pc[c] /\ hand'[c] = hand[c],
           pc'[Main(i)] # "join" => \A c \in Workers(pipe, i) : pc[c] = "done"
    PROVE  Forwards(i)'
  <1> DEFINE ws == Workers(pipe, i)
             held == {c \in ws : pc[c] = "push"}
             taken == {hand[c] : c \in held}
  <1>1. pipe' = pipe /\ i \in 0..LastChan /\ i \in 0..(LastChan + 1)
    <2>1. LastChan \in Nat
      BY StageFacts DEF TypeInv, TypeOK
    <2> QED
      BY <2>1 DEF StepAt
  <1>2. held = {c \in ws : pc'[c] = "push"} /\ taken = {hand'[c] : c \in held}
    BY Zenon
  <1>3. Cut(i) => Cut(i)'
    BY <1>1, SameCut
  <1>4. i - 1 \in closed /\ data[i - 1] = <<>> => i - 1 \in closed' /\ data'[i - 1] = <<>>
    BY DEF StepAt
  <1>5. /\ pc[Main(i)] # "join" => \A c \in ws : pc[c] = "done"
        /\ IsInjective(Sent(i))
        /\ ToSet(Sent(i)) \cup taken \subseteq ToSet(popped[i - 1])
        /\ \A c \in held : hand[c] \notin ToSet(Sent(i))
        /\ \A c, d \in held : c # d => hand[c] # hand[d]
        /\ ~Cut(i) => /\ ToSet(popped[i - 1]) \subseteq ToSet(Sent(i)) \cup taken
                      /\ \A c \in ws : pc[c] = "done" => i - 1 \in closed /\ data[i - 1] = <<>>
    BY DEF Forwards
  <1>6. \A c \in held : hand'[c] = hand[c]
    OBVIOUS
  <1>7. ws = Workers(pipe, i)
    OBVIOUS
  <1>8. \A c \in ws : pc'[c] = pc[c]
    OBVIOUS
  <1>9. pc'[Main(i)] # "join" => \A c \in ws : pc'[c] = "done"
    BY <1>8
  <1> HIDE DEF ws, held, taken
  <1>10. /\ IsInjective(Sent(i)')
         /\ ToSet(Sent(i)') \cup taken \subseteq ToSet(popped'[i - 1])
         /\ \A c \in held : hand'[c] \notin ToSet(Sent(i)')
         /\ \A c, d \in held : c # d => hand'[c] # hand'[d]
         /\ ~Cut(i)' => /\ ToSet(popped'[i - 1]) \subseteq ToSet(Sent(i)') \cup taken
                        /\ \A c \in ws : pc'[c] = "done" => i - 1 \in closed' /\ data'[i - 1] = <<>>
    BY <1>3, <1>4, <1>5, <1>6, <1>8
  <1> QED
    BY ONLY <1>1, <1>2, <1>7, <1>9, <1>10, ForwardsNext

(* Who the workers of a stage are.                                          *)
LEMMA WorkersAre ==
    ASSUME pipe \in Pipes, NEW i \in 1..LastChan
    PROVE  \A c \in Workers(pipe, i) : /\ c \in Cos(pipe) /\ c[1] = i /\ c[2] # 0
                                       /\ c # Source /\ c # Main(i) /\ pipe[i].kind = "fork"
  <1>1. pipe[i] \in Stages /\ pipe[i].n \in Nat
    BY StageFacts, Kinds
  <1>2. \A c \in Workers(pipe, i) : c[1] = i /\ c[2] # 0 /\ pipe[i].kind = "fork"
    BY <1>1 DEF Workers
  <1>3. Source[2] = 0 /\ Main(i)[2] = 0
    BY DEF Source, Main
  <1> QED
    BY <1>2, <1>3, MainFacts

(* A stage closes its channel, and perhaps the one before it.               *)
LEMMA CloseFlow ==
    ASSUME TypeInv, OrderFree, Flow, NEW c \in Cos(pipe), c # Source,
           Close(c) \/ CloseIn(c)
    PROVE  Flow'
  <1> DEFINE i == c[1]
             k == i - 1
  <1>1. c = Main(i)
    BY LabelFacts DEF Close, CloseIn
  <1>2. /\ i \in 1..LastChan /\ i \in 0..(LastChan + 1) /\ i \in 0..LastChan /\ k \in 0..LastChan /\ k # LastChan /\ k + 1 = i /\ Out(c) = i /\ In(c) = k
        /\ LastChan \in Nat /\ pipe \in Pipes
        /\ Stage(c) = pipe[i]
        /\ pipe[i].kind = "fork" => i \in Forks /\ Forwards(i)
        /\ Closes(i)
    BY <1>1, MainContext DEF TypeInv, TypeOK
  <1>3. /\ UNCHANGED <<pipe, data, popped, count, batch, hand, ended, quit>>
        /\ \/ pc[c] = "close" /\ closed' = closed \cup {i}
              /\ \E to \in {"closeIn", "done"} : /\ pc' = [pc EXCEPT ![c] = to]
                                                 /\ to = "closeIn" => pipe[i].kind = "take"
           \/ pc[c] = "closeIn" /\ closed' = closed \cup {k} /\ pc' = [pc EXCEPT ![c] = "done"]
    BY <1>2 DEF Close, CloseIn, Goto, chanVars, ownVars, userVars
  <1>4. PICK to \in {"closeIn", "done"} :
          /\ pc' = [pc EXCEPT ![c] = to]
          /\ to = "closeIn" => pipe[i].kind = "take"
          /\ \/ pc[c] = "close" /\ closed' = closed \cup {i}
             \/ pc[c] = "closeIn" /\ closed' = closed \cup {k} /\ to = "done"
    BY <1>3
  <1>5. /\ StepAt(i) /\ pc'[c] = to
        /\ \A j : Sent(j)' = Sent(j)
        /\ \A d \in Cos(pipe) : d # c => pc'[d] = pc[d] /\ hand'[d] = hand[d]
    <2>1. pc[c] # "done" /\ closed \subseteq closed'
      BY <1>3
    <2> QED
      BY <1>3, <1>4, <2>1, PlainStep
  <1>6. pipe[i].kind # "fork" \/ Forwards(i)'
    <2> SUFFICES ASSUME pipe[i].kind = "fork" PROVE Forwards(i)'
      OBVIOUS
    <2>1. Forwards(i)
      BY <1>2
    <2>2. \A d \in Workers(pipe, i) : pc'[d] = pc[d] /\ hand'[d] = hand[d]
      BY <1>1, <1>2, <1>5, WorkersAre
    <2>3. \A d \in Workers(pipe, i) : pc[d] = "done"
      <3>1. pc[Main(i)] # "join"
        BY <1>1, <1>3
      <3> QED
        BY <2>1, <3>1 DEF Forwards
    <2>4. Sent(i)' = Sent(i) /\ popped'[i - 1] = popped[i - 1]
      BY <1>3, <1>5
    <2> HIDE DEF i
    <2> QED
      BY <1>2, <1>5, <2>1, <2>2, <2>3, <2>4, ParentForwards
  <1>7. LastChan' = LastChan /\ Main(i)' = Main(i) /\ Main(k + 1)' = Main(k + 1)
    BY <1>3, SameParts DEF Main
  <1>8. to = "done" => Cut(k)'
    BY <1>1, <1>2, <1>5, <1>7 DEF Cut
  <1>9. to = "closeIn" \/ to = "done" \/ Cut(i)' => Closes(i)'
    BY <1>1, <1>3, <1>4, <1>5, <1>7 DEF Closes
  <1>10. \A j \in 0..LastChan : j \in closed' /\ j \notin closed => Closes(j)'
    <2> SUFFICES ASSUME NEW j \in 0..LastChan, j \in closed', j \notin closed PROVE Closes(j)'
      OBVIOUS
    <2>1. j = i \/ (j = k /\ to = "done")
      BY <1>4
    <2> QED
      BY <1>8, <1>9, <2>1 DEF Closes
  <1>11. /\ pc'[c] \in {"close", "closeIn", "done"} /\ pc[c] \in {"close", "closeIn", "done"}
         /\ Closes(i)' /\ Sent(i)' = Sent(i)
    BY <1>3, <1>5, <1>9
  <1>12. Stage(c).kind # "fork" \/ Forwards(i)'
    BY <1>2, <1>6
  <1> QED
    BY <1>1, <1>5, <1>10, <1>11, <1>12, StopFlow

(* The source closes its channel when it has pushed all items.              *)
LEMMA SourceCloseFlow ==
    ASSUME TypeInv, Flow, Close(Source)
    PROVE  Flow'
  <1> DEFINE c == Source
  <1>1. /\ TypeOK /\ pipe \in Pipes /\ c \in Cos(pipe) /\ c[1] = 0 /\ c = Main(0) /\ 0 \in 0..LastChan
        /\ 0 \in 0..(LastChan + 1) /\ Out(c) = 0
    BY MainFacts, StageFacts DEF TypeInv, TypeOK, Source, Out
  <1>2. /\ UNCHANGED <<pipe, data, popped, count, batch, hand, ended, quit>>
        /\ pc[c] = "close" /\ closed' = closed \cup {0} /\ pc' = [pc EXCEPT ![c] = "done"]
    BY <1>1 DEF Close, Goto, chanVars, ownVars, userVars
  <1> HIDE DEF c
  <1>3. StepAt(0) /\ pc'[c] = "done" /\ \A j : Sent(j)' = Sent(j)
    <2>1. pc[c] # "done" /\ closed \subseteq closed'
      BY <1>2
    <2>2. StepAt(c[1]) /\ pc'[c] = "done" /\ \A j : Sent(j)' = Sent(j)
      BY <1>1, <1>2, <2>1, PlainStep
    <2> QED
      BY <1>1, <2>2
  <1>4. IsPart(0, Sent(0)) /\ Completes(0) /\ Sent(0) = SubSeq(After[0], 1, count[Source])
    BY <1>1 DEF Flow
  <1>5. /\ After' = After /\ Source' = Source /\ Main(0)' = Main(0)
        /\ IsWhole(0, Sent(0))' <=> IsWhole(0, Sent(0)')
    BY <1>2, SameWish, SameParts DEF Source, Main
  <1>6. (Sent(0) = SubSeq(After[0], 1, count[Source]))'
    BY <1>2, <1>3, <1>4, <1>5
  <1>7. IsPart(0, Sent(0)')
    BY <1>3, <1>4
  <1>8. Completes(0)'
    <2>1. Cut(0) => Cut(0)'
      BY <1>1, <1>3, SameCut
    <2> QED
      BY <1>1, <1>2, <1>3, <1>4, <1>5, <2>1 DEF Completes
  <1>9. \A j \in 0..LastChan : j \in closed' /\ (j = 0 \/ j \notin closed) => Closes(j)'
    BY <1>1, <1>2, <1>3, <1>5 DEF Closes
  <1>10. 0 \notin 1..LastChan
    OBVIOUS
  <1> QED
    BY <1>1, <1>3, <1>6, <1>7, <1>8, <1>9, <1>10, FlowStep

(* The parent of a fork goes on when all its workers have ended.            *)
LEMMA JoinFlow ==
    ASSUME TypeInv, OrderFree, Flow, NEW c \in Cos(pipe), Join(c)
    PROVE  Flow'
  <1> DEFINE i == c[1]
             k == i - 1
             ws == Workers(pipe, i)
  <1>1. pc[c] = "join" /\ c # Source /\ Stage(c).kind = "fork" /\ c = Main(i)
    BY LabelFacts DEF Join
  <1>2. /\ i \in 1..LastChan /\ i \in 0..LastChan /\ k \in 0..LastChan /\ i \in 0..(LastChan + 1)
        /\ pipe \in Pipes /\ Stage(c) = pipe[i] /\ pipe[i].n \in Nat
        /\ i \in Forks /\ Forwards(i) /\ Closes(i)
        /\ IsPart(k, popped[k]) /\ popped[k] \in Seq(Item) /\ Sent(i) \in Seq(Item)
    BY <1>1, MainContext
  <1>3. /\ UNCHANGED <<pipe, data, popped, closed, count, batch, hand, ended, quit>>
        /\ pc' = [pc EXCEPT ![c] = "close"] /\ \A w \in ws : pc[w] = "done"
    BY DEF Join, Goto, chanVars, ownVars, userVars
  <1>4. /\ StepAt(i) /\ pc'[c] = "close"
        /\ \A j : Sent(j)' = Sent(j)
        /\ \A d \in Cos(pipe) : d # c => pc'[d] = pc[d] /\ hand'[d] = hand[d]
    BY <1>1, <1>3, PlainStep
  <1>5. Forwards(i)'
    <2>1. \A d \in ws : pc'[d] = pc[d] /\ hand'[d] = hand[d]
      BY <1>1, <1>2, <1>4, WorkersAre
    <2>2. Sent(i)' = Sent(i) /\ popped'[i - 1] = popped[i - 1]
      BY <1>3, <1>4
    <2> HIDE DEF i
    <2> QED
      BY <1>2, <1>3, <1>4, <2>1, <2>2, ParentForwards
  <1>6. Cut(i) \/ IsWhole(i, Sent(i))
    <2> SUFFICES ASSUME ~Cut(i) PROVE IsWhole(i, Sent(i))
      OBVIOUS
    <2>1. {d \in ws : pc[d] = "push"} = {}
      BY <1>3
    <2>2. {hand[d] : d \in {e \in ws : pc[e] = "push"}} = {}
      BY <2>1
    <2>3. /\ IsInjective(Sent(i)) /\ ToSet(Sent(i)) \subseteq ToSet(popped[k])
          /\ ToSet(popped[k]) \subseteq ToSet(Sent(i))
          /\ \A d \in ws : pc[d] = "done" => k \in closed /\ data[k] = <<>>
      BY <1>2, <2>2 DEF Forwards
    <2>4. <<i, 1>> \in ws
      <3>1. pipe[i].n > 0
        BY <1>1, <1>2, StageFacts
      <3> QED
        BY <1>1, <1>2, <3>1 DEF Workers
    <2>5. IsWhole(k, popped[k])
      <3>1. k \in closed /\ data[k] = <<>> /\ pc[Main(i)] # "done"
        BY <1>1, <1>3, <2>3, <2>4
      <3> HIDE DEF i
      <3> QED
        BY <1>2, <3>1, AtEndWhole
    <2> QED
      BY <1>1, <1>2, <2>3, <2>5, ForkApply
  <1>7. i \in closed => Closes(i)'
    <2>1. Cut(i) => Cut(i)'
      <3> HIDE DEF i
      <3> QED
        BY <1>2, <1>4, SameCut
    <2> QED
      BY <1>1, <1>2, <2>1 DEF Closes
  <1>8. /\ \A j \in 0..LastChan : j \in closed' /\ j \notin closed => Closes(j)'
        /\ pc'[c] \in {"close", "closeIn", "done"} /\ Sent(i)' = Sent(i)
    BY <1>3, <1>4
  <1> QED
    BY <1>1, <1>4, <1>5, <1>6, <1>7, <1>8, StopFlow

-----------------------------------------------------------------------------
(* The workers of a fork *)

(* What a worker of a fork is. *)
LEMMA WorkerContext ==
    ASSUME TypeInv, Flow, NEW c \in Cos(pipe), c # Source, Stage(c).kind = "fork", pc[c] \in {"pop", "push"}
    PROVE  LET i == c[1]
           IN  /\ pipe \in Pipes /\ LastChan \in Nat /\ i \in 1..LastChan /\ i \in 0..LastChan
               /\ i - 1 \in 0..LastChan /\ i - 1 # i /\ i \in 0..(LastChan + 1) /\ i # 0
               /\ pipe[i].kind = "fork" /\ In(c) = i - 1 /\ Out(c) = i
               /\ i \in Forks /\ Forwards(i)
               /\ c \in Workers(pipe, i) /\ c # Main(i) /\ Main(i) \in Cos(pipe)
               /\ pc[Main(i)] = "join"
               /\ i \in closed => Cut(i)
               /\ IsPart(i, Sent(i)) /\ IsPart(i - 1, popped[i - 1])
               /\ Apart(Sent(i - 1))
               /\ popped[i - 1] \in Seq(Item) /\ Sent(i) \in Seq(Item) /\ data[i - 1] \in Seq(Item)
  <1> DEFINE i == c[1]
             k == i - 1
  <1>1. pipe \in Pipes /\ LastChan \in Nat /\ DOMAIN pipe = 1..LastChan /\ TypeOK
    BY StageFacts DEF TypeInv, TypeOK
  <1>2. /\ i \in 1..LastChan /\ i \in 0..LastChan /\ k \in 0..LastChan /\ k # i /\ i \in 0..(LastChan + 1) /\ i # 0
        /\ Stage(c) = pipe[i] /\ pipe[i] \in Stages /\ pipe[i].n \in Nat
        /\ In(c) = k /\ Out(c) = i
    BY <1>1, CoFacts
  <1>3. c \in Workers(pipe, i)
    BY LabelFacts
  <1> HIDE DEF i, k
  <1>4. popped[k] \in Seq(Item) /\ data[k] \in Seq(Item) /\ Sent(i) \in Seq(Item) /\ Sent(k) \in Seq(Item) /\ IsPart(k, popped[k])
    BY <1>1, <1>2, SentType, PoppedPart
  <1>5. i \in Forks /\ Forwards(i)
    BY <1>1, <1>2 DEF Flow, Forks
  <1>6. IsPart(i, Sent(i)) /\ Closes(i)
    BY <1>2 DEF Flow
  <1>7. c # Main(i) /\ Main(i) \in Cos(pipe)
    BY <1>1, <1>2, <1>3, WorkersAre, MainFacts
  <1>8. pc[Main(i)] = "join"
    BY <1>3, <1>5 DEF Forwards
  <1>9. i \in closed => Cut(i)
    BY <1>6, <1>8 DEF Closes
  <1>10. Apart(Sent(k))
    BY <1>1, <1>2, <1>4, PartFacts DEF Flow
  <1> QED
    BY <1>1, <1>2, <1>3, <1>4, <1>5, <1>6, <1>7, <1>8, <1>9, <1>10 DEF i, k

(* What a step of a worker has to show.                                     *)
LEMMA WorkerStep ==
    ASSUME TypeInv, Flow, NEW c \in Cos(pipe), c # Source, Stage(c).kind = "fork", pc[c] \in {"pop", "push"},
           StepAt(c[1]), closed' = closed, pc'[Main(c[1])] = "join",
           Forwards(c[1])', IsPart(c[1], Sent(c[1])')
    PROVE  Flow'
  <1> DEFINE i == c[1]
  <1>1. /\ i \in 1..LastChan /\ i \in 0..LastChan /\ i \in 0..(LastChan + 1) /\ i # 0
        /\ i \in Forks /\ (i \in closed => Cut(i))
    BY WorkerContext
  <1>2. StepAt(i) /\ pipe' = pipe /\ pc'[Main(i)] = "join" /\ Forwards(i)' /\ IsPart(i, Sent(i)')
    BY DEF StepAt
  <1> HIDE DEF i
  <1>3. Forks' = Forks /\ Main(i)' = Main(i)
    BY <1>2, SameParts DEF Main
  <1>4. StageInv(i)'
    BY <1>1, <1>2, <1>3 DEF StageInv
  <1>5. Completes(i)'
    BY <1>2, <1>3 DEF Completes
  <1>6. \A j \in 0..LastChan : j \in closed' /\ (j = i \/ j \notin closed) => Closes(j)'
    <2>1. Cut(i) => Cut(i)'
      BY <1>1, <1>2, SameCut
    <2> QED
      BY <1>1, <2>1 DEF Closes
  <1> QED
    BY <1>1, <1>2, <1>4, <1>5, <1>6, FlowStep

(* The next item is not among those popped before. *)
LEMMA NextIsNew ==
    ASSUME NEW S, NEW xs \in Seq(S), NEW ys \in Seq(S), ys # <<>>, Apart(xs \o ys)
    PROVE  Head(ys) \notin ToSet(xs)
  <1>1. IsInjective(xs \o ys)
    <2>1. xs \o ys \in Seq(S)
      OBVIOUS
    <2> HIDE DEF Apart
    <2> QED
      BY <2>1, ApartInjective
  <1>2. ToSet(xs) \cap ToSet(ys) = {}
    BY <1>1, ConcatInjective
  <1>3. Head(ys) \in ToSet(ys)
    BY ToSetTail
  <1> QED
    BY <1>2, <1>3

(* A worker takes an item into its hand.                                    *)
LEMMA WorkerPopFlow ==
    ASSUME TypeInv, Flow, NEW c \in Cos(pipe), c # Source, Stage(c).kind = "fork", Pop(c)
    PROVE  Flow'
  <1> DEFINE i == c[1]
             k == i - 1
             x == Head(data[k])
             ws == Workers(pipe, i)
             held == {d \in ws : pc[d] = "push"}
             taken == {hand[d] : d \in held}
             held2 == {d \in ws : pc'[d] = "push"}
             taken2 == {hand'[d] : d \in held2}
             ys == Sent(i)
             xs == popped[k]
  <1>1. pc[c] \in {"pop", "push"} /\ pc[c] = "pop"
    BY DEF Pop
  <1>2. /\ pipe \in Pipes /\ i \in 1..LastChan /\ i \in 0..LastChan /\ i \in 0..(LastChan + 1)
        /\ Forwards(i) /\ c \in ws /\ c # Main(i) /\ Main(i) \in Cos(pipe)
        /\ pc[Main(i)] = "join"
        /\ IsPart(i, ys) /\ Apart(Sent(k))
        /\ xs \in Seq(Item) /\ data[k] \in Seq(Item)
    BY <1>1, WorkerContext
  <1>3. /\ StepAt(i) /\ UNCHANGED <<pipe, closed>>
        /\ x \in Item /\ popped'[k] = Append(xs, x) /\ data[k] # <<>>
        /\ Sent(i)' = ys
        /\ PassOn(c, x) \/ Filter(c, x) \/ Skip(c, x) \/ Group(c, x) \/ Reduce(c, x)
        /\ \A d \in Cos(pipe) : d # c => pc'[d] = pc[d] /\ hand'[d] = hand[d]
    BY PopStep
  <1>4. hand' = [hand EXCEPT ![c] = x] /\ pc' = [pc EXCEPT ![c] = "push"]
    <2> HIDE DEF x
    <2>1. PassOn(c, x)
      BY <1>3 DEF Filter, Skip, Group, Reduce
    <2> QED
      BY <2>1 DEF PassOn, Goto
  <1>5. hand'[c] = x /\ pc'[c] = "push"
    BY <1>4 DEF TypeInv, TypeOK
  <1>6. \A d \in ws : d # c => pc'[d] = pc[d] /\ hand'[d] = hand[d]
    BY <1>2, <1>3, WorkersAre
  <1>7. /\ IsInjective(ys)
        /\ ToSet(ys) \cup taken \subseteq ToSet(xs)
        /\ \A d \in held : hand[d] \notin ToSet(ys)
        /\ \A d, e \in held : d # e => hand[d] # hand[e]
        /\ ~Cut(i) => /\ ToSet(xs) \subseteq ToSet(ys) \cup taken
                      /\ \A d \in ws : pc[d] = "done" => k \in closed /\ data[k] = <<>>
    BY <1>2 DEF Forwards
  <1>8. x \notin ToSet(xs)
    BY <1>2, <1>3, NextIsNew DEF Sent
  <1>9. ToSet(popped'[k]) = ToSet(xs) \cup {x}
    <2> HIDE DEF x, xs
    <2> QED
      BY <1>2, <1>3, ToSetAppend
  <1>10. held2 = held \cup {c} /\ c \notin held
    BY <1>1, <1>2, <1>5, <1>6
  <1>11. \A d \in held : hand'[d] = hand[d] /\ hand[d] \in taken /\ hand[d] \in ToSet(xs)
    BY <1>1, <1>6, <1>7
  <1>12. taken2 = taken \cup {x}
    BY <1>5, <1>10, <1>11
  <1>13. pc'[Main(i)] = "join"
    BY <1>2, <1>3
  <1>14. Cut(i) => Cut(i)'
    <2> HIDE DEF i
    <2> QED
      BY <1>2, <1>3, SameCut
  <1>15. ws = Workers(pipe, i) /\ held2 = {d \in ws : pc'[d] = "push"} /\ taken2 = {hand'[d] : d \in held2} /\ pipe' = pipe
    BY <1>3
  <1>20. pc[c] = "pop" /\ c \in ws
    BY <1>1, <1>2
  <1> HIDE DEF i, x, ws, held, taken, held2, taken2, xs, ys
  <1>16. /\ IsInjective(Sent(i)')
         /\ ToSet(Sent(i)') \cup taken2 \subseteq ToSet(popped'[k])
         /\ \A d \in held2 : hand'[d] \notin ToSet(Sent(i)')
         /\ \A d, e \in held2 : d # e => hand'[d] # hand'[e]
    <2>1. x \notin ToSet(ys)
      BY <1>7, <1>8
    <2>2. \A d, e \in held2 : d # e => hand'[d] # hand'[e]
      BY <1>5, <1>7, <1>8, <1>10, <1>11
    <2> QED
      BY <1>3, <1>5, <1>7, <1>9, <1>10, <1>11, <1>12, <2>1, <2>2
  <1>17. ~Cut(i)' => /\ ToSet(popped'[k]) \subseteq ToSet(Sent(i)') \cup taken2
                     /\ \A d \in ws : pc'[d] = "done" => k \in closed' /\ data'[k] = <<>>
    <2> SUFFICES ASSUME ~Cut(i)'
                 PROVE  /\ ToSet(popped'[k]) \subseteq ToSet(Sent(i)') \cup taken2
                        /\ \A d \in ws : pc'[d] = "done" => k \in closed' /\ data'[k] = <<>>
      OBVIOUS
    <2>1. /\ ToSet(xs) \subseteq ToSet(ys) \cup taken
          /\ \A d \in ws : pc[d] # "done"
      BY <1>3, <1>7, <1>14
    <2>2. \A d \in ws : pc'[d] # "done"
      BY <1>5, <1>6, <2>1
    <2> QED
      BY <1>3, <1>9, <1>12, <2>1, <2>2
  <1>18. Forwards(i)'
    <2>1. pc'[Main(i)] # "join" => \A d \in ws : pc'[d] = "done"
      BY <1>13
    <2> QED
      BY ONLY <1>15, <1>16, <1>17, <2>1, ForwardsNext DEF k
  <1>19. IsPart(i, Sent(i)')
    BY <1>2, <1>3
  <1> QED
    BY <1>1, <1>3, <1>13, <1>18, <1>19, WorkerStep DEF i

(* A worker ends, and the item in its hand, if any, is lost. *)
LEMMA WorkerDoneFlow ==
    ASSUME TypeInv, Flow, NEW c \in Cos(pipe), c # Source, Stage(c).kind = "fork",
           PopEnd(c) \/ PushRefused(c)
    PROVE  Flow'
  <1> DEFINE i == c[1]
             k == i - 1
             ws == Workers(pipe, i)
             held == {d \in ws : pc[d] = "push"}
             taken == {hand[d] : d \in held}
             held2 == {d \in ws : pc'[d] = "push"}
             taken2 == {hand'[d] : d \in held2}
             ys == Sent(i)
             xs == popped[k]
  <1>1. pc[c] \in {"pop", "push"}
    BY DEF PopEnd, PushRefused
  <1>2. /\ pipe \in Pipes /\ i \in 1..LastChan /\ i \in 0..LastChan /\ i \in 0..(LastChan + 1)
        /\ Forwards(i) /\ c \in ws /\ c # Main(i) /\ Main(i) \in Cos(pipe)
        /\ pc[Main(i)] = "join" /\ In(c) = k /\ Out(c) = i
        /\ i \in closed => Cut(i)
        /\ IsPart(i, ys)
    BY <1>1, WorkerContext
  <1>3. /\ UNCHANGED <<pipe, data, popped, closed, count, batch, hand, ended, quit>>
        /\ pc' = [pc EXCEPT ![c] = "done"]
        /\ \/ pc[c] = "pop" /\ k \in closed /\ data[k] = <<>>
           \/ Cut(i)
    BY <1>2 DEF PopEnd, PushRefused, AtEnd, Refused, Goto, chanVars, ownVars, userVars
  <1>4. /\ StepAt(i) /\ pc'[c] = "done"
        /\ \A j : Sent(j)' = Sent(j)
        /\ \A d \in Cos(pipe) : d # c => pc'[d] = pc[d] /\ hand'[d] = hand[d]
    <2>1. pc[c] # "done"
      BY <1>1
    <2> QED
      BY <1>3, <2>1, PlainStep
  <1>5. \A d \in ws : (d # c => pc'[d] = pc[d]) /\ hand'[d] = hand[d]
    BY <1>2, <1>3, <1>4, WorkersAre
  <1>6. /\ IsInjective(ys)
        /\ ToSet(ys) \cup taken \subseteq ToSet(xs)
        /\ \A d \in held : hand[d] \notin ToSet(ys)
        /\ \A d, e \in held : d # e => hand[d] # hand[e]
        /\ ~Cut(i) => /\ ToSet(xs) \subseteq ToSet(ys) \cup taken
                      /\ \A d \in ws : pc[d] = "done" => k \in closed /\ data[k] = <<>>
    BY <1>2 DEF Forwards
  <1>7. held2 = held \ {c}
    BY <1>2, <1>4, <1>5
  <1>8. taken2 \subseteq taken /\ (pc[c] = "pop" => taken2 = taken)
    BY <1>5, <1>7
  <1>9. pc'[Main(i)] = "join"
    BY <1>2, <1>4
  <1>10. Cut(i) => Cut(i)'
    <2> HIDE DEF i
    <2> QED
      BY <1>2, <1>4, SameCut
  <1>11. ws = Workers(pipe, i) /\ held2 = {d \in ws : pc'[d] = "push"} /\ taken2 = {hand'[d] : d \in held2} /\ pipe' = pipe
    BY <1>3
  <1> HIDE DEF i, ws, held, taken, held2, taken2, xs, ys
  <1>12. /\ IsInjective(Sent(i)')
         /\ ToSet(Sent(i)') \cup taken2 \subseteq ToSet(popped'[k])
         /\ \A d \in held2 : hand'[d] \notin ToSet(Sent(i)')
         /\ \A d, e \in held2 : d # e => hand'[d] # hand'[e]
    BY <1>3, <1>4, <1>6, <1>7, <1>8 DEF xs, ys
  <1>13. ~Cut(i)' => /\ ToSet(popped'[k]) \subseteq ToSet(Sent(i)') \cup taken2
                     /\ \A d \in ws : pc'[d] = "done" => k \in closed' /\ data'[k] = <<>>
    BY <1>3, <1>4, <1>5, <1>6, <1>8, <1>10 DEF xs, ys
  <1>14. Forwards(i)'
    <2>1. pc'[Main(i)] # "join" => \A d \in ws : pc'[d] = "done"
      BY <1>9
    <2> QED
      BY ONLY <1>11, <1>12, <1>13, <2>1, ForwardsNext DEF k
  <1>15. IsPart(i, Sent(i)')
    BY <1>2, <1>4 DEF ys
  <1> QED
    BY <1>1, <1>3, <1>4, <1>9, <1>14, <1>15, WorkerStep DEF i

(* A worker sends what it has in its hand.                                  *)
LEMMA WorkerPushFlow ==
    ASSUME TypeInv, Flow, NEW c \in Cos(pipe), c # Source, Stage(c).kind = "fork", Push(c)
    PROVE  Flow'
  <1> DEFINE i == c[1]
             k == i - 1
             ws == Workers(pipe, i)
             held == {d \in ws : pc[d] = "push"}
             taken == {hand[d] : d \in held}
             held2 == {d \in ws : pc'[d] = "push"}
             taken2 == {hand'[d] : d \in held2}
             ys == Sent(i)
             xs == popped[k]
             h == hand[c]
             zs == Sent(i)'
  <1>1. pc[c] \in {"pop", "push"} /\ pc[c] = "push" /\ TypeOK
    BY DEF Push, TypeInv
  <1>2. /\ pipe \in Pipes /\ i \in 1..LastChan /\ i \in 0..LastChan /\ i \in 0..(LastChan + 1)
        /\ k \in 0..LastChan /\ pipe[i].kind = "fork"
        /\ Forwards(i) /\ c \in ws /\ c # Main(i) /\ Main(i) \in Cos(pipe)
        /\ pc[Main(i)] = "join" /\ Out(c) = i
        /\ IsPart(k, xs) /\ xs \in Seq(Item) /\ ys \in Seq(Item)
    BY <1>1, WorkerContext
  <1>3. /\ Accepted(i, h) /\ UNCHANGED <<pipe, closed, count, batch, hand, ended, quit>>
        /\ pc' = [pc EXCEPT ![c] = "pop"]
    BY <1>2 DEF Push, Goto, userVars
  <1>4. h \in Item /\ closed \subseteq 0..LastChan
    BY <1>1 DEF TypeOK
  <1>5. /\ i \notin closed /\ popped' = popped /\ zs = Append(ys, h)
        /\ \A j \in 0..LastChan : j # i => Sent(j)' = Sent(j) /\ data'[j] = data[j]
    <2>1. TypeOK /\ i \in 0..LastChan /\ h \in Item /\ Accepted(i, h)
      BY <1>1, <1>2, <1>3, <1>4
    <2> HIDE DEF i, h
    <2> QED
      BY ONLY <2>1, PushMoves DEF zs, ys
  <1>6. /\ \A d \in Cos(pipe) : d[1] # c[1] => /\ pc'[d] = pc[d] /\ count'[d] = count[d]
                                               /\ batch'[d] = batch[d] /\ hand'[d] = hand[d]
        /\ \A d \in Cos(pipe) : pc[d] = "done" => pc'[d] = "done"
        /\ \A d \in Cos(pipe) : d # c => pc'[d] = pc[d] /\ hand'[d] = hand[d]
        /\ pc'[c] = "pop"
    <2>1. PICK to : to = "pop"
      OBVIOUS
    <2>2. pc' = [pc EXCEPT ![c] = to] /\ count' = count /\ batch' = batch /\ hand' = hand
      BY <1>3, <2>1
    <2>3. pc[c] # "done"
      BY <1>1
    <2> HIDE DEF i, k, ws, held, taken, held2, taken2, xs, ys, zs, h
    <2>4. /\ \A d \in Cos(pipe) : d[1] # c[1] => /\ pc'[d] = pc[d] /\ count'[d] = count[d]
                                                 /\ batch'[d] = batch[d] /\ hand'[d] = hand[d]
          /\ \A d \in Cos(pipe) : pc[d] = "done" => pc'[d] = "done"
          /\ \A d \in Cos(pipe) : d # c => pc'[d] = pc[d] /\ hand'[d] = hand[d]
          /\ pc'[c] = to
      BY ONLY TypeInv, c \in Cos(pipe), <2>2, <2>3, OthersStand
    <2> QED
      BY <2>1, <2>4
  <1>7. \A j \in closed : data[j] = <<>> => data'[j] = <<>>
    BY <1>4, <1>5
  <1>8. StepAt(i)
    BY <1>3, <1>5, <1>6, <1>7 DEF StepAt
  <1>9. \A d \in ws : (d # c => pc'[d] = pc[d]) /\ hand'[d] = hand[d]
    BY <1>2, <1>3, <1>6, WorkersAre
  <1>10. /\ IsInjective(ys)
         /\ ToSet(ys) \cup taken \subseteq ToSet(xs)
         /\ \A d \in held : hand[d] \notin ToSet(ys)
         /\ \A d, e \in held : d # e => hand[d] # hand[e]
         /\ ~Cut(i) => /\ ToSet(xs) \subseteq ToSet(ys) \cup taken
                       /\ \A d \in ws : pc[d] = "done" => k \in closed /\ data[k] = <<>>
    BY <1>2 DEF Forwards
  <1>11. c \in held /\ held2 = held \ {c} /\ h \in taken
    BY <1>1, <1>2, <1>6, <1>9
  <1>12. taken = taken2 \cup {h}
    BY <1>9, <1>11
  <1>13. pc'[Main(i)] = "join"
    BY <1>2, <1>6
  <1>14. Cut(i) => Cut(i)'
    <2> HIDE DEF i
    <2> QED
      BY <1>2, <1>8, SameCut
  <1>15. ws = Workers(pipe, i) /\ held2 = {d \in ws : pc'[d] = "push"} /\ taken2 = {hand'[d] : d \in held2} /\ pipe' = pipe
    BY <1>3
  <1>16. h \notin ToSet(ys)
    BY <1>10, <1>11
  <1>17. zs \in Seq(Item) /\ IsInjective(zs) /\ ToSet(zs) = ToSet(ys) \cup {h}
    <2>1. ~Contains(ys, h)
      BY <1>16 DEF Contains, ToSet
    <2>2. zs \in Seq(Item) /\ ToSet(zs) = ToSet(ys) \cup {h}
      <3> HIDE DEF ys, h, zs
      <3> QED
        BY <1>2, <1>4, <1>5, ToSetAppend
    <2> HIDE DEF ys, h, zs
    <2> QED
      BY <1>2, <1>4, <1>5, <1>10, <2>1, <2>2, InjectiveAppend
  <1>18. \A d \in held2 : hand'[d] = hand[d] /\ hand[d] # h /\ d \in held
    BY <1>9, <1>10, <1>11
  <1> HIDE DEF i, ws, held, taken, held2, taken2, xs, ys, zs, h
  <1>19. /\ IsInjective(zs)
         /\ ToSet(zs) \cup taken2 \subseteq ToSet(popped'[k])
         /\ \A d \in held2 : hand'[d] \notin ToSet(zs)
         /\ \A d, e \in held2 : d # e => hand'[d] # hand'[e]
    BY <1>5, <1>10, <1>12, <1>11, <1>17, <1>18 DEF xs
  <1>20. ~Cut(i)' => /\ ToSet(popped'[k]) \subseteq ToSet(zs) \cup taken2
                     /\ \A d \in ws : pc'[d] = "done" => k \in closed' /\ data'[k] = <<>>
    <2> SUFFICES ASSUME ~Cut(i)'
                 PROVE  /\ ToSet(popped'[k]) \subseteq ToSet(zs) \cup taken2
                        /\ \A d \in ws : pc'[d] = "done" => k \in closed' /\ data'[k] = <<>>
      OBVIOUS
    <2>1. /\ ToSet(xs) \subseteq ToSet(ys) \cup taken
          /\ \A d \in ws : pc[d] = "done" => k \in closed /\ data[k] = <<>>
      BY <1>10, <1>14
    <2>2. \A d \in ws : pc'[d] = "done" => pc[d] = "done"
      BY <1>6, <1>9
    <2>3. k \in closed /\ data[k] = <<>> => k \in closed' /\ data'[k] = <<>>
      BY <1>3, <1>7
    <2> QED
      BY <1>5, <1>12, <1>17, <2>1, <2>2, <2>3 DEF xs
  <1>21. Forwards(i)'
    <2>1. pc'[Main(i)] # "join" => \A d \in ws : pc'[d] = "done"
      BY <1>13
    <2> QED
      BY ONLY <1>15, <1>19, <1>20, <2>1, ForwardsNext DEF k, zs
  <1>22. IsPart(i, zs)
    <2>1. ToSet(zs) \subseteq ToSet(xs)
      BY <1>10, <1>12, <1>17
    <2> QED
      BY <1>2, <1>17, <2>1, ForkApply DEF xs, k
  <1> QED
    BY <1>1, <1>3, <1>8, <1>13, <1>21, <1>22, WorkerStep DEF i, zs

-----------------------------------------------------------------------------
(* All steps *)

(* A step of any coroutine preserves Flow.                                  *)
LEMMA CoFlow ==
    ASSUME TypeInv, OrderFree, Flow, NEW c \in Cos(pipe), CoNext(c)
    PROVE  Flow'
  <1>1. CASE c = Source
    <2>1. pc[c] \in {"push", "taken", "close", "done"}
      BY <1>1, LabelFacts DEF Labels
    <2>2. Close(Source)
      BY <1>1, <2>1 DEF CoNext, Pop, PopEnd, Push, PushRefused, Join, CloseIn
    <2> QED
      BY <2>2, SourceCloseFlow
  <1>2. CASE c # Source /\ Stage(c).kind = "fork"
    BY <1>2, WorkerPopFlow, WorkerDoneFlow, WorkerPushFlow, JoinFlow, CloseFlow DEF CoNext
  <1>3. CASE c # Source /\ Stage(c).kind # "fork"
    <2>1. c = Main(c[1])
      <3>1. pipe \in Pipes
        BY DEF TypeInv, TypeOK
      <3> QED
        BY <1>3, <3>1, CoFacts
    <2> QED
      BY <1>3, <2>1, MainPopFlow, MainPopEndFlow, MainPushFlow, MainRefusedFlow, JoinFlow, CloseFlow DEF CoNext
  <1> QED
    BY <1>1, <1>2, <1>3

(* So every step does, where no stage behind a fork needs the order.        *)
LEMMA StepFlow == TypeInv /\ (OrderFree => Flow) /\ [Next]_vars => (OrderFree => Flow)'
  <1> SUFFICES ASSUME TypeInv, OrderFree => Flow, [Next]_vars, OrderFree' PROVE Flow'
    OBVIOUS
  <1>1. pipe' = pipe
    BY DEF Next, SourceNext, SourcePush, SourceTaken, SourceStops, CoNext, Pop, PopEnd, Push, PushRefused,
           Join, Close, CloseIn, UserNext, Read, ReadEnd, Quit, vars
  <1>2. OrderFree /\ Flow
    BY <1>1, SameParts
  <1>3. CASE SourceNext
    BY <1>2, <1>3, SourceFlow
  <1>4. CASE \E c \in Cos(pipe) : CoNext(c)
    BY <1>2, <1>4, CoFlow
  <1>5. CASE UserNext
    BY <1>2, <1>5, UserFlow
  <1>6. CASE UNCHANGED vars
    <2>1. /\ \A i : (IsPart(i, Sent(i))' <=> IsPart(i, Sent(i))) /\ (IsWhole(i, Sent(i))' <=> IsWhole(i, Sent(i)))
          /\ After' = After
      <3>1. \A i : Sent(i)' = Sent(i)
        BY <1>6 DEF vars, Sent
      <3> QED
        BY <1>1, <3>1, SameParts, SameWish
    <2>2. \A i : Follows(i)' <=> Follows(i)
      <3> TAKE i
      <3> DEFINE c == Main(i)
      <3>1. Sent(i)' = Sent(i) /\ UNCHANGED <<pipe, pc, count, batch, hand, popped>>
        BY <1>6 DEF vars, Sent
      <3> QED
        BY <3>1, FollowsIs
    <2>3. \A i : Forwards(i)' <=> Forwards(i)
      BY <1>6 DEF vars, Forwards, Workers, Sent, Cut, Main, LastChan
    <2> QED
      BY <1>2, <1>6, <2>1, <2>2, <2>3 DEF vars, Flow, Sent, Cut, Closes, Completes, Main, LastChan, Source, Forks
  <1> QED
    BY <1>3, <1>4, <1>5, <1>6 DEF Next

(* Nothing comes out of nothing, except for reduce. *)
LEMMA ApplyNothing ==
    ASSUME NEW s \in Stages, s.kind # "reduce", s.kind = "group" => s.n > 0
    PROVE  Apply(s, <<>>) = <<>> /\ (s.kind = "group" => Rest(s, <<>>) = <<>>)
  <1>1. s.n \in Nat /\ s.kind \in {"func", "fork", "filter", "take", "skip", "group"}
    BY Kinds
  <1>2. Len(<<>>) = 0
    OBVIOUS
  <1>3. CASE s.kind \in {"func", "fork"}
    BY <1>3, ApplyIs
  <1>4. CASE s.kind = "filter"
    BY <1>4, ApplyIs, OnlyEmpty
  <1>5. CASE s.kind = "take"
    <2>1. Apply(s, <<>>) = SubSeq(<<>>, 1, 0)
      BY <1>1, <1>2, <1>5, ApplyIs
    <2> QED
      BY <1>5, <2>1
  <1>6. CASE s.kind = "skip"
    <2>1. Apply(s, <<>>) = SubSeq(<<>>, s.n + 1, 0)
      BY <1>1, <1>2, <1>6, ApplyIs
    <2>2. SubSeq(<<>>, s.n + 1, 0) = <<>>
      BY <1>1
    <2> QED
      BY <1>6, <2>1, <2>2
  <1>7. CASE s.kind = "group"
    <2>1. 0 \div s.n = 0
      BY <1>1, <1>7
    <2>2. Rest(s, <<>>) = SubSeq(<<>>, 0 * s.n + 1, 0)
      BY <1>2, <2>1 DEF Rest
    <2>3. Rest(s, <<>>) = <<>>
      BY <1>1, <2>2
    <2>4. Apply(s, <<>>) = [k \in 1..0 |-> FlattenSeq(Block(s, <<>>, k))]
      BY <1>2, <1>7, <2>1, ApplyIs
    <2>5. Apply(s, <<>>) = <<>>
      BY <2>4
    <2> QED
      BY <2>3, <2>5
  <1> QED
    BY <1>1, <1>3, <1>4, <1>5, <1>6, <1>7

(* Flow to begin with: nobody has popped or sent anything.                  *)
LEMMA InitFlow == Init /\ OrderFree => Flow
  <1> SUFFICES ASSUME Init, OrderFree PROVE Flow
    OBVIOUS
  <1>1. TypeInv /\ pipe \in Pipes /\ LastChan \in Nat /\ DOMAIN pipe = 1..LastChan
    BY InitTypes, StageFacts DEF Init
  <1>2. /\ \A i \in 0..LastChan : data[i] = <<>> /\ popped[i] = <<>> /\ Sent(i) = <<>>
        /\ \A c \in Cos(pipe) : pc[c] = Entry(pipe, c) /\ count[c] = 0 /\ batch[c] = <<>> /\ hand[c] = <<>>
        /\ closed = {} /\ ~ended /\ ~quit
    BY DEF Init, Sent
  <1>3. <<>> \in Seq(Item)
    OBVIOUS
  <1>4. Sent(0) = SubSeq(After[0], 1, count[Source])
    <2>1. Sent(0) = <<>> /\ count[Source] = 0 /\ After[0] \in Seq(Item)
      BY <1>1, <1>2, MainFacts, AfterFacts
    <2> QED
      BY <2>1, WholeSubSeq
  <1>5. \A i \in 1..LastChan : /\ Main(i) \in Cos(pipe)
                               /\ pc[Main(i)] = CASE pipe[i].kind = "fork" -> "join"
                                                  [] pipe[i].kind = "take" /\ pipe[i].n = 0 -> "close"
                                                  [] OTHER -> "pop"
    <2> TAKE i \in 1..LastChan
    <2>1. /\ Main(i) \in Cos(pipe) /\ Main(i) # Source /\ Main(i)[1] = i /\ Main(i)[2] = 0
      BY <1>1, MainFacts
    <2> QED
      BY <1>2, <2>1 DEF Entry
  <1>6. pc[Source] = "push" /\ Source = Main(0)
    BY <1>1, <1>2, MainFacts DEF Entry
  <1>7. \A i \in 1..LastChan : \A c \in Workers(pipe, i) : pc[c] = "pop"
    <2> TAKE i \in 1..LastChan
    <2> TAKE c \in Workers(pipe, i)
    <2>1. /\ c \in Cos(pipe) /\ c[1] = i /\ c[2] # 0 /\ c # Source /\ pipe[i].kind = "fork"
      BY <1>1, WorkersAre
    <2> QED
      BY <1>2, <2>1 DEF Entry
  <1>8. ASSUME NEW i \in 1..LastChan PROVE IF i \in Forks THEN Forwards(i) ELSE Follows(i)
    <2>1. /\ pipe[i] \in Stages /\ pipe[i].n \in Nat /\ (pipe[i].kind = "group" => pipe[i].n > 0)
          /\ i \in 0..LastChan /\ i - 1 \in 0..LastChan
          /\ i \in Forks <=> pipe[i].kind = "fork"
      BY <1>1, StageFacts, Kinds DEF Forks
    <2>2. CASE pipe[i].kind = "fork"
      <3>1. {c \in Workers(pipe, i) : pc[c] = "push"} = {}
        BY <1>7
      <3>2. pc[Main(i)] = "join" /\ \A c \in Workers(pipe, i) : pc[c] # "done"
        BY <1>5, <1>7, <2>2
      <3>3. Sent(i) = <<>> /\ popped[i - 1] = <<>> /\ IsInjective(<<>>) /\ ToSet(<<>>) = {}
        BY <1>2, <2>1, EmptyApart
      <3>4. {hand[c] : c \in {d \in Workers(pipe, i) : pc[d] = "push"}} = {}
        BY <3>1
      <3>5. Forwards(i)
        BY <3>1, <3>2, <3>3, <3>4 DEF Forwards
      <3> QED
        BY <2>1, <2>2, <3>5
    <2>3. CASE pipe[i].kind # "fork"
      <3> DEFINE c == Main(i)
      <3>1. /\ Sent(i) = <<>> /\ popped[i - 1] = <<>> /\ count[c] = 0 /\ batch[c] = <<>>
        BY <1>2, <1>5, <2>1
      <3>2. pc[c] \in {"pop", "close"}
        BY <1>5, <2>3
      <3>3. /\ pipe[i].kind # "reduce" => Apply(pipe[i], <<>>) = <<>>
            /\ pipe[i].kind = "group" => Rest(pipe[i], <<>>) = <<>>
        BY <2>1, ApplyNothing
      <3>4. Len(<<>>) = 0 /\ (0 < pipe[i].n \/ pipe[i].n = 0)
        BY <2>1
      <3>5. FollowsFrom(i, pc[c], 0, <<>>, hand[c], <<>>, <<>>)
        BY <3>2, <3>3, <3>4 DEF FollowsFrom
      <3>6. Follows(i)
        BY <3>1, <3>5, FollowsIs
      <3> QED
        BY <2>1, <2>3, <3>6
    <2> QED
      BY <2>2, <2>3
  <1>9. ASSUME NEW i \in 0..LastChan PROVE IsPart(i, Sent(i)) /\ Closes(i) /\ Completes(i)
    <2>1. Sent(i) = <<>> /\ After[i] \in Seq(Item)
      BY <1>1, <1>2, AfterFacts
    <2>2. IsPart(i, Sent(i))
      BY <2>1, EmptyApart, PrefixFacts DEF IsPart
    <2>3. Closes(i)
      BY <1>2 DEF Closes
    <2>4. Completes(i)
      <3> SUFFICES ASSUME pc[Main(i)] \in {"close", "closeIn", "done"} PROVE IsWhole(i, Sent(i))
        BY DEF Completes
      <3>1. i # 0
        BY <1>6
      <3>2. i \in 1..LastChan
        BY <1>1, <3>1
      <3>3. pipe[i].kind = "take" /\ pipe[i].n = 0
        BY <1>5, <3>2
      <3> QED
        BY <1>1, <1>3, <2>1, <2>2, <3>2, <3>3, TakeIsFull
    <2> QED
      BY <2>2, <2>3, <2>4
  <1> QED
    BY <1>1, <1>2, <1>4, <1>8, <1>9 DEF Flow

(* In every state each stage has sent what it makes of what it has popped,  *)
(* in its order or, for fork, in any, and closes its channel only when that *)
(* is all or nobody reads on (co_pipeline.h:217-459).                       *)
THEOREM PipelineInvariant == SafeSpec => []PipelineInv
  <1> DEFINE I == TypeInv /\ (OrderFree => Flow)
  <1>1. Init => I
    BY InitTypes, InitFlow
  <1>2. I /\ [Next]_vars => I'
    BY StepTypes, StepFlow
  <1>3. I => PipelineInv
    BY DEF TypeInv, PipelineInv
  <1> HIDE DEF I
  <1> QED
    BY <1>1, <1>2, <1>3, PTL DEF SafeSpec

(* What Flow says of the last channel is what the user sees.                *)
LEMMA FlowGivesAsWritten == PipelineInv => AsWritten
  <1> DEFINE n == LastChan
             got == popped[n]
             all == ended /\ ~quit
  <1> SUFFICES ASSUME PipelineInv PROVE AsWritten
    OBVIOUS
  <1>1. TypeInv /\ TypeOK /\ pipe \in Pipes /\ n \in Nat /\ n \in 0..n /\ DOMAIN pipe = 1..n
    BY StageFacts DEF PipelineInv, TypeInv, TypeOK
  <1>2. got \in Seq(Item) /\ Sent(n) \in Seq(Item) /\ IsPrefix(got, Sent(n)) /\ data[n] \in Seq(Item)
    BY <1>1, SentType
  <1>3. After[n] \in Seq(Item) /\ Apart(After[n]) /\ Wanted = After[n]
    BY <1>1, AfterFacts DEF Wanted
  <1>4. ASSUME OrderFree PROVE Apart(got) /\ IsPart(n, got) /\ (all => IsWhole(n, got))
    <2>1. Flow
      BY <1>4 DEF PipelineInv
    <2>2. Apart(got) /\ IsPart(n, got)
      BY <1>1, <1>2, <2>1, PoppedPart
    <2>3. ASSUME all PROVE IsWhole(n, got)
      <3>1. n \in closed /\ data[n] = <<>> /\ Closes(n) /\ Completes(n)
        BY <1>1, <2>1, <2>3 DEF Flow
      <3>2. ~Cut(n)
        BY <2>3 DEF Cut
      <3>3. IsWhole(n, Sent(n))
        BY <3>1, <3>2 DEF Closes, Completes
      <3>4. Sent(n) = got
        BY <1>2, <3>1 DEF Sent
      <3> QED
        BY <3>3, <3>4
    <2> QED
      BY <2>2, <2>3
  <1> HIDE DEF n, got, all
  <1>5. CASE Forks = {}
    <2>1. OrderFree /\ Ordered(n)
      BY <1>5 DEF OrderFree, Ordered
    <2>2. IsPrefix(got, Wanted) /\ (all => got = Wanted)
      BY <1>3, <1>4, <2>1 DEF IsPart, IsWhole
    <2> QED
      BY <1>5, <2>2 DEF AsWritten, n, got, all
  <1>6. CASE Forks # {} /\ OrderFree
    <2>1. ~Ordered(n)
      <3>1. PICK i \in 1..n : i \in Forks
        BY <1>1, <1>6 DEF Forks
      <3> QED
        BY <3>1 DEF Ordered
    <2>2. /\ Apart(got) /\ Contents(got) \subseteq Contents(After[n])
          /\ all => Contents(got) = Contents(After[n])
      BY <1>4, <1>6, <2>1 DEF IsPart, IsWhole
    <2>3. /\ Len(got) <= Len(Wanted) /\ (all => Len(Wanted) <= Len(got))
          /\ Len(got) \in Nat /\ Len(Wanted) \in Nat
      BY <1>2, <1>3, <2>2, ApartLength
    <2>4. /\ IsInjective(FlattenSeq(got))
          /\ ToSet(FlattenSeq(got)) = UNION Contents(got)
          /\ ToSet(FlattenSeq(Wanted)) = UNION Contents(After[n])
      BY <1>2, <1>3, <2>2, FlattenFacts DEF Item
    <2>5. /\ Used(got) \subseteq Used(Wanted)
          /\ all => Used(got) = Used(Wanted)
      BY <2>2, <2>4 DEF Used
    <2>6. all => Len(got) = Len(Wanted)
      BY <2>3
    <2> QED
      BY <1>6, <2>3, <2>4, <2>5, <2>6 DEF AsWritten, n, got, all
  <1>7. CASE Forks # {} /\ ~OrderFree
    BY <1>7 DEF AsWritten
  <1> QED
    BY <1>5, <1>6, <1>7

(* However many stages there are and however their coroutines and the user  *)
(* interleave, the user reads what the pipeline says, and all of it if      *)
(* nobody closes the last channel before its end (co_pipeline.h:217-459,    *)
(* the reader at 204-212 or 341-344).                                       *)
THEOREM AlwaysAsWritten == SafeSpec => []AsWritten
  BY PipelineInvariant, FlowGivesAsWritten, PTL
=============================================================================

---------------------------- MODULE QueueLemmas ----------------------------
(***************************************************************************)
(* What push_back, pop_front and remove do to the members of a queue, and   *)
(* to the fact that nobody is in it twice; how many of those who wait on a  *)
(* condition variable are awake after a notify_one; how a sum changes with  *)
(* one of its summands; and what prefixes, Only, FlattenSeq and quotients   *)
(* do to an element more.                                                   *)
(***************************************************************************)
EXTENDS SequencesExt, Queues, TLAPS, WellFoundedInduction, FiniteSetTheorems,
        SequenceTheorems

(* push_back adds exactly the new element. *)
LEMMA ContainsAppend ==
    ASSUME NEW S, NEW s \in Seq(S), NEW x \in S, NEW e
    PROVE  Contains(Append(s, x), e) <=> Contains(s, e) \/ e = x
  <1>1. Len(Append(s, x)) = Len(s) + 1
    OBVIOUS
  <1>2. \A i \in 1..Len(s) : Append(s, x)[i] = s[i]
    OBVIOUS
  <1>3. Append(s, x)[Len(s) + 1] = x
    OBVIOUS
  <1>4. Len(s) \in Nat
    OBVIOUS
  <1>5. ASSUME Contains(Append(s, x), e) PROVE Contains(s, e) \/ e = x
    BY <1>1, <1>2, <1>3, <1>4, <1>5 DEF Contains
  <1>6. ASSUME Contains(s, e) PROVE Contains(Append(s, x), e)
    <2>1. PICK i \in 1..Len(s) : s[i] = e
      BY <1>6 DEF Contains
    <2>2. i \in 1..Len(Append(s, x)) /\ Append(s, x)[i] = e
      BY <1>1, <1>2, <1>4, <2>1
    <2> QED
      BY <2>2 DEF Contains
  <1>7. ASSUME e = x PROVE Contains(Append(s, x), e)
    <2>1. Len(s) + 1 \in 1..Len(Append(s, x))
      BY <1>1, <1>4
    <2> QED
      BY <1>3, <1>7, <2>1 DEF Contains
  <1> QED
    BY <1>5, <1>6, <1>7

(* push_back of a new element keeps the elements distinct. *)
LEMMA InjectiveAppend ==
    ASSUME NEW S, NEW s \in Seq(S), NEW x \in S, IsInjective(s), ~Contains(s, x)
    PROVE  IsInjective(Append(s, x))
  BY DEF Contains, IsInjective

(* In a queue of distinct elements pop_front removes exactly the front.     *)
LEMMA ContainsTail ==
    ASSUME NEW S, NEW s \in Seq(S), s # <<>>, IsInjective(s), NEW e
    PROVE  Contains(Tail(s), e) <=> Contains(s, e) /\ e # Head(s)
  <1>1. Len(s) \in Nat /\ Len(s) >= 1 /\ Len(Tail(s)) = Len(s) - 1
    OBVIOUS
  <1>2. \A i \in 1..(Len(s) - 1) : Tail(s)[i] = s[i + 1]
    OBVIOUS
  <1>3. Head(s) = s[1]
    OBVIOUS
  <1>4. ASSUME Contains(Tail(s), e) PROVE Contains(s, e) /\ e # Head(s)
    <2>1. PICK i \in 1..(Len(s) - 1) : s[i + 1] = e
      BY <1>1, <1>2, <1>4 DEF Contains
    <2>2. i + 1 \in 1..Len(s) /\ i + 1 # 1 /\ 1 \in 1..Len(s)
      BY <1>1, <2>1
    <2> QED
      BY <1>3, <2>1, <2>2 DEF Contains, IsInjective
  <1>5. ASSUME Contains(s, e), e # Head(s) PROVE Contains(Tail(s), e)
    <2>1. PICK i \in 1..Len(s) : s[i] = e
      BY <1>5 DEF Contains
    <2>2. i - 1 \in 1..(Len(s) - 1) /\ (i - 1) + 1 = i
      BY <1>1, <1>3, <1>5, <2>1
    <2>3. Tail(s)[i - 1] = e
      BY <1>2, <2>1, <2>2
    <2> QED
      BY <1>1, <2>2, <2>3 DEF Contains
  <1> QED
    BY <1>4, <1>5

(* ... and keeps them distinct. *)
LEMMA InjectiveTail ==
    ASSUME NEW S, NEW s \in Seq(S), s # <<>>, IsInjective(s)
    PROVE  IsInjective(Tail(s))
  <1>1. Len(s) \in Nat /\ Len(Tail(s)) = Len(s) - 1
    OBVIOUS
  <1>2. \A i \in 1..(Len(s) - 1) : Tail(s)[i] = s[i + 1] /\ i + 1 \in 1..Len(s)
    OBVIOUS
  <1> SUFFICES ASSUME NEW i \in 1..Len(Tail(s)), NEW j \in 1..Len(Tail(s)),
                      Tail(s)[i] = Tail(s)[j]
               PROVE  i = j
    BY DEF IsInjective
  <1>3. i + 1 = j + 1
    BY <1>1, <1>2 DEF IsInjective
  <1> QED
    BY <1>1, <1>3

(* A queue that is not empty has its front in it. *)
LEMMA ContainsHead ==
    ASSUME NEW S, NEW s \in Seq(S), s # <<>>
    PROVE  Head(s) \in S /\ Tail(s) \in Seq(S) /\ Contains(s, Head(s))
  <1>1. 1 \in 1..Len(s) /\ Head(s) = s[1] /\ s[1] \in S
    OBVIOUS
  <1> QED
    BY <1>1 DEF Contains

-----------------------------------------------------------------------------
(* A channel and what has come out of it: a queue that loses its front, and *)
(* a sequence that gets it.                                                 *)

LEMMA ToSetAppend ==
    ASSUME NEW S, NEW s \in Seq(S), NEW x \in S
    PROVE  /\ Append(s, x) \in Seq(S)
           /\ Len(Append(s, x)) = Len(s) + 1
           /\ ToSet(Append(s, x)) = ToSet(s) \cup {x}
  <1>1. /\ Append(s, x) \in Seq(S) /\ Len(Append(s, x)) = Len(s) + 1 /\ Len(s) \in Nat
        /\ DOMAIN s = 1..Len(s) /\ DOMAIN Append(s, x) = 1..(Len(s) + 1)
    OBVIOUS
  <1>2. /\ \A i \in 1..Len(s) : Append(s, x)[i] = s[i]
        /\ Append(s, x)[Len(s) + 1] = x
    OBVIOUS
  <1>3. 1..(Len(s) + 1) = (1..Len(s)) \cup {Len(s) + 1}
    BY <1>1
  <1> QED
    BY <1>1, <1>2, <1>3 DEF ToSet

LEMMA ToSetTail ==
    ASSUME NEW S, NEW s \in Seq(S), s # <<>>
    PROVE  /\ Head(s) \in S /\ Tail(s) \in Seq(S)
           /\ Len(Tail(s)) = Len(s) - 1
           /\ ToSet(s) = {Head(s)} \cup ToSet(Tail(s))
  <1>1. /\ Len(s) \in Nat /\ Len(s) >= 1 /\ Head(s) = s[1] /\ s[1] \in S
        /\ Tail(s) \in Seq(S) /\ Len(Tail(s)) = Len(s) - 1
        /\ DOMAIN s = 1..Len(s) /\ DOMAIN Tail(s) = 1..(Len(s) - 1)
    OBVIOUS
  <1>2. \A i \in 1..(Len(s) - 1) : Tail(s)[i] = s[i + 1]
    OBVIOUS
  <1>3. ASSUME NEW i \in 1..Len(s) PROVE s[i] \in {Head(s)} \cup ToSet(Tail(s))
    <2>1. CASE i = 1
      BY <1>1, <2>1
    <2>2. CASE i # 1
      <3>1. i - 1 \in 1..(Len(s) - 1) /\ (i - 1) + 1 = i
        BY <1>1, <2>2
      <3> QED
        BY <1>1, <1>2, <3>1 DEF ToSet
    <2> QED
      BY <2>1, <2>2
  <1>4. ASSUME NEW i \in 1..(Len(s) - 1) PROVE Tail(s)[i] \in ToSet(s)
    <2>1. i + 1 \in 1..Len(s) /\ Tail(s)[i] = s[i + 1]
      BY <1>1, <1>2
    <2> QED
      BY <1>1, <2>1 DEF ToSet
  <1>5. Head(s) \in ToSet(s)
    BY <1>1 DEF ToSet
  <1> QED
    BY <1>1, <1>3, <1>4, <1>5 DEF ToSet

LEMMA ToSetConcat ==
    ASSUME NEW S, NEW s \in Seq(S), NEW t \in Seq(S), NEW i \in 1..Len(s \o t)
    PROVE  (s \o t)[i] \in ToSet(s) \cup ToSet(t)
  <1>1. /\ Len(s) \in Nat /\ Len(t) \in Nat /\ Len(s \o t) = Len(s) + Len(t)
        /\ DOMAIN s = 1..Len(s) /\ DOMAIN t = 1..Len(t)
    OBVIOUS
  <1>2. CASE i <= Len(s)
    <2>1. i \in 1..Len(s) /\ (s \o t)[i] = s[i]
      BY <1>1, <1>2
    <2> QED
      BY <1>1, <2>1 DEF ToSet
  <1>3. CASE i > Len(s)
    <2>1. i - Len(s) \in 1..Len(t) /\ (s \o t)[i] = t[i - Len(s)]
      BY <1>1, <1>3
    <2> QED
      BY <1>1, <2>1 DEF ToSet
  <1> QED
    BY <1>1, <1>2, <1>3

(* What is put in comes last ...                                            *)
LEMMA ConcatAppend ==
    ASSUME NEW S, NEW s \in Seq(S), NEW t \in Seq(S), NEW x \in S
    PROVE  s \o Append(t, x) = Append(s \o t, x)
  OBVIOUS

(* ... and what is taken out of the one and put into the other stays where  *)
(* it was in both together.                                                 *)
LEMMA ConcatMove ==
    ASSUME NEW S, NEW s \in Seq(S), NEW t \in Seq(S), t # <<>>
    PROVE  Append(s, Head(t)) \o Tail(t) = s \o t
  OBVIOUS

-----------------------------------------------------------------------------
(* Only, by induction over the length of the prefix that has been looked at. *)

(* A set of naturals that is not empty has a least element.                 *)
LEMMA LeastNatural ==
    ASSUME NEW T \in SUBSET Nat, T # {}
    PROVE  \E x \in T : \A y \in T : x <= y
  <1>1. PICK x \in T : \A y \in T : ~ (<<y, x>> \in OpToRel(<, Nat))
    BY NatLessThanWellFounded, WFMin
  <1>2. ASSUME NEW y \in T, y < x PROVE FALSE
    <2>1. <<y, x>> \in Nat \X Nat
      OBVIOUS
    <2>2. <<y, x>>[1] < <<y, x>>[2]
      BY <1>2
    <2>3. <<y, x>> \in OpToRel(<, Nat)
      BY <2>1, <2>2, Zenon DEF OpToRel
    <2> QED
      BY <1>1, <2>3
  <1> QED
    BY <1>2

(* Induction, for a set instead of a predicate.                             *)
LEMMA SetInduction ==
    ASSUME NEW T, 0 \in T, \A n \in Nat : n \in T => n + 1 \in T
    PROVE  \A n \in Nat : n \in T
  <1> SUFFICES ASSUME NEW m \in Nat, m \notin T PROVE FALSE
    OBVIOUS
  <1>1. PICK x \in Nat \ T : \A y \in Nat \ T : x <= y
    BY LeastNatural
  <1>2. x # 0
    OBVIOUS
  <1>3. x - 1 \in Nat /\ x - 1 + 1 = x
    BY <1>2
  <1>4. x - 1 \in T
    BY <1>1, <1>3
  <1> QED
    BY <1>3, <1>4

(* What the recursive function in Only is, for the first n elements of s.   *)
OnlySteps(f, s, S, n) ==
    f = [i \in 0..n |-> IF i = 0 THEN <<>>
                        ELSE IF s[i] \in S THEN Append(f[i - 1], s[i])
                        ELSE f[i - 1]]

LEMMA OnlyStepsExist ==
    ASSUME NEW s, NEW S, NEW m \in Nat
    PROVE  \E f : OnlySteps(f, s, S, m)
  <1> DEFINE T == {n \in Nat : \E f : OnlySteps(f, s, S, n)}
  <1>1. 0 \in T
    <2>1. OnlySteps([i \in 0..0 |-> <<>>], s, S, 0)
      BY DEF OnlySteps
    <2> QED
      BY <2>1
  <1>2. ASSUME NEW n \in Nat, n \in T PROVE n + 1 \in T
    <2>1. PICK f : OnlySteps(f, s, S, n)
      BY <1>2
    <2> DEFINE g == [i \in 0..(n + 1) |->
                       IF i <= n THEN f[i]
                       ELSE IF s[i] \in S THEN Append(f[i - 1], s[i])
                       ELSE f[i - 1]]
    <2>2. \A i \in 0..(n + 1) : i # 0 => i - 1 \in 0..n /\ g[i - 1] = f[i - 1]
      OBVIOUS
    <2>3. ASSUME NEW i \in 0..(n + 1)
          PROVE  g[i] = IF i = 0 THEN <<>>
                        ELSE IF s[i] \in S THEN Append(g[i - 1], s[i])
                        ELSE g[i - 1]
      <3>1. CASE i <= n
        <4>1. i \in 0..n /\ g[i] = f[i]
          BY <3>1
        <4>2. f[i] = IF i = 0 THEN <<>>
                     ELSE IF s[i] \in S THEN Append(f[i - 1], s[i])
                     ELSE f[i - 1]
          BY <2>1, <4>1 DEF OnlySteps
        <4> HIDE DEF g
        <4> QED
          BY <2>2, <4>1, <4>2
      <3>2. CASE i = n + 1
        BY <2>2, <3>2
      <3> QED
        BY <3>1, <3>2
    <2>4. g = [i \in 0..(n + 1) |-> g[i]]
      OBVIOUS
    <2> HIDE DEF g
    <2>5. OnlySteps(g, s, S, n + 1)
      BY <2>3, <2>4 DEF OnlySteps
    <2> QED
      BY <2>5
  <1> HIDE DEF T
  <1>3. m \in T
    BY <1>1, <1>2, SetInduction
  <1> QED
    BY <1>3 DEF T

LEMMA OnlyIsLastStep ==
    ASSUME NEW U, NEW s \in Seq(U), NEW S
    PROVE  \E f : OnlySteps(f, s, S, Len(s)) /\ Only(s, S) = f[Len(s)]
  <1>1. Len(s) \in Nat
    OBVIOUS
  <1>2. PICK g : OnlySteps(g, s, S, Len(s))
    BY <1>1, OnlyStepsExist
  <1> DEFINE f == CHOOSE f : OnlySteps(f, s, S, Len(s))
  <1>3. OnlySteps(f, s, S, Len(s))
    BY <1>2, Zenon
  <1>4. Only(s, S) = f[Len(s)]
    BY DEF Only, OnlySteps
  <1> QED
    BY <1>3, <1>4

(* Only keeps exactly the members that are in S, and puts nothing twice.    *)
LEMMA OnlyMembers ==
    ASSUME NEW U, NEW s \in Seq(U), NEW S
    PROVE  /\ Only(s, S) \in Seq(U)
           /\ \A e : Contains(Only(s, S), e) <=> Contains(s, e) /\ e \in S
           /\ IsInjective(s) => IsInjective(Only(s, S))
  <1>1. PICK f : OnlySteps(f, s, S, Len(s)) /\ Only(s, S) = f[Len(s)]
    BY OnlyIsLastStep
  <1>2. Len(s) \in Nat /\ \A i \in 1..Len(s) : s[i] \in U
    OBVIOUS
  <1> DEFINE Seen(n, e) == \E i \in 1..n : s[i] = e
             P(n) == /\ f[n] \in Seq(U)
                     /\ \A e : Contains(f[n], e) <=> Seen(n, e) /\ e \in S
                     /\ IsInjective(s) => IsInjective(f[n])
             T == {n \in Nat : n <= Len(s) => P(n)}
  <1>3. 0 \in T
    <2>1. f[0] = <<>>
      BY <1>1, <1>2 DEF OnlySteps
    <2>2. P(0)
      BY <2>1 DEF Contains, IsInjective
    <2> QED
      BY <2>2
  <1>4. ASSUME NEW n \in Nat, n \in T PROVE n + 1 \in T
    <2> SUFFICES ASSUME n + 1 <= Len(s) PROVE P(n + 1)
      OBVIOUS
    <2>1. P(n) /\ n + 1 \in 1..Len(s) /\ s[n + 1] \in U
      BY <1>2, <1>4
    <2>2. f[n + 1] = IF s[n + 1] \in S THEN Append(f[n], s[n + 1]) ELSE f[n]
      <3>1. n + 1 \in 0..Len(s) /\ n + 1 # 0 /\ (n + 1) - 1 = n
        BY <1>2
      <3>2. f[n + 1] = IF n + 1 = 0 THEN <<>>
                       ELSE IF s[n + 1] \in S THEN Append(f[(n + 1) - 1], s[n + 1])
                       ELSE f[(n + 1) - 1]
        BY <1>1, <3>1 DEF OnlySteps
      <3> QED
        BY <3>1, <3>2
    <2>3. \A e : Seen(n + 1, e) <=> Seen(n, e) \/ e = s[n + 1]
      <3>1. 1..(n + 1) = (1..n) \cup {n + 1}
        OBVIOUS
      <3> QED
        BY <3>1
    <2>4. IsInjective(s) => ~Seen(n, s[n + 1])
      BY <1>2 DEF IsInjective
    <2> HIDE DEF Seen
    <2>5. CASE s[n + 1] \in S
      <3>1. f[n + 1] = Append(f[n], s[n + 1])
        BY <2>2, <2>5
      <3>2. f[n + 1] \in Seq(U)
        BY <2>1, <3>1
      <3>3. \A e : Contains(f[n + 1], e) <=> Contains(f[n], e) \/ e = s[n + 1]
        BY <2>1, <3>1, ContainsAppend
      <3>4. IsInjective(s) => IsInjective(f[n + 1])
        BY <2>1, <2>4, <3>1, InjectiveAppend
      <3> QED
        BY <2>1, <2>3, <2>5, <3>2, <3>3, <3>4
    <2>6. CASE s[n + 1] \notin S
      BY <2>1, <2>2, <2>3, <2>6
    <2> QED
      BY <2>5, <2>6
  <1> HIDE DEF T
  <1>5. P(Len(s))
    <2>1. Len(s) \in T
      BY <1>2, <1>3, <1>4, SetInduction
    <2> QED
      BY <1>2, <2>1 DEF T
  <1>6. \A e : Contains(s, e) <=> Seen(Len(s), e)
    BY DEF Contains
  <1> QED
    BY <1>1, <1>5, <1>6

-----------------------------------------------------------------------------
(* notify_one, and how many it has woken *)

(* A waiter is taken out of a list, or the list stays as it is.             *)
LEMMA NotifyType ==
    ASSUME NEW S, NEW w \in Seq(S)
    PROVE  NotifyOne(w) \in Seq(S)
  BY DEF NotifyOne

(* It takes the first one out, if any. *)
LEMMA NotifyMembers ==
    ASSUME NEW S, NEW w \in Seq(S), IsInjective(w)
    PROVE  /\ IsInjective(NotifyOne(w))
           /\ \A e : Contains(NotifyOne(w), e) => Contains(w, e)
           /\ w # <<>> => /\ Head(w) \in S /\ Contains(w, Head(w))
                         /\ \A e : Contains(NotifyOne(w), e) <=> Contains(w, e) /\ e # Head(w)
  <1>1. CASE w = <<>>
    BY <1>1 DEF NotifyOne
  <1>2. CASE w # <<>>
    <2>1. NotifyOne(w) = Tail(w)
      BY <1>2 DEF NotifyOne
    <2>2. \A e : Contains(Tail(w), e) <=> Contains(w, e) /\ e # Head(w)
      BY <1>2, ContainsTail
    <2>3. IsInjective(Tail(w))
      BY <1>2, InjectiveTail
    <2>4. Head(w) \in S /\ Contains(w, Head(w))
      BY <1>2, ContainsHead
    <2> QED
      BY <2>1, <2>2, <2>3, <2>4
  <1> QED
    BY <1>1, <1>2

LEMMA NobodyInEmpty == \A e : ~Contains(<<>>, e)
  BY DEF Contains

LEMMA WaiterType ==
    ASSUME NEW S, NEW w \in Seq(S), NEW e, Contains(w, e)
    PROVE  e \in S
  BY DEF Contains

(* How many have been woken and are on their way: those of S who are inside *)
(* the wait where and not in its list w.                                    *)
Woken(S, at, w, where) == {c \in S : at[c] = where /\ ~Contains(w, c)}

LEMMA WokenCount ==
    ASSUME NEW S, IsFiniteSet(S), NEW at, NEW w, NEW where
    PROVE  IsFiniteSet(Woken(S, at, w, where)) /\ Cardinality(Woken(S, at, w, where)) \in Nat
  <1>1. Woken(S, at, w, where) \subseteq S
    BY DEF Woken
  <1> QED
    BY <1>1, FS_Subset, FS_CardinalityType

(* notify_one wakes one of those who wait, ...                              *)
LEMMA NotifyWakesOne ==
    ASSUME NEW S, IsFiniteSet(S), NEW at, NEW w \in Seq(S), IsInjective(w), w # <<>>,
           NEW where, \A c \in S : Contains(w, c) => at[c] = where
    PROVE  Cardinality(Woken(S, at, NotifyOne(w), where)) = Cardinality(Woken(S, at, w, where)) + 1
  <1>1. Head(w) \in S /\ Contains(w, Head(w))
    BY NotifyMembers
  <1>2. Woken(S, at, NotifyOne(w), where) = Woken(S, at, w, where) \cup {Head(w)}
    BY <1>1, NotifyMembers DEF Woken
  <1>3. Head(w) \notin Woken(S, at, w, where)
    BY <1>1 DEF Woken
  <1> QED
    BY <1>2, <1>3, WokenCount, FS_AddElement

(* ... and one who goes on is one less, if that.                            *)
LEMMA OneGoesOn ==
    ASSUME NEW S, IsFiniteSet(S), NEW at, NEW to, NEW w, NEW where, NEW c,
           \A d \in S \ {c} : to[d] = at[d]
    PROVE  Cardinality(Woken(S, to, w, where)) >= Cardinality(Woken(S, at, w, where)) - 1
  <1> DEFINE W == Woken(S, at, w, where)
             V == Woken(S, to, w, where)
  <1>1. W \ {c} \subseteq V
    BY DEF Woken
  <1>2. /\ IsFiniteSet(W) /\ Cardinality(W) \in Nat
        /\ IsFiniteSet(V) /\ Cardinality(V) \in Nat
    BY WokenCount
  <1> HIDE DEF W, V
  <1>3. IsFiniteSet(W \ {c}) /\ Cardinality(W \ {c}) <= Cardinality(V)
    BY <1>1, <1>2, FS_Subset
  <1>4. Cardinality(W \ {c}) >= Cardinality(W) - 1
    <2>1. Cardinality(W \ {c}) = IF c \in W THEN Cardinality(W) - 1 ELSE Cardinality(W)
      BY <1>2, FS_RemoveElement
    <2> QED
      BY <1>2, <2>1
  <1>5. Cardinality(W \ {c}) \in Nat
    BY <1>3, FS_CardinalityType
  <1>6. Cardinality(V) >= Cardinality(W) - 1
    BY <1>2, <1>3, <1>4, <1>5
  <1> QED
    BY <1>6 DEF W, V

(* Nothing of it changes where neither the list nor those of S do.          *)
LEMMA SameWoken ==
    ASSUME NEW S, NEW at, NEW to, NEW w, NEW where, \A d \in S : to[d] = at[d]
    PROVE  Woken(S, to, w, where) = Woken(S, at, w, where)
  BY DEF Woken

(* Those who come into the wait, or stay there, do not lessen it.           *)
LEMMA OthersStay ==
    ASSUME NEW S, IsFiniteSet(S), NEW at, NEW to, NEW w, NEW where,
           \A d \in S : at[d] = where => to[d] = where
    PROVE  Cardinality(Woken(S, to, w, where)) >= Cardinality(Woken(S, at, w, where))
  <1>1. Woken(S, at, w, where) \subseteq Woken(S, to, w, where)
    BY DEF Woken
  <1> QED
    BY <1>1, WokenCount, FS_Subset

-----------------------------------------------------------------------------
(* Sums, by induction over the cardinality of the set.                       *)

One(s) == CHOOSE x \in s : TRUE

(* What the recursive function in FoldSet is, for the subsets of S that are  *)
(* in D.                                                                     *)
SumSteps(g, f, D) ==
    g = [s \in D |-> IF s = {} THEN 0 ELSE g[s \ {One(s)}] + f[One(s)]]

Small(S, n) == {s \in SUBSET S : Cardinality(s) <= n}

LEMMA OneLess ==
    ASSUME NEW s, IsFiniteSet(s), NEW x \in s
    PROVE  /\ IsFiniteSet(s \ {x}) /\ Cardinality(s) \in Nat /\ Cardinality(s) > 0
           /\ Cardinality(s \ {x}) = Cardinality(s) - 1
  <1>1. IsFiniteSet(s \ {x}) /\ Cardinality(s \ {x}) = Cardinality(s) - 1
    BY FS_RemoveElement
  <1>2. Cardinality(s) \in Nat /\ Cardinality(s) # 0
    BY FS_CardinalityType, FS_EmptySet
  <1> QED
    BY <1>1, <1>2

LEMMA OneIsIn == ASSUME NEW s, s # {} PROVE One(s) \in s
  BY DEF One

LEMMA SumStepsExist ==
    ASSUME NEW f, NEW S, IsFiniteSet(S)
    PROVE  \E g : SumSteps(g, f, SUBSET S)
  <1>1. \A s \in SUBSET S : IsFiniteSet(s) /\ Cardinality(s) \in Nat /\ Cardinality(s) <= Cardinality(S)
    BY FS_Subset, FS_CardinalityType
  <1>2. Cardinality(S) \in Nat
    BY FS_CardinalityType
  <1> DEFINE T == {n \in Nat : \E g : SumSteps(g, f, Small(S, n))}
  <1>3. 0 \in T
    <2>1. \A s \in Small(S, 0) : s = {}
      BY <1>1, FS_EmptySet DEF Small
    <2>2. SumSteps([s \in Small(S, 0) |-> 0], f, Small(S, 0))
      BY <2>1 DEF SumSteps
    <2> QED
      BY <2>2
  <1>4. ASSUME NEW n \in Nat, n \in T PROVE n + 1 \in T
    <2>1. PICK g : SumSteps(g, f, Small(S, n))
      BY <1>4
    <2> DEFINE D == Small(S, n + 1)
               h == [s \in D |-> IF s \in Small(S, n) THEN g[s] ELSE g[s \ {One(s)}] + f[One(s)]]
    <2>2. ASSUME NEW s \in D, s # {} PROVE s \ {One(s)} \in Small(S, n) /\ s \ {One(s)} \in D
      <3>1. One(s) \in s /\ s \in SUBSET S /\ Cardinality(s) <= n + 1
        BY <2>2, OneIsIn DEF Small
      <3>2. Cardinality(s \ {One(s)}) = Cardinality(s) - 1 /\ Cardinality(s) \in Nat
        BY <1>1, <3>1, OneLess
      <3>3. Cardinality(s \ {One(s)}) <= n /\ Cardinality(s \ {One(s)}) <= n + 1
        BY <3>1, <3>2
      <3> QED
        BY <3>1, <3>3 DEF Small
    <2>3. \A s \in Small(S, n) : s \in D
      BY <1>1 DEF Small
    <2>4. ASSUME NEW s \in D
          PROVE  h[s] = IF s = {} THEN 0 ELSE h[s \ {One(s)}] + f[One(s)]
      <3>1. CASE s \in Small(S, n)
        <4>1. h[s] = g[s]
          BY <3>1
        <4>2. g[s] = IF s = {} THEN 0 ELSE g[s \ {One(s)}] + f[One(s)]
          BY <2>1, <3>1 DEF SumSteps
        <4>3. s # {} => h[s \ {One(s)}] = g[s \ {One(s)}]
          BY <2>2
        <4> HIDE DEF h
        <4> QED
          BY <4>1, <4>2, <4>3
      <3>2. CASE s \notin Small(S, n)
        <4>1. h[s] = g[s \ {One(s)}] + f[One(s)]
          BY <3>2
        <4>2. s # {}
          <5>1. {} \in Small(S, n)
            BY FS_EmptySet DEF Small
          <5> QED
            BY <3>2, <5>1
        <4>3. h[s \ {One(s)}] = g[s \ {One(s)}]
          BY <2>2, <4>2
        <4> HIDE DEF h
        <4> QED
          BY <4>1, <4>2, <4>3
      <3> QED
        BY <3>1, <3>2
    <2>5. h = [s \in D |-> h[s]]
      OBVIOUS
    <2> HIDE DEF h
    <2>6. SumSteps(h, f, D)
      BY <2>4, <2>5 DEF SumSteps
    <2> QED
      BY <2>6
  <1> HIDE DEF T
  <1>5. Cardinality(S) \in T
    BY <1>2, <1>3, <1>4, SetInduction
  <1>6. Small(S, Cardinality(S)) = SUBSET S
    BY <1>1 DEF Small
  <1> QED
    BY <1>5, <1>6 DEF T

LEMMA SumIsLastStep ==
    ASSUME NEW f, NEW S, IsFiniteSet(S)
    PROVE  \E g : SumSteps(g, f, SUBSET S) /\ Sum(f, S) = g[S]
  <1>1. PICK h : SumSteps(h, f, SUBSET S)
    BY SumStepsExist
  <1> DEFINE g == CHOOSE g : SumSteps(g, f, SUBSET S)
  <1>2. SumSteps(g, f, SUBSET S)
    BY <1>1, Zenon
  <1>3. Sum(f, S) = g[S]
    BY DEF Sum, FoldSet, MapThenFoldSet, SumSteps, One
  <1> QED
    BY <1>2, <1>3

(* The elements can be taken out of the sum in any order.                   *)
LEMMA SumStepsAny ==
    ASSUME NEW f, NEW S, NEW g, SumSteps(g, f, SUBSET S),
           IsFiniteSet(S), \A x \in S : f[x] \in Nat
    PROVE  /\ \A s \in SUBSET S : g[s] \in Nat
           /\ \A s \in SUBSET S : \A x \in s : g[s] = g[s \ {x}] + f[x]
  <1> DEFINE P(s) == g[s] \in Nat /\ \A x \in s : g[s] = g[s \ {x}] + f[x]
             T == {k \in Nat : \A s \in Small(S, k) : P(s)}
  <1>1. \A s \in SUBSET S : IsFiniteSet(s) /\ Cardinality(s) \in Nat /\ Cardinality(s) <= Cardinality(S)
    BY FS_Subset, FS_CardinalityType
  <1>2. \A s \in SUBSET S : g[s] = IF s = {} THEN 0 ELSE g[s \ {One(s)}] + f[One(s)]
    BY DEF SumSteps
  <1>3. 0 \in T
    <2>1. \A s \in Small(S, 0) : s = {} /\ s \in SUBSET S
      BY <1>1, FS_EmptySet DEF Small
    <2>2. ASSUME NEW s \in Small(S, 0) PROVE P(s)
      <3>1. s = {} /\ g[s] = 0
        BY <1>2, <2>1
      <3> QED
        BY <3>1
    <2> QED
      BY <2>2
  <1>4. ASSUME NEW k \in Nat, k \in T PROVE k + 1 \in T
    <2> SUFFICES ASSUME NEW s \in Small(S, k + 1) PROVE P(s)
      OBVIOUS
    <2>1. \A t \in Small(S, k) : P(t)
      BY <1>4
    <2>2. s \in SUBSET S /\ IsFiniteSet(s) /\ Cardinality(s) <= k + 1
      BY <1>1 DEF Small
    <2>3. CASE s = {}
      <3>1. g[s] = 0
        BY <1>2, <2>2, <2>3
      <3> QED
        BY <2>3, <3>1
    <2>4. CASE s # {}
      <3> DEFINE y == One(s)
      <3>1. y \in s /\ y \in S /\ f[y] \in Nat
        BY <2>2, <2>4, OneIsIn
      <3>2. \A x \in s : s \ {x} \in Small(S, k)
        <4> SUFFICES ASSUME NEW x \in s PROVE s \ {x} \in Small(S, k)
          OBVIOUS
        <4>1. /\ Cardinality(s) \in Nat /\ Cardinality(s \ {x}) = Cardinality(s) - 1
          BY <2>2, OneLess
        <4>2. Cardinality(s \ {x}) <= k
          BY <2>2, <4>1
        <4> QED
          BY <2>2, <4>2 DEF Small
      <3>3. g[s] = g[s \ {y}] + f[y]
        BY <1>2, <2>2, <2>4
      <3> HIDE DEF y
      <3>4. g[s \ {y}] \in Nat /\ g[s] \in Nat
        BY <2>1, <3>1, <3>2, <3>3
      <3>5. ASSUME NEW x \in s PROVE g[s] = g[s \ {x}] + f[x]
        <4>1. CASE x = y
          BY <3>3, <4>1
        <4>2. CASE x # y
          <5>1. x \in s \ {y} /\ y \in s \ {x} /\ f[x] \in Nat
            BY <2>2, <3>1, <4>2
          <5>2. g[s \ {y}] = g[(s \ {y}) \ {x}] + f[x]
            BY <2>1, <3>1, <3>2, <5>1
          <5>3. g[s \ {x}] = g[(s \ {x}) \ {y}] + f[y] /\ g[s \ {x}] \in Nat
            BY <2>1, <3>2, <5>1
          <5>4. (s \ {y}) \ {x} = (s \ {x}) \ {y}
            OBVIOUS
          <5>5. (s \ {x}) \ {y} \in Small(S, k)
            <6>1. IsFiniteSet(s \ {x}) /\ s \ {x} \in SUBSET S /\ Cardinality(s \ {x}) <= k
              BY <1>1, <3>2 DEF Small
            <6>2. /\ Cardinality(s \ {x}) \in Nat
                  /\ Cardinality((s \ {x}) \ {y}) = Cardinality(s \ {x}) - 1
              BY <5>1, <6>1, OneLess
            <6>3. Cardinality((s \ {x}) \ {y}) <= k
              BY <6>1, <6>2
            <6> QED
              BY <6>1, <6>3 DEF Small
          <5>6. g[(s \ {x}) \ {y}] \in Nat
            BY <2>1, <5>5
          <5>7. g[s] = (g[(s \ {x}) \ {y}] + f[x]) + f[y]
            BY <3>3, <5>2, <5>4
          <5>8. (g[(s \ {x}) \ {y}] + f[x]) + f[y] = (g[(s \ {x}) \ {y}] + f[y]) + f[x]
            BY <3>1, <5>1, <5>6
          <5> QED
            BY <5>3, <5>7, <5>8
        <4> QED
          BY <4>1, <4>2
      <3> QED
        BY <3>4, <3>5
    <2> QED
      BY <2>3, <2>4
  <1> HIDE DEF T
  <1> SUFFICES ASSUME NEW s \in SUBSET S PROVE P(s)
    OBVIOUS
  <1>5. Cardinality(s) \in T
    BY <1>1, <1>3, <1>4, SetInduction
  <1>6. s \in Small(S, Cardinality(s))
    BY <1>1 DEF Small
  <1> QED
    BY <1>5, <1>6 DEF T

(* Sums of the same numbers over the same set are the same.                 *)
LEMMA SumIsStep ==
    ASSUME NEW f, NEW h, NEW U, NEW S, NEW g, SumSteps(g, f, SUBSET U),
           IsFiniteSet(S), S \subseteq U, \A x \in S : f[x] = h[x]
    PROVE  Sum(h, S) = g[S]
  <1>0. PICK e : SumSteps(e, h, SUBSET S) /\ Sum(h, S) = e[S]
    BY SumIsLastStep
  <1> DEFINE T == {k \in Nat : \A s \in Small(S, k) : g[s] = e[s]}
  <1>1. \A s \in SUBSET S : IsFiniteSet(s) /\ Cardinality(s) \in Nat
    BY FS_Subset, FS_CardinalityType
  <1>2. \A s \in SUBSET S : /\ g[s] = IF s = {} THEN 0 ELSE g[s \ {One(s)}] + f[One(s)]
                            /\ e[s] = IF s = {} THEN 0 ELSE e[s \ {One(s)}] + h[One(s)]
    <2>1. \A s \in SUBSET S : s \in SUBSET U
      OBVIOUS
    <2> QED
      BY <1>0, <2>1 DEF SumSteps
  <1>3. 0 \in T
    <2>1. \A s \in Small(S, 0) : s = {} /\ s \in SUBSET S
      BY <1>1, FS_EmptySet DEF Small
    <2>2. \A s \in Small(S, 0) : g[s] = e[s]
      BY <1>2, <2>1
    <2> QED
      BY <2>2
  <1>4. ASSUME NEW k \in Nat, k \in T PROVE k + 1 \in T
    <2> SUFFICES ASSUME NEW s \in Small(S, k + 1) PROVE g[s] = e[s]
      OBVIOUS
    <2>1. s \in SUBSET S /\ IsFiniteSet(s) /\ Cardinality(s) <= k + 1
      BY <1>1 DEF Small
    <2>2. CASE s = {}
      BY <1>2, <2>1, <2>2
    <2>3. CASE s # {}
      <3>1. One(s) \in s
        BY <2>3, OneIsIn
      <3>2. /\ Cardinality(s) \in Nat /\ Cardinality(s \ {One(s)}) = Cardinality(s) - 1
        BY <2>1, <3>1, OneLess
      <3>3. Cardinality(s \ {One(s)}) <= k
        BY <2>1, <3>2
      <3>4. s \ {One(s)} \in Small(S, k)
        BY <2>1, <3>3 DEF Small
      <3>5. g[s \ {One(s)}] = e[s \ {One(s)}] /\ f[One(s)] = h[One(s)]
        BY <1>4, <2>1, <3>1, <3>4
      <3> QED
        BY <1>2, <2>1, <2>3, <3>5
    <2> QED
      BY <2>2, <2>3
  <1> HIDE DEF T
  <1>5. Cardinality(S) \in T
    BY <1>1, <1>3, <1>4, SetInduction
  <1>6. S \in Small(S, Cardinality(S))
    BY <1>1 DEF Small
  <1> QED
    BY <1>0, <1>5, <1>6 DEF T

LEMMA SumEmpty == ASSUME NEW f PROVE Sum(f, {}) = 0
  <1>1. PICK g : SumSteps(g, f, SUBSET {}) /\ Sum(f, {}) = g[{}]
    BY FS_EmptySet, SumIsLastStep
  <1> QED
    BY <1>1 DEF SumSteps

LEMMA SumSame ==
    ASSUME NEW f, NEW h, NEW S, IsFiniteSet(S), \A x \in S : f[x] = h[x]
    PROVE  Sum(f, S) = Sum(h, S)
  <1>1. PICK g : SumSteps(g, f, SUBSET S) /\ Sum(f, S) = g[S]
    BY SumIsLastStep
  <1>2. Sum(h, S) = g[S]
    BY <1>1, SumIsStep
  <1> QED
    BY <1>1, <1>2

(* One more in the set adds its number.                                     *)
LEMMA SumRemove ==
    ASSUME NEW f, NEW S, IsFiniteSet(S), \A x \in S : f[x] \in Nat
    PROVE  /\ Sum(f, S) \in Nat
           /\ \A x \in S : Sum(f, S \ {x}) \in Nat /\ Sum(f, S) = Sum(f, S \ {x}) + f[x]
  <1>1. PICK g : SumSteps(g, f, SUBSET S)
    BY SumStepsExist
  <1>2. \A s \in SUBSET S : g[s] \in Nat
    BY <1>1, SumStepsAny
  <1>3. ASSUME NEW s \in SUBSET S, NEW x \in s PROVE g[s] = g[s \ {x}] + f[x]
    BY <1>1, SumStepsAny
  <1>4. ASSUME NEW s \in SUBSET S PROVE Sum(f, s) = g[s]
    <2>1. IsFiniteSet(s) /\ s \subseteq S
      BY FS_Subset
    <2> QED
      BY <1>1, <2>1, SumIsStep
  <1>5. S \in SUBSET S /\ \A x \in S : S \ {x} \in SUBSET S
    OBVIOUS
  <1> QED
    BY <1>2, <1>3, <1>4, <1>5

-----------------------------------------------------------------------------
(* Sequences and their first elements *)

(* The elements of a sequence are what it has at its places.                *)
LEMMA InRange ==
    ASSUME NEW s, NEW e
    PROVE  e \in ToSet(s) <=> \E k \in DOMAIN s : s[k] = e
  BY DEF ToSet

(* A sequence is its first elements and then the last one.                  *)
LEMMA GrowBy1 ==
    ASSUME NEW S, NEW s \in Seq(S), NEW n \in Nat, n < Len(s)
    PROVE  /\ SubSeq(s, 1, n) \in Seq(S)
           /\ s[n + 1] \in S
           /\ SubSeq(s, 1, n + 1) = Append(SubSeq(s, 1, n), s[n + 1])
           /\ Len(SubSeq(s, 1, n)) = n
  <1>1. Len(s) \in Nat /\ \A i \in 1..Len(s) : s[i] \in S
    OBVIOUS
  <1>2. /\ SubSeq(s, 1, n) \in Seq(S) /\ Len(SubSeq(s, 1, n)) = n
        /\ \A i \in 1..n : SubSeq(s, 1, n)[i] = s[i]
    BY <1>1
  <1>3. /\ SubSeq(s, 1, n + 1) \in Seq(S) /\ Len(SubSeq(s, 1, n + 1)) = n + 1
        /\ \A i \in 1..(n + 1) : SubSeq(s, 1, n + 1)[i] = s[i]
    BY <1>1
  <1> DEFINE t == Append(SubSeq(s, 1, n), s[n + 1])
  <1>4. /\ t \in Seq(S) /\ Len(t) = n + 1
        /\ \A i \in 1..n : t[i] = s[i]
        /\ t[n + 1] = s[n + 1]
    BY <1>1, <1>2
  <1> HIDE DEF t
  <1>5. SubSeq(s, 1, n + 1) = t
    BY <1>3, <1>4, SeqEqual
  <1> QED
    BY <1>1, <1>2, <1>5 DEF t

(* The first Len(s) elements of s are s, its first 0 are none.              *)
LEMMA WholeSubSeq ==
    ASSUME NEW S, NEW s \in Seq(S)
    PROVE  SubSeq(s, 1, Len(s)) = s /\ SubSeq(s, 1, 0) = <<>> /\ Len(s) \in Nat
  BY SubSeqFull, SubSeqEmpty

-----------------------------------------------------------------------------
(* Prefixes *)

(* A prefix has the same elements as far as it goes.                        *)
LEMMA PrefixElements ==
    ASSUME NEW S, NEW s \in Seq(S), NEW t \in Seq(S)
    PROVE  IsPrefix(s, t) <=> Len(s) <= Len(t) /\ \A i \in 1..Len(s) : s[i] = t[i]
  <1>1. Len(s) \in Nat /\ Len(t) \in Nat /\ \A i \in 1..Len(t) : t[i] \in S
    OBVIOUS
  <1>2. SubSeq(s, 1, Len(s)) = s
    BY WholeSubSeq
  <1> SUFFICES ASSUME Len(s) <= Len(t)
               PROVE  s = SubSeq(t, 1, Len(s)) <=> \A i \in 1..Len(s) : s[i] = t[i]
    BY <1>2, Zenon DEF IsPrefix
  <1>3. /\ SubSeq(t, 1, Len(s)) \in Seq(S) /\ Len(SubSeq(t, 1, Len(s))) = Len(s)
        /\ \A i \in 1..Len(s) : SubSeq(t, 1, Len(s))[i] = t[i]
    BY <1>1
  <1> DEFINE u == SubSeq(t, 1, Len(s))
  <1> HIDE DEF u
  <1>4. u \in Seq(S) /\ Len(u) = Len(s) /\ \A i \in 1..Len(s) : u[i] = t[i]
    BY <1>3 DEF u
  <1>5. (\A i \in 1..Len(s) : s[i] = t[i]) => s = u
    BY <1>4, SeqEqual
  <1> QED
    BY <1>4, <1>5 DEF u

(* Some prefixes of a sequence.                                             *)
LEMMA PrefixFacts ==
    ASSUME NEW S, NEW s \in Seq(S), NEW t \in Seq(S)
    PROVE  /\ IsPrefix(s, s)
           /\ IsPrefix(<<>>, s)
           /\ IsPrefix(s, s \o t)
           /\ \A e \in S : IsPrefix(s, Append(s, e))
           /\ \A n \in Nat : n <= Len(s) => IsPrefix(SubSeq(s, 1, n), s)
  <1>1. Len(s) \in Nat /\ Len(t) \in Nat /\ \A i \in 1..Len(s) : s[i] \in S
    OBVIOUS
  <1>2. IsPrefix(s, s)
    BY <1>1, PrefixElements
  <1>3. IsPrefix(<<>>, s)
    <2> DEFINE none == <<>>
    <2>1. none \in Seq(S) /\ Len(none) = 0
      OBVIOUS
    <2> HIDE DEF none
    <2>2. Len(none) <= Len(s) /\ \A i \in 1..Len(none) : none[i] = s[i]
      BY <1>1, <2>1
    <2>3. IsPrefix(none, s)
      BY <2>1, <2>2, PrefixElements
    <2> QED
      BY <2>3 DEF none
  <1>4. IsPrefix(s, s \o t)
    <2> DEFINE u == s \o t
    <2>1. u \in Seq(S) /\ Len(u) = Len(s) + Len(t) /\ \A i \in 1..Len(s) : u[i] = s[i]
      BY <1>1
    <2> HIDE DEF u
    <2>2. IsPrefix(s, u)
      BY <1>1, <2>1, PrefixElements
    <2> QED
      BY <2>2 DEF u
  <1>5. ASSUME NEW e \in S PROVE IsPrefix(s, Append(s, e))
    <2> DEFINE u == Append(s, e)
    <2>1. u \in Seq(S) /\ Len(u) = Len(s) + 1 /\ \A i \in 1..Len(s) : u[i] = s[i]
      BY <1>1
    <2> HIDE DEF u
    <2>2. IsPrefix(s, u)
      BY <1>1, <2>1, PrefixElements
    <2> QED
      BY <2>2 DEF u
  <1>6. ASSUME NEW n \in Nat, n <= Len(s) PROVE IsPrefix(SubSeq(s, 1, n), s)
    <2>1. /\ SubSeq(s, 1, n) \in Seq(S) /\ Len(SubSeq(s, 1, n)) = n
          /\ \A i \in 1..n : SubSeq(s, 1, n)[i] = s[i]
      BY <1>1, <1>6
    <2> QED
      BY <1>6, <2>1, PrefixElements
  <1> QED
    BY <1>2, <1>3, <1>4, <1>5, <1>6

(* A prefix of a prefix is a prefix.                                        *)
LEMMA PrefixTrans ==
    ASSUME NEW S, NEW s \in Seq(S), NEW t \in Seq(S), NEW u \in Seq(S),
           IsPrefix(s, t), IsPrefix(t, u)
    PROVE  IsPrefix(s, u)
  <1>1. Len(s) \in Nat /\ Len(t) \in Nat /\ Len(u) \in Nat
    OBVIOUS
  <1>2. /\ Len(s) <= Len(t) /\ \A i \in 1..Len(s) : s[i] = t[i]
        /\ Len(t) <= Len(u) /\ \A i \in 1..Len(t) : t[i] = u[i]
    BY PrefixElements
  <1>3. Len(s) <= Len(u) /\ \A i \in 1..Len(s) : s[i] = u[i]
    BY <1>1, <1>2
  <1> QED
    BY <1>3, PrefixElements

(* A prefix that is as long as the whole is the whole.                      *)
LEMMA PrefixSameLength ==
    ASSUME NEW S, NEW s \in Seq(S), NEW t \in Seq(S), IsPrefix(s, t), Len(t) <= Len(s)
    PROVE  s = t
  <1>1. Len(s) \in Nat /\ Len(t) \in Nat
    OBVIOUS
  <1>2. Len(s) = Len(t) /\ \A i \in 1..Len(s) : s[i] = t[i]
    BY <1>1, PrefixElements
  <1> QED
    BY <1>2, SeqEqual

(* A prefix is told by its length.                                          *)
LEMMA PrefixIsSubSeq ==
    ASSUME NEW S, NEW s \in Seq(S), NEW t \in Seq(S), IsPrefix(s, t)
    PROVE  s = SubSeq(t, 1, Len(s)) /\ Len(s) <= Len(t) /\ Len(s) \in Nat /\ Len(t) \in Nat
  BY WholeSubSeq, Zenon DEF IsPrefix

-----------------------------------------------------------------------------
(* Only and what is appended *)

(* The recursive functions in Only agree for sequences that do so far.      *)
LEMMA OnlyStepsAgree ==
    ASSUME NEW s, NEW t, NEW S, NEW n \in Nat, NEW m \in Nat, n <= m,
           \A i \in 1..n : s[i] = t[i],
           NEW f, OnlySteps(f, s, S, n), NEW g, OnlySteps(g, t, S, m)
    PROVE  f[n] = g[n]
  <1> DEFINE T == {k \in Nat : k <= n => f[k] = g[k]}
  <1>1. ASSUME NEW k \in 0..n
        PROVE  /\ f[k] = IF k = 0 THEN <<>>
                         ELSE IF s[k] \in S THEN Append(f[k - 1], s[k]) ELSE f[k - 1]
               /\ g[k] = IF k = 0 THEN <<>>
                         ELSE IF t[k] \in S THEN Append(g[k - 1], t[k]) ELSE g[k - 1]
    <2>1. k \in 0..m
      OBVIOUS
    <2> QED
      BY <2>1 DEF OnlySteps
  <1>2. 0 \in T
    BY <1>1
  <1>3. ASSUME NEW k \in Nat, k \in T PROVE k + 1 \in T
    <2> SUFFICES ASSUME k + 1 <= n PROVE f[k + 1] = g[k + 1]
      OBVIOUS
    <2>1. k + 1 \in 0..n /\ k + 1 # 0 /\ (k + 1) - 1 = k /\ f[k] = g[k] /\ s[k + 1] = t[k + 1]
      BY <1>3
    <2> DEFINE j == k + 1
    <2>2. /\ f[j] = IF s[j] \in S THEN Append(f[j - 1], s[j]) ELSE f[j - 1]
          /\ g[j] = IF t[j] \in S THEN Append(g[j - 1], t[j]) ELSE g[j - 1]
      BY <1>1, <2>1
    <2> QED
      BY <2>1, <2>2
  <1> HIDE DEF T
  <1>4. n \in T
    BY <1>2, <1>3, SetInduction
  <1> QED
    BY <1>4 DEF T

(* An element more is kept if it is in S, and is the last one then.         *)
LEMMA OnlyAppend ==
    ASSUME NEW U, NEW s \in Seq(U), NEW x \in U, NEW S
    PROVE  Only(Append(s, x), S) = IF x \in S THEN Append(Only(s, S), x) ELSE Only(s, S)
  <1> DEFINE t == Append(s, x)
             n == Len(s)
  <1>1. /\ t \in Seq(U) /\ Len(t) = n + 1 /\ n \in Nat
        /\ \A i \in 1..n : t[i] = s[i]
        /\ t[n + 1] = x
    OBVIOUS
  <1> HIDE DEF t
  <1>2. PICK f : OnlySteps(f, s, S, n) /\ Only(s, S) = f[n]
    BY OnlyIsLastStep
  <1>3. PICK g : OnlySteps(g, t, S, n + 1) /\ Only(t, S) = g[n + 1]
    BY <1>1, OnlyIsLastStep
  <1>4. f[n] = g[n]
    BY <1>1, <1>2, <1>3, OnlyStepsAgree
  <1>5. g[n + 1] = IF x \in S THEN Append(g[n], x) ELSE g[n]
    <2>1. n + 1 \in 0..(n + 1) /\ n + 1 # 0 /\ (n + 1) - 1 = n
      BY <1>1
    <2>2. g[n + 1] = IF n + 1 = 0 THEN <<>>
                     ELSE IF t[n + 1] \in S THEN Append(g[(n + 1) - 1], t[n + 1])
                     ELSE g[(n + 1) - 1]
      BY <1>3, <2>1 DEF OnlySteps
    <2> QED
      BY <1>1, <2>1, <2>2
  <1> QED
    BY <1>2, <1>3, <1>4, <1>5 DEF t

(* There is nothing to keep of an empty sequence.                           *)
LEMMA OnlyEmpty ==
    ASSUME NEW S
    PROVE  Only(<<>>, S) = <<>>
  <1>1. <<>> \in Seq({}) /\ Len(<<>>) = 0
    OBVIOUS
  <1>2. PICK f : OnlySteps(f, <<>>, S, 0) /\ Only(<<>>, S) = f[0]
    BY <1>1, OnlyIsLastStep
  <1> QED
    BY <1>2 DEF OnlySteps

(* What is kept of a prefix is a prefix of what is kept.                    *)
LEMMA OnlyPrefix ==
    ASSUME NEW U, NEW s \in Seq(U), NEW t \in Seq(U), IsPrefix(s, t), NEW S
    PROVE  IsPrefix(Only(s, S), Only(t, S))
  <1> DEFINE u(n) == SubSeq(t, 1, Len(s) + n)
             T == {n \in Nat : Len(s) + n <= Len(t) => IsPrefix(Only(s, S), Only(u(n), S))}
  <1>1. s = SubSeq(t, 1, Len(s)) /\ Len(s) <= Len(t) /\ Len(s) \in Nat /\ Len(t) \in Nat
    BY PrefixIsSubSeq
  <1>2. Only(s, S) \in Seq(U)
    BY OnlyMembers
  <1>3. 0 \in T
    <2>1. u(0) = s
      BY <1>1
    <2> QED
      BY <1>2, <2>1, PrefixFacts
  <1>4. ASSUME NEW n \in Nat, n \in T PROVE n + 1 \in T
    <2> SUFFICES ASSUME Len(s) + (n + 1) <= Len(t)
                 PROVE  IsPrefix(Only(s, S), Only(u(n + 1), S))
      OBVIOUS
    <2> DEFINE x == t[Len(s) + n + 1]
    <2>1. u(n) \in Seq(U) /\ x \in U /\ u(n + 1) = Append(u(n), x)
      <3>1. Len(s) + n \in Nat /\ Len(s) + n < Len(t) /\ Len(s) + (n + 1) = (Len(s) + n) + 1
        BY <1>1
      <3> QED
        BY <3>1, GrowBy1
    <2>2. IsPrefix(Only(s, S), Only(u(n), S))
      BY <1>1, <1>4
    <2> HIDE DEF u, x
    <2>3. Only(u(n), S) \in Seq(U) /\ Only(u(n + 1), S) \in Seq(U)
      BY <2>1, OnlyMembers, AppendProperties
    <2>4. IsPrefix(Only(u(n), S), Only(u(n + 1), S))
      <3>1. Only(Append(u(n), x), S) = IF x \in S THEN Append(Only(u(n), S), x) ELSE Only(u(n), S)
        BY <2>1, OnlyAppend
      <3> QED
        BY <2>1, <2>3, <3>1, PrefixFacts
    <2> QED
      BY <1>2, <2>2, <2>3, <2>4, PrefixTrans
  <1> HIDE DEF T
  <1>5. Len(t) - Len(s) \in T
    <2>1. Len(t) - Len(s) \in Nat
      BY <1>1
    <2> QED
      BY <1>3, <1>4, <2>1, SetInduction
  <1>6. u(Len(t) - Len(s)) = t
    BY <1>1, WholeSubSeq
  <1> HIDE DEF u
  <1> QED
    BY <1>1, <1>5, <1>6 DEF T

-----------------------------------------------------------------------------
(* FlattenSeq *)

(* What the recursive function in FlattenSeq is, for the first n of xs.     *)
FlattenSteps(f, xs, n) ==
    f = [i \in 1..n |-> IF i = 1 THEN xs[i] ELSE f[i - 1] \o xs[i]]

(* There is such a function, ...                                            *)
LEMMA FlattenStepsExist ==
    ASSUME NEW xs, NEW m \in Nat
    PROVE  \E f : FlattenSteps(f, xs, m)
  <1> DEFINE T == {n \in Nat : \E f : FlattenSteps(f, xs, n)}
  <1>1. 0 \in T
    <2>1. FlattenSteps([i \in 1..0 |-> <<>>], xs, 0)
      BY DEF FlattenSteps
    <2> QED
      BY <2>1
  <1>2. ASSUME NEW n \in Nat, n \in T PROVE n + 1 \in T
    <2>1. PICK f : FlattenSteps(f, xs, n)
      BY <1>2
    <2> DEFINE g == [i \in 1..(n + 1) |->
                       IF i <= n THEN f[i] ELSE IF i = 1 THEN xs[i] ELSE f[i - 1] \o xs[i]]
    <2>2. \A i \in 1..(n + 1) : i # 1 => i - 1 \in 1..n /\ g[i - 1] = f[i - 1]
      OBVIOUS
    <2>3. ASSUME NEW i \in 1..(n + 1)
          PROVE  g[i] = IF i = 1 THEN xs[i] ELSE g[i - 1] \o xs[i]
      <3>1. CASE i <= n
        <4>1. i \in 1..n /\ g[i] = f[i]
          BY <3>1
        <4>2. f[i] = IF i = 1 THEN xs[i] ELSE f[i - 1] \o xs[i]
          BY <2>1, <4>1 DEF FlattenSteps
        <4> HIDE DEF g
        <4> QED
          BY <2>2, <4>1, <4>2
      <3>2. CASE i = n + 1
        BY <2>2, <3>2
      <3> QED
        BY <3>1, <3>2
    <2>4. g = [i \in 1..(n + 1) |-> g[i]]
      OBVIOUS
    <2> HIDE DEF g
    <2>5. FlattenSteps(g, xs, n + 1)
      BY <2>3, <2>4 DEF FlattenSteps
    <2> QED
      BY <2>5
  <1> HIDE DEF T
  <1>3. m \in T
    BY <1>1, <1>2, SetInduction
  <1> QED
    BY <1>3 DEF T

(* ... and FlattenSeq is its last value.                                    *)
LEMMA FlattenIsLastStep ==
    ASSUME NEW U, NEW xs \in Seq(U), xs # <<>>
    PROVE  \E f : FlattenSteps(f, xs, Len(xs)) /\ FlattenSeq(xs) = f[Len(xs)]
  <1>1. Len(xs) \in Nat /\ Len(xs) # 0
    OBVIOUS
  <1>2. PICK g : FlattenSteps(g, xs, Len(xs))
    BY <1>1, FlattenStepsExist
  <1> DEFINE f == CHOOSE f : FlattenSteps(f, xs, Len(xs))
  <1>3. FlattenSteps(f, xs, Len(xs))
    BY <1>2, Zenon
  <1>4. FlattenSeq(xs) = f[Len(xs)]
    BY <1>1 DEF FlattenSeq, FlattenSteps
  <1> QED
    BY <1>3, <1>4

(* No sequences have no elements.                                           *)
LEMMA FlattenEmpty == FlattenSeq(<<>>) = <<>>
  <1>1. Len(<<>>) = 0
    OBVIOUS
  <1> QED
    BY <1>1 DEF FlattenSeq

(* Two such functions agree as far as the sequences do.                     *)
LEMMA FlattenStepsAgree ==
    ASSUME NEW xs, NEW ys, NEW n \in Nat, n > 0, NEW m \in Nat, n <= m,
           \A i \in 1..n : xs[i] = ys[i],
           NEW f, FlattenSteps(f, xs, n), NEW g, FlattenSteps(g, ys, m)
    PROVE  f[n] = g[n]
  <1> DEFINE T == {k \in Nat : k + 1 <= n => f[k + 1] = g[k + 1]}
  <1>1. ASSUME NEW k \in 1..n
        PROVE  /\ f[k] = IF k = 1 THEN xs[k] ELSE f[k - 1] \o xs[k]
               /\ g[k] = IF k = 1 THEN ys[k] ELSE g[k - 1] \o ys[k]
    <2>1. k \in 1..m
      OBVIOUS
    <2> QED
      BY <2>1 DEF FlattenSteps
  <1>2. 0 \in T
    BY <1>1
  <1>3. ASSUME NEW k \in Nat, k \in T PROVE k + 1 \in T
    <2> DEFINE j == k + 1 + 1
    <2> SUFFICES ASSUME j <= n PROVE f[j] = g[j]
      OBVIOUS
    <2>1. j \in 1..n /\ j # 1 /\ j - 1 = k + 1 /\ f[k + 1] = g[k + 1] /\ xs[j] = ys[j]
      BY <1>3
    <2>2. f[j] = f[j - 1] \o xs[j] /\ g[j] = g[j - 1] \o ys[j]
      BY <1>1, <2>1
    <2> QED
      BY <2>1, <2>2
  <1> HIDE DEF T
  <1>4. n - 1 \in T
    <2>1. n - 1 \in Nat
      OBVIOUS
    <2> QED
      BY <1>2, <1>3, <2>1, SetInduction
  <1> QED
    BY <1>4 DEF T

(* One sequence more goes to the end.                                       *)
LEMMA FlattenAppend ==
    ASSUME NEW U, NEW xs \in Seq(Seq(U)), NEW x \in Seq(U)
    PROVE  FlattenSeq(Append(xs, x)) = FlattenSeq(xs) \o x
  <1> DEFINE ys == Append(xs, x)
             n  == Len(xs)
             j  == n + 1
  <1>1. /\ ys \in Seq(Seq(U)) /\ Len(ys) = j /\ n \in Nat
        /\ \A i \in 1..n : ys[i] = xs[i]
        /\ ys[j] = x /\ ys # <<>>
    BY AppendProperties
  <1> HIDE DEF ys
  <1>2. PICK g : FlattenSteps(g, ys, j) /\ FlattenSeq(ys) = g[j]
    BY <1>1, FlattenIsLastStep
  <1>3. g[j] = IF j = 1 THEN x ELSE g[n] \o x
    <2>1. j \in 1..j /\ j - 1 = n
      BY <1>1
    <2>2. g[j] = IF j = 1 THEN ys[j] ELSE g[j - 1] \o ys[j]
      BY <1>2, <2>1 DEF FlattenSteps
    <2> QED
      BY <1>1, <2>1, <2>2
  <1>4. CASE n = 0
    <2>1. xs = <<>>
      BY <1>4
    <2>2. FlattenSeq(xs) = <<>>
      BY <2>1, FlattenEmpty
    <2>3. <<>> \o x = x
      OBVIOUS
    <2> QED
      BY <1>2, <1>3, <1>4, <2>2, <2>3 DEF ys
  <1>5. CASE n # 0
    <2>1. xs # <<>> /\ j # 1
      BY <1>1, <1>5
    <2>2. PICK f : FlattenSteps(f, xs, n) /\ FlattenSeq(xs) = f[n]
      BY <2>1, FlattenIsLastStep
    <2>3. f[n] = g[n]
      <3>1. n \in Nat /\ n > 0 /\ j \in Nat /\ n <= j /\ \A i \in 1..n : xs[i] = ys[i]
        BY <1>1, <1>5
      <3>2. FlattenSteps(g, ys, j) /\ FlattenSteps(f, xs, n)
        BY <1>2, <2>2
      <3> HIDE DEF n, j
      <3> QED
        BY ONLY <3>1, <3>2, FlattenStepsAgree
    <2> QED
      BY <1>2, <1>3, <2>1, <2>2, <2>3 DEF ys
  <1> QED
    BY <1>4, <1>5

(* The parts of the items, each as often as it is in them.                  *)
LEMMA ConcatInjective ==
    ASSUME NEW S, NEW s \in Seq(S), NEW t \in Seq(S)
    PROVE  /\ ToSet(s \o t) = ToSet(s) \cup ToSet(t)
           /\ IsInjective(s) /\ IsInjective(t) /\ ToSet(s) \cap ToSet(t) = {} => IsInjective(s \o t)
           /\ IsInjective(s \o t) => IsInjective(s) /\ IsInjective(t) /\ ToSet(s) \cap ToSet(t) = {}
  <1> DEFINE u == s \o t
             m == Len(s)
             n == Len(t)
  <1>1. /\ m \in Nat /\ n \in Nat /\ DOMAIN s = 1..m /\ DOMAIN t = 1..n
        /\ DOMAIN u = 1..(m + n)
        /\ \A i \in 1..m : u[i] = s[i]
        /\ \A i \in 1..n : u[m + i] = t[i]
        /\ \A i \in (m + 1)..(m + n) : u[i] = t[i - m]
    OBVIOUS
  <1> HIDE DEF u, m, n
  <1>2. ToSet(u) = ToSet(s) \cup ToSet(t)
    <2>1. ASSUME NEW i \in DOMAIN u PROVE u[i] \in ToSet(s) \cup ToSet(t)
      <3>1. CASE i \in 1..m
        BY <1>1, <3>1 DEF ToSet
      <3>2. CASE i \in (m + 1)..(m + n)
        <4>1. i - m \in 1..n
          BY <1>1, <3>2
        <4> QED
          BY <1>1, <3>2, <4>1 DEF ToSet
      <3> QED
        BY <1>1, <3>1, <3>2
    <2>2. ASSUME NEW i \in DOMAIN s PROVE s[i] \in ToSet(u)
      <3>1. i \in DOMAIN u
        BY <1>1
      <3> QED
        BY <1>1, <3>1 DEF ToSet
    <2>3. ASSUME NEW i \in DOMAIN t PROVE t[i] \in ToSet(u)
      <3>1. m + i \in DOMAIN u /\ u[m + i] = t[i]
        BY <1>1
      <3> QED
        BY <3>1 DEF ToSet
    <2> QED
      BY <2>1, <2>2, <2>3 DEF ToSet
  <1>3. ASSUME IsInjective(s), IsInjective(t), ToSet(s) \cap ToSet(t) = {}
        PROVE  IsInjective(u)
    <2> SUFFICES ASSUME NEW i \in DOMAIN u, NEW k \in DOMAIN u, u[i] = u[k], i < k PROVE FALSE
      BY <1>1 DEF IsInjective
    <2>1. CASE k \in 1..m
      <3>1. i \in 1..m
        BY <1>1, <2>1
      <3> QED
        BY <1>1, <1>3, <2>1, <3>1 DEF IsInjective
    <2>2. CASE i \in 1..m /\ k \notin 1..m
      <3>1. k - m \in 1..n /\ u[k] = t[k - m]
        BY <1>1, <2>2
      <3> QED
        BY <1>1, <1>3, <2>2, <3>1 DEF ToSet
    <2>3. CASE i \notin 1..m
      <3>1. /\ i - m \in 1..n /\ u[i] = t[i - m]
            /\ k - m \in 1..n /\ u[k] = t[k - m] /\ i - m # k - m
        BY <1>1, <2>3
      <3> QED
        BY <1>1, <1>3, <3>1 DEF IsInjective
    <2> QED
      BY <1>1, <2>1, <2>2, <2>3
  <1>4. ASSUME IsInjective(u) PROVE IsInjective(s) /\ IsInjective(t) /\ ToSet(s) \cap ToSet(t) = {}
    <2>1. IsInjective(s)
      <3>1. 1..m \subseteq DOMAIN u
        BY <1>1
      <3> QED
        BY <1>1, <1>4, <3>1 DEF IsInjective
    <2>2. IsInjective(t)
      <3> SUFFICES ASSUME NEW i \in 1..n, NEW k \in 1..n, t[i] = t[k] PROVE i = k
        BY <1>1 DEF IsInjective
      <3>1. m + i \in DOMAIN u /\ m + k \in DOMAIN u /\ u[m + i] = u[m + k]
        BY <1>1
      <3>2. m + i = m + k
        BY <1>4, <3>1 DEF IsInjective
      <3> QED
        BY <1>1, <3>2
    <2>3. ASSUME NEW i \in 1..m, NEW k \in 1..n, s[i] = t[k] PROVE FALSE
      <3>1. i \in DOMAIN u /\ m + k \in DOMAIN u /\ u[i] = u[m + k] /\ i # m + k
        BY <1>1, <2>3
      <3> QED
        BY <1>4, <3>1 DEF IsInjective
    <2> QED
      BY <1>1, <2>1, <2>2, <2>3 DEF ToSet
  <1> QED
    BY <1>2, <1>3, <1>4 DEF u

-----------------------------------------------------------------------------
(* Quotients *)

(* The quotient, from below and from above, ...                             *)
LEMMA DivBounds ==
    ASSUME NEW m \in Nat, NEW n \in Nat, n > 0
    PROVE  /\ m \div n \in Nat
           /\ (m \div n) * n <= m
           /\ m < (m \div n) * n + n
  OBVIOUS

(* ... products, ...                                                        *)
LEMMA TimesMonotonic ==
    ASSUME NEW n \in Nat, NEW j \in Int, NEW k \in Int, j <= k
    PROVE  j * n <= k * n /\ j * n \in Int /\ (k - 1) * n + n = k * n /\ (k + 1) * n = k * n + n
  OBVIOUS

(* ... the only number within the bounds, ...                               *)
LEMMA DivIs ==
    ASSUME NEW m \in Nat, NEW n \in Nat, n > 0, NEW k \in Nat, k * n <= m, m < k * n + n
    PROVE  m \div n = k
  OBVIOUS

(* ... and that it grows with the dividend.                                 *)
LEMMA DivMonotonic ==
    ASSUME NEW n \in Nat, n > 0, NEW l \in Nat, NEW m \in Nat, l <= m
    PROVE  l \div n <= m \div n
  OBVIOUS

=============================================================================

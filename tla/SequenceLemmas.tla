--------------------------- MODULE SequenceLemmas ---------------------------
(***************************************************************************)
(* What the modules use of sequences and of FlattenSeq: a queue of chunks  *)
(* read as one string of bytes.  FlattenSeq is defined by recursion, so    *)
(* the facts about it need induction; NatSetInduction gives it for sets.   *)
(***************************************************************************)
EXTENDS Integers, Sequences, SequencesExt, FiniteSets, FiniteSetTheorems,
        SequenceTheorems, TLAPS

\* Induction, with the property given as a set.  If n were left out, the map
\* t |-> t - 1 on the numbers up to n that are left out would be an injection of a
\* finite set into itself that misses the largest of them.
LEMMA NatSetInduction ==
    ASSUME NEW S, 0 \in S, \A n \in Nat : n \in S => n + 1 \in S
    PROVE  Nat \subseteq S
<1> SUFFICES ASSUME NEW N \in Nat, N \notin S
             PROVE  FALSE
  OBVIOUS
<1> DEFINE T == {n \in 0..N : n \notin S}
           f == [t \in T |-> t - 1]
<1>1. IsFiniteSet(T)
  <2>1. IsFiniteSet(0..N)
    BY FS_Interval
  <2>2. T \in SUBSET (0..N)
    OBVIOUS
  <2> QED BY <2>1, <2>2, FS_Subset
<1>2. \A t \in T : t \in 1..N /\ t - 1 \in T
  OBVIOUS
<1>3. N \in T
  OBVIOUS
<1>4. f \in Injection(T, T)
  BY <1>2 DEF Injection, IsInjective
<1> HIDE DEF f
<1>5. f \in Surjection(T, T)
  BY <1>1, <1>4, FS_Injection
<1>6. PICK t \in T : f[t] = N
  BY <1>3, <1>5 DEF Surjection
<1> QED BY <1>6 DEF f

-----------------------------------------------------------------------------
\* g[i] is the concatenation of the first i elements of ss: the function that the
\* definition of FlattenSeq chooses.
IsFlattening(g, ss) ==
    g = [i \in 1..Len(ss) |-> IF i = 1 THEN ss[i] ELSE g[i - 1] \o ss[i]]

\* FlattenSeq unfolded, for a queue that is not empty.
LEMMA FlattenChoice ==
    ASSUME NEW ss, Len(ss) # 0
    PROVE  FlattenSeq(ss) = (CHOOSE g : IsFlattening(g, ss))[Len(ss)]
  BY DEF FlattenSeq, IsFlattening

\* The choice in FlattenSeq is never from nothing.
LEMMA FlatteningExists ==
    ASSUME NEW V, NEW ss \in Seq(Seq(V)), Len(ss) # 0
    PROVE  \E g : IsFlattening(g, ss)
<1> DEFINE S == {n \in Nat : \A tt \in Seq(Seq(V)) :
                               Len(tt) = n + 1 => \E g : IsFlattening(g, tt)}
<1>1. 0 \in S
  <2> SUFFICES ASSUME NEW tt \in Seq(Seq(V)), Len(tt) = 1
               PROVE  \E g : IsFlattening(g, tt)
    OBVIOUS
  <2> WITNESS [i \in 1..1 |-> tt[1]]
  <2> QED BY DEF IsFlattening
<1>2. ASSUME NEW n \in Nat, n \in S
      PROVE  n + 1 \in S
  <2> SUFFICES ASSUME NEW tt \in Seq(Seq(V)), Len(tt) = n + 2
               PROVE  \E g : IsFlattening(g, tt)
    OBVIOUS
  <2> DEFINE fr == SubSeq(tt, 1, n + 1)
  <2>1. /\ fr \in Seq(Seq(V)) /\ Len(fr) = n + 1
        /\ \A i \in 1..(n + 1) : fr[i] = tt[i]
    OBVIOUS
  <2>2. PICK g : IsFlattening(g, fr)
    BY <1>2, <2>1
  <2> DEFINE h == [i \in 1..(n + 2) |->
                      IF i = n + 2 THEN g[n + 1] \o tt[n + 2] ELSE g[i]]
  <2>3. \A i \in 1..(n + 1) : g[i] = IF i = 1 THEN tt[i] ELSE g[i - 1] \o tt[i]
    BY <2>1, <2>2 DEF IsFlattening
  <2>4. \A i \in 1..(n + 2) : h[i] = IF i = 1 THEN tt[i] ELSE h[i - 1] \o tt[i]
    BY <2>3
  <2>5. IsFlattening(h, tt)
    <3>1. DOMAIN h = 1..Len(tt)
      OBVIOUS
    <3>2. h = [i \in DOMAIN h |-> h[i]]
      OBVIOUS
    <3> HIDE DEF h
    <3> QED BY <2>4, <3>1, <3>2 DEF IsFlattening
  <2> QED BY <2>5
<1>3. Nat \subseteq S
  <2> HIDE DEF S
  <2> QED BY <1>1, <1>2, NatSetInduction
<1> QED
  <2>1. Len(ss) - 1 \in Nat
    OBVIOUS
  <2>2. Len(ss) - 1 \in S
    BY <1>3, <2>1
  <2> QED BY <2>2

\* Every partial concatenation is a sequence of bytes.
LEMMA FlatteningType ==
    ASSUME NEW V, NEW ss \in Seq(Seq(V)), NEW g, IsFlattening(g, ss)
    PROVE  \A i \in 1..Len(ss) : g[i] \in Seq(V)
<1> DEFINE S == {n \in Nat : n + 1 <= Len(ss) => g[n + 1] \in Seq(V)}
<1>1. \A i \in 1..Len(ss) : g[i] = IF i = 1 THEN ss[i] ELSE g[i - 1] \o ss[i]
  BY DEF IsFlattening
<1>2. 0 \in S
  BY <1>1
<1>3. ASSUME NEW n \in Nat, n \in S
      PROVE  n + 1 \in S
  <2> SUFFICES ASSUME n + 2 <= Len(ss)
               PROVE  g[n + 2] \in Seq(V)
    OBVIOUS
  <2> DEFINE i == n + 2
  <2>1. i \in 1..Len(ss) /\ i # 1 /\ i - 1 = n + 1
    OBVIOUS
  <2>2. g[i - 1] \in Seq(V) /\ ss[i] \in Seq(V)
    BY <1>3, <2>1
  <2> HIDE DEF i
  <2>3. g[i] = g[i - 1] \o ss[i]
    BY <1>1, <2>1
  <2>4. g[i] \in Seq(V)
    BY <2>2, <2>3
  <2> QED BY <2>4 DEF i
<1>4. Nat \subseteq S
  <2> HIDE DEF S
  <2> QED BY <1>2, <1>3, NatSetInduction
<1>5. ASSUME NEW i \in 1..Len(ss)
      PROVE  g[i] \in Seq(V)
  <2>1. i - 1 \in Nat
    OBVIOUS
  <2>2. i - 1 \in S
    BY <1>4, <2>1
  <2> QED BY <2>2
<1> QED BY <1>5

\* A further chunk does not change the partial concatenations before it.
LEMMA FlatteningOfFront ==
    ASSUME NEW V, NEW ss \in Seq(Seq(V)), NEW s \in Seq(V), NEW g, NEW h,
           IsFlattening(g, ss), IsFlattening(h, Append(ss, s))
    PROVE  \A i \in 1..Len(ss) : h[i] = g[i]
<1> DEFINE S == {n \in Nat : n + 1 <= Len(ss) => h[n + 1] = g[n + 1]}
           tt == Append(ss, s)
<1>1. \A i \in 1..Len(ss) : g[i] = IF i = 1 THEN ss[i] ELSE g[i - 1] \o ss[i]
  BY DEF IsFlattening
<1>2. \A i \in 1..Len(tt) : h[i] = IF i = 1 THEN tt[i] ELSE h[i - 1] \o tt[i]
  BY DEF IsFlattening
<1>3. Len(tt) = Len(ss) + 1 /\ \A i \in 1..Len(ss) : tt[i] = ss[i]
  OBVIOUS
<1> HIDE DEF tt
<1>4. 0 \in S
  BY <1>1, <1>2, <1>3
<1>5. ASSUME NEW n \in Nat, n \in S
      PROVE  n + 1 \in S
  <2> SUFFICES ASSUME n + 2 <= Len(ss)
               PROVE  h[n + 2] = g[n + 2]
    OBVIOUS
  <2> DEFINE i == n + 2
  <2>1. i \in 1..Len(ss) /\ i \in 1..Len(tt) /\ i # 1 /\ i - 1 = n + 1
    BY <1>3
  <2> HIDE DEF i
  <2>2. g[i] = g[i - 1] \o ss[i]
    BY <1>1, <2>1
  <2>3. h[i] = h[i - 1] \o tt[i]
    BY <1>2, <2>1
  <2>4. tt[i] = ss[i] /\ h[i - 1] = g[i - 1]
    BY <1>3, <1>5, <2>1 DEF i
  <2>5. h[i] = g[i]
    BY <2>2, <2>3, <2>4
  <2> QED BY <2>5 DEF i
<1>6. Nat \subseteq S
  <2> HIDE DEF S
  <2> QED BY <1>4, <1>5, NatSetInduction
<1>7. ASSUME NEW i \in 1..Len(ss)
      PROVE  h[i] = g[i]
  <2>1. i - 1 \in Nat
    OBVIOUS
  <2>2. i - 1 \in S
    BY <1>6, <2>1
  <2> QED BY <2>2
<1> QED BY <1>7

-----------------------------------------------------------------------------
\* An empty queue holds no byte.
LEMMA FlattenEmpty == FlattenSeq(<<>>) = <<>>
  BY DEF FlattenSeq

\* A queue of chunks, read as one string, is a string of the same bytes.
LEMMA FlattenType ==
    ASSUME NEW V, NEW ss \in Seq(Seq(V))
    PROVE  FlattenSeq(ss) \in Seq(V)
<1>1. CASE Len(ss) = 0
  <2>1. ss = <<>>
    BY <1>1
  <2>2. <<>> \in Seq(V)
    OBVIOUS
  <2> QED BY <2>1, <2>2, FlattenEmpty
<1>2. CASE Len(ss) # 0
  <2> DEFINE g == CHOOSE g : IsFlattening(g, ss)
  <2>1. IsFlattening(g, ss)
    BY <1>2, FlatteningExists
  <2>2. FlattenSeq(ss) = g[Len(ss)]
    BY <1>2, FlattenChoice
  <2> HIDE DEF g
  <2>3. Len(ss) \in 1..Len(ss)
    BY <1>2
  <2> QED BY <2>1, <2>2, <2>3, FlatteningType
<1> QED BY <1>1, <1>2

\* A chunk put at the end of a queue adds its bytes at the end (list_add_tail in
\* ncd.c, push_back in start.rs).
LEMMA FlattenAppend ==
    ASSUME NEW V, NEW ss \in Seq(Seq(V)), NEW s \in Seq(V)
    PROVE  FlattenSeq(Append(ss, s)) = FlattenSeq(ss) \o s
<1> DEFINE tt == Append(ss, s)
           h  == CHOOSE h : IsFlattening(h, tt)
<1>1. tt \in Seq(Seq(V)) /\ Len(tt) = Len(ss) + 1 /\ tt[Len(tt)] = s
  OBVIOUS
<1> HIDE DEF tt
<1>2. IsFlattening(h, tt)
  BY <1>1, FlatteningExists
<1>3. FlattenSeq(tt) = h[Len(tt)]
  BY <1>1, FlattenChoice
<1> HIDE DEF h
<1>4. h[Len(tt)] = IF Len(tt) = 1 THEN s ELSE h[Len(tt) - 1] \o s
  <2> DEFINE i == Len(tt)
  <2>1. i \in 1..Len(tt) /\ tt[i] = s
    BY <1>1
  <2>2. h[i] = IF i = 1 THEN tt[i] ELSE h[i - 1] \o tt[i]
    <3> HIDE DEF i
    <3> QED BY <1>2, <2>1 DEF IsFlattening
  <2> QED BY <2>1, <2>2
<1>5. CASE Len(ss) = 0
  <2>1. ss = <<>>
    BY <1>5
  <2>2. <<>> \o s = s
    OBVIOUS
  <2>3. FlattenSeq(tt) = s
    BY <1>1, <1>3, <1>4, <1>5
  <2> QED BY <2>1, <2>2, <2>3, FlattenEmpty DEF tt
<1>6. CASE Len(ss) # 0
  <2> DEFINE g == CHOOSE g : IsFlattening(g, ss)
  <2>1. IsFlattening(g, ss)
    BY <1>6, FlatteningExists
  <2>2. FlattenSeq(ss) = g[Len(ss)]
    BY <1>6, FlattenChoice
  <2> HIDE DEF g
  <2>3. Len(ss) \in 1..Len(ss)
    BY <1>6
  <2>4. h[Len(ss)] = g[Len(ss)]
    BY <1>2, <2>1, <2>3, FlatteningOfFront DEF tt
  <2>5. Len(tt) # 1 /\ Len(tt) - 1 = Len(ss)
    BY <1>1, <1>6
  <2>6. FlattenSeq(tt) = g[Len(ss)] \o s
    BY <1>3, <1>4, <2>4, <2>5
  <2> QED BY <2>2, <2>6 DEF tt
<1> QED BY <1>5, <1>6

-----------------------------------------------------------------------------
\* The first n elements of a sequence.
LEMMA PieceType ==
    ASSUME NEW E, NEW s \in Seq(E), NEW n \in Nat, n <= Len(s)
    PROVE  /\ SubSeq(s, 1, n) \in Seq(E)
           /\ Len(SubSeq(s, 1, n)) = n
           /\ \A i \in 1..n : SubSeq(s, 1, n)[i] = s[i]
<1>1. Len(SubSeq(s, 1, n)) = IF 1 <= n THEN n - 1 + 1 ELSE 0
  OBVIOUS
<1>2. Len(SubSeq(s, 1, n)) = n
  BY <1>1
<1>3. SubSeq(s, 1, n) \in Seq(E) /\ \A i \in 1..n : SubSeq(s, 1, n)[i] = s[i]
  OBVIOUS
<1> QED BY <1>2, <1>3

\* A sequence that is not empty has a last element and what comes before it.
LEMMA FrontAndLast ==
    ASSUME NEW E, NEW s \in Seq(E), s # <<>>
    PROVE  \E f \in Seq(E), e \in E : s = Append(f, e) /\ Len(s) = Len(f) + 1
<1>1. PICK n \in Nat : Len(s) = n + 1
  <2>1. Len(s) \in Nat \ {0}
    BY EmptySeq
  <2>2. Len(s) - 1 \in Nat /\ Len(s) = (Len(s) - 1) + 1
    BY <2>1
  <2> QED BY <2>2
<1> DEFINE f == SubSeq(s, 1, n)
           e == s[n + 1]
<1>2. f \in Seq(E) /\ Len(f) = n
  BY <1>1, PieceType
<1>3. e \in E
  BY <1>1
<1>4. s = Append(f, e)
  BY <1>1
<1> QED BY <1>1, <1>2, <1>3, <1>4

\* A sequence that is not empty has a first element and what comes after it, and
\* an element appended at the other end changes neither.
LEMMA HeadAndTail ==
    ASSUME NEW E, NEW s \in Seq(E), s # <<>>
    PROVE  /\ Head(s) \in E /\ Tail(s) \in Seq(E)
           /\ Len(Tail(s)) = Len(s) - 1
           /\ s = <<Head(s)>> \o Tail(s)
           /\ \A e \in E : Head(Append(s, e)) = Head(s)
           /\ \A e \in E : Tail(Append(s, e)) = Append(Tail(s), e)
<1>1. Head(s) \in E /\ Tail(s) \in Seq(E) /\ Len(Tail(s)) = Len(s) - 1
  OBVIOUS
<1>2. s = <<Head(s)>> \o Tail(s)
  OBVIOUS
<1>3. ASSUME NEW e \in E
      PROVE  Head(Append(s, e)) = Head(s) /\ Tail(Append(s, e)) = Append(Tail(s), e)
  <2>1. Head(Append(s, e)) = Head(s)
    OBVIOUS
  <2>2. Tail(Append(s, e)) = Append(Tail(s), e)
    OBVIOUS
  <2> QED BY <2>1, <2>2
<1> QED BY <1>1, <1>2, <1>3

\* A sequence of length one.
LEMMA SingletonSeq ==
    ASSUME NEW E, NEW s \in Seq(E), Len(s) = 1
    PROVE  Head(s) \in E /\ s = Append(<<>>, Head(s)) /\ Tail(s) = <<>>
<1>1. s # <<>>
  BY EmptySeq
<1>2. Head(s) \in E /\ Tail(s) \in Seq(E) /\ Len(Tail(s)) = 0
  BY <1>1, HeadTailProperties
<1>3. Tail(s) = <<>>
  BY <1>2, EmptySeq
<1>4. s = Append(<<>>, Head(s))
  OBVIOUS
<1> QED BY <1>2, <1>3, <1>4

\* Concatenation as an operator the provers do not look into.
Cat(a, b) == a \o b

\* Concatenation is associative.
LEMMA CatAssociative ==
    ASSUME NEW V, NEW a \in Seq(V), NEW b \in Seq(V), NEW c \in Seq(V)
    PROVE  Cat(Cat(a, b), c) = Cat(a, Cat(b, c))
  BY DEF Cat

\* What Cat makes is a sequence: a, then b.
LEMMA CatType ==
    ASSUME NEW V, NEW a \in Seq(V), NEW b \in Seq(V)
    PROVE  /\ Cat(a, b) \in Seq(V)
           /\ Len(Cat(a, b)) = Len(a) + Len(b)
           /\ \A i \in 1..Len(a) : Cat(a, b)[i] = a[i]
           /\ \A i \in 1..Len(b) : Cat(a, b)[Len(a) + i] = b[i]
  BY DEF Cat

\* <<>> is neutral.
LEMMA CatEmpty ==
    ASSUME NEW V, NEW a \in Seq(V)
    PROVE  Cat(<<>>, a) = a /\ Cat(a, <<>>) = a
  BY DEF Cat

\* A sequence that has the elements of a and then those of b.
LEMMA CatIs ==
    ASSUME NEW V, NEW s \in Seq(V), NEW a \in Seq(V), NEW b \in Seq(V),
           Len(s) = Len(a) + Len(b),
           \A i \in 1..Len(a) : s[i] = a[i],
           \A i \in 1..Len(b) : s[Len(a) + i] = b[i]
    PROVE  s = Cat(a, b)
<1> DEFINE c == a \o b
<1>1. /\ c \in Seq(V) /\ Len(c) = Len(s) /\ Len(a) \in Nat /\ Len(b) \in Nat
      /\ \A i \in 1..Len(c) : c[i] = IF i <= Len(a) THEN a[i] ELSE b[i - Len(a)]
  OBVIOUS
<1> HIDE DEF c
<1>2. ASSUME NEW i \in 1..Len(s) PROVE s[i] = c[i]
  <2>1. CASE i <= Len(a)
    BY <1>1, <2>1
  <2>2. CASE ~(i <= Len(a))
    <3> DEFINE j == i - Len(a)
    <3>1. j \in 1..Len(b) /\ Len(a) + j = i
      BY <1>1, <2>2
    <3>2. c[i] = b[j]
      BY <1>1, <2>2
    <3> HIDE DEF j
    <3>3. s[Len(a) + j] = b[j]
      BY <3>1
    <3> QED BY <3>1, <3>2, <3>3
  <2> QED BY <2>1, <2>2
<1>3. s = c
  BY <1>1, <1>2, SeqEqual
<1> QED BY <1>3 DEF c, Cat

\* A sequence cut in two, as kfifo_out and queue_shards do it.
LEMMA CutInTwo ==
    ASSUME NEW V, NEW s \in Seq(V), NEW n \in Nat, n <= Len(s)
    PROVE  /\ SubSeq(s, 1, n) \in Seq(V)
           /\ SubSeq(s, n + 1, Len(s)) \in Seq(V)
           /\ Len(SubSeq(s, 1, n)) = n
           /\ Len(SubSeq(s, n + 1, Len(s))) = Len(s) - n
           /\ s = Cat(SubSeq(s, 1, n), SubSeq(s, n + 1, Len(s)))
<1> DEFINE a == SubSeq(s, 1, n)
           b == SubSeq(s, n + 1, Len(s))
<1>1. a \in Seq(V) /\ Len(a) = n /\ \A i \in 1..n : a[i] = s[i]
  BY PieceType
<1>2. /\ b \in Seq(V) /\ Len(b) = Len(s) - n
      /\ \A i \in 1..(Len(s) - n) : b[i] = s[n + i]
  <2>1. /\ b \in Seq(V)
        /\ Len(b) = IF n + 1 <= Len(s) THEN Len(s) - (n + 1) + 1 ELSE 0
    OBVIOUS
  <2>2. \A i \in 1..(Len(s) - n) : b[i] = s[n + i]
    OBVIOUS
  <2> QED BY <2>1, <2>2
<1> HIDE DEF a, b
<1>3. s = Cat(a, b)
  <2>1. Len(s) = Len(a) + Len(b) /\ Len(s) \in Nat
    BY <1>1, <1>2
  <2>2. /\ \A i \in 1..Len(a) : s[i] = a[i]
        /\ \A i \in 1..Len(b) : s[Len(a) + i] = b[i]
    BY <1>1, <1>2
  <2> QED BY <1>1, <1>2, <2>1, <2>2, CatIs
<1> QED BY <1>1, <1>2, <1>3 DEF a, b

\* The first chunk of a queue holds its first bytes (pop_front in start.rs,
\* list_first_entry in ncd.c).
LEMMA FlattenCons ==
    ASSUME NEW V, NEW ss \in Seq(Seq(V)), ss # <<>>
    PROVE  FlattenSeq(ss) = Head(ss) \o FlattenSeq(Tail(ss))
<1> DEFINE S == {n \in Nat : \A tt \in Seq(Seq(V)) : Len(tt) = n + 1 =>
                     FlattenSeq(tt) = Head(tt) \o FlattenSeq(Tail(tt))}
<1>1. ASSUME NEW tt \in Seq(Seq(V)), Len(tt) = 1
      PROVE  FlattenSeq(tt) = Head(tt) \o FlattenSeq(Tail(tt))
  <2>1. /\ Head(tt) \in Seq(V)
        /\ tt = Append(<<>>, Head(tt)) /\ Tail(tt) = <<>>
    BY <1>1, SingletonSeq
  <2>2. <<>> \in Seq(Seq(V))
    OBVIOUS
  <2>3. FlattenSeq(Append(<<>>, Head(tt))) = FlattenSeq(<<>>) \o Head(tt)
    BY <2>1, <2>2, FlattenAppend
  <2>4. <<>> \o Head(tt) = Head(tt) /\ Head(tt) \o <<>> = Head(tt)
    BY <2>1
  <2> QED BY <2>1, <2>3, <2>4, FlattenEmpty
<1>2. ASSUME NEW n \in Nat, n \in S
      PROVE  n + 1 \in S
  <2> SUFFICES ASSUME NEW tt \in Seq(Seq(V)), Len(tt) = n + 2
               PROVE  FlattenSeq(tt) = Head(tt) \o FlattenSeq(Tail(tt))
    OBVIOUS
  <2>1. tt # <<>>
    OBVIOUS
  <2>2. PICK fr \in Seq(Seq(V)), la \in Seq(V) :
            tt = Append(fr, la) /\ Len(tt) = Len(fr) + 1
    BY <2>1, FrontAndLast
  <2>3. Len(fr) = n + 1 /\ fr # <<>>
    BY <2>2
  <2>4. /\ Head(fr) \in Seq(V) /\ Tail(fr) \in Seq(Seq(V))
        /\ Head(tt) = Head(fr) /\ Tail(tt) = Append(Tail(fr), la)
    BY <2>2, <2>3, HeadAndTail
  <2>5. FlattenSeq(fr) = Head(fr) \o FlattenSeq(Tail(fr))
    BY <1>2, <2>3
  <2>6. FlattenSeq(tt) = FlattenSeq(fr) \o la
    BY <2>2, FlattenAppend
  <2>7. FlattenSeq(Tail(tt)) = FlattenSeq(Tail(fr)) \o la
    BY <2>4, FlattenAppend
  <2>8. FlattenSeq(Tail(fr)) \in Seq(V)
    BY <2>4, FlattenType
  <2>9. FlattenSeq(tt) = Cat(Cat(Head(fr), FlattenSeq(Tail(fr))), la)
    BY <2>5, <2>6 DEF Cat
  <2>10. FlattenSeq(Tail(tt)) = Cat(FlattenSeq(Tail(fr)), la)
    BY <2>7 DEF Cat
  <2>11. Cat(Cat(Head(fr), FlattenSeq(Tail(fr))), la)
            = Cat(Head(fr), Cat(FlattenSeq(Tail(fr)), la))
    BY <2>4, <2>8, CatAssociative
  <2>12. FlattenSeq(tt) = Cat(Head(tt), FlattenSeq(Tail(tt)))
    BY <2>4, <2>9, <2>10, <2>11
  <2> QED BY <2>12 DEF Cat
<1>3. 0 \in S
  BY <1>1
<1>4. Nat \subseteq S
  <2> HIDE DEF S
  <2> QED BY <1>2, <1>3, NatSetInduction
<1>5. Len(ss) - 1 \in Nat
  OBVIOUS
<1>6. Len(ss) - 1 \in S
  BY <1>4, <1>5
<1> QED BY <1>6

-----------------------------------------------------------------------------
\* A finite set put in some order: its elements and no others.
LEMMA SetToSeqIs ==
    ASSUME NEW S, IsFiniteSet(S)
    PROVE  SetToSeq(S) \in Seq(S) /\ ToSet(SetToSeq(S)) = S
<1> DEFINE n == Cardinality(S)
           s == SetToSeq(S)
<1>1. n \in Nat /\ ExistsBijection(1..n, S)
  BY FS_CardinalityType
<1>2. PICK f \in Bijection(1..n, S) : TRUE
  BY <1>1 DEF ExistsBijection
<1>3. f \in [1..n -> S] /\ IsInjective(f)
  BY <1>2 DEF Bijection, Injection
<1>4. s \in [1..n -> S] /\ IsInjective(s)
  BY <1>3 DEF SetToSeq
<1>5. s \in Injection(1..n, S)
  BY <1>4 DEF Injection
<1>6. Cardinality(1..n) = Cardinality(S)
  BY <1>1, FS_Interval
<1>7. s \in Surjection(1..n, S)
  BY <1>5, <1>6, FS_Injection
<1> HIDE DEF n, s
<1>8. s \in Seq(S) /\ DOMAIN s = 1..n
  BY <1>1, <1>4
<1>9. ToSet(s) = S
  BY <1>4, <1>7, <1>8 DEF ToSet, Surjection
<1> QED BY <1>8, <1>9 DEF s

\* A sequence over a set is one over every larger set.
LEMMA SeqMonotone ==
    ASSUME NEW A, NEW B, A \subseteq B, NEW s \in Seq(A)
    PROVE  s \in Seq(B)
  OBVIOUS

\* The elements of a sequence are finitely many.
LEMMA ToSetFinite ==
    ASSUME NEW V, NEW s \in Seq(V)
    PROVE  IsFiniteSet(ToSet(s)) /\ ToSet(s) \subseteq V
<1>1. Len(s) \in Nat /\ s \in [1..Len(s) -> V] /\ DOMAIN s = 1..Len(s)
  OBVIOUS
<1>2. ToSet(s) = {s[i] : i \in 1..Len(s)}
  BY <1>1 DEF ToSet
<1>3. s \in Surjection(1..Len(s), ToSet(s))
  BY <1>1, <1>2 DEF Surjection
<1>4. IsFiniteSet(1..Len(s))
  BY <1>1, FS_Interval
<1>5. IsFiniteSet(ToSet(s))
  BY <1>3, <1>4, FS_Surjection
<1> QED BY <1>1, <1>2, <1>5

\* The elements of a concatenation.
LEMMA ToSetCat ==
    ASSUME NEW V, NEW a \in Seq(V), NEW b \in Seq(V)
    PROVE  ToSet(a \o b) = ToSet(a) \cup ToSet(b)
<1> DEFINE c == a \o b
<1>1. /\ c \in Seq(V) /\ Len(c) = Len(a) + Len(b)
      /\ \A i \in 1..Len(a) : c[i] = a[i]
      /\ \A i \in 1..Len(b) : c[Len(a) + i] = b[i]
  OBVIOUS
<1>2. /\ ToSet(a) = {a[i] : i \in 1..Len(a)} /\ ToSet(b) = {b[i] : i \in 1..Len(b)}
      /\ ToSet(c) = {c[i] : i \in 1..Len(c)}
  BY <1>1 DEF ToSet
<1> HIDE DEF c
<1>3. ASSUME NEW i \in 1..Len(c)
      PROVE  c[i] \in ToSet(a) \cup ToSet(b)
  <2>1. CASE i <= Len(a)
    BY <1>1, <1>2, <2>1
  <2>2. CASE i > Len(a)
    <3>1. i - Len(a) \in 1..Len(b) /\ i = Len(a) + (i - Len(a))
      BY <1>1, <2>2
    <3> QED BY <1>1, <1>2, <3>1
  <2> QED BY <1>1, <2>1, <2>2
<1>4. ToSet(a) \subseteq ToSet(c)
  BY <1>1, <1>2
<1>5. ToSet(b) \subseteq ToSet(c)
  <2> SUFFICES ASSUME NEW i \in 1..Len(b)
               PROVE  b[i] \in ToSet(c)
    BY <1>2
  <2>1. Len(a) + i \in 1..Len(c)
    BY <1>1
  <2> QED BY <1>1, <1>2, <2>1
<1> QED BY <1>2, <1>3, <1>4, <1>5 DEF c

-----------------------------------------------------------------------------
(***************************************************************************)
(* Queues of consecutive numbers.                                          *)
(***************************************************************************)
\* q holds the numbers after a.
Counts(q, a) == \A i \in 1..Len(q) : q[i] = a + i

\* The next number can be put at the end.
LEMMA CountsAppend ==
    ASSUME NEW S, NEW q \in Seq(S), NEW a \in Nat, NEW e \in S,
           Counts(q, a), e = a + Len(q) + 1
    PROVE  Counts(Append(q, e), a) /\ Len(Append(q, e)) = Len(q) + 1
  BY DEF Counts

\* What is taken from the front is the first number, and the rest goes on.
LEMMA CountsTail ==
    ASSUME NEW S, NEW q \in Seq(S), NEW a \in Nat, Counts(q, a), q # <<>>
    PROVE  /\ Head(q) = a + 1 /\ Len(Tail(q)) = Len(q) - 1
           /\ Counts(Tail(q), a + 1)
  BY DEF Counts

\* Two queues that follow each other.
LEMMA CountsCat ==
    ASSUME NEW S, NEW p \in Seq(S), NEW q \in Seq(S), NEW a \in Nat,
           Counts(p, a), Counts(q, a + Len(p))
    PROVE  Counts(p \o q, a) /\ Len(p \o q) = Len(p) + Len(q)
  BY DEF Counts

\* The empty queue, and one of a single number.
LEMMA CountsShort ==
    ASSUME NEW a \in Nat
    PROVE  Counts(<<>>, a) /\ Counts(<<a + 1>>, a)
  BY DEF Counts
=============================================================================

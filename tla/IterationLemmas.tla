--------------------------- MODULE IterationLemmas ---------------------------
(* Facts about numbers, recursive functions and FlattenSeq that the proofs *)
(* about the components need.  Induction is had from the library's theorem *)
(* that strict inclusion is well-founded on finite sets: every non-empty   *)
(* set of numbers has a least one, a set that has 0 and every successor of *)
(* its members is Nat, and two functions that start and step alike agree.  *)
EXTENDS FiniteSetTheorems, SequenceTheorems, SequencesExt, TLAPS

(* Any numbers at all have a least one among them.                         *)
LEMMA LeastNumber ==
  ASSUME NEW T \in SUBSET Nat, T # {}
  PROVE  \E m \in T : \A k \in T : m <= k
<1> DEFINE UpTo(n) == {k \in T : k <= n}
           W == {UpTo(n) : n \in T}
<1>1. W \subseteq FiniteSubsetsOf(Nat)
  <2> SUFFICES ASSUME NEW n \in T
               PROVE  UpTo(n) \in FiniteSubsetsOf(Nat)
    OBVIOUS
  <2>1. IsFiniteSet(UpTo(n))
    <3>1. UpTo(n) \in SUBSET Nat /\ n \in Nat /\ \A s \in UpTo(n) : s <= n
      OBVIOUS
    <3>2. QED
      BY <3>1, FS_BoundedSetOfNaturals
  <2>2. QED
    BY <2>1 DEF FiniteSubsetsOf
<1>2. PICK w \in W : \A v \in W : <<v, w>> \notin StrictSubsetOrdering(Nat)
  <2>1. W # {}
    OBVIOUS
  <2> HIDE DEF W
  <2>2. QED
    BY <1>1, <2>1, FS_StrictSubsetOrderingWellFounded, WFMin
<1>3. PICK m \in T : w = UpTo(m)
  OBVIOUS
<1>4. ASSUME NEW k \in T, k < m
      PROVE  FALSE
  <2>1. k \in Nat /\ m \in Nat
    OBVIOUS
  <2>2. \A j \in Nat : j <= k => j <= m
    BY <2>1, <1>4
  <2>3. m <= m /\ ~ (m <= k)
    BY <2>1, <1>4
  <2>4. UpTo(k) \in W /\ UpTo(k) \subseteq UpTo(m) /\ m \in UpTo(m) /\ m \notin UpTo(k)
    BY <2>2, <2>3
  <2>5. UpTo(k) \subseteq Nat /\ UpTo(m) \subseteq Nat /\ UpTo(k) # UpTo(m)
    BY <2>4
  <2> HIDE DEF UpTo, W
  <2>6. <<UpTo(k), UpTo(m)>> \in StrictSubsetOrdering(Nat)
    BY <2>4, <2>5 DEF StrictSubsetOrdering
  <2>7. QED
    BY <1>2, <1>3, <2>4, <2>6
<1>5. QED
  BY <1>4

(* Induction over Nat, for a set in place of a predicate.                  *)
LEMMA SetInduction ==
  ASSUME NEW S \in SUBSET Nat, 0 \in S, \A n \in S : n + 1 \in S
  PROVE  S = Nat
<1> DEFINE T == Nat \ S
<1>1. SUFFICES ASSUME T # {} PROVE FALSE
  OBVIOUS
<1>2. PICK m \in T : \A k \in T : m <= k
  BY <1>1, LeastNumber
<1>3. m - 1 \in Nat /\ m - 1 \notin T
  BY <1>2
<1>4. QED
  BY <1>2, <1>3

\* f starts with v, and G takes each of its values up to n to the next.
Iterates(f, v, G, n) == f[0] = v /\ \A i \in 1 .. n : f[i] = G[<<i, f[i - 1]>>]
Steps(V, n) == [(1 .. n) \X V -> V]

(* A function may be defined by its first value and a step to the next.    *)
LEMMA Iteration ==
  ASSUME NEW V, NEW n \in Nat, NEW v \in V, NEW G \in Steps(V, n)
  PROVE  \E f \in [0 .. n -> V] : Iterates(f, v, G, n)
<1> USE DEF Iterates, Steps
<1> DEFINE Upto(m) == \E f \in [0 .. m -> V] :
                        f[0] = v /\ \A i \in 1 .. m : f[i] = G[<<i, f[i - 1]>>]
           S == {m \in Nat : m <= n => Upto(m)}
<1>1. 0 \in S
  <2> DEFINE f == [i \in 0 .. 0 |-> v]
  <2>1. f \in [0 .. 0 -> V] /\ f[0] = v /\ \A i \in 1 .. 0 : f[i] = G[<<i, f[i - 1]>>]
    OBVIOUS
  <2>2. Upto(0)
    BY <2>1
  <2>3. QED
    BY <2>2
<1>2. ASSUME NEW m \in S
      PROVE  m + 1 \in S
  <2> SUFFICES ASSUME m + 1 <= n
               PROVE  Upto(m + 1)
    OBVIOUS
  <2>1. m \in Nat /\ m <= n
    OBVIOUS
  <2>2. PICK f \in [0 .. m -> V] : f[0] = v /\ \A i \in 1 .. m : f[i] = G[<<i, f[i - 1]>>]
    BY <2>1
  <2> DEFINE g == [i \in 0 .. m + 1 |-> IF i = m + 1 THEN G[<<m + 1, f[m]>>] ELSE f[i]]
  <2>3. f[m] \in V /\ <<m + 1, f[m]>> \in (1 .. n) \X V
    BY <2>1
  <2>4. G[<<m + 1, f[m]>>] \in V
    BY <2>3
  <2>5. g \in [0 .. m + 1 -> V]
    BY <2>1, <2>4
  <2>6. \A i \in 0 .. m : g[i] = f[i]
    BY <2>1
  <2>7. g[m + 1] = G[<<m + 1, f[m]>>]
    BY <2>1
  <2> HIDE DEF g
  <2>8. g[0] = v
    BY <2>1, <2>2, <2>6
  <2>9. ASSUME NEW i \in 1 .. m + 1
        PROVE  g[i] = G[<<i, g[i - 1]>>]
    <3>1. CASE i = m + 1
      <4>1. i - 1 = m /\ m \in 0 .. m
        BY <2>1, <3>1
      <4>2. g[i - 1] = f[m]
        BY <2>6, <4>1
      <4>3. QED
        BY <2>7, <3>1, <4>2
    <3>2. CASE i # m + 1
      <4>1. i \in 1 .. m /\ i \in 0 .. m /\ i - 1 \in 0 .. m
        BY <2>1, <3>2
      <4>2. QED
        BY <2>2, <2>6, <4>1
    <3>3. QED
      BY <3>1, <3>2
  <2>10. QED
    BY <2>5, <2>8, <2>9
<1>3. S = Nat
  <2> HIDE DEF S
  <2>1. S \subseteq Nat
    BY DEF S
  <2>2. QED
    BY <1>1, <1>2, <2>1, SetInduction
<1>4. n \in S /\ n <= n
  <2> HIDE DEF S
  <2>1. QED
    BY <1>3
<1>5. Upto(n)
  <2> HIDE DEF Upto
  <2>1. QED
    BY <1>4
<1>6. QED
  BY <1>5

\* Up to n, where f and g agree they agree one further.
StepAlike(f, g, n) == \A i \in 1 .. n : f[i - 1] = g[i - 1] => f[i] = g[i]

(* Two functions that start alike and step alike are alike.                *)
LEMMA Alike ==
  ASSUME NEW n \in Nat, NEW f, NEW g, f[0] = g[0], StepAlike(f, g, n)
  PROVE  \A i \in 0 .. n : f[i] = g[i]
<1> USE DEF StepAlike
<1> DEFINE S == {m \in Nat : m <= n => f[m] = g[m]}
<1>1. 0 \in S
  OBVIOUS
<1>2. ASSUME NEW m \in S
      PROVE  m + 1 \in S
  <2> SUFFICES ASSUME m + 1 <= n
               PROVE  f[m + 1] = g[m + 1]
    OBVIOUS
  <2>1. m \in Nat /\ m <= n /\ m + 1 \in 1 .. n /\ (m + 1) - 1 = m
    OBVIOUS
  <2>2. f[m] = g[m]
    BY <2>1
  <2>3. f[(m + 1) - 1] = g[(m + 1) - 1]
    BY <2>1, <2>2
  <2>4. QED
    BY <2>1, <2>3
<1>3. S = Nat
  <2> HIDE DEF S
  <2>1. S \subseteq Nat
    BY DEF S
  <2>2. QED
    BY <1>1, <1>2, <2>1, SetInduction
<1>4. QED
  BY <1>3

-----------------------------------------------------------------------------
\* Three sequences may be put together from either end.
Associate(x, y, z) == (x \o y) \o z = x \o (y \o z)

(* Concatenation is associative.                                           *)
LEMMA Association ==
  ASSUME NEW S, NEW x \in Seq(S), NEW y \in Seq(S), NEW z \in Seq(S)
  PROVE  Associate(x, y, z)
BY ConcatAssociative DEF Associate

(* FlattenSeq puts the sequences of a sequence one after the other.        *)
LEMMA FlattenEmpty == FlattenSeq(<< >>) = << >>
BY DEF FlattenSeq

\* f is the function by which FlattenSeq is defined.
Flattens(f, ss) == f = [i \in 1 .. Len(ss) |-> IF i = 1 THEN ss[i] ELSE f[i - 1] \o ss[i]]

(* There is such a function, whose values are sequences.                   *)
LEMMA Flattening ==
  ASSUME NEW S, NEW ss \in Seq(Seq(S)), ss # << >>
  PROVE  \E f : Flattens(f, ss) /\ f \in [1 .. Len(ss) -> Seq(S)] /\ FlattenSeq(ss) = f[Len(ss)]
<1> DEFINE n == Len(ss)
           G == [p \in (1 .. n) \X Seq(S) |-> p[2] \o ss[p[1]]]
           Def(f) == [i \in 1 .. n |-> IF i = 1 THEN ss[i] ELSE f[i - 1] \o ss[i]]
<1>1. n \in Nat /\ n > 0 /\ \A i \in 1 .. n : ss[i] \in Seq(S)
  BY EmptySeq, ElementOfSeq
<1> HIDE DEF n
<1>2. G \in [(1 .. n) \X Seq(S) -> Seq(S)]
  BY <1>1
<1>3. << >> \in Seq(S)
  OBVIOUS
<1>4. PICK h \in [0 .. n -> Seq(S)] : h[0] = << >> /\ \A i \in 1 .. n : h[i] = G[<<i, h[i - 1]>>]
  <2> DEFINE V == Seq(S)
  <2>1. << >> \in V /\ G \in Steps(V, n)
    BY <1>2, <1>3 DEF Steps
  <2> HIDE DEF G, V
  <2>2. \E h \in [0 .. n -> V] : Iterates(h, << >>, G, n)
    BY <1>1, <2>1, Iteration
  <2>3. QED
    BY <2>2 DEF V, Iterates
<1>5. \A i \in 1 .. n : h[i] = h[i - 1] \o ss[i]
  <2> TAKE i \in 1 .. n
  <2>1. i - 1 \in 0 .. n
    BY <1>1
  <2>2. h[i - 1] \in Seq(S)
    BY <2>1
  <2>3. G[<<i, h[i - 1]>>] = h[i - 1] \o ss[i]
    BY <2>2
  <2>4. QED
    BY <1>4, <2>3
<1>6. h[1] = ss[1]
  <2>1. 1 \in 1 .. n /\ 1 - 1 = 0
    BY <1>1
  <2>2. h[1] = h[0] \o ss[1]
    BY <1>5, <2>1
  <2>4. h[0] = << >> /\ ss[1] \in Seq(S)
    BY <1>1, <1>4, <2>1
  <2>3. QED
    BY <2>2, <2>4, ConcatEmptySeq
<1> DEFINE g == [i \in 1 .. n |-> h[i]]
<1>7. g = Def(g)
  <2> SUFFICES ASSUME NEW i \in 1 .. n
               PROVE  g[i] = IF i = 1 THEN ss[i] ELSE g[i - 1] \o ss[i]
    OBVIOUS
  <2>1. CASE i = 1
    BY <1>1, <1>6, <2>1
  <2>2. CASE i # 1
    <3>1. i - 1 \in 1 .. n
      BY <1>1, <2>2
    <3>2. QED
      BY <1>5, <2>2, <3>1
  <2>3. QED
    BY <2>1, <2>2
<1> DEFINE f == CHOOSE f : f = Def(f)
<1>8. f = Def(f)
  <2> HIDE DEF g, Def
  <2>1. QED
    BY <1>7
<1>9. FlattenSeq(ss) = f[n]
  BY <1>1 DEF FlattenSeq, n
<1>10. f \in [1 .. n -> Seq(S)]
  <2> HIDE DEF f
  <2> DEFINE e == [i \in 0 .. n |-> IF i = 0 THEN << >> ELSE f[i]]
  <2>1. e[0] = h[0]
    BY <1>1, <1>4
  <2>2. StepAlike(e, h, n)
    <3> SUFFICES ASSUME NEW i \in 1 .. n, e[i - 1] = h[i - 1]
                 PROVE  e[i] = h[i]
      BY DEF StepAlike
    <3>1. CASE i = 1
      <4>1. e[i] = ss[1]
        BY <1>1, <1>8, <3>1
      <4>2. h[i] = ss[1]
        BY <1>6, <3>1
      <4>3. QED
        BY <4>1, <4>2
    <3>2. CASE i # 1
      <4>1. i - 1 \in 1 .. n /\ i - 1 \in 0 .. n /\ i \in 0 .. n /\ i - 1 # 0 /\ i # 0
        BY <1>1, <3>2
      <4>2. e[i - 1] = f[i - 1] /\ e[i] = f[i]
        BY <4>1
      <4>3. f[i] = f[i - 1] \o ss[i]
        BY <1>8, <3>2
      <4>4. QED
        BY <1>5, <4>2, <4>3
    <3>3. QED
      BY <3>1, <3>2
  <2>3. \A i \in 0 .. n : e[i] = h[i]
    <3> HIDE DEF e
    <3>1. QED
      BY <1>1, <2>1, <2>2, Alike
  <2>4. \A i \in 1 .. n : f[i] = h[i]
    <3> TAKE i \in 1 .. n
    <3>1. i \in 0 .. n /\ i # 0
      BY <1>1
    <3>2. QED
      BY <2>3, <3>1
  <2>5. \A i \in 1 .. n : f[i] \in Seq(S)
    BY <1>1, <2>4
  <2>6. f = [i \in 1 .. n |-> f[i]]
    BY <1>8
  <2>7. QED
    BY <2>5, <2>6
<1>11. QED
  <2> HIDE DEF f
  <2>1. QED
    BY <1>8, <1>9, <1>10 DEF n, Flattens

(* What it puts together is a sequence of the same elements.               *)
LEMMA FlattenType ==
  ASSUME NEW S, NEW ss \in Seq(Seq(S))
  PROVE  FlattenSeq(ss) \in Seq(S)
<1>1. CASE ss = << >>
  BY <1>1, FlattenEmpty, EmptySeq
<1>2. CASE ss # << >>
  <2>1. Len(ss) \in 1 .. Len(ss)
    BY <1>2, EmptySeq
  <2>2. PICK f : f \in [1 .. Len(ss) -> Seq(S)] /\ FlattenSeq(ss) = f[Len(ss)]
    BY <1>2, Flattening
  <2>3. QED
    BY <2>1, <2>2
<1>3. QED
  BY <1>1, <1>2

(* What is appended comes last.                                            *)
LEMMA FlattenAppend ==
  ASSUME NEW S, NEW ss \in Seq(Seq(S)), NEW s \in Seq(S)
  PROVE  FlattenSeq(Append(ss, s)) = FlattenSeq(ss) \o s
<1> DEFINE tt == Append(ss, s)
           n == Len(ss)
<1>1. /\ tt \in Seq(Seq(S)) /\ Len(tt) = n + 1 /\ tt # << >> /\ n \in Nat
      /\ \A i \in 1 .. n : tt[i] = ss[i]
      /\ tt[n + 1] = s
  BY AppendProperties
<1> HIDE DEF tt
<1>2. PICK g : /\ g = [i \in 1 .. n + 1 |-> IF i = 1 THEN tt[i] ELSE g[i - 1] \o tt[i]]
               /\ FlattenSeq(tt) = g[n + 1]
  <2>1. PICK g : Flattens(g, tt) /\ FlattenSeq(tt) = g[Len(tt)]
    BY <1>1, Flattening
  <2>2. QED
    BY <1>1, <2>1 DEF Flattens
<1>3. CASE ss = << >>
  <2>1. n = 0
    BY <1>3
  <2>2. FlattenSeq(tt) = s
    BY <1>1, <1>2, <2>1
  <2>3. QED
    BY <1>3, <2>2, FlattenEmpty, ConcatEmptySeq DEF tt
<1>4. CASE ss # << >>
  <2> HIDE DEF n
  <2>0. n > 0
    BY <1>1, <1>4, EmptySeq DEF n
  <2>1. PICK f : /\ f = [i \in 1 .. n |-> IF i = 1 THEN ss[i] ELSE f[i - 1] \o ss[i]]
                 /\ FlattenSeq(ss) = f[n]
    BY <1>4, Flattening DEF n, Flattens
  <2> DEFINE a == [i \in 0 .. n |-> IF i = 0 THEN << >> ELSE f[i]]
             b == [i \in 0 .. n |-> IF i = 0 THEN << >> ELSE g[i]]
  <2>2. a[0] = b[0]
    BY <1>1
  <2>3. StepAlike(a, b, n)
    <3> SUFFICES ASSUME NEW i \in 1 .. n, a[i - 1] = b[i - 1]
                 PROVE  a[i] = b[i]
      BY DEF StepAlike
    <3>1. i \in 0 .. n /\ i # 0 /\ i \in 1 .. n + 1 /\ i - 1 \in 0 .. n
      BY <1>1
    <3>2. a[i] = f[i] /\ b[i] = g[i]
      BY <3>1
    <3>3. CASE i = 1
      BY <1>1, <1>2, <2>1, <3>1, <3>2, <3>3
    <3>4. CASE i # 1
      <4>1. i - 1 # 0
        BY <3>1, <3>4
      <4>2. a[i - 1] = f[i - 1] /\ b[i - 1] = g[i - 1]
        BY <3>1, <4>1
      <4>3. f[i] = f[i - 1] \o ss[i] /\ g[i] = g[i - 1] \o tt[i]
        BY <1>2, <2>1, <3>1, <3>4
      <4>4. QED
        BY <1>1, <3>2, <4>2, <4>3
    <3>5. QED
      BY <3>3, <3>4
  <2>4. a[n] = b[n]
    <3> HIDE DEF a, b
    <3>1. \A i \in 0 .. n : a[i] = b[i]
      BY <1>1, <2>2, <2>3, Alike
    <3>2. QED
      BY <1>1, <3>1
  <2>5. f[n] = g[n]
    BY <1>1, <2>0, <2>4
  <2>6. g[n + 1] = g[n] \o s
    <3>1. n + 1 \in 1 .. n + 1 /\ n + 1 # 1 /\ (n + 1) - 1 = n
      BY <1>1, <2>0
    <3>2. g[n + 1] = g[(n + 1) - 1] \o tt[n + 1]
      BY <1>2, <3>1
    <3>3. QED
      BY <1>1, <3>1, <3>2
  <2>7. QED
    BY <1>2, <2>1, <2>5, <2>6 DEF tt
<1>5. QED
  BY <1>3, <1>4

(* What is at the head comes first.                                        *)
LEMMA FlattenTail ==
  ASSUME NEW S, NEW ss \in Seq(Seq(S)), ss # << >>
  PROVE  FlattenSeq(ss) = Head(ss) \o FlattenSeq(Tail(ss))
<1> DEFINE First(tt) == FlattenSeq(tt) = Head(tt) \o FlattenSeq(Tail(tt))
           N == {n \in Nat : \A tt \in Seq(Seq(S)) : Len(tt) = n + 1 => First(tt)}
<1>1. 0 \in N
  <2> SUFFICES ASSUME NEW tt \in Seq(Seq(S)), Len(tt) = 1
               PROVE  First(tt)
    OBVIOUS
  <2>1. tt # << >>
    <3>1. Len(tt) \in Nat \ {0} /\ Len(<< >>) = 0
      BY EmptySeq
    <3>2. tt = << >> => Len(tt) = 0
      BY <3>1
    <3>3. QED
      BY <3>2
  <2>2. /\ Head(tt) \in Seq(S) /\ Tail(tt) \in Seq(Seq(S))
        /\ Len(Tail(tt)) = 0
    BY <2>1, HeadTailProperties
  <2>3. tt # << >> /\ Tail(tt) = << >> /\ Head(tt) \in Seq(S)
    BY <2>1, <2>2, EmptySeq
  <2>4. tt = Append(<< >>, Head(tt))
    BY <2>3
  <2>5. << >> \in Seq(Seq(S)) /\ << >> \in Seq(S)
    OBVIOUS
  <2>6. FlattenSeq(tt) = << >> \o Head(tt)
    BY <2>3, <2>4, <2>5, FlattenAppend, FlattenEmpty
  <2>7. QED
    BY <2>3, <2>6, FlattenEmpty, ConcatEmptySeq
<1>2. ASSUME NEW n \in N
      PROVE  n + 1 \in N
  <2> SUFFICES ASSUME NEW tt \in Seq(Seq(S)), Len(tt) = n + 2
               PROVE  First(tt)
    OBVIOUS
  <2>0. n \in Nat
    OBVIOUS
  <2>1. PICK uu \in Seq(Seq(S)), e \in Seq(S) : tt = Append(uu, e)
    <3>1. tt # << >>
      BY <2>0, EmptySeq
    <3>2. QED
      BY <3>1, SequenceEmptyOrAppend
  <2>2. Len(uu) = n + 1 /\ uu # << >>
    BY <2>0, <2>1, AppendProperties, EmptySeq
  <2>3. First(uu)
    BY <2>2
  <2>4. /\ Head(uu) \in Seq(S) /\ Tail(uu) \in Seq(Seq(S))
        /\ Head(tt) = Head(uu) /\ Tail(tt) = Append(Tail(uu), e)
    BY <2>1, <2>2, HeadTailProperties, HeadTailAppend
  <2>5. FlattenSeq(Tail(uu)) \in Seq(S)
    BY <2>4, FlattenType
  <2>6. FlattenSeq(Tail(tt)) = FlattenSeq(Tail(uu)) \o e
    BY <2>4, FlattenAppend
  <2>7. FlattenSeq(tt) = (Head(uu) \o FlattenSeq(Tail(uu))) \o e
    BY <2>1, <2>3, FlattenAppend
  <2>8. (Head(uu) \o FlattenSeq(Tail(uu))) \o e = Head(uu) \o (FlattenSeq(Tail(uu)) \o e)
    <3> DEFINE x == Head(uu)
               y == FlattenSeq(Tail(uu))
    <3>1. x \in Seq(S) /\ y \in Seq(S)
      BY <2>4, <2>5
    <3> HIDE DEF x, y, First, N
    <3>2. Associate(x, y, e)
      BY <3>1, Association
    <3>3. QED
      BY <3>2 DEF x, y, Associate
  <2>9. QED
    BY <2>4, <2>6, <2>7, <2>8
<1>3. N = Nat
  <2> HIDE DEF N
  <2>1. N \subseteq Nat
    BY DEF N
  <2>2. QED
    BY <1>1, <1>2, <2>1, SetInduction
<1>4. Len(ss) - 1 \in Nat
  BY EmptySeq
<1>5. First(ss)
  <2>1. Len(ss) - 1 \in N /\ Len(ss) = (Len(ss) - 1) + 1
    <3> HIDE DEF N
    <3>1. QED
      BY <1>3, <1>4
  <2> HIDE DEF First
  <2>2. QED
    BY <2>1
<1>6. QED
  BY <1>5
=============================================================================

--------------------------- MODULE SequenceLemmas --------------------------
(***************************************************************************)
(* Lemmas on sequences for CodeGenProofs and GoServerProofs: induction,    *)
(* over a set instead of a predicate, and what FlattenSeq computes.        *)
(***************************************************************************)
EXTENDS SequencesExt, SequenceTheorems, WellFoundedInduction, TLAPS

\* A set that has 0 and with every number the next one has all of them, ...
LEMMA NatSetInduction ==
  ASSUME NEW S, 0 \in S, \A n \in Nat : n \in S => n + 1 \in S
  PROVE  Nat \subseteq S
<1> DEFINE Below == {p \in Nat \X Nat : p[1] < p[2]}
           Missing == {n \in Nat : n \notin S}
<1>1. IsWellFoundedOn(Below, Nat)
  BY NatLessThanWellFounded DEF OpToRel
<1> SUFFICES ASSUME Missing # {} PROVE FALSE
  OBVIOUS
<1>2. PICK m \in Missing : \A n \in Missing : <<n, m>> \notin Below
  BY <1>1, WFMin
<1>3. m \in Nat \ {0} /\ m \notin S
  BY <1>2
<1>4. m - 1 \in Nat /\ m - 1 < m /\ (m - 1) + 1 = m
  BY <1>3
<1>5. m - 1 \notin S
  BY <1>3, <1>4
<1>6. <<m - 1, m>> \in Below
  BY <1>3, <1>4
<1> QED
  BY <1>2, <1>4, <1>5, <1>6

\* ... and so with sequences and what can be appended.
LEMMA SeqSetInduction ==
  ASSUME NEW T, NEW P, <<>> \in P,
         \A s \in Seq(T), e \in T : s \in P => Append(s, e) \in P
  PROVE  Seq(T) \subseteq P
<1> DEFINE Lengths == {n \in Nat : \A s \in Seq(T) : Len(s) = n => s \in P}
<1>1. 0 \in Lengths
  BY EmptySeq
<1>2. ASSUME NEW n \in Nat, n \in Lengths PROVE n + 1 \in Lengths
  <2> SUFFICES ASSUME NEW s \in Seq(T), Len(s) = n + 1 PROVE s \in P
    OBVIOUS
  <2>1. s # <<>>
    BY EmptySeq
  <2>2. PICK t \in Seq(T), e \in T : s = Append(t, e)
    BY <2>1, SequenceEmptyOrAppend
  <2>3. Len(t) = n
    <3>1. Len(t) \in Nat /\ Len(s) = Len(t) + 1
      BY <2>2, AppendProperties, LenProperties
    <3> QED
      BY <3>1
  <2> QED
    BY <1>2, <2>2, <2>3
<1> HIDE DEF Lengths
<1>3. Nat \subseteq Lengths
  BY <1>1, <1>2, NatSetInduction
<1> QED
  BY <1>3, LenProperties DEF Lengths

-----------------------------------------------------------------------------
\* f adds up the sequences of seqs, from the first to the n-th.
AddsUp(f, seqs, n) ==
  f = [i \in 1..n |-> IF i = 1 THEN seqs[i] ELSE f[i - 1] \o seqs[i]]

LEMMA AddsUpAt ==
  ASSUME NEW seqs, NEW n \in Nat, NEW f, AddsUp(f, seqs, n), NEW k \in Nat, k + 1 \in 1..n
  PROVE  f[k + 1] = IF k = 0 THEN seqs[1] ELSE f[k] \o seqs[k + 1]
<1>1. (k + 1) - 1 = k /\ (k + 1 = 1 <=> k = 0)
  OBVIOUS
<1>2. f[k + 1] = IF k + 1 = 1 THEN seqs[k + 1] ELSE f[(k + 1) - 1] \o seqs[k + 1]
  BY Zenon DEF AddsUp
<1> QED
  BY <1>1, <1>2

LEMMA AddsUpExists ==
  ASSUME NEW T, NEW seqs \in Seq(Seq(T)), NEW n \in 0..Len(seqs)
  PROVE  \E f : AddsUp(f, seqs, n)
<1> DEFINE Good == {k \in Nat : k <= Len(seqs) => \E f : AddsUp(f, seqs, k)}
<1>1. 0 \in Good
  <2>1. AddsUp(<<>>, seqs, 0)
    BY DEF AddsUp
  <2> QED
    BY <2>1
<1>2. ASSUME NEW k \in Nat, k \in Good PROVE k + 1 \in Good
  <2> SUFFICES ASSUME k + 1 <= Len(seqs) PROVE \E f : AddsUp(f, seqs, k + 1)
    OBVIOUS
  <2>1. Len(seqs) \in Nat
    BY LenProperties
  <2>2. PICK f : AddsUp(f, seqs, k)
    BY <1>2, <2>1
  <2> DEFINE g == [i \in 1..(k + 1) |->
                     IF i = 1 THEN seqs[i]
                     ELSE IF i = k + 1 THEN f[k] \o seqs[i] ELSE f[i]]
  <2>3. ASSUME NEW i \in 1..k PROVE g[i] = f[i]
    <3>1. f[i] = IF i = 1 THEN seqs[i] ELSE f[i - 1] \o seqs[i]
      BY <2>2 DEF AddsUp
    <3> QED
      BY <3>1
  <2>4. ASSUME NEW i \in 1..(k + 1), i # 1 PROVE g[i] = g[i - 1] \o seqs[i]
    <3>1. i - 1 \in 1..k
      BY <2>4
    <3>2. g[i - 1] = f[i - 1]
      BY <3>1, <2>3
    <3>3. CASE i = k + 1
      <4>1. i - 1 = k
        BY <3>3
      <4> QED
        BY <3>2, <3>3, <2>4, <4>1
    <3>4. CASE i # k + 1
      <4>1. i \in 1..k
        BY <3>4
      <4>2. f[i] = f[i - 1] \o seqs[i]
        BY <2>2, <2>4, <4>1 DEF AddsUp
      <4> QED
        BY <4>1, <4>2, <3>2, <2>3
    <3> QED
      BY <3>3, <3>4
  <2>5. g = [i \in 1..(k + 1) |-> IF i = 1 THEN seqs[i] ELSE g[i - 1] \o seqs[i]]
    <3>1. g[1] = seqs[1]
      OBVIOUS
    <3> DEFINE h == [i \in 1..(k + 1) |-> IF i = 1 THEN seqs[i] ELSE g[i - 1] \o seqs[i]]
    <3>2. DOMAIN g = 1..(k + 1) /\ g = [i \in 1..(k + 1) |-> g[i]]
      OBVIOUS
    <3> HIDE DEF g
    <3>3. \A i \in 1..(k + 1) : g[i] = h[i]
      BY <3>1, <2>4
    <3> QED
      BY <3>2, <3>3
  <2> HIDE DEF g
  <2> QED
    BY <2>5 DEF AddsUp
<1> HIDE DEF Good
<1>3. Nat \subseteq Good
  BY <1>1, <1>2, NatSetInduction
<1> QED
  BY <1>3, LenProperties DEF Good

\* All of the sums are sequences, ...
LEMMA AddsUpType ==
  ASSUME NEW T, NEW seqs \in Seq(Seq(T)), NEW n \in 0..Len(seqs), NEW f,
         AddsUp(f, seqs, n), NEW i \in 1..n
  PROVE  f[i] \in Seq(T)
<1> DEFINE Good == {k \in Nat : k \in 1..n => f[k] \in Seq(T)}
<1>1. 0 \in Good
  OBVIOUS
<1>2. ASSUME NEW k \in Nat, k \in Good PROVE k + 1 \in Good
  <2> SUFFICES ASSUME k + 1 \in 1..n PROVE f[k + 1] \in Seq(T)
    OBVIOUS
  <2>1. Len(seqs) \in Nat /\ k + 1 \in 1..Len(seqs)
    BY LenProperties
  <2>2. seqs[k + 1] \in Seq(T)
    BY <2>1, ElementOfSeq
  <2>3. f[k + 1] = IF k = 0 THEN seqs[1] ELSE f[k] \o seqs[k + 1]
    BY <2>1, AddsUpAt
  <2>4. CASE k = 0
    BY <2>2, <2>3, <2>4
  <2>5. CASE k # 0
    <3>1. k \in 1..n
      BY <2>5
    <3>2. f[k] \in Seq(T)
      BY <1>2, <3>1
    <3> QED
      BY <2>2, <2>3, <2>5, <3>2, ConcatProperties
  <2> QED
    BY <2>4, <2>5
<1> HIDE DEF Good
<1>3. Nat \subseteq Good
  BY <1>1, <1>2, NatSetInduction
<1> QED
  BY <1>3 DEF Good

\* ... and depend on what has been added up only.
LEMMA AddsUpAgree ==
  ASSUME NEW n \in Nat, NEW s, NEW t, NEW f, NEW g, NEW m \in Nat, n <= m,
         AddsUp(f, s, n), AddsUp(g, t, m), \A i \in 1..n : s[i] = t[i]
  PROVE  \A i \in 1..n : f[i] = g[i]
<1> DEFINE Good == {k \in Nat : k \in 1..n => f[k] = g[k]}
<1>1. 0 \in Good
  OBVIOUS
<1>2. ASSUME NEW k \in Nat, k \in Good PROVE k + 1 \in Good
  <2> SUFFICES ASSUME k + 1 \in 1..n PROVE f[k + 1] = g[k + 1]
    OBVIOUS
  <2>1. k + 1 \in 1..m
    OBVIOUS
  <2>2. f[k + 1] = IF k = 0 THEN s[1] ELSE f[k] \o s[k + 1]
    BY AddsUpAt
  <2>3. g[k + 1] = IF k = 0 THEN t[1] ELSE g[k] \o t[k + 1]
    BY <2>1, AddsUpAt
  <2>4. CASE k = 0
    BY <2>2, <2>3, <2>4
  <2>5. CASE k # 0
    <3>1. k \in 1..n
      BY <2>5
    <3> QED
      BY <1>2, <2>2, <2>3, <2>5, <3>1
  <2> QED
    BY <2>4, <2>5
<1> HIDE DEF Good
<1>3. Nat \subseteq Good
  BY <1>1, <1>2, NatSetInduction
<1> QED
  BY <1>3 DEF Good

LEMMA FlattenAddsUp ==
  ASSUME NEW T, NEW seqs \in Seq(Seq(T)), seqs # <<>>
  PROVE  \E f : AddsUp(f, seqs, Len(seqs)) /\ FlattenSeq(seqs) = f[Len(seqs)]
<1>1. Len(seqs) \in Nat \ {0}
  BY EmptySeq
<1> DEFINE f == CHOOSE g : AddsUp(g, seqs, Len(seqs))
<1>2. AddsUp(f, seqs, Len(seqs))
  <2>1. \E g : AddsUp(g, seqs, Len(seqs))
    BY <1>1, AddsUpExists
  <2> QED
    BY <2>1
<1>3. FlattenSeq(seqs) = f[Len(seqs)]
  BY <1>1 DEF FlattenSeq, AddsUp
<1> QED
  BY <1>2, <1>3

LEMMA FlattenEmpty == FlattenSeq(<<>>) = <<>>
BY DEF FlattenSeq

\* The last sequence goes to the end.
LEMMA FlattenAppend ==
  ASSUME NEW T, NEW seqs \in Seq(Seq(T)), NEW last \in Seq(T)
  PROVE  /\ FlattenSeq(seqs) \in Seq(T)
         /\ FlattenSeq(Append(seqs, last)) = FlattenSeq(seqs) \o last
<1> DEFINE all == Append(seqs, last)
           n   == Len(seqs)
<1>1. /\ n \in Nat /\ all \in Seq(Seq(T)) /\ all # <<>> /\ Len(all) = n + 1
      /\ \A i \in 1..n : all[i] = seqs[i]
      /\ all[n + 1] = last
  BY AppendProperties, LenProperties
<1> HIDE DEF all
<1>2. PICK g : AddsUp(g, all, n + 1) /\ FlattenSeq(all) = g[n + 1]
  BY <1>1, FlattenAddsUp
<1>3. g[n + 1] = IF n = 0 THEN all[1] ELSE g[n] \o last
  BY <1>1, <1>2, AddsUpAt
<1>4. CASE n = 0
  <2>1. seqs = <<>>
    BY <1>4, EmptySeq
  <2>2. FlattenSeq(seqs) = <<>>
    BY <2>1, FlattenEmpty
  <2>3. g[n + 1] = last
    BY <1>1, <1>3, <1>4
  <2>4. <<>> \o last = last /\ <<>> \in Seq(T)
    BY ConcatEmptySeq, EmptySeq
  <2> QED
    BY <1>2, <2>2, <2>3, <2>4 DEF all
<1>5. CASE n # 0
  <2>1. seqs # <<>>
    BY <1>5, EmptySeq
  <2>2. PICK f : AddsUp(f, seqs, n) /\ FlattenSeq(seqs) = f[n]
    BY <2>1, FlattenAddsUp
  <2>3. n \in 1..n
    BY <1>1, <1>5
  <2>4. f[n] \in Seq(T)
    BY <1>1, <2>2, <2>3, AddsUpType
  <2>5. f[n] = g[n]
    <3>1. n + 1 \in Nat /\ n <= n + 1 /\ \A i \in 1..n : seqs[i] = all[i]
      BY <1>1
    <3>2. AddsUp(f, seqs, n) /\ AddsUp(g, all, n + 1) /\ n \in Nat
      BY <1>1, <1>2, <2>2
    <3>3. \A i \in 1..n : f[i] = g[i]
      <4> DEFINE m == n + 1
      <4>1. m \in Nat /\ n <= m /\ AddsUp(g, all, m)
        BY <3>1, <3>2
      <4> HIDE DEF m, n
      <4> QED
        BY <3>1, <3>2, <4>1, AddsUpAgree
    <3> QED
      BY <2>3, <3>3
  <2> QED
    BY <1>2, <1>3, <1>5, <2>2, <2>4, <2>5 DEF all
<1> QED
  BY <1>4, <1>5

LEMMA FlattenOne ==
  ASSUME NEW T, NEW s \in Seq(T)
  PROVE  FlattenSeq(<<s>>) = s
<1>1. <<>> \in Seq(Seq(T)) /\ Append(<<>>, s) = <<s>>
  BY EmptySeq
<1>2. FlattenSeq(Append(<<>>, s)) = <<>> \o s
  BY <1>1, FlattenAppend, FlattenEmpty
<1> QED
  BY <1>1, <1>2, ConcatEmptySeq

LEMMA FlattenConcat ==
  ASSUME NEW T, NEW s \in Seq(Seq(T)), NEW t \in Seq(Seq(T))
  PROVE  FlattenSeq(s \o t) = FlattenSeq(s) \o FlattenSeq(t)
<1> DEFINE Good == {u \in Seq(Seq(T)) : FlattenSeq(s \o u) = FlattenSeq(s) \o FlattenSeq(u)}
<1>1. <<>> \in Good
  BY FlattenEmpty, FlattenAppend, ConcatEmptySeq, EmptySeq
<1>2. ASSUME NEW u \in Seq(Seq(T)), NEW e \in Seq(T), u \in Good
      PROVE  Append(u, e) \in Good
  <2>1. s \o u \in Seq(Seq(T)) /\ Append(u, e) \in Seq(Seq(T))
    BY ConcatProperties, AppendProperties
  <2>2. s \o Append(u, e) = Append(s \o u, e)
    <3>1. Append(u, e) = u \o <<e>> /\ Append(s \o u, e) = (s \o u) \o <<e>>
      BY <2>1, AppendIsConcat
    <3>2. <<e>> \in Seq(Seq(T))
      OBVIOUS
    <3> QED
      BY <3>1, <3>2, ConcatAssociative
  <2>3. FlattenSeq(s \o Append(u, e)) = FlattenSeq(s \o u) \o e
    BY <2>1, <2>2, FlattenAppend
  <2>4. /\ FlattenSeq(s) \in Seq(T) /\ FlattenSeq(u) \in Seq(T)
        /\ FlattenSeq(Append(u, e)) = FlattenSeq(u) \o e
    BY FlattenAppend
  <2>5. (FlattenSeq(s) \o FlattenSeq(u)) \o e = FlattenSeq(s) \o (FlattenSeq(u) \o e)
    BY <2>4, ConcatAssociative
  <2> QED
    BY <1>2, <2>1, <2>3, <2>4, <2>5
<1> HIDE DEF Good
<1>3. Seq(Seq(T)) \subseteq Good
  BY <1>1, <1>2, SeqSetInduction
<1> QED
  BY <1>3 DEF Good

-----------------------------------------------------------------------------
\* A function applied to each element, ...  (Turns is a name for its type by
\* which the provers find T and U.)
Turns(h, T, U) == h \in [T -> U]

Each(h, s) == [i \in DOMAIN s |-> h[s[i]]]

LEMMA EachType ==
  ASSUME NEW T, NEW U, NEW h, Turns(h, T, U), NEW s \in Seq(T)
  PROVE  /\ Each(h, s) \in Seq(U) /\ Len(Each(h, s)) = Len(s)
         /\ DOMAIN Each(h, s) = DOMAIN s /\ DOMAIN s = 1..Len(s) /\ Len(s) \in Nat
         /\ \A i \in 1..Len(s) : Each(h, s)[i] = h[s[i]] /\ s[i] \in T
<1>1. DOMAIN s = 1..Len(s) /\ Len(s) \in Nat /\ \A i \in 1..Len(s) : s[i] \in T
  BY LenProperties, ElementOfSeq
<1> QED
  BY <1>1 DEF Each, Turns

\* ... of one sequence after the other.
LEMMA EachConcat ==
  ASSUME NEW T, NEW U, NEW h, Turns(h, T, U), NEW s \in Seq(T), NEW t \in Seq(T)
  PROVE  Each(h, s \o t) = Each(h, s) \o Each(h, t)
<1> DEFINE all == s \o t
           a == Each(h, s)
           b == Each(h, t)
           x == Each(h, all)
           y == a \o b
           n == Len(s)
           m == Len(t)
<1>1. /\ all \in Seq(T) /\ Len(all) = n + m
      /\ \A i \in 1..(n + m) : all[i] = IF i <= n THEN s[i] ELSE t[i - n]
      /\ n \in Nat /\ m \in Nat
  BY ConcatProperties, LenProperties
<1> HIDE DEF all
<1>2. /\ a \in Seq(U) /\ Len(a) = n /\ \A i \in 1..n : a[i] = h[s[i]]
      /\ b \in Seq(U) /\ Len(b) = m /\ \A i \in 1..m : b[i] = h[t[i]]
  BY EachType
<1>3. x \in Seq(U) /\ Len(x) = n + m /\ \A i \in 1..(n + m) : x[i] = h[all[i]]
  BY <1>1, EachType
<1> HIDE DEF a, b, x
<1>4. /\ y \in Seq(U) /\ Len(y) = n + m
      /\ \A i \in 1..(n + m) : y[i] = IF i <= n THEN a[i] ELSE b[i - n]
  <2>1. /\ y \in Seq(U) /\ Len(y) = Len(a) + Len(b)
        /\ \A i \in 1..(Len(a) + Len(b)) : y[i] = IF i <= Len(a) THEN a[i] ELSE b[i - Len(a)]
    BY <1>2, ConcatProperties
  <2> HIDE DEF y, n, m
  <2> QED
    BY <1>2, <2>1
<1> HIDE DEF y, n, m
<1>5. ASSUME NEW i \in 1..(n + m) PROVE x[i] = y[i]
  <2>1. CASE i <= n
    <3>1. i \in 1..n
      BY <1>1, <2>1
    <3>2. all[i] = s[i] /\ y[i] = a[i] /\ x[i] = h[all[i]]
      BY <1>1, <1>3, <1>4, <2>1
    <3>3. a[i] = h[s[i]]
      BY <1>2, <3>1
    <3> QED
      BY <3>2, <3>3
  <2>2. CASE ~(i <= n)
    <3>1. i - n \in 1..m
      BY <1>1, <2>2
    <3>2. all[i] = t[i - n] /\ y[i] = b[i - n] /\ x[i] = h[all[i]]
      BY <1>1, <1>3, <1>4, <2>2
    <3>3. b[i - n] = h[t[i - n]]
      BY <1>2, <3>1
    <3> QED
      BY <3>2, <3>3
  <2> QED
    BY <2>1, <2>2
<1>6. x = y
  BY <1>3, <1>4, <1>5, SeqEqual
<1> QED
  BY <1>6 DEF x, y, a, b, all

LEMMA SeqWider ==
  ASSUME NEW S, NEW T, S \subseteq T
  PROVE  Seq(S) \subseteq Seq(T)
BY SeqMonotonic

LEMMA OneElement ==
  ASSUME NEW S, NEW x \in S
  PROVE  <<x>> \in Seq(S)
OBVIOUS

LEMMA EachOne ==
  ASSUME NEW h, NEW e
  PROVE  Each(h, <<e>>) = <<h[e]>> /\ Each(h, <<>>) = <<>>
BY DEF Each

LEMMA EachAppend ==
  ASSUME NEW T, NEW U, NEW h, Turns(h, T, U), NEW s \in Seq(T), NEW e \in T
  PROVE  Each(h, Append(s, e)) = Append(Each(h, s), h[e])
<1> DEFINE one == <<e>>
           x == Each(h, s)
           v == h[e]
<1>1. one \in Seq(T) /\ x \in Seq(U) /\ v \in U /\ Each(h, one) = <<v>>
  BY EachType, EachOne DEF Turns
<1>2. Append(s, e) = s \o one
  BY AppendIsConcat
<1>3. Each(h, s \o one) = Each(h, s) \o Each(h, one)
  <2>1. one \in Seq(T)
    BY <1>1
  <2> HIDE DEF one
  <2> QED
    BY <2>1, EachConcat
<1> HIDE DEF one, x, v
<1>4. Append(x, v) = x \o <<v>>
  BY <1>1, AppendIsConcat
<1> QED
  BY <1>1, <1>2, <1>3, <1>4 DEF x, v

\* What each element is turned into, put together.
LEMMA FlattenEach ==
  ASSUME NEW T, NEW U, NEW h, Turns(h, T, Seq(U)), NEW s \in Seq(T), NEW t \in Seq(T)
  PROVE  FlattenSeq(Each(h, s \o t)) = FlattenSeq(Each(h, s)) \o FlattenSeq(Each(h, t))
<1> DEFINE x == Each(h, s)
           y == Each(h, t)
<1>1. x \in Seq(Seq(U)) /\ y \in Seq(Seq(U)) /\ Each(h, s \o t) = x \o y
  BY EachType, EachConcat
<1> HIDE DEF x, y
<1>2. FlattenSeq(x \o y) = FlattenSeq(x) \o FlattenSeq(y)
  BY <1>1, FlattenConcat
<1> QED
  BY <1>1, <1>2 DEF x, y

\* If each becomes itself, nothing changes.
LEMMA FlattenSame ==
  ASSUME NEW T, NEW h, Turns(h, T, Seq(T)), \A x \in T : h[x] = <<x>>, NEW s \in Seq(T)
  PROVE  FlattenSeq(Each(h, s)) = s
<1> DEFINE Good == {t \in Seq(T) : FlattenSeq(Each(h, t)) = t}
<1>1. <<>> \in Good
  BY EachOne, FlattenEmpty, EmptySeq
<1>2. ASSUME NEW t \in Seq(T), NEW e \in T, t \in Good PROVE Append(t, e) \in Good
  <2> DEFINE x == Each(h, t)
             v == <<e>>
  <2>1. x \in Seq(Seq(T)) /\ v \in Seq(T) /\ Each(h, Append(t, e)) = Append(x, v)
    <3>1. x \in Seq(Seq(T)) /\ v \in Seq(T) /\ h[e] = v
      BY EachType
    <3>2. Each(h, Append(t, e)) = Append(Each(h, t), h[e])
      BY EachAppend
    <3> QED
      BY <3>1, <3>2
  <2>2. Append(t, e) = t \o v /\ Append(t, e) \in Seq(T)
    BY AppendIsConcat, AppendProperties
  <2> HIDE DEF x, v
  <2>3. FlattenSeq(Append(x, v)) = FlattenSeq(x) \o v
    BY <2>1, FlattenAppend
  <2> QED
    BY <1>2, <2>1, <2>2, <2>3 DEF x
<1> HIDE DEF Good
<1>3. Seq(T) \subseteq Good
  BY <1>1, <1>2, SeqSetInduction
<1> QED
  BY <1>3 DEF Good

\* What respects concatenation may be done before or after.
Respects(h, T, U) ==
  /\ Turns(h, Seq(T), Seq(U))
  /\ h[<<>>] = <<>>
  /\ \A s, t \in Seq(T) : h[s \o t] = h[s] \o h[t]

LEMMA FlattenMapped ==
  ASSUME NEW T, NEW U, NEW h, Respects(h, T, U), NEW seqs \in Seq(Seq(T))
  PROVE  h[FlattenSeq(seqs)] = FlattenSeq(Each(h, seqs))
<1> DEFINE Good == {s \in Seq(Seq(T)) : h[FlattenSeq(s)] = FlattenSeq(Each(h, s))}
<1>1. <<>> \in Good
  BY EachOne, FlattenEmpty, EmptySeq DEF Respects
<1>2. ASSUME NEW s \in Seq(Seq(T)), NEW e \in Seq(T), s \in Good
      PROVE  Append(s, e) \in Good
  <2> DEFINE x == Each(h, s)
             v == h[e]
  <2>1. x \in Seq(Seq(U)) /\ v \in Seq(U) /\ Each(h, Append(s, e)) = Append(x, v)
    <3>1. Turns(h, Seq(T), Seq(U))
      BY DEF Respects
    <3>2. x \in Seq(Seq(U)) /\ Each(h, Append(s, e)) = Append(x, v)
      BY <3>1, EachType, EachAppend
    <3> QED
      BY <3>1, <3>2 DEF Turns
  <2>2. FlattenSeq(Append(s, e)) = FlattenSeq(s) \o e /\ FlattenSeq(s) \in Seq(T)
    BY FlattenAppend
  <2>3. h[FlattenSeq(Append(s, e))] = FlattenSeq(x) \o v
    BY <1>2, <2>2 DEF Respects
  <2>4. Append(s, e) \in Seq(Seq(T))
    BY AppendProperties
  <2> HIDE DEF x, v
  <2>5. FlattenSeq(Append(x, v)) = FlattenSeq(x) \o v
    BY <2>1, FlattenAppend
  <2> QED
    BY <2>1, <2>3, <2>4, <2>5
<1> HIDE DEF Good
<1>3. Seq(Seq(T)) \subseteq Good
  BY <1>1, <1>2, SeqSetInduction
<1> QED
  BY <1>3 DEF Good

-----------------------------------------------------------------------------
\* Where sequences put together end.
LEMMA LastOfConcat ==
  ASSUME NEW T, NEW s \in Seq(T), NEW t \in Seq(T)
  PROVE  /\ t = <<>> => s \o t = s
         /\ t # <<>> => s \o t # <<>> /\ Last(s \o t) = Last(t)
<1>1. CASE t = <<>>
  BY <1>1, ConcatEmptySeq
<1>2. CASE t # <<>>
  <2> DEFINE both == s \o t
  <2>1. /\ both \in Seq(T) /\ Len(both) = Len(s) + Len(t)
        /\ \A i \in 1..(Len(s) + Len(t)) :
             both[i] = IF i <= Len(s) THEN s[i] ELSE t[i - Len(s)]
    BY ConcatProperties
  <2>2. Len(s) \in Nat /\ Len(t) \in Nat \ {0}
    BY <1>2, LenProperties, EmptySeq
  <2> HIDE DEF both
  <2>3. Len(both) # 0 /\ ~(Len(both) <= Len(s)) /\ Len(both) - Len(s) = Len(t)
        /\ Len(both) \in 1..(Len(s) + Len(t))
    BY <2>1, <2>2
  <2>4. both # <<>>
    BY <2>3, EmptySeq
  <2>5. both[Len(both)] = t[Len(t)]
    BY <2>1, <2>3
  <2> QED
    BY <1>2, <2>4, <2>5 DEF both, Last
<1> QED
  BY <1>1, <1>2

LEMMA FlattenNothing ==
  ASSUME NEW T, NEW seqs \in Seq(Seq(T)), \A i \in DOMAIN seqs : seqs[i] = <<>>
  PROVE  FlattenSeq(seqs) = <<>>
<1> DEFINE Good == {s \in Seq(Seq(T)) :
                      (\A i \in DOMAIN s : s[i] = <<>>) => FlattenSeq(s) = <<>>}
<1>1. <<>> \in Good
  BY FlattenEmpty, EmptySeq
<1>2. ASSUME NEW s \in Seq(Seq(T)), NEW e \in Seq(T), s \in Good
      PROVE  Append(s, e) \in Good
  <2>1. /\ Append(s, e) \in Seq(Seq(T)) /\ DOMAIN Append(s, e) = 1..(Len(s) + 1)
        /\ \A i \in 1..Len(s) : Append(s, e)[i] = s[i]
        /\ Append(s, e)[Len(s) + 1] = e
        /\ Len(s) \in Nat /\ DOMAIN s = 1..Len(s)
    BY AppendProperties, LenProperties
  <2> SUFFICES ASSUME \A i \in DOMAIN Append(s, e) : Append(s, e)[i] = <<>>
               PROVE  FlattenSeq(Append(s, e)) = <<>>
    BY <2>1
  <2>2. e = <<>>
    <3>1. Len(s) + 1 \in DOMAIN Append(s, e)
      BY <2>1
    <3> QED
      BY <2>1, <3>1
  <2>3. \A i \in DOMAIN s : s[i] = <<>>
    BY <2>1
  <2>4. FlattenSeq(s) = <<>>
    BY <1>2, <2>3
  <2>5. FlattenSeq(Append(s, e)) = FlattenSeq(s) \o e
    BY FlattenAppend
  <2> QED
    BY <2>2, <2>4, <2>5, ConcatEmptySeq, EmptySeq
<1> HIDE DEF Good
<1>3. Seq(Seq(T)) \subseteq Good
  BY <1>1, <1>2, SeqSetInduction
<1> QED
  BY <1>3 DEF Good

\* The last part that is not empty is the end.
IsLastPart(seqs, i) ==
  i \in DOMAIN seqs /\ seqs[i] # <<>> /\ \A j \in DOMAIN seqs : j > i => seqs[j] = <<>>

LEMMA FlattenLast ==
  ASSUME NEW T, NEW seqs \in Seq(Seq(T)), NEW i, IsLastPart(seqs, i)
  PROVE  FlattenSeq(seqs) # <<>> /\ Last(FlattenSeq(seqs)) = Last(seqs[i])
<1> DEFINE EndsAt(s, k) == FlattenSeq(s) # <<>> /\ Last(FlattenSeq(s)) = Last(s[k])
           Good == {s \in Seq(Seq(T)) : \A k \in DOMAIN s : IsLastPart(s, k) => EndsAt(s, k)}
<1>1. <<>> \in Good
  BY EmptySeq
<1>2. ASSUME NEW s \in Seq(Seq(T)), NEW e \in Seq(T), s \in Good
      PROVE  Append(s, e) \in Good
  <2> DEFINE all == Append(s, e)
  <2>1. /\ all \in Seq(Seq(T)) /\ DOMAIN all = 1..(Len(s) + 1)
        /\ \A k \in 1..Len(s) : all[k] = s[k]
        /\ all[Len(s) + 1] = e
        /\ Len(s) \in Nat /\ DOMAIN s = 1..Len(s)
    BY AppendProperties, LenProperties
  <2>2. FlattenSeq(all) = FlattenSeq(s) \o e /\ FlattenSeq(s) \in Seq(T)
    BY FlattenAppend
  <2> HIDE DEF all
  <2> SUFFICES ASSUME NEW k \in DOMAIN all, IsLastPart(all, k) PROVE EndsAt(all, k)
    BY <2>1 DEF all
  <2>3. CASE k = Len(s) + 1
    <3>1. e # <<>> /\ all[k] = e
      BY <2>1, <2>3 DEF IsLastPart
    <3> QED
      BY <2>2, <3>1, LastOfConcat
  <2>4. CASE k # Len(s) + 1
    <3>1. k \in 1..Len(s) /\ Len(s) + 1 > k /\ Len(s) + 1 \in DOMAIN all
      <4>1. Len(s) \in Nat /\ DOMAIN all = 1..(Len(s) + 1)
        BY <2>1
      <4> QED
        BY <4>1, <2>4
    <3>2. e = <<>>
      BY <2>1, <3>1 DEF IsLastPart
    <3>3. \A j \in DOMAIN s : j \in DOMAIN all /\ all[j] = s[j]
      BY <2>1
    <3>4. IsLastPart(s, k) /\ all[k] = s[k]
      BY <2>1, <3>1, <3>3 DEF IsLastPart
    <3>5. EndsAt(s, k)
      BY <1>2, <3>4 DEF IsLastPart
    <3>6. FlattenSeq(all) = FlattenSeq(s)
      BY <2>2, <3>2, LastOfConcat
    <3> QED
      BY <3>4, <3>5, <3>6
  <2> QED
    BY <2>3, <2>4
<1> HIDE DEF Good
<1>3. Seq(Seq(T)) \subseteq Good
  BY <1>1, <1>2, SeqSetInduction
<1> QED
  BY <1>3 DEF Good, IsLastPart

\* A set of positions has a last one.
LEMMA LastPosition ==
  ASSUME NEW n \in Nat, NEW S \in SUBSET (1..n), S # {}
  PROVE  \E i \in S : \A j \in S : j <= i
<1> DEFINE Above == {k \in Nat : \A i \in S : i <= k}
           Good == {k \in Nat : k \in Above => \E i \in S : \A j \in S : j <= i}
<1>1. 0 \in Good
  <2>1. PICK i \in S : i \in 1..n
    OBVIOUS
  <2>2. 0 \notin Above
    BY <2>1
  <2> QED
    BY <2>2
<1>2. ASSUME NEW k \in Nat, k \in Good PROVE k + 1 \in Good
  <2>1. CASE k + 1 \in S
    BY <2>1
  <2>2. CASE k + 1 \notin S /\ k + 1 \in Above
    <3>1. \A i \in S : i \in Nat /\ i <= k + 1 /\ i # k + 1
      BY <2>2
    <3>2. k \in Above
      BY <3>1
    <3> QED
      BY <1>2, <3>2
  <2> QED
    BY <2>1, <2>2
<1>3. n \in Above
  OBVIOUS
<1> HIDE DEF Good
<1>4. Nat \subseteq Good
  BY <1>1, <1>2, NatSetInduction
<1> QED
  BY <1>3, <1>4 DEF Good

\* A sequence is its first element and the others.
LEMMA FirstAndRest ==
  ASSUME NEW T, NEW s \in Seq(T), s # <<>>
  PROVE  s[1] \in T /\ Tail(s) \in Seq(T) /\ s = <<s[1]>> \o Tail(s)
<1> DEFINE one == <<s[1]>>
           rest == Tail(s)
           both == one \o rest
<1>1. Len(s) \in Nat \ {0} /\ s[1] \in T
  BY EmptySeq, LenProperties, ElementOfSeq
<1>2. /\ rest \in Seq(T) /\ Len(rest) = Len(s) - 1
      /\ \A i \in 1..Len(rest) : rest[i] = s[i + 1]
  BY HeadTailProperties
<1>3. one \in Seq(T) /\ Len(one) = 1 /\ one[1] = s[1]
  BY <1>1
<1> HIDE DEF one, rest
<1>4. /\ both \in Seq(T) /\ Len(both) = Len(one) + Len(rest)
      /\ \A i \in 1..(Len(one) + Len(rest)) :
           both[i] = IF i <= Len(one) THEN one[i] ELSE rest[i - Len(one)]
  <2>1. one \in Seq(T) /\ rest \in Seq(T)
    BY <1>2, <1>3
  <2> QED
    BY <2>1, ConcatProperties
<1> HIDE DEF both
<1>5. Len(both) = Len(s)
  BY <1>1, <1>2, <1>3, <1>4
<1>6. ASSUME NEW i \in 1..Len(s) PROVE both[i] = s[i]
  <2>1. CASE i = 1
    BY <1>1, <1>2, <1>3, <1>4, <2>1
  <2>2. CASE i # 1
    <3>1. i - 1 \in 1..Len(rest) /\ (i - 1) + 1 = i /\ i \in 1..(Len(one) + Len(rest)) /\ ~(i <= Len(one))
      BY <1>1, <1>2, <1>3, <2>2
    <3>2. rest[i - 1] = s[i]
      BY <1>2, <3>1
    <3>3. both[i] = rest[i - 1]
      BY <1>3, <1>4, <3>1
    <3> QED
      BY <3>2, <3>3
  <2> QED
    BY <2>1, <2>2
<1>7. both = s
  BY <1>4, <1>5, <1>6, SeqEqual
<1> QED
  BY <1>1, <1>2, <1>7 DEF one, rest, both
=============================================================================

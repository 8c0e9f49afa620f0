----------------------------- MODULE ListProofs -----------------------------
(* Induction over the naturals from the library's theorem that they are    *)
(* well-founded, and what follows from it for the lists of the program.    *)
EXTENDS Lists, SequenceTheorems, WellFoundedInduction, TLAPS

\* A nonempty set of naturals has a least element.
LEMMA NatMin ==
  ASSUME NEW T, T \subseteq Nat, T # {}
  PROVE \E x \in T : \A y \in T : x <= y
<1> DEFINE R == {p \in Nat \X Nat : p[1] < p[2]}
<1>1. IsWellFoundedOn(R, Nat)
  <2>1. R = OpToRel(<, Nat)
    BY DEF OpToRel
  <2> QED BY <2>1, NatLessThanWellFounded
<1>2. PICK x \in T : \A y \in T : <<y, x>> \notin R
  <2> HIDE DEF R
  <2> QED BY <1>1, WFMin
<1>3. ASSUME NEW y \in T PROVE x <= y
  <2>1. x \in Nat /\ y \in Nat
    OBVIOUS
  <2>2. <<y, x>> \in Nat \X Nat /\ <<y, x>>[1] = y /\ <<y, x>>[2] = x
    BY <2>1
  <2> QED BY <1>2, <2>1, <2>2
<1> QED BY <1>3

\* Induction, for a property given as the set of the numbers that have it.
LEMMA Induction ==
  ASSUME NEW G, 0 \in G, \A n \in Nat : n \in G => n + 1 \in G
  PROVE  Nat \subseteq G
<1> SUFFICES ASSUME NEW k \in Nat \ G PROVE FALSE
  OBVIOUS
<1>1. PICK n \in Nat \ G : \A y \in Nat \ G : n <= y
  BY NatMin
<1>2. n # 0 /\ n - 1 \in Nat
  OBVIOUS
<1>3. n - 1 \in G
  BY <1>1, <1>2
<1> QED BY <1>2, <1>3

-----------------------------------------------------------------------------
\* The recursive function of Keep, up to the i-th element.
KeptUpTo(f, s, T, n) ==
  f = [i \in 0 .. n |-> IF i = 0 THEN <<>>
                        ELSE IF s[i] \in T THEN Append(f[i - 1], s[i]) ELSE f[i - 1]]

LEMMA KeepDefined ==
  ASSUME NEW s, NEW T, Len(s) \in Nat
  PROVE  \E f : KeptUpTo(f, s, T, Len(s)) /\ Keep(s, T) = f[Len(s)]
<1> DEFINE G == {n \in Nat : \E f : KeptUpTo(f, s, T, n)}
<1>1. 0 \in G
  <2>1. KeptUpTo([i \in 0 .. 0 |-> <<>>], s, T, 0)
    BY DEF KeptUpTo
  <2> QED BY <2>1
<1>2. ASSUME NEW n \in Nat, n \in G PROVE n + 1 \in G
  <2>1. PICK f : KeptUpTo(f, s, T, n)
    BY <1>2
  <2> DEFINE g == [i \in 0 .. n + 1 |->
                     IF i = n + 1 THEN IF s[i] \in T THEN Append(f[i - 1], s[i]) ELSE f[i - 1]
                                  ELSE f[i]]
  <2>2. ASSUME NEW i \in 0 .. n + 1
        PROVE  g[i] = IF i = 0 THEN <<>>
                      ELSE IF s[i] \in T THEN Append(g[i - 1], s[i]) ELSE g[i - 1]
    <3>1. CASE i = n + 1
      <4>1. i # 0 /\ n \in 0 .. n + 1 /\ n # n + 1 /\ i - 1 = n
        BY <3>1
      <4> QED BY <3>1, <4>1
    <3>2. CASE i \in 0 .. n
      <4>1. i # n + 1 /\ (i # 0 => i - 1 \in 0 .. n + 1 /\ i - 1 # n + 1)
        BY <3>2
      <4> QED BY <2>1, <3>2, <4>1 DEF KeptUpTo
    <3> QED BY <3>1, <3>2
  <2>3. KeptUpTo(g, s, T, n + 1)
    <3> HIDE DEF g
    <3>1. g = [i \in 0 .. n + 1 |-> g[i]]
      BY DEF g
    <3> QED BY <2>2, <3>1 DEF KeptUpTo
  <2> QED BY <2>3
<1>3. Nat \subseteq G
  <2> HIDE DEF G
  <2> QED BY <1>1, <1>2, Induction
<1>4. PICK f : KeptUpTo(f, s, T, Len(s))
  BY <1>3
<1> DEFINE h == CHOOSE h : h = [i \in 0 .. Len(s) |->
                  IF i = 0 THEN <<>>
                  ELSE IF s[i] \in T THEN Append(h[i - 1], s[i]) ELSE h[i - 1]]
<1>5. KeptUpTo(h, s, T, Len(s))
  BY <1>4 DEF KeptUpTo
<1>6. Keep(s, T) = h[Len(s)]
  BY DEF Keep
<1> HIDE DEF h
<1> QED BY <1>5, <1>6

\* What Keep returns is made of elements of s that are in T ...
LEMMA KeepType ==
  ASSUME NEW S, NEW s \in Seq(S), NEW T
  PROVE  Keep(s, T) \in Seq(S \cap T)
<1>1. PICK f : KeptUpTo(f, s, T, Len(s)) /\ Keep(s, T) = f[Len(s)]
  BY KeepDefined
<1> DEFINE G == {n \in Nat : n <= Len(s) => f[n] \in Seq(S \cap T)}
<1>2. 0 \in G
  BY <1>1 DEF KeptUpTo
<1>3. ASSUME NEW n \in Nat, n \in G PROVE n + 1 \in G
  <2> SUFFICES ASSUME n + 1 <= Len(s) PROVE f[n + 1] \in Seq(S \cap T)
    OBVIOUS
  <2>1. f[n] \in Seq(S \cap T) /\ s[n + 1] \in S
    BY <1>3
  <2>2. f[n + 1] = IF s[n + 1] \in T THEN Append(f[n], s[n + 1]) ELSE f[n]
    <3>1. n + 1 \in 0 .. Len(s) /\ n + 1 # 0 /\ (n + 1) - 1 = n
      OBVIOUS
    <3> QED BY <1>1, <3>1 DEF KeptUpTo
  <2> QED BY <2>1, <2>2
<1>4. Len(s) \in G
  <2> HIDE DEF G
  <2> QED BY <1>2, <1>3, Induction
<1> QED BY <1>1, <1>4

\* ... namely of all of them, in their order: h tells where each comes from.
KeepsOrder(t, s, T, h, n) ==
  /\ h \in [1 .. Len(t) -> 1 .. n]
  /\ \A i, j \in 1 .. Len(t) : i < j => h[i] < h[j]
  /\ \A i \in 1 .. Len(t) : t[i] = s[h[i]]
  /\ \A k \in 1 .. n : s[k] \in T => \E i \in 1 .. Len(t) : h[i] = k

LEMMA KeepOrder ==
  ASSUME NEW S, NEW s \in Seq(S), NEW T
  PROVE  \E h : KeepsOrder(Keep(s, T), s, T, h, Len(s))
<1>1. PICK f : KeptUpTo(f, s, T, Len(s)) /\ Keep(s, T) = f[Len(s)]
  BY KeepDefined
<1> DEFINE G == {n \in Nat : n <= Len(s) =>
                   f[n] \in Seq(S) /\ \E h : KeepsOrder(f[n], s, T, h, n)}
<1>2. 0 \in G
  <2>1. f[0] = <<>>
    BY <1>1 DEF KeptUpTo
  <2>2. KeepsOrder(<<>>, s, T, <<>>, 0)
    BY DEF KeepsOrder
  <2>3. f[0] \in Seq(S)
    BY <2>1
  <2>4. \E h : KeepsOrder(f[0], s, T, h, 0)
    BY <2>1, <2>2
  <2> QED BY <2>3, <2>4
<1>3. ASSUME NEW n \in Nat, n \in G PROVE n + 1 \in G
  <2> SUFFICES ASSUME n + 1 <= Len(s)
               PROVE  f[n + 1] \in Seq(S) /\ \E h : KeepsOrder(f[n + 1], s, T, h, n + 1)
    OBVIOUS
  <2>1. f[n] \in Seq(S) /\ s[n + 1] \in S /\ Len(f[n]) \in Nat
    BY <1>3
  <2>2. f[n + 1] = IF s[n + 1] \in T THEN Append(f[n], s[n + 1]) ELSE f[n]
    <3>1. n + 1 \in 0 .. Len(s) /\ n + 1 # 0 /\ (n + 1) - 1 = n
      OBVIOUS
    <3> QED BY <1>1, <3>1 DEF KeptUpTo
  <2>3. PICK h : KeepsOrder(f[n], s, T, h, n)
    BY <1>3
  <2>4. CASE s[n + 1] \notin T
    <3>1. KeepsOrder(f[n], s, T, h, n + 1)
      BY <2>1, <2>3, <2>4 DEF KeepsOrder
    <3> QED BY <2>1, <2>2, <2>4, <3>1
  <2>5. CASE s[n + 1] \in T
    <3> DEFINE l == Len(f[n])
               g == [i \in 1 .. l + 1 |-> IF i = l + 1 THEN n + 1 ELSE h[i]]
               t == Append(f[n], s[n + 1])
    <3>1. t \in Seq(S) /\ Len(t) = l + 1 /\ t[l + 1] = s[n + 1]
          /\ \A i \in 1 .. l : t[i] = f[n][i]
      BY <2>1
    <3>0. l \in Nat /\ \A i \in 1 .. l : h[i] \in 1 .. n
      BY <2>1, <2>3 DEF KeepsOrder
    <3>2. ASSUME NEW i \in 1 .. l
          PROVE  g[i] = h[i] /\ h[i] \in 1 .. n /\ h[i] < n + 1
      <4>1. h[i] \in 1 .. n
        BY <2>3 DEF KeepsOrder
      <4>2. i \in 1 .. l + 1 /\ i # l + 1
        BY <2>1
      <4> QED BY <4>1, <4>2
    <3>3. g[l + 1] = n + 1 /\ l + 1 \in 1 .. l + 1
      BY <2>1
    <3>4. g \in [1 .. l + 1 -> 1 .. n + 1]
      <4>1. ASSUME NEW i \in 1 .. l + 1
            PROVE  (IF i = l + 1 THEN n + 1 ELSE h[i]) \in 1 .. n + 1
        <5>1. CASE i = l + 1
          BY <5>1
        <5>2. CASE i \in 1 .. l
          <6>1. i # l + 1 /\ h[i] \in 1 .. n
            BY <3>0, <5>2
          <6> QED BY <6>1
        <5> QED BY <2>1, <5>1, <5>2
      <4> QED BY <4>1
    <3> HIDE DEF t, g
    <3>5. \A i, j \in 1 .. l + 1 : i < j => g[i] < g[j]
      <4> SUFFICES ASSUME NEW i \in 1 .. l + 1, NEW j \in 1 .. l + 1, i < j
                   PROVE  g[i] < g[j]
        OBVIOUS
      <4>1. i \in 1 .. l
        BY <2>1
      <4>2. CASE j = l + 1
        BY <3>2, <3>3, <4>1, <4>2
      <4>3. CASE j \in 1 .. l
        BY <2>3, <3>2, <4>1, <4>3 DEF KeepsOrder
      <4> QED BY <2>1, <4>2, <4>3
    <3>6. \A i \in 1 .. l + 1 : t[i] = s[g[i]]
      <4> SUFFICES ASSUME NEW i \in 1 .. l + 1 PROVE t[i] = s[g[i]]
        OBVIOUS
      <4>1. CASE i = l + 1
        BY <3>1, <3>3, <4>1
      <4>2. CASE i \in 1 .. l
        BY <2>3, <3>1, <3>2, <4>2 DEF KeepsOrder
      <4> QED BY <2>1, <4>1, <4>2
    <3>7. \A k \in 1 .. n + 1 : s[k] \in T => \E i \in 1 .. l + 1 : g[i] = k
      <4> SUFFICES ASSUME NEW k \in 1 .. n + 1, s[k] \in T
                   PROVE  \E i \in 1 .. l + 1 : g[i] = k
        OBVIOUS
      <4>1. CASE k = n + 1
        BY <3>3, <4>1
      <4>2. CASE k \in 1 .. n
        <5>1. PICK i \in 1 .. l : h[i] = k
          BY <2>3, <4>2 DEF KeepsOrder
        <5>2. i \in 1 .. l + 1
          BY <2>1
        <5> QED BY <3>2, <5>1, <5>2
      <4> QED BY <4>1, <4>2
    <3>8. KeepsOrder(t, s, T, g, n + 1)
      BY <3>1, <3>4, <3>5, <3>6, <3>7 DEF KeepsOrder
    <3> QED BY <2>2, <2>5, <3>1, <3>8 DEF t
  <2> QED BY <2>4, <2>5
<1>4. Len(s) \in G
  <2> HIDE DEF G
  <2> QED BY <1>2, <1>3, Induction
<1> QED BY <1>1, <1>4

\* A list of one element.
LEMMA KeepOne ==
  ASSUME NEW x, NEW T
  PROVE  Keep(<<x>>, T) = IF x \in T THEN <<x>> ELSE <<>>
<1> DEFINE s == <<x>>
<1>1. Len(s) = 1 /\ Len(s) \in Nat /\ s[1] = x /\ Append(<<>>, x) = s
  OBVIOUS
<1> HIDE DEF s
<1>2. PICK f : KeptUpTo(f, s, T, 1) /\ Keep(s, T) = f[1]
  BY <1>1, KeepDefined
<1>3. f[0] = <<>>
  BY <1>2 DEF KeptUpTo
<1>4. f[1] = IF s[1] \in T THEN Append(f[1 - 1], s[1]) ELSE f[1 - 1]
  <2>1. 1 \in 0 .. 1 /\ 1 # 0
    OBVIOUS
  <2> QED BY <1>2, <2>1 DEF KeptUpTo
<1>5. Keep(s, T) = IF x \in T THEN s ELSE <<>>
  <2>1. 1 - 1 = 0
    OBVIOUS
  <2> QED BY <2>1, <1>1, <1>2, <1>3, <1>4
<1> QED BY <1>5 DEF s

\* One element more behind the second of two sequences.  (With a name of its own
\* that the provers can match; so are those below.)
AppendsBehind(S) == \A s, t \in Seq(S), e \in S : Append(s \o t, e) = s \o Append(t, e)

LEMMA ConcatAppend == ASSUME NEW S PROVE AppendsBehind(S)
<1>1. ASSUME NEW s \in Seq(S), NEW t \in Seq(S), NEW e \in S
      PROVE  Append(s \o t, e) = s \o Append(t, e)
  OBVIOUS
<1> QED BY <1>1 DEF AppendsBehind

\* Keep of two sequences in a row.
KeepsBoth(S, T) == \A s, t \in Seq(S) : Keep(s \o t, T) = Keep(s, T) \o Keep(t, T)

LEMMA KeepConcat == ASSUME NEW S, NEW T PROVE KeepsBoth(S, T)
<1> SUFFICES ASSUME NEW s \in Seq(S), NEW t \in Seq(S)
             PROVE  Keep(s \o t, T) = Keep(s, T) \o Keep(t, T)
  BY DEF KeepsBoth
<1>0. \A x, y \in Seq(S), z \in S : Append(x \o y, z) = x \o Append(y, z)
  <2>1. AppendsBehind(S)
    BY ConcatAppend
  <2> QED BY <2>1 DEF AppendsBehind
<1> DEFINE l == Len(s)
           m == Len(t)
           st == s \o t
<1>1. l \in Nat /\ m \in Nat /\ st \in Seq(S) /\ Len(st) = l + m
      /\ (\A i \in 1 .. l : st[i] = s[i]) /\ (\A i \in 1 .. m : st[l + i] = t[i])
  BY ConcatProperties
<1>2. PICK f : KeptUpTo(f, st, T, l + m) /\ Keep(st, T) = f[l + m]
  <2>1. Len(st) \in Nat
    BY <1>1
  <2> HIDE DEF st
  <2> QED BY <1>1, <2>1, KeepDefined
<1>3. PICK g : KeptUpTo(g, s, T, l) /\ Keep(s, T) = g[l]
  BY <1>1, KeepDefined
<1>4. PICK h : KeptUpTo(h, t, T, m) /\ Keep(t, T) = h[m]
  BY <1>1, KeepDefined
<1> HIDE DEF st, l, m
<1> DEFINE G == {n \in Nat : n <= l => g[n] \in Seq(S) /\ f[n] = g[n]}
           J(n) == h[n] \in Seq(S) /\ f[l + n] = g[l] \o h[n]
           H == {n \in Nat : n <= m => J(n)}
<1> HIDE DEF J
<1>5. 0 \in G
  <2>1. f[0] = <<>> /\ g[0] = <<>>
    BY <1>1, <1>2, <1>3 DEF KeptUpTo
  <2>2. g[0] \in Seq(S)
    BY <2>1, EmptySeq
  <2> QED BY <2>1, <2>2
<1>6. ASSUME NEW n \in Nat, n \in G PROVE n + 1 \in G
  <2> SUFFICES ASSUME n + 1 <= l PROVE g[n + 1] \in Seq(S) /\ f[n + 1] = g[n + 1]
    OBVIOUS
  <2>1. n + 1 \in 0 .. l /\ n + 1 \in 0 .. l + m /\ n + 1 # 0 /\ (n + 1) - 1 = n
    BY <1>1
  <2>2. g[n + 1] = IF s[n + 1] \in T THEN Append(g[n], s[n + 1]) ELSE g[n]
    BY <1>3, <2>1 DEF KeptUpTo
  <2>3. f[n + 1] = IF st[n + 1] \in T THEN Append(f[n], st[n + 1]) ELSE f[n]
    BY <1>2, <2>1 DEF KeptUpTo
  <2>4. g[n] \in Seq(S) /\ f[n] = g[n] /\ st[n + 1] = s[n + 1] /\ s[n + 1] \in S
    BY <1>1, <1>6 DEF l
  <2> QED BY <2>2, <2>3, <2>4
<1>7. l \in G
  <2> HIDE DEF G
  <2> QED BY <1>1, <1>5, <1>6, Induction
<1>8. 0 \in H
  <2>1. h[0] = <<>>
    BY <1>1, <1>4 DEF KeptUpTo
  <2>2. g[l] \in Seq(S) /\ f[l] = g[l] /\ l + 0 = l
    BY <1>1, <1>7
  <2>3. g[l] \o h[0] = g[l] /\ h[0] \in Seq(S)
    BY <2>1, <2>2, ConcatEmptySeq, EmptySeq
  <2>4. J(0)
    BY <2>2, <2>3 DEF J
  <2> QED BY <2>4
<1>9. ASSUME NEW n \in Nat, n \in H PROVE n + 1 \in H
  <2> SUFFICES ASSUME n + 1 <= m PROVE J(n + 1)
    OBVIOUS
  <2>1. n + 1 \in 0 .. m /\ n + 1 # 0 /\ (n + 1) - 1 = n
    BY <1>1
  <2>2. h[n + 1] = IF t[n + 1] \in T THEN Append(h[n], t[n + 1]) ELSE h[n]
    BY <1>4, <2>1 DEF KeptUpTo
  <2>3. l + (n + 1) \in 0 .. l + m /\ l + (n + 1) # 0 /\ (l + (n + 1)) - 1 = l + n
    BY <1>1
  <2>4. f[l + (n + 1)] = IF st[l + (n + 1)] \in T THEN Append(f[l + n], st[l + (n + 1)])
                                                  ELSE f[l + n]
    BY <1>2, <2>3 DEF KeptUpTo
  <2>5. h[n] \in Seq(S) /\ f[l + n] = g[l] \o h[n] /\ g[l] \in Seq(S)
    <3>1. n <= m /\ g[l] \in Seq(S)
      BY <1>1, <1>7
    <3>2. J(n)
      BY <1>9, <3>1
    <3> QED BY <3>1, <3>2 DEF J
  <2>6. st[l + (n + 1)] = t[n + 1] /\ t[n + 1] \in S
    BY <1>1 DEF m
  <2>7. CASE t[n + 1] \in T
    <3>1. Append(h[n], t[n + 1]) \in Seq(S)
      BY <2>5, <2>6, AppendProperties
    <3>2. Append(g[l] \o h[n], t[n + 1]) = g[l] \o Append(h[n], t[n + 1])
      BY <1>0, <2>5, <2>6
    <3>3. h[n + 1] = Append(h[n], t[n + 1])
          /\ f[l + (n + 1)] = Append(g[l] \o h[n], t[n + 1])
      BY <2>2, <2>4, <2>5, <2>6, <2>7
    <3> QED BY <3>1, <3>2, <3>3 DEF J
  <2>8. CASE t[n + 1] \notin T
    <3>1. h[n + 1] = h[n] /\ f[l + (n + 1)] = f[l + n]
      BY <2>2, <2>4, <2>6, <2>8
    <3> QED BY <2>5, <3>1 DEF J
  <2> QED BY <2>7, <2>8
<1>10. m \in H
  <2> HIDE DEF H
  <2> QED BY <1>1, <1>8, <1>9, Induction
<1>11. f[l + m] = g[l] \o h[m]
  <2>1. J(m)
    BY <1>1, <1>10
  <2> QED BY <2>1 DEF J
<1> QED BY <1>2, <1>3, <1>4, <1>11 DEF st

\* A sequence with all its elements in T.
LEMMA KeepAll ==
  ASSUME NEW T, NEW s \in Seq(T)
  PROVE  Keep(s, T) = s
<1>1. PICK f : KeptUpTo(f, s, T, Len(s)) /\ Keep(s, T) = f[Len(s)]
  BY KeepDefined
<1> DEFINE G == {n \in Nat : n <= Len(s) => f[n] = SubSeq(s, 1, n)}
<1>2. 0 \in G
  <2>1. f[0] = <<>>
    BY <1>1 DEF KeptUpTo
  <2>2. SubSeq(s, 1, 0) = <<>>
    BY SubSeqEmpty
  <2> QED BY <2>1, <2>2
<1>3. ASSUME NEW n \in Nat, n \in G PROVE n + 1 \in G
  <2> SUFFICES ASSUME n + 1 <= Len(s) PROVE f[n + 1] = SubSeq(s, 1, n + 1)
    OBVIOUS
  <2>1. n + 1 \in 0 .. Len(s) /\ n + 1 # 0 /\ (n + 1) - 1 = n /\ s[n + 1] \in T
    OBVIOUS
  <2>2. f[n + 1] = IF s[n + 1] \in T THEN Append(f[n], s[n + 1]) ELSE f[n]
    BY <1>1, <2>1 DEF KeptUpTo
  <2>3. f[n] = SubSeq(s, 1, n)
    BY <1>3
  <2>4. SubSeq(s, 1, n + 1) = Append(SubSeq(s, 1, n), s[n + 1])
    BY <2>1
  <2> QED BY <2>1, <2>2, <2>3, <2>4
<1>4. Len(s) \in G
  <2> HIDE DEF G
  <2> QED BY <1>2, <1>3, Induction
<1> QED BY <1>1, <1>4, SubSeqFull

-----------------------------------------------------------------------------
\* The recursive function of Total, up to n.
TotalUpTo(f, w, n) == f = [i \in 0 .. n |-> IF i = 0 THEN 0 ELSE f[i - 1] + w[i]]

LEMMA TotalDefined ==
  ASSUME NEW w, NEW k \in Nat
  PROVE  \E f : TotalUpTo(f, w, k) /\ Total(w, k) = f[k]
<1> DEFINE G == {n \in Nat : \E f : TotalUpTo(f, w, n)}
<1>1. 0 \in G
  <2>1. TotalUpTo([i \in 0 .. 0 |-> 0], w, 0)
    BY DEF TotalUpTo
  <2> QED BY <2>1
<1>2. ASSUME NEW n \in Nat, n \in G PROVE n + 1 \in G
  <2>1. PICK f : TotalUpTo(f, w, n)
    BY <1>2
  <2> DEFINE g == [i \in 0 .. n + 1 |-> IF i = n + 1 THEN f[n] + w[i] ELSE f[i]]
  <2>2. ASSUME NEW i \in 0 .. n + 1
        PROVE  g[i] = IF i = 0 THEN 0 ELSE g[i - 1] + w[i]
    <3>1. CASE i = n + 1
      <4>1. i # 0 /\ n \in 0 .. n + 1 /\ n # n + 1 /\ i - 1 = n
        BY <3>1
      <4> QED BY <3>1, <4>1
    <3>2. CASE i \in 0 .. n
      <4>1. i # n + 1 /\ (i # 0 => i - 1 \in 0 .. n + 1 /\ i - 1 # n + 1)
        BY <3>2
      <4> QED BY <2>1, <3>2, <4>1 DEF TotalUpTo
    <3> QED BY <3>1, <3>2
  <2>3. TotalUpTo(g, w, n + 1)
    <3> HIDE DEF g
    <3>1. g = [i \in 0 .. n + 1 |-> g[i]]
      BY DEF g
    <3> QED BY <2>2, <3>1 DEF TotalUpTo
  <2> QED BY <2>3
<1>3. Nat \subseteq G
  <2> HIDE DEF G
  <2> QED BY <1>1, <1>2, Induction
<1>4. PICK f : TotalUpTo(f, w, k)
  BY <1>3
<1> DEFINE h == CHOOSE h : h = [i \in 0 .. k |-> IF i = 0 THEN 0 ELSE h[i - 1] + w[i]]
<1>5. TotalUpTo(h, w, k)
  BY <1>4 DEF TotalUpTo
<1>6. Total(w, k) = h[k]
  BY DEF Total
<1> HIDE DEF h
<1> QED BY <1>5, <1>6

\* Only the first k numbers count.
LEMMA TotalSame ==
  ASSUME NEW k \in Nat, NEW m \in Nat, NEW n \in Nat, k <= m, k <= n, NEW f, NEW g, NEW w, NEW v,
         TotalUpTo(f, w, m), TotalUpTo(g, v, n), \A i \in 1 .. k : w[i] = v[i]
  PROVE  f[k] = g[k]
<1> DEFINE G == {i \in Nat : i <= k => f[i] = g[i]}
<1>1. 0 \in G
  BY DEF TotalUpTo
<1>2. ASSUME NEW i \in Nat, i \in G PROVE i + 1 \in G
  <2> SUFFICES ASSUME i + 1 <= k PROVE f[i + 1] = g[i + 1]
    OBVIOUS
  <2>1. i + 1 \in 0 .. m /\ i + 1 \in 0 .. n /\ i + 1 # 0 /\ (i + 1) - 1 = i /\ i + 1 \in 1 .. k
    OBVIOUS
  <2>2. f[i + 1] = f[i] + w[i + 1] /\ g[i + 1] = g[i] + v[i + 1]
    BY <2>1 DEF TotalUpTo
  <2> QED BY <1>2, <2>1, <2>2
<1>3. k \in G
  <2> HIDE DEF G
  <2> QED BY <1>1, <1>2, Induction
<1> QED BY <1>3

\* One more number, and numbers that are the same.
LEMMA TotalNext ==
  ASSUME NEW n \in Nat, NEW w, NEW v, \A i \in 1 .. n : w[i] = v[i]
  PROVE  Total(w, n + 1) = Total(v, n) + w[n + 1]
<1>1. PICK f : TotalUpTo(f, w, n + 1) /\ Total(w, n + 1) = f[n + 1]
  BY TotalDefined
<1>2. PICK g : TotalUpTo(g, v, n) /\ Total(v, n) = g[n]
  BY TotalDefined
<1>3. f[n] = g[n]
  BY <1>1, <1>2, TotalSame
<1>4. f[n + 1] = f[n] + w[n + 1]
  <2>1. n + 1 \in 0 .. n + 1 /\ n + 1 # 0 /\ (n + 1) - 1 = n
    OBVIOUS
  <2> QED BY <1>1, <2>1 DEF TotalUpTo
<1> QED BY <1>1, <1>2, <1>3, <1>4

LEMMA TotalType ==
  ASSUME NEW n \in Nat, NEW w, \A i \in 1 .. n : w[i] \in Nat
  PROVE  Total(w, n) \in Nat
<1>1. PICK f : TotalUpTo(f, w, n) /\ Total(w, n) = f[n]
  BY TotalDefined
<1> DEFINE G == {i \in Nat : i <= n => f[i] \in Nat}
<1>2. 0 \in G
  BY <1>1 DEF TotalUpTo
<1>3. ASSUME NEW i \in Nat, i \in G PROVE i + 1 \in G
  <2> SUFFICES ASSUME i + 1 <= n PROVE f[i + 1] \in Nat
    OBVIOUS
  <2>1. i + 1 \in 0 .. n /\ i + 1 # 0 /\ (i + 1) - 1 = i /\ i + 1 \in 1 .. n
    OBVIOUS
  <2>2. f[i + 1] = f[i] + w[i + 1]
    BY <1>1, <2>1 DEF TotalUpTo
  <2> QED BY <1>3, <2>1, <2>2
<1>4. n \in G
  <2> HIDE DEF G
  <2> QED BY <1>2, <1>3, Induction
<1> QED BY <1>1, <1>4

-----------------------------------------------------------------------------
\* The recursive function of FlattenSeq, up to the n-th list.
FlatUpTo(f, ss, n) ==
  f = [i \in 1 .. n |-> IF i = 1 THEN ss[i] ELSE f[i - 1] \o ss[i]]

LEMMA FlattenDefined ==
  ASSUME NEW ss, Len(ss) \in Nat \ {0}
  PROVE  \E f : FlatUpTo(f, ss, Len(ss)) /\ FlattenSeq(ss) = f[Len(ss)]
<1> DEFINE G == {n \in Nat : \E f : FlatUpTo(f, ss, n)}
<1>1. 0 \in G
  <2>1. FlatUpTo([i \in 1 .. 0 |-> <<>>], ss, 0)
    BY DEF FlatUpTo
  <2> QED BY <2>1
<1>2. ASSUME NEW n \in Nat, n \in G PROVE n + 1 \in G
  <2>1. PICK f : FlatUpTo(f, ss, n)
    BY <1>2
  <2> DEFINE g == [i \in 1 .. n + 1 |->
                     IF i = n + 1 THEN IF i = 1 THEN ss[i] ELSE f[i - 1] \o ss[i] ELSE f[i]]
  <2>2. ASSUME NEW i \in 1 .. n + 1
        PROVE  g[i] = IF i = 1 THEN ss[i] ELSE g[i - 1] \o ss[i]
    <3>1. CASE i = n + 1
      <4>1. i # 1 => i - 1 = n /\ n \in 1 .. n + 1 /\ n # n + 1
        BY <3>1
      <4> QED BY <3>1, <4>1
    <3>2. CASE i \in 1 .. n
      <4>1. i # n + 1 /\ (i # 1 => i - 1 \in 1 .. n + 1 /\ i - 1 # n + 1)
        BY <3>2
      <4> QED BY <2>1, <3>2, <4>1 DEF FlatUpTo
    <3> QED BY <3>1, <3>2
  <2>3. FlatUpTo(g, ss, n + 1)
    <3> HIDE DEF g
    <3>1. g = [i \in 1 .. n + 1 |-> g[i]]
      BY DEF g
    <3> QED BY <2>2, <3>1 DEF FlatUpTo
  <2> QED BY <2>3
<1>3. Nat \subseteq G
  <2> HIDE DEF G
  <2> QED BY <1>1, <1>2, Induction
<1>4. PICK f : FlatUpTo(f, ss, Len(ss))
  BY <1>3
<1> DEFINE h == CHOOSE h : h = [i \in 1 .. Len(ss) |->
                  IF i = 1 THEN ss[i] ELSE h[i - 1] \o ss[i]]
<1>5. FlatUpTo(h, ss, Len(ss))
  BY <1>4 DEF FlatUpTo
<1>6. FlattenSeq(ss) = h[Len(ss)]
  BY DEF FlattenSeq
<1> HIDE DEF h
<1> QED BY <1>5, <1>6

\* The lists of ss one behind the other are made of their elements.
LEMMA FlattenType ==
  ASSUME NEW S, NEW ss \in Seq(Seq(S))
  PROVE  FlattenSeq(ss) \in Seq(S)
<1>1. CASE Len(ss) = 0
  BY <1>1 DEF FlattenSeq
<1>2. CASE Len(ss) # 0
  <2>0. Len(ss) \in Nat \ {0}
    BY <1>2
  <2>1. PICK f : FlatUpTo(f, ss, Len(ss)) /\ FlattenSeq(ss) = f[Len(ss)]
    BY <2>0, FlattenDefined
  <2> DEFINE G == {n \in Nat : n \in 1 .. Len(ss) => f[n] \in Seq(S)}
  <2>2. 0 \in G
    OBVIOUS
  <2>3. ASSUME NEW n \in Nat, n \in G PROVE n + 1 \in G
    <3> SUFFICES ASSUME n + 1 <= Len(ss) PROVE f[n + 1] \in Seq(S)
      OBVIOUS
    <3>1. n + 1 \in 1 .. Len(ss) /\ (n + 1) - 1 = n /\ ss[n + 1] \in Seq(S)
      OBVIOUS
    <3>2. f[n + 1] = IF n + 1 = 1 THEN ss[n + 1] ELSE f[n] \o ss[n + 1]
      BY <2>1, <3>1 DEF FlatUpTo
    <3>3. n # 0 => f[n] \in Seq(S)
      BY <2>3
    <3> QED BY <3>1, <3>2, <3>3
  <2>4. Len(ss) \in G
    <3> HIDE DEF G
    <3> QED BY <2>2, <2>3, Induction
  <2> QED BY <2>0, <2>1, <2>4
<1> QED BY <1>1, <1>2

\* One list.
LEMMA FlattenOne ==
  ASSUME NEW s
  PROVE  FlattenSeq(<<s>>) = s
<1>1. Len(<<s>>) = 1 /\ <<s>>[1] = s
  OBVIOUS
<1>2. PICK f : FlatUpTo(f, <<s>>, 1) /\ FlattenSeq(<<s>>) = f[1]
  <2>1. Len(<<s>>) \in Nat \ {0}
    BY <1>1
  <2>2. \E f : FlatUpTo(f, <<s>>, Len(<<s>>)) /\ FlattenSeq(<<s>>) = f[Len(<<s>>)]
    BY <2>1, FlattenDefined
  <2> QED BY <1>1, <2>2
<1> QED BY <1>1, <1>2 DEF FlatUpTo

-----------------------------------------------------------------------------
(* What the provers do not see at once of sequences.                       *)

\* One element more, behind n of them.
AppendsTo(S, s, e, n) ==
  /\ Append(s, e) \in Seq(S) /\ Len(Append(s, e)) = n + 1 /\ DOMAIN Append(s, e) = 1 .. n + 1
  /\ Append(s, e)[n + 1] = e /\ \A i \in 1 .. n : Append(s, e)[i] = s[i]

LEMMA AppendTo ==
  ASSUME NEW S, NEW s \in Seq(S), NEW e \in S, NEW n \in Nat, Len(s) = n
  PROVE  AppendsTo(S, s, e, n)
<1>1. Append(s, e) \in Seq(S)
  OBVIOUS
<1>2. Len(Append(s, e)) = n + 1
  OBVIOUS
<1>3. DOMAIN Append(s, e) = 1 .. n + 1
  OBVIOUS
<1>4. Append(s, e)[n + 1] = e
  OBVIOUS
<1>5. \A i \in 1 .. n : Append(s, e)[i] = s[i]
  OBVIOUS
<1> QED BY <1>1, <1>2, <1>3, <1>4, <1>5 DEF AppendsTo

\* A part of n elements behind the first b, cut behind r of them.
CutsAt(S, s, b, n, r) ==
  /\ SubSeq(s, b + 1, b + r) \in Seq(S) /\ Len(SubSeq(s, b + 1, b + r)) = r
  /\ SubSeq(s, b + r + 1, b + n) \in Seq(S) /\ Len(SubSeq(s, b + r + 1, b + n)) = n - r
  /\ SubSeq(s, b + 1, b + r) \o SubSeq(s, b + r + 1, b + n) = SubSeq(s, b + 1, b + n)

LEMMA SliceCut ==
  ASSUME NEW S, NEW s \in Seq(S), NEW b \in Nat, NEW n \in Nat, b + n <= Len(s), NEW r \in 0 .. n
  PROVE  CutsAt(S, s, b, n, r)
<1>1. SubSeq(s, b + 1, b + r) \in Seq(S) /\ Len(SubSeq(s, b + 1, b + r)) = r
  <2>1. \A i \in b + 1 .. b + r : s[i] \in S
    BY ElementOfSeq
  <2> QED BY <2>1, SubSeqProperties
<1>2. SubSeq(s, b + r + 1, b + n) \in Seq(S) /\ Len(SubSeq(s, b + r + 1, b + n)) = n - r
  <2>1. \A i \in b + r + 1 .. b + n : s[i] \in S
    BY ElementOfSeq
  <2> QED BY <2>1, SubSeqProperties
<1>3. SubSeq(s, b + 1, b + r) \o SubSeq(s, b + r + 1, b + n) = SubSeq(s, b + 1, b + n)
  <2>1. b + 1 \in 1 .. Len(s) + 1 /\ b + r \in (b + 1) - 1 .. Len(s) /\ b + n \in b + r .. Len(s)
    OBVIOUS
  <2> QED BY <2>1, ConcatAdjacentSubSeq
<1> QED BY <1>1, <1>2, <1>3 DEF CutsAt

LEMMA AboveOne == \A n \in Nat \ {0} : n # 1 => n > 1 /\ n - 1 \in Nat \ {0}
OBVIOUS

\* A sequence that is not empty.
LEMMA NonEmptySeq ==
  ASSUME NEW S, NEW s \in Seq(S), s # <<>>
  PROVE  /\ Len(s) \in Nat \ {0} /\ 1 \in DOMAIN s /\ s[1] \in S
         /\ Tail(s) \in Seq(S) /\ Len(Tail(s)) = Len(s) - 1
         /\ \A i \in 1 .. Len(s) - 1 : Tail(s)[i] = s[i + 1]
<1>1. Len(s) \in Nat /\ DOMAIN s = 1 .. Len(s)
  OBVIOUS
<1>2. Len(s) # 0
  OBVIOUS
<1>3. Tail(s) \in Seq(S) /\ Len(Tail(s)) = Len(s) - 1
  BY <1>1, <1>2
<1>4. \A i \in 1 .. Len(s) - 1 : Tail(s)[i] = s[i + 1]
  BY <1>1, <1>2
<1> QED BY <1>1, <1>2, <1>3, <1>4
=============================================================================

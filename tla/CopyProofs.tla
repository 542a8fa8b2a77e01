------------------------------ MODULE CopyProofs ------------------------------
(***************************************************************************)
(* Proofs about Copy, for any contexts, images and COPY instructions.      *)
(***************************************************************************)
EXTENDS Copy, SequenceTheorems, WellFoundedInduction, TLAPS

-----------------------------------------------------------------------------
(* Paths *)

LEMMA PrefixIs ==
  ASSUME NEW N, NEW s \in Seq(N), NEW t \in Seq(N)
  PROVE  IsPrefix(s, t) <=> Len(s) <= Len(t) /\ \A i \in 1 .. Len(s) : s[i] = t[i]
  <1>1. Len(s) \in Nat /\ Len(t) \in Nat
    BY LenProperties
  <1>2. CASE Len(s) <= Len(t)
    <2>1. SubSeq(s, 1, Len(s)) = [i \in 1 .. Len(s) |-> s[i]]
      BY <1>1
    <2>2. SubSeq(t, 1, Len(s)) = [i \in 1 .. Len(s) |-> t[i]]
      BY <1>1, <1>2
    <2> QED
      BY <1>2, <2>1, <2>2 DEF IsPrefix
  <1> QED
    BY <1>1, <1>2 DEF IsPrefix

LEMMA PrefixOrder ==
  ASSUME NEW N, NEW s \in Seq(N), NEW t \in Seq(N)
  PROVE  /\ IsPrefix(s, s)
         /\ IsPrefix(s, t) /\ IsPrefix(t, s) => s = t
         /\ \A u \in Seq(N) : IsPrefix(s, t) /\ IsPrefix(t, u) => IsPrefix(s, u)
         /\ IsPrefix(s, t) => Len(s) <= Len(t) /\ (Len(s) = Len(t) => s = t)
  <1>1. Len(s) \in Nat /\ Len(t) \in Nat
    BY LenProperties
  <1>2. IsPrefix(s, s)
    BY PrefixIs, <1>1
  <1>3. ASSUME IsPrefix(s, t), Len(s) = Len(t) PROVE s = t
    <2>1. \A i \in 1 .. Len(s) : s[i] = t[i]
      BY <1>3, PrefixIs
    <2> QED
      BY <2>1, <1>3, SeqEqual
  <1>4. IsPrefix(s, t) => Len(s) <= Len(t)
    BY DEF IsPrefix
  <1>5. IsPrefix(s, t) /\ IsPrefix(t, s) => s = t
    BY <1>3, <1>1 DEF IsPrefix
  <1>6. ASSUME NEW u \in Seq(N), IsPrefix(s, t), IsPrefix(t, u) PROVE IsPrefix(s, u)
    <2>1. Len(s) <= Len(t) /\ \A i \in 1 .. Len(s) : s[i] = t[i]
      BY <1>6, PrefixIs
    <2>2. Len(t) <= Len(u) /\ \A i \in 1 .. Len(t) : t[i] = u[i]
      BY <1>6, PrefixIs
    <2>3. Len(u) \in Nat
      BY LenProperties
    <2>4. Len(s) <= Len(u) /\ \A i \in 1 .. Len(s) : s[i] = u[i]
      BY <2>1, <2>2, <2>3, <1>1
    <2> QED
      BY <2>4, PrefixIs
  <1> QED
    BY <1>2, <1>3, <1>4, <1>5, <1>6

LEMMA RootPrefix ==
  ASSUME NEW N, NEW p \in Seq(N)
  PROVE  << >> \in Seq(N) /\ IsPrefix(<< >>, p)
  <1>1. Len(p) \in Nat
    BY LenProperties
  <1>2. << >> \in Seq(N) /\ Len(<< >>) = 0
    BY EmptySeq
  <1> DEFINE e == << >>
  <1>3. e \in Seq(N) /\ Len(e) <= Len(p) /\ \A i \in 1 .. Len(e) : e[i] = p[i]
    BY <1>1, <1>2
  <1> HIDE DEF e
  <1>4. IsPrefix(e, p)
    BY <1>3, PrefixIs
  <1> QED
    BY <1>2, <1>4 DEF e

LEMMA FrontIs ==
  ASSUME NEW N, NEW p \in Seq(N), p # << >>
  PROVE  /\ Front(p) \in Seq(N) /\ Len(Front(p)) = Len(p) - 1 /\ Len(p) \in Nat /\ Len(p) > 0
         /\ \A i \in 1 .. Len(p) - 1 : Front(p)[i] = p[i]
         /\ IsPrefix(Front(p), p) /\ Front(p) # p
         /\ Last(p) \in N
  <1>1. Len(p) \in Nat /\ Len(p) > 0
    BY LenProperties, EmptySeq
  <1>2. Front(p) = [i \in 1 .. Len(p) - 1 |-> p[i]]
    BY <1>1 DEF Front
  <1>3. Front(p) \in Seq(N) /\ Len(Front(p)) = Len(p) - 1
    <2>1. \A i \in 1 .. Len(p) - 1 : p[i] \in N
      BY <1>1, LenProperties
    <2>2. Len(p) - 1 \in Nat
      BY <1>1
    <2> QED
      BY <1>2, <2>1, <2>2, SeqDef, LenProperties
  <1>4. \A i \in 1 .. Len(p) - 1 : Front(p)[i] = p[i]
    BY <1>2
  <1>5. IsPrefix(Front(p), p)
    BY <1>1, <1>3, <1>4, PrefixIs
  <1>6. Front(p) # p
    BY <1>1, <1>3
  <1>7. Last(p) \in N
    BY <1>1, LenProperties DEF Last
  <1> QED
    BY <1>1, <1>3, <1>4, <1>5, <1>6, <1>7

LEMMA PrefixFront ==
  ASSUME NEW N, NEW p \in Seq(N), NEW q \in Seq(N), IsPrefix(q, p), q # p
  PROVE  p # << >> /\ IsPrefix(q, Front(p))
  <1>1. Len(p) \in Nat /\ Len(q) \in Nat
    BY LenProperties
  <1>2. Len(q) <= Len(p) /\ \A i \in 1 .. Len(q) : q[i] = p[i]
    BY PrefixIs
  <1>3. Len(q) # Len(p)
    BY PrefixOrder
  <1>4. p # << >>
    BY <1>1, <1>2, <1>3, EmptySeq
  <1>5. Len(Front(p)) = Len(p) - 1 /\ Front(p) \in Seq(N)
        /\ \A i \in 1 .. Len(p) - 1 : Front(p)[i] = p[i]
    BY <1>4, FrontIs
  <1>6. Len(q) <= Len(Front(p)) /\ \A i \in 1 .. Len(q) : q[i] = Front(p)[i]
    BY <1>1, <1>2, <1>3, <1>5
  <1> QED
    BY <1>4, <1>5, <1>6, PrefixIs
\* m is x with b in place of its prefix a.
IsMoved(N, x, a, b, m) ==
  /\ m \in Seq(N) /\ Len(m) = Len(b) + (Len(x) - Len(a))
  /\ \A i \in 1 .. Len(b) : m[i] = b[i]
  /\ \A i \in 1 .. Len(x) - Len(a) : m[Len(b) + i] = x[Len(a) + i]

LEMMA MovedIs ==
  ASSUME NEW N, NEW a \in Seq(N), NEW b \in Seq(N), NEW x \in Seq(N), IsPrefix(a, x)
  PROVE  IsMoved(N, x, a, b, Moved(x, a, b))
  <1> DEFINE w == SubSeq(x, Len(a) + 1, Len(x))
             m == b \o w
  <1>1. Len(a) \in Nat /\ Len(b) \in Nat /\ Len(x) \in Nat /\ Len(a) <= Len(x)
    BY LenProperties DEF IsPrefix
  <1>2. \A i \in Len(a) + 1 .. Len(x) : x[i] \in N
    BY <1>1, LenProperties
  <1>3. w \in Seq(N) /\ Len(w) = Len(x) - Len(a)
    BY <1>1, <1>2, SubSeqProperties
  <1>4. \A i \in 1 .. Len(x) - Len(a) : w[i] = x[Len(a) + i]
    BY <1>1, <1>2, SubSeqProperties
  <1> HIDE DEF w
  <1>5. m \in Seq(N) /\ Len(m) = Len(b) + Len(w)
    BY <1>3, ConcatProperties
  <1>6. \A i \in 1 .. Len(b) + Len(w) : m[i] = IF i <= Len(b) THEN b[i] ELSE w[i - Len(b)]
    BY <1>3, ConcatProperties
  <1>7. Moved(x, a, b) = m
    BY DEF Moved, m, w
  <1> HIDE DEF m
  <1>8. ASSUME NEW i \in 1 .. Len(b) PROVE m[i] = b[i]
    <2>1. i \in 1 .. Len(b) + Len(w) /\ i <= Len(b)
      BY <1>1, <1>3
    <2> QED
      BY <2>1, <1>6
  <1>9. ASSUME NEW i \in 1 .. Len(x) - Len(a) PROVE m[Len(b) + i] = x[Len(a) + i]
    <2>1. Len(b) + i \in 1 .. Len(b) + Len(w) /\ ~(Len(b) + i <= Len(b))
      BY <1>1, <1>3
    <2>2. (Len(b) + i) - Len(b) = i
      BY <1>1
    <2>3. m[Len(b) + i] = w[(Len(b) + i) - Len(b)]
      BY <2>1, <1>6
    <2> QED
      BY <2>2, <2>3, <1>4
  <1> QED
    BY <1>3, <1>5, <1>7, <1>8, <1>9 DEF IsMoved

LEMMA MovedBack ==
  ASSUME NEW N, NEW a \in Seq(N), NEW b \in Seq(N), NEW x \in Seq(N), IsPrefix(a, x)
  PROVE  IsPrefix(b, Moved(x, a, b)) /\ Moved(Moved(x, a, b), b, a) = x
  <1> DEFINE m == Moved(x, a, b)
             z == Moved(m, b, a)
  <1>1. Len(a) \in Nat /\ Len(b) \in Nat /\ Len(x) \in Nat /\ Len(a) <= Len(x)
    BY LenProperties DEF IsPrefix
  <1>2. IsMoved(N, x, a, b, m)
    BY MovedIs
  <1> HIDE DEF m
  <1>3. IsPrefix(b, m)
    BY <1>1, <1>2, PrefixIs DEF IsMoved
  <1>4. IsMoved(N, m, b, a, z)
    <2>1. m \in Seq(N)
      BY <1>2 DEF IsMoved
    <2> QED
      BY <2>1, <1>3, MovedIs
  <1> HIDE DEF z
  <1> USE DEF IsMoved
  <1>5. \A i \in 1 .. Len(a) : a[i] = x[i]
    BY PrefixIs
  <1>6. Len(z) = Len(x)
    BY <1>1, <1>2, <1>4
  <1>7. ASSUME NEW i \in 1 .. Len(z) PROVE z[i] = x[i]
    <2>1. CASE i <= Len(a)
      BY <2>1, <1>1, <1>4, <1>5, <1>7
    <2>2. CASE i > Len(a)
      <3>1. i - Len(a) \in 1 .. Len(x) - Len(a) /\ i = Len(a) + (i - Len(a))
        BY <2>2, <1>1, <1>6, <1>7
      <3>2. z[Len(a) + (i - Len(a))] = x[Len(a) + (i - Len(a))]
        <4>1. z[Len(a) + (i - Len(a))] = m[Len(b) + (i - Len(a))]
          <5>1. i - Len(a) \in 1 .. Len(m) - Len(b)
            BY <3>1, <1>1, <1>2
          <5> QED
            BY <5>1, <1>4
        <4>2. m[Len(b) + (i - Len(a))] = x[Len(a) + (i - Len(a))]
          BY <3>1, <1>2
        <4> QED
          BY <4>1, <4>2
      <3> QED
        BY <3>1, <3>2
    <2> QED
      BY <2>1, <2>2, <1>1
  <1>8. z = x
    BY <1>4, <1>6, <1>7, SeqEqual
  <1> QED
    BY <1>3, <1>8 DEF z, m

LEMMA MovedOrder ==
  ASSUME NEW N, NEW a \in Seq(N), NEW b \in Seq(N), NEW x \in Seq(N), NEW y \in Seq(N),
         IsPrefix(a, x), IsPrefix(a, y)
  PROVE  IsPrefix(Moved(x, a, b), Moved(y, a, b)) <=> IsPrefix(x, y)
  <1> DEFINE m == Moved(x, a, b)
             k == Moved(y, a, b)
  <1>1. /\ Len(a) \in Nat /\ Len(b) \in Nat /\ Len(x) \in Nat /\ Len(y) \in Nat
        /\ Len(a) <= Len(x) /\ Len(a) <= Len(y)
    BY LenProperties DEF IsPrefix
  <1>2. IsMoved(N, x, a, b, m)
    BY MovedIs
  <1>3. IsMoved(N, y, a, b, k)
    BY MovedIs
  <1> HIDE DEF m, k
  <1> USE DEF IsMoved
  <1>4. \A i \in 1 .. Len(a) : a[i] = x[i] /\ a[i] = y[i]
    BY PrefixIs
  <1>5. ASSUME IsPrefix(x, y) PROVE IsPrefix(m, k)
    <2>1. Len(x) <= Len(y) /\ \A i \in 1 .. Len(x) : x[i] = y[i]
      BY <1>5, PrefixIs
    <2>2. Len(m) <= Len(k)
      BY <2>1, <1>1, <1>2, <1>3
    <2>3. ASSUME NEW i \in 1 .. Len(m) PROVE m[i] = k[i]
      <3>1. CASE i <= Len(b)
        BY <3>1, <1>1, <1>2, <1>3, <2>3
      <3>2. CASE i > Len(b)
        <4>1. /\ i - Len(b) \in 1 .. Len(x) - Len(a) /\ i = Len(b) + (i - Len(b))
              /\ i - Len(b) \in 1 .. Len(y) - Len(a) /\ Len(a) + (i - Len(b)) \in 1 .. Len(x)
          BY <3>2, <1>1, <1>2, <2>1, <2>3
        <4>2. m[Len(b) + (i - Len(b))] = x[Len(a) + (i - Len(b))]
          BY <4>1, <1>2
        <4>3. k[Len(b) + (i - Len(b))] = y[Len(a) + (i - Len(b))]
          BY <4>1, <1>3
        <4> QED
          BY <4>1, <4>2, <4>3, <2>1
      <3> QED
        BY <3>1, <3>2, <1>1
    <2> QED
      BY <2>2, <2>3, <1>2, <1>3, PrefixIs
  <1>6. ASSUME IsPrefix(m, k) PROVE IsPrefix(x, y)
    <2>1. Len(m) <= Len(k) /\ \A i \in 1 .. Len(m) : m[i] = k[i]
      BY <1>6, <1>2, <1>3, PrefixIs
    <2>2. Len(x) <= Len(y)
      BY <2>1, <1>1, <1>2, <1>3
    <2>3. ASSUME NEW i \in 1 .. Len(x) PROVE x[i] = y[i]
      <3>1. CASE i <= Len(a)
        BY <3>1, <1>1, <1>4, <2>3
      <3>2. CASE i > Len(a)
        <4>1. /\ i - Len(a) \in 1 .. Len(x) - Len(a) /\ i = Len(a) + (i - Len(a))
              /\ i - Len(a) \in 1 .. Len(y) - Len(a) /\ Len(b) + (i - Len(a)) \in 1 .. Len(m)
          BY <3>2, <1>1, <1>2, <2>2, <2>3
        <4>2. m[Len(b) + (i - Len(a))] = x[Len(a) + (i - Len(a))]
          BY <4>1, <1>2
        <4>3. k[Len(b) + (i - Len(a))] = y[Len(a) + (i - Len(a))]
          BY <4>1, <1>3
        <4> QED
          BY <4>1, <4>2, <4>3, <2>1
      <3> QED
        BY <3>1, <3>2, <1>1
    <2> QED
      BY <2>2, <2>3, PrefixIs
  <1> QED
    BY <1>5, <1>6 DEF m, k

LEMMA MovedFront ==
  ASSUME NEW N, NEW a \in Seq(N), NEW b \in Seq(N), NEW x \in Seq(N), IsPrefix(a, x), x # a
  PROVE  /\ x # << >> /\ IsPrefix(a, Front(x))
         /\ Moved(x, a, b) # << >> /\ Moved(x, a, b) # b
         /\ Front(Moved(x, a, b)) = Moved(Front(x), a, b)
  <1> DEFINE m == Moved(x, a, b)
             k == Moved(Front(x), a, b)
  <1>1. /\ Len(a) \in Nat /\ Len(b) \in Nat /\ Len(x) \in Nat /\ Len(a) < Len(x)
    BY LenProperties, PrefixOrder
  <1>2. x # << >> /\ IsPrefix(a, Front(x))
    BY PrefixFront
  <1>3. /\ Front(x) \in Seq(N) /\ Len(Front(x)) = Len(x) - 1
        /\ \A i \in 1 .. Len(x) - 1 : Front(x)[i] = x[i]
    BY <1>2, FrontIs
  <1>4. IsMoved(N, x, a, b, m)
    BY MovedIs
  <1>5. IsMoved(N, Front(x), a, b, k)
    BY <1>2, <1>3, MovedIs
  <1> HIDE DEF m, k
  <1> USE DEF IsMoved
  <1>6. m # b /\ m # << >>
    BY <1>1, <1>4, EmptySeq
  <1>7. /\ Front(m) \in Seq(N) /\ Len(Front(m)) = Len(m) - 1
        /\ \A i \in 1 .. Len(m) - 1 : Front(m)[i] = m[i]
    BY <1>4, <1>6, FrontIs
  <1>8. Len(Front(m)) = Len(k)
    BY <1>1, <1>3, <1>4, <1>5, <1>7
  <1>9. ASSUME NEW i \in 1 .. Len(k) PROVE Front(m)[i] = k[i]
    <2>1. i \in 1 .. Len(m) - 1
      BY <1>9, <1>8, <1>7
    <2>2. CASE i <= Len(b)
      BY <2>1, <2>2, <1>1, <1>4, <1>5, <1>7, <1>9
    <2>3. CASE i > Len(b)
      <3>1. /\ i - Len(b) \in 1 .. Len(x) - Len(a) /\ i = Len(b) + (i - Len(b))
            /\ i - Len(b) \in 1 .. Len(Front(x)) - Len(a)
            /\ Len(a) + (i - Len(b)) \in 1 .. Len(x) - 1
        BY <2>3, <1>1, <1>3, <1>4, <1>5, <1>9
      <3>2. m[Len(b) + (i - Len(b))] = x[Len(a) + (i - Len(b))]
        BY <3>1, <1>4
      <3>3. k[Len(b) + (i - Len(b))] = Front(x)[Len(a) + (i - Len(b))]
        BY <3>1, <1>5
      <3> QED
        BY <3>1, <3>2, <3>3, <2>1, <1>3, <1>7
    <2> QED
      BY <2>2, <2>3, <1>1
  <1>10. Front(m) = k
    BY <1>5, <1>7, <1>8, <1>9, SeqEqual
  <1> QED
    BY <1>2, <1>6, <1>10 DEF m, k
-----------------------------------------------------------------------------
(* Trees *)

LEMMA NatInduct ==
  ASSUME NEW G, 0 \in G, \A j \in Nat : j \in G => j + 1 \in G
  PROVE  \A j \in Nat : j \in G
  <1> SUFFICES ASSUME NEW j \in Nat, j \notin G PROVE FALSE
    OBVIOUS
  <1> DEFINE B == Nat \ G
  <1>1. PICK x \in B : \A y \in B : ~(<<y, x>> \in OpToRel(<, Nat))
    <2>1. B \subseteq Nat /\ B # {}
      OBVIOUS
    <2> HIDE DEF B
    <2> QED
      BY <2>1, WFMin, NatLessThanWellFounded
  <1>2. x \in Nat /\ x # 0 /\ x - 1 \in Nat
    OBVIOUS
  <1>3. x - 1 \in B
    BY <1>2
  <1>4. <<x - 1, x>> \in OpToRel(<, Nat)
    BY <1>2 DEF OpToRel
  <1> QED
    BY <1>1, <1>3, <1>4

Dirs(t) == {p \in DOMAIN t : t[p].k = "dir"}

\* What is above a file is a directory.
LEMMA TreeAbove ==
  ASSUME NEW t, IsTree(t), NEW p \in DOMAIN t, NEW q \in Seq(Names), IsPrefix(q, p), q # p
  PROVE  q \in Dirs(t)
  <1> DEFINE G == {j \in Nat : \A s \in DOMAIN t : Len(s) = j /\ IsPrefix(q, s) /\ q # s => q \in Dirs(t)}
  <1>0. DOMAIN t \subseteq Seq(Names)
    BY DEF IsTree
  <1>1. 0 \in G
    <2>1. ASSUME NEW s \in DOMAIN t, Len(s) = 0, IsPrefix(q, s), q # s PROVE FALSE
      <3>1. s # << >>
        BY <2>1, <1>0, PrefixFront
      <3> QED
        BY <3>1, <2>1, <1>0, EmptySeq
    <2> QED
      BY <2>1
  <1>2. ASSUME NEW j \in Nat, j \in G PROVE j + 1 \in G
    <2>1. ASSUME NEW s \in DOMAIN t, Len(s) = j + 1, IsPrefix(q, s), q # s PROVE q \in Dirs(t)
      <3>1. s # << >> /\ IsPrefix(q, Front(s))
        BY <2>1, <1>0, PrefixFront
      <3>2. Front(s) \in DOMAIN t /\ t[Front(s)].k = "dir"
        BY <3>1 DEF IsTree, Is
      <3>3. Len(Front(s)) = Len(s) - 1
        BY <3>1, <1>0, FrontIs
      <3>4. Len(Front(s)) = j
        BY <3>3, <2>1
      <3>5. CASE q = Front(s)
        BY <3>2, <3>5 DEF Dirs
      <3>6. CASE q # Front(s)
        BY <3>1, <3>2, <3>4, <3>6, <1>2
      <3> QED
        BY <3>5, <3>6
    <2> QED
      BY <2>1
  <1> HIDE DEF G
  <1>3. \A j \in Nat : j \in G
    BY <1>1, <1>2, NatInduct
  <1>4. Len(p) \in Nat
    BY <1>0, LenProperties
  <1>5. Len(p) \in G
    BY <1>3, <1>4
  <1> QED
    BY <1>5 DEF G

\* Nothing is below what is not a directory.
LEMMA TreeBelow ==
  ASSUME NEW t, IsTree(t), NEW p \in Seq(Names), p \notin Dirs(t), NEW q \in DOMAIN t, IsPrefix(p, q)
  PROVE  q = p
  BY TreeAbove

LEMMA TreePaths ==
  ASSUME NEW t, IsTree(t)
  PROVE  DOMAIN t \subseteq Seq(Names) /\ << >> \in Dirs(t)
         /\ \A p \in DOMAIN t : p # << >> => Front(p) \in Dirs(t)
  BY DEF IsTree, Is, Dirs

LEMMA DirsAre ==
  ASSUME NEW t, NEW p
  PROVE  Is(t, p, "dir") <=> p \in Dirs(t)
  BY DEF Is, Dirs

-----------------------------------------------------------------------------
(* Merging a part of a directory *)

\* The entries below directory r of c.
Inside(c, r) == Below(c, r) \ {r}

\* Directory r of c is merged into directory dst of t.
Merging(c, t, r, dst) ==
  IsTree(c) /\ r \in Dirs(c) /\ IsTree(t) /\ dst \in Dirs(t)

\* D is a part of the source: with an entry, it has those above.
IsPart(c, r, D) ==
  /\ D \subseteq Inside(c, r)
  /\ \A y \in D : \A z \in Inside(c, r) : IsPrefix(z, y) => z \in D

LEMMA InsideIs ==
  ASSUME NEW c, NEW t, NEW r, NEW dst, Merging(c, t, r, dst), NEW x \in Inside(c, r)
  PROVE  /\ x \in DOMAIN c /\ x \in Seq(Names) /\ r \in Seq(Names) /\ dst \in Seq(Names)
         /\ IsPrefix(r, x) /\ x # r
  BY TreePaths DEF Inside, Below, Merging, Dirs

LEMMA MovedPath ==
  ASSUME NEW c, NEW t, NEW r, NEW dst, Merging(c, t, r, dst), NEW x \in Inside(c, r)
  PROVE  /\ Moved(x, r, dst) \in Seq(Names) /\ Moved(x, r, dst) # dst /\ Moved(x, r, dst) # << >>
         /\ IsPrefix(dst, Moved(x, r, dst)) /\ Moved(Moved(x, r, dst), dst, r) = x
         /\ Front(Moved(x, r, dst)) = Moved(Front(x), r, dst)
         /\ Front(x) \in Dirs(c) /\ (Front(x) = r \/ Front(x) \in Inside(c, r))
  <1>1. /\ x \in DOMAIN c /\ x \in Seq(Names) /\ r \in Seq(Names) /\ dst \in Seq(Names)
        /\ IsPrefix(r, x) /\ x # r
    BY InsideIs
  <1>2. Moved(x, r, dst) \in Seq(Names)
    BY <1>1, MovedIs DEF IsMoved
  <1>3. IsPrefix(dst, Moved(x, r, dst)) /\ Moved(Moved(x, r, dst), dst, r) = x
    BY <1>1, MovedBack
  <1>4. /\ x # << >> /\ IsPrefix(r, Front(x))
        /\ Moved(x, r, dst) # << >> /\ Moved(x, r, dst) # dst
        /\ Front(Moved(x, r, dst)) = Moved(Front(x), r, dst)
    BY <1>1, MovedFront
  <1>5. Front(x) \in Dirs(c)
    BY <1>1, <1>4, TreePaths DEF Merging
  <1>6. Front(x) = r \/ Front(x) \in Inside(c, r)
    BY <1>4, <1>5 DEF Inside, Below, Dirs
  <1> QED
    BY <1>2, <1>3, <1>4, <1>5, <1>6

LEMMA MovedPrefix ==
  ASSUME NEW c, NEW t, NEW r, NEW dst, Merging(c, t, r, dst),
         NEW x \in Inside(c, r), NEW y \in Inside(c, r)
  PROVE  /\ IsPrefix(Moved(x, r, dst), Moved(y, r, dst)) <=> IsPrefix(x, y)
         /\ Moved(x, r, dst) = Moved(y, r, dst) => x = y
  <1>1. IsPrefix(Moved(x, r, dst), Moved(y, r, dst)) <=> IsPrefix(x, y)
    BY InsideIs, MovedOrder
  <1>2. Moved(Moved(x, r, dst), dst, r) = x /\ Moved(Moved(y, r, dst), dst, r) = y
    BY MovedPath
  <1> QED
    BY <1>1, <1>2

\* Entry x replaces what is at its place.
Clash(c, t, r, dst, x) ==
  /\ Moved(x, r, dst) \in DOMAIN t
  /\ ~(c[x].k = "dir" /\ t[Moved(x, r, dst)].k = "dir")

Taken(r, dst, D) == {Moved(x, r, dst) : x \in D}

Kept(c, t, r, dst, D) ==
  {p \in DOMAIN t : ~\E x \in D : Clash(c, t, r, dst, x) /\ IsPrefix(Moved(x, r, dst), p)}

IsFcn(t) == t = [p \in DOMAIN t |-> t[p]]

\* A part of the source is in place: what it says of the tree.
Merged(c, t, r, dst, D, m) ==
  /\ IsFcn(m) /\ DOMAIN m = Taken(r, dst, D) \cup Kept(c, t, r, dst, D)
  /\ \A x \in D : m[Moved(x, r, dst)] = c[x]
  /\ \A p \in Kept(c, t, r, dst, D) \ Taken(r, dst, D) : m[p] = t[p]

LEMMA MergeIs ==
  ASSUME NEW c, NEW t, NEW r, NEW dst, NEW D,
         \A x \in D : Moved(Moved(x, r, dst), dst, r) = x
  PROVE  Merged(c, t, r, dst, D, Merge(c, t, r, dst, D))
  <1> DEFINE F == [p \in Taken(r, dst, D) |-> c[Moved(p, dst, r)]]
             K == [p \in Kept(c, t, r, dst, D) |-> t[p]]
             M == [p \in DOMAIN F \cup DOMAIN K |-> IF p \in DOMAIN F THEN F[p] ELSE K[p]]
  <1>1. \A x : {c[x].k, t[Moved(x, r, dst)].k} # {"dir"}
               <=> ~(c[x].k = "dir" /\ t[Moved(x, r, dst)].k = "dir")
    OBVIOUS
  <1>2. Kept(c, t, r, dst, D) =
          {p \in DOMAIN t : ~\E x \in D : /\ /\ Moved(x, r, dst) \in DOMAIN t
                                             /\ {c[x].k, t[Moved(x, r, dst)].k} # {"dir"}
                                          /\ IsPrefix(Moved(x, r, dst), p)}
    BY <1>1 DEF Kept, Clash
  <1>3. Merge(c, t, r, dst, D) = M
    BY <1>2 DEF Merge, Over, Taken
  <1>4. \A x \in D : Moved(x, r, dst) \in Taken(r, dst, D)
    BY DEF Taken
  <1>5. IsFcn(M)
    BY DEF IsFcn
  <1>6. \A x \in D : M[Moved(x, r, dst)] = c[x]
    BY <1>4
  <1>7. Merged(c, t, r, dst, D, M)
    BY <1>5, <1>6 DEF Merged
  <1> HIDE DEF M
  <1> QED
    BY <1>3, <1>7
LEMMA MergeMerged ==
  ASSUME NEW c, NEW t, NEW r, NEW dst, NEW D, Merging(c, t, r, dst), D \subseteq Inside(c, r)
  PROVE  Merged(c, t, r, dst, D, Merge(c, t, r, dst, D))
  <1>1. \A x \in D : Moved(Moved(x, r, dst), dst, r) = x
    BY MovedPath
  <1> QED
    BY <1>1, MergeIs

\* The trees of a part are all the same.
LEMMA MergedOne ==
  ASSUME NEW c, NEW t, NEW r, NEW dst, NEW D, NEW m, NEW u,
         Merged(c, t, r, dst, D, m), Merged(c, t, r, dst, D, u)
  PROVE  m = u
  <1>1. DOMAIN m = DOMAIN u
    BY DEF Merged
  <1>2. ASSUME NEW p \in DOMAIN m PROVE m[p] = u[p]
    <2>1. CASE p \in Taken(r, dst, D)
      BY <2>1 DEF Merged, Taken
    <2>2. CASE p \notin Taken(r, dst, D)
      BY <2>2 DEF Merged
    <2> QED
      BY <2>1, <2>2
  <1> QED
    BY <1>1, <1>2 DEF Merged, IsFcn

\* m has at p what t has.
Untouched(t, m, p) == /\ p \in DOMAIN m <=> p \in DOMAIN t
                      /\ p \in DOMAIN m => m[p] = t[p]

\* An entry that is next: nothing of the part is at its place or below, and
\* what the image has there is there still.
LEMMA NextEntry ==
  ASSUME NEW c, NEW t, NEW r, NEW dst, NEW D, NEW m, NEW x,
         Merging(c, t, r, dst), IsPart(c, r, D), Merged(c, t, r, dst, D, m),
         x \in Inside(c, r) \ D
  PROVE  /\ \A y \in D : ~IsPrefix(Moved(x, r, dst), Moved(y, r, dst))
         /\ Moved(x, r, dst) \notin Taken(r, dst, D)
         /\ Untouched(t, m, Moved(x, r, dst))
  <1>0. D \subseteq Inside(c, r)
    BY DEF IsPart
  <1>1. ASSUME NEW y \in D, IsPrefix(Moved(x, r, dst), Moved(y, r, dst)) PROVE FALSE
    <2>1. IsPrefix(x, y)
      BY <1>0, <1>1, MovedPrefix
    <2> QED
      BY <2>1 DEF IsPart
  <1>2. Moved(x, r, dst) \notin Taken(r, dst, D)
    <2>1. Moved(x, r, dst) \in Seq(Names)
      BY MovedPath
    <2>2. IsPrefix(Moved(x, r, dst), Moved(x, r, dst))
      BY <2>1, PrefixOrder
    <2> QED
      BY <2>2, <1>1 DEF Taken
  <1>3. ASSUME Moved(x, r, dst) \in DOMAIN t PROVE Moved(x, r, dst) \in Kept(c, t, r, dst, D)
    <2>1. ASSUME NEW y \in D, Clash(c, t, r, dst, y), IsPrefix(Moved(y, r, dst), Moved(x, r, dst))
          PROVE  FALSE
      <3>1. IsPrefix(y, x) /\ y # x
        BY <1>0, <2>1, MovedPrefix
      <3>2. c[y].k = "dir"
        BY <3>1, <1>0, InsideIs, TreeAbove DEF Merging, Dirs
      <3>3. Moved(y, r, dst) \in Seq(Names) /\ Moved(y, r, dst) # Moved(x, r, dst)
        BY <3>1, <1>0, MovedPath, MovedPrefix
      <3>4. t[Moved(y, r, dst)].k = "dir"
        BY <3>3, <2>1, <1>3, TreeAbove DEF Merging, Dirs
      <3> QED
        BY <3>2, <3>4, <2>1 DEF Clash
    <2> QED
      BY <2>1, <1>3 DEF Kept
  <1>4. Moved(x, r, dst) \in DOMAIN m <=> Moved(x, r, dst) \in DOMAIN t
    BY <1>2, <1>3 DEF Merged, Kept
  <1>5. Moved(x, r, dst) \in DOMAIN m => m[Moved(x, r, dst)] = t[Moved(x, r, dst)]
    BY <1>2 DEF Merged
  <1> QED
    BY <1>1, <1>2, <1>4, <1>5 DEF Untouched

LEMMA PartGrows ==
  ASSUME NEW c, NEW r, NEW D, NEW x, IsTree(c), r \in Dirs(c), IsPart(c, r, D),
         x \in Inside(c, r) \ D, Front(x) = r \/ Front(x) \in D
  PROVE  IsPart(c, r, D \cup {x})
  <1>0. Inside(c, r) \subseteq Seq(Names) /\ D \subseteq Inside(c, r)
    BY TreePaths DEF Inside, Below, IsPart
  <1>1. ASSUME NEW z \in Inside(c, r), IsPrefix(z, x), z # x PROVE z \in D
    <2>1. x # << >> /\ IsPrefix(z, Front(x))
      BY <1>0, <1>1, PrefixFront
    <2>2. CASE Front(x) = r
      <3>1. r \in Seq(Names) /\ IsPrefix(r, z) /\ z # r
        BY TreePaths DEF Inside, Below, Dirs
      <3> QED
        BY <3>1, <2>1, <2>2, <1>0, PrefixOrder
    <2>3. CASE Front(x) \in D
      BY <2>3, <2>1 DEF IsPart
    <2> QED
      BY <2>2, <2>3
  <1> QED
    BY <1>0, <1>1 DEF IsPart

\* The next entry is put in place.
LEMMA MergeStep ==
  ASSUME NEW c, NEW t, NEW r, NEW dst, NEW D, NEW m, NEW x, NEW p, NEW u,
         Merging(c, t, r, dst), IsPart(c, r, D), Merged(c, t, r, dst, D, m),
         x \in Inside(c, r) \ D, p = Moved(x, r, dst),
         u = IF Clash(c, t, r, dst, x) THEN Without(m, p) ELSE m
  PROVE  Merged(c, t, r, dst, D \cup {x}, With(u, p, c[x]))
  <1> DEFINE w == With(u, p, c[x])
             E == D \cup {x}
  <1>0. /\ \A y \in D : ~IsPrefix(p, Moved(y, r, dst))
        /\ p \notin Taken(r, dst, D) /\ p \in Seq(Names) /\ IsPrefix(p, p)
    BY NextEntry, MovedPath, PrefixOrder
  <1>1. IsFcn(w) /\ DOMAIN w = DOMAIN u \cup {p} /\ w[p] = c[x]
        /\ \A q \in DOMAIN u \ {p} : w[q] = u[q]
    BY DEF With, IsFcn
  <1>2. Taken(r, dst, E) = Taken(r, dst, D) \cup {p}
    BY DEF Taken
  <1>3. Kept(c, t, r, dst, E) =
          {q \in Kept(c, t, r, dst, D) : ~(Clash(c, t, r, dst, x) /\ IsPrefix(p, q))}
    BY DEF Kept
  <1>4. DOMAIN u = {q \in DOMAIN m : ~(Clash(c, t, r, dst, x) /\ IsPrefix(p, q))}
        /\ \A q \in DOMAIN u : u[q] = m[q]
    BY DEF Without, Below
  <1>5. \A q \in Taken(r, dst, D) : ~IsPrefix(p, q)
    BY <1>0 DEF Taken
  <1>6. DOMAIN w = Taken(r, dst, E) \cup Kept(c, t, r, dst, E)
    BY <1>1, <1>2, <1>3, <1>4, <1>5 DEF Merged
  <1>7. ASSUME NEW y \in E PROVE w[Moved(y, r, dst)] = c[y]
    <2>1. CASE y = x
      BY <2>1, <1>1
    <2>2. CASE y \in D
      <3>1. Moved(y, r, dst) \in Taken(r, dst, D)
        BY <2>2 DEF Taken
      <3>2. Moved(y, r, dst) \in DOMAIN u /\ Moved(y, r, dst) # p
        BY <3>1, <1>0, <1>4, <1>5 DEF Merged
      <3> QED
        BY <3>2, <2>2, <1>1, <1>4 DEF Merged
    <2> QED
      BY <2>1, <2>2
  <1>8. ASSUME NEW q \in Kept(c, t, r, dst, E) \ Taken(r, dst, E) PROVE w[q] = t[q]
    <2>1. q # p /\ q \in Kept(c, t, r, dst, D) \ Taken(r, dst, D)
      BY <1>2, <1>3
    <2>2. q \in DOMAIN u
      BY <2>1, <1>3, <1>4 DEF Merged
    <2> QED
      BY <2>1, <2>2, <1>1, <1>4 DEF Merged
  <1> HIDE DEF w, E
  <1>9. Merged(c, t, r, dst, E, w)
    BY <1>1, <1>6, <1>7, <1>8 DEF Merged
  <1> QED
    BY <1>9 DEF w, E
LEMMA MergeNone ==
  ASSUME NEW c, NEW t, NEW r, NEW dst, IsFcn(t)
  PROVE  Merged(c, t, r, dst, {}, t)
  BY DEF Merged, Taken, Kept

LinkOK(e) == e.k = "sym" => \/ e.v \in Seq(Names)
                            \/ e.v \in Seq(Names \cup {"/"}) /\ Absolute(e.v)

LEMMA TreeIs ==
  ASSUME NEW t
  PROVE  IsTree(t) <=> /\ DOMAIN t \subseteq Seq(Names) /\ << >> \in Dirs(t)
                       /\ \A p \in DOMAIN t : p # << >> => Front(p) \in Dirs(t)
                       /\ \A p \in DOMAIN t : LinkOK(t[p])
  BY DEF IsTree, Is, Dirs, LinkOK

\* A part of a tree merged into a tree is a tree.
LEMMA MergeTree ==
  ASSUME NEW c, NEW t, NEW r, NEW dst, NEW D, NEW m,
         Merging(c, t, r, dst), IsPart(c, r, D), Merged(c, t, r, dst, D, m)
  PROVE  IsTree(m) /\ dst \in Dirs(m)
  <1>0. D \subseteq Inside(c, r) /\ dst \in Seq(Names)
    BY TreePaths DEF IsPart, Merging, Dirs
  <1>1. ASSUME NEW y \in D
        PROVE  /\ Moved(y, r, dst) \in Seq(Names) /\ IsPrefix(dst, Moved(y, r, dst))
               /\ Moved(y, r, dst) # dst /\ Moved(y, r, dst) # << >> /\ y \in DOMAIN c
               /\ Front(Moved(y, r, dst)) = Moved(Front(y), r, dst)
               /\ Front(y) \in Dirs(c) /\ (Front(y) = r \/ Front(y) \in D)
    <2>1. y \in Inside(c, r)
      BY <1>0
    <2>2. y \in DOMAIN c /\ y \in Seq(Names)
      BY <2>1, InsideIs
    <2>3. ASSUME Front(y) \in Inside(c, r) PROVE Front(y) \in D
      <3>1. y # << >>
        BY <2>1, InsideIs, MovedFront
      <3>2. IsPrefix(Front(y), y)
        BY <3>1, <2>2, FrontIs
      <3> QED
        BY <3>2, <2>3 DEF IsPart
    <2> QED
      BY <2>1, <2>2, <2>3, MovedPath
  <1>2. DOMAIN m \subseteq Seq(Names)
    BY <1>1, TreePaths DEF Merged, Taken, Kept, Merging
  <1>3. ASSUME NEW q \in Seq(Names), q \in Kept(c, t, r, dst, D), q \in Dirs(t),
               \A y \in D : Moved(y, r, dst) = q => c[y].k = "dir"
        PROVE  q \in Dirs(m)
    <2>1. q \in DOMAIN m
      BY <1>3 DEF Merged
    <2>2. CASE q \in Taken(r, dst, D)
      BY <2>1, <2>2, <1>3 DEF Merged, Taken, Dirs
    <2>3. CASE q \notin Taken(r, dst, D)
      BY <2>1, <2>3, <1>3 DEF Merged, Dirs
    <2> QED
      BY <2>2, <2>3
  <1>4. ASSUME NEW q \in Seq(Names), IsPrefix(q, dst) PROVE q \in Dirs(m)
    <2>1. ASSUME NEW y \in D PROVE ~IsPrefix(Moved(y, r, dst), q)
      <3>1. SUFFICES ASSUME IsPrefix(Moved(y, r, dst), q) PROVE FALSE
        OBVIOUS
      <3>2. IsPrefix(Moved(y, r, dst), dst)
        BY <3>1, <1>0, <1>1, <1>4, PrefixOrder
      <3> QED
        BY <3>2, <1>0, <1>1, PrefixOrder
    <2>2. q \in Dirs(t)
      <3>1. CASE q = dst
        BY <3>1 DEF Merging
      <3>2. CASE q # dst
        BY <3>2, <1>4, TreeAbove DEF Merging, Dirs
      <3> QED
        BY <3>1, <3>2
    <2>3. q \in Kept(c, t, r, dst, D)
      BY <2>1, <2>2 DEF Kept, Dirs
    <2>4. \A y \in D : Moved(y, r, dst) # q
      BY <2>1, <1>4, PrefixOrder
    <2> QED
      BY <2>2, <2>3, <2>4, <1>3
  <1>5. << >> \in Dirs(m) /\ dst \in Dirs(m)
    <2>1. << >> \in Seq(Names) /\ IsPrefix(<< >>, dst)
      BY <1>0, RootPrefix
    <2>2. IsPrefix(dst, dst)
      BY <1>0, PrefixOrder
    <2> QED
      BY <2>1, <2>2, <1>0, <1>4
  <1>6. ASSUME NEW y \in D PROVE Front(Moved(y, r, dst)) \in Dirs(m)
    <2>1. CASE Front(y) = r
      <3>1. r \in Seq(Names)
        BY TreePaths DEF Merging, Dirs
      <3>2. Moved(r, r, dst) = dst
        <4>1. SubSeq(r, Len(r) + 1, Len(r)) = << >>
          BY <3>1, LenProperties, SubSeqEmpty
        <4> QED
          BY <4>1, <1>0, ConcatEmptySeq DEF Moved
      <3> QED
        BY <3>2, <2>1, <1>1, <1>5
    <2>2. CASE Front(y) \in D
      <3>1. Moved(Front(y), r, dst) \in DOMAIN m
        BY <2>2 DEF Merged, Taken
      <3>2. m[Moved(Front(y), r, dst)] = c[Front(y)]
        BY <2>2 DEF Merged
      <3> QED
        BY <3>1, <3>2, <1>1 DEF Dirs
    <2> QED
      BY <2>1, <2>2, <1>1
  <1>7. ASSUME NEW p \in DOMAIN m, p # << >> PROVE Front(p) \in Dirs(m)
    <2>1. CASE p \in Taken(r, dst, D)
      BY <2>1, <1>6 DEF Taken
    <2>2. CASE p \notin Taken(r, dst, D)
      <3>1. p \in Kept(c, t, r, dst, D) /\ p \in DOMAIN t
        BY <2>2 DEF Merged, Kept
      <3>2. Front(p) \in Dirs(t)
        BY <3>1, <1>7, TreePaths DEF Merging
      <3>3. Front(p) \in Seq(Names) /\ IsPrefix(Front(p), p)
        BY <1>2, <1>7, FrontIs
      <3>4. ASSUME NEW y \in D, Clash(c, t, r, dst, y), IsPrefix(Moved(y, r, dst), Front(p))
            PROVE  FALSE
        <4>1. IsPrefix(Moved(y, r, dst), p)
          BY <3>3, <3>4, <1>1, <1>2, PrefixOrder
        <4> QED
          BY <4>1, <3>1, <3>4 DEF Kept
      <3>5. Front(p) \in Kept(c, t, r, dst, D)
        BY <3>2, <3>4 DEF Kept, Dirs
      <3>6. ASSUME NEW y \in D, Moved(y, r, dst) = Front(p) PROVE c[y].k = "dir"
        <4>1. ~Clash(c, t, r, dst, y)
          BY <3>3, <3>4, <3>6, PrefixOrder
        <4> QED
          BY <4>1, <3>2, <3>6 DEF Clash, Dirs
      <3> QED
        BY <3>2, <3>3, <3>5, <3>6, <1>3
    <2> QED
      BY <2>1, <2>2
  <1>8. ASSUME NEW p \in DOMAIN m PROVE LinkOK(m[p])
    <2>1. CASE p \in Taken(r, dst, D)
      <3>1. PICK y \in D : p = Moved(y, r, dst)
        BY <2>1 DEF Taken
      <3>2. m[p] = c[y] /\ y \in DOMAIN c
        BY <3>1, <1>1 DEF Merged
      <3> QED
        BY <3>2, TreeIs DEF Merging
    <2>2. CASE p \notin Taken(r, dst, D)
      <3>1. m[p] = t[p] /\ p \in DOMAIN t
        BY <2>2 DEF Merged, Kept
      <3> QED
        BY <3>1, TreeIs DEF Merging
    <2> QED
      BY <2>1, <2>2
  <1> QED
    BY <1>2, <1>5, <1>7, <1>8, TreeIs
-----------------------------------------------------------------------------
(* Changes of a tree *)

LEMMA WithTree ==
  ASSUME NEW t, NEW p, NEW e, IsTree(t), p \in Seq(Names), p # << >>, Front(p) \in Dirs(t),
         LinkOK(e), p \notin Dirs(t) \/ e.k = "dir"
  PROVE  /\ IsTree(With(t, p, e)) /\ IsFcn(With(t, p, e))
         /\ Dirs(With(t, p, e)) = Dirs(t) \cup (IF e.k = "dir" THEN {p} ELSE {})
  <1> DEFINE w == With(t, p, e)
  <1>1. IsFcn(w) /\ DOMAIN w = DOMAIN t \cup {p} /\ w[p] = e /\ \A q \in DOMAIN t \ {p} : w[q] = t[q]
    BY DEF With, IsFcn
  <1> HIDE DEF w
  <1>2. Dirs(w) = Dirs(t) \cup (IF e.k = "dir" THEN {p} ELSE {})
    BY <1>1 DEF Dirs
  <1>3. IsTree(w)
    BY <1>1, <1>2, TreeIs
  <1> QED
    BY <1>1, <1>2, <1>3 DEF w

LEMMA WithoutTree ==
  ASSUME NEW t, NEW p, IsTree(t), p \in Seq(Names), p # << >>
  PROVE  /\ IsTree(Without(t, p)) /\ p \notin DOMAIN Without(t, p)
         /\ Dirs(Without(t, p)) = {q \in Dirs(t) : ~IsPrefix(p, q)}
  <1> DEFINE w == Without(t, p)
  <1>0. DOMAIN t \subseteq Seq(Names) /\ << >> \in Seq(Names)
    BY TreePaths, EmptySeq
  <1>1. DOMAIN w = {q \in DOMAIN t : ~IsPrefix(p, q)} /\ \A q \in DOMAIN w : w[q] = t[q]
    BY DEF Without, Below
  <1> HIDE DEF w
  <1>2. Dirs(w) = {q \in Dirs(t) : ~IsPrefix(p, q)}
    BY <1>1 DEF Dirs
  <1>3. IsPrefix(p, p) /\ ~IsPrefix(p, << >>)
    BY <1>0, PrefixOrder, RootPrefix
  <1>4. << >> \in Dirs(w)
    BY <1>2, <1>3, TreePaths
  <1>5. ASSUME NEW q \in DOMAIN w, q # << >> PROVE Front(q) \in Dirs(w)
    <2>1. q \in DOMAIN t /\ ~IsPrefix(p, q) /\ q \in Seq(Names)
      BY <1>0, <1>1
    <2>2. Front(q) \in Seq(Names) /\ IsPrefix(Front(q), q)
      BY <2>1, <1>5, FrontIs
    <2>3. ~IsPrefix(p, Front(q))
      BY <2>1, <2>2, PrefixOrder
    <2> QED
      BY <2>1, <2>3, <1>2, <1>5, TreePaths
  <1>6. \A q \in DOMAIN w : LinkOK(w[q])
    BY <1>1, TreeIs
  <1>7. IsTree(w)
    BY <1>0, <1>1, <1>4, <1>5, <1>6, TreeIs
  <1> QED
    BY <1>1, <1>2, <1>3, <1>7 DEF w

LEMMA RealPath ==
  ASSUME NEW t, NEW p, IsTree(t), p \in Seq(Names), ~Absolute(Real(t, p))
  PROVE  Real(t, p) \in Seq(Names)
  <1>1. CASE ~Is(t, p, "sym")
    BY <1>1 DEF Real
  <1>2. CASE Is(t, p, "sym")
    <2>1. p \in DOMAIN t /\ t[p].k = "sym" /\ ~Absolute(t[p].v) /\ Real(t, p) = Front(p) \o t[p].v
      BY <1>2 DEF Real, Is
    <2>2. t[p].v \in Seq(Names)
      BY <2>1, TreeIs DEF LinkOK
    <2>3. p # << >>
      BY <2>1, TreePaths DEF Dirs
    <2>4. Front(p) \in Seq(Names)
      BY <2>3, FrontIs
    <2> QED
      BY <2>1, <2>2, <2>4, ConcatProperties
  <1> QED
    BY <1>1, <1>2

\* Path.copy leaves the directories alone.
LEMMA CopyEntryTree ==
  ASSUME NEW t, NEW e, NEW p, NEW u, IsTree(t), IsFcn(t), p \in Seq(Names), p # << >>,
         Front(p) \in Dirs(t), LinkOK(e), e.k # "dir", u \in CopyEntry(t, e, p)
  PROVE  IsTree(u) /\ IsFcn(u) /\ Dirs(u) = Dirs(t) /\ p \notin Dirs(t)
  <1>1. ASSUME NEW q \in Seq(Names), q # << >>, Front(q) \in Dirs(t), q \notin Dirs(t),
               u = With(t, q, e)
        PROVE  IsTree(u) /\ IsFcn(u) /\ Dirs(u) = Dirs(t)
    BY <1>1, WithTree
  <1>2. CASE Fast(e)
    <2>1. u = With(t, p, e) /\ p \notin Dirs(t)
      BY <1>2 DEF CopyEntry, Is, Dirs
    <2> QED
      BY <2>1, <1>1
  <1>3. CASE ~Fast(e) /\ e.k = "sym"
    <2>1. u = With(t, p, e) /\ p \notin Dirs(t)
      BY <1>3 DEF CopyEntry, Dirs
    <2> QED
      BY <2>1, <1>1
  <1>4. CASE ~Fast(e) /\ e.k # "sym" /\ Absolute(Real(t, p))
    <2>1. u = t
      BY <1>4 DEF CopyEntry
    <2>2. p \notin Dirs(t)
      <3>1. SUFFICES ASSUME p \in Dirs(t) PROVE FALSE
        OBVIOUS
      <3>2. Real(t, p) = p
        BY <3>1 DEF Real, Is, Dirs
      <3>3. Head(p) \in Names
        BY HeadTailProperties
      <3> QED
        BY <3>2, <3>3, <1>4, TreesAssumption DEF Absolute
    <2> QED
      BY <2>1, <2>2
  <1>5. CASE ~Fast(e) /\ e.k # "sym" /\ ~Absolute(Real(t, p))
    <2> DEFINE q == Real(t, p)
    <2>1. u = With(t, q, e) /\ q \notin Dirs(t) /\ Front(q) \in Dirs(t)
      BY <1>5 DEF CopyEntry, Is, Dirs
    <2>2. q \in Seq(Names)
      BY <1>5, RealPath
    <2>3. q # << >>
      BY <2>1, TreePaths
    <2>4. p \in Dirs(t) => q = p
      BY DEF Real, Is, Dirs
    <2> HIDE DEF q
    <2> QED
      BY <2>1, <2>2, <2>3, <2>4, <1>1
  <1> QED
    BY <1>2, <1>3, <1>4, <1>5

\* A step of the walk that succeeds.
LEMMA WalkDirTree ==
  ASSUME NEW t, NEW e, NEW p, NEW u, IsTree(t), IsFcn(t), p \in Seq(Names), p # << >>,
         Front(p) \in Dirs(t), e.k = "dir", u \in WalkDir(t, e, p)
  PROVE  IsTree(u) /\ IsFcn(u) /\ Dirs(u) = Dirs(t) \cup {p}
  <1> DEFINE w == IF Exists(t, p) /\ ~Is(t, p, "dir") THEN Without(t, p) ELSE t
  <1>1. u = With(w, p, e)
    BY DEF WalkDir
  <1>2. IsTree(w) /\ Dirs(w) = Dirs(t)
    <2>1. CASE Exists(t, p) /\ ~Is(t, p, "dir")
      <3>1. IsTree(w) /\ Dirs(w) = {q \in Dirs(t) : ~IsPrefix(p, q)}
        BY <2>1, WithoutTree
      <3>2. p \notin Dirs(t)
        BY <2>1, DirsAre
      <3>3. \A q \in Dirs(t) : ~IsPrefix(p, q)
        BY <3>2, TreeBelow DEF Dirs
      <3> QED
        BY <3>1, <3>3
    <2>2. CASE ~(Exists(t, p) /\ ~Is(t, p, "dir"))
      BY <2>2
    <2> QED
      BY <2>1, <2>2
  <1>3. LinkOK(e)
    BY DEF LinkOK
  <1> HIDE DEF w
  <1> QED
    BY <1>1, <1>2, <1>3, WithTree

LEMMA WalkFileTree ==
  ASSUME NEW t, NEW e, NEW p, NEW u, IsTree(t), IsFcn(t), p \in Seq(Names), p # << >>,
         Front(p) \in Dirs(t), LinkOK(e), e.k # "dir", u \in WalkFile(t, e, p)
  PROVE  IsTree(u) /\ IsFcn(u) /\ Dirs(u) = {q \in Dirs(t) : ~IsPrefix(p, q)}
  <1> DEFINE w == IF Exists(t, p) THEN Without(t, p) ELSE t
  <1>1. u \in CopyEntry(w, e, p)
    BY DEF WalkFile
  <1>2. /\ IsTree(w) /\ IsFcn(w) /\ Front(p) \in Dirs(w)
        /\ p \notin Dirs(w) => Dirs(w) = {q \in Dirs(t) : ~IsPrefix(p, q)}
    <2>1. CASE Exists(t, p)
      <3>1. IsTree(w) /\ Dirs(w) = {q \in Dirs(t) : ~IsPrefix(p, q)}
        BY <2>1, WithoutTree
      <3>2. IsFcn(w)
        BY <2>1 DEF Without, IsFcn
      <3>3. Front(p) \in Seq(Names) /\ IsPrefix(Front(p), p) /\ Front(p) # p
        BY FrontIs
      <3>4. ~IsPrefix(p, Front(p))
        BY <3>3, PrefixOrder
      <3> QED
        BY <3>1, <3>2, <3>4
    <2>2. CASE ~Exists(t, p)
      <3>1. p \notin Dirs(t) => \A q \in Dirs(t) : ~IsPrefix(p, q)
        BY TreeBelow DEF Dirs
      <3> QED
        BY <2>2, <3>1
    <2> QED
      BY <2>1, <2>2
  <1> HIDE DEF w
  <1>3. IsTree(u) /\ IsFcn(u) /\ Dirs(u) = Dirs(w) /\ p \notin Dirs(w)
    BY <1>1, <1>2, CopyEntryTree
  <1> QED
    BY <1>2, <1>3
-----------------------------------------------------------------------------
(* A step of the walk is a step of the merge *)

\* Where the next entry goes.
LEMMA NextPlace ==
  ASSUME NEW c, NEW t, NEW r, NEW dst, NEW D, NEW m, NEW x,
         Merging(c, t, r, dst), IsPart(c, r, D), Merged(c, t, r, dst, D, m),
         x \in Inside(c, r) \ D, Front(x) = r \/ Front(x) \in D
  PROVE  Front(Moved(x, r, dst)) \in Dirs(m)
  <1>1. IsPart(c, r, D \cup {x})
    BY PartGrows DEF Merging
  <1> DEFINE p == Moved(x, r, dst)
             u == IF Clash(c, t, r, dst, x) THEN Without(m, p) ELSE m
  <1>2. Merged(c, t, r, dst, D \cup {x}, With(u, p, c[x]))
    BY MergeStep
  <1>3. IsTree(With(u, p, c[x]))
    BY <1>1, <1>2, MergeTree
  <1>4. p \in Seq(Names) /\ p # << >>
    BY MovedPath
  <1>5. Front(p) \in Dirs(With(u, p, c[x])) /\ Front(p) # p
    <2>1. p \in DOMAIN With(u, p, c[x])
      BY DEF With
    <2> QED
      BY <2>1, <1>3, <1>4, TreePaths, FrontIs
  <1>6. Front(p) \in Dirs(u)
    BY <1>5 DEF With, Dirs
  <1> QED
    BY <1>6 DEF Without, Dirs

\* The directories d after entry e has been put at p.
DirsAfter(d, e, p) == IF e.k = "dir" THEN d \cup {p} ELSE {q \in d : ~IsPrefix(p, q)}

LEMMA MergeDirs ==
  ASSUME NEW c, NEW t, NEW r, NEW dst, NEW D, NEW m, NEW x, NEW w, NEW p,
         Merging(c, t, r, dst), IsPart(c, r, D), Merged(c, t, r, dst, D, m),
         x \in Inside(c, r) \ D, p = Moved(x, r, dst), Merged(c, t, r, dst, D \cup {x}, w)
  PROVE  Dirs(w) = DirsAfter(Dirs(m), c[x], p)
  <1> DEFINE u == IF Clash(c, t, r, dst, x) THEN Without(m, p) ELSE m
  <1>1. w = With(u, p, c[x])
    BY MergeStep, MergedOne
  <1>2. /\ p \in DOMAIN m <=> p \in DOMAIN t
        /\ p \in DOMAIN m => m[p] = t[p]
    <2>1. Untouched(t, m, Moved(x, r, dst))
      BY NextEntry
    <2> QED
      BY <2>1 DEF Untouched
  <1>3. IsTree(m) /\ p \in Seq(Names) /\ p # << >> /\ IsPrefix(p, p)
    BY MergeTree, MovedPath, PrefixOrder
  <1>4. Dirs(w) = IF c[x].k = "dir" THEN Dirs(u) \cup {p} ELSE Dirs(u) \ {p}
    BY <1>1 DEF With, Dirs
  <1>5. p \notin Dirs(m) => \A q \in Dirs(m) : ~IsPrefix(p, q)
    BY <1>3, TreeBelow DEF Dirs
  <1>6. CASE Clash(c, t, r, dst, x)
    <2>1. Dirs(u) = {q \in Dirs(m) : ~IsPrefix(p, q)}
      BY <1>3, <1>6, WithoutTree
    <2>2. c[x].k = "dir" => p \notin Dirs(m)
      BY <1>2, <1>6 DEF Clash, Dirs
    <2> QED
      BY <2>1, <2>2, <1>3, <1>4, <1>5 DEF DirsAfter
  <1>7. CASE ~Clash(c, t, r, dst, x)
    <2>1. u = m
      BY <1>7
    <2>2. c[x].k # "dir" => p \notin Dirs(m)
      BY <1>2, <1>7 DEF Clash, Dirs
    <2> HIDE DEF u
    <2> QED
      BY <2>1, <2>2, <1>3, <1>4, <1>5 DEF DirsAfter
  <1> QED
    BY <1>6, <1>7

\* A link that leads somewhere, before the source and after it, does so in
\* between.
LEMMA StillThere ==
  ASSUME NEW c, NEW t, NEW r, NEW dst, NEW D, NEW m, NEW x, NEW p, NEW full,
         Merging(c, t, r, dst), IsPart(c, r, D), Merged(c, t, r, dst, D, m),
         Merged(c, t, r, dst, Inside(c, r), full),
         x \in Inside(c, r) \ D, p = Moved(x, r, dst), p \in DOMAIN m,
         Is(t, p, "sym") => Exists(t, p) /\ (Absolute(Real(t, p)) \/ Real(t, p) \in DOMAIN full)
  PROVE  Exists(m, p)
  <1>0. m[p] = t[p] /\ p \in DOMAIN t /\ p \in Seq(Names) /\ p # << >>
    BY NextEntry, MovedPath DEF Untouched
  <1>1. Real(m, p) = Real(t, p)
    BY <1>0 DEF Real, Is
  <1>2. CASE ~Is(t, p, "sym")
    <2>1. Real(t, p) = p
      BY <1>2 DEF Real
    <2>2. ~Absolute(p)
      <3>1. Head(p) \in Names
        BY <1>0, HeadTailProperties
      <3> QED
        BY <3>1, TreesAssumption DEF Absolute
    <2> QED
      BY <2>1, <2>2, <1>1 DEF Exists
  <1>3. CASE Is(t, p, "sym") /\ Absolute(Real(t, p))
    BY <1>1, <1>3 DEF Exists
  <1>4. CASE Is(t, p, "sym") /\ ~Absolute(Real(t, p))
    <2> DEFINE q == Real(t, p)
    <2>1. q \in DOMAIN t /\ q \in DOMAIN full
      BY <1>4 DEF Exists
    <2>2. q \in Seq(Names) /\ D \subseteq Inside(c, r)
      BY <2>1, TreePaths DEF Merging, IsPart
    <2> HIDE DEF q
    <2>3. q \in DOMAIN m
      <3>1. SUFFICES ASSUME q \notin DOMAIN m PROVE FALSE
        OBVIOUS
      <3>2. PICK y \in D : Clash(c, t, r, dst, y) /\ IsPrefix(Moved(y, r, dst), q)
        BY <3>1, <2>1 DEF Merged, Kept
      <3>3. q \notin Kept(c, t, r, dst, Inside(c, r))
        BY <3>2, <2>2 DEF Kept
      <3>4. PICK z \in Inside(c, r) : q = Moved(z, r, dst)
        BY <3>3, <2>1 DEF Merged, Taken
      <3>5. z # y
        BY <3>1, <3>4 DEF Merged, Taken
      <3>6. IsPrefix(y, z) /\ Moved(y, r, dst) # q
        BY <3>2, <3>4, <3>5, <2>2, MovedPrefix
      <3>7. c[y].k = "dir"
        BY <3>5, <3>6, <2>2, InsideIs, TreeAbove DEF Merging, Dirs
      <3>8. Moved(y, r, dst) \in Seq(Names)
        BY <2>2, MovedPath
      <3>9. t[Moved(y, r, dst)].k = "dir"
        BY <3>2, <3>6, <3>8, <2>1, TreeAbove DEF Merging, Dirs
      <3> QED
        BY <3>2, <3>7, <3>9 DEF Clash
    <2> QED
      BY <2>3, <1>1, <1>4 DEF Exists, q
  <1> QED
    BY <1>2, <1>3, <1>4

\* Entry e walked to p in t gives w.
WalkGives(t, e, p, w) ==
  /\ e.k = "dir" => WalkDir(t, e, p) = {w}
  /\ e.k \notin {"dir", "fifo"} => WalkFile(t, e, p) = {w}

\* The walk does just that.
LEMMA WalkMerges ==
  ASSUME NEW c, NEW t, NEW r, NEW dst, NEW D, NEW m, NEW x, NEW p, NEW w,
         Merging(c, t, r, dst), IsPart(c, r, D), Merged(c, t, r, dst, D, m),
         x \in Inside(c, r) \ D, Front(x) = r \/ Front(x) \in D, p = Moved(x, r, dst),
         p \in DOMAIN m => Exists(m, p), Merged(c, t, r, dst, D \cup {x}, w)
  PROVE  WalkGives(m, c[x], p, w)
  <1> DEFINE u == IF Clash(c, t, r, dst, x) THEN Without(m, p) ELSE m
  <1>1. w = With(u, p, c[x])
    BY MergeStep, MergedOne
  <1>2. /\ p \in DOMAIN m <=> p \in DOMAIN t
        /\ p \in DOMAIN m => m[p] = t[p]
    <2>1. Untouched(t, m, Moved(x, r, dst))
      BY NextEntry
    <2> QED
      BY <2>1 DEF Untouched
  <1>3. IsTree(m) /\ p \in Seq(Names) /\ p # << >> /\ Front(p) \in Dirs(m)
    BY MergeTree, MovedPath, NextPlace
  <1>4. p \notin DOMAIN Without(m, p) /\ Front(p) \in Dirs(Without(m, p))
    <2>1. Front(p) \in Seq(Names) /\ IsPrefix(Front(p), p) /\ Front(p) # p
      BY <1>3, FrontIs
    <2>2. ~IsPrefix(p, Front(p))
      BY <2>1, <1>3, PrefixOrder
    <2> QED
      BY <2>2, <1>3, WithoutTree
  <1>5. ASSUME c[x].k = "dir" PROVE WalkDir(m, c[x], p) = {w}
    <2>1. Clash(c, t, r, dst, x) <=> Exists(m, p) /\ ~Is(m, p, "dir")
      BY <1>2, <1>5 DEF Clash, Is, Exists
    <2>2. u = IF Exists(m, p) /\ ~Is(m, p, "dir") THEN Without(m, p) ELSE m
      BY <2>1
    <2>3. ~(p \in DOMAIN u /\ ~Is(u, p, "dir"))
      BY <2>1, <1>4
    <2> HIDE DEF u
    <2> QED
      BY <2>2, <2>3, <1>1 DEF WalkDir
  <1>6. ASSUME c[x].k \notin {"dir", "fifo"} PROVE WalkFile(m, c[x], p) = {w}
    <2>1. Clash(c, t, r, dst, x) <=> Exists(m, p)
      BY <1>2, <1>6 DEF Clash, Exists
    <2>2. u = IF Exists(m, p) THEN Without(m, p) ELSE m
      BY <2>1
    <2>3. p \notin DOMAIN u /\ Front(p) \in Dirs(u)
      BY <2>1, <1>3, <1>4
    <2> HIDE DEF u
    <2>4. Real(u, p) = p /\ ~Is(u, p, "dir") /\ Is(u, Front(p), "dir")
      BY <2>3 DEF Real, Is, Dirs
    <2>5. ~Absolute(p)
      <3>1. Head(p) \in Names
        BY <1>3, HeadTailProperties
      <3> QED
        BY <3>1, TreesAssumption DEF Absolute
    <2>6. CopyEntry(u, c[x], p) = {With(u, p, c[x])}
      BY <2>3, <2>4, <2>5 DEF CopyEntry
    <2>7. WalkFile(m, c[x], p) = CopyEntry(u, c[x], p)
      BY <2>2, <1>6 DEF WalkFile
    <2> QED
      BY <2>6, <2>7, <1>1
  <1> HIDE DEF u
  <1>7. c[x].k = "dir" => WalkDir(m, c[x], p) = {w}
    BY <1>5
  <1>8. c[x].k \notin {"dir", "fifo"} => WalkFile(m, c[x], p) = {w}
    BY <1>6
  <1> QED
    BY <1>7, <1>8 DEF WalkGives
-----------------------------------------------------------------------------
(* The order of the walk *)

\* What the walk has yet to do when it has done D.
Frontier(c, r, D) == {x \in Inside(c, r) \ D : Front(x) = r \/ Front(x) \in D}

LEMMA ChildIs ==
  ASSUME NEW N, NEW p \in Seq(N), NEW q \in Seq(N)
  PROVE  Len(q) = Len(p) + 1 /\ IsPrefix(p, q) <=> q # << >> /\ Front(q) = p
  <1>1. Len(p) \in Nat /\ Len(q) \in Nat
    BY LenProperties
  <1>2. ASSUME q # << >>, Front(q) = p PROVE Len(q) = Len(p) + 1 /\ IsPrefix(p, q)
    <2>1. Len(Front(q)) = Len(q) - 1 /\ IsPrefix(Front(q), q)
      BY <1>2, FrontIs
    <2> QED
      BY <2>1, <1>1, <1>2
  <1>3. ASSUME Len(q) = Len(p) + 1, IsPrefix(p, q) PROVE q # << >> /\ Front(q) = p
    <2>1. p # q
      BY <1>1, <1>3
    <2>2. q # << >> /\ IsPrefix(p, Front(q))
      BY <2>1, <1>3, PrefixFront
    <2>3. Front(q) \in Seq(N) /\ Len(Front(q)) = Len(q) - 1
      BY <2>2, FrontIs
    <2>4. Len(Front(q)) = Len(p)
      BY <2>3, <1>1, <1>3
    <2> QED
      BY <2>2, <2>3, <2>4, PrefixOrder
  <1> QED
    BY <1>2, <1>3

LEMMA ChildrenAre ==
  ASSUME NEW c, IsTree(c), NEW p \in Seq(Names)
  PROVE  Children(c, p) = {q \in DOMAIN c : q # << >> /\ Front(q) = p}
  <1>1. ASSUME NEW q \in DOMAIN c
        PROVE  Len(q) = Len(p) + 1 /\ IsPrefix(p, q) <=> q # << >> /\ Front(q) = p
    BY TreePaths, ChildIs
  <1> QED
    BY <1>1 DEF Children

LEMMA InsideFront ==
  ASSUME NEW c, IsTree(c), NEW r, r \in Dirs(c), NEW x
  PROVE  x \in Inside(c, r) <=> /\ x \in DOMAIN c /\ x # << >>
                                /\ (Front(x) = r \/ Front(x) \in Inside(c, r))
  <1>1. r \in Seq(Names) /\ DOMAIN c \subseteq Seq(Names) /\ r \in DOMAIN c
    BY TreePaths DEF Dirs
  <1>2. ASSUME x \in Inside(c, r)
        PROVE  x \in DOMAIN c /\ x # << >> /\ (Front(x) = r \/ Front(x) \in Inside(c, r))
    <2>1. x \in DOMAIN c /\ IsPrefix(r, x) /\ x # r
      BY <1>2 DEF Inside, Below
    <2>2. x # << >> /\ IsPrefix(r, Front(x))
      BY <2>1, <1>1, PrefixFront
    <2>3. Front(x) \in DOMAIN c
      BY <2>1, <2>2, TreePaths DEF Dirs
    <2> QED
      BY <2>1, <2>2, <2>3 DEF Inside, Below
  <1>3. ASSUME x \in DOMAIN c, x # << >>, Front(x) = r \/ Front(x) \in Inside(c, r)
        PROVE  x \in Inside(c, r)
    <2>1. IsPrefix(r, Front(x))
      <3>1. IsPrefix(r, r)
        BY <1>1, PrefixOrder
      <3> QED
        BY <3>1, <1>3 DEF Inside, Below
    <2>2. Front(x) \in Seq(Names) /\ IsPrefix(Front(x), x) /\ Front(x) # x
      BY <1>1, <1>3, FrontIs
    <2>3. IsPrefix(r, x)
      BY <2>1, <2>2, <1>1, <1>3, PrefixOrder
    <2>4. x # r
      BY <2>1, <2>2, <1>1, <1>3, PrefixOrder
    <2> QED
      BY <2>3, <2>4, <1>3 DEF Inside, Below
  <1> QED
    BY <1>2, <1>3

LEMMA FrontierStart ==
  ASSUME NEW c, IsTree(c), NEW r, r \in Dirs(c)
  PROVE  Frontier(c, r, {}) = Children(c, r) /\ IsPart(c, r, {})
  <1>1. r \in Seq(Names)
    BY TreePaths DEF Dirs
  <1>2. Children(c, r) = {q \in DOMAIN c : q # << >> /\ Front(q) = r}
    BY <1>1, ChildrenAre
  <1>3. \A x : x \in Frontier(c, r, {}) <=> x \in Children(c, r)
    BY <1>2, InsideFront DEF Frontier
  <1> QED
    BY <1>3 DEF IsPart

LEMMA FrontierStep ==
  ASSUME NEW c, IsTree(c), NEW r, r \in Dirs(c), NEW D, IsPart(c, r, D),
         NEW x \in Frontier(c, r, D)
  PROVE  Frontier(c, r, D \cup {x}) = (Frontier(c, r, D) \ {x}) \cup Children(c, x)
  <1>1. x \in Inside(c, r) /\ x \notin D /\ x \in Seq(Names)
    BY TreePaths DEF Frontier, Inside, Below
  <1>2. Children(c, x) = {q \in DOMAIN c : q # << >> /\ Front(q) = x}
    BY <1>1, ChildrenAre
  <1>3. ASSUME NEW y, y \in Children(c, x)
        PROVE  y \in Inside(c, r) /\ y \notin D /\ y # x /\ Front(y) = x
    <2>1. y \in DOMAIN c /\ y # << >> /\ Front(y) = x
      BY <1>2, <1>3
    <2>2. y \in Inside(c, r)
      BY <2>1, <1>1, InsideFront
    <2>3. IsPrefix(x, y) /\ x # y
      BY <2>1, TreePaths, FrontIs
    <2> QED
      BY <2>1, <2>2, <2>3, <1>1 DEF IsPart
  <1>4. ASSUME NEW y \in Inside(c, r), Front(y) = x PROVE y \in Children(c, x)
    BY <1>2, <1>4, InsideFront
  <1>5. \A y : y \in Frontier(c, r, D \cup {x}) <=> y \in (Frontier(c, r, D) \ {x}) \cup Children(c, x)
    BY <1>3, <1>4 DEF Frontier
  <1> QED
    BY <1>5

LEMMA FrontierEnd ==
  ASSUME NEW c, IsTree(c), NEW r, r \in Dirs(c), NEW D, IsPart(c, r, D), Frontier(c, r, D) = {}
  PROVE  D = Inside(c, r)
  <1> DEFINE G == {j \in Nat : \A y \in Inside(c, r) : Len(y) = j => y \in D}
  <1>0. ASSUME NEW y \in Inside(c, r)
        PROVE  /\ y \in Seq(Names) /\ y # << >> /\ Len(y) \in Nat /\ Len(y) > 0
               /\ Len(Front(y)) = Len(y) - 1 /\ (Front(y) = r \/ Front(y) \in Inside(c, r))
    <2>1. y \in Seq(Names) /\ y # << >> /\ (Front(y) = r \/ Front(y) \in Inside(c, r))
      BY InsideFront, TreePaths
    <2> QED
      BY <2>1, FrontIs
  <1>1. 0 \in G
    BY <1>0
  <1>2. ASSUME NEW j \in Nat, j \in G PROVE j + 1 \in G
    <2>1. ASSUME NEW y \in Inside(c, r), Len(y) = j + 1 PROVE y \in D
      <3>1. Len(Front(y)) = j
        BY <2>1, <1>0
      <3>2. Front(y) = r \/ Front(y) \in D
        BY <3>1, <2>1, <1>0, <1>2
      <3> QED
        BY <3>2, <2>1 DEF Frontier
    <2> QED
      BY <2>1
  <1> HIDE DEF G
  <1>3. \A j \in Nat : j \in G
    BY <1>1, <1>2, NatInduct
  <1>4. \A y \in Inside(c, r) : y \in D
    BY <1>0, <1>3 DEF G
  <1> QED
    BY <1>4 DEF IsPart
-----------------------------------------------------------------------------
(* One source after the other *)

\* The first j sources, copied.
IsCopies(c, t, srcs, dst, j, g) ==
  /\ g = [i \in 0 .. j |-> g[i]] /\ g[0] = t
  /\ \A i \in 1 .. j : g[i] = CopyOne(c, g[i - 1], srcs[i], dst)

LEMMA CopiesExist ==
  ASSUME NEW c, NEW t, NEW srcs, NEW dst, NEW len \in Nat
  PROVE  \E g : IsCopies(c, t, srcs, dst, len, g)
  <1> DEFINE G == {j \in Nat : \E g : IsCopies(c, t, srcs, dst, j, g)}
  <1>1. 0 \in G
    <2>1. IsCopies(c, t, srcs, dst, 0, [i \in 0 .. 0 |-> t])
      BY DEF IsCopies
    <2> QED
      BY <2>1
  <1>2. ASSUME NEW j \in Nat, j \in G PROVE j + 1 \in G
    <2>1. PICK g : IsCopies(c, t, srcs, dst, j, g)
      BY <1>2
    <2> DEFINE last == CopyOne(c, g[j], srcs[j + 1], dst)
               h == [i \in 0 .. j + 1 |-> IF i = j + 1 THEN last ELSE g[i]]
    <2>2. h[0] = t
      BY <2>1 DEF IsCopies
    <2>3. ASSUME NEW i \in 1 .. j + 1 PROVE h[i] = CopyOne(c, h[i - 1], srcs[i], dst)
      <3>1. CASE i = j + 1
        BY <3>1
      <3>2. CASE i \in 1 .. j
        <4>1. h[i] = g[i] /\ h[i - 1] = g[i - 1]
          BY <3>2
        <4> QED
          BY <4>1, <3>2, <2>1 DEF IsCopies
      <3> QED
        BY <3>1, <3>2
    <2>4. IsCopies(c, t, srcs, dst, j + 1, h)
      BY <2>2, <2>3 DEF IsCopies
    <2> QED
      BY <2>4
  <1> HIDE DEF G
  <1>3. \A j \in Nat : j \in G
    BY <1>1, <1>2, NatInduct
  <1> QED
    BY <1>3 DEF G

LEMMA CopyAllIs ==
  ASSUME NEW c, NEW t, NEW srcs, NEW dst, Len(srcs) \in Nat
  PROVE  IsCopies(c, t, srcs, dst, Len(srcs), CopyAll(c, t, srcs, dst))
  <1> DEFINE len == Len(srcs)
             P(f) == f = [j \in 0 .. len |-> IF j = 0 THEN t
                                             ELSE CopyOne(c, f[j - 1], srcs[j], dst)]
             w == CHOOSE f : P(f)
  <1>1. PICK g : IsCopies(c, t, srcs, dst, len, g)
    BY CopiesExist
  <1>2. P(g)
    BY <1>1 DEF IsCopies
  <1>3. P(w)
    BY <1>2
  <1>4. CopyAll(c, t, srcs, dst) = w
    BY DEF CopyAll
  <1> HIDE DEF w
  <1>5. IsCopies(c, t, srcs, dst, len, w)
    BY <1>3 DEF IsCopies
  <1> QED
    BY <1>4, <1>5

LEMMA PutIs ==
  ASSUME NEW t, NEW e, NEW p, IsTree(t), p \in Seq(Names), p \notin Dirs(t), e.k # "dir"
  PROVE  Put(t, e, p) = With(t, p, e)
  <1>1. Put(t, e, p) = With(Without(t, p), p, e)
    BY DEF Put
  <1>2. \A q \in DOMAIN t : IsPrefix(p, q) => q = p
    BY TreeBelow
  <1>3. IsPrefix(p, p)
    BY PrefixOrder
  <1>4. DOMAIN Without(t, p) = DOMAIN t \ {p}
    BY <1>2, <1>3 DEF Without, Below
  <1>5. \A q \in DOMAIN t \ {p} : Without(t, p)[q] = t[q]
    BY <1>4 DEF Without
  <1> QED
    BY <1>1, <1>4, <1>5 DEF With

LEMMA MadeTree ==
  ASSUME NEW t, NEW c, NEW len, IsTree(t), c \in Seq(Names), len \in -1 .. Len(c),
         \A j \in 0 .. len : SubSeq(c, 1, j) \in DOMAIN t => SubSeq(c, 1, j) \in Dirs(t)
  PROVE  /\ IsTree(Made(t, c, len)) /\ IsFcn(Made(t, c, len))
         /\ \A j \in 0 .. len : SubSeq(c, 1, j) \in Dirs(Made(t, c, len))
         /\ Dirs(t) \subseteq Dirs(Made(t, c, len))
  <1> DEFINE X == {SubSeq(c, 1, j) : j \in 0 .. len}
             m == Made(t, c, len)
  <1>0. Len(c) \in Nat
    BY LenProperties
  <1>1. /\ IsFcn(m) /\ DOMAIN m = DOMAIN t \cup X /\ \A p \in DOMAIN t : m[p] = t[p]
        /\ \A p \in X \ DOMAIN t : m[p].k = "dir"
    BY DEF Made, Over, NewDir, IsFcn
  <1>2. ASSUME NEW j \in 0 .. len PROVE SubSeq(c, 1, j) \in Seq(Names) /\ Len(SubSeq(c, 1, j)) = j
    <2>1. j \in Int /\ \A i \in 1 .. j : c[i] \in Names
      BY <1>0, LenProperties
    <2>2. /\ SubSeq(c, 1, j) \in Seq(Names)
          /\ Len(SubSeq(c, 1, j)) = IF 1 <= j THEN j - 1 + 1 ELSE 0
      BY <2>1, SubSeqProperties
    <2> QED
      BY <2>2, <1>0
  <1>3. ASSUME NEW j \in 0 .. len, SubSeq(c, 1, j) # << >>
        PROVE  j - 1 \in 0 .. len /\ Front(SubSeq(c, 1, j)) = SubSeq(c, 1, j - 1)
    <2>1. j \in 1 .. len
      <3>1. j # 0
        BY <1>3, <1>2, EmptySeq
      <3> QED
        BY <3>1, <1>0
    <2>2. SubSeq(c, 1, j) = [i \in 1 .. j |-> c[i]] /\ SubSeq(c, 1, j - 1) = [i \in 1 .. j - 1 |-> c[i]]
      BY <2>1, <1>0
    <2> DEFINE s == SubSeq(c, 1, j)
    <2>3. s \in Seq(Names) /\ Len(s) = j /\ s # << >> /\ \A i \in 1 .. j : s[i] = c[i]
      BY <2>2, <1>2, <1>3
    <2> HIDE DEF s
    <2>4. SubSeq(s, 1, j - 1) = [i \in 1 .. j - 1 |-> s[i]]
      BY <2>1, <2>3, <1>0
    <2>5. SubSeq(s, 1, j - 1) = SubSeq(c, 1, j - 1)
      BY <2>1, <2>2, <2>3, <2>4, <1>0
    <2> QED
      BY <2>1, <2>3, <2>5, <1>0 DEF Front, s
  <1> HIDE DEF m
  <1>4. X \subseteq Dirs(m) /\ Dirs(t) \subseteq Dirs(m)
    BY <1>1 DEF Dirs
  <1>5. DOMAIN m \subseteq Seq(Names)
    BY <1>1, <1>2, TreePaths
  <1>6. ASSUME NEW p \in DOMAIN m, p # << >> PROVE Front(p) \in Dirs(m)
    <2>1. CASE p \in DOMAIN t
      BY <2>1, <1>4, <1>6, TreePaths
    <2>2. CASE p \in X
      BY <2>2, <1>3, <1>4, <1>6
    <2> QED
      BY <2>1, <2>2, <1>1
  <1>7. ASSUME NEW p \in DOMAIN m PROVE LinkOK(m[p])
    <2>1. CASE p \in DOMAIN t
      BY <2>1, <1>1, TreeIs
    <2>2. CASE p \in X \ DOMAIN t
      BY <2>2, <1>1 DEF LinkOK
    <2> QED
      BY <2>1, <2>2, <1>1
  <1>8. IsTree(m)
    BY <1>4, <1>5, <1>6, <1>7, TreePaths, TreeIs
  <1> QED
    BY <1>1, <1>4, <1>8 DEF m
-----------------------------------------------------------------------------
(* The invariant *)

\* Source j has been copied, and there was no reason to fail.
Passed(j) ==
  LET r == Real(ctx, ins.srcs[j]) IN
  /\ Is(ctx, r, "file") \/ Is(ctx, r, "dir")
  /\ \A x \in Below(ctx, r) : ~Is(ctx, x, "fifo")
  /\ ~(Is(ctx, r, "file") /\ Is(Copied[j - 1], Into(Copied[j - 1], canon, ins.srcs[j]), "dir"))

\* The destination has been found and made, and n - 1 sources are copied.
Copying ==
  /\ SourcesOK /\ parts = << >> /\ DestOK(img, canon)
  /\ \A j \in 1 .. n - 1 : Passed(j)
  /\ IsTree(Copied[n - 1]) /\ IsFcn(Copied[n - 1]) /\ IsFcn(tree)
  /\ IntoDir => canon \in Dirs(Copied[n - 1])
  /\ canon # << >> => Front(canon) \in Dirs(Copied[n - 1])

\* The image has the directories that it should have, and it is what it should
\* be if nothing dangles.
Agrees(t) == Dirs(tree) = Dirs(t) /\ (NothingDangles => tree = t)

\* A part of source n is merged, and the walk has yet to do what is next to it.
Walking ==
  LET r == Real(ctx, ins.srcs[n]) IN
  /\ n <= Len(ins.srcs) /\ r \in Dirs(ctx)
  /\ \E D \in SUBSET Inside(ctx, r) :
       /\ IsPart(ctx, r, D) /\ todo = Frontier(ctx, r, D)
       /\ \A x \in D : ~Is(ctx, x, "fifo")
       /\ Agrees(Merge(ctx, Copied[n - 1], r, canon, D))

CInv ==
  /\ ctx \in Contexts /\ img \in Images /\ ins \in Instrs
  /\ TypeOK
  /\ canon \in Seq(Names) /\ parts \in Seq(Names \cup {"/"})
  /\ pc = "prepare" => tree = img /\ n = 1
  /\ pc = "realpath" => SourcesOK /\ tree = img /\ n = 1
  /\ pc = "source" => Copying /\ Agrees(Copied[n - 1])
  /\ pc = "walk" => Copying /\ Walking
  /\ CopyIsMerge

LEMMA Sources ==
  ASSUME CInv
  PROVE  /\ IsTree(ctx) /\ IsTree(img) /\ ins.srcs \in Seq(Seq(Names)) /\ Len(ins.srcs) \in Nat
         /\ Len(ins.srcs) > 0 /\ DOMAIN ins.srcs = 1 .. Len(ins.srcs)
         /\ ins.dst \in Seq(Names \cup {"/"})
  <1>1. IsTree(ctx) /\ IsTree(img)
    BY TreesAssumption DEF CInv
  <1>2. ins.srcs \in Seq(Seq(Names)) /\ ins.srcs # << >> /\ ins.dst \in Seq(Names \cup {"/"})
    BY InstrsAssumption DEF CInv
  <1>3. Len(ins.srcs) \in Nat \ {0} /\ DOMAIN ins.srcs = 1 .. Len(ins.srcs)
    BY <1>2, LenProperties, EmptySeq
  <1> QED
    BY <1>1, <1>2, <1>3

LEMMA Same ==
  ASSUME UNCHANGED <<inputs, canon>>
  PROVE  /\ ctx' = ctx /\ img' = img /\ ins' = ins /\ canon' = canon
         /\ Copied' = Copied
         /\ SourcesOK' <=> SourcesOK
         /\ IntoDir' <=> IntoDir
         /\ DestOK(img, canon)' <=> DestOK(img, canon)
         /\ NothingDangles' <=> NothingDangles
         /\ \A j : Passed(j)' <=> Passed(j)
  <1>1. ctx' = ctx /\ img' = img /\ ins' = ins /\ canon' = canon /\ samefs' = samefs
    BY DEF inputs
  <1>2. IntoDir' <=> IntoDir
    BY <1>1 DEF IntoDir, Is, Real, Absolute
  <1>3. Depth' = Depth
    BY <1>1, <1>2 DEF Depth
  <1>4. Copied' = Copied
    BY <1>1, <1>3 DEF Copied
  <1>5. SourcesOK' <=> SourcesOK
    BY <1>1 DEF SourcesOK
  <1>6. DestOK(img, canon)' <=> DestOK(img, canon)
    BY <1>1, <1>2 DEF DestOK
  <1>7. NothingDangles' <=> NothingDangles
    BY <1>1, <1>4 DEF NothingDangles
  <1>8. \A j : Passed(j)' <=> Passed(j)
    BY <1>1, <1>4 DEF Passed
  <1> QED
    BY <1>1, <1>2, <1>4, <1>5, <1>6, <1>7, <1>8

LEMMA FatalStep ==
  ASSUME CInv, Fatal, NothingDangles => Reason
  PROVE  CInv'
  <1>1. UNCHANGED <<inputs, canon>> /\ UNCHANGED <<tree, parts, iter_ct, n, todo>> /\ pc' = "fatal"
    BY DEF Fatal
  <1>2. /\ ctx' = ctx /\ img' = img /\ ins' = ins /\ canon' = canon
        /\ Copied' = Copied /\ (SourcesOK' <=> SourcesOK)
        /\ (DestOK(img, canon)' <=> DestOK(img, canon))
        /\ (NothingDangles' <=> NothingDangles)
    BY <1>1, Same
  <1>3. Reason' <=> Reason
    BY <1>1, <1>2 DEF Reason
  <1>4. CopyIsMerge'
    BY <1>1, <1>2, <1>3 DEF CopyIsMerge
  <1>5. TypeOK'
    BY <1>1, <1>2 DEF CInv, TypeOK
  <1> QED
    BY <1>1, <1>2, <1>4, <1>5 DEF CInv

LEMMA InitOK == Init => CInv
  <1> SUFFICES ASSUME Init PROVE CInv
    OBVIOUS
  <1>1. ctx \in Contexts /\ img \in Images /\ ins \in Instrs
    BY DEF Init
  <1>2. IsTree(img)
    BY <1>1, TreesAssumption
  <1>3. ins.srcs \in Seq(Seq(Names))
    BY <1>1, InstrsAssumption
  <1>4. Len(ins.srcs) \in Nat
    BY <1>3, LenProperties
  <1>5. TypeOK
    BY <1>2, <1>4 DEF Init, TypeOK
  <1>6. canon \in Seq(Names) /\ parts \in Seq(Names \cup {"/"})
    BY EmptySeq DEF Init
  <1> QED
    BY <1>1, <1>5, <1>6 DEF Init, CInv, CopyIsMerge

LEMMA PrepareOK ==
  ASSUME CInv, Prepare
  PROVE  CInv'
  <1>1. UNCHANGED <<inputs, canon>> /\ UNCHANGED <<tree, iter_ct, n, todo>>
        /\ pc = "prepare" /\ pc' = "realpath" /\ SourcesOK
    BY DEF Prepare
  <1>2. ctx' = ctx /\ img' = img /\ ins' = ins /\ canon' = canon /\ (SourcesOK' <=> SourcesOK)
    BY <1>1, Same
  <1>3. parts' \in Seq(Names \cup {"/"})
    <2>1. ins.dst \in Seq(Names \cup {"/"}) /\ Workdir \in Seq(Names \cup {"/"})
      BY Sources, InstrsAssumption
    <2>2. Workdir \o ins.dst \in Seq(Names \cup {"/"})
      BY <2>1, ConcatProperties
    <2> QED
      BY <2>1, <2>2 DEF Prepare
  <1>4. TypeOK'
    BY <1>1, <1>2 DEF CInv, TypeOK
  <1>5. CopyIsMerge'
    BY <1>1 DEF CopyIsMerge
  <1> QED
    BY <1>1, <1>2, <1>3, <1>4, <1>5 DEF CInv

LEMMA RealpathOK ==
  ASSUME CInv, dest_realpath
  PROVE  CInv'
  <1>1. /\ UNCHANGED inputs /\ UNCHANGED <<tree, n, todo>> /\ pc = "realpath" /\ pc' = "realpath"
        /\ parts # << >> /\ iter_ct < 100 /\ iter_ct' = iter_ct + 1
    BY DEF dest_realpath
  <1>2. ctx' = ctx /\ img' = img /\ ins' = ins
    BY <1>1 DEF inputs
  <1>3. SourcesOK'
    BY <1>1, <1>2 DEF CInv, SourcesOK
  <1>4. TypeOK'
    BY <1>1, <1>2 DEF CInv, TypeOK
  <1>5. canon' \in Seq(Names) /\ parts' \in Seq(Names \cup {"/"})
    <2> DEFINE cand == Append(canon, Head(parts))
    <2>1. parts \in Seq(Names \cup {"/"}) /\ canon \in Seq(Names) /\ IsTree(tree)
      BY DEF CInv, TypeOK
    <2>2. Tail(parts) \in Seq(Names \cup {"/"}) /\ Head(parts) \in Names \cup {"/"}
      BY <2>1, <1>1, HeadTailProperties
    <2>3. CASE Head(parts) = "/"
      BY <2>1, <2>2, <2>3 DEF dest_realpath
    <2>4. CASE Head(parts) # "/" /\ ~Is(tree, cand, "sym")
      <3>1. cand \in Seq(Names)
        BY <2>1, <2>2, <2>4, AppendProperties
      <3>2. parts' = Tail(parts) /\ canon' = cand
        BY <2>4 DEF dest_realpath
      <3> QED
        BY <3>1, <3>2, <2>2
    <2>5. CASE Head(parts) # "/" /\ Is(tree, cand, "sym")
      <3>1. parts' = tree[cand].v \o Tail(parts) /\ (canon' = << >> \/ canon' = canon)
        BY <2>5 DEF dest_realpath
      <3>2. cand \in DOMAIN tree /\ tree[cand].k = "sym"
        BY <2>5 DEF Is
      <3>3. LinkOK(tree[cand])
        BY <3>2, <2>1, TreeIs
      <3>4. tree[cand].v \in Seq(Names \cup {"/"})
        BY <3>2, <3>3 DEF LinkOK
      <3>5. tree[cand].v \o Tail(parts) \in Seq(Names \cup {"/"})
        BY <3>4, <2>2, ConcatProperties
      <3> QED
        BY <3>1, <3>5, <2>1, EmptySeq
    <2> QED
      BY <2>3, <2>4, <2>5
  <1>6. CopyIsMerge'
    BY <1>1 DEF CopyIsMerge
  <1> QED
    BY <1>1, <1>2, <1>3, <1>4, <1>5, <1>6 DEF CInv
\* The reference copies one source after the other.
LEMMA CopiedIs ==
  ASSUME CInv
  PROVE  /\ Copied[0] = Made(img, canon, Depth)
         /\ \A j \in 1 .. Len(ins.srcs) : Copied[j] = CopyOne(ctx, Copied[j - 1], ins.srcs[j], canon)
  <1>1. IsCopies(ctx, Made(img, canon, Depth), ins.srcs, canon, Len(ins.srcs), Copied)
    BY Sources, CopyAllIs DEF Copied
  <1> QED
    BY <1>1 DEF IsCopies

LEMMA MakeDestOK ==
  ASSUME CInv, MakeDest
  PROVE  CInv'
  <1>1. /\ UNCHANGED <<inputs, canon>> /\ UNCHANGED <<parts, iter_ct, n, todo>>
        /\ pc = "realpath" /\ pc' = "source" /\ parts = << >> /\ DestOK(tree, canon)
        /\ tree' = Made(tree, canon, Depth)
    BY DEF MakeDest
  <1>2. SourcesOK /\ tree = img /\ n = 1 /\ canon \in Seq(Names) /\ IsTree(img)
    BY <1>1, Sources DEF CInv
  <1>3. /\ ctx' = ctx /\ img' = img /\ ins' = ins /\ canon' = canon /\ Copied' = Copied
        /\ (SourcesOK' <=> SourcesOK) /\ (IntoDir' <=> IntoDir)
        /\ (DestOK(img, canon)' <=> DestOK(img, canon))
    BY <1>1, Same
  <1>4. Len(canon) \in Nat
    BY <1>2, LenProperties
  <1> DEFINE m == Made(img, canon, Depth)
  <1>5. Depth \in -1 .. Len(canon) /\ (IntoDir => Depth = Len(canon)) /\ Depth >= Len(canon) - 1
    BY <1>4 DEF Depth
  <1>6. SubSeq(canon, 1, Len(canon)) = canon
    BY <1>2, SubSeqFull
  <1>7. ASSUME NEW j \in 0 .. Depth, SubSeq(canon, 1, j) \in DOMAIN img
        PROVE  SubSeq(canon, 1, j) \in Dirs(img)
    <2>1. CASE j \in 0 .. Len(canon) - 1
      BY <2>1, <1>1, <1>2, <1>7, DirsAre DEF DestOK
    <2>2. CASE j = Len(canon) /\ IntoDir
      BY <2>2, <1>1, <1>2, <1>6, <1>7, DirsAre DEF DestOK
    <2>3. j = Len(canon) => IntoDir
      BY <1>4 DEF Depth
    <2>4. j \in 0 .. Len(canon) - 1 \/ j = Len(canon)
      BY <1>4, <1>5
    <2> QED
      BY <2>1, <2>2, <2>3, <2>4
  <1>8. IsTree(m) /\ IsFcn(m) /\ \A j \in 0 .. Depth : SubSeq(canon, 1, j) \in Dirs(m)
    BY <1>2, <1>5, <1>7, MadeTree
  <1>9. tree' = m /\ Copied[0] = m
    BY <1>1, <1>2, CopiedIs
  <1> HIDE DEF m
  <1>10. IntoDir => canon \in Dirs(m)
    <2>1. SUFFICES ASSUME IntoDir PROVE canon \in Dirs(m)
      OBVIOUS
    <2>2. Len(canon) \in 0 .. Depth
      BY <2>1, <1>4, <1>5
    <2>3. SubSeq(canon, 1, Len(canon)) \in Dirs(m)
      BY <2>2, <1>8
    <2> QED
      BY <2>3, <1>6
  <1>11. canon # << >> => Front(canon) \in Dirs(m)
    <2>1. SUFFICES ASSUME canon # << >> PROVE Front(canon) \in Dirs(m)
      OBVIOUS
    <2>2. Len(canon) > 0
      BY <2>1, <1>2, EmptySeq
    <2>3. Len(canon) - 1 \in 0 .. Depth
      BY <2>2, <1>4, <1>5
    <2> QED
      BY <2>3, <1>8 DEF Front
  <1>12. n' = 1 /\ n' - 1 = 0
    BY <1>1, <1>2
  <1>13. Copying'
    BY <1>1, <1>2, <1>3, <1>8, <1>9, <1>10, <1>11, <1>12 DEF Copying
  <1>14. Agrees(Copied[n - 1])'
    BY <1>3, <1>9, <1>12 DEF Agrees
  <1>15. TypeOK'
    BY <1>1, <1>3, <1>8, <1>9 DEF CInv, TypeOK
  <1>16. CopyIsMerge'
    BY <1>1 DEF CopyIsMerge
  <1> QED
    BY <1>1, <1>3, <1>13, <1>14, <1>15, <1>16 DEF CInv

\* At the source at hand.
LEMMA AtSource ==
  ASSUME CInv, pc \in {"source", "walk"}, n <= Len(ins.srcs)
  PROVE  /\ Copying /\ n \in 1 .. Len(ins.srcs) /\ n \in DOMAIN ins.srcs /\ n \in Nat
         /\ ins.srcs[n] \in DOMAIN ctx /\ ins.srcs[n] \in Seq(Names)
         /\ IsTree(ctx) /\ IsTree(tree) /\ IsFcn(tree) /\ canon \in Seq(Names)
         /\ IsTree(Copied[n - 1]) /\ IsFcn(Copied[n - 1])
         /\ Copied[n] = CopyOne(ctx, Copied[n - 1], ins.srcs[n], canon)
  <1>1. Copying /\ n \in 1 .. Len(ins.srcs) + 1 /\ IsTree(tree) /\ canon \in Seq(Names)
    BY DEF CInv, TypeOK
  <1>2. /\ IsTree(ctx) /\ Len(ins.srcs) \in Nat /\ DOMAIN ins.srcs = 1 .. Len(ins.srcs)
    BY Sources
  <1>3. n \in 1 .. Len(ins.srcs)
    BY <1>1, <1>2
  <1>4. Copied[n] = CopyOne(ctx, Copied[n - 1], ins.srcs[n], canon)
    BY <1>3, CopiedIs
  <1>5. ins.srcs[n] \in DOMAIN ctx
    BY <1>1, <1>2, <1>3 DEF Copying, SourcesOK, Range
  <1>6. ins.srcs[n] \in Seq(Names)
    BY <1>2, <1>5, TreePaths
  <1> QED
    BY <1>1, <1>2, <1>3, <1>4, <1>5, <1>6 DEF Copying

LEMMA AppendFront ==
  ASSUME NEW N, NEW s \in Seq(N), NEW e \in N
  PROVE  Append(s, e) \in Seq(N) /\ Append(s, e) # << >> /\ Front(Append(s, e)) = s
         /\ IsPrefix(s, Append(s, e))
  <1> DEFINE a == Append(s, e)
  <1>0. Len(s) \in Nat
    BY LenProperties
  <1>1. a \in Seq(N) /\ Len(a) = Len(s) + 1 /\ \A i \in 1 .. Len(s) : a[i] = s[i]
    BY AppendProperties
  <1> HIDE DEF a
  <1>2. IsPrefix(s, a)
    BY <1>0, <1>1, PrefixIs
  <1>3. a # << >> /\ Front(a) = s
    BY <1>1, <1>2, ChildIs
  <1> QED
    BY <1>1, <1>2, <1>3 DEF a

\* Where a file named as a source goes.
LEMMA FilePlace ==
  ASSUME CInv, pc = "source", n <= Len(ins.srcs), Is(ctx, Real(ctx, ins.srcs[n]), "file"),
         NEW p, p = Into(Copied[n - 1], canon, ins.srcs[n])
  PROVE  /\ p \in Seq(Names) /\ p # << >> /\ Front(p) \in Dirs(Copied[n - 1])
         /\ IsPrefix(canon, p) /\ p = Into(tree, canon, ins.srcs[n])
  <1> DEFINE s == ins.srcs[n]
             B == Copied[n - 1]
  <1>0. /\ s \in DOMAIN ctx /\ s \in Seq(Names) /\ IsTree(ctx) /\ canon \in Seq(Names) /\ IsTree(B)
        /\ Copying
    BY AtSource
  <1>1. s # << >>
    <2>1. SUFFICES ASSUME s = << >> PROVE FALSE
      OBVIOUS
    <2>2. s \in Dirs(ctx)
      BY <2>1, <1>0, TreePaths
    <2> QED
      BY <2>2 DEF Real, Is, Dirs
  <1>2. Last(s) \in Names
    BY <1>0, <1>1, FrontIs
  <1>3. Dirs(tree) = Dirs(B)
    BY DEF CInv, Agrees
  <1>4. p = Into(tree, canon, s)
    BY <1>3, DirsAre DEF Into
  <1>5. CASE canon \in Dirs(B)
    <2>1. p = Append(canon, Last(s))
      BY <1>5, DirsAre DEF Into
    <2>2. p \in Seq(Names) /\ p # << >> /\ Front(p) = canon /\ IsPrefix(canon, p)
      BY <2>1, <1>0, <1>2, AppendFront
    <2> QED
      BY <2>2, <1>4, <1>5
  <1>6. CASE canon \notin Dirs(B)
    <2>1. p = canon
      BY <1>6, DirsAre DEF Into
    <2>2. canon # << >> /\ IsPrefix(canon, canon)
      BY <1>0, <1>6, TreePaths, PrefixOrder
    <2>3. Front(canon) \in Dirs(B)
      BY <2>2, <1>0 DEF Copying
    <2> QED
      BY <2>1, <2>2, <2>3, <1>0, <1>4
  <1> QED
    BY <1>5, <1>6
\* If nothing dangles, a file named as a source meets no link, unless it is
\* on the same file system.
LEMMA FileMeets ==
  ASSUME CInv, pc = "source", n <= Len(ins.srcs), Is(ctx, Real(ctx, ins.srcs[n]), "file"),
         NothingDangles, NEW p, p = Into(Copied[n - 1], canon, ins.srcs[n]),
         NEW e, e = ctx[Real(ctx, ins.srcs[n])]
  PROVE  CopyEntry(tree, e, p) = IF p \in Dirs(tree) THEN {} ELSE {With(tree, p, e)}
  <1> DEFINE B == Copied[n - 1]
  <1>1. p \in Seq(Names) /\ p # << >> /\ Front(p) \in Dirs(B) /\ IsPrefix(canon, p)
    BY FilePlace
  <1>2. tree = B /\ n \in DOMAIN ins.srcs
    BY AtSource DEF CInv, Agrees
  <1>3. e.k = "file" /\ ~Is(ctx, Real(ctx, ins.srcs[n]), "dir")
    BY DEF Is
  <1>4. ASSUME ~Fast(e), Is(B, p, "sym") PROVE FALSE
    <2>1. ~samefs
      BY <1>3, <1>4 DEF Fast
    <2>2. p \in DOMAIN B
      BY <1>4 DEF Is
    <2>3. samefs \/ Is(ctx, Real(ctx, ins.srcs[n]), "dir")
      BY <2>2, <1>1, <1>2, <1>4 DEF NothingDangles
    <2> QED
      BY <2>1, <2>3, <1>3
  <1>5. CASE Fast(e)
    BY <1>5 DEF CopyEntry, Is, Dirs
  <1>6. CASE ~Fast(e)
    <2>1. Real(tree, p) = p
      BY <1>2, <1>4, <1>6 DEF Real
    <2>2. ~Absolute(p)
      <3>1. Head(p) \in Names
        BY <1>1, HeadTailProperties
      <3> QED
        BY <3>1, TreesAssumption DEF Absolute
    <2>3. Is(tree, Front(p), "dir")
      BY <1>1, <1>2, DirsAre
    <2> QED
      BY <2>1, <2>2, <2>3, <1>3, <1>6, DirsAre DEF CopyEntry
  <1> QED
    BY <1>5, <1>6

LEMMA CopySrcFileOK ==
  ASSUME CInv, CopySrcFile
  PROVE  CInv'
  <1> DEFINE s == ins.srcs[n]
             r == Real(ctx, s)
             e == ctx[r]
             B == Copied[n - 1]
             p == Into(B, canon, s)
  <1>1. pc = "source" /\ n <= Len(ins.srcs) /\ Is(ctx, r, "file")
    BY DEF CopySrcFile
  <1>2. /\ Copying /\ n \in 1 .. Len(ins.srcs) /\ n \in DOMAIN ins.srcs /\ n \in Nat
        /\ IsTree(ctx) /\ IsTree(tree) /\ IsFcn(tree) /\ canon \in Seq(Names)
        /\ IsTree(B) /\ IsFcn(B) /\ Copied[n] = CopyOne(ctx, B, s, canon)
    BY <1>1, AtSource
  <1>3. /\ p \in Seq(Names) /\ p # << >> /\ Front(p) \in Dirs(B)
        /\ p = Into(tree, canon, s)
    BY <1>1, FilePlace
  <1>4. Dirs(tree) = Dirs(B) /\ (NothingDangles => tree = B)
    BY <1>1 DEF CInv, Agrees
  <1>5. r \in DOMAIN ctx /\ e.k = "file" /\ LinkOK(e)
    BY <1>1 DEF Is, LinkOK
  <1>6. NothingDangles => CopyEntry(tree, e, p) = IF p \in Dirs(tree) THEN {} ELSE {With(tree, p, e)}
    BY <1>1, FileMeets
  <1>7. \/ /\ tree' \in CopyEntry(tree, e, p) /\ n' = n + 1
           /\ UNCHANGED <<inputs, pc, parts, canon, iter_ct, todo>>
        \/ CopyEntry(tree, e, p) = {} /\ Fatal
    BY <1>3 DEF CopySrcFile
  <1>8. CASE CopyEntry(tree, e, p) = {} /\ Fatal
    <2>1. SUFFICES ASSUME NothingDangles PROVE Reason
      BY <1>8, FatalStep
    <2>2. p \in Dirs(tree)
      BY <2>1, <1>6, <1>8
    <2>3. Is(B, p, "dir")
      BY <2>2, <1>4, DirsAre
    <2> QED
      BY <2>3, <1>1, <1>2 DEF Reason
  <1>9. CASE /\ tree' \in CopyEntry(tree, e, p) /\ n' = n + 1
             /\ UNCHANGED <<inputs, pc, parts, canon, iter_ct, todo>>
    <2>0. UNCHANGED <<inputs, canon>> /\ UNCHANGED <<pc, parts, iter_ct, todo>>
      BY <1>9
    <2>1. /\ ctx' = ctx /\ img' = img /\ ins' = ins /\ canon' = canon
          /\ Copied' = Copied /\ (SourcesOK' <=> SourcesOK) /\ (IntoDir' <=> IntoDir)
          /\ (DestOK(img, canon)' <=> DestOK(img, canon))
          /\ (NothingDangles' <=> NothingDangles) /\ \A j : Passed(j)' <=> Passed(j)
      BY <2>0, Same
    <2>2. IsTree(tree') /\ IsFcn(tree') /\ Dirs(tree') = Dirs(tree) /\ p \notin Dirs(tree)
      BY <1>2, <1>3, <1>4, <1>5, <1>9, CopyEntryTree
    <2>3. Copied[n] = With(B, p, e)
      <3>1. ~Is(ctx, r, "dir")
        BY <1>5 DEF Is
      <3>2. Copied[n] = Put(B, e, p)
        BY <3>1, <1>2 DEF CopyOne
      <3> QED
        BY <3>2, <2>2, <1>2, <1>3, <1>4, <1>5, PutIs
    <2>4. IsTree(Copied[n]) /\ IsFcn(Copied[n]) /\ Dirs(Copied[n]) = Dirs(B)
      <3> HIDE DEF p, e, B
      <3>1. /\ IsTree(With(B, p, e)) /\ IsFcn(With(B, p, e))
            /\ Dirs(With(B, p, e)) = Dirs(B) \cup (IF e.k = "dir" THEN {p} ELSE {})
        BY <2>2, <1>2, <1>3, <1>4, <1>5, WithTree
      <3> QED
        BY <3>1, <2>3, <1>5
    <2>5. Passed(n)
      <3>1. r \in Seq(Names) /\ r \notin Dirs(ctx)
        BY <1>2, <1>5, TreePaths DEF Dirs
      <3>2. \A x \in Below(ctx, r) : x = r
        BY <3>1, <1>2, TreeBelow DEF Below
      <3>3. \A x \in Below(ctx, r) : ~Is(ctx, x, "fifo")
        BY <3>2, <1>5 DEF Is
      <3>4. ~Is(B, p, "dir")
        BY <2>2, <1>4, DirsAre
      <3> QED
        BY <3>3, <3>4, <1>1 DEF Passed
    <2>6. n' - 1 = n /\ n' \in 1 .. Len(ins.srcs) + 1 /\ \A j \in 1 .. n : j = n \/ j \in 1 .. n - 1
      BY <1>2, <1>9
    <2>7. \A j \in 1 .. n : Passed(j)
      BY <2>5, <2>6, <1>2 DEF Copying
    <2>8. Copying'
      BY <2>0, <2>1, <2>2, <2>4, <2>6, <2>7, <1>2 DEF Copying
    <2>9. NothingDangles => tree' = Copied[n]
      BY <2>2, <2>3, <1>4, <1>6, <1>9
    <2>10. Agrees(Copied[n - 1])'
      BY <2>1, <2>2, <2>4, <2>6, <2>9, <1>4 DEF Agrees
    <2>11. TypeOK'
      BY <2>0, <2>1, <2>2, <2>6 DEF CInv, TypeOK
    <2>12. CopyIsMerge'
      BY <2>0, <1>1 DEF CopyIsMerge
    <2> QED
      BY <2>0, <2>1, <2>8, <2>10, <2>11, <2>12, <1>1 DEF CInv
  <1> QED
    BY <1>7, <1>8, <1>9
\* The destination of a directory is a directory.
LEMMA DirPlace ==
  ASSUME CInv, pc \in {"source", "walk"}, n <= Len(ins.srcs), Real(ctx, ins.srcs[n]) \in Dirs(ctx)
  PROVE  Merging(ctx, Copied[n - 1], Real(ctx, ins.srcs[n]), canon)
  <1>1. Copying /\ n \in 1 .. Len(ins.srcs) /\ IsTree(ctx) /\ IsTree(Copied[n - 1])
    BY AtSource
  <1>2. Len(ins.srcs) \in Nat
    BY Sources
  <1>3. IntoDir
    <2>1. CASE Len(ins.srcs) > 1
      BY <2>1 DEF IntoDir
    <2>2. CASE Len(ins.srcs) <= 1
      <3>1. n = 1
        BY <2>2, <1>1, <1>2
      <3> QED
        BY <3>1, DirsAre DEF IntoDir
    <2> QED
      BY <2>1, <2>2, <1>2
  <1> QED
    BY <1>1, <1>3 DEF Merging, Copying

LEMMA CopySrcDirOK ==
  ASSUME CInv, CopySrcDir
  PROVE  CInv'
  <1> DEFINE r == Real(ctx, ins.srcs[n])
             B == Copied[n - 1]
  <1>1. /\ pc = "source" /\ pc' = "walk" /\ n <= Len(ins.srcs) /\ r \in Dirs(ctx)
        /\ UNCHANGED <<inputs, canon>> /\ UNCHANGED <<tree, parts, iter_ct, n>>
        /\ todo' = Children(ctx, r)
    BY DirsAre DEF CopySrcDir
  <1>2. /\ ctx' = ctx /\ img' = img /\ ins' = ins /\ canon' = canon
        /\ Copied' = Copied /\ (SourcesOK' <=> SourcesOK) /\ (IntoDir' <=> IntoDir)
        /\ (DestOK(img, canon)' <=> DestOK(img, canon))
        /\ (NothingDangles' <=> NothingDangles) /\ \A j : Passed(j)' <=> Passed(j)
    BY <1>1, Same
  <1>3. Copying /\ IsTree(ctx) /\ IsFcn(B)
    BY <1>1, AtSource
  <1>4. Merging(ctx, B, r, canon)
    BY <1>1, DirPlace
  <1>5. IsPart(ctx, r, {}) /\ todo' = Frontier(ctx, r, {})
    BY <1>1, <1>3, FrontierStart
  <1>6. Merge(ctx, B, r, canon, {}) = B
    <2>1. Merged(ctx, B, r, canon, {}, B)
      BY <1>3, MergeNone
    <2>2. Merged(ctx, B, r, canon, {}, Merge(ctx, B, r, canon, {}))
      BY <1>4, MergeMerged
    <2> HIDE DEF B, r
    <2> QED
      BY <2>1, <2>2, MergedOne
  <1>7. Agrees(B)
    BY <1>1 DEF CInv
  <1>8. Agrees(Merge(ctx, Copied[n - 1], r, canon, {}))'
    BY <1>1, <1>2, <1>6, <1>7 DEF Agrees
  <1>9. Walking'
    <2>1. {} \in SUBSET Inside(ctx, r)
      OBVIOUS
    <2> QED
      BY <2>1, <1>1, <1>2, <1>5, <1>8 DEF Walking
  <1>10. Copying'
    BY <1>1, <1>2, <1>3 DEF Copying
  <1>11. todo' \subseteq DOMAIN ctx
    BY <1>1 DEF Children
  <1>12. TypeOK'
    BY <1>1, <1>2, <1>11 DEF CInv, TypeOK
  <1>13. CopyIsMerge'
    BY <1>1 DEF CopyIsMerge
  <1> QED
    BY <1>1, <1>2, <1>9, <1>10, <1>12, <1>13 DEF CInv

LEMMA WalkEndOK ==
  ASSUME CInv, WalkEnd
  PROVE  CInv'
  <1> DEFINE r == Real(ctx, ins.srcs[n])
             B == Copied[n - 1]
  <1>1. /\ pc = "walk" /\ pc' = "source" /\ n' = n + 1 /\ todo = {}
        /\ UNCHANGED <<inputs, canon>> /\ UNCHANGED <<tree, parts, iter_ct, todo>>
    BY DEF WalkEnd
  <1>2. /\ ctx' = ctx /\ img' = img /\ ins' = ins /\ canon' = canon
        /\ Copied' = Copied /\ (SourcesOK' <=> SourcesOK) /\ (IntoDir' <=> IntoDir)
        /\ (DestOK(img, canon)' <=> DestOK(img, canon))
        /\ (NothingDangles' <=> NothingDangles) /\ \A j : Passed(j)' <=> Passed(j)
    BY <1>1, Same
  <1>3. n <= Len(ins.srcs) /\ r \in Dirs(ctx)
    BY <1>1 DEF CInv, Walking
  <1>4. PICK D \in SUBSET Inside(ctx, r) :
          /\ IsPart(ctx, r, D) /\ todo = Frontier(ctx, r, D)
          /\ \A x \in D : ~Is(ctx, x, "fifo")
          /\ Agrees(Merge(ctx, B, r, canon, D))
    BY <1>1 DEF CInv, Walking
  <1>5. /\ Copying /\ n \in 1 .. Len(ins.srcs) /\ n \in Nat
        /\ IsTree(ctx) /\ IsTree(tree) /\ IsFcn(tree) /\ IsTree(B)
        /\ Copied[n] = CopyOne(ctx, B, ins.srcs[n], canon)
    BY <1>1, <1>3, AtSource
  <1>6. Merging(ctx, B, r, canon)
    BY <1>1, <1>3, DirPlace
  <1>7. D = Inside(ctx, r)
    BY <1>1, <1>3, <1>4, <1>5, FrontierEnd
  <1>8. Copied[n] = Merge(ctx, B, r, canon, D)
    <2>1. Is(ctx, r, "dir")
      BY <1>3, DirsAre
    <2> QED
      BY <2>1, <1>5, <1>7 DEF CopyOne, Inside
  <1>9. Merged(ctx, B, r, canon, D, Copied[n])
    BY <1>6, <1>8, MergeMerged
  <1>10. IsTree(Copied[n]) /\ canon \in Dirs(Copied[n]) /\ IsFcn(Copied[n])
    <2>1. IsFcn(Copied[n])
      BY <1>9 DEF Merged
    <2>2. IsTree(Copied[n]) /\ canon \in Dirs(Copied[n])
      BY <1>4, <1>6, <1>9, MergeTree
    <2> QED
      BY <2>1, <2>2
  <1>11. canon # << >> => Front(canon) \in Dirs(Copied[n])
    BY <1>10, TreePaths DEF Dirs
  <1>12. Passed(n)
    <2>1. Is(ctx, r, "dir") /\ ~Is(ctx, r, "file")
      BY <1>3 DEF Is, Dirs
    <2>2. \A x \in Below(ctx, r) : ~Is(ctx, x, "fifo")
      BY <2>1, <1>4, <1>7 DEF Inside, Is
    <2> QED
      BY <2>1, <2>2 DEF Passed
  <1>13. n' - 1 = n /\ n' \in 1 .. Len(ins.srcs) + 1 /\ \A j \in 1 .. n : j = n \/ j \in 1 .. n - 1
    <2>1. Len(ins.srcs) \in Nat
      BY Sources
    <2> QED
      BY <2>1, <1>1, <1>5
  <1>14. \A j \in 1 .. n : Passed(j)
    BY <1>5, <1>12, <1>13 DEF Copying
  <1>15. Copying'
    BY <1>1, <1>2, <1>5, <1>10, <1>11, <1>13, <1>14 DEF Copying
  <1>16. Agrees(Copied[n - 1])'
    BY <1>1, <1>2, <1>4, <1>8, <1>13 DEF Agrees
  <1>17. TypeOK'
    BY <1>1, <1>2, <1>13 DEF CInv, TypeOK
  <1>18. CopyIsMerge'
    BY <1>1 DEF CopyIsMerge
  <1> QED
    BY <1>1, <1>2, <1>15, <1>16, <1>17, <1>18 DEF CInv
\* If nothing dangles, the next step of the walk succeeds, unless it meets a
\* special file, and is that of the merge.
LEMMA WalkSucceeds ==
  ASSUME CInv, pc = "walk", NothingDangles, NEW r, r = Real(ctx, ins.srcs[n]), NEW D, NEW m, NEW x,
         NEW w, NEW p, r \in Dirs(ctx), n <= Len(ins.srcs), IsPart(ctx, r, D),
         Merged(ctx, Copied[n - 1], r, canon, D, m), x \in Frontier(ctx, r, D),
         p = Moved(x, r, canon), Merged(ctx, Copied[n - 1], r, canon, D \cup {x}, w)
  PROVE  WalkGives(m, ctx[x], p, w)
  <1> DEFINE B == Copied[n - 1]
  <1>1. Merging(ctx, B, r, canon)
    BY DirPlace
  <1>2. x \in Inside(ctx, r) \ D /\ (Front(x) = r \/ Front(x) \in D)
    BY DEF Frontier
  <1>3. n \in DOMAIN ins.srcs /\ Copied[n] = CopyOne(ctx, B, ins.srcs[n], canon)
    BY AtSource
  <1>4. Copied[n] = Merge(ctx, B, r, canon, Inside(ctx, r))
    <2>1. Is(ctx, r, "dir")
      BY DirsAre
    <2> QED
      BY <2>1, <1>3 DEF CopyOne, Inside
  <1>5. Merged(ctx, B, r, canon, Inside(ctx, r), Copied[n])
    BY <1>1, <1>4, MergeMerged
  <1>6. IsPrefix(canon, p)
    BY <1>1, <1>2, MovedPath
  <1>7. Is(B, p, "sym") => Exists(B, p) /\ (Absolute(Real(B, p)) \/ Real(B, p) \in DOMAIN Copied[n])
    <2>1. SUFFICES ASSUME Is(B, p, "sym")
                   PROVE  Exists(B, p) /\ (Absolute(Real(B, p)) \/ Real(B, p) \in DOMAIN Copied[n])
      OBVIOUS
    <2>2. p \in DOMAIN B
      BY <2>1 DEF Is
    <2> QED
      BY <2>1, <2>2, <1>3, <1>6 DEF NothingDangles
  <1> HIDE DEF B
  <1>8. p \in DOMAIN m => Exists(m, p)
    BY <1>1, <1>2, <1>5, <1>7, StillThere DEF B
  <1> QED
    BY <1>1, <1>2, <1>8, WalkMerges DEF B

LEMMA WalkOK ==
  ASSUME CInv, NEW x \in todo, Walk(x)
  PROVE  CInv'
  <1> DEFINE r == Real(ctx, ins.srcs[n])
             B == Copied[n - 1]
             p == Moved(x, r, canon)
             out == IF Is(ctx, x, "dir") THEN WalkDir(tree, ctx[x], p) ELSE WalkFile(tree, ctx[x], p)
  <1>1. /\ pc = "walk"
        /\ \/ /\ tree' \in out /\ todo' = (todo \ {x}) \cup Children(ctx, x)
              /\ UNCHANGED <<inputs, pc, parts, canon, iter_ct, n>>
           \/ out = {} /\ Fatal
    BY DEF Walk, Place
  <1>2. n <= Len(ins.srcs) /\ r \in Dirs(ctx)
    BY <1>1 DEF CInv, Walking
  <1>3. PICK D \in SUBSET Inside(ctx, r) :
          /\ IsPart(ctx, r, D) /\ todo = Frontier(ctx, r, D)
          /\ \A y \in D : ~Is(ctx, y, "fifo")
          /\ Agrees(Merge(ctx, B, r, canon, D))
    BY <1>1 DEF CInv, Walking
  <1>4. /\ Copying /\ n \in DOMAIN ins.srcs /\ IsTree(ctx) /\ IsTree(tree) /\ IsFcn(tree)
    BY <1>1, <1>2, AtSource
  <1>5. Merging(ctx, B, r, canon)
    BY <1>1, <1>2, DirPlace
  <1> DEFINE E == D \cup {x}
             m == Merge(ctx, B, r, canon, D)
             w == Merge(ctx, B, r, canon, E)
  <1>6. x \in Inside(ctx, r) \ D /\ (Front(x) = r \/ Front(x) \in D) /\ x \in Frontier(ctx, r, D)
    BY <1>3 DEF Frontier
  <1>7. x \in DOMAIN ctx /\ IsTree(ctx) /\ (Is(ctx, x, "dir") <=> ctx[x].k = "dir")
        /\ (Is(ctx, x, "fifo") <=> ctx[x].k = "fifo")
    BY <1>4, <1>6 DEF Inside, Below, Is
  <1>8. IsPart(ctx, r, E)
    BY <1>2, <1>3, <1>4, <1>6, PartGrows
  <1>9. Merged(ctx, B, r, canon, D, m) /\ Merged(ctx, B, r, canon, E, w)
    <2>1. E \subseteq Inside(ctx, r)
      BY <1>6
    <2>2. Merged(ctx, B, r, canon, D, m)
      BY <1>5, MergeMerged
    <2> HIDE DEF E
    <2>3. Merged(ctx, B, r, canon, E, w)
      BY <2>1, <1>5, MergeMerged
    <2> QED
      BY <2>2, <2>3
  <1>10. Dirs(tree) = Dirs(m) /\ (NothingDangles => tree = m)
    BY <1>3 DEF Agrees
  <1> HIDE DEF m, w
  <1>11. ASSUME NothingDangles, ctx[x].k # "fifo" PROVE out = {w}
    <2>1. WalkGives(m, ctx[x], p, w)
      BY <1>1, <1>2, <1>3, <1>6, <1>9, <1>11, WalkSucceeds
    <2> QED
      BY <2>1, <1>7, <1>10, <1>11 DEF WalkGives
  <1>12. CASE out = {} /\ Fatal
    <2>1. SUFFICES ASSUME NothingDangles PROVE Reason
      BY <1>12, FatalStep
    <2>2. Is(ctx, x, "fifo")
      BY <2>1, <1>7, <1>11, <1>12
    <2>3. x \in Below(ctx, r)
      BY <1>6 DEF Inside
    <2> QED
      BY <2>2, <2>3, <1>4 DEF Reason
  <1>13. CASE /\ tree' \in out /\ todo' = (todo \ {x}) \cup Children(ctx, x)
              /\ UNCHANGED <<inputs, pc, parts, canon, iter_ct, n>>
    <2>0. UNCHANGED <<inputs, canon>> /\ UNCHANGED <<pc, parts, iter_ct, n>>
      BY <1>13
    <2>1. /\ ctx' = ctx /\ img' = img /\ ins' = ins /\ canon' = canon
          /\ Copied' = Copied /\ (SourcesOK' <=> SourcesOK) /\ (IntoDir' <=> IntoDir)
          /\ (DestOK(img, canon)' <=> DestOK(img, canon))
          /\ (NothingDangles' <=> NothingDangles) /\ \A j : Passed(j)' <=> Passed(j)
      BY <2>0, Same
    <2>2. ctx[x].k # "fifo"
      BY <1>7, <1>13 DEF WalkFile
    <2>3. p \in Seq(Names) /\ p # << >> /\ Front(p) \in Dirs(tree)
      <3>1. Front(p) \in Dirs(m)
        BY <1>3, <1>5, <1>6, <1>9, NextPlace
      <3>2. p \in Seq(Names) /\ p # << >>
        BY <1>5, <1>6, MovedPath
      <3> QED
        BY <3>1, <3>2, <1>10
    <2>4. /\ IsTree(tree') /\ IsFcn(tree')
          /\ Dirs(tree') = DirsAfter(Dirs(tree), ctx[x], p)
      <3> HIDE DEF p
      <3>1. CASE ctx[x].k = "dir"
        <4>1. tree' \in WalkDir(tree, ctx[x], p)
          BY <3>1, <1>7, <1>13
        <4>2. IsTree(tree') /\ IsFcn(tree') /\ Dirs(tree') = Dirs(tree) \cup {p}
          BY <4>1, <3>1, <2>3, <1>4, WalkDirTree
        <4> QED
          BY <4>2, <3>1 DEF DirsAfter
      <3>2. CASE ctx[x].k # "dir"
        <4>1. tree' \in WalkFile(tree, ctx[x], p)
          BY <3>2, <1>7, <1>13
        <4>2. LinkOK(ctx[x])
          BY <1>7, TreeIs
        <4>3. IsTree(tree') /\ IsFcn(tree') /\ Dirs(tree') = {q \in Dirs(tree) : ~IsPrefix(p, q)}
          BY <4>1, <4>2, <3>2, <2>3, <1>4, WalkFileTree
        <4> QED
          BY <4>3, <3>2 DEF DirsAfter
      <3> QED
        BY <3>1, <3>2
    <2>5. Dirs(w) = DirsAfter(Dirs(m), ctx[x], p)
      BY <1>3, <1>5, <1>6, <1>9, MergeDirs
    <2>6. Dirs(tree') = Dirs(w)
      BY <2>4, <2>5, <1>10
    <2>7. NothingDangles => tree' = w
      BY <2>2, <1>11, <1>13
    <2>8. Agrees(Merge(ctx, Copied[n - 1], r, canon, E))'
      BY <2>0, <2>1, <2>6, <2>7 DEF Agrees, w
    <2>9. todo' = Frontier(ctx, r, E)
      BY <1>2, <1>3, <1>4, <1>6, <1>13, FrontierStep
    <2>10. E \in SUBSET Inside(ctx, r) /\ \A y \in E : ~Is(ctx, y, "fifo")
      BY <2>2, <1>3, <1>6, <1>7
    <2> HIDE DEF E
    <2>11. Walking'
      BY <2>0, <2>1, <2>8, <2>9, <2>10, <1>2, <1>8 DEF Walking
    <2>12. Copying'
      BY <2>0, <2>1, <2>4, <1>4 DEF Copying
    <2>13. todo' \subseteq DOMAIN ctx
      BY <2>9 DEF Frontier, Inside, Below
    <2>14. TypeOK'
      BY <2>0, <2>1, <2>4, <2>13 DEF CInv, TypeOK
    <2>15. CopyIsMerge'
      BY <2>0, <1>1 DEF CopyIsMerge
    <2> QED
      BY <2>0, <2>1, <2>11, <2>12, <2>14, <2>15, <1>1 DEF CInv
  <1> QED
    BY <1>1, <1>12, <1>13

LEMMA DoneOK ==
  ASSUME CInv, Done
  PROVE  CInv'
  <1>1. /\ pc = "source" /\ pc' = "done" /\ n > Len(ins.srcs)
        /\ UNCHANGED <<inputs, canon>> /\ UNCHANGED <<tree, parts, iter_ct, n, todo>>
    BY DEF Done
  <1>2. /\ ctx' = ctx /\ img' = img /\ ins' = ins /\ canon' = canon
        /\ Copied' = Copied /\ (SourcesOK' <=> SourcesOK)
        /\ (DestOK(img, canon)' <=> DestOK(img, canon))
        /\ (NothingDangles' <=> NothingDangles)
    BY <1>1, Same
  <1>3. Copying /\ Agrees(Copied[n - 1]) /\ n \in 1 .. Len(ins.srcs) + 1
    BY <1>1 DEF CInv, TypeOK
  <1>4. n - 1 = Len(ins.srcs) /\ DOMAIN ins.srcs = 1 .. n - 1
    BY <1>1, <1>3, Sources
  <1>5. \A j \in DOMAIN ins.srcs : Passed(j)
    BY <1>3, <1>4 DEF Copying
  <1>6. ~Reason
    BY <1>3, <1>5 DEF Reason, Passed, Copying
  <1>7. Reason' <=> Reason
    BY <1>1, <1>2 DEF Reason
  <1>8. CopyIsMerge'
    BY <1>1, <1>2, <1>3, <1>4, <1>6, <1>7 DEF CopyIsMerge, Agrees
  <1>9. TypeOK'
    BY <1>1, <1>2 DEF CInv, TypeOK
  <1> QED
    BY <1>1, <1>2, <1>8, <1>9 DEF CInv

LEMMA StutterOK ==
  ASSUME CInv, UNCHANGED vars
  PROVE  CInv'
  <1>1. UNCHANGED <<inputs, canon>> /\ UNCHANGED <<tree, pc, parts, iter_ct, n, todo>>
    BY DEF vars
  <1>2. /\ ctx' = ctx /\ img' = img /\ ins' = ins /\ canon' = canon
        /\ Copied' = Copied /\ (SourcesOK' <=> SourcesOK) /\ (IntoDir' <=> IntoDir)
        /\ (DestOK(img, canon)' <=> DestOK(img, canon))
        /\ (NothingDangles' <=> NothingDangles) /\ \A j : Passed(j)' <=> Passed(j)
    BY <1>1, Same
  <1>3. Copying' <=> Copying
    BY <1>1, <1>2 DEF Copying
  <1>4. Walking' <=> Walking
    BY <1>1, <1>2 DEF Walking, Agrees
  <1>5. Agrees(Copied[n - 1])' <=> Agrees(Copied[n - 1])
    BY <1>1, <1>2 DEF Agrees
  <1>6. Reason' <=> Reason
    BY <1>1, <1>2 DEF Reason
  <1>7. CopyIsMerge' <=> CopyIsMerge
    BY <1>1, <1>2, <1>6 DEF CopyIsMerge
  <1>8. TypeOK' <=> TypeOK
    BY <1>1, <1>2 DEF TypeOK
  <1> QED
    BY <1>1, <1>2, <1>3, <1>4, <1>5, <1>7, <1>8 DEF CInv

LEMMA NextOK ==
  ASSUME CInv, [Next]_vars
  PROVE  CInv'
  <1>1. CASE Prepare
    BY <1>1, PrepareOK
  <1>2. CASE PrepareFatal
    <2>1. Fatal /\ Reason
      BY <1>2 DEF PrepareFatal, Reason
    <2> QED
      BY <2>1, FatalStep
  <1>3. CASE dest_realpath
    BY <1>3, RealpathOK
  <1>4. CASE RealpathFatal
    <2>1. Fatal /\ Reason
      BY <1>4 DEF RealpathFatal, Reason
    <2> QED
      BY <2>1, FatalStep
  <1>5. CASE MakeDest
    BY <1>5, MakeDestOK
  <1>6. CASE DestFatal
    <2>1. Fatal /\ tree = img /\ ~DestOK(tree, canon)
      BY <1>6 DEF DestFatal, CInv
    <2>2. Reason
      BY <2>1 DEF Reason
    <2> QED
      BY <2>1, <2>2, FatalStep
  <1>7. CASE CopySrcFile
    BY <1>7, CopySrcFileOK
  <1>8. CASE CopySrcDir
    BY <1>8, CopySrcDirOK
  <1>9. CASE \E x \in todo : Walk(x)
    BY <1>9, WalkOK
  <1>10. CASE WalkEnd
    BY <1>10, WalkEndOK
  <1>11. CASE SourceFatal
    <2>1. /\ Fatal /\ pc = "source" /\ n <= Len(ins.srcs)
          /\ ~Is(ctx, Real(ctx, ins.srcs[n]), "file") /\ ~Is(ctx, Real(ctx, ins.srcs[n]), "dir")
      BY <1>11 DEF SourceFatal
    <2>2. n \in DOMAIN ins.srcs
      BY <2>1, AtSource
    <2>3. Reason
      BY <2>1, <2>2 DEF Reason
    <2> QED
      BY <2>1, <2>3, FatalStep
  <1>12. CASE Done
    BY <1>12, DoneOK
  <1>13. CASE Ended \/ UNCHANGED vars
    BY <1>13, StutterOK DEF Ended
  <1> QED
    BY <1>1, <1>2, <1>3, <1>4, <1>5, <1>6, <1>7, <1>8, <1>9, <1>10, <1>11, <1>12, <1>13 DEF Next

\* COPY is the merge that the documentation describes, whatever the trees, the
\* sources and the order of the walk: it ends in the image that merging all
\* sources at once gives, and it fails only if there is a reason
\* (lib/build.py Copy_G.execute).
THEOREM CopyMerges == Spec => []CopyIsMerge
  <1>1. Init => CInv
    BY InitOK
  <1>2. CInv /\ [Next]_vars => CInv'
    BY NextOK
  <1>3. CInv => CopyIsMerge
    BY DEF CInv
  <1> QED
    BY <1>1, <1>2, <1>3, PTL DEF Spec

\* The image stays a tree at every step, whatever is in the way of a source and
\* wherever COPY stops: each entry is in a directory (Copy_G.copy_src_dir).
THEOREM TypeCorrect == Spec => []TypeOK
  <1>1. Init => CInv
    BY InitOK
  <1>2. CInv /\ [Next]_vars => CInv'
    BY NextOK
  <1>3. CInv => TypeOK
    BY DEF CInv
  <1> QED
    BY <1>1, <1>2, <1>3, PTL DEF Spec
=============================================================================

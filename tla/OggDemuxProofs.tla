---------------------------- MODULE OggDemuxProofs ----------------------------
(***************************************************************************)
(* Proofs about OggDemux, for any files, any damage and any sizes.         *)
(***************************************************************************)
EXTENDS OggDemux, WellFoundedInduction, SequenceTheorems, TLAPS

\* A set of numbers has a least element,
LEMMA Least ==
  ASSUME NEW T \in SUBSET Nat, T # {}
  PROVE  \E x \in T : \A y \in T : x <= y
  <1> DEFINE R == OpToRel(<, Nat)
  <1>1. IsWellFoundedOn(R, Nat)
    BY NatLessThanWellFounded
  <1>2. \A x, y \in Nat : <<x, y>> \in R <=> x < y
    BY DEF OpToRel
  <1> HIDE DEF R
  <1>3. PICK x \in T : \A y \in T : ~ (<<y, x>> \in R)
    BY <1>1, WFMin
  <1>4. ASSUME NEW y \in T PROVE x <= y
    <2>1. x \in Nat /\ y \in Nat /\ ~(y < x)
      BY <1>2, <1>3
    <2>2. QED
      BY <2>1
  <1>5. QED
    BY <1>4

\* Induction, for what a set of numbers has in common.
LEMMA Induction ==
  ASSUME NEW T \in SUBSET Nat, 0 \in T, \A n \in T : n + 1 \in T
  PROVE  T = Nat
  <1> SUFFICES ASSUME Nat \ T # {} PROVE FALSE
    OBVIOUS
  <1>1. PICK x \in Nat \ T : \A y \in Nat \ T : x <= y
    BY Least
  <1>2. x # 0 /\ x - 1 \in Nat /\ ~(x <= x - 1)
    BY <1>1
  <1>3. x - 1 \in T
    BY <1>1, <1>2
  <1>4. x - 1 + 1 = x
    BY <1>1
  <1>5. QED
    BY <1>1, <1>3, <1>4

\* and a bounded one has a greatest.
LEMMA Greatest ==
  ASSUME NEW n \in Nat, NEW T \in SUBSET (0 .. n), T # {}
  PROVE  \E x \in T : \A y \in T : y <= x
  <1> DEFINE D == {d \in Nat : \E x \in T : d + x = n}
  <1>1. PICK x \in T : TRUE
    OBVIOUS
  <1>2. n - x \in D
    BY <1>1
  <1>3. PICK d \in D : \A e \in D : d <= e
    BY <1>2, Least
  <1>4. PICK z \in T : d + z = n
    BY <1>3
  <1>5. ASSUME NEW y \in T PROVE y <= z
    <2>1. n - y \in D
      OBVIOUS
    <2>2. d <= n - y /\ y \in 0 .. n /\ z \in 0 .. n /\ d \in Nat
      BY <1>3, <2>1
    <2>3. QED
      BY <1>4, <2>2
  <1>6. QED
    BY <1>4, <1>5

-----------------------------------------------------------------------------
(* FlattenSeq, by the recursive function in its definition *)

IsFlat(f, s) == f = [i \in 1 .. Len(s) |-> IF i = 1 THEN s[i] ELSE f[i - 1] \o s[i]]

\* The function that FlattenSeq is taken from exists,
LEMMA FlatExists ==
  ASSUME NEW s \in Seq(Seq(Nat))
  PROVE  \E f : IsFlat(f, s)
  <1> DEFINE P(n, f) == f = [i \in 1 .. n |-> IF i = 1 THEN s[i] ELSE f[i - 1] \o s[i]]
             T == {n \in Nat : \E f : P(n, f)}
  <1>1. 0 \in T
    <2>1. P(0, [i \in 1 .. 0 |-> <<>>])
      OBVIOUS
    <2>2. QED
      BY <2>1
  <1>2. ASSUME NEW n \in T PROVE n + 1 \in T
    <2>1. PICK f : P(n, f)
      OBVIOUS
    <2> DEFINE x == IF n + 1 = 1 THEN s[n + 1] ELSE f[n] \o s[n + 1]
               g == [i \in 1 .. n + 1 |-> IF i = n + 1 THEN x ELSE f[i]]
    <2>2. n \in Nat
      OBVIOUS
    <2>3. DOMAIN g = 1 .. n + 1
      OBVIOUS
    <2>4. ASSUME NEW i \in 1 .. n + 1
          PROVE  g[i] = IF i = 1 THEN s[i] ELSE g[i - 1] \o s[i]
      <3>1. CASE i = n + 1
        <4>1. i # 1 => g[i - 1] = f[n]
          BY <2>2, <3>1
        <4>2. QED
          BY <2>2, <3>1, <4>1
      <3>2. CASE i # n + 1
        <4>1. i \in 1 .. n /\ g[i] = f[i]
          BY <2>2, <3>2
        <4>2. f[i] = IF i = 1 THEN s[i] ELSE f[i - 1] \o s[i]
          BY <2>1, <4>1
        <4>3. i # 1 => g[i - 1] = f[i - 1]
          BY <2>2, <4>1
        <4>4. QED
          BY <4>1, <4>2, <4>3
      <3>3. QED
        BY <3>1, <3>2
    <2>5. g = [i \in 1 .. n + 1 |-> g[i]]
      OBVIOUS
    <2> HIDE DEF g
    <2>6. P(n + 1, g)
      BY <2>4, <2>5
    <2>7. \E h : P(n + 1, h)
      <3> HIDE DEF P
      <3> QED BY <2>6
    <2>8. n + 1 \in Nat
      BY <2>2
    <2>9. QED
      BY <2>7, <2>8
  <1>3. T = Nat
    <2> HIDE DEF P
    <2>1. T \in SUBSET Nat
      OBVIOUS
    <2> HIDE DEF T
    <2>2. QED
      BY <1>1, <1>2, <2>1, Induction
  <1>4. Len(s) \in T
    BY <1>3, LenProperties
  <1>5. QED
    BY <1>4 DEF IsFlat

\* FlattenSeq is its last value,
LEMMA FlatIs ==
  ASSUME NEW s \in Seq(Seq(Nat)), Len(s) # 0
  PROVE  \E f : IsFlat(f, s) /\ FlattenSeq(s) = f[Len(s)]
  <1> DEFINE g == CHOOSE f : IsFlat(f, s)
  <1>1. IsFlat(g, s)
    BY FlatExists
  <1>2. FlattenSeq(s) = g[Len(s)]
    BY DEF FlattenSeq, IsFlat
  <1>3. QED
    BY <1>1, <1>2

\* each value comes from the one before,
LEMMA FlatAt ==
  ASSUME NEW s, NEW f, IsFlat(f, s), NEW i \in 1 .. Len(s)
  PROVE  f[i] = IF i = 1 THEN s[i] ELSE f[i - 1] \o s[i]
  BY DEF IsFlat

\* and depends on the elements up to it only.
LEMMA FlatAgree ==
  ASSUME NEW s \in Seq(Seq(Nat)), NEW t \in Seq(Seq(Nat)), NEW f, NEW g,
         IsFlat(f, s), IsFlat(g, t), Len(s) <= Len(t), \A i \in 1 .. Len(s) : s[i] = t[i]
  PROVE  \A n \in 1 .. Len(s) : f[n] = g[n] /\ f[n] \in Seq(Nat)
  <1> DEFINE T == {n \in Nat : n \in 1 .. Len(s) => f[n] = g[n] /\ f[n] \in Seq(Nat)}
  <1>0. Len(s) \in Nat /\ Len(t) \in Nat
    BY LenProperties
  <1>1. 0 \in T
    BY <1>0
  <1>2. ASSUME NEW n \in T PROVE n + 1 \in T
    <2> SUFFICES ASSUME n + 1 \in 1 .. Len(s)
                 PROVE  f[n + 1] = g[n + 1] /\ f[n + 1] \in Seq(Nat)
      OBVIOUS
    <2>1. n \in Nat /\ n + 1 \in 1 .. Len(t) /\ s[n + 1] = t[n + 1]
      BY <1>0
    <2>a. n + 1 - 1 = n
      BY <2>1
    <2>2. f[n + 1] = IF n + 1 = 1 THEN s[n + 1] ELSE f[n] \o s[n + 1]
      BY <2>a, FlatAt
    <2>3. g[n + 1] = IF n + 1 = 1 THEN t[n + 1] ELSE g[n] \o t[n + 1]
      BY <2>1, <2>a, FlatAt
    <2>4. s[n + 1] \in Seq(Nat)
      BY ElementOfSeq
    <2>5. n # 0 => f[n] = g[n] /\ f[n] \in Seq(Nat)
      BY <1>0, <2>1
    <2>6. CASE n = 0
      BY <2>1, <2>2, <2>3, <2>4, <2>6
    <2>7. CASE n # 0
      <3>a. n + 1 # 1
        BY <2>1, <2>7
      <3>1. f[n + 1] = f[n] \o s[n + 1] /\ g[n + 1] = f[n] \o s[n + 1]
        BY <3>a, <2>1, <2>2, <2>3, <2>5, <2>7
      <3>2. f[n] \o s[n + 1] \in Seq(Nat)
        BY <2>4, <2>5, <2>7, ConcatProperties
      <3>3. QED
        BY <3>1, <3>2
    <2>8. QED
      BY <2>6, <2>7
  <1>3. T = Nat
    <2>1. T \in SUBSET Nat
      OBVIOUS
    <2> HIDE DEF T
    <2>2. QED
      BY <1>1, <1>2, <2>1, Induction
  <1>4. \A n \in Nat : n \in T
    BY <1>3
  <1>5. QED
    BY <1>0, <1>4

\* FlattenSeq of nothing.
LEMMA FlatEmpty == FlattenSeq(<< >>) = << >>
  BY DEF FlattenSeq

\* What FlattenSeq returns,
LEMMA FlatType ==
  ASSUME NEW s \in Seq(Seq(Nat))
  PROVE  FlattenSeq(s) \in Seq(Nat)
  <1>1. CASE Len(s) = 0
    <2>1. s = << >>
      BY <1>1, EmptySeq
    <2>2. << >> \in Seq(Nat)
      BY EmptySeq
    <2>3. QED
      BY <2>1, <2>2, FlatEmpty
  <1>2. CASE Len(s) # 0
    <2>1. PICK f : IsFlat(f, s) /\ FlattenSeq(s) = f[Len(s)]
      BY <1>2, FlatIs
    <2>2. Len(s) \in 1 .. Len(s)
      BY <1>2, LenProperties
    <2>3. Len(s) <= Len(s)
      BY LenProperties
    <2>4. \A n \in 1 .. Len(s) : f[n] = f[n] /\ f[n] \in Seq(Nat)
      BY <2>1, <2>3, FlatAgree
    <2>5. QED
      BY <2>1, <2>2, <2>4
  <1>3. QED
    BY <1>1, <1>2

\* with one more element,
LEMMA FlatAppend ==
  ASSUME NEW s \in Seq(Seq(Nat)), NEW x \in Seq(Nat)
  PROVE  FlattenSeq(Append(s, x)) = FlattenSeq(s) \o x
  <1> DEFINE t == Append(s, x)
  <1>1. /\ t \in Seq(Seq(Nat)) /\ Len(t) = Len(s) + 1 /\ Len(s) \in Nat
        /\ \A i \in 1 .. Len(s) : s[i] = t[i]
        /\ t[Len(s) + 1] = x
    BY AppendProperties, LenProperties
  <1> HIDE DEF t
  <1>2. PICK g : IsFlat(g, t) /\ FlattenSeq(t) = g[Len(t)]
    BY <1>1, FlatIs
  <1>3. g[Len(t)] = IF Len(t) = 1 THEN x ELSE g[Len(s)] \o x
    <2>1. Len(t) \in 1 .. Len(t) /\ Len(t) - 1 = Len(s)
      BY <1>1
    <2>2. g[Len(t)] = IF Len(t) = 1 THEN t[Len(t)] ELSE g[Len(t) - 1] \o t[Len(t)]
      BY <1>2, <2>1 DEF IsFlat
    <2>3. QED
      BY <1>1, <2>1, <2>2
  <1>4. CASE Len(s) = 0
    <2>1. s = << >>
      BY <1>4, EmptySeq
    <2>2. << >> \o x = x
      BY ConcatEmptySeq
    <2>3. QED
      BY <1>1, <1>2, <1>3, <1>4, <2>1, <2>2, FlatEmpty DEF t
  <1>5. CASE Len(s) # 0
    <2>1. PICK f : IsFlat(f, s) /\ FlattenSeq(s) = f[Len(s)]
      BY <1>5, FlatIs
    <2>2. Len(s) <= Len(t) /\ Len(s) \in 1 .. Len(s) /\ Len(t) # 1
      BY <1>1, <1>5
    <2>3. \A n \in 1 .. Len(s) : f[n] = g[n] /\ f[n] \in Seq(Nat)
      BY <1>1, <1>2, <2>1, <2>2, FlatAgree
    <2>4. QED
      BY <1>2, <1>3, <2>1, <2>2, <2>3 DEF t
  <1>6. QED
    BY <1>4, <1>5

\* Concatenation is associative.
LEMMA Associative ==
  ASSUME NEW s \in Seq(Nat), NEW t \in Seq(Nat), NEW u \in Seq(Nat)
  PROVE  (s \o t) \o u = s \o (t \o u)
  BY ConcatAssociative

\* Also that of sequences of sequences.
LEMMA AssociativeOfSeqs ==
  ASSUME NEW s \in Seq(Seq(Nat)), NEW t \in Seq(Seq(Nat)), NEW u \in Seq(Seq(Nat))
  PROVE  (s \o t) \o u = s \o (t \o u)
  <1> DEFINE S == Seq(Nat)
  <1>1. s \in Seq(S) /\ t \in Seq(S) /\ u \in Seq(S)
    OBVIOUS
  <1> HIDE DEF S
  <1>2. QED
    BY ONLY <1>1, ConcatAssociative

\* FlattenSeq distributes over concatenation.
LEMMA FlatConcat ==
  ASSUME NEW s \in Seq(Seq(Nat)), NEW t \in Seq(Seq(Nat))
  PROVE  FlattenSeq(s \o t) = FlattenSeq(s) \o FlattenSeq(t)
  <1> DEFINE T == {n \in Nat : \A u \in Seq(Seq(Nat)) :
                     Len(u) = n => FlattenSeq(s \o u) = FlattenSeq(s) \o FlattenSeq(u)}
  <1>1. 0 \in T
    <2>1. ASSUME NEW u \in Seq(Seq(Nat)), Len(u) = 0
          PROVE  FlattenSeq(s \o u) = FlattenSeq(s) \o FlattenSeq(u)
      <3>1. u = << >>
        BY <2>1, EmptySeq
      <3>2. s \o << >> = s
        BY ConcatEmptySeq
      <3>3. FlattenSeq(s) \o << >> = FlattenSeq(s)
        BY FlatType, ConcatEmptySeq
      <3>4. QED
        BY <3>1, <3>2, <3>3, FlatEmpty
    <2>2. QED
      BY <2>1
  <1>2. ASSUME NEW n \in T PROVE n + 1 \in T
    <2>1. ASSUME NEW u \in Seq(Seq(Nat)), Len(u) = n + 1
          PROVE  FlattenSeq(s \o u) = FlattenSeq(s) \o FlattenSeq(u)
      <3>1. u # << >>
        BY <2>1, EmptySeq
      <3>2. PICK v \in Seq(Seq(Nat)), x \in Seq(Nat) : u = Append(v, x)
        BY <3>1, SequenceEmptyOrAppend
      <3>3. Len(u) = Len(v) + 1 /\ Len(v) \in Nat
        BY <3>2, AppendProperties, LenProperties
      <3>4. Len(v) = n
        BY <2>1, <3>3
      <3>5. FlattenSeq(s \o v) = FlattenSeq(s) \o FlattenSeq(v)
        BY <3>4
      <3>6. s \o v \in Seq(Seq(Nat)) /\ FlattenSeq(s) \in Seq(Nat) /\ FlattenSeq(v) \in Seq(Nat)
        BY ConcatProperties, FlatType
      <3>7. s \o u = Append(s \o v, x)
        <4>1. Append(v, x) = v \o <<x>>
          BY AppendIsConcat
        <4>2. Append(s \o v, x) = (s \o v) \o <<x>>
          BY <3>6, AppendIsConcat
        <4>3. <<x>> \in Seq(Seq(Nat))
          OBVIOUS
        <4>4. (s \o v) \o <<x>> = s \o (v \o <<x>>)
          BY <4>3, AssociativeOfSeqs
        <4>5. QED
          BY <3>2, <4>1, <4>2, <4>4
      <3>8. FlattenSeq(Append(s \o v, x)) = FlattenSeq(s \o v) \o x
        BY <3>6, FlatAppend
      <3>9. FlattenSeq(Append(v, x)) = FlattenSeq(v) \o x
        BY FlatAppend
      <3>10. (FlattenSeq(s) \o FlattenSeq(v)) \o x = FlattenSeq(s) \o (FlattenSeq(v) \o x)
        BY <3>6, Associative
      <3>11. QED
        BY <3>2, <3>5, <3>7, <3>8, <3>9, <3>10
    <2>2. QED
      BY <2>1
  <1>3. T = Nat
    <2>1. T \in SUBSET Nat
      OBVIOUS
    <2> HIDE DEF T
    <2>2. QED
      BY <1>1, <1>2, <2>1, Induction
  <1>4. QED
    BY <1>3, LenProperties

\* FlattenSeq of a single sequence.
LEMMA FlatOne ==
  ASSUME NEW x \in Seq(Nat)
  PROVE  FlattenSeq(<<x>>) = x
  <1>1. FlattenSeq(Append(<< >>, x)) = FlattenSeq(<< >>) \o x
    BY EmptySeq, FlatAppend
  <1>2. Append(<< >>, x) = <<x>>
    OBVIOUS
  <1>3. << >> \o x = x
    BY ConcatEmptySeq
  <1>4. QED
    BY <1>1, <1>2, <1>3, FlatEmpty
-----------------------------------------------------------------------------
(* The packets in a queue *)

Cells(q) == [i \in DOMAIN q |-> IF q[i] = Hole THEN << >> ELSE <<q[i]>>]

\* What Packets flattens.
LEMMA CellsType ==
  ASSUME NEW q \in Seq(Nat)
  PROVE  /\ Cells(q) \in Seq(Seq(Nat)) /\ Len(Cells(q)) = Len(q)
         /\ \A i \in 1 .. Len(q) : Cells(q)[i] = IF q[i] = Hole THEN << >> ELSE <<q[i]>>
  <1> DEFINE f == [i \in 1 .. Len(q) |-> IF q[i] = Hole THEN << >> ELSE <<q[i]>>]
  <1>1. DOMAIN q = 1 .. Len(q) /\ Len(q) \in Nat /\ \A i \in 1 .. Len(q) : q[i] \in Nat
    BY LenProperties, ElementOfSeq
  <1>2. Cells(q) = f
    BY <1>1 DEF Cells
  <1>3. \A i \in 1 .. Len(q) : (IF q[i] = Hole THEN << >> ELSE <<q[i]>>) \in Seq(Nat)
    BY <1>1, EmptySeq
  <1>4. f \in [1 .. Len(q) -> Seq(Nat)]
    BY <1>3
  <1>5. f \in Seq(Seq(Nat)) /\ Len(f) = Len(q)
    <2> HIDE DEF f
    <2> QED BY <1>1, <1>4
  <1>6. QED
    BY <1>2, <1>5

\* An empty queue has no packets.
LEMMA PacketsEmpty == Packets(<< >>) = << >>
  <1>1. [i \in DOMAIN << >> |-> IF << >>[i] = Hole THEN << >> ELSE << << >>[i] >>] = << >>
    OBVIOUS
  <1>2. QED
    BY <1>1, FlatEmpty DEF Packets

\* Packets are numbers.
LEMMA PacketsType ==
  ASSUME NEW q \in Seq(Nat)
  PROVE  Packets(q) \in Seq(Nat)
  BY CellsType, FlatType DEF Packets, Cells

\* The elements of two sequences that are joined.
LEMMA ConcatOfSeqs ==
  ASSUME NEW S, NEW c \in Seq(S), NEW d \in Seq(S)
  PROVE  /\ c \o d \in Seq(S) /\ Len(c \o d) = Len(c) + Len(d)
         /\ \A i \in 1 .. Len(c) + Len(d) :
              (c \o d)[i] = IF i <= Len(c) THEN c[i] ELSE d[i - Len(c)]
  BY ConcatProperties

\* The packets of a queue that is joined to another,
LEMMA PacketsConcat ==
  ASSUME NEW q \in Seq(Nat), NEW r \in Seq(Nat)
  PROVE  Packets(q \o r) = Packets(q) \o Packets(r)
  <1> DEFINE S == Seq(Nat)
             c == Cells(q)
             d == Cells(r)
             e == Cells(q \o r)
  <1>1. q \o r \in Seq(Nat) /\ Len(q \o r) = Len(q) + Len(r) /\ Len(q) \in Nat /\ Len(r) \in Nat
        /\ \A i \in 1 .. Len(q) + Len(r) :
             (q \o r)[i] = IF i <= Len(q) THEN q[i] ELSE r[i - Len(q)]
    BY ConcatProperties, LenProperties
  <1>2. c \in Seq(S) /\ d \in Seq(S) /\ e \in Seq(S)
        /\ Len(c) = Len(q) /\ Len(d) = Len(r) /\ Len(e) = Len(q) + Len(r)
    BY <1>1, CellsType
  <1>3. \A i \in 1 .. Len(q) + Len(r) :
          e[i] = IF i <= Len(q) THEN c[i] ELSE d[i - Len(q)]
    <2> SUFFICES ASSUME NEW i \in 1 .. Len(q) + Len(r)
                 PROVE  e[i] = IF i <= Len(q) THEN c[i] ELSE d[i - Len(q)]
      OBVIOUS
    <2>1. e[i] = IF (q \o r)[i] = Hole THEN << >> ELSE <<(q \o r)[i]>>
      BY <1>1, CellsType
    <2>2. CASE i <= Len(q)
      <3>1. i \in 1 .. Len(q) /\ (q \o r)[i] = q[i]
        BY <1>1, <2>2
      <3>2. c[i] = IF q[i] = Hole THEN << >> ELSE <<q[i]>>
        BY <3>1, CellsType
      <3>3. QED
        BY <2>1, <2>2, <3>1, <3>2
    <2>3. CASE ~(i <= Len(q))
      <3>1. i - Len(q) \in 1 .. Len(r) /\ (q \o r)[i] = r[i - Len(q)]
        BY <1>1, <2>3
      <3>2. d[i - Len(q)] = IF r[i - Len(q)] = Hole THEN << >> ELSE <<r[i - Len(q)]>>
        BY <3>1, CellsType
      <3>3. QED
        BY <2>1, <2>3, <3>1, <3>2
    <2>4. QED
      BY <2>2, <2>3
  <1> HIDE DEF S, c, d, e
  <1>4. c \o d \in Seq(S) /\ Len(c \o d) = Len(q) + Len(r)
        /\ \A i \in 1 .. Len(q) + Len(r) :
             (c \o d)[i] = IF i <= Len(q) THEN c[i] ELSE d[i - Len(q)]
    <2>1. /\ c \o d \in Seq(S) /\ Len(c \o d) = Len(c) + Len(d)
          /\ \A i \in 1 .. Len(c) + Len(d) :
               (c \o d)[i] = IF i <= Len(c) THEN c[i] ELSE d[i - Len(c)]
      <3>1. c \in Seq(S) /\ d \in Seq(S)
        BY <1>2
      <3>2. QED
        BY ONLY <3>1, ConcatOfSeqs
    <2>2. QED
      BY <1>2, <2>1
  <1>5. e = c \o d
    BY <1>2, <1>3, <1>4, SeqEqual
  <1>6. FlattenSeq(c \o d) = FlattenSeq(c) \o FlattenSeq(d)
    BY <1>2, FlatConcat DEF S
  <1>7. QED
    BY <1>5, <1>6 DEF Packets, Cells, c, d, e

\* of a single one,
LEMMA PacketsOne ==
  ASSUME NEW x \in Nat
  PROVE  Packets(<<x>>) = IF x = Hole THEN << >> ELSE <<x>>
  <1> DEFINE y == IF x = Hole THEN << >> ELSE <<x>>
  <1>1. y \in Seq(Nat)
    BY EmptySeq
  <1>2. Cells(<<x>>) = <<y>>
    BY DEF Cells
  <1>3. FlattenSeq(<<y>>) = y
    BY <1>1, FlatOne
  <1>4. QED
    BY <1>2, <1>3 DEF Packets, Cells

\* and of one without holes.
LEMMA PacketsHoleless ==
  ASSUME NEW q \in Seq(Nat), Holeless(q)
  PROVE  Packets(q) = q
  <1> DEFINE T == {n \in Nat : \A u \in Seq(Nat) : Len(u) = n /\ Holeless(u) => Packets(u) = u}
  <1>1. 0 \in T
    <2>1. \A u \in Seq(Nat) : Len(u) = 0 => u = << >>
      BY EmptySeq
    <2>2. QED
      BY <2>1, PacketsEmpty
  <1>2. ASSUME NEW n \in T PROVE n + 1 \in T
    <2>1. ASSUME NEW u \in Seq(Nat), Len(u) = n + 1, Holeless(u) PROVE Packets(u) = u
      <3>1. u # << >>
        BY <2>1, EmptySeq
      <3>2. PICK v \in Seq(Nat), x \in Nat : u = Append(v, x)
        BY <3>1, SequenceEmptyOrAppend
      <3>3. /\ Len(u) = Len(v) + 1 /\ Len(v) \in Nat /\ u = v \o <<x>> /\ u[Len(v) + 1] = x
            /\ \A i \in 1 .. Len(v) : u[i] = v[i]
        BY <3>2, AppendProperties, AppendIsConcat, LenProperties
      <3>4. Len(v) = n /\ DOMAIN u = 1 .. Len(v) + 1 /\ DOMAIN v = 1 .. Len(v)
        BY <2>1, <3>3, LenProperties
      <3>5. Holeless(v) /\ x # Hole
        <4>1. \A i \in 1 .. Len(v) + 1 : u[i] # Hole
          BY <2>1, <3>4 DEF Holeless
        <4>2. Len(v) + 1 \in 1 .. Len(v) + 1 /\ \A i \in 1 .. Len(v) : i \in 1 .. Len(v) + 1
          BY <3>3
        <4>3. QED
          BY <3>3, <3>4, <4>1, <4>2 DEF Holeless
      <3>6. Packets(v) = v
        BY <3>4, <3>5
      <3>7. Packets(<<x>>) = <<x>>
        BY <3>5, PacketsOne
      <3>8. <<x>> \in Seq(Nat)
        OBVIOUS
      <3>9. Packets(v \o <<x>>) = Packets(v) \o Packets(<<x>>)
        BY <3>8, PacketsConcat
      <3>10. QED
        BY <3>3, <3>6, <3>7, <3>9
    <2>2. QED
      BY <2>1
  <1>3. T = Nat
    <2>1. T \in SUBSET Nat
      OBVIOUS
    <2> HIDE DEF T
    <2>2. QED
      BY <1>1, <1>2, <2>1, Induction
  <1>4. QED
    BY <1>3, LenProperties
-----------------------------------------------------------------------------
(* The file, and a page that is given to its stream *)

\* What the assumptions say of the file that is played.
LEMMA FileFacts ==
  ASSUME video \in Videos
  PROVE  /\ Num \in Nat /\ DOMAIN video.pages = 1 .. Num
         /\ PageUnits \in Nat \ {0} /\ Serials \subseteq Nat \ {NoStream}
         /\ \A k \in 1 .. Num :
              /\ Serial(k) \in Serials /\ video.pages[k].no \in Nat
              /\ video.pages[k].bos \in BOOLEAN /\ video.pages[k].cont \in BOOLEAN
              /\ video.pages[k].open \in BOOLEAN
              /\ video.pages[k].ids \in Seq(Nat \ {0}) /\ video.pages[k].ids \in Seq(Nat)
              /\ video.pages[k].bos <=> video.pages[k].no = 0
  <1>1. video.pages \in Seq(Pages)
    BY VideosAssumption
  <1>2. Num \in Nat /\ DOMAIN video.pages = 1 .. Num
    BY <1>1, LenProperties DEF Num
  <1>3. PageUnits \in Nat \ {0} /\ Serials \subseteq Nat \ {NoStream}
    BY VideosAssumption DEF PageUnits, Serials
  <1>4. ASSUME NEW k \in 1 .. Num
        PROVE  /\ Serial(k) \in Serials /\ video.pages[k].no \in Nat
               /\ video.pages[k].bos \in BOOLEAN /\ video.pages[k].cont \in BOOLEAN
               /\ video.pages[k].open \in BOOLEAN
               /\ video.pages[k].ids \in Seq(Nat \ {0}) /\ video.pages[k].ids \in Seq(Nat)
               /\ video.pages[k].bos <=> video.pages[k].no = 0
    <2>1. video.pages[k] \in Pages
      BY <1>1, ElementOfSeq DEF Num
    <2>2. video.pages[k].serial \in DOMAIN video.kind
          /\ (video.pages[k].bos <=> video.pages[k].no = 0)
      BY <1>2, VideosAssumption
    <2>3. \A q : q \in Seq(Nat \ {0}) => q \in Seq(Nat)
      BY SeqMonotonic
    <2>4. QED
      BY <2>1, <2>2, <2>3 DEF Pages, Serial, Serials
  <1>5. QED
    BY <1>2, <1>3, <1>4

\* What ends on page k, for a stream that expects page number x and holds the first
\* part of a packet if h.
LostOn(k, x, h) == video.pages[k].cont /\ (video.pages[k].no # x \/ ~h)
EndsOn(k, x, h) ==
  IF LostOn(k, x, h) /\ video.pages[k].ids # << >> THEN Tail(video.pages[k].ids)
  ELSE video.pages[k].ids

\* Page k is given to its stream, that is taken to be in this state.
Feeding(k, x, h) ==
  /\ k \in 1 .. Num /\ pc = "page_read" /\ page = k /\ returned = k /\ k \notin damaged
  /\ \/ Serial(k) \in mStreams /\ x = expected[Serial(k)] /\ h = partial[Serial(k)]
     \/ video.pages[k].bos /\ x = 0 /\ h = FALSE
  /\ expected' = [expected EXCEPT ![Serial(k)] = video.pages[k].no + 1]
  /\ queue' = [queue EXCEPT ![Serial(k)] =
       (IF video.pages[k].no # x THEN Append(queue[Serial(k)], Hole) ELSE queue[Serial(k)])
         \o EndsOn(k, x, h)]
  /\ partial' = [partial EXCEPT ![Serial(k)] =
       video.pages[k].open /\ ~(LostOn(k, x, h) /\ video.pages[k].ids = << >>)]
  /\ mStreams' = mStreams \cup {Serial(k)}
  /\ UNCHANGED <<file, sync, chosen, caller, page, taken, escaped>>

\* While headers are read, a page is given to an empty stream.
LEMMA HeadersPageFeeds ==
  ASSUME TypeOK, Control, HeadersPage
  PROVE  /\ caller = "read_headers" /\ queue[Serial(page)] = << >> /\ pc' = "peek"
         /\ peeked' = Serial(page)
         /\ headers' = IF video.pages[page].bos THEN [headers EXCEPT ![Serial(page)] = 0]
                       ELSE headers
         /\ IF video.pages[page].bos THEN Feeding(page, 0, FALSE)
            ELSE Feeding(page, expected[Serial(page)], partial[Serial(page)])
  <1> DEFINE s == Serial(page)
             p == video.pages[page]
  <1>1. /\ page \in 1 .. Num /\ s \in Serials /\ caller = "read_headers" /\ pc = "page_read"
        /\ p.serial = s /\ page = returned /\ page \notin damaged
        /\ \A t \in Serials : queue[t] = << >>
    BY FileFacts DEF HeadersPage, TypeOK, Control, InHeaders, Serial
  <1>2. expected \in [Serials -> Nat] /\ queue \in [Serials -> Seq(Nat)]
        /\ partial \in [Serials -> BOOLEAN]
    BY DEF TypeOK
  <1>3. /\ pc' = "peek" /\ peeked' = s /\ mStreams' = mStreams \cup {s}
        /\ headers' = IF p.bos THEN [headers EXCEPT ![s] = 0] ELSE headers
        /\ UNCHANGED <<file, sync, chosen, caller, page, taken, escaped>>
        /\ p.bos \/ s \in mStreams
    BY <1>1 DEF HeadersPage
  <1>4. CASE p.bos
    <2>1. Pagein(p, [expected EXCEPT ![s] = 0], [queue EXCEPT ![s] = << >>],
                 [partial EXCEPT ![s] = FALSE])
      BY <1>1, <1>4 DEF HeadersPage
    <2>2. Feeding(page, 0, FALSE)
      BY <1>1, <1>2, <1>3, <1>4, <2>1 DEF Pagein, Feeding, LostOn, EndsOn
    <2>3. QED
      BY <1>1, <1>3, <1>4, <2>2
  <1>5. CASE ~p.bos
    <2>1. Pagein(p, expected, queue, partial)
      BY <1>1, <1>5 DEF HeadersPage
    <2>2. Feeding(page, expected[s], partial[s])
      BY <1>1, <1>2, <1>3, <1>5, <2>1 DEF Pagein, Feeding, LostOn, EndsOn
    <2>3. QED
      BY <1>1, <1>3, <1>5, <2>2
  <1>6. QED
    BY <1>4, <1>5

\* Later each page is kept for its own stream.
LEMMA FeedPageFeeds ==
  ASSUME TypeOK, Control, FeedPage
  PROVE  /\ caller # "read_headers" /\ pc' = "packetout" /\ UNCHANGED <<headers, peeked>>
         /\ Serial(page) \in mStreams
         /\ Feeding(page, expected[Serial(page)], partial[Serial(page)])
  <1> DEFINE s == Serial(page)
             p == video.pages[page]
  <1>1. /\ page \in 1 .. Num /\ s \in Serials /\ caller # "read_headers" /\ pc = "page_read"
        /\ p.serial = s /\ page = returned /\ page \notin damaged /\ Wanted \in active
    BY FileFacts DEF FeedPage, TypeOK, Control, Serial, Wanted
  <1>2. expected \in [Serials -> Nat] /\ queue \in [Serials -> Seq(Nat)]
        /\ partial \in [Serials -> BOOLEAN]
    BY DEF TypeOK
  <1>3. /\ pc' = "packetout" /\ s \in mStreams /\ mStreams' = mStreams \cup {s}
        /\ UNCHANGED <<file, sync, chosen, caller, page, taken, escaped>>
        /\ UNCHANGED <<headers, peeked>>
        /\ Pagein(p, expected, queue, partial)
    BY <1>1 DEF FeedPage
  <1>4. Feeding(page, expected[s], partial[s])
    BY <1>1, <1>2, <1>3 DEF Pagein, Feeding, LostOn, EndsOn
  <1>5. QED
    BY <1>1, <1>3, <1>4

\* What is put into the queue, and that everything keeps its type.
LEMMA EndsOnType ==
  ASSUME video \in Videos, NEW k \in 1 .. Num, NEW x, NEW h
  PROVE  /\ EndsOn(k, x, h) \in Seq(Nat \ {0}) /\ EndsOn(k, x, h) \in Seq(Nat)
         /\ Holeless(EndsOn(k, x, h))
  <1>1. video.pages[k].ids \in Seq(Nat \ {0})
    BY FileFacts
  <1>2. EndsOn(k, x, h) \in Seq(Nat \ {0})
    BY <1>1, HeadTailProperties DEF EndsOn
  <1>3. EndsOn(k, x, h) \in Seq(Nat)
    BY <1>2, SeqMonotonic
  <1>4. \A i \in DOMAIN EndsOn(k, x, h) : EndsOn(k, x, h)[i] \in Nat \ {0}
    BY <1>2, LenProperties, ElementOfSeq
  <1>5. QED
    BY <1>2, <1>3, <1>4 DEF Holeless, Hole

LEMMA FeedingType ==
  ASSUME TypeOK, NEW k, NEW x, NEW h, Feeding(k, x, h)
  PROVE  /\ expected' \in [Serials -> Nat] /\ queue' \in [Serials -> Seq(Nat)]
         /\ partial' \in [Serials -> BOOLEAN] /\ mStreams' \subseteq Serials
         /\ k \in 1 .. Num /\ Serial(k) \in Serials
  <1>1. /\ k \in 1 .. Num /\ Serial(k) \in Serials /\ video.pages[k].no + 1 \in Nat
        /\ video.pages[k].open \in BOOLEAN
    <2>1. k \in 1 .. Num /\ video \in Videos
      BY DEF Feeding, TypeOK
    <2>2. Serial(k) \in Serials /\ video.pages[k].no \in Nat /\ video.pages[k].open \in BOOLEAN
      BY <2>1, FileFacts
    <2>3. QED
      BY <2>1, <2>2
  <1>2. EndsOn(k, x, h) \in Seq(Nat)
    BY <1>1, EndsOnType DEF TypeOK
  <1>3. queue[Serial(k)] \in Seq(Nat) /\ Append(queue[Serial(k)], Hole) \in Seq(Nat)
    BY <1>1, AppendProperties DEF TypeOK, Hole
  <1>4. (IF video.pages[k].no # x THEN Append(queue[Serial(k)], Hole) ELSE queue[Serial(k)])
          \o EndsOn(k, x, h) \in Seq(Nat)
    BY <1>2, <1>3, ConcatProperties
  <1>5. QED
    BY <1>1, <1>4 DEF Feeding, TypeOK
-----------------------------------------------------------------------------
(* The sync state *)

\* With no page to return, only damaged ones are passed.
LEMMA NoPageOutSkips ==
  ASSUME TypeOK, NoPageOut
  PROVE  returned' \in returned .. Num /\ \A j \in (returned + 1) .. returned' : j \in damaged
  <1>1. returned \in 0 .. Num /\ Num \in Nat
    BY FileFacts DEF TypeOK
  <1>2. CASE Recapture
    <2>1. Skippable = {returned + 1} /\ returned + 1 \in 1 .. Num /\ returned + 1 \in damaged
      BY <1>1, <1>2 DEF Skippable, Recapture, Whole
    <2>2. Max({returned + 1}) = returned + 1
      BY <1>1 DEF Max
    <2>3. returned' = returned + 1
      BY <2>1, <2>2 DEF NoPageOut
    <2>4. QED
      BY <1>1, <2>1, <2>3
  <1>3. CASE ~Recapture
    <2> DEFINE S == {k \in 0 .. Num : k >= returned
                       /\ \A j \in (returned + 1) .. k : Whole(j) /\ j \in damaged}
    <2>1. Skippable = S
      BY <1>3 DEF Skippable
    <2>2. returned \in S
      BY <1>1
    <2>3. \E x \in S : \A y \in S : y <= x
      <3>1. S \in SUBSET (0 .. Num) /\ S # {}
        BY <2>2
      <3> HIDE DEF S
      <3>2. QED
        BY <1>1, <3>1, Greatest
    <2>4. \E x \in S : \A y \in S : x >= y
      <3>1. S \subseteq 0 .. Num
        OBVIOUS
      <3> HIDE DEF S
      <3>2. QED
        BY <1>1, <2>3, <3>1
    <2>5. Max(S) \in S
      <3> HIDE DEF S
      <3>1. QED
        BY <2>4 DEF Max
    <2>6. returned' \in S
      BY <2>1, <2>5 DEF NoPageOut
    <2>7. QED
      BY <1>1, <2>6
  <1>4. QED
    BY <1>2, <1>3

\* A page that is returned is the next that is not damaged.
LEMMA PageOutFinds ==
  ASSUME TypeOK, NEW k \in 1 .. Num, PageOut(k)
  PROVE  /\ returned' = k /\ k > returned /\ k \notin damaged
         /\ \A j \in (returned + 1) .. (k - 1) : j \in damaged
  BY DEF PageOut, Found

\* When nothing is left to be read, the next page is hit, or one that was passed.
LEMMA NoPageLeft ==
  ASSUME TypeOK, NoPageOut, got = cut, UNCHANGED file, returned' < Num
  PROVE  \E k \in 1 .. (returned' + 1) : Hit(k)
  <1>1. returned \in 0 .. Num /\ Num \in Nat /\ returned' \in returned .. Num
        /\ \A j \in (returned + 1) .. returned' : j \in damaged
    BY FileFacts, NoPageOutSkips DEF TypeOK
  <1>2. CASE returned' # returned
    <2> DEFINE n == returned'
    <2>1. n \in returned .. Num /\ n # returned /\ returned \in 0 .. Num /\ Num \in Nat
      BY <1>1, <1>2
    <2> HIDE DEF n
    <2>2. returned + 1 \in (returned + 1) .. n /\ returned + 1 \in 1 .. (n + 1)
      BY <2>1
    <2>3. QED
      BY <1>1, <2>2 DEF Hit, n
  <1>3. CASE returned' = returned
    <2> DEFINE k == returned + 1
    <2>1. k \in 1 .. Num /\ k > returned /\ k \in 1 .. (returned' + 1)
      BY <1>1, <1>3
    <2>2. ASSUME ~Hit(k) PROVE FALSE
      <3>1. k \notin damaged /\ ~(k * PageUnits > cut) /\ k * PageUnits \in Nat /\ cut \in Nat
        <4>1. k \in Nat /\ PageUnits \in Nat /\ cut \in Nat
          BY <2>1, FileFacts DEF TypeOK
        <4> HIDE DEF k
        <4>2. k * PageUnits \in Nat
          BY <4>1
        <4>3. QED
          BY <2>2, <4>1, <4>2 DEF Hit
      <3>2. k * PageUnits <= got
        BY <3>1
      <3>3. (returned + 1) .. (k - 1) = {}
        BY <1>1
      <3> HIDE DEF k
      <3>4. Whole(k)
        BY <2>1, <3>2 DEF Whole
      <3>5. ~Recapture
        BY <3>1 DEF Recapture, k
      <3>6. Found(k)
        BY <2>1, <3>1, <3>3, <3>4, <3>5 DEF Found
      <3>7. QED
        BY <2>1, <3>6 DEF NoPageOut
    <2>3. QED
      BY <2>1, <2>2
  <1>4. QED
    BY <1>2, <1>3
-----------------------------------------------------------------------------
(* Every variable keeps its type *)

\* The first stream of a kind is one of that kind.
LEMMA FirstOfKnown ==
  ASSUME TypeOK, NEW kind, FirstOf(kind) # NoStream
  PROVE  FirstOf(kind) \in Known(kind)
  <1>1. Known(kind) # {} /\ Known(kind) \in SUBSET Nat /\ FirstOf(kind) = Min(Known(kind))
    BY FileFacts DEF FirstOf, Known, TypeOK
  <1> DEFINE S == Known(kind)
  <1> HIDE DEF S
  <1>2. \E x \in S : \A y \in S : x <= y
    BY <1>1, Least DEF S
  <1>3. Min(S) \in S
    BY <1>2 DEF Min
  <1>4. QED
    BY <1>1, <1>3 DEF S

SyncTypes == good \in BOOLEAN /\ got \in 0 .. cut /\ unsynced \in BOOLEAN /\ returned \in 0 .. Num

StreamTypes ==
  /\ mStreams \subseteq Serials /\ expected \in [Serials -> Nat]
  /\ queue \in [Serials -> Seq(Nat)] /\ partial \in [Serials -> BOOLEAN]

TakenTypes == taken \in [Serials -> Seq(Nat \ {Hole})] /\ headers \in [Serials -> 0 .. HeaderPackets]

ChosenTypes == {audio, movie} \subseteq Serials \cup {NoStream} /\ active \subseteq Serials

ControlTypes ==
  /\ pc \in {"read_page", "pageout", "read", "last_pageout", "page_read", "no_page", "peek",
             "start", "packetout", "decoded", "poll", "ended", "aborted"}
  /\ caller \in {"read_headers", "audio", "movie"} /\ escaped \in BOOLEAN
  /\ page \in 0 .. Num /\ peeked \in Serials \cup {NoStream}

\* The type invariant has these parts.
LEMMA TypeParts ==
  ASSUME UNCHANGED file, TypeOK
  PROVE  /\ SyncTypes /\ StreamTypes /\ TakenTypes /\ ChosenTypes /\ ControlTypes
         /\ SyncTypes' /\ StreamTypes' /\ TakenTypes' /\ ChosenTypes' /\ ControlTypes' => TypeOK'
         /\ Serials' = Serials /\ Num' = Num /\ PageUnits' = PageUnits
  <1>1. video' = video /\ damaged' = damaged /\ cut' = cut
    BY DEF file
  <1>2. QED
    BY <1>1 DEF TypeOK, SyncTypes, StreamTypes, TakenTypes, ChosenTypes, ControlTypes, Serials, Num,
       PageUnits

\* Reading a page.
LEMMA ReadPageType ==
  ASSUME TypeOK, Control, ReadPage
  PROVE  TypeOK'
  <1>1. UNCHANGED file /\ UNCHANGED streams /\ UNCHANGED headers /\ UNCHANGED chosen
        /\ UNCHANGED <<caller, peeked, taken, escaped>>
    BY DEF ReadPage, EnterReadPage, ReturnPage, NeedData, Read, ReturnNoPage
  <1>2. StreamTypes' /\ TakenTypes' /\ ChosenTypes'
    BY <1>1, TypeParts DEF StreamTypes, TakenTypes, ChosenTypes, streams, chosen
  <1>3. SyncTypes'
    <2>1. CASE EnterReadPage
      BY <1>1, <2>1, TypeParts DEF EnterReadPage, SyncTypes, sync, file
    <2>2. CASE ReturnPage
      <3>1. PICK k \in 1 .. Num : PageOut(k)
        BY <2>2 DEF ReturnPage
      <3>2. returned' = k /\ unsynced' = FALSE /\ UNCHANGED <<good, got>>
        BY <2>2, <3>1 DEF ReturnPage, PageOut
      <3>3. returned' \in 0 .. Num
        BY <3>2, FileFacts DEF TypeOK
      <3>4. QED
        BY <1>1, <3>2, <3>3, TypeParts DEF SyncTypes, file
    <2>3. CASE NeedData \/ ReturnNoPage
      <3>1. NoPageOut /\ UNCHANGED <<good, got>>
        BY <2>3 DEF NeedData, ReturnNoPage
      <3>2. returned' \in 0 .. Num
        <4> DEFINE n == returned'
        <4>1. returned \in 0 .. Num /\ Num \in Nat
          BY FileFacts DEF TypeOK
        <4>2. n \in returned .. Num
          BY <3>1, NoPageOutSkips
        <4> HIDE DEF n
        <4>3. n \in 0 .. Num
          BY <4>1, <4>2
        <4>4. QED
          BY <4>3 DEF n
      <3>3. unsynced' \in BOOLEAN
        BY <3>1 DEF NoPageOut, TypeOK, Recapture
      <3>4. QED
        BY <1>1, <3>1, <3>2, <3>3, TypeParts DEF SyncTypes, file
    <2>4. CASE Read
      <3>1. cut \in Nat /\ got \in 0 .. cut /\ ReadUnits \in Nat
        BY SizesAssumption, FileFacts DEF TypeOK
      <3>2. got' \in 0 .. cut /\ good' \in BOOLEAN /\ UNCHANGED <<returned, unsynced>>
        BY <2>4, <3>1 DEF Read
      <3>3. QED
        BY <1>1, <3>2, TypeParts DEF SyncTypes, file
    <2>5. QED
      BY <2>1, <2>2, <2>3, <2>4 DEF ReadPage
  <1>4. ControlTypes'
    <2>1. page' \in 0 .. Num
      <3>1. page \in 0 .. Num /\ Num \in Nat
        BY FileFacts DEF TypeOK
      <3>2. page' \in {page, 0} \/ page' \in 1 .. Num
        BY DEF ReadPage, EnterReadPage, ReturnPage, NeedData, Read, ReturnNoPage
      <3>3. \A k \in 1 .. Num : k \in 0 .. Num
        BY <3>1
      <3>4. QED
        BY <3>1, <3>2, <3>3
    <2>2. pc' \in {"pageout", "last_pageout", "page_read", "read", "no_page"}
      BY DEF ReadPage, EnterReadPage, ReturnPage, NeedData, Read, ReturnNoPage
    <2>3. QED
      BY <1>1, <2>1, <2>2, TypeParts DEF ControlTypes
  <1>5. QED
    BY <1>1, <1>2, <1>3, <1>4, TypeParts

\* A page given to its stream.
LEMMA FeedType ==
  ASSUME TypeOK, Control, HeadersPage \/ FeedPage
  PROVE  TypeOK'
  <1>1. PICK x, h : Feeding(page, x, h)
    BY HeadersPageFeeds, FeedPageFeeds
  <1>2. /\ expected' \in [Serials -> Nat] /\ queue' \in [Serials -> Seq(Nat)]
        /\ partial' \in [Serials -> BOOLEAN] /\ mStreams' \subseteq Serials
        /\ Serial(page) \in Serials
    BY <1>1, FeedingType
  <1>3. UNCHANGED <<file, sync, chosen, caller, page, taken, escaped>>
    BY <1>1 DEF Feeding
  <1>4. headers' \in [Serials -> 0 .. HeaderPackets] /\ peeked' \in Serials \cup {NoStream}
        /\ pc' \in {"peek", "packetout"}
    <2>1. headers \in [Serials -> 0 .. HeaderPackets] /\ peeked \in Serials \cup {NoStream}
          /\ HeaderPackets \in Nat
      BY SizesAssumption DEF TypeOK
    <2>2. CASE HeadersPage
      <3>1. /\ pc' = "peek" /\ peeked' = Serial(page)
            /\ headers' = [headers EXCEPT ![Serial(page)] = 0] \/ headers' = headers
        BY <2>2, HeadersPageFeeds
      <3>2. 0 \in 0 .. HeaderPackets
        BY <2>1
      <3>3. QED
        BY <1>2, <2>1, <3>1, <3>2
    <2>3. CASE FeedPage
      BY <2>1, <2>3, FeedPageFeeds
    <2>4. QED
      BY <2>2, <2>3
  <1>5. SyncTypes' /\ ChosenTypes' /\ ControlTypes'
    BY <1>3, <1>4, TypeParts DEF SyncTypes, ChosenTypes, ControlTypes, sync, chosen, file
  <1>6. StreamTypes' /\ TakenTypes'
    BY <1>2, <1>3, <1>4, TypeParts DEF StreamTypes, TakenTypes
  <1>7. QED
    BY <1>3, <1>5, <1>6, TypeParts

\* A packet taken from its queue, or a hole passed over.
LEMMA TakeType ==
  ASSUME TypeOK, Control, HeadersCounted, ConsumeHeader \/ PacketOut \/ NoPacketOut
  PROVE  TypeOK'
  <1>1. UNCHANGED file /\ UNCHANGED sync /\ UNCHANGED <<mStreams, expected, partial>>
        /\ UNCHANGED chosen /\ UNCHANGED <<caller, page, peeked, escaped>>
    BY DEF ConsumeHeader, PacketOut, NoPacketOut
  <1>2. SyncTypes' /\ ChosenTypes'
    BY <1>1, TypeParts DEF SyncTypes, ChosenTypes, sync, chosen, file
  <1>3. queue \in [Serials -> Seq(Nat)] /\ taken \in [Serials -> Seq(Nat \ {Hole})]
        /\ headers \in [Serials -> 0 .. HeaderPackets] /\ HeaderPackets \in Nat
        /\ peeked \in Serials \cup {NoStream} /\ NoStream \notin Serials
    BY SizesAssumption, FileFacts DEF TypeOK
  <1>4. pc' \in {"peek", "decoded", "poll", "aborted", "read_page"}
        /\ queue' \in [Serials -> Seq(Nat)]
        /\ taken' \in [Serials -> Seq(Nat \ {Hole})] /\ headers' \in [Serials -> 0 .. HeaderPackets]
    <2>1. CASE ConsumeHeader
      <3>1. peeked \in Serials /\ pc = "peek" /\ InHeaders /\ pc' = pc
        BY <2>1, <1>3 DEF ConsumeHeader, Control, TypeOK, InHeaders
      <3> DEFINE q == queue[peeked]
      <3>2. q \in Seq(Nat) /\ q # << >> /\ Head(q) # Hole
        BY <2>1, <1>3, <3>1 DEF ConsumeHeader, Peeked
      <3>3. Tail(q) \in Seq(Nat) /\ Head(q) \in Nat \ {Hole} /\ Head(q) = q[1] /\ 1 \in DOMAIN q
        <4> HIDE DEF q
        <4>1. Len(q) \in Nat \ {0}
          BY <3>2, EmptySeq
        <4>2. QED
          BY <3>2, <4>1, HeadTailProperties, LenProperties
      <3>4. queue' = [queue EXCEPT ![peeked] = Tail(q)]
            /\ taken' = [taken EXCEPT ![peeked] = Append(taken[peeked], Head(q))]
            /\ headers' = [headers EXCEPT ![peeked] =
                 IF IsHeader(peeked, Head(q)) THEN headers[peeked] + 1 ELSE headers[peeked]]
        BY <2>1 DEF ConsumeHeader, Peeked
      <3>5. Append(taken[peeked], Head(q)) \in Seq(Nat \ {Hole})
        BY <1>3, <3>1, <3>3, AppendProperties
      <3>6. headers[peeked] + 1 <= Head(q)
        <4>1. Counted(peeked)
          BY <3>1 DEF HeadersCounted
        <4>2. \A j \in 1 .. 1 : q[j] # Hole
          BY <3>3
        <4>3. q[1] >= headers[peeked] + 1
          BY <3>3, <4>1, <4>2 DEF Counted
        <4>4. headers[peeked] \in Nat /\ Head(q) \in Nat /\ q[1] = Head(q)
          BY <1>3, <3>1, <3>3
        <4> HIDE DEF q
        <4>5. QED
          BY <4>3, <4>4
      <3>7. IsHeader(peeked, Head(q)) => headers[peeked] + 1 \in 0 .. HeaderPackets
        <4> SUFFICES ASSUME Head(q) <= HeaderPackets PROVE headers[peeked] + 1 \in 0 .. HeaderPackets
          BY DEF IsHeader
        <4>1. headers[peeked] \in Nat /\ Head(q) \in Nat /\ HeaderPackets \in Nat
          BY <1>3, <3>1, <3>3
        <4> HIDE DEF q
        <4>2. QED
          BY <3>6, <4>1
      <3> HIDE DEF q
      <3>8. QED
        BY <1>3, <3>1, <3>3, <3>4, <3>5, <3>7
    <2>2. CASE PacketOut
      <3> DEFINE w == Wanted
                 q == queue[w]
      <3>1. w \in Serials /\ headers' = headers
        BY <2>2, <1>3 DEF PacketOut, Wanted, Control, TypeOK
      <3>2. q \in Seq(Nat) /\ q # << >> /\ Head(q) # Hole
        BY <2>2, <1>3, <3>1 DEF PacketOut
      <3>3. Tail(q) \in Seq(Nat) /\ Head(q) \in Nat \ {Hole}
        BY <3>2, HeadTailProperties
      <3>4. Append(taken[w], Head(q)) \in Seq(Nat \ {Hole})
        BY <1>3, <3>1, <3>3, AppendProperties
      <3>5. queue' = [queue EXCEPT ![w] = Tail(q)]
            /\ taken' = [taken EXCEPT ![w] = Append(taken[w], Head(q))]
            /\ pc' = Decoded(Head(q))
        BY <2>2 DEF PacketOut
      <3>6. pc' \in {"decoded", "poll", "aborted"}
        BY <2>2, <3>5 DEF PacketOut, Decoded, Control, TypeOK
      <3> HIDE DEF w, q
      <3>7. QED
        BY <1>3, <3>1, <3>3, <3>4, <3>5, <3>6
    <2>3. CASE NoPacketOut
      <3> DEFINE w == Wanted
                 q == queue[w]
      <3>1. w \in Serials /\ headers' = headers /\ taken' = taken /\ pc' = "read_page"
            /\ queue' = [queue EXCEPT ![w] = IF q = << >> THEN q ELSE Tail(q)]
        BY <2>3, <1>3 DEF NoPacketOut, Wanted, Control, TypeOK
      <3>2. (IF q = << >> THEN q ELSE Tail(q)) \in Seq(Nat)
        BY <1>3, <3>1, HeadTailProperties
      <3> HIDE DEF w, q
      <3>3. QED
        BY <1>3, <3>1, <3>2
    <2>4. QED
      BY <2>1, <2>2, <2>3
  <1>5. StreamTypes' /\ TakenTypes' /\ ControlTypes'
    BY <1>1, <1>4, TypeParts DEF StreamTypes, TakenTypes, ControlTypes
  <1>6. QED
    BY <1>1, <1>2, <1>5, TypeParts

\* The steps that change the control only.
Turning ==
  \/ UnknownStream \/ HoleAmidHeaders \/ NextHeaderPage \/ HeadersDone \/ CannotStart
  \/ NoPacket \/ FrameDue \/ NoFrameDue \/ NextPacket \/ Escape \/ StartPlay

LEMMA TurningType ==
  ASSUME TypeOK, Turning
  PROVE  /\ TypeOK'
         /\ UNCHANGED <<file, sync, streams, headers, page, peeked, taken>>
  <1>1. UNCHANGED <<file, sync, streams, headers, page, peeked, taken>>
    BY DEF Turning, UnknownStream, HoleAmidHeaders, NextHeaderPage, HeadersDone, CannotStart, Abort,
       NoPacket, FrameDue, NoFrameDue, NextPacket, Escape, StartPlay
  <1>2. SyncTypes' /\ StreamTypes' /\ TakenTypes'
    BY <1>1, TypeParts DEF SyncTypes, StreamTypes, TakenTypes, sync, streams, file
  <1>3. /\ pc' \in {"read_page", "start", "packetout", "poll", "ended", "aborted"}
        /\ caller' \in {caller, "audio", "movie"} /\ escaped' \in {escaped, TRUE}
    BY DEF Turning, UnknownStream, HoleAmidHeaders, NextHeaderPage, HeadersDone, CannotStart, Abort,
       NoPacket, FrameDue, NoFrameDue, NextPacket, Escape, StartPlay
  <1>4. ControlTypes'
    BY <1>1, <1>3, TypeParts DEF ControlTypes
  <1>5. ChosenTypes'
    <2>1. CASE StartPlay
      <3>1. audio' = FirstOf("vorbis") /\ movie' = FirstOf("theora") /\ active' \subseteq active
        BY <2>1 DEF StartPlay
      <3>2. \A kind : Known(kind) \subseteq Serials
        BY DEF Known, TypeOK
      <3>3. {audio', movie'} \subseteq Serials \cup {NoStream}
        BY <3>1, <3>2, FirstOfKnown
      <3>4. QED
        BY <1>1, <3>1, <3>3, TypeParts DEF ChosenTypes
    <2>2. CASE ~StartPlay
      <3>1. UNCHANGED chosen
        BY <2>2 DEF Turning, UnknownStream, HoleAmidHeaders, NextHeaderPage, HeadersDone, CannotStart,
           Abort, NoPacket, FrameDue, NoFrameDue, NextPacket, Escape
      <3>2. QED
        BY <1>1, <3>1, TypeParts DEF ChosenTypes, chosen
    <2>3. QED
      BY <2>1, <2>2
  <1>6. QED
    BY <1>1, <1>2, <1>4, <1>5, TypeParts

\* The cases of a step.
LEMMA NextCases ==
  ASSUME Next
  PROVE  \/ ReadPage
         \/ HeadersPage \/ FeedPage
         \/ ConsumeHeader \/ PacketOut \/ NoPacketOut
         \/ Turning
  BY DEF Next, ReadHeaders, Play, Turning

\* Every step keeps the types.
LEMMA TypeStep ==
  ASSUME TypeOK, Control, HeadersCounted, Next
  PROVE  TypeOK'
  BY NextCases, ReadPageType, FeedType, TakeType, TurningType
-----------------------------------------------------------------------------
(* Where the control is, and what the streams are like there *)

\* Reading a page.
LEMMA ReadPageControl ==
  ASSUME TypeOK, Control, ReadPage
  PROVE  Control'
  <1>1. UNCHANGED <<file, streams, chosen, caller, escaped, peeked>>
        /\ pc \in Asking /\ pc' \in {"pageout", "read", "last_pageout", "page_read", "no_page"}
    BY DEF ReadPage, EnterReadPage, ReturnPage, NeedData, Read, ReturnNoPage, Asking
  <1>2. video' = video /\ damaged' = damaged /\ cut' = cut /\ queue' = queue /\ mStreams' = mStreams
        /\ audio' = audio /\ movie' = movie /\ active' = active /\ Serials' = Serials /\ Num' = Num
    BY <1>1 DEF file, streams, chosen, Serials, Num
  <1>3. InHeaders' => InHeaders /\ pc # "peek"
    BY <1>1 DEF InHeaders, Asking
  <1>4. \A s \in Serials : InHeaders' => queue'[s] = << >>
    BY <1>2, <1>3 DEF Control
  <1>5. pc' = "page_read" => page' = returned' /\ page' # 0 /\ page' \notin damaged
    <2> SUFFICES ASSUME pc' = "page_read" PROVE page' = returned' /\ page' # 0 /\ page' \notin damaged
      OBVIOUS
    <2>1. ReturnPage
      BY DEF ReadPage, EnterReadPage, ReturnPage, NeedData, Read, ReturnNoPage
    <2>2. PICK k \in 1 .. Num : PageOut(k) /\ page' = k
      BY <2>1 DEF ReturnPage
    <2>3. QED
      BY <2>2, PageOutFinds
  <1>6. ~good' \/ pc' \in {"last_pageout", "no_page"} => got' = cut
    <2>1. CASE EnterReadPage
      BY <2>1 DEF EnterReadPage, Control, sync
    <2>2. CASE ReturnPage \/ NeedData \/ ReturnNoPage
      BY <2>2 DEF ReturnPage, NeedData, ReturnNoPage, Control
    <2>3. CASE Read
      <3>1. cut \in Nat /\ got \in 0 .. cut /\ ReadUnits \in Nat \ {0}
        BY SizesAssumption, FileFacts DEF TypeOK
      <3> DEFINE n == IF cut - got < ReadUnits THEN cut - got ELSE ReadUnits
      <3>2. got' = got + n /\ good' = (n = ReadUnits)
            /\ pc' = IF n = 0 THEN "last_pageout" ELSE "pageout"
        BY <2>3 DEF Read
      <3>3. n # ReadUnits => got + n = cut
        BY <3>1
      <3>4. n = ReadUnits => n # 0
        BY <3>1
      <3> HIDE DEF n
      <3>5. CASE n = ReadUnits
        BY <3>2, <3>4, <3>5
      <3>6. CASE n # ReadUnits
        BY <3>2, <3>3, <3>6
      <3>7. QED
        BY <3>5, <3>6
    <2>4. QED
      BY <2>1, <2>2, <2>3 DEF ReadPage
  <1>7. pc' = "no_page" /\ returned' < Num => \E k \in 1 .. (returned' + 1) : Hit(k)
    <2> SUFFICES ASSUME pc' = "no_page", returned' < Num PROVE \E k \in 1 .. (returned' + 1) : Hit(k)
      OBVIOUS
    <2>1. ReturnNoPage
      BY DEF ReadPage, EnterReadPage, ReturnPage, NeedData, Read, ReturnNoPage
    <2>2. NoPageOut /\ got = cut
      BY <2>1 DEF ReturnNoPage, Control
    <2>3. QED
      BY <1>1, <2>2, NoPageLeft
  <1>8. \A k : Hit(k)' <=> Hit(k)
    BY <1>2 DEF Hit, PageUnits
  <1>9. QED
    BY <1>1, <1>2, <1>4, <1>5, <1>6, <1>7, <1>8 DEF Control

\* Feeding.
LEMMA FeedControl ==
  ASSUME TypeOK, Control, HeadersPage \/ FeedPage
  PROVE  Control'
  <1>1. PICK x, h : Feeding(page, x, h)
    BY HeadersPageFeeds, FeedPageFeeds
  <1>2. UNCHANGED <<file, sync, chosen, caller, page, taken, escaped>>
        /\ page = returned /\ page # 0 /\ page \notin damaged /\ Serial(page) \in mStreams'
    BY <1>1, FileFacts DEF Feeding, TypeOK
  <1>3. video' = video /\ damaged' = damaged /\ cut' = cut /\ got' = got /\ good' = good
        /\ returned' = returned /\ Serial(returned)' = Serial(returned) /\ Serials' = Serials
        /\ audio' = audio /\ movie' = movie /\ active' = active
    BY <1>2 DEF file, sync, chosen, Serial, Serials
  <1>4. CASE HeadersPage
    <2>1. pc' = "peek" /\ peeked' = Serial(page) /\ caller = "read_headers" /\ pc = "page_read"
      BY <1>1, <1>4, HeadersPageFeeds DEF Feeding
    <2>2. \A s \in Serials : s # Serial(page) => queue'[s] = << >>
      BY <1>1, <2>1 DEF Feeding, Control, InHeaders, TypeOK
    <2>3. QED
      BY <1>2, <1>3, <2>1, <2>2 DEF Control
  <1>5. CASE FeedPage
    <2>1. pc' = "packetout" /\ caller # "read_headers"
      BY <1>5, FeedPageFeeds
    <2>2. QED
      BY <1>2, <1>3, <2>1 DEF Control, InHeaders
  <1>6. QED
    BY <1>4, <1>5

\* Taking packets.
LEMMA TakeControl ==
  ASSUME TypeOK, Control, ConsumeHeader \/ PacketOut \/ NoPacketOut
  PROVE  Control'
  <1>1. UNCHANGED <<file, sync, mStreams, chosen, caller, page, peeked, escaped>>
    BY DEF ConsumeHeader, PacketOut, NoPacketOut
  <1>2. video' = video /\ damaged' = damaged /\ cut' = cut /\ got' = got /\ good' = good
        /\ returned' = returned /\ Serial(returned)' = Serial(returned) /\ Serials' = Serials
        /\ audio' = audio /\ movie' = movie /\ active' = active /\ mStreams' = mStreams
        /\ caller' = caller /\ peeked' = peeked /\ page' = page /\ escaped' = escaped
    BY <1>1 DEF file, sync, chosen, Serial, Serials
  <1>3. CASE ConsumeHeader
    <2>1. pc' = pc /\ pc = "peek"
      BY <1>3 DEF ConsumeHeader
    <2>2. \A s \in Serials : s # peeked => queue'[s] = queue[s]
      BY <1>3 DEF ConsumeHeader, TypeOK
    <2>3. QED
      BY <1>2, <2>1, <2>2 DEF Control, InHeaders
  <1>4. CASE PacketOut \/ NoPacketOut
    <2>1. pc = "packetout" /\ pc' \in {"decoded", "poll", "aborted", "read_page"}
          /\ caller # "read_headers"
      BY <1>4 DEF PacketOut, NoPacketOut, Decoded, Control, TypeOK
    <2>2. QED
      BY <1>2, <2>1 DEF Control, InHeaders
  <1>5. QED
    BY <1>3, <1>4

\* The other steps.
LEMMA TurningControl ==
  ASSUME TypeOK, Control, Turning
  PROVE  Control'
  <1>1. UNCHANGED <<file, sync, streams, headers, page, peeked, taken>>
    BY TurningType
  <1>2. video' = video /\ damaged' = damaged /\ cut' = cut /\ got' = got /\ good' = good
        /\ returned' = returned /\ Serials' = Serials /\ mStreams' = mStreams /\ queue' = queue
        /\ peeked' = peeked /\ page' = page
    BY <1>1 DEF file, sync, streams, Serials
  <1>3. CASE UnknownStream \/ HoleAmidHeaders \/ CannotStart
    <2>1. pc' = "aborted" /\ UNCHANGED <<chosen, caller, escaped>>
      BY <1>3 DEF UnknownStream, HoleAmidHeaders, CannotStart, Abort
    <2>2. QED
      BY <1>2, <2>1 DEF Control, InHeaders, chosen
  <1>4. CASE NextHeaderPage
    <2>1. pc' = "read_page" /\ UNCHANGED <<chosen, caller, escaped>> /\ queue[peeked] = << >>
          /\ caller = "read_headers" /\ pc = "peek"
      BY <1>4 DEF NextHeaderPage, Control
    <2>2. \A s \in Serials : queue[s] = << >>
      BY <2>1 DEF Control, InHeaders
    <2>3. QED
      BY <1>2, <2>1, <2>2 DEF Control, InHeaders, chosen
  <1>5. CASE HeadersDone
    <2>1. pc' = "start" /\ UNCHANGED <<chosen, caller, escaped>> /\ caller = "read_headers"
      BY <1>5 DEF HeadersDone, Control
    <2>2. QED
      BY <1>2, <2>1 DEF Control, InHeaders, chosen
  <1>6. CASE StartPlay
    <2>1. /\ pc' = "packetout" /\ caller' = "audio" /\ escaped' = escaped
          /\ audio' = FirstOf("vorbis") /\ movie' = FirstOf("theora") /\ audio' # NoStream
          /\ active' = active \ (mStreams \ {audio', movie'}) /\ pc = "start"
      BY <1>6 DEF StartPlay, CanStart
    <2>2. audio' \in Known("vorbis") /\ (movie' # NoStream => movie' \in Known("theora"))
      BY <2>1, FirstOfKnown
    <2>3. active = Serials
      BY <2>1 DEF Control
    <2>4. audio' \in active' /\ (movie' # NoStream => movie' \in active' /\ video.kind[movie'] = "theora")
      BY <2>1, <2>2, <2>3 DEF Known, TypeOK
    <2>5. QED
      BY <1>2, <2>1, <2>4 DEF Control, InHeaders
  <1>7. CASE NoPacket \/ FrameDue \/ NoFrameDue \/ NextPacket \/ Escape
    <2>1. /\ caller # "read_headers" /\ UNCHANGED chosen
          /\ pc' \in {"packetout", "poll", "ended"} /\ caller' # "read_headers"
          /\ pc' = "ended" /\ ~escaped' => caller' = "audio"
          /\ caller' = "movie" => movie # NoStream
      BY <1>7 DEF NoPacket, FrameDue, NoFrameDue, NextPacket, Escape, Control, TypeOK
    <2>2. QED
      BY <1>2, <2>1 DEF Control, InHeaders, chosen
  <1>8. QED
    BY <1>3, <1>4, <1>5, <1>6, <1>7 DEF Turning

\* Every step.
LEMMA ControlStep ==
  ASSUME TypeOK, Control, Next
  PROVE  Control'
  BY NextCases, ReadPageControl, FeedControl, TakeControl, TurningControl
-----------------------------------------------------------------------------
(* What has come of a stream *)

Row(s, n) == [e \in 1 .. n |-> IF Serial(e) = s THEN Survivors(e) ELSE << >>]

\* What is flattened for a stream.
LEMMA RowType ==
  ASSUME video \in Videos, NEW s, NEW n \in 0 .. Num
  PROVE  /\ Row(s, n) \in Seq(Seq(Nat)) /\ Len(Row(s, n)) = n
         /\ \A e \in 1 .. n :
              /\ Survivors(e) \in Seq(Nat)
              /\ Row(s, n)[e] = IF Serial(e) = s THEN Survivors(e) ELSE << >>
  <1>1. n \in Nat /\ \A e \in 1 .. n : e \in 1 .. Num
    BY FileFacts
  <1>2. ASSUME NEW e \in 1 .. n PROVE Survivors(e) \in Seq(Nat)
    <2>1. video.pages[e].ids \in Seq(Nat) /\ << >> \in Seq(Nat)
      BY <1>1, FileFacts, EmptySeq
    <2>2. video.pages[e].ids # << >> => Tail(video.pages[e].ids) \in Seq(Nat)
      BY <2>1, HeadTailProperties
    <2>3. Survivors(e) \in {<< >>, video.pages[e].ids}
          \/ (video.pages[e].ids # << >> /\ Survivors(e) = Tail(video.pages[e].ids))
      BY DEF Survivors
    <2>4. QED
      BY <2>1, <2>2, <2>3
  <1>3. \A e \in 1 .. n : (IF Serial(e) = s THEN Survivors(e) ELSE << >>) \in Seq(Nat)
    BY <1>2, EmptySeq
  <1>4. Row(s, n) \in [1 .. n -> Seq(Nat)]
    BY <1>3 DEF Row
  <1>5. Row(s, n) \in Seq(Seq(Nat)) /\ Len(Row(s, n)) = n
    BY <1>1, <1>4
  <1>6. QED
    BY <1>2, <1>5 DEF Row

\* What has come of a stream is numbers.
LEMMA FateType ==
  ASSUME video \in Videos, NEW s, NEW n \in 0 .. Num
  PROVE  Fate(s, n) \in Seq(Nat)
  BY RowType, FlatType DEF Fate, Row

\* At first, nothing.
LEMMA FateAtFirst == \A s : Fate(s, 0) = << >>
  <1>1. \A s : [e \in 1 .. 0 |-> IF Serial(e) = s THEN Survivors(e) ELSE << >>] = << >>
    OBVIOUS
  <1>2. QED
    BY <1>1, FlatEmpty DEF Fate

\* One page more.
LEMMA FateStep ==
  ASSUME video \in Videos, NEW s, NEW k \in 1 .. Num
  PROVE  Fate(s, k) = Fate(s, k - 1) \o (IF Serial(k) = s THEN Survivors(k) ELSE << >>)
  <1> DEFINE x == IF Serial(k) = s THEN Survivors(k) ELSE << >>
             r == Row(s, k - 1)
             t == Row(s, k)
  <1>1. Num \in Nat /\ k - 1 \in 0 .. Num /\ k \in 0 .. Num /\ k \in 1 .. k
    BY FileFacts
  <1>2. r \in Seq(Seq(Nat)) /\ Len(r) = k - 1 /\ t \in Seq(Seq(Nat)) /\ Len(t) = k
    BY <1>1, RowType
  <1>3. x \in Seq(Nat) /\ t[k] = x
    BY <1>1, RowType, EmptySeq
  <1>4. \A e \in 1 .. (k - 1) : t[e] = r[e]
    <2>1. \A e \in 1 .. (k - 1) : e \in 1 .. k
      BY <1>1
    <2>2. QED
      BY <1>1, <2>1, RowType
  <1> HIDE DEF x, r, t
  <1>5. t = Append(r, x)
    <2>1. Append(r, x) \in Seq(Seq(Nat)) /\ Len(Append(r, x)) = Len(r) + 1
          /\ (\A i \in 1 .. Len(r) : Append(r, x)[i] = r[i]) /\ Append(r, x)[Len(r) + 1] = x
      BY <1>2, <1>3, AppendProperties
    <2>2. Len(r) + 1 = k
      BY <1>1, <1>2
    <2>3. \A i \in 1 .. k : i = k \/ i \in 1 .. (k - 1)
      BY <1>1
    <2>4. \A i \in 1 .. k : t[i] = Append(r, x)[i]
      BY <1>2, <1>3, <1>4, <2>1, <2>2, <2>3
    <2>5. QED
      BY <1>2, <2>1, <2>2, <2>4, SeqEqual
  <1>6. FlattenSeq(Append(r, x)) = FlattenSeq(r) \o x
    BY <1>2, <1>3, FlatAppend
  <1>7. QED
    BY <1>5, <1>6 DEF Fate, Row, x, r, t

\* Damaged pages add nothing.
LEMMA FateSkip ==
  ASSUME video \in Videos, NEW s, NEW n \in 0 .. Num, NEW m \in n .. Num,
         \A j \in (n + 1) .. m : j \in damaged
  PROVE  Fate(s, m) = Fate(s, n)
  <1> DEFINE T == {d \in Nat : n + d <= m => Fate(s, n + d) = Fate(s, n)}
  <1>0. Num \in Nat
    BY FileFacts
  <1>1. 0 \in T
    BY <1>0
  <1>2. ASSUME NEW d \in T PROVE d + 1 \in T
    <2> SUFFICES ASSUME n + (d + 1) <= m PROVE Fate(s, n + (d + 1)) = Fate(s, n)
      OBVIOUS
    <2> DEFINE k == n + (d + 1)
    <2>1. d \in Nat /\ k \in 1 .. Num /\ k - 1 = n + d /\ n + d <= m /\ k \in (n + 1) .. m
      BY <1>0
    <2>2. Fate(s, n + d) = Fate(s, n)
      BY <2>1
    <2>3. Survivors(k) = << >>
      BY <2>1 DEF Survivors
    <2> HIDE DEF k
    <2>4. Fate(s, k) = Fate(s, k - 1) \o << >>
      BY <2>1, <2>3, FateStep
    <2>5. Fate(s, n) \in Seq(Nat)
      BY FateType
    <2>6. Fate(s, n) \o << >> = Fate(s, n)
      BY <2>5, ConcatEmptySeq
    <2>7. QED
      BY <2>1, <2>2, <2>4, <2>6 DEF k
  <1>3. T = Nat
    <2>1. T \in SUBSET Nat
      OBVIOUS
    <2> HIDE DEF T
    <2>2. QED
      BY <1>1, <1>2, <2>1, Induction
  <1>4. m - n \in Nat /\ n + (m - n) = m /\ m <= m
    BY <1>0
  <1>5. m - n \in T
    BY <1>3, <1>4
  <1>6. QED
    BY <1>4, <1>5

\* Nothing of this changes with the state of the streams.
LEMMA FileKept ==
  ASSUME UNCHANGED file
  PROVE  /\ \A k, s, n : Latest(k, s, n)' <=> Latest(k, s, n)
         /\ \A b, s, n : Begun(b, s, n)' <=> Begun(b, s, n)
         /\ \A s, n : Fate(s, n)' = Fate(s, n)
         /\ \A k : Serial(k)' = Serial(k) /\ (Hit(k)' <=> Hit(k)) /\ (Middle(k)' <=> Middle(k))
         /\ video' = video /\ damaged' = damaged /\ cut' = cut
         /\ Num' = Num /\ Serials' = Serials
  <1>1. video' = video /\ damaged' = damaged /\ cut' = cut /\ Num' = Num /\ Serials' = Serials
        /\ PageUnits' = PageUnits
    BY DEF file, Num, Serials, PageUnits
  <1>2. \A k : Serial(k)' = Serial(k) /\ (Hit(k)' <=> Hit(k)) /\ (Middle(k)' <=> Middle(k))
    BY <1>1 DEF Serial, Hit, Middle
  <1>3. \A k, s, n : Latest(k, s, n)' <=> Latest(k, s, n)
    BY <1>1, <1>2 DEF Latest
  <1>4. \A k, j : Follows(k, j)' <=> Follows(k, j)
    BY <1>1, <1>2, <1>3 DEF Follows
  <1>5. \A b, s, n : Begun(b, s, n)' <=> Begun(b, s, n)
    BY <1>1, <1>2, <1>4 DEF Begun
  <1>6. \A e : Survivors(e)' = Survivors(e)
    BY <1>1, <1>4, <1>5 DEF Survivors
  <1>7. ASSUME NEW s, NEW n PROVE Fate(s, n)' = Fate(s, n)
    <2>1. Row(s, n)' = Row(s, n)
      BY <1>2, <1>6 DEF Row
    <2>2. QED
      BY <2>1 DEF Fate, Row
  <1>8. QED
    BY <1>1, <1>2, <1>3, <1>5, <1>7

\* Passing damaged pages changes nothing for a stream.
LEMMA KeptSkip ==
  ASSUME video \in Videos, NEW s, NEW n \in 0 .. Num, NEW m \in n .. Num,
         \A j \in (n + 1) .. m : j \in damaged, Kept(s, n)
  PROVE  Kept(s, m)
  <1>0. Num \in Nat /\ n \in Nat /\ m \in Nat /\ n <= m
    BY FileFacts
  <1>1. \A k \in 1 .. n : k \in 1 .. m
    BY <1>0
  <1>2. \A k \in 1 .. m : k \in 1 .. n \/ k \in damaged
    <2>1. \A k \in 1 .. m : k \in 1 .. n \/ k \in (n + 1) .. m
      BY <1>0
    <2>2. QED
      BY <2>1
  <1>3. \A k : Latest(k, s, n) => Latest(k, s, m)
    <2> SUFFICES ASSUME NEW k \in 1 .. n, Latest(k, s, n) PROVE Latest(k, s, m)
      BY DEF Latest
    <2>1. \A i \in (k + 1) .. m : i \in (k + 1) .. n \/ i \in (n + 1) .. m
      BY <1>0
    <2>2. QED
      BY <1>1, <2>1 DEF Latest
  <1>4. ASSUME NEW b \in 1 .. n PROVE Begun(b, s, n) <=> Begun(b, s, m)
    <2>1. \A k \in (b + 1) .. m : k \in (b + 1) .. n \/ k \in (n + 1) .. m
      BY <1>0
    <2>2. \A k \in (b + 1) .. n : k \in (b + 1) .. m
      BY <1>0
    <2>3. QED
      BY <2>1, <2>2 DEF Begun
  <1>5. (\E b \in 1 .. n : Begun(b, s, n)) <=> \E b \in 1 .. m : Begun(b, s, m)
    BY <1>1, <1>2, <1>4 DEF Begun
  <1>6. Fate(s, m) = Fate(s, n)
    BY FateSkip
  <1>7. QED
    BY <1>1, <1>2, <1>3, <1>5, <1>6 DEF Kept

\* No stream has two latest pages.
LEMMA LatestIsOne ==
  ASSUME NEW n \in Nat, NEW s, NEW j, NEW k, Latest(j, s, n), Latest(k, s, n)
  PROVE  j = k
  <1>1. j \in 1 .. n /\ k \in 1 .. n /\ j \notin damaged /\ k \notin damaged /\ Serial(j) = s /\ Serial(k) = s
        /\ ~(j \in (k + 1) .. n) /\ ~(k \in (j + 1) .. n)
    BY DEF Latest
  <1>2. QED
    BY <1>1

\* A page that is given to its stream continues what the stream holds the first part
\* of just if that was begun on the pages before.
LEMMA Continued ==
  ASSUME TypeOK, NEW k, NEW x, NEW h, Feeding(k, x, h), Kept(Serial(k), k - 1)
  PROVE  (\E b \in 1 .. (k - 1) : Begun(b, Serial(k), k - 1) /\ \E j \in b .. (k - 1) : Follows(k, j))
           <=> h /\ video.pages[k].no = x
  <1> DEFINE s == Serial(k)
  <1>1. k \in 1 .. Num /\ k \in Nat /\ k - 1 \in Nat /\ Num \in Nat /\ s \in Serials
        /\ \A j \in 1 .. Num : video.pages[j].no \in Nat
    <2>1. k \in 1 .. Num /\ video \in Videos
      BY DEF Feeding, TypeOK
    <2>2. Num \in Nat /\ s \in Serials /\ \A j \in 1 .. Num : video.pages[j].no \in Nat
      BY <2>1, FileFacts
    <2>3. QED
      BY <2>1, <2>2
  <1>2. CASE s \in mStreams /\ x = expected[s] /\ h = partial[s]
    <2>1. PICK j \in 1 .. (k - 1) : Latest(j, s, k - 1) /\ x = video.pages[j].no + 1
      BY <1>2 DEF Kept
    <2>2. h <=> \E b \in 1 .. (k - 1) : Begun(b, s, k - 1)
      BY <1>2 DEF Kept
    <2>3. ASSUME NEW b \in 1 .. (k - 1), Begun(b, s, k - 1) PROVE j \in b .. (k - 1)
      <3>1. b \notin damaged /\ Serial(b) = s
        BY <2>3 DEF Begun
      <3>2. ~(b \in (j + 1) .. (k - 1))
        BY <2>1, <3>1 DEF Latest
      <3>3. QED
        BY <1>1, <3>2
    <2>4. \A i : Follows(k, i) => i = j
      <3>1. \A i : Follows(k, i) => Latest(i, s, k - 1)
        BY DEF Follows
      <3>2. QED
        BY <1>1, <2>1, <3>1, LatestIsOne
    <2>5. Follows(k, j) <=> video.pages[k].no = x
      BY <2>1 DEF Follows
    <2>6. QED
      BY <2>2, <2>3, <2>4, <2>5
  <1>3. CASE video.pages[k].bos /\ x = 0 /\ h = FALSE
    <2>1. video.pages[k].no = 0
      BY <1>1, <1>3, FileFacts DEF TypeOK
    <2>2. \A j : ~Follows(k, j)
      <3> SUFFICES ASSUME NEW j, Follows(k, j) PROVE FALSE
        OBVIOUS
      <3>1. j \in 1 .. (k - 1) /\ video.pages[k].no = video.pages[j].no + 1
        BY DEF Follows, Latest
      <3>2. j \in 1 .. Num
        BY <1>1, <3>1
      <3>3. QED
        BY <1>1, <2>1, <3>1, <3>2
    <2>3. QED
      BY <1>3, <2>2
  <1>4. QED
    BY <1>2, <1>3 DEF Feeding

\* A page that is given to its stream: what ends on it has survived, and what has
\* begun on it or goes on is held.
LEMMA FedStream ==
  ASSUME TypeOK, NEW k, NEW x, NEW h, Feeding(k, x, h), Kept(Serial(k), k - 1)
  PROVE  /\ EndsOn(k, x, h) = Survivors(k)
         /\ partial'[Serial(k)] <=> \E b \in 1 .. k : Begun(b, Serial(k), k)
  <1> DEFINE s == Serial(k)
             C == \E b \in 1 .. (k - 1) : Begun(b, s, k - 1) /\ \E j \in b .. (k - 1) : Follows(k, j)
  <1>1. k \in 1 .. Num /\ k \in Nat /\ s \in Serials /\ k \notin damaged
    BY FileFacts DEF Feeding, TypeOK
  <1>2. C <=> h /\ video.pages[k].no = x
    BY Continued
  <1>3. video.pages[k].cont \in BOOLEAN /\ video.pages[k].open \in BOOLEAN /\ video.pages[k].serial = s
        /\ h \in BOOLEAN
    BY <1>1, FileFacts DEF TypeOK, Serial, Feeding
  <1>4. LostOn(k, x, h) <=> video.pages[k].cont /\ ~C
    <2> HIDE DEF C
    <2>1. QED
      BY <1>2, <1>3 DEF LostOn
  <1>5. EndsOn(k, x, h) = Survivors(k)
    <2>1. Survivors(k) = IF ~video.pages[k].cont \/ C \/ video.pages[k].ids = << >> THEN video.pages[k].ids
                         ELSE Tail(video.pages[k].ids)
      BY <1>1, <1>3 DEF Survivors
    <2> HIDE DEF C
    <2>2. QED
      BY <1>3, <1>4, <2>1 DEF EndsOn
  <1>6. ASSUME NEW b \in 1 .. (k - 1)
        PROVE  Begun(b, s, k) <=> /\ Begun(b, s, k - 1) /\ \E j \in b .. (k - 1) : Follows(k, j)
                                  /\ Middle(k) /\ video.pages[k].open
    <2>1. \A i \in (b + 1) .. k : i = k \/ i \in (b + 1) .. (k - 1)
      BY <1>1
    <2>2. k \in (b + 1) .. k /\ \A i \in (b + 1) .. (k - 1) : i \in (b + 1) .. k
      BY <1>1
    <2>3. QED
      BY <1>1, <2>1, <2>2 DEF Begun
  <1>7. Begun(k, s, k) <=> video.pages[k].open /\ ~Middle(k)
    <2>1. (k + 1) .. k = {}
      BY <1>1
    <2>2. QED
      BY <1>1, <2>1 DEF Begun
  <1>8. (\E b \in 1 .. k : Begun(b, s, k))
          <=> \/ video.pages[k].open /\ ~Middle(k)
              \/ C /\ Middle(k) /\ video.pages[k].open
    <2>1. \A b \in 1 .. k : b = k \/ b \in 1 .. (k - 1)
      BY <1>1
    <2>2. k \in 1 .. k /\ \A b \in 1 .. (k - 1) : b \in 1 .. k
      BY <1>1
    <2>3. QED
      BY <1>6, <1>7, <2>1, <2>2
  <1>9. partial'[s] <=> video.pages[k].open /\ ~(LostOn(k, x, h) /\ video.pages[k].ids = << >>)
    BY <1>1 DEF Feeding, TypeOK
  <1>10. Middle(k) <=> video.pages[k].cont /\ video.pages[k].ids = << >>
    BY DEF Middle
  <1>11. partial'[s] <=> \E b \in 1 .. k : Begun(b, s, k)
    <2> HIDE DEF C
    <2>1. QED
      BY <1>3, <1>4, <1>8, <1>9, <1>10
  <1>12. QED
    BY <1>5, <1>11

\* What is kept after a step, in terms of the file.
KeptThen(s, n) ==
  /\ s \in mStreams' => \E k \in 1 .. n : Latest(k, s, n) /\ expected'[s] = video.pages[k].no + 1
  /\ s \notin mStreams' =>
       /\ \A k \in 1 .. n : k \in damaged \/ Serial(k) # s
       /\ expected'[s] = 0 /\ headers'[s] = 0
  /\ partial'[s] <=> \E b \in 1 .. n : Begun(b, s, n)
  /\ taken'[s] \o Packets(queue'[s]) = Fate(s, n)

LEMMA KeptAfter ==
  ASSUME UNCHANGED file, NEW n, Fed' = n, \A s \in Serials : KeptThen(s, n)
  PROVE  AllKept'
  <1>1. /\ video' = video /\ damaged' = damaged /\ Serials' = Serials
        /\ \A k : Serial(k)' = Serial(k)
    BY FileKept
  <1>2. ASSUME NEW s, NEW k PROVE Latest(k, s, Fed)' <=> Latest(k, s, n)
    BY <1>1 DEF Latest
  <1>3. \A k, j : Follows(k, j)' <=> Follows(k, j)
    <2>1. \A k, j : Latest(j, Serial(k), k - 1)' <=> Latest(j, Serial(k), k - 1)
      BY <1>1 DEF Latest
    <2>2. QED
      BY <1>1, <2>1 DEF Follows
  <1>4. ASSUME NEW s, NEW b PROVE Begun(b, s, Fed)' <=> Begun(b, s, n)
    <2>1. Middle(b)' <=> Middle(b)
      BY <1>1 DEF Middle
    <2>2. \A k : Middle(k)' <=> Middle(k)
      BY <1>1 DEF Middle
    <2>3. QED
      BY <1>1, <1>3, <2>1, <2>2 DEF Begun
  <1>5. ASSUME NEW s PROVE Fate(s, Fed)' = Fate(s, n)
    <2>1. \A e, b : Begun(b, video.pages[e].serial, e - 1)' <=> Begun(b, video.pages[e].serial, e - 1)
      <3>1. \A k : Middle(k)' <=> Middle(k)
        BY <1>1 DEF Middle
      <3>2. QED
        BY <1>1, <1>3, <3>1 DEF Begun
    <2>2. \A e : Survivors(e)' = Survivors(e)
      BY <1>1, <1>3, <2>1 DEF Survivors
    <2>3. Row(s, Fed)' = Row(s, n)
      BY <1>1, <2>2 DEF Row
    <2>4. QED
      BY <2>3 DEF Fate, Row
  <1>6. ASSUME NEW s \in Serials PROVE Kept(s, Fed)'
    <2>1. KeptThen(s, n)
      OBVIOUS
    <2>2. Packets(queue[s])' = Packets(queue'[s])
      BY DEF Packets
    <2>3. QED
      BY <1>1, <1>2, <1>4, <1>5, <2>1, <2>2 DEF Kept, KeptThen
  <1>7. QED
    BY <1>1, <1>6 DEF AllKept

\* Reading a page passes damaged ones only.
LEMMA ReadPageFed ==
  ASSUME TypeOK, ReadPage
  PROVE  \E n \in returned .. Num : Fed' = n /\ \A j \in (returned + 1) .. n : j \in damaged
  <1>0. Num \in Nat /\ returned \in 0 .. Num
    BY FileFacts DEF TypeOK
  <1>1. CASE EnterReadPage \/ Read
    <2>1. returned' = returned /\ pc' # "page_read"
      BY <1>1 DEF EnterReadPage, Read, sync
    <2>2. Fed' = returned /\ returned \in returned .. Num
          /\ (returned + 1) .. returned = {}
      BY <1>0, <2>1 DEF Fed
    <2>3. QED
      BY <2>2
  <1>2. CASE NeedData \/ ReturnNoPage
    <2>1. NoPageOut /\ pc' # "page_read"
      BY <1>2 DEF NeedData, ReturnNoPage
    <2>2. Fed' = returned'
      BY <2>1 DEF Fed
    <2>3. QED
      BY <2>1, <2>2, NoPageOutSkips
  <1>3. CASE ReturnPage
    <2>1. PICK k \in 1 .. Num : PageOut(k) /\ page' = k
      BY <1>3 DEF ReturnPage
    <2>2. Fed' = k - 1
      BY <1>3, <2>1 DEF ReturnPage, Fed
    <2>3. k > returned /\ \A j \in (returned + 1) .. (k - 1) : j \in damaged
      BY <2>1, PageOutFinds
    <2>4. k - 1 \in returned .. Num
      BY <1>0, <2>3
    <2>5. QED
      BY <2>2, <2>3, <2>4
  <1>4. QED
    BY <1>1, <1>2, <1>3 DEF ReadPage

\* Reading a page.
LEMMA ReadPageKept ==
  ASSUME TypeOK, Control, AllKept, ReadPage
  PROVE  AllKept'
  <1>1. /\ UNCHANGED <<file, streams, headers, taken>>
        /\ pc \in Asking /\ pc' \in {"pageout", "read", "last_pageout", "page_read", "no_page"}
    BY DEF ReadPage, EnterReadPage, ReturnPage, NeedData, Read, ReturnNoPage, Asking
  <1>2. Num \in Nat /\ returned \in 0 .. Num /\ video \in Videos
    BY FileFacts DEF TypeOK
  <1>3. PICK n \in returned .. Num : Fed' = n /\ \A j \in (returned + 1) .. n : j \in damaged
    BY ReadPageFed
  <1>4. \A s \in Serials : Kept(s, n)
    <2>1. Fed = returned /\ pc # "aborted"
      BY <1>1 DEF Fed, Asking
    <2>2. QED
      BY <1>2, <1>3, <2>1, KeptSkip DEF AllKept
  <1>5. \A s \in Serials : KeptThen(s, n)
    BY <1>1, <1>4 DEF Kept, KeptThen, streams
  <1>6. QED
    BY <1>1, <1>3, <1>5, KeptAfter

\* A page that is given to its stream is kept in it,
LEMMA FeedKeptOwn ==
  ASSUME TypeOK, Control, NEW x, NEW h, Feeding(page, x, h), Kept(Serial(page), page - 1),
         headers' = headers \/ headers' = [headers EXCEPT ![Serial(page)] = 0]
  PROVE  KeptThen(Serial(page), page)
  <1> DEFINE s == Serial(page)
             k == page
             q == queue[s]
             e == EndsOn(k, x, h)
  <1>1. k \in 1 .. Num /\ Num \in Nat /\ s \in Serials /\ k \notin damaged /\ video \in Videos
    <2>1. k \in 1 .. Num /\ video \in Videos /\ k \notin damaged
      BY DEF Feeding, TypeOK
    <2>2. QED
      BY <2>1, FileFacts
  <1>2. e = Survivors(k) /\ (partial'[s] <=> \E b \in 1 .. k : Begun(b, s, k))
    BY FedStream
  <1>3. Latest(k, s, k) /\ k \in 1 .. k
    BY <1>1 DEF Latest
  <1>4. expected'[s] = video.pages[k].no + 1 /\ s \in mStreams'
    BY <1>1 DEF Feeding, TypeOK
  <1>5. taken'[s] \o Packets(queue'[s]) = Fate(s, k)
    <2>1. q \in Seq(Nat) /\ taken[s] \in Seq(Nat) /\ e \in Seq(Nat) /\ <<Hole>> \in Seq(Nat)
          /\ taken' = taken
      <3>1. taken[s] \in Seq(Nat \ {Hole}) /\ q \in Seq(Nat)
        BY <1>1 DEF TypeOK
      <3>2. QED
        BY <1>1, <3>1, EndsOnType, SeqMonotonic DEF Feeding, Hole
    <2> DEFINE r == IF video.pages[k].no # x THEN Append(q, Hole) ELSE q
    <2>2. queue'[s] = r \o e
      BY <1>1 DEF Feeding, TypeOK
    <2>3. r \in Seq(Nat) /\ Packets(r) = Packets(q)
      <3>1. Append(q, Hole) = q \o <<Hole>>
        <4>1. \A u \in Seq(Nat) : Append(u, 0) = u \o <<0>>
          BY AppendIsConcat
        <4>2. QED
          BY <2>1, <4>1 DEF Hole
      <3>2. Packets(q \o <<Hole>>) = Packets(q) \o Packets(<<Hole>>)
        BY <2>1, PacketsConcat
      <3>3. Packets(<<Hole>>) = << >>
        BY PacketsOne DEF Hole
      <3>4. Packets(q) \o << >> = Packets(q)
        BY <2>1, PacketsType, ConcatEmptySeq
      <3>5. q \o <<Hole>> \in Seq(Nat)
        BY <2>1, ConcatProperties
      <3> HIDE DEF q
      <3>6. QED
        BY <2>1, <3>1, <3>2, <3>3, <3>4, <3>5
    <2> HIDE DEF r, e, q
    <2>4. Packets(r \o e) = Packets(q) \o e
      <3>1. Packets(e) = e
        BY <1>1, <2>1, EndsOnType, PacketsHoleless DEF e
      <3>2. QED
        BY <2>1, <2>3, <3>1, PacketsConcat
    <2>5. taken[s] \o Packets(q) = Fate(s, k - 1)
      BY DEF Kept, q
    <2>6. Fate(s, k) = Fate(s, k - 1) \o e
      BY <1>1, <1>2, FateStep DEF e
    <2>7. (taken[s] \o Packets(q)) \o e = taken[s] \o (Packets(q) \o e)
      <3>1. taken[s] \in Seq(Nat) /\ Packets(q) \in Seq(Nat) /\ e \in Seq(Nat)
        BY <2>1, PacketsType DEF q, e
      <3>2. QED
        BY ONLY <3>1, Associative
    <2>8. QED
      BY <2>1, <2>2, <2>4, <2>5, <2>6, <2>7
  <1>6. QED
    BY <1>2, <1>3, <1>4, <1>5 DEF KeptThen

\* and changes nothing for the other streams.
LEMMA FeedKeptOther ==
  ASSUME TypeOK, Control, NEW x, NEW h, Feeding(page, x, h), NEW s \in Serials, s # Serial(page),
         Kept(s, page - 1),
         headers' = headers \/ headers' = [headers EXCEPT ![Serial(page)] = 0]
  PROVE  KeptThen(s, page)
  <1> DEFINE k == page
  <1>1. k \in 1 .. Num /\ Num \in Nat /\ video \in Videos
    BY FileFacts DEF Feeding, TypeOK
  <1>2. /\ expected'[s] = expected[s] /\ queue'[s] = queue[s] /\ partial'[s] = partial[s]
        /\ headers'[s] = headers[s] /\ taken' = taken /\ (s \in mStreams' <=> s \in mStreams)
    BY DEF Feeding, TypeOK
  <1>3. \A j \in 1 .. k : j = k \/ j \in 1 .. (k - 1)
    BY <1>1
  <1>4. \A j \in 1 .. (k - 1) : j \in 1 .. k
    BY <1>1
  <1>5. \A j : Latest(j, s, k - 1) => Latest(j, s, k)
    <2>1. \A j \in 1 .. (k - 1) : \A i \in (j + 1) .. k : i = k \/ i \in (j + 1) .. (k - 1)
      BY <1>1
    <2>2. QED
      BY <1>4, <2>1 DEF Latest
  <1>6. ASSUME NEW b \in 1 .. (k - 1) PROVE Begun(b, s, k) <=> Begun(b, s, k - 1)
    <2>1. \A i \in (b + 1) .. k : i = k \/ i \in (b + 1) .. (k - 1)
      BY <1>1
    <2>2. \A i \in (b + 1) .. (k - 1) : i \in (b + 1) .. k
      BY <1>1
    <2>3. QED
      BY <2>1, <2>2 DEF Begun
  <1>7. (\E b \in 1 .. k : Begun(b, s, k)) <=> \E b \in 1 .. (k - 1) : Begun(b, s, k - 1)
    BY <1>3, <1>4, <1>6 DEF Begun
  <1>8. Fate(s, k) = Fate(s, k - 1)
    <2>1. Fate(s, k) = Fate(s, k - 1) \o << >>
      BY <1>1, FateStep
    <2>2. k - 1 \in 0 .. Num
      BY <1>1
    <2>3. Fate(s, k - 1) \in Seq(Nat)
      BY <1>1, <2>2, FateType
    <2>4. QED
      BY <2>1, <2>3, ConcatEmptySeq
  <1>9. QED
    BY <1>2, <1>3, <1>4, <1>5, <1>7, <1>8 DEF Kept, KeptThen

LEMMA FeedKept ==
  ASSUME TypeOK, Control, AllKept, HeadersPage \/ FeedPage
  PROVE  AllKept'
  <1>1. PICK x, h : Feeding(page, x, h)
    BY HeadersPageFeeds, FeedPageFeeds
  <1>2. headers' = headers \/ headers' = [headers EXCEPT ![Serial(page)] = 0]
    BY HeadersPageFeeds, FeedPageFeeds
  <1>3. Fed = page - 1 /\ pc = "page_read"
    BY <1>1 DEF Feeding, Fed
  <1>4. Fed' = page
    <2>1. pc' # "page_read"
      BY HeadersPageFeeds, FeedPageFeeds
    <2>2. returned' = page
      BY <1>1 DEF Feeding, sync
    <2>3. QED
      BY <2>1, <2>2 DEF Fed
  <1>5. \A s \in Serials : Kept(s, page - 1)
    BY <1>3 DEF AllKept
  <1>6. Serial(page) \in Serials
    BY <1>1, FeedingType
  <1>7. \A s \in Serials : KeptThen(s, page)
    BY <1>1, <1>2, <1>5, <1>6, FeedKeptOwn, FeedKeptOther
  <1>8. UNCHANGED file
    BY <1>1 DEF Feeding
  <1>9. QED
    BY <1>4, <1>7, <1>8, KeptAfter

\* The packets of a queue are that at its head, if it is no hole, and the others.
LEMMA PacketsHead ==
  ASSUME NEW q \in Seq(Nat), q # << >>
  PROVE  /\ Head(q) \in Nat /\ Tail(q) \in Seq(Nat)
         /\ Packets(q) = (IF Head(q) = Hole THEN << >> ELSE <<Head(q)>>) \o Packets(Tail(q))
  <1>1. Head(q) \in Nat /\ Tail(q) \in Seq(Nat) /\ q = <<Head(q)>> \o Tail(q)
    <2>1. /\ Head(q) \in Nat /\ Head(q) = q[1] /\ Tail(q) \in Seq(Nat)
          /\ Len(Tail(q)) = Len(q) - 1 /\ \A i \in 1 .. Len(Tail(q)) : Tail(q)[i] = q[i + 1]
      BY HeadTailProperties
    <2> DEFINE t == Tail(q)
               h == <<Head(q)>>
    <2>2. Len(q) \in Nat \ {0} /\ Len(t) \in Nat /\ h \in Seq(Nat) /\ Len(h) = 1 /\ h[1] = q[1]
      BY <2>1, EmptySeq, LenProperties
    <2> HIDE DEF t, h
    <2>3. /\ h \o t \in Seq(Nat) /\ Len(h \o t) = Len(h) + Len(t)
          /\ \A i \in 1 .. Len(h) + Len(t) : (h \o t)[i] = IF i <= Len(h) THEN h[i] ELSE t[i - Len(h)]
      BY <2>1, <2>2, ConcatProperties DEF t
    <2>4. Len(h \o t) = Len(q)
      BY <2>1, <2>2, <2>3 DEF t
    <2>5. \A i \in 1 .. Len(q) : (h \o t)[i] = q[i]
      <3>1. ASSUME NEW i \in 1 .. Len(q) PROVE (h \o t)[i] = q[i]
        <4>1. i = 1 \/ (i - 1 \in 1 .. Len(t) /\ i - 1 + 1 = i)
          BY <2>2, <2>3, <2>4
        <4>2. i \in 1 .. Len(h) + Len(t)
          BY <2>3, <2>4
        <4>3. QED
          BY <2>1, <2>2, <2>3, <4>1, <4>2 DEF t
      <3>2. QED
        BY <3>1
    <2>6. q = h \o t
      BY <2>3, <2>4, <2>5, SeqEqual
    <2>7. QED
      BY <2>1, <2>6 DEF t, h
  <1>2. <<Head(q)>> \in Seq(Nat)
    BY <1>1
  <1>3. Packets(<<Head(q)>> \o Tail(q)) = Packets(<<Head(q)>>) \o Packets(Tail(q))
    BY <1>1, <1>2, PacketsConcat
  <1>4. QED
    BY <1>1, <1>3, PacketsOne

\* Taking a packet from its queue.
LEMMA TakeKept ==
  ASSUME TypeOK, Control, AllKept, ConsumeHeader \/ PacketOut \/ NoPacketOut
  PROVE  AllKept'
  <1>1. /\ UNCHANGED <<file, sync, mStreams, expected, partial, page>>
        /\ pc \notin {"page_read", "aborted"} /\ pc' # "page_read"
    <2>1. UNCHANGED <<file, sync, mStreams, expected, partial, page>> /\ pc \in {"peek", "packetout"}
      BY DEF ConsumeHeader, PacketOut, NoPacketOut
    <2>2. pc' # "page_read"
      BY DEF ConsumeHeader, PacketOut, NoPacketOut, Decoded, Control, TypeOK
    <2>3. QED
      BY <2>1, <2>2
  <1>2. Fed' = Fed /\ \A s \in Serials : Kept(s, Fed)
    BY <1>1 DEF Fed, AllKept, sync
  <1>3. PICK w \in Serials :
          /\ headers' = headers \/ (w \in mStreams /\ \E c : headers' = [headers EXCEPT ![w] = c])
          /\ \/ queue[w] = << >> /\ queue' = [queue EXCEPT ![w] = << >>] /\ taken' = taken
             \/ /\ queue[w] # << >> /\ queue' = [queue EXCEPT ![w] = Tail(queue[w])]
                /\ taken' = IF Head(queue[w]) = Hole THEN taken
                            ELSE [taken EXCEPT ![w] = Append(taken[w], Head(queue[w]))]
    <2>1. CASE ConsumeHeader
      BY <2>1 DEF ConsumeHeader, Peeked, Control, TypeOK
    <2>2. CASE PacketOut \/ NoPacketOut
      <3>1. Wanted \in Serials
        BY <2>2 DEF PacketOut, NoPacketOut, Wanted, Control, TypeOK
      <3>2. QED
        BY <2>2, <3>1 DEF PacketOut, NoPacketOut
    <2>3. QED
      BY <2>1, <2>2
  <1>4. /\ \A s \in Serials : queue[s] \in Seq(Nat) /\ taken[s] \in Seq(Nat)
        /\ queue \in [Serials -> Seq(Nat)] /\ taken \in [Serials -> Seq(Nat \ {Hole})]
        /\ headers \in [Serials -> 0 .. HeaderPackets]
    <2>1. \A t : t \in Seq(Nat \ {Hole}) => t \in Seq(Nat)
      BY SeqMonotonic
    <2>2. QED
      BY <2>1 DEF TypeOK
  <1>5. ASSUME NEW s \in Serials PROVE taken'[s] \o Packets(queue'[s]) = taken[s] \o Packets(queue[s])
    <2>1. CASE s = w /\ queue[w] # << >>
      <3> DEFINE q == queue[w]
                 y == IF Head(q) = Hole THEN << >> ELSE <<Head(q)>>
      <3>1. /\ Head(q) \in Nat /\ Tail(q) \in Seq(Nat)
            /\ Packets(q) = y \o Packets(Tail(q))
        BY <1>4, <2>1, PacketsHead
      <3>2. y \in Seq(Nat) /\ Packets(Tail(q)) \in Seq(Nat)
        <4>1. << >> \in Seq(Nat) /\ <<Head(q)>> \in Seq(Nat)
          BY <3>1, EmptySeq
        <4>2. Packets(Tail(q)) \in Seq(Nat)
          BY <3>1, PacketsType
        <4>3. QED
          BY <4>1, <4>2
      <3>3. taken'[w] = taken[w] \o y
        <4>1. taken[w] \o << >> = taken[w]
          BY <1>4, ConcatEmptySeq
        <4>2. Append(taken[w], Head(q)) = taken[w] \o <<Head(q)>>
          BY <1>4, <3>1, AppendIsConcat
        <4>3. QED
          BY <1>3, <1>4, <2>1, <4>1, <4>2
      <3>4. queue'[w] = Tail(q)
        BY <1>3, <1>4, <2>1
      <3> HIDE DEF q, y
      <3>5. (taken[w] \o y) \o Packets(Tail(q)) = taken[w] \o (y \o Packets(Tail(q)))
        <4>1. taken[w] \in Seq(Nat)
          BY <1>4
        <4>2. QED
          BY ONLY <3>2, <4>1, Associative
      <3>6. QED
        BY <2>1, <3>1, <3>3, <3>4, <3>5 DEF q
    <2>2. CASE s # w \/ queue[w] = << >>
      <3>1. queue'[s] = queue[s] /\ taken'[s] = taken[s]
        BY <1>3, <1>4, <2>2
      <3>2. QED
        BY <3>1
    <2>3. QED
      BY <2>1, <2>2
  <1>6. \A s \in Serials : s \notin mStreams => headers'[s] = headers[s]
    BY <1>3, <1>4
  <1>7. \A s \in Serials : KeptThen(s, Fed)
    BY <1>1, <1>2, <1>5, <1>6 DEF Kept, KeptThen
  <1>8. QED
    BY <1>1, <1>2, <1>7, KeptAfter

\* The other steps.
LEMMA TurningKept ==
  ASSUME TypeOK, AllKept, Turning
  PROVE  AllKept'
  <1>1. UNCHANGED <<file, sync, streams, headers, page, taken>>
    BY TurningType
  <1>2. CASE pc' = "aborted"
    BY <1>2 DEF AllKept
  <1>3. CASE pc' # "aborted"
    <2>1. pc # "page_read" /\ pc # "aborted" /\ pc' # "page_read"
      BY <1>3 DEF Turning, UnknownStream, HoleAmidHeaders, NextHeaderPage, HeadersDone, CannotStart,
         Abort, NoPacket, FrameDue, NoFrameDue, NextPacket, Escape, StartPlay
    <2>2. Fed' = Fed /\ \A s \in Serials : Kept(s, Fed)
      BY <1>1, <2>1 DEF Fed, AllKept, sync
    <2>3. \A s \in Serials : KeptThen(s, Fed)
      BY <1>1, <2>2 DEF Kept, KeptThen, streams
    <2>4. QED
      BY <1>1, <2>2, <2>3, KeptAfter
  <1>4. QED
    BY <1>2, <1>3

\* Every step keeps what has come.
LEMMA KeptStep ==
  ASSUME TypeOK, Control, AllKept, Next
  PROVE  AllKept'
  BY NextCases, ReadPageKept, FeedKept, TakeKept, TurningKept
-----------------------------------------------------------------------------
(* While headers are read, a stream's packets come one after the other *)

\* How pages and packets are numbered.
LEMMA NumberingFacts ==
  ASSUME video \in Videos, NEW k \in 1 .. Num
  PROVE  /\ video.pages[k].no > 0 => \E j \in 1 .. (k - 1) :
              /\ Serial(j) = Serial(k) /\ video.pages[k].no = video.pages[j].no + 1
              /\ video.pages[k].cont => video.pages[j].open
         /\ video.pages[k].cont => video.pages[k].no > 0
         /\ DOMAIN video.pages[k].ids = 1 .. Len(video.pages[k].ids) /\ Len(video.pages[k].ids) \in Nat
         /\ \A i \in DOMAIN video.pages[k].ids :
              /\ video.pages[k].ids[i] \in Nat \ {0} /\ i \in Nat \ {0}
              /\ video.pages[k].ids[i] = video.pages[k].ids[1] + i - 1
         /\ \A j \in 1 .. Num : Serial(j) = Serial(k) =>
              /\ video.pages[j].no = video.pages[k].no => video.pages[j] = video.pages[k]
              /\ video.pages[j].no < video.pages[k].no =>
                   \A a \in DOMAIN video.pages[j].ids, i \in DOMAIN video.pages[k].ids :
                     video.pages[j].ids[a] < video.pages[k].ids[i]
  <1> DEFINE p == video.pages[k]
             Own == {j \in DOMAIN video.pages : video.pages[j].serial = p.serial}
  <1>1. DOMAIN video.pages = 1 .. Num /\ Num \in Nat /\ p.ids \in Seq(Nat \ {0})
    BY FileFacts
  <1>2. /\ p.no > 0 => \E j \in Own :
             j < k /\ p.no = video.pages[j].no + 1 /\ (p.cont => video.pages[j].open)
        /\ p.cont => p.no > 0
        /\ \A i \in DOMAIN p.ids : p.ids[i] = p.ids[1] + i - 1
        /\ \A j \in Own :
             /\ video.pages[j].no = p.no => video.pages[j] = p
             /\ video.pages[j].no < p.no =>
                  \A a \in DOMAIN video.pages[j].ids, i \in DOMAIN p.ids :
                    video.pages[j].ids[a] < p.ids[i]
    BY <1>1, NumberingAssumption
  <1>3. \A j \in 1 .. Num : Serial(j) = Serial(k) <=> j \in Own
    BY <1>1 DEF Serial
  <1>4. \A j \in Own : j < k => j \in 1 .. (k - 1) /\ j \in 1 .. Num
    BY <1>1
  <1>5. DOMAIN p.ids = 1 .. Len(p.ids) /\ Len(p.ids) \in Nat /\ \A i \in DOMAIN p.ids : p.ids[i] \in Nat \ {0}
    BY <1>1, LenProperties, ElementOfSeq
  <1>6. \A i \in DOMAIN p.ids : i \in Nat \ {0}
    BY <1>5
  <1> HIDE DEF p, Own
  <1>7. p.no > 0 => \E j \in 1 .. (k - 1) :
              /\ Serial(j) = Serial(k) /\ p.no = video.pages[j].no + 1
              /\ p.cont => video.pages[j].open
    BY <1>2, <1>3, <1>4
  <1>8. QED
    BY <1>2, <1>3, <1>5, <1>6, <1>7 DEF p

\* In a stream the packets of a later page come after all those before it.
LEMMA LaterPackets ==
  ASSUME video \in Videos, NEW k \in 1 .. Num, NEW j \in 1 .. Num, Serial(j) = Serial(k),
         video.pages[k].no < video.pages[j].no, NEW c \in Nat,
         \A i \in DOMAIN video.pages[k].ids : video.pages[k].ids[i] >= c + i,
         \A i \in DOMAIN video.pages[j].ids : video.pages[j].ids[i] >= c + i
  PROVE  \A i \in DOMAIN video.pages[j].ids :
           video.pages[j].ids[i] >= c + Len(video.pages[k].ids) + i
  <1> DEFINE u == video.pages[k].ids
             v == video.pages[j].ids
             n == Len(u)
  <1>1. /\ DOMAIN u = 1 .. n /\ n \in Nat /\ \A i \in DOMAIN u : u[i] \in Nat
        /\ DOMAIN v = 1 .. Len(v) /\ Len(v) \in Nat
        /\ \A i \in DOMAIN v : v[i] \in Nat /\ i \in Nat \ {0} /\ v[i] = v[1] + i - 1
    BY NumberingFacts
  <1>2. \A a \in DOMAIN u, i \in DOMAIN v : u[a] < v[i]
    BY NumberingFacts
  <1>3. /\ \A i \in DOMAIN u : u[i] >= c + i
        /\ \A i \in DOMAIN v : v[i] >= c + i
    OBVIOUS
  <1> HIDE DEF u, v, n
  <1>4. ASSUME NEW i \in DOMAIN v PROVE v[i] >= c + n + i
    <2>1. 1 \in DOMAIN v /\ v[1] \in Nat /\ v[i] = v[1] + i - 1 /\ i \in Nat \ {0}
      BY <1>1
    <2>2. CASE n = 0
      BY <1>1, <1>3, <2>2
    <2>3. CASE n # 0
      <3>1. n \in DOMAIN u
        BY <1>1, <2>3
      <3>2. u[n] >= c + n /\ u[n] < v[1] /\ u[n] \in Nat
        BY <1>1, <1>2, <1>3, <2>1, <3>1
      <3>3. v[1] >= c + n + 1
        BY <1>1, <2>1, <3>2
      <3>4. QED
        BY <1>1, <2>1, <3>3
    <2>4. QED
      BY <2>2, <2>3
  <1>5. QED
    BY <1>4 DEF u, v, n

\* What is counted after a step, in terms of the file.
CountedFrom(s, q, hd, ex) ==
  /\ \A i \in DOMAIN q : (\A j \in 1 .. i : q[j] # Hole) => q[i] = q[1] + i - 1 /\ q[i] >= hd + i
  /\ Holeless(q) => \A k \in 1 .. Num : Serial(k) = s /\ video.pages[k].no >= ex =>
       \A i \in DOMAIN video.pages[k].ids : video.pages[k].ids[i] >= hd + Len(q) + i

LEMMA CountedAfter ==
  ASSUME UNCHANGED file, NEW s, CountedFrom(s, queue'[s], headers'[s], expected'[s])
  PROVE  Counted(s)'
  <1>1. video' = video /\ Num' = Num /\ \A k : Serial(k)' = Serial(k)
    BY FileKept
  <1>2. QED
    BY <1>1 DEF Counted, CountedFrom, Holeless

\* Feeding.
LEMMA HeadersPageCounted ==
  ASSUME TypeOK, Control, HeadersCounted, HeadersPage
  PROVE  HeadersCounted'
  <1> DEFINE k == page
             s == Serial(k)
             ids == video.pages[k].ids
             hd == headers'[s]
  <1>1. PICK x, h : /\ Feeding(k, x, h)
                    /\ IF video.pages[k].bos THEN x = 0 /\ h = FALSE ELSE x = expected[s]
    BY HeadersPageFeeds
  <1>2. /\ queue[s] = << >> /\ caller = "read_headers" /\ pc = "page_read"
        /\ headers' = IF video.pages[k].bos THEN [headers EXCEPT ![s] = 0] ELSE headers
    BY <1>1, HeadersPageFeeds DEF Feeding
  <1>3. k \in 1 .. Num /\ Num \in Nat /\ s \in Serials /\ video \in Videos
        /\ headers \in [Serials -> 0 .. HeaderPackets] /\ HeaderPackets \in Nat
    <2>1. k \in 1 .. Num /\ video \in Videos /\ headers \in [Serials -> 0 .. HeaderPackets]
      BY <1>1 DEF Feeding, TypeOK
    <2>2. QED
      BY <2>1, FileFacts, SizesAssumption
  <1>4. \A t \in Serials : Counted(t)
    BY <1>2 DEF HeadersCounted, InHeaders
  <1>5. ASSUME NEW t \in Serials, t # s PROVE CountedFrom(t, queue'[t], headers'[t], expected'[t])
    <2>1. queue'[t] = queue[t] /\ headers'[t] = headers[t] /\ expected'[t] = expected[t]
      BY <1>1, <1>2, <1>5 DEF Feeding, TypeOK
    <2>2. QED
      BY <1>4, <2>1 DEF Counted, CountedFrom
  <1>6. CountedFrom(s, queue'[s], hd, expected'[s])
    <2> DEFINE e == EndsOn(k, x, h)
    <2>1. /\ queue'[s] = (IF video.pages[k].no # x THEN Append(<< >>, Hole) ELSE << >>) \o e
          /\ expected'[s] = video.pages[k].no + 1
      BY <1>1, <1>2, <1>3 DEF Feeding, TypeOK
    <2>2. e \in Seq(Nat) /\ Holeless(e)
      BY <1>3, EndsOnType
    <2>3. CASE video.pages[k].no # x
      <3>1. queue'[s] = <<0>> \o e
        BY <2>1, <2>3 DEF Hole
      <3>2. Len(<<0>> \o e) = 1 + Len(e) /\ (<<0>> \o e)[1] = 0 /\ Len(e) \in Nat
            /\ DOMAIN (<<0>> \o e) = 1 .. 1 + Len(e)
        <4> HIDE DEF e
        <4>1. <<0>> \in Seq(Nat) /\ Len(<<0>>) = 1 /\ <<0>>[1] = 0 /\ Len(e) \in Nat
          BY <2>2, LenProperties
        <4>2. QED
          BY <2>2, <4>1, ConcatProperties, LenProperties
      <3> DEFINE q == queue'[s]
      <3>3. 1 \in DOMAIN q /\ q[1] = Hole /\ \A i \in DOMAIN q : 1 \in 1 .. i
        BY <3>1, <3>2 DEF Hole
      <3> HIDE DEF q
      <3>4. CountedFrom(s, q, hd, expected'[s])
        BY <3>3 DEF CountedFrom, Holeless
      <3>5. QED
        BY <3>4 DEF q
    <2>4. CASE video.pages[k].no = x
      <3>1. queue'[s] = e
        BY <2>1, <2>2, <2>4, ConcatEmptySeq
      <3>2. hd \in Nat /\ headers[s] \in Nat
        BY <1>2, <1>3
      <3>3. ASSUME NEW j \in 1 .. Num, Serial(j) = s, video.pages[j].no >= video.pages[k].no,
                   NEW i \in DOMAIN video.pages[j].ids
            PROVE  video.pages[j].ids[i] >= hd + i
        <4>1. CASE video.pages[k].bos
          <5>1. hd = 0
            BY <1>2, <1>3, <4>1
          <5>2. /\ video.pages[j].ids[i] = video.pages[j].ids[1] + i - 1 /\ 1 \in DOMAIN video.pages[j].ids
                /\ i \in Nat
            BY <1>3, <3>3, NumberingFacts
          <5>3. video.pages[j].ids[1] \in Nat \ {0}
            BY <1>3, <5>2, NumberingFacts
          <5>4. QED
            BY <5>1, <5>2, <5>3
        <4>2. CASE ~video.pages[k].bos
          <5>1. hd = headers[s] /\ x = expected[s]
            BY <1>1, <1>2, <4>2
          <5>2. Holeless(<< >>) /\ Len(<< >>) = 0
            BY DEF Holeless
          <5>3. video.pages[j].ids[i] >= headers[s] + 0 + i
            BY <1>2, <1>3, <1>4, <2>4, <3>3, <5>1, <5>2 DEF Counted
          <5>4. QED
            BY <3>2, <5>1, <5>3
        <4>3. QED
          BY <4>1, <4>2
      <3>4. /\ DOMAIN ids = 1 .. Len(ids) /\ Len(ids) \in Nat
            /\ \A i \in DOMAIN ids : ids[i] \in Nat /\ ids[i] = ids[1] + i - 1 /\ ids[i] >= hd + i
        <4>1. DOMAIN ids = 1 .. Len(ids) /\ Len(ids) \in Nat
              /\ \A i \in DOMAIN ids : ids[i] \in Nat /\ ids[i] = ids[1] + i - 1
          BY <1>3, NumberingFacts
        <4>2. video.pages[k].no >= video.pages[k].no
          BY <1>3, FileFacts
        <4>3. \A i \in DOMAIN ids : ids[i] >= hd + i
          BY <1>3, <3>3, <4>2
        <4>4. QED
          BY <4>1, <4>3
      <3>5. \/ e = ids
            \/ /\ Len(ids) # 0 /\ Len(e) = Len(ids) - 1
               /\ \A i \in 1 .. Len(e) : e[i] = ids[i + 1]
        <4>1. ids \in Seq(Nat)
          BY <1>3, FileFacts
        <4>2. e = ids \/ (ids # << >> /\ e = Tail(ids))
          BY DEF EndsOn
        <4> HIDE DEF e, ids
        <4>3. QED
          BY <4>1, <4>2, HeadTailProperties, EmptySeq
      <3>6. DOMAIN e = 1 .. Len(e) /\ Len(e) \in Nat
        BY <2>2, LenProperties
      <3>7. Len(e) <= Len(ids) /\ \A i \in DOMAIN e : e[i] = e[1] + i - 1 /\ e[i] >= hd + i
        <4> HIDE DEF e, ids, hd
        <4>1. CASE e = ids
          BY <3>4, <4>1
        <4>2. CASE e # ids
          <5>1. Len(ids) # 0 /\ Len(e) = Len(ids) - 1 /\ \A i \in 1 .. Len(e) : e[i] = ids[i + 1]
            BY <3>5, <4>2
          <5>2. ASSUME NEW i \in DOMAIN e PROVE e[i] = e[1] + i - 1 /\ e[i] >= hd + i
            <6>1. i \in 1 .. Len(e) /\ i + 1 \in DOMAIN ids /\ 1 \in 1 .. Len(e) /\ 1 + 1 \in DOMAIN ids
                /\ 1 \in DOMAIN ids
              BY <3>4, <3>6, <5>1
            <6>2. e[i] = ids[i + 1] /\ e[1] = ids[1 + 1]
              BY <5>1, <6>1
            <6>3. /\ ids[i + 1] = ids[1] + (i + 1) - 1 /\ ids[1 + 1] = ids[1] + (1 + 1) - 1
                  /\ ids[i + 1] >= hd + (i + 1) /\ ids[1] \in Nat
              BY <3>4, <6>1
            <6>4. QED
              BY <3>2, <3>6, <6>1, <6>2, <6>3 DEF hd
          <5>3. QED
            BY <3>4, <5>1, <5>2
        <4>3. QED
          BY <4>1, <4>2
      <3>8. ASSUME NEW j \in 1 .. Num, Serial(j) = s, video.pages[j].no >= video.pages[k].no + 1,
                   NEW i \in DOMAIN video.pages[j].ids
            PROVE  video.pages[j].ids[i] >= hd + Len(e) + i
        <4>1. /\ video.pages[k].no \in Nat /\ video.pages[j].no \in Nat /\ i \in Nat
              /\ video.pages[j].ids[i] \in Nat
          BY <1>3, <3>8, FileFacts, NumberingFacts
        <4>2. video.pages[k].no < video.pages[j].no /\ video.pages[j].no >= video.pages[k].no
          BY <3>8, <4>1
        <4>3. \A a \in DOMAIN video.pages[j].ids : video.pages[j].ids[a] >= hd + a
          BY <3>3, <3>8, <4>2
        <4>4. video.pages[j].ids[i] >= hd + Len(ids) + i
          BY <1>3, <3>2, <3>4, <3>8, <4>2, <4>3, LaterPackets
        <4> HIDE DEF hd, ids, e
        <4>5. QED
          BY <3>2, <3>4, <3>6, <3>7, <4>1, <4>4 DEF hd
      <3> HIDE DEF e, ids, hd
      <3>9. CountedFrom(s, e, hd, video.pages[k].no + 1)
        BY <3>7, <3>8 DEF CountedFrom
      <3>10. QED
        BY <2>1, <3>1, <3>9
    <2>5. QED
      BY <2>3, <2>4
  <1>7. UNCHANGED file /\ Serials' = Serials
    BY <1>1, FileKept DEF Feeding
  <1>8. QED
    BY <1>5, <1>6, <1>7, CountedAfter DEF HeadersCounted

\* A header is taken.
LEMMA ConsumeHeaderCounted ==
  ASSUME TypeOK, Control, HeadersCounted, ConsumeHeader
  PROVE  HeadersCounted'
  <1> DEFINE s == peeked
             q == queue[s]
             t == Tail(q)
             hd == headers[s]
  <1>1. /\ s \in Serials /\ pc = "peek" /\ caller = "read_headers" /\ InHeaders
        /\ UNCHANGED <<file, expected>> /\ q # << >> /\ Head(q) # Hole
        /\ queue' = [queue EXCEPT ![s] = t]
        /\ \E c \in {hd, hd + 1} : headers' = [headers EXCEPT ![s] = c]
    BY DEF ConsumeHeader, Peeked, Control, TypeOK, InHeaders
  <1>2. queue \in [Serials -> Seq(Nat)] /\ q \in Seq(Nat) /\ hd \in Nat
        /\ headers \in [Serials -> 0 .. HeaderPackets]
    <2>1. queue \in [Serials -> Seq(Nat)] /\ headers \in [Serials -> 0 .. HeaderPackets]
      BY DEF TypeOK
    <2>2. hd \in 0 .. HeaderPackets
      BY <1>1, <2>1
    <2>3. QED
      BY <1>1, <2>1, <2>2, SizesAssumption
  <1>3. \A r \in Serials : Counted(r)
    BY <1>1 DEF HeadersCounted
  <1>4. ASSUME NEW r \in Serials, r # s PROVE CountedFrom(r, queue'[r], headers'[r], expected'[r])
    <2>1. queue'[r] = queue[r] /\ headers'[r] = headers[r] /\ expected'[r] = expected[r]
      BY <1>1, <1>2, <1>4
    <2>2. QED
      BY <1>3, <2>1 DEF Counted, CountedFrom
  <1>5. CountedFrom(s, queue'[s], headers'[s], expected'[s])
    <2>1. queue'[s] = t /\ expected'[s] = expected[s] /\ headers'[s] \in {hd, hd + 1}
      BY <1>1, <1>2
    <2>2. /\ Len(q) \in Nat \ {0} /\ DOMAIN q = 1 .. Len(q) /\ \A i \in DOMAIN q : q[i] \in Nat
          /\ DOMAIN t = 1 .. Len(t) /\ Len(t) = Len(q) - 1 /\ Len(t) \in Nat
          /\ \A i \in DOMAIN t : t[i] = q[i + 1]
          /\ q[1] # Hole
      <3> HIDE DEF q
      <3>1. /\ t \in Seq(Nat) /\ Len(t) = Len(q) - 1 /\ \A i \in 1 .. Len(t) : t[i] = q[i + 1]
        BY <1>1, <1>2, HeadTailProperties
      <3>2. Head(q) = q[1] /\ Len(q) \in Nat \ {0}
        BY <1>1, <1>2, EmptySeq
      <3> HIDE DEF t
      <3>3. DOMAIN q = 1 .. Len(q) /\ (\A i \in DOMAIN q : q[i] \in Nat) /\ DOMAIN t = 1 .. Len(t)
            /\ Len(t) \in Nat
        BY <1>2, <3>1, LenProperties, ElementOfSeq
      <3>4. QED
        BY <1>1, <3>1, <3>2, <3>3
    <2>3. /\ \A i \in DOMAIN q : (\A j \in 1 .. i : q[j] # Hole) => q[i] = q[1] + i - 1 /\ q[i] >= hd + i
          /\ Holeless(q) => \A k \in 1 .. Num : Serial(k) = s /\ video.pages[k].no >= expected[s] =>
               \A i \in DOMAIN video.pages[k].ids : video.pages[k].ids[i] >= hd + Len(q) + i
      BY <1>1, <1>3 DEF Counted
    <2> DEFINE hn == headers'[s]
    <2> HIDE DEF q, t, hd, hn
    <2>4. ASSUME NEW i \in DOMAIN t, \A j \in 1 .. i : t[j] # Hole
          PROVE  t[i] = t[1] + i - 1 /\ t[i] >= hn + i
      <3>1. i \in 1 .. Len(t) /\ i + 1 \in DOMAIN q /\ 1 \in DOMAIN t /\ 1 + 1 \in DOMAIN q
            /\ 1 \in DOMAIN q
        BY <2>2
      <3>2. t[i] = q[i + 1] /\ t[1] = q[1 + 1]
        BY <2>2, <3>1
      <3>3. \A j \in 1 .. (i + 1) : q[j] # Hole
        <4>1. ASSUME NEW j \in 1 .. (i + 1), j # 1 PROVE q[j] # Hole
          <5>1. j - 1 \in 1 .. i /\ j - 1 \in DOMAIN t /\ j - 1 + 1 = j
            BY <2>2, <3>1, <4>1
          <5>2. t[j - 1] = q[j]
            BY <2>2, <5>1
          <5>3. QED
            BY <2>4, <5>1, <5>2
        <4>2. QED
          BY <2>2, <4>1
      <3>4. \A j \in 1 .. (1 + 1) : q[j] # Hole
        <4>1. \A j \in 1 .. (1 + 1) : j \in 1 .. (i + 1)
          BY <2>2, <3>1
        <4>2. QED
          BY <3>3, <4>1
      <3>5. /\ q[i + 1] = q[1] + (i + 1) - 1 /\ q[i + 1] >= hd + (i + 1)
            /\ q[1 + 1] = q[1] + (1 + 1) - 1
        BY <2>3, <3>1, <3>3, <3>4
      <3>6. q[1] \in Nat /\ q[i + 1] \in Nat /\ i \in Nat /\ hn \in {hd, hd + 1}
        BY <2>1, <2>2, <3>1 DEF hn
      <3>7. hd \in Nat /\ q[1 + 1] = q[1] + 1
        BY <1>2, <3>5, <3>6
      <3>8. t[i] = q[1] + i /\ t[1] = q[1] + 1
        BY <3>2, <3>5, <3>6, <3>7
      <3>9. t[i] = t[1] + i - 1
        BY <3>6, <3>8
      <3>10. t[i] >= hd + (i + 1)
        BY <3>2, <3>5
      <3>11. t[i] >= hn + i
        BY <3>6, <3>7, <3>8, <3>10
      <3>12. QED
        BY <3>9, <3>11
    <2>5. ASSUME Holeless(t), NEW k \in 1 .. Num, Serial(k) = s, video.pages[k].no >= expected[s],
                 NEW i \in DOMAIN video.pages[k].ids
          PROVE  video.pages[k].ids[i] >= hn + Len(t) + i
      <3>1. Holeless(q)
        <4>1. ASSUME NEW j \in DOMAIN q, j # 1 PROVE q[j] # Hole
          <5>1. j - 1 \in DOMAIN t /\ j - 1 + 1 = j
            BY <2>2, <4>1
          <5>2. t[j - 1] = q[j]
            BY <2>2, <5>1
          <5>3. QED
            BY <2>5, <5>1, <5>2 DEF Holeless
        <4>2. QED
          BY <2>2, <4>1 DEF Holeless
      <3>2. video.pages[k].ids[i] >= hd + Len(q) + i
        BY <2>3, <2>5, <3>1
      <3>3. video.pages[k].ids[i] \in Nat /\ i \in Nat
        BY <2>5, NumberingFacts DEF TypeOK
      <3>4. hn \in {hd, hd + 1}
        BY <2>1 DEF hn
      <3>5. QED
        BY <1>2, <2>2, <3>2, <3>3, <3>4
    <2>6. CountedFrom(s, t, hn, expected[s])
      BY <2>4, <2>5 DEF CountedFrom
    <2>7. QED
      BY <2>1, <2>6 DEF hn
  <1>6. Serials' = Serials
    BY <1>1, FileKept
  <1>7. QED
    BY <1>1, <1>4, <1>5, <1>6, CountedAfter DEF HeadersCounted

\* Every step.
LEMMA CountedStep ==
  ASSUME TypeOK, Control, HeadersCounted, Next
  PROVE  HeadersCounted'
  <1>1. CASE HeadersPage \/ ConsumeHeader
    BY <1>1, HeadersPageCounted, ConsumeHeaderCounted
  <1>2. CASE PacketOut \/ NoPacketOut \/ FeedPage
    <2>1. caller' = caller /\ caller # "read_headers"
      BY <1>2 DEF PacketOut, NoPacketOut, FeedPage, Control
    <2>2. QED
      BY <2>1 DEF HeadersCounted, InHeaders
  <1>3. CASE ReadPage \/ Turning
    <2>1. UNCHANGED <<file, streams, headers>>
      BY <1>3, TurningType DEF ReadPage, EnterReadPage, ReturnPage, NeedData, Read, ReturnNoPage
    <2>2. InHeaders' => InHeaders
      BY <1>3 DEF InHeaders, Control, ReadPage, EnterReadPage, ReturnPage, NeedData, Read, ReturnNoPage,
         Turning, UnknownStream, HoleAmidHeaders, NextHeaderPage, HeadersDone, CannotStart,
         Abort, NoPacket, FrameDue, NoFrameDue, NextPacket, Escape, StartPlay
    <2>3. SUFFICES ASSUME InHeaders' PROVE \A s \in Serials' : Counted(s)'
      BY DEF HeadersCounted
    <2>4. \A s \in Serials : Counted(s)
      BY <2>2, <2>3 DEF HeadersCounted
    <2>5. queue' = queue /\ headers' = headers /\ expected' = expected /\ Serials' = Serials
      BY <2>1, FileKept DEF streams
    <2>6. \A s \in Serials : CountedFrom(s, queue'[s], headers'[s], expected'[s])
      BY <2>4, <2>5 DEF Counted, CountedFrom
    <2>7. QED
      BY <2>1, <2>5, <2>6, CountedAfter
  <1>4. QED
    BY <1>1, <1>2, <1>3, NextCases
-----------------------------------------------------------------------------
(* The start *)

\* Nothing has been read.
LEMMA StartHolds ==
  ASSUME Init
  PROVE  TypeOK /\ Control /\ HeadersCounted /\ AllKept
  <1>1. video \in Videos /\ damaged \subseteq 1 .. Num /\ cut \in 0 .. Num * PageUnits
    BY DEF Init
  <1>2. Num \in Nat /\ PageUnits \in Nat /\ Num * PageUnits \in Nat /\ HeaderPackets \in Nat
        /\ << >> \in Seq(Nat) /\ << >> \in Seq(Nat \ {Hole}) /\ NoStream \notin Serials
    <2>1. Num \in Nat /\ PageUnits \in Nat /\ NoStream \notin Serials
      BY <1>1, FileFacts
    <2>2. Num * PageUnits \in Nat
      BY <2>1
    <2>3. << >> \in Seq(Nat) /\ << >> \in Seq(Nat \ {Hole})
      BY EmptySeq
    <2>4. QED
      BY <2>1, <2>2, <2>3, SizesAssumption
  <1>3. 0 \in 0 .. cut /\ 0 \in 0 .. Num /\ 0 \in 0 .. HeaderPackets
    BY <1>1, <1>2
  <1>4. TypeOK
    BY <1>1, <1>2, <1>3 DEF Init, TypeOK, NoStream
  <1>5. Control
    BY <1>2 DEF Init, Control, InHeaders, NoStream
  <1>6. HeadersCounted
    <2>1. ASSUME NEW s \in Serials PROVE Counted(s)
      <3>1. queue[s] = << >> /\ headers[s] = 0
        BY DEF Init
      <3>2. DOMAIN << >> = {} /\ Len(<< >>) = 0
        OBVIOUS
      <3>3. ASSUME NEW k \in 1 .. Num, NEW i \in DOMAIN video.pages[k].ids
            PROVE  video.pages[k].ids[i] >= 0 + 0 + i
        <4>1. /\ video.pages[k].ids[i] = video.pages[k].ids[1] + i - 1 /\ 1 \in DOMAIN video.pages[k].ids
              /\ i \in Nat
          BY <1>1, NumberingFacts
        <4>2. video.pages[k].ids[1] \in Nat \ {0}
          BY <1>1, <4>1, NumberingFacts
        <4>3. QED
          BY <4>1, <4>2
      <3>4. QED
        BY <3>1, <3>2, <3>3 DEF Counted
    <2>2. QED
      BY <2>1 DEF HeadersCounted
  <1>7. AllKept
    <2>1. Fed = 0 /\ 1 .. 0 = {}
      BY DEF Init, Fed
    <2>2. ASSUME NEW s \in Serials PROVE Kept(s, 0)
      <3>1. taken[s] \o Packets(queue[s]) = Fate(s, 0)
        <4>1. taken[s] = << >> /\ queue[s] = << >>
          BY DEF Init
        <4>2. << >> \o << >> = << >>
          BY EmptySeq, ConcatEmptySeq
        <4>3. QED
          BY <4>1, <4>2, PacketsEmpty, FateAtFirst
      <3>2. QED
        BY <2>1, <3>1 DEF Init, Kept
    <2>3. QED
      BY <2>1, <2>2 DEF AllKept
  <1>8. QED
    BY <1>4, <1>5, <1>6, <1>7
-----------------------------------------------------------------------------
(* As long as no page is hit or comes again *)

\* Whatever page of a stream has come, all before it in the stream are before it.
LEMMA EarlierPages ==
  ASSUME video \in Videos, NEW i \in 1 .. Num, NEW m \in 0 .. video.pages[i].no
  PROVE  \E l \in 1 .. i : Serial(l) = Serial(i) /\ video.pages[l].no = m
  <1> DEFINE n == video.pages[i].no
             T == {d \in Nat : d <= n => \E l \in 1 .. i : Serial(l) = Serial(i) /\ video.pages[l].no = n - d}
  <1>1. Num \in Nat /\ \A k \in 1 .. Num : video.pages[k].no \in Nat
    BY FileFacts
  <1>2. 0 \in T
    <2>1. i \in 1 .. i /\ n - 0 = n
      BY <1>1
    <2>2. QED
      BY <2>1
  <1>3. ASSUME NEW d \in T PROVE d + 1 \in T
    <2> SUFFICES ASSUME d + 1 <= n
                 PROVE  \E l \in 1 .. i : Serial(l) = Serial(i) /\ video.pages[l].no = n - (d + 1)
      OBVIOUS
    <2>1. d \in Nat /\ n \in Nat
      BY <1>1
    <2>2. d <= n /\ n - d > 0 /\ n - d - 1 = n - (d + 1)
      BY <2>1
    <2>3. PICK l \in 1 .. i : Serial(l) = Serial(i) /\ video.pages[l].no = n - d
      BY <2>2
    <2>4. l \in 1 .. Num
      BY <1>1
    <2>5. PICK j \in 1 .. (l - 1) : Serial(j) = Serial(l) /\ video.pages[l].no = video.pages[j].no + 1
      <3>1. video.pages[l].no > 0
        BY <2>2, <2>3
      <3>2. QED
        BY <2>4, <3>1, NumberingFacts
    <2>6. j \in 1 .. i /\ j \in 1 .. Num
      BY <1>1, <2>4
    <2>7. video.pages[j].no \in Nat
      BY <1>1, <2>6
    <2> HIDE DEF n
    <2>8. video.pages[j].no = n - (d + 1)
      BY <2>1, <2>3, <2>5, <2>7
    <2>9. QED
      BY <2>3, <2>5, <2>6, <2>8 DEF n
  <1>4. T = Nat
    <2>1. T \in SUBSET Nat
      OBVIOUS
    <2> HIDE DEF T
    <2>2. QED
      BY <1>2, <1>3, <2>1, Induction
  <1>5. n \in Nat /\ n - m \in Nat /\ n - m <= n /\ n - (n - m) = m
    BY <1>1
  <1>6. n - m \in T
    BY <1>4, <1>5
  <1>7. QED
    BY <1>5, <1>6

\* Where none has come again, the numbers of a stream's pages increase.
LEMMA Increasing ==
  ASSUME video \in Videos, NEW k \in 1 .. Num, NEW j \in 1 .. (k - 1), Serial(j) = Serial(k),
         ~ComesAgain(k)
  PROVE  video.pages[j].no < video.pages[k].no
  <1>1. j \in 1 .. Num /\ Num \in Nat /\ video.pages[j].no \in Nat /\ video.pages[k].no \in Nat
    <2>1. j \in 1 .. Num /\ Num \in Nat
      BY FileFacts
    <2>2. QED
      BY <2>1, FileFacts
  <1> SUFFICES ASSUME video.pages[k].no <= video.pages[j].no PROVE FALSE
    BY <1>1
  <1>2. PICK l \in 1 .. j : Serial(l) = Serial(j) /\ video.pages[l].no = video.pages[k].no
    <2>1. video.pages[k].no \in 0 .. video.pages[j].no
      BY <1>1
    <2>2. QED
      BY <1>1, <2>1, EarlierPages
  <1>3. l \in 1 .. (k - 1)
    BY <1>1
  <1>4. QED
    BY <1>2, <1>3 DEF ComesAgain

\* So it comes in step with its stream,
LEMMA CleanInStep ==
  ASSUME video \in Videos, NEW k \in 1 .. Num, \A i \in 1 .. k : ~ComesAgain(i)
  PROVE  /\ ~OutOfStep(k)
         /\ video.pages[k].bos => \A j \in 1 .. (k - 1) : Serial(j) # Serial(k)
  <1>1. Num \in Nat /\ (\A i \in 1 .. k : i \in 1 .. Num) /\ k \in 1 .. k
        /\ \A i \in 1 .. (k - 1) : i \in 1 .. Num /\ i \in 1 .. k
    <2>1. Num \in Nat
      BY FileFacts
    <2>2. QED
      BY <2>1
  <1>2. \A i \in 1 .. Num : video.pages[i].no \in Nat /\ (video.pages[i].bos <=> video.pages[i].no = 0)
    BY FileFacts
  <1>3. ASSUME ~video.pages[k].bos PROVE ~OutOfStep(k)
    <2>1. PICK j \in 1 .. (k - 1) : Serial(j) = Serial(k) /\ video.pages[k].no = video.pages[j].no + 1
      <3>1. video.pages[k].no > 0
        BY <1>2, <1>3
      <3>2. QED
        BY <3>1, NumberingFacts
    <2>2. ASSUME NEW i \in (j + 1) .. (k - 1), Serial(i) = Serial(k) PROVE FALSE
      <3>1. i \in 1 .. (k - 1) /\ j \in 1 .. (i - 1)
        BY <1>1
      <3>2. i \in 1 .. Num /\ i \in 1 .. k /\ j \in 1 .. Num
        BY <1>1, <3>1
      <3>3. video.pages[i].no < video.pages[k].no
        BY <1>1, <2>2, <3>1, Increasing
      <3>4. video.pages[j].no < video.pages[i].no
        BY <1>1, <2>1, <2>2, <3>1, <3>2, Increasing
      <3>5. QED
        BY <1>2, <2>1, <3>2, <3>3, <3>4
    <2>3. QED
      BY <2>1, <2>2 DEF OutOfStep
  <1>4. ASSUME video.pages[k].bos, NEW j \in 1 .. (k - 1), Serial(j) = Serial(k) PROVE FALSE
    <2>1. video.pages[j].no < video.pages[k].no
      BY <1>1, <1>4, Increasing
    <2>2. video.pages[k].no = 0 /\ video.pages[j].no \in Nat
      BY <1>1, <1>2, <1>4
    <2>3. QED
      BY <2>1, <2>2
  <1>5. QED
    BY <1>3, <1>4 DEF OutOfStep

\* and a page that is in step, after pages that all came, fits.
LEMMA Fits ==
  ASSUME TypeOK, NEW k, NEW x, NEW h, Feeding(k, x, h), Kept(Serial(k), k - 1),
         ~OutOfStep(k), video.pages[k].bos => x = 0 /\ h = FALSE,
         \A i \in 1 .. (k - 1) : i \notin damaged, Smooth(Serial(k), k - 1)
  PROVE  video.pages[k].no = x /\ ~LostOn(k, x, h) /\ EndsOn(k, x, h) = video.pages[k].ids
  <1> DEFINE s == Serial(k)
  <1>1. k \in 1 .. Num /\ Num \in Nat /\ s \in Serials /\ video \in Videos
        /\ \A j \in 1 .. Num : video.pages[j].no \in Nat
    <2>1. k \in 1 .. Num /\ video \in Videos
      BY DEF Feeding, TypeOK
    <2>2. QED
      BY <2>1, FileFacts
  <1>2. CASE ~video.pages[k].bos
    <2>1. s \in mStreams /\ x = expected[s] /\ h = partial[s]
      BY <1>2 DEF Feeding
    <2>2. PICK j \in 1 .. (k - 1) : Latest(j, s, k - 1) /\ x = video.pages[j].no + 1
      BY <2>1 DEF Kept
    <2>3. PICK i \in 1 .. (k - 1) : /\ Serial(i) = s /\ video.pages[k].no = video.pages[i].no + 1
                                    /\ \A l \in (i + 1) .. (k - 1) : Serial(l) # s
      BY <1>2 DEF OutOfStep
    <2>4. Latest(i, s, k - 1)
      BY <2>3 DEF Latest
    <2>5. i = j
      BY <1>1, <2>2, <2>4, LatestIsOne
    <2>6. PICK l \in 1 .. (k - 1) : /\ Serial(l) = s /\ video.pages[k].no = video.pages[l].no + 1
                                    /\ video.pages[k].cont => video.pages[l].open
      <3>1. video.pages[k].no > 0
        BY <1>1, <1>2, FileFacts
      <3>2. QED
        BY <1>1, <3>1, NumberingFacts
    <2>7. video.pages[l].open = video.pages[j].open
      <3>1. j \in 1 .. Num /\ l \in 1 .. Num
        BY <1>1
      <3>2. video.pages[l].no = video.pages[j].no
        BY <1>1, <2>3, <2>5, <2>6, <3>1
      <3>3. QED
        BY <1>1, <2>3, <2>5, <2>6, <3>1, <3>2, NumberingFacts
    <2>8. h = video.pages[j].open
      BY <2>1, <2>2 DEF Smooth
    <2>9. QED
      BY <2>2, <2>3, <2>5, <2>6, <2>7, <2>8 DEF LostOn, EndsOn
  <1>3. CASE video.pages[k].bos
    <2>1. video.pages[k].no = 0
      BY <1>1, <1>3, FileFacts
    <2>2. ~video.pages[k].cont
      BY <1>1, <2>1, NumberingFacts
    <2>3. QED
      BY <1>3, <2>1, <2>2 DEF LostOn, EndsOn
  <1>4. QED
    BY <1>2, <1>3

\* What is joined to a queue hides nothing of what was in it.
LEMMA BeforeHoleConcat ==
  ASSUME NEW q \in Seq(Nat), NEW r \in Seq(Nat)
  PROVE  /\ BeforeHole(q) \subseteq BeforeHole(q \o r)
         /\ Holeless(q) /\ Holeless(r) => Holeless(q \o r)
         /\ ToSet(q \o r) = ToSet(q) \cup ToSet(r)
  <1> DEFINE t == q \o r
  <1>1. /\ Len(q) \in Nat /\ Len(r) \in Nat /\ DOMAIN q = 1 .. Len(q) /\ DOMAIN r = 1 .. Len(r)
        /\ DOMAIN t = 1 .. Len(q) + Len(r)
        /\ \A i \in 1 .. Len(q) + Len(r) : t[i] = IF i <= Len(q) THEN q[i] ELSE r[i - Len(q)]
    BY ConcatProperties, LenProperties
  <1> HIDE DEF t
  <1>2. \A i \in DOMAIN q : i \in DOMAIN t /\ t[i] = q[i]
    BY <1>1
  <1>3. \A i \in DOMAIN r : Len(q) + i \in DOMAIN t /\ t[Len(q) + i] = r[i]
    <2>1. ASSUME NEW i \in DOMAIN r PROVE Len(q) + i \in DOMAIN t /\ t[Len(q) + i] = r[i]
      <3>1. i \in 1 .. Len(r) /\ Len(q) + i \in 1 .. Len(q) + Len(r) /\ ~(Len(q) + i <= Len(q))
            /\ Len(q) + i - Len(q) = i
        BY <1>1
      <3>2. QED
        BY <1>1, <3>1
    <2>2. QED
      BY <2>1
  <1>4. \A i \in DOMAIN t : i \in DOMAIN q \/ (i - Len(q) \in DOMAIN r /\ t[i] = r[i - Len(q)])
    BY <1>1
  <1>5. BeforeHole(q) \subseteq BeforeHole(t)
    <2>1. ASSUME NEW i \in DOMAIN q, \A h \in 1 .. i : q[h] # Hole
          PROVE  i \in DOMAIN t /\ \A h \in 1 .. i : t[h] # Hole
      <3>1. \A h \in 1 .. i : h \in DOMAIN q
        BY <1>1
      <3>2. QED
        BY <1>2, <2>1, <3>1
    <2>2. QED
      BY <1>2, <2>1 DEF BeforeHole
  <1>6. Holeless(q) /\ Holeless(r) => Holeless(t)
    BY <1>2, <1>4 DEF Holeless
  <1>7. ToSet(t) = ToSet(q) \cup ToSet(r)
    BY <1>2, <1>3, <1>4 DEF ToSet
  <1>8. QED
    BY <1>5, <1>6, <1>7 DEF t

\* In a queue without a hole nothing is hidden.
LEMMA BeforeHoleAll ==
  ASSUME NEW q \in Seq(Nat), Holeless(q)
  PROVE  BeforeHole(q) = ToSet(q)
  <1>1. \A i \in DOMAIN q : \A h \in 1 .. i : h \in DOMAIN q
    BY LenProperties
  <1>2. QED
    BY <1>1 DEF BeforeHole, Holeless, ToSet

\* The head of a queue and what comes then.
LEMMA BeforeHoleHead ==
  ASSUME NEW q \in Seq(Nat), q # << >>
  PROVE  /\ Head(q) = Hole => BeforeHole(q) = {}
         /\ BeforeHole(q) \subseteq {Head(q)} \cup BeforeHole(Tail(q))
         /\ Holeless(q) => Holeless(Tail(q)) /\ Head(q) # Hole
         /\ ToSet(q) = {Head(q)} \cup ToSet(Tail(q)) /\ Tail(q) \in Seq(Nat)
  <1> DEFINE t == Tail(q)
  <1>1. /\ t \in Seq(Nat) /\ Len(t) = Len(q) - 1 /\ (\A i \in 1 .. Len(t) : t[i] = q[i + 1])
        /\ Head(q) = q[1] /\ Len(q) \in Nat \ {0} /\ DOMAIN q = 1 .. Len(q) /\ DOMAIN t = 1 .. Len(t)
    <2>1. /\ t \in Seq(Nat) /\ Len(t) = Len(q) - 1 /\ (\A i \in 1 .. Len(t) : t[i] = q[i + 1])
          /\ Head(q) = q[1] /\ Len(q) \in Nat \ {0} /\ DOMAIN q = 1 .. Len(q)
      BY HeadTailProperties, EmptySeq, LenProperties
    <2> HIDE DEF t
    <2>2. DOMAIN t = 1 .. Len(t)
      BY <2>1, LenProperties
    <2>3. QED
      BY <2>1, <2>2
  <1> HIDE DEF t
  <1>2. 1 \in DOMAIN q /\ \A i \in DOMAIN q : 1 \in 1 .. i
    BY <1>1
  <1>3. \A i \in DOMAIN q : i = 1 \/ (i - 1 \in DOMAIN t /\ t[i - 1] = q[i])
    <2>1. ASSUME NEW i \in DOMAIN q, i # 1 PROVE i - 1 \in DOMAIN t /\ t[i - 1] = q[i]
      <3>1. i - 1 \in 1 .. Len(t) /\ i - 1 + 1 = i
        BY <1>1, <2>1
      <3>2. t[i - 1] = q[i - 1 + 1]
        BY <1>1, <3>1
      <3>3. QED
        BY <1>1, <3>1, <3>2
    <2>2. QED
      BY <2>1
  <1>4. \A i \in DOMAIN t : i + 1 \in DOMAIN q /\ t[i] = q[i + 1]
    BY <1>1
  <1>5. Head(q) = Hole => BeforeHole(q) = {}
    BY <1>1, <1>2 DEF BeforeHole
  <1>6. BeforeHole(q) \subseteq {Head(q)} \cup BeforeHole(t)
    <2>1. ASSUME NEW i \in DOMAIN q, \A h \in 1 .. i : q[h] # Hole, i # 1
          PROVE  q[i] \in BeforeHole(t)
      <3>1. i - 1 \in DOMAIN t /\ t[i - 1] = q[i]
        BY <1>3, <2>1
      <3>2. \A h \in 1 .. (i - 1) : h \in DOMAIN t /\ h + 1 \in 1 .. i
        BY <1>1, <3>1
      <3>3. \A h \in 1 .. (i - 1) : t[h] # Hole
        BY <1>4, <2>1, <3>2
      <3>4. QED
        BY <3>1, <3>3 DEF BeforeHole
    <2>2. QED
      BY <1>1, <2>1 DEF BeforeHole
  <1>7. Holeless(q) => Holeless(t) /\ Head(q) # Hole
    BY <1>1, <1>2, <1>4 DEF Holeless
  <1>8. ToSet(q) = {Head(q)} \cup ToSet(t)
    <2>1. ToSet(q) \subseteq {q[1]} \cup ToSet(t)
      BY <1>3 DEF ToSet
    <2>2. ToSet(t) \subseteq ToSet(q) /\ q[1] \in ToSet(q)
      BY <1>2, <1>4 DEF ToSet
    <2>3. QED
      BY <1>1, <2>1, <2>2
  <1>9. QED
    BY <1>1, <1>5, <1>6, <1>7, <1>8 DEF t

\* After a page that fits, everything goes on without a hole.
SmoothThen(s, n) ==
  /\ Holeless(queue'[s])
  /\ \A k \in 1 .. n : Latest(k, s, n) => partial'[s] = video.pages[k].open

LEMMA FedSmooth ==
  ASSUME TypeOK, NEW k, NEW x, NEW h, Feeding(k, x, h),
         video.pages[k].no = x, ~LostOn(k, x, h), EndsOn(k, x, h) = video.pages[k].ids,
         \A s \in Serials : Smooth(s, k - 1)
  PROVE  /\ \A s \in Serials : SmoothThen(s, k)
         /\ queue' = [queue EXCEPT ![Serial(k)] = queue[Serial(k)] \o video.pages[k].ids]
  <1> DEFINE s == Serial(k)
             ids == video.pages[k].ids
  <1>1. k \in 1 .. Num /\ Num \in Nat /\ s \in Serials /\ ids \in Seq(Nat) /\ k \notin damaged
        /\ Holeless(ids) /\ video.pages[k].open \in BOOLEAN
    <2>1. k \in 1 .. Num /\ video \in Videos /\ k \notin damaged
      BY DEF Feeding, TypeOK
    <2>2. Num \in Nat /\ s \in Serials /\ ids \in Seq(Nat) /\ video.pages[k].open \in BOOLEAN
      BY <2>1, FileFacts
    <2>3. Holeless(ids)
      BY <2>1, EndsOnType
    <2>4. QED
      BY <2>1, <2>2, <2>3
  <1>2. queue' = [queue EXCEPT ![s] = queue[s] \o ids]
        /\ partial' = [partial EXCEPT ![s] = video.pages[k].open]
    BY <1>1 DEF Feeding
  <1>3. queue \in [Serials -> Seq(Nat)] /\ partial \in [Serials -> BOOLEAN]
    BY DEF TypeOK
  <1>4. SmoothThen(s, k)
    <2>1. Holeless(queue[s] \o ids)
      BY <1>1, <1>3, BeforeHoleConcat DEF Smooth
    <2>2. \A j \in 1 .. k : Latest(j, s, k) => j = k
      <3>1. \A j \in 1 .. k : j = k \/ k \in (j + 1) .. k
        BY <1>1
      <3>2. QED
        BY <1>1, <3>1 DEF Latest
    <2>3. QED
      BY <1>1, <1>2, <1>3, <2>1, <2>2 DEF SmoothThen
  <1>5. ASSUME NEW t \in Serials, t # s PROVE SmoothThen(t, k)
    <2>1. queue'[t] = queue[t] /\ partial'[t] = partial[t]
      BY <1>2, <1>3, <1>5
    <2>2. \A j \in 1 .. k : Latest(j, t, k) => j \in 1 .. (k - 1) /\ Latest(j, t, k - 1)
      <3>1. \A j \in 1 .. k : j = k \/ j \in 1 .. (k - 1)
        BY <1>1
      <3>2. \A j : \A i \in (j + 1) .. (k - 1) : i \in (j + 1) .. k
        BY <1>1
      <3>3. QED
        BY <1>5, <3>1, <3>2 DEF Latest
    <2>3. QED
      BY <2>1, <2>2 DEF Smooth, SmoothThen
  <1>6. QED
    BY <1>2, <1>4, <1>5

\* What has been heard after a step, in terms of the file.
UnhurtThen(n) ==
  /\ pc' # "aborted" /\ Clean(n) => \A s \in Serials : SmoothThen(s, n)
  /\ pc' # "aborted" => \A e \in 1 .. n : Clean(e) =>
       ToSet(video.pages[e].ids) \subseteq ToSet(taken'[Serial(e)]) \cup BeforeHole(queue'[Serial(e)])
  /\ pc' \in Asking /\ caller' # "read_headers" =>
       \A e \in 1 .. n : Clean(e) /\ Serial(e) = (IF caller' = "audio" THEN audio' ELSE movie') =>
         ToSet(video.pages[e].ids) \subseteq ToSet(taken'[Serial(e)])
  /\ pc' = "ended" /\ ~escaped' => \A e \in 1 .. Num :
       Serial(e) = audio' /\ Clean(e) => ToSet(video.pages[e].ids) \subseteq ToSet(taken'[audio'])

LEMMA UnhurtAfter ==
  ASSUME UNCHANGED file, NEW n, Fed' = n, UnhurtThen(n)
  PROVE  Unhurt'
  <1>1. /\ video' = video /\ damaged' = damaged /\ Serials' = Serials /\ Num' = Num
        /\ \A k : Serial(k)' = Serial(k) /\ (Hit(k)' <=> Hit(k))
    BY FileKept
  <1>2. \A k : ComesAgain(k)' <=> ComesAgain(k)
    BY <1>1 DEF ComesAgain
  <1>3. Clean(Fed)' <=> Clean(n)
    BY <1>1, <1>2 DEF Clean
  <1>4. \A e : Clean(e)' <=> Clean(e)
    BY <1>1, <1>2 DEF Clean
  <1>5. ASSUME NEW s, NEW k PROVE Latest(k, s, Fed)' <=> Latest(k, s, n)
    BY <1>1 DEF Latest
  <1>6. pc' # "aborted" /\ Clean(Fed)' => \A s \in Serials' : Smooth(s, Fed)'
    <2>1. \A s : Holeless(queue[s])' <=> Holeless(queue'[s])
      BY DEF Holeless
    <2>2. QED
      BY <1>1, <1>3, <1>5, <2>1 DEF Smooth, SmoothThen, UnhurtThen
  <1>7. pc' # "aborted" => \A e \in 1 .. Fed' : Clean(e)' =>
          ToSet(video'.pages[e].ids) \subseteq
            ToSet(taken[Serial(e)])' \cup BeforeHole(queue[Serial(e)])'
    BY <1>1, <1>4 DEF UnhurtThen, ToSet, BeforeHole
  <1>8. pc' \in Asking /\ caller' # "read_headers" =>
          \A e \in 1 .. Fed' : Clean(e)' /\ Serial(e)' = Wanted' => Heard(e)'
    BY <1>1, <1>4 DEF UnhurtThen, ToSet, Heard, Wanted
  <1>9. SoundBeforeDamageIsPlayed'
    BY <1>1, <1>2 DEF UnhurtThen, ToSet, SoundBeforeDamageIsPlayed, Clean
  <1>10. Asking' = Asking
    BY DEF Asking
  <1>11. QED
    BY <1>6, <1>7, <1>8, <1>9, <1>10 DEF Unhurt

\* Reading a page.
LEMMA ReadPageUnhurt ==
  ASSUME TypeOK, Control, Unhurt, ReadPage
  PROVE  Unhurt'
  <1>1. /\ UNCHANGED <<file, streams, chosen, caller, taken>>
        /\ pc \in Asking /\ pc' \in {"pageout", "read", "last_pageout", "page_read", "no_page"}
    BY DEF ReadPage, EnterReadPage, ReturnPage, NeedData, Read, ReturnNoPage, Asking
  <1>2. Num \in Nat /\ returned \in 0 .. Num
    BY FileFacts DEF TypeOK
  <1>3. PICK n \in returned .. Num : Fed' = n /\ \A j \in (returned + 1) .. n : j \in damaged
    BY ReadPageFed
  <1>4. \A e \in 1 .. n : Clean(e) => e \in 1 .. returned
    <2>1. \A e \in 1 .. n : e \in 1 .. returned \/ (e \in (returned + 1) .. n /\ e \in 1 .. e)
      BY <1>2
    <2>2. QED
      BY <1>3, <2>1 DEF Clean, Hit
  <1>5. Clean(n) => n = returned
    <2>1. n = returned \/ n \in 1 .. n
      BY <1>2
    <2>2. ~(n \in 1 .. returned) \/ n = returned
      BY <1>2
    <2>3. QED
      BY <1>4, <2>1, <2>2
  <1>6. Fed = returned /\ pc # "aborted"
    BY <1>1 DEF Fed, Asking
  <1>7. UnhurtThen(n)
    <2>1. Clean(n) => \A s \in Serials : SmoothThen(s, n)
      BY <1>1, <1>5, <1>6 DEF Unhurt, Smooth, SmoothThen, streams
    <2>2. \A e \in 1 .. n : Clean(e) =>
            ToSet(video.pages[e].ids) \subseteq ToSet(taken'[Serial(e)]) \cup BeforeHole(queue'[Serial(e)])
      BY <1>1, <1>4, <1>6 DEF Unhurt, streams
    <2>3. caller' # "read_headers" =>
            \A e \in 1 .. n : Clean(e) /\ Serial(e) = (IF caller' = "audio" THEN audio' ELSE movie') =>
              ToSet(video.pages[e].ids) \subseteq ToSet(taken'[Serial(e)])
      BY <1>1, <1>4, <1>6 DEF Unhurt, chosen, Heard, Wanted
    <2>4. pc' # "ended"
      BY <1>1
    <2>5. QED
      BY <2>1, <2>2, <2>3, <2>4 DEF UnhurtThen
  <1>8. QED
    BY <1>1, <1>3, <1>7, UnhurtAfter

\* Feeding.
LEMMA FeedUnhurt ==
  ASSUME TypeOK, Control, AllKept, Unhurt, HeadersPage \/ FeedPage
  PROVE  Unhurt'
  <1> DEFINE k == page
             s == Serial(k)
  <1>1. PICK x, h : /\ Feeding(k, x, h)
                    /\ \/ video.pages[k].bos => x = 0 /\ h = FALSE
                       \/ s \in mStreams
    BY HeadersPageFeeds, FeedPageFeeds
  <1>2. pc' \in {"peek", "packetout"} /\ Fed = k - 1 /\ pc = "page_read" /\ Fed' = k
        /\ UNCHANGED <<file, taken>>
    <2>1. pc' \in {"peek", "packetout"}
      BY HeadersPageFeeds, FeedPageFeeds
    <2>2. QED
      BY <1>1, <2>1 DEF Feeding, Fed, sync
  <1>3. k \in 1 .. Num /\ Num \in Nat /\ s \in Serials /\ video \in Videos
    <2>1. k \in 1 .. Num /\ video \in Videos
      BY <1>1 DEF Feeding, TypeOK
    <2>2. QED
      BY <2>1, FileFacts
  <1>4. Kept(s, k - 1)
    BY <1>2, <1>3 DEF AllKept
  <1>5. ASSUME Clean(k)
        PROVE  /\ \A t \in Serials : SmoothThen(t, k)
               /\ queue' = [queue EXCEPT ![s] = queue[s] \o video.pages[k].ids]
    <2>1. \A i \in 1 .. (k - 1) : i \in 1 .. k
      BY <1>3
    <2>2. Clean(k - 1) /\ \A i \in 1 .. (k - 1) : i \notin damaged
      BY <1>5, <2>1 DEF Clean, Hit
    <2>3. \A t \in Serials : Smooth(t, k - 1)
      BY <1>2, <2>2 DEF Unhurt
    <2>4. ~OutOfStep(k) /\ (video.pages[k].bos => \A j \in 1 .. (k - 1) : Serial(j) # s)
      BY <1>3, <1>5, CleanInStep DEF Clean
    <2>5. s \in mStreams => \E j \in 1 .. (k - 1) : Serial(j) = s
      BY <1>4 DEF Kept, Latest
    <2>6. video.pages[k].bos => x = 0 /\ h = FALSE
      BY <1>1, <2>4, <2>5
    <2>7. video.pages[k].no = x /\ ~LostOn(k, x, h) /\ EndsOn(k, x, h) = video.pages[k].ids
      BY <1>1, <1>3, <1>4, <2>2, <2>3, <2>4, <2>6, Fits
    <2>8. QED
      BY <1>1, <2>3, <2>7, FedSmooth
  <1>6. queue \in [Serials -> Seq(Nat)]
    BY DEF TypeOK
  <1>7. ASSUME NEW e \in 1 .. k, Clean(e)
        PROVE  ToSet(video.pages[e].ids) \subseteq ToSet(taken'[Serial(e)]) \cup BeforeHole(queue'[Serial(e)])
    <2>1. CASE e = k
      <3>1. queue'[s] = queue[s] \o video.pages[k].ids /\ Holeless(queue'[s])
        BY <1>3, <1>5, <1>6, <1>7, <2>1 DEF SmoothThen
      <3>2. queue[s] \in Seq(Nat) /\ video.pages[k].ids \in Seq(Nat)
        BY <1>3, <1>6, FileFacts
      <3>3. ToSet(queue[s] \o video.pages[k].ids) = ToSet(queue[s]) \cup ToSet(video.pages[k].ids)
            /\ queue[s] \o video.pages[k].ids \in Seq(Nat)
        BY <3>2, BeforeHoleConcat, ConcatProperties
      <3>4. BeforeHole(queue'[s]) = ToSet(queue'[s])
        BY <3>1, <3>3, BeforeHoleAll
      <3>5. QED
        BY <2>1, <3>1, <3>3, <3>4
    <2>2. CASE e # k
      <3>1. e \in 1 .. (k - 1) /\ e \in 1 .. Num
        BY <1>3, <2>2
      <3>2. ToSet(video.pages[e].ids) \subseteq ToSet(taken[Serial(e)]) \cup BeforeHole(queue[Serial(e)])
        BY <1>2, <1>7, <3>1 DEF Unhurt
      <3>3. BeforeHole(queue[Serial(e)]) \subseteq BeforeHole(queue'[Serial(e)])
        <4>1. CASE Serial(e) = s
          <5>1. PICK r \in {queue[s], Append(queue[s], Hole)} : queue'[s] = r \o EndsOn(k, x, h)
            BY <1>1, <1>3, <1>6 DEF Feeding
          <5>2. queue[s] \in Seq(Nat) /\ <<0>> \in Seq(Nat) /\ EndsOn(k, x, h) \in Seq(Nat)
            BY <1>3, <1>6, EndsOnType
          <5>3. Append(queue[s], Hole) = queue[s] \o <<0>> /\ queue[s] \o <<0>> \in Seq(Nat)
            <6>1. \A u \in Seq(Nat) : Append(u, 0) = u \o <<0>>
              BY AppendIsConcat
            <6>2. QED
              BY <5>2, <6>1, ConcatProperties DEF Hole
          <5>4. BeforeHole(queue[s]) \subseteq BeforeHole(r) /\ r \in Seq(Nat)
            BY <5>1, <5>2, <5>3, BeforeHoleConcat
          <5>5. BeforeHole(r) \subseteq BeforeHole(r \o EndsOn(k, x, h))
            BY <5>2, <5>4, BeforeHoleConcat
          <5>6. QED
            BY <4>1, <5>1, <5>4, <5>5
        <4>2. CASE Serial(e) # s
          <5>1. queue'[Serial(e)] = queue[Serial(e)]
            BY <1>1, <1>3, <1>6, <3>1, <4>2, FileFacts DEF Feeding
          <5>2. QED
            BY <5>1
        <4>3. QED
          BY <4>1, <4>2
      <3>4. QED
        BY <1>2, <3>2, <3>3
    <2>3. QED
      BY <2>1, <2>2
  <1>8. pc' \notin Asking /\ pc' # "ended"
    BY <1>2 DEF Asking
  <1>9. UnhurtThen(k)
    BY <1>5, <1>7, <1>8 DEF UnhurtThen
  <1>10. QED
    BY <1>2, <1>9, UnhurtAfter

\* Taking a packet, or passing over a hole.
LEMMA TakeUnhurt ==
  ASSUME TypeOK, Control, Unhurt, ConsumeHeader \/ PacketOut \/ NoPacketOut
  PROVE  Unhurt'
  <1>1. /\ UNCHANGED <<file, sync, chosen, partial, caller>>
        /\ pc \in {"peek", "packetout"} /\ Fed' = Fed
        /\ pc' \notin Asking \cup {"ended"} \/ NoPacketOut
        /\ pc' # "ended"
    <2>1. /\ UNCHANGED <<file, sync, chosen, partial, caller>> /\ pc \in {"peek", "packetout"}
      BY DEF ConsumeHeader, PacketOut, NoPacketOut
    <2>2. pc' # "page_read" /\ (pc' \notin Asking \cup {"ended"} \/ NoPacketOut) /\ pc' # "ended"
      BY DEF ConsumeHeader, PacketOut, NoPacketOut, Decoded, Control, TypeOK, Asking
    <2>3. QED
      BY <2>1, <2>2 DEF Fed, sync
  <1>2. queue \in [Serials -> Seq(Nat)] /\ taken \in [Serials -> Seq(Nat \ {Hole})]
        /\ Num \in Nat /\ Fed \in 0 .. Num /\ \A e \in 1 .. Num : Serial(e) \in Serials
    <2>1. Fed = returned /\ video \in Videos
      BY <1>1 DEF Fed, TypeOK
    <2>2. QED
      BY <2>1, FileFacts DEF TypeOK
  <1>3. PICK w \in Serials :
          /\ NoPacketOut => w = Wanted
          /\ \/ queue[w] = << >> /\ queue' = [queue EXCEPT ![w] = << >>] /\ taken' = taken
             \/ /\ queue[w] # << >> /\ queue' = [queue EXCEPT ![w] = Tail(queue[w])]
                /\ taken' = IF Head(queue[w]) = Hole THEN taken
                            ELSE [taken EXCEPT ![w] = Append(taken[w], Head(queue[w]))]
          /\ NoPacketOut => queue[w] = << >> \/ Head(queue[w]) = Hole
    <2>1. CASE ConsumeHeader
      BY <2>1 DEF ConsumeHeader, NoPacketOut, Peeked, Control, TypeOK
    <2>2. CASE PacketOut \/ NoPacketOut
      <3>1. Wanted \in Serials
        BY <2>2 DEF PacketOut, NoPacketOut, Wanted, Control, TypeOK
      <3>2. QED
        BY <2>2, <3>1 DEF PacketOut, NoPacketOut
    <2>3. QED
      BY <2>1, <2>2
  <1>4. ASSUME NEW s \in Serials
        PROVE  /\ Holeless(queue[s]) => Holeless(queue'[s])
               /\ ToSet(taken[s]) \subseteq ToSet(taken'[s])
               /\ ToSet(taken[s]) \cup BeforeHole(queue[s])
                    \subseteq ToSet(taken'[s]) \cup BeforeHole(queue'[s])
    <2>1. CASE s = w /\ queue[w] # << >>
      <3> DEFINE q == queue[w]
                 r == taken[w]
      <3>1. q \in Seq(Nat) /\ q # << >> /\ r \in Seq(Nat \ {Hole}) /\ queue'[w] = Tail(q)
        BY <1>2, <1>3, <2>1
      <3>2. /\ Head(q) = Hole => BeforeHole(q) = {}
            /\ BeforeHole(q) \subseteq {Head(q)} \cup BeforeHole(Tail(q))
            /\ Holeless(q) => Holeless(Tail(q))
        BY <3>1, BeforeHoleHead
      <3>3. taken'[w] = IF Head(q) = Hole THEN r ELSE Append(r, Head(q))
        BY <1>2, <1>3, <2>1
      <3>4. ToSet(Append(r, Head(q))) = ToSet(r) \cup {Head(q)}
        <4> DEFINE c == Head(q)
                   t == Append(r, c)
        <4>1. /\ Len(r) \in Nat /\ DOMAIN r = 1 .. Len(r) /\ DOMAIN t = 1 .. Len(r) + 1
              /\ \A i \in 1 .. Len(r) : t[i] = r[i]
              /\ t[Len(r) + 1] = c
          BY <3>1, LenProperties
        <4> HIDE DEF t, c, r
        <4>2. \A i \in DOMAIN t : i \in DOMAIN r \/ i = Len(r) + 1
          BY <4>1
        <4>3. Len(r) + 1 \in DOMAIN t /\ \A i \in DOMAIN r : i \in DOMAIN t
          BY <4>1
        <4>4. ToSet(t) \subseteq ToSet(r) \cup {c}
          BY <4>1, <4>2 DEF ToSet
        <4>5. ToSet(r) \subseteq ToSet(t)
          BY <4>1, <4>3 DEF ToSet
        <4>6. c \in ToSet(t)
          BY <4>1, <4>3 DEF ToSet
        <4>7. QED
          BY <4>4, <4>5, <4>6 DEF t, c
      <3> HIDE DEF q, r
      <3>5. QED
        BY <2>1, <3>1, <3>2, <3>3, <3>4 DEF q, r
    <2>2. CASE s # w \/ queue[w] = << >>
      <3>1. queue'[s] = queue[s] /\ taken'[s] = taken[s]
        BY <1>2, <1>3, <2>2
      <3>2. QED
        BY <3>1
    <2>3. QED
      BY <2>1, <2>2
  <1>5. \A e \in 1 .. Fed : e \in 1 .. Num
    BY <1>2
  <1>6. Clean(Fed) => \A s \in Serials : SmoothThen(s, Fed)
    BY <1>1, <1>4 DEF Unhurt, Smooth, SmoothThen
  <1>7. \A e \in 1 .. Fed : Clean(e) =>
          ToSet(video.pages[e].ids) \subseteq ToSet(taken'[Serial(e)]) \cup BeforeHole(queue'[Serial(e)])
    <2>1. ASSUME NEW e \in 1 .. Fed, Clean(e)
          PROVE  ToSet(video.pages[e].ids) \subseteq ToSet(taken'[Serial(e)]) \cup BeforeHole(queue'[Serial(e)])
      <3>1. ToSet(video.pages[e].ids) \subseteq ToSet(taken[Serial(e)]) \cup BeforeHole(queue[Serial(e)])
        BY <1>1, <2>1 DEF Unhurt
      <3>2. Serial(e) \in Serials
        BY <1>2, <1>5
      <3>3. QED
        BY <1>4, <3>1, <3>2
    <2>2. QED
      BY <2>1
  <1>8. ASSUME pc' \in Asking, NEW e \in 1 .. Fed, Clean(e),
               Serial(e) = (IF caller' = "audio" THEN audio' ELSE movie')
        PROVE  ToSet(video.pages[e].ids) \subseteq ToSet(taken'[Serial(e)])
    <2>1. NoPacketOut
      BY <1>1, <1>8
    <2>2. Serial(e) = w /\ w = Wanted
      BY <1>1, <1>3, <1>8, <2>1 DEF Wanted, chosen
    <2>3. ToSet(video.pages[e].ids) \subseteq ToSet(taken[w]) \cup BeforeHole(queue[w])
      BY <1>1, <1>8, <2>2 DEF Unhurt
    <2>4. BeforeHole(queue[w]) = {}
      <3>1. CASE queue[w] = << >>
        <4>1. BeforeHole(<< >>) = {}
          BY DEF BeforeHole
        <4>2. QED
          BY <3>1, <4>1
      <3>2. CASE queue[w] # << >>
        BY <1>2, <1>3, <2>1, <3>2, BeforeHoleHead
      <3>3. QED
        BY <3>1, <3>2
    <2>5. QED
      BY <1>4, <2>2, <2>3, <2>4
  <1>9. UnhurtThen(Fed)
    BY <1>1, <1>6, <1>7, <1>8 DEF UnhurtThen
  <1>10. QED
    BY <1>1, <1>9, UnhurtAfter

\* The other steps: play() ends without a key only when no sound is left.
LEMMA TurningUnhurt ==
  ASSUME TypeOK, Control, Unhurt, Turning
  PROVE  Unhurt'
  <1>1. UNCHANGED <<file, sync, streams, headers, page, taken>>
    BY TurningType
  <1>2. PICK n : n = Fed'
    OBVIOUS
  <1>3. pc' \in Asking => caller' = "read_headers"
    BY DEF Turning, UnknownStream, HoleAmidHeaders, NextHeaderPage, HeadersDone, CannotStart,
       Abort, NoPacket, FrameDue, NoFrameDue, NextPacket, Escape, StartPlay, Asking, Control
  <1>4. ASSUME pc' # "aborted" PROVE n = Fed /\ Fed = returned /\ pc # "aborted"
    <2>1. pc # "page_read" /\ pc # "aborted" /\ pc' # "page_read"
      BY <1>4 DEF Turning, UnknownStream, HoleAmidHeaders, NextHeaderPage, HeadersDone, CannotStart,
         Abort, NoPacket, FrameDue, NoFrameDue, NextPacket, Escape, StartPlay
    <2>2. QED
      BY <1>1, <1>2, <2>1 DEF Fed, sync
  <1>5. ASSUME pc' = "ended", ~escaped', NEW e \in 1 .. Num, Serial(e) = audio', Clean(e)
        PROVE  ToSet(video.pages[e].ids) \subseteq ToSet(taken'[audio'])
    <2>1. NoPacket /\ caller = "audio"
      BY <1>5 DEF Turning, UnknownStream, HoleAmidHeaders, NextHeaderPage, HeadersDone, CannotStart,
         Abort, NoPacket, FrameDue, NoFrameDue, NextPacket, Escape, StartPlay
    <2>2. pc = "no_page" /\ audio' = audio /\ taken' = taken
      BY <1>1, <2>1 DEF NoPacket, chosen
    <2>3. returned \in 0 .. Num /\ Num \in Nat /\ Fed = returned
      BY <2>2, FileFacts DEF TypeOK, Fed
    <2>4. CASE e \in 1 .. returned
      BY <1>5, <2>1, <2>2, <2>3, <2>4 DEF Unhurt, Asking, Wanted, Heard
    <2>5. CASE ~(e \in 1 .. returned)
      <3>1. returned < Num /\ \A i \in 1 .. (returned + 1) : i \in 1 .. e
        BY <2>3, <2>5
      <3>2. PICK i \in 1 .. (returned + 1) : Hit(i)
        BY <2>2, <3>1 DEF Control
      <3>3. QED
        BY <1>5, <3>1, <3>2 DEF Clean
    <2>6. QED
      BY <2>4, <2>5
  <1>6. ASSUME pc' # "aborted"
        PROVE  /\ Clean(n) => \A s \in Serials : SmoothThen(s, n)
               /\ \A e \in 1 .. n : Clean(e) => ToSet(video.pages[e].ids)
                    \subseteq ToSet(taken'[Serial(e)]) \cup BeforeHole(queue'[Serial(e)])
    BY <1>1, <1>4, <1>6 DEF Unhurt, Smooth, SmoothThen, streams
  <1>7. UnhurtThen(n)
    BY <1>3, <1>5, <1>6 DEF UnhurtThen
  <1>8. QED
    BY <1>1, <1>2, <1>7, UnhurtAfter

\* Every step.
LEMMA UnhurtStep ==
  ASSUME TypeOK, Control, AllKept, Unhurt, Next
  PROVE  Unhurt'
  BY NextCases, ReadPageUnhurt, FeedUnhurt, TakeUnhurt, TurningUnhurt

\* At the start.
LEMMA UnhurtAtFirst ==
  ASSUME Init
  PROVE  Unhurt
  <1>1. pc = "read_page" /\ caller = "read_headers" /\ Fed = 0 /\ 1 .. 0 = {}
        /\ \A s \in Serials : queue[s] = << >>
    BY DEF Init, Fed
  <1>2. Holeless(<< >>)
    BY DEF Holeless
  <1>3. \A s \in Serials : Smooth(s, 0)
    BY <1>1, <1>2 DEF Smooth
  <1>4. QED
    BY <1>1, <1>3 DEF Unhurt, SoundBeforeDamageIsPlayed
-----------------------------------------------------------------------------
(* Up to the first packet of data *)

\* A cause lies in the file alone.
LEMMA CauseKept ==
  ASSUME UNCHANGED file
  PROVE  /\ Cause' <=> Cause
         /\ \A k : /\ EndsData(k)' <=> EndsData(k)
                   /\ BeforeData(k)' <=> BeforeData(k)
  <1>1. /\ video' = video /\ damaged' = damaged /\ Serials' = Serials /\ Num' = Num
        /\ \A k : Serial(k)' = Serial(k) /\ (Hit(k)' <=> Hit(k))
    BY FileKept
  <1>2. \A k : (Headed(k)' <=> Headed(k)) /\ (ComesAgain(k)' <=> ComesAgain(k))
               /\ (OutOfStep(k)' <=> OutOfStep(k))
    BY <1>1 DEF Headed, ComesAgain, OutOfStep
  <1>3. \A k : (CarriesHeader(k)' <=> CarriesHeader(k)) /\ (EndsData(k)' <=> EndsData(k))
    BY <1>1, <1>2 DEF CarriesHeader, EndsData
  <1>4. \A k : BeforeData(k)' <=> BeforeData(k)
    BY <1>3 DEF BeforeData
  <1>5. Cause' <=> Cause
    BY <1>1, <1>2, <1>3, <1>4 DEF Cause
  <1>6. QED
    BY <1>3, <1>4, <1>5

\* What holds after a step before the first data, in terms of the file.
CompleteThen(s) == \A k \in 1 .. Num :
  Serial(k) = s /\ video.pages[k].no < expected'[s] =>
    \A id \in ToSet(video.pages[k].ids) :
      id <= HeaderPackets => id <= headers'[s] \/ id \in ToSet(queue'[s])

BeginsThen(n) ==
  /\ BeforeData(n)
  /\ \A s \in Serials : SmoothThen(s, n) /\ (video.kind[s] # "other" => CompleteThen(s))
  /\ IF pc' = "peek"
       THEN /\ ToSet(queue'[peeked']) \subseteq ToSet(video.pages[returned'].ids)
            /\ EndsData(returned') => \E id \in ToSet(queue'[peeked']) : id > HeaderPackets
       ELSE n # 0 => ~EndsData(n)

LEMMA BeginsAfter ==
  ASSUME UNCHANGED file, NEW n, Fed' = n, InHeaders' /\ ~Cause => BeginsThen(n)
  PROVE  BeginsWell'
  <1> SUFFICES ASSUME InHeaders', ~Cause'
               PROVE  /\ BeforeData(Fed)'
                      /\ \A s \in Serials' : Smooth(s, Fed)' /\ (video'.kind[s] # "other" => Complete(s)')
                      /\ IF pc' = "peek"
                           THEN /\ ToSet(queue[peeked])' \subseteq ToSet(video.pages[returned].ids)'
                                /\ EndsData(returned)' =>
                                     \E id \in ToSet(queue[peeked])' : id > HeaderPackets
                           ELSE Fed' # 0 => ~EndsData(Fed)'
    BY DEF BeginsWell
  <1>1. BeginsThen(n)
    BY CauseKept
  <1>2. /\ video' = video /\ damaged' = damaged /\ Serials' = Serials /\ Num' = Num
        /\ \A k : Serial(k)' = Serial(k)
    BY FileKept
  <1>3. \A k : EndsData(k)' <=> EndsData(k)
    BY CauseKept
  <1>4. BeforeData(Fed)' <=> BeforeData(n)
    BY <1>3 DEF BeforeData
  <1>5. ASSUME NEW s \in Serials PROVE Smooth(s, Fed)' /\ (video'.kind[s] # "other" => Complete(s)')
    <2>1. \A k : Latest(k, s, Fed)' <=> Latest(k, s, n)
      BY <1>2 DEF Latest
    <2>2. Smooth(s, Fed)'
      BY <1>1, <1>2, <2>1 DEF BeginsThen, Smooth, SmoothThen, Holeless
    <2>3. video'.kind[s] # "other" => Complete(s)'
      BY <1>1, <1>2 DEF BeginsThen, Complete, CompleteThen, ToSet
    <2>4. QED
      BY <2>2, <2>3
  <1>6. (EndsData(Fed)' <=> EndsData(n)) /\ (EndsData(returned)' <=> EndsData(returned'))
    BY <1>2 DEF EndsData, Headed, Serial, ToSet
  <1>7. IF pc' = "peek"
          THEN /\ ToSet(queue[peeked])' \subseteq ToSet(video.pages[returned].ids)'
               /\ EndsData(returned)' => \E id \in ToSet(queue[peeked])' : id > HeaderPackets
          ELSE Fed' # 0 => ~EndsData(Fed)'
    BY <1>1, <1>2, <1>6 DEF BeginsThen, ToSet
  <1>8. QED
    BY <1>1, <1>2, <1>4, <1>5, <1>7 DEF BeginsThen

\* Without a cause, the page after those that have come whole is not hit and in step.
LEMMA NextIsFine ==
  ASSUME TypeOK, BeginsWell, InHeaders, ~Cause, pc # "peek", Fed \in Nat
  PROVE  /\ BeforeData(Fed + 1)
         /\ \A k \in 1 .. Num : k <= Fed + 1 => ~Hit(k) /\ ~OutOfStep(k)
  <1>1. BeforeData(Fed) /\ (Fed # 0 => ~EndsData(Fed))
    BY DEF BeginsWell
  <1>2. BeforeData(Fed + 1)
    <2> DEFINE n == Fed
    <2> HIDE DEF n
    <2>1. n \in Nat /\ BeforeData(n) /\ (n # 0 => ~EndsData(n))
      BY <1>1 DEF n
    <2>2. \A j \in 1 .. (n + 1 - 1) : j \in 1 .. (n - 1) \/ (j = n /\ n # 0)
      BY <2>1
    <2>3. BeforeData(n + 1)
      BY <2>1, <2>2 DEF BeforeData
    <2>4. QED
      BY <2>3 DEF n
  <1>3. ASSUME NEW k \in 1 .. Num, k <= Fed + 1 PROVE BeforeData(k)
    <2>1. Num \in Nat
      BY FileFacts DEF TypeOK
    <2>2. \A j \in 1 .. (k - 1) : j \in 1 .. (Fed + 1 - 1)
      BY <1>3, <2>1
    <2>3. QED
      BY <1>2, <2>2 DEF BeforeData
  <1>4. QED
    BY <1>2, <1>3 DEF Cause

\* Reading a page.
LEMMA ReadPageBegins ==
  ASSUME TypeOK, Control, BeginsWell, ReadPage
  PROVE  BeginsWell'
  <1>1. /\ UNCHANGED <<file, streams, headers, caller>>
        /\ pc \in Asking /\ pc' \in {"pageout", "read", "last_pageout", "page_read", "no_page"}
    BY DEF ReadPage, EnterReadPage, ReturnPage, NeedData, Read, ReturnNoPage, Asking
  <1>2. Num \in Nat /\ returned \in 0 .. Num
    BY FileFacts DEF TypeOK
  <1>3. PICK n \in returned .. Num : Fed' = n /\ \A j \in (returned + 1) .. n : j \in damaged
    BY ReadPageFed
  <1>4. ASSUME InHeaders', ~Cause PROVE BeginsThen(n)
    <2>1. InHeaders /\ Fed = returned /\ pc # "peek" /\ Fed \in Nat
      BY <1>1, <1>2, <1>4 DEF InHeaders, Asking, Fed
    <2>2. n = returned
      <3> SUFFICES ASSUME n # returned PROVE FALSE
        OBVIOUS
      <3>1. returned + 1 \in (returned + 1) .. n /\ returned + 1 \in 1 .. Num
        BY <1>2
      <3>2. ~Hit(returned + 1)
        BY <1>2, <1>4, <2>1, <3>1, NextIsFine
      <3>3. QED
        BY <1>3, <3>1, <3>2 DEF Hit
    <2>3. /\ BeforeData(returned) /\ (returned # 0 => ~EndsData(returned))
          /\ \A s \in Serials : Smooth(s, returned) /\ (video.kind[s] # "other" => Complete(s))
      BY <1>4, <2>1 DEF BeginsWell
    <2>4. queue' = queue /\ partial' = partial /\ expected' = expected /\ headers' = headers
      BY <1>1 DEF streams
    <2>5. \A s \in Serials : SmoothThen(s, returned) /\ (video.kind[s] # "other" => CompleteThen(s))
      BY <2>3, <2>4 DEF Smooth, SmoothThen, Complete, CompleteThen
    <2>6. pc' # "peek"
      BY <1>1
    <2>7. QED
      BY <2>2, <2>3, <2>5, <2>6 DEF BeginsThen
  <1>5. QED
    BY <1>1, <1>3, <1>4, BeginsAfter

\* Feeding: what ends on the page is in the queue, all of it.
LEMMA HeadersPageBegins ==
  ASSUME TypeOK, Control, AllKept, BeginsWell, HeadersPage
  PROVE  BeginsWell'
  <1> DEFINE k == page
             s == Serial(k)
             ids == video.pages[k].ids
  <1>1. PICK x, h : /\ Feeding(k, x, h)
                    /\ IF video.pages[k].bos THEN x = 0 /\ h = FALSE ELSE x = expected[s]
    BY HeadersPageFeeds
  <1>2. /\ queue[s] = << >> /\ caller = "read_headers" /\ pc = "page_read" /\ pc' = "peek"
        /\ headers' = (IF video.pages[k].bos THEN [headers EXCEPT ![s] = 0] ELSE headers)
        /\ peeked' = s /\ UNCHANGED <<file, caller>> /\ returned' = k /\ InHeaders
        /\ Fed = k - 1 /\ Fed' = k
    <2>1. /\ queue[s] = << >> /\ caller = "read_headers" /\ pc = "page_read" /\ pc' = "peek"
          /\ headers' = (IF video.pages[k].bos THEN [headers EXCEPT ![s] = 0] ELSE headers)
          /\ peeked' = s /\ UNCHANGED <<file, caller>> /\ returned' = k
      BY <1>1, HeadersPageFeeds DEF Feeding, sync
    <2>2. QED
      BY <2>1 DEF Fed, InHeaders
  <1>3. k \in 1 .. Num /\ Num \in Nat /\ s \in Serials /\ video \in Videos /\ ids \in Seq(Nat)
    <2>1. k \in 1 .. Num /\ video \in Videos
      BY <1>1 DEF Feeding, TypeOK
    <2>2. QED
      BY <2>1, FileFacts
  <1>4. ASSUME ~Cause PROVE BeginsThen(k)
    <2>1. BeforeData(k) /\ ~OutOfStep(k) /\ \A i \in 1 .. (k - 1) : i \notin damaged
      <3>1. Fed \in Nat /\ Fed + 1 = k /\ pc # "peek"
        BY <1>2, <1>3
      <3>2. BeforeData(Fed + 1) /\ \A i \in 1 .. Num : i <= Fed + 1 => ~Hit(i) /\ ~OutOfStep(i)
        BY <1>2, <1>4, <3>1, NextIsFine
      <3>3. \A i \in 1 .. (k - 1) : i \in 1 .. Num /\ i <= k
        BY <1>3
      <3>4. k <= k
        BY <1>3
      <3>5. QED
        BY <1>3, <3>1, <3>2, <3>3, <3>4 DEF Hit
    <2>2. \A t \in Serials : Smooth(t, k - 1) /\ (video.kind[t] # "other" => Complete(t))
      BY <1>2, <1>4 DEF BeginsWell
    <2>3. Kept(s, k - 1)
      BY <1>2, <1>3 DEF AllKept
    <2>4. video.pages[k].no = x /\ ~LostOn(k, x, h) /\ EndsOn(k, x, h) = ids
      BY <1>1, <1>3, <2>1, <2>2, <2>3, Fits
    <2>5. (\A t \in Serials : SmoothThen(t, k)) /\ queue' = [queue EXCEPT ![s] = queue[s] \o ids]
      BY <1>1, <2>2, <2>4, FedSmooth
    <2>6. queue'[s] = ids
      <3>1. queue'[s] = queue[s] \o ids
        BY <1>3, <2>5 DEF TypeOK
      <3>2. << >> \o ids = ids
        BY <1>3, ConcatEmptySeq
      <3>3. QED
        BY <1>2, <3>1, <3>2
    <2>7. ASSUME NEW t \in Serials, t # s, video.kind[t] # "other" PROVE CompleteThen(t)
      <3>1. queue'[t] = queue[t] /\ headers'[t] = headers[t] /\ expected'[t] = expected[t]
        BY <1>1, <1>2, <2>7 DEF Feeding, TypeOK
      <3>2. QED
        BY <2>2, <2>7, <3>1 DEF Complete, CompleteThen
    <2>8. ASSUME video.kind[s] # "other" PROVE CompleteThen(s)
      <3> SUFFICES ASSUME NEW j \in 1 .. Num, Serial(j) = s, video.pages[j].no < expected'[s],
                          NEW id \in ToSet(video.pages[j].ids), id <= HeaderPackets
                   PROVE  id <= headers'[s] \/ id \in ToSet(queue'[s])
        BY DEF CompleteThen
      <3>1. expected'[s] = video.pages[k].no + 1
        BY <1>1, <1>3 DEF Feeding, TypeOK
      <3>2. video.pages[j].no \in Nat /\ video.pages[k].no \in Nat
        BY <1>3, FileFacts
      <3>3. CASE video.pages[j].no = video.pages[k].no
        <4>1. video.pages[j] = video.pages[k]
          BY <1>3, <3>3, NumberingFacts
        <4>2. QED
          BY <2>6, <4>1
      <3>4. CASE video.pages[j].no # video.pages[k].no
        <4>1. video.pages[j].no < video.pages[k].no /\ video.pages[k].no # 0
          BY <3>1, <3>2, <3>4
        <4>2. ~video.pages[k].bos
          BY <1>3, <4>1, FileFacts
        <4>3. expected[s] = video.pages[k].no /\ headers'[s] = headers[s]
          BY <1>1, <1>2, <2>4, <4>2
        <4>4. id <= headers[s] \/ id \in ToSet(queue[s])
          BY <1>3, <2>2, <2>8, <4>1, <4>3 DEF Complete
        <4>5. ToSet(<< >>) = {}
          BY DEF ToSet
        <4>6. QED
          BY <1>2, <4>3, <4>4, <4>5
      <3>5. QED
        BY <3>3, <3>4
    <2>9. EndsData(k) => \E id \in ToSet(ids) : id > HeaderPackets
      BY DEF EndsData
    <2>10. QED
      BY <1>2, <2>1, <2>5, <2>6, <2>7, <2>8, <2>9 DEF BeginsThen
  <1>5. QED
    BY <1>2, <1>4, BeginsAfter

\* When data come, and at the end of the file, all headers have come.
LEMMA HeadersOf ==
  ASSUME NEW v \in Videos, NEW s \in DOMAIN v.kind, NEW e \in 1 .. Len(v.pages) + 1,
         \/ e = Len(v.pages) + 1
         \/ /\ v.kind[v.pages[e].serial] # "other"
            /\ \E i \in DOMAIN v.pages[e].ids : v.pages[e].ids[i] > HeaderPackets
  PROVE  \E l \in DOMAIN v.pages :
           /\ v.pages[l].serial = s /\ l <= e
           /\ \A j \in DOMAIN v.pages : v.pages[j].serial = s => j <= l \/ j > e
           /\ v.kind[s] # "other" => \A h \in 1 .. HeaderPackets : \E j \in DOMAIN v.pages :
                v.pages[j].serial = s /\ v.pages[j].no <= v.pages[l].no
                  /\ h \in ToSet(v.pages[j].ids)
  BY HeadersAssumption

\* The same of the file that is played.
LEMMA HeadersFacts ==
  ASSUME video \in Videos, NEW s \in Serials, NEW e \in 1 .. Num + 1, e = Num + 1 \/ EndsData(e)
  PROVE  \E l \in 1 .. Num :
           /\ Serial(l) = s /\ l <= e /\ \A j \in 1 .. Num : Serial(j) = s => j <= l \/ j > e
           /\ video.kind[s] # "other" => \A h \in 1 .. HeaderPackets : \E j \in 1 .. Num :
                Serial(j) = s /\ video.pages[j].no <= video.pages[l].no
                  /\ h \in ToSet(video.pages[j].ids)
  <1>1. DOMAIN video.pages = 1 .. Num
    BY FileFacts
  <1>2. s \in DOMAIN video.kind /\ e \in 1 .. Len(video.pages) + 1
    BY DEF Serials, Num
  <1>3. \/ e = Len(video.pages) + 1
        \/ /\ video.kind[video.pages[e].serial] # "other"
           /\ \E i \in DOMAIN video.pages[e].ids : video.pages[e].ids[i] > HeaderPackets
    BY DEF EndsData, Headed, Serial, ToSet, Num
  <1>4. \E l \in DOMAIN video.pages :
           /\ video.pages[l].serial = s /\ l <= e
           /\ \A j \in DOMAIN video.pages : video.pages[j].serial = s => j <= l \/ j > e
           /\ video.kind[s] # "other" => \A h \in 1 .. HeaderPackets : \E j \in DOMAIN video.pages :
                video.pages[j].serial = s /\ video.pages[j].no <= video.pages[l].no
                  /\ h \in ToSet(video.pages[j].ids)
    BY <1>2, <1>3, HeadersOf
  <1>5. QED
    BY <1>1, <1>4 DEF Serial

\* And nothing of it was missed.
LEMMA HeadersIn ==
  ASSUME TypeOK, AllKept, BeginsWell, InHeaders, ~Cause,
         NEW e \in 1 .. Num + 1, e = Num + 1 \/ EndsData(e),
         Fed = (IF e = Num + 1 THEN Num ELSE e), NEW s \in Serials
  PROVE  /\ s \in mStreams
         /\ video.kind[s] # "other" =>
              \A h \in 1 .. HeaderPackets : h <= headers[s] \/ h \in ToSet(queue[s])
  <1> DEFINE n == Fed
  <1>1. Num \in Nat /\ video \in Videos /\ n \in 0 .. Num /\ n <= e
    <2>1. Num \in Nat /\ video \in Videos
      BY FileFacts DEF TypeOK
    <2>2. n = (IF e = Num + 1 THEN Num ELSE e)
      OBVIOUS
    <2> HIDE DEF n
    <2>3. QED
      BY <2>1, <2>2
  <1>2. PICK l \in 1 .. Num :
           /\ Serial(l) = s /\ l <= e /\ \A j \in 1 .. Num : Serial(j) = s => j <= l \/ j > e
           /\ video.kind[s] # "other" => \A h \in 1 .. HeaderPackets : \E j \in 1 .. Num :
                Serial(j) = s /\ video.pages[j].no <= video.pages[l].no
                  /\ h \in ToSet(video.pages[j].ids)
    BY <1>1, HeadersFacts
  <1>3. l \in 1 .. n
    BY <1>1, <1>2
  <1>4. l \notin damaged
    <2>1. \A j \in 1 .. (l - 1) : j \in 1 .. (n - 1)
      BY <1>1, <1>3
    <2>2. BeforeData(l)
      BY <2>1 DEF BeginsWell, BeforeData
    <2>3. QED
      BY <2>2 DEF Cause, Hit
  <1>5. Kept(s, n)
    BY DEF AllKept, InHeaders
  <1>6. s \in mStreams
    BY <1>2, <1>3, <1>4, <1>5 DEF Kept
  <1>7. PICK k \in 1 .. n : Latest(k, s, n) /\ expected[s] = video.pages[k].no + 1
    BY <1>5, <1>6 DEF Kept
  <1>8. k = l
    <2>1. Serial(k) = s /\ k \in 1 .. Num /\ ~(l \in (k + 1) .. n)
      BY <1>1, <1>2, <1>4, <1>7 DEF Latest
    <2>2. k <= l \/ k > e
      BY <1>2, <2>1
    <2>3. l <= k /\ k <= n
      BY <1>1, <1>3, <2>1
    <2> HIDE DEF n
    <2>4. QED
      BY <1>1, <2>2, <2>3
  <1>9. ASSUME video.kind[s] # "other", NEW h \in 1 .. HeaderPackets
        PROVE  h <= headers[s] \/ h \in ToSet(queue[s])
    <2>1. PICK j \in 1 .. Num : Serial(j) = s /\ video.pages[j].no <= video.pages[l].no
                  /\ h \in ToSet(video.pages[j].ids)
      BY <1>2, <1>9
    <2>2. video.pages[j].no \in Nat /\ video.pages[l].no \in Nat
      BY <1>1, FileFacts
    <2>3. video.pages[j].no < expected[s]
      BY <1>7, <1>8, <2>1, <2>2
    <2>4. h <= HeaderPackets
      BY SizesAssumption
    <2>5. Complete(s)
      BY <1>9 DEF BeginsWell
    <2>6. QED
      BY <2>1, <2>3, <2>4, <2>5 DEF Complete
  <1>10. QED
    BY <1>6, <1>9

\* What is peeked at: it comes next, and whatever follows it is greater.
LEMMA PeekedNext ==
  ASSUME TypeOK, Control, HeadersCounted, BeginsWell, InHeaders, ~Cause, pc = "peek",
         queue[peeked] # << >>
  PROVE  /\ peeked \in Serials /\ peeked = Serial(returned) /\ queue[peeked] \in Seq(Nat)
         /\ Peeked \in Nat \ {Hole} /\ Peeked > headers[peeked] /\ headers[peeked] \in 0 .. HeaderPackets
         /\ Peeked \in ToSet(queue[peeked]) /\ \A id \in ToSet(queue[peeked]) : id >= Peeked
         /\ \A j \in 1 .. Num : Serial(j) = peeked /\ video.pages[j].no >= expected[peeked] =>
              \A id \in ToSet(video.pages[j].ids) : id > headers[peeked] + 1
         /\ video.kind[peeked] # "other" /\ Peeked <= HeaderPackets => Peeked = headers[peeked] + 1
  <1> DEFINE s == peeked
             q == queue[s]
             hd == headers[s]
  <1>1. s \in Serials /\ s = Serial(returned) /\ Holeless(q) /\ Counted(s) /\ q \in Seq(Nat)
        /\ hd \in 0 .. HeaderPackets /\ q # << >> /\ Peeked = Head(q) /\ HeaderPackets \in Nat
        /\ Serials \subseteq Nat /\ video \in Videos
    <2>1. s \in Serials /\ s = Serial(returned) /\ video \in Videos
      BY DEF Control, TypeOK
    <2>2. q \in Seq(Nat) /\ hd \in 0 .. HeaderPackets
      BY <2>1 DEF TypeOK
    <2>3. Holeless(q) /\ Counted(s)
      BY <2>1 DEF BeginsWell, Smooth, HeadersCounted
    <2>4. QED
      BY <2>1, <2>2, <2>3, SizesAssumption, FileFacts DEF Peeked
  <1>2. /\ Len(q) \in Nat \ {0} /\ DOMAIN q = 1 .. Len(q) /\ Head(q) = q[1]
        /\ \A i \in DOMAIN q : q[i] \in Nat
    <2> HIDE DEF q
    <2>1. QED
      BY <1>1, EmptySeq, LenProperties, ElementOfSeq, HeadTailProperties
  <1>3. \A i \in DOMAIN q : q[i] = q[1] + i - 1 /\ q[i] >= hd + i
    <2>1. \A i \in DOMAIN q : \A j \in 1 .. i : q[j] # Hole
      BY <1>1, <1>2 DEF Holeless
    <2>2. QED
      BY <1>1, <2>1 DEF Counted
  <1>4. \A j \in 1 .. Num : Serial(j) = s /\ video.pages[j].no >= expected[s] =>
          \A i \in DOMAIN video.pages[j].ids : video.pages[j].ids[i] >= hd + Len(q) + i
    BY <1>1 DEF Counted
  <1>5. \A j \in 1 .. Num : \A i \in DOMAIN video.pages[j].ids :
          i \in Nat \ {0} /\ video.pages[j].ids[i] \in Nat
    BY <1>1, NumberingFacts
  <1> HIDE DEF q, hd
  <1>6. 1 \in DOMAIN q /\ q[1] \in Nat /\ q[1] > hd
    <2>1. 1 \in DOMAIN q
      BY <1>2
    <2>2. q[1] \in Nat /\ q[1] >= hd + 1
      BY <1>2, <1>3, <2>1
    <2>3. QED
      BY <1>1, <2>1, <2>2
  <1>7. \A i \in DOMAIN q : q[i] >= q[1]
    BY <1>2, <1>3
  <1>8. ASSUME NEW j \in 1 .. Num, Serial(j) = s, video.pages[j].no >= expected[s],
               NEW id \in ToSet(video.pages[j].ids)
        PROVE  id > hd + 1
    <2>1. PICK i \in DOMAIN video.pages[j].ids : id = video.pages[j].ids[i]
      BY <1>8 DEF ToSet
    <2>2. id >= hd + Len(q) + i /\ i \in Nat \ {0} /\ id \in Nat
      BY <1>4, <1>5, <1>8, <2>1
    <2>3. QED
      BY <1>1, <1>2, <2>2
  <1>9. ASSUME video.kind[s] # "other", q[1] <= HeaderPackets PROVE q[1] = hd + 1
    <2> SUFFICES ASSUME q[1] > hd + 1 PROVE FALSE
      BY <1>1, <1>6
    <2>1. hd + 1 \in 1 .. HeaderPackets
      BY <1>1, <1>6, <1>9
    <2>2. PICK l \in 1 .. Num : \A h \in 1 .. HeaderPackets : \E j \in 1 .. Num :
                Serial(j) = s /\ video.pages[j].no <= video.pages[l].no
                  /\ h \in ToSet(video.pages[j].ids)
      <3>1. Num + 1 \in 1 .. Num + 1
        BY <1>1, FileFacts
      <3>2. QED
        BY <1>1, <1>9, <3>1, HeadersFacts
    <2>3. PICK j \in 1 .. Num : Serial(j) = s /\ hd + 1 \in ToSet(video.pages[j].ids)
      BY <2>1, <2>2
    <2>4. CASE video.pages[j].no >= expected[s]
      <3>1. hd + 1 > hd + 1
        BY <1>8, <2>3, <2>4
      <3>2. QED
        BY <1>1, <3>1
    <2>5. CASE ~(video.pages[j].no >= expected[s])
      <3>1. video.pages[j].no < expected[s]
        <4>1. video.pages[j].no \in Nat /\ expected[s] \in Nat
          BY <1>1, FileFacts DEF TypeOK
        <4>2. QED
          BY <2>5, <4>1
      <3>2. Complete(s)
        BY <1>1, <1>9 DEF BeginsWell
      <3>3. hd + 1 <= HeaderPackets
        BY <1>1, <2>1
      <3>4. hd + 1 <= hd \/ hd + 1 \in ToSet(q)
        BY <2>3, <3>1, <3>2, <3>3 DEF Complete, hd, q
      <3>5. PICK i \in DOMAIN q : q[i] = hd + 1
        BY <1>1, <3>4 DEF ToSet
      <3>6. QED
        BY <1>1, <1>2, <1>6, <1>7, <3>5
    <2>6. QED
      BY <2>4, <2>5
  <1>10. QED
    BY <1>1, <1>2, <1>6, <1>7, <1>8, <1>9 DEF ToSet, Hole, q, hd

\* When a packet of data is peeked at, all headers of the stream have been taken.
LEMMA DataPeeked ==
  ASSUME TypeOK, Control, AllKept, HeadersCounted, BeginsWell, InHeaders, ~Cause, pc = "peek",
         queue[peeked] # << >>, EndsData(returned), Peeked > HeaderPackets
  PROVE  headers[peeked] = HeaderPackets /\ FirstData(peeked, Peeked)
  <1> DEFINE s == peeked
  <1>1. /\ s \in Serials /\ s = Serial(returned) /\ Peeked \in Nat /\ headers[s] \in 0 .. HeaderPackets
        /\ \A id \in ToSet(queue[s]) : id >= Peeked
    BY PeekedNext
  <1>2. returned \in 1 .. Num /\ Num \in Nat /\ Fed = returned
        /\ HeaderPackets \in Nat \ {0} /\ video \in Videos
    <2>1. returned \in 0 .. Num /\ returned # 0 /\ video \in Videos /\ Fed = returned
      BY DEF TypeOK, Control, Fed
    <2>2. QED
      BY <2>1, FileFacts, SizesAssumption
  <1>3. video.kind[s] # "other"
    BY <1>1 DEF EndsData, Headed
  <1>4. \A h \in 1 .. HeaderPackets : h <= headers[s] \/ h \in ToSet(queue[s])
    <2>1. returned \in 1 .. Num + 1 /\ returned # Num + 1
      BY <1>2
    <2>2. QED
      BY <1>1, <1>2, <1>3, <2>1, HeadersIn
  <1>5. HeaderPackets \in 1 .. HeaderPackets
    BY <1>2
  <1>6. headers[s] = HeaderPackets
    <2>1. HeaderPackets \notin ToSet(queue[s])
      BY <1>1, <1>2
    <2>2. QED
      BY <1>1, <1>2, <1>4, <1>5, <2>1
  <1>7. video.kind[s] \in {"theora", "vorbis"}
    BY <1>1, <1>2, <1>3, VideosAssumption DEF Serials
  <1>8. ~(Peeked <= HeaderPackets) /\ headers[s] > 0
    BY <1>1, <1>2, <1>6
  <1>9. QED
    BY <1>6, <1>7, <1>8 DEF FirstData, IsHeader

\* Taking a header.
LEMMA ConsumeHeaderBegins ==
  ASSUME TypeOK, Control, AllKept, HeadersCounted, BeginsWell, ConsumeHeader
  PROVE  BeginsWell'
  <1> DEFINE s == peeked
             q == queue[s]
             hd == headers[s]
  <1>1. /\ pc = "peek" /\ pc' = "peek" /\ InHeaders /\ q # << >> /\ ~FirstData(s, Peeked)
        /\ UNCHANGED <<file, expected, partial, peeked>> /\ returned' = returned
        /\ Fed = returned /\ Fed' = returned /\ peeked' = peeked
        /\ queue' = [queue EXCEPT ![s] = Tail(q)]
        /\ headers' = [headers EXCEPT ![s] = IF IsHeader(s, Peeked) THEN hd + 1 ELSE hd]
    BY DEF ConsumeHeader, Control, InHeaders, Fed, sync
  <1>2. s \in Serials /\ queue \in [Serials -> Seq(Nat)]
        /\ headers \in [Serials -> 0 .. HeaderPackets] /\ HeaderPackets \in Nat
        /\ returned \in 0 .. Num /\ returned # 0
    BY <1>1, SizesAssumption DEF Control, TypeOK
  <1>3. /\ queue'[s] = Tail(q)
        /\ headers'[s] = IF IsHeader(s, Peeked) THEN hd + 1 ELSE hd
        /\ \A t \in Serials : t # s => queue'[t] = queue[t] /\ headers'[t] = headers[t]
        /\ q \in Seq(Nat) /\ hd \in Nat
    <2>1. hd \in 0 .. HeaderPackets
      BY <1>2
    <2>2. hd \in Nat
      BY <1>2, <2>1
    <2>3. QED
      BY <1>1, <1>2, <2>2
  <1>4. /\ Holeless(q) => Holeless(Tail(q))
        /\ ToSet(q) = {Head(q)} \cup ToSet(Tail(q))
    BY <1>1, <1>3, BeforeHoleHead
  <1>5. Peeked = Head(q)
    BY DEF Peeked
  <1>6. ASSUME ~Cause PROVE BeginsThen(returned)
    <2>1. /\ Peeked \in Nat /\ Peeked > hd
          /\ \A id \in ToSet(q) : id >= Peeked
          /\ video.kind[s] # "other" /\ Peeked <= HeaderPackets => Peeked = hd + 1
      BY <1>1, <1>6, PeekedNext
    <2>2. /\ BeforeData(returned)
          /\ \A t \in Serials : Smooth(t, returned) /\ (video.kind[t] # "other" => Complete(t))
          /\ ToSet(q) \subseteq ToSet(video.pages[returned].ids)
          /\ EndsData(returned) => \E id \in ToSet(q) : id > HeaderPackets
      BY <1>1, <1>6 DEF BeginsWell
    <2>3. \A t \in Serials : SmoothThen(t, returned)
      BY <1>1, <1>2, <1>3, <1>4, <2>2 DEF Smooth, SmoothThen
    <2>4. ASSUME NEW t \in Serials, video.kind[t] # "other", t # s PROVE CompleteThen(t)
      BY <1>1, <1>3, <2>2, <2>4 DEF Complete, CompleteThen
    <2>5. ASSUME video.kind[s] # "other" PROVE CompleteThen(s)
      <3> SUFFICES ASSUME NEW j \in 1 .. Num, Serial(j) = s, video.pages[j].no < expected[s],
                          NEW id \in ToSet(video.pages[j].ids), id <= HeaderPackets
                   PROVE  id <= headers'[s] \/ id \in ToSet(queue'[s])
        BY <1>1 DEF CompleteThen
      <3>0. id \in Nat
        <4>1. PICK i \in DOMAIN video.pages[j].ids : id = video.pages[j].ids[i]
          BY DEF ToSet
        <4>2. QED
          BY <4>1, NumberingFacts DEF TypeOK
      <3>1. id <= hd \/ id \in ToSet(q)
        BY <1>2, <2>2, <2>5 DEF Complete
      <3>2. CASE Peeked <= HeaderPackets
        <4>1. headers'[s] = hd + 1 /\ Peeked = hd + 1
          BY <1>3, <2>1, <2>5, <3>2 DEF IsHeader
        <4>2. id = Peeked \/ id \in ToSet(Tail(q)) \/ id <= hd
          BY <1>4, <1>5, <3>1
        <4> HIDE DEF hd, q
        <4>3. QED
          BY <1>3, <3>0, <4>1, <4>2
      <3>3. CASE ~(Peeked <= HeaderPackets)
        <4>1. id \notin ToSet(q) /\ headers'[s] = hd
          BY <1>2, <1>3, <2>1, <3>0, <3>3 DEF IsHeader
        <4>2. QED
          BY <3>1, <4>1
      <3>4. QED
        BY <3>2, <3>3
    <2>6. ASSUME EndsData(returned) PROVE \E id \in ToSet(Tail(q)) : id > HeaderPackets
      <3>1. PICK id \in ToSet(q) : id > HeaderPackets
        BY <2>2, <2>6
      <3>2. ~(Peeked > HeaderPackets)
        BY <1>1, <1>6, <2>6, DataPeeked
      <3>3. id # Head(q)
        BY <1>5, <3>1, <3>2
      <3>4. QED
        BY <1>4, <3>1, <3>3
    <2>7. QED
      BY <1>1, <1>3, <1>4, <2>2, <2>3, <2>4, <2>5, <2>6 DEF BeginsThen
  <1>7. QED
    BY <1>1, <1>6, BeginsAfter

\* Every step.
LEMMA BeginsStep ==
  ASSUME TypeOK, Control, AllKept, HeadersCounted, BeginsWell, Next
  PROVE  BeginsWell'
  <1>1. CASE ReadPage \/ HeadersPage \/ ConsumeHeader
    BY <1>1, ReadPageBegins, HeadersPageBegins, ConsumeHeaderBegins
  <1>2. CASE PacketOut \/ NoPacketOut \/ FeedPage
    <2>1. caller' = caller /\ caller # "read_headers"
      BY <1>2 DEF PacketOut, NoPacketOut, FeedPage, Control
    <2>2. QED
      BY <2>1 DEF BeginsWell, InHeaders
  <1>3. CASE Turning /\ ~NextHeaderPage
    <2>1. ~InHeaders'
      BY <1>3 DEF InHeaders, Control, Turning, UnknownStream, HoleAmidHeaders, HeadersDone, CannotStart,
         Abort, NoPacket, FrameDue, NoFrameDue, NextPacket, Escape, StartPlay
    <2>2. QED
      BY <2>1 DEF BeginsWell
  <1>4. CASE NextHeaderPage
    <2>1. /\ UNCHANGED <<file, streams, headers>> /\ pc = "peek" /\ pc' = "read_page"
          /\ queue[peeked] = << >> /\ Fed = returned /\ Fed' = returned /\ InHeaders
      BY <1>4 DEF NextHeaderPage, Fed, sync, InHeaders, Control
    <2>2. ASSUME ~Cause PROVE BeginsThen(returned)
      <3>1. /\ BeforeData(returned)
            /\ \A t \in Serials : Smooth(t, returned) /\ (video.kind[t] # "other" => Complete(t))
            /\ EndsData(returned) => \E id \in ToSet(<< >>) : id > HeaderPackets
        BY <2>1, <2>2 DEF BeginsWell
      <3>2. ~EndsData(returned)
        BY <3>1 DEF ToSet
      <3>3. QED
        BY <2>1, <3>1, <3>2 DEF BeginsThen, Smooth, SmoothThen, Complete, CompleteThen, streams
    <2>3. QED
      BY <2>1, <2>2, BeginsAfter
  <1>5. QED
    BY <1>1, <1>2, <1>3, <1>4, NextCases
-----------------------------------------------------------------------------
(* After it *)

\* With all headers of all streams, and a stream of sound, playing can start.
LEMMA StartReady ==
  ASSUME TypeOK, ~Cause, mStreams = Serials,
         \A s \in Serials : video.kind[s] # "other" => headers[s] = HeaderPackets
  PROVE  CanStart
  <1>1. PICK v \in Serials : video.kind[v] = "vorbis"
    BY DEF Cause
  <1>2. HeaderPackets > 0
    BY SizesAssumption
  <1>3. v \in Known("vorbis")
    BY <1>1, <1>2 DEF Known
  <1>4. FirstOf("vorbis") # NoStream
    <2> DEFINE S == Known("vorbis")
    <2>1. S \in SUBSET Nat /\ S # {} /\ 0 \notin S
      BY <1>3, FileFacts DEF Known, TypeOK, NoStream
    <2>2. FirstOf("vorbis") = Min(S)
      BY <2>1 DEF FirstOf
    <2> HIDE DEF S
    <2>3. \E x \in S : \A y \in S : x <= y
      BY <2>1, Least
    <2>4. Min(S) \in S
      BY <2>3 DEF Min
    <2>5. QED
      BY <2>1, <2>2, <2>4 DEF NoStream
  <1>5. FirstOf("theora") # NoStream => headers[FirstOf("theora")] = HeaderPackets
    <2> SUFFICES ASSUME FirstOf("theora") # NoStream PROVE headers[FirstOf("theora")] = HeaderPackets
      OBVIOUS
    <2>1. FirstOf("theora") \in Known("theora")
      BY FirstOfKnown
    <2>2. QED
      BY <2>1 DEF Known
  <1>6. QED
    BY <1>4, <1>5 DEF CanStart

\* What holds after a step, in terms of the file.
PlaysThen(n) ==
  /\ mStreams' = Serials
  /\ n = Num \/ ~BeforeData(n + 1)
  /\ pc' = "start" => CanStart'
  /\ \A s \in Serials : video.kind[s] = "theora" =>
       \A i \in DOMAIN queue'[s] : queue'[s][i] = Hole \/ queue'[s][i] > HeaderPackets

LEMMA PlaysAfter ==
  ASSUME UNCHANGED file, NEW n, Fed' = n,
         pc' # "aborted" /\ ~InHeaders' /\ ~Cause => PlaysThen(n)
  PROVE  PlaysWell'
  <1>1. /\ video' = video /\ Serials' = Serials /\ Num' = Num
    BY FileKept
  <1>2. Cause' <=> Cause
    BY CauseKept
  <1>3. BeforeData(Fed + 1)' <=> BeforeData(n + 1)
    <2>1. \A k : EndsData(k)' <=> EndsData(k)
      BY CauseKept
    <2>2. QED
      BY <2>1 DEF BeforeData
  <1>4. QED
    BY <1>1, <1>2, <1>3 DEF PlaysWell, PlaysThen

\* More pages do not come before the data again.
LEMMA AfterData ==
  ASSUME NEW n \in Nat, NEW m \in Nat, n <= m, ~BeforeData(n)
  PROVE  ~BeforeData(m)
  <1>1. \A j \in 1 .. (n - 1) : j \in 1 .. (m - 1)
    OBVIOUS
  <1>2. QED
    BY <1>1 DEF BeforeData

\* Reading a page.
LEMMA ReadPagePlays ==
  ASSUME TypeOK, Control, PlaysWell, ReadPage
  PROVE  PlaysWell'
  <1>1. /\ UNCHANGED <<file, streams, headers, caller>>
        /\ pc \in Asking /\ pc' \in {"pageout", "read", "last_pageout", "page_read", "no_page"}
    BY DEF ReadPage, EnterReadPage, ReturnPage, NeedData, Read, ReturnNoPage, Asking
  <1>2. Num \in Nat /\ returned \in 0 .. Num /\ Fed = returned
    BY <1>1, FileFacts DEF TypeOK, Fed, Asking
  <1>3. PICK n \in returned .. Num : Fed' = n /\ \A j \in (returned + 1) .. n : j \in damaged
    BY ReadPageFed
  <1>4. ASSUME ~InHeaders', ~Cause PROVE PlaysThen(n)
    <2>1. ~InHeaders /\ pc # "aborted"
      BY <1>1, <1>4 DEF InHeaders, Asking
    <2>2. /\ mStreams = Serials /\ (returned = Num \/ ~BeforeData(returned + 1))
          /\ \A s \in Serials : video.kind[s] = "theora" =>
               \A i \in DOMAIN queue[s] : queue[s][i] = Hole \/ queue[s][i] > HeaderPackets
      BY <1>2, <1>4, <2>1 DEF PlaysWell
    <2>3. n = Num \/ ~BeforeData(n + 1)
      <3>1. returned = Num => n = Num
        BY <1>2
      <3>2. returned + 1 \in Nat /\ n + 1 \in Nat /\ returned + 1 <= n + 1
        BY <1>2
      <3>3. QED
        BY <2>2, <3>1, <3>2, AfterData
    <2>4. pc' # "start"
      BY <1>1
    <2>5. QED
      BY <1>1, <2>2, <2>3, <2>4 DEF PlaysThen, streams
  <1>5. QED
    BY <1>1, <1>3, <1>4, PlaysAfter

\* Once data have come, a page with a header is one that comes again.
LEMMA HeaderAgain ==
  ASSUME video \in Videos, NEW k \in 1 .. Num, ~BeforeData(k), CarriesHeader(k)
  PROVE  ComesAgain(k)
  <1> DEFINE s == Serial(k)
  <1>1. Num \in Nat /\ s \in Serials /\ \A j \in 1 .. Num : video.pages[j].no \in Nat
    BY FileFacts
  <1>2. PICK e \in 1 .. (k - 1) : EndsData(e)
    BY DEF BeforeData
  <1>3. e \in 1 .. Num + 1
    BY <1>1
  <1>4. PICK l \in 1 .. Num :
           /\ Serial(l) = s /\ l <= e
           /\ video.kind[s] # "other" => \A h \in 1 .. HeaderPackets : \E j \in 1 .. Num :
                Serial(j) = s /\ video.pages[j].no <= video.pages[l].no
                  /\ h \in ToSet(video.pages[j].ids)
    BY <1>1, <1>2, <1>3, HeadersFacts
  <1>5. PICK h \in ToSet(video.pages[k].ids) : h <= HeaderPackets
    BY DEF CarriesHeader
  <1>6. PICK a \in DOMAIN video.pages[k].ids : h = video.pages[k].ids[a]
    BY DEF ToSet
  <1>7. h \in 1 .. HeaderPackets
    <2>1. h \in Nat \ {0} /\ HeaderPackets \in Nat
      BY <1>6, NumberingFacts, SizesAssumption
    <2>2. QED
      BY <1>5, <2>1
  <1>8. PICK j \in 1 .. Num : /\ Serial(j) = s /\ video.pages[j].no <= video.pages[l].no
                              /\ h \in ToSet(video.pages[j].ids)
    BY <1>4, <1>7 DEF CarriesHeader, Headed
  <1>9. PICK b \in DOMAIN video.pages[j].ids : h = video.pages[j].ids[b]
    BY <1>8 DEF ToSet
  <1>10. video.pages[j].no = video.pages[k].no
    <2>1. ~(video.pages[j].no < video.pages[k].no) /\ ~(video.pages[k].no < video.pages[j].no)
      <3>1. video.pages[j].no < video.pages[k].no => video.pages[j].ids[b] < video.pages[k].ids[a]
        BY <1>6, <1>8, <1>9, NumberingFacts
      <3>2. video.pages[k].no < video.pages[j].no => video.pages[k].ids[a] < video.pages[j].ids[b]
        BY <1>6, <1>8, <1>9, NumberingFacts
      <3>3. h \in Nat
        BY <1>7
      <3>4. QED
        BY <1>6, <1>9, <3>1, <3>2, <3>3
    <2>2. QED
      BY <1>1, <2>1
  <1>11. PICK i \in 1 .. l : Serial(i) = s /\ video.pages[i].no = video.pages[k].no
    <2>1. video.pages[k].no \in 0 .. video.pages[l].no
      BY <1>1, <1>8, <1>10
    <2>2. QED
      BY <1>4, <2>1, EarlierPages
  <1>12. i \in 1 .. (k - 1)
    BY <1>1, <1>4
  <1>13. QED
    BY <1>11, <1>12 DEF ComesAgain

\* Feeding: what goes to a stream of pictures is no header.
LEMMA FeedPagePlays ==
  ASSUME TypeOK, Control, PlaysWell, FeedPage
  PROVE  PlaysWell'
  <1> DEFINE k == page
             s == Serial(k)
  <1>1. /\ Feeding(k, expected[s], partial[s]) /\ s \in mStreams
        /\ caller # "read_headers" /\ pc' = "packetout"
    BY FeedPageFeeds
  <1>2. UNCHANGED file /\ Fed = k - 1 /\ Fed' = k /\ ~InHeaders /\ pc = "page_read"
    BY <1>1 DEF Feeding, Fed, sync, InHeaders
  <1>3. k \in 1 .. Num /\ Num \in Nat /\ s \in Serials /\ video \in Videos
    <2>1. k \in 1 .. Num /\ video \in Videos
      BY <1>1 DEF Feeding, TypeOK
    <2>2. QED
      BY <2>1, FileFacts
  <1>4. ASSUME ~Cause PROVE PlaysThen(k)
    <2>1. /\ mStreams = Serials /\ (k - 1 = Num \/ ~BeforeData(k - 1 + 1))
          /\ \A t \in Serials : video.kind[t] = "theora" =>
               \A i \in DOMAIN queue[t] : queue[t][i] = Hole \/ queue[t][i] > HeaderPackets
      BY <1>2, <1>4 DEF PlaysWell
    <2>2. ~BeforeData(k) /\ ~BeforeData(k + 1)
      <3>1. k - 1 # Num /\ k - 1 + 1 = k /\ k \in Nat /\ k + 1 \in Nat /\ k <= k + 1
        BY <1>3
      <3>2. QED
        BY <2>1, <3>1, AfterData
    <2>3. mStreams' = Serials
      BY <1>1, <1>3, <2>1 DEF Feeding
    <2>4. ASSUME video.kind[s] = "theora", NEW i \in DOMAIN queue'[s]
          PROVE  queue'[s][i] = Hole \/ queue'[s][i] > HeaderPackets
      <3> DEFINE e == EndsOn(k, expected[s], partial[s])
                 ids == video.pages[k].ids
                 q == queue[s]
      <3>1. ~CarriesHeader(k)
        BY <1>3, <1>4, <2>2, <2>4, HeaderAgain DEF Cause
      <3>2. \A id \in ToSet(ids) : id > HeaderPackets
        <4>1. \A id \in ToSet(ids) : ~(id <= HeaderPackets)
          BY <2>4, <3>1 DEF CarriesHeader, Headed
        <4>2. \A id \in ToSet(ids) : id \in Nat
          BY <1>3, NumberingFacts DEF ToSet
        <4>3. QED
          BY <4>1, <4>2, SizesAssumption
      <3>3. ToSet(e) \subseteq ToSet(ids)
        <4>1. ids \in Seq(Nat) /\ (e = ids \/ (ids # << >> /\ e = Tail(ids)))
          BY <1>3, FileFacts DEF EndsOn
        <4> HIDE DEF ids, e
        <4>2. ids # << >> => ToSet(ids) = {Head(ids)} \cup ToSet(Tail(ids))
          BY <4>1, BeforeHoleHead
        <4>3. QED
          BY <4>1, <4>2
      <3>4. PICK r \in {q, Append(q, Hole)} : queue'[s] = r \o e
        BY <1>1, <1>3 DEF Feeding, TypeOK
      <3>5. q \in Seq(Nat) /\ <<0>> \in Seq(Nat) /\ e \in Seq(Nat)
        <4>1. q \in Seq(Nat)
          BY <1>3 DEF TypeOK
        <4>2. QED
          BY <1>3, <4>1, EndsOnType
      <3> HIDE DEF e, q, ids
      <3>6. Append(q, Hole) = q \o <<0>> /\ q \o <<0>> \in Seq(Nat)
        <4>1. \A u \in Seq(Nat) : Append(u, 0) = u \o <<0>>
          BY AppendIsConcat
        <4>2. QED
          BY <3>5, <4>1, ConcatProperties DEF Hole
      <3>7. r \in Seq(Nat) /\ ToSet(r) \subseteq ToSet(q) \cup {0}
        <4>1. ToSet(<<0>>) = {0}
          BY DEF ToSet
        <4>2. ToSet(q \o <<0>>) = ToSet(q) \cup ToSet(<<0>>)
          BY <3>5, BeforeHoleConcat
        <4>3. QED
          BY <3>4, <3>5, <3>6, <4>1, <4>2
      <3>8. ToSet(r \o e) = ToSet(r) \cup ToSet(e)
        BY <3>5, <3>7, BeforeHoleConcat
      <3>9. queue'[s][i] \in ToSet(r \o e)
        BY <2>4, <3>4 DEF ToSet
      <3>10. \A c \in ToSet(q) : c = Hole \/ c > HeaderPackets
        BY <1>3, <2>1, <2>4 DEF ToSet, q
      <3>11. QED
        BY <3>2, <3>3, <3>7, <3>8, <3>9, <3>10 DEF Hole
    <2>5. ASSUME NEW t \in Serials, t # s PROVE queue'[t] = queue[t]
      BY <1>1, <2>5 DEF Feeding, TypeOK
    <2>6. QED
      BY <1>1, <2>1, <2>2, <2>3, <2>4, <2>5 DEF PlaysThen
  <1>5. QED
    BY <1>2, <1>4, PlaysAfter

\* Taking a packet, or passing over a hole.
LEMMA TakePlays ==
  ASSUME TypeOK, Control, PlaysWell, PacketOut \/ NoPacketOut
  PROVE  PlaysWell'
  <1>1. /\ UNCHANGED <<file, sync, mStreams, headers, caller>> /\ caller # "read_headers"
        /\ pc = "packetout" /\ pc' \notin {"start", "page_read"} /\ ~InHeaders
    <2>1. /\ UNCHANGED <<file, sync, mStreams, headers, caller>> /\ pc = "packetout"
          /\ caller # "read_headers"
      BY DEF PacketOut, NoPacketOut, Control
    <2>2. pc' \notin {"start", "page_read"}
      BY DEF PacketOut, NoPacketOut, Decoded, Control, TypeOK
    <2>3. QED
      BY <2>1, <2>2 DEF InHeaders
  <1>2. Fed = returned /\ Fed' = returned
    BY <1>1 DEF Fed, sync
  <1>3. Wanted \in Serials /\ queue \in [Serials -> Seq(Nat)]
    BY DEF PacketOut, NoPacketOut, Wanted, Control, TypeOK
  <1>4. ASSUME NEW s \in Serials PROVE ToSet(queue'[s]) \subseteq ToSet(queue[s])
    <2>1. queue'[s] = queue[s] \/ (queue[s] # << >> /\ queue'[s] = Tail(queue[s]))
      BY <1>3 DEF PacketOut, NoPacketOut
    <2>2. queue[s] # << >> => ToSet(queue[s]) = {Head(queue[s])} \cup ToSet(Tail(queue[s]))
      BY <1>3, BeforeHoleHead
    <2>3. QED
      BY <2>1, <2>2
  <1>5. ASSUME ~Cause PROVE PlaysThen(returned)
    <2>1. /\ mStreams = Serials /\ (returned = Num \/ ~BeforeData(returned + 1))
          /\ \A s \in Serials : video.kind[s] = "theora" =>
               \A i \in DOMAIN queue[s] : queue[s][i] = Hole \/ queue[s][i] > HeaderPackets
      BY <1>1, <1>2, <1>5 DEF PlaysWell
    <2>2. ASSUME NEW s \in Serials, video.kind[s] = "theora", NEW i \in DOMAIN queue'[s]
          PROVE  queue'[s][i] = Hole \/ queue'[s][i] > HeaderPackets
      <3>1. queue'[s][i] \in ToSet(queue'[s])
        BY DEF ToSet
      <3>2. queue'[s][i] \in ToSet(queue[s])
        BY <1>4, <3>1
      <3>3. QED
        BY <2>1, <2>2, <3>2 DEF ToSet
    <2>3. QED
      BY <1>1, <2>1, <2>2 DEF PlaysThen
  <1>6. QED
    BY <1>1, <1>2, <1>5, PlaysAfter

\* The headers are done with the first packet of data, or at the end of the file.
LEMMA HeadersDonePlays ==
  ASSUME TypeOK, Control, AllKept, HeadersCounted, BeginsWell, HeadersDone, ~Cause
  PROVE  /\ mStreams = Serials /\ CanStart
         /\ Fed = Num \/ ~BeforeData(Fed + 1)
         /\ \A s \in Serials : \A id \in ToSet(queue[s]) : id > HeaderPackets
  <1>1. InHeaders /\ Fed = returned /\ returned \in 0 .. Num /\ Num \in Nat
        /\ HeaderPackets \in Nat \ {0} /\ video \in Videos
    <2>1. InHeaders /\ Fed = returned /\ returned \in 0 .. Num /\ video \in Videos
      BY DEF HeadersDone, Control, InHeaders, Fed, TypeOK
    <2>2. QED
      BY <2>1, FileFacts, SizesAssumption
  <1>2. ToSet(<< >>) = {}
    BY DEF ToSet
  <1>3. PICK e \in 1 .. Num + 1 :
          /\ e = Num + 1 \/ EndsData(e)
          /\ Fed = (IF e = Num + 1 THEN Num ELSE e)
          /\ \A s \in Serials : \A id \in ToSet(queue[s]) : id > HeaderPackets
    <2>1. CASE pc = "peek"
      <3>1. queue[peeked] # << >> /\ FirstData(peeked, Peeked)
        BY <2>1 DEF HeadersDone
      <3>2. /\ peeked \in Serials /\ peeked = Serial(returned) /\ Peeked \in Nat
            /\ Peeked \in ToSet(queue[peeked]) /\ \A id \in ToSet(queue[peeked]) : id >= Peeked
            /\ queue[peeked] \in Seq(Nat)
        BY <1>1, <2>1, <3>1, PeekedNext
      <3>3. Peeked > HeaderPackets /\ video.kind[peeked] # "other"
        BY <1>1, <3>1, <3>2 DEF FirstData, IsHeader
      <3>4. Peeked \in ToSet(video.pages[returned].ids)
        BY <1>1, <2>1, <3>2 DEF BeginsWell
      <3>5. EndsData(returned)
        BY <3>2, <3>3, <3>4 DEF EndsData, Headed
      <3>6. returned \in 1 .. Num /\ returned # Num + 1 /\ returned \in 1 .. Num + 1
        BY <1>1, <2>1 DEF Control
      <3>7. \A s \in Serials : s # peeked => queue[s] = << >>
        BY <1>1 DEF Control
      <3>8. \A id \in ToSet(queue[peeked]) : id > HeaderPackets
        <4>1. \A id \in ToSet(queue[peeked]) : id \in Nat
          <5> DEFINE q == queue[peeked]
          <5>1. q \in Seq(Nat)
            BY <3>2
          <5> HIDE DEF q
          <5>2. \A id \in ToSet(q) : id \in Nat
            BY <5>1 DEF ToSet
          <5>3. QED
            BY <5>2 DEF q
        <4> DEFINE ids == ToSet(queue[peeked])
                   first == Peeked
        <4>2. /\ first \in Nat /\ first > HeaderPackets /\ \A id \in ids : id \in Nat
              /\ \A id \in ids : id >= first
          BY <3>2, <3>3, <4>1
        <4> HIDE DEF ids, first
        <4>3. \A id \in ids : id > HeaderPackets
          BY <1>1, <4>2
        <4>4. QED
          BY <4>3 DEF ids
      <3>9. \A s \in Serials : \A id \in ToSet(queue[s]) : id > HeaderPackets
        BY <1>2, <3>7, <3>8
      <3>10. QED
        BY <1>1, <3>5, <3>6, <3>9
    <2>2. CASE pc = "no_page"
      <3>1. returned = Num
        <4> SUFFICES ASSUME returned # Num PROVE FALSE
          OBVIOUS
        <4>1. returned < Num
          BY <1>1
        <4>2. PICK k \in 1 .. (returned + 1) : Hit(k)
          BY <2>2, <4>1 DEF Control
        <4>3. k \in 1 .. Num /\ k <= Fed + 1 /\ Fed \in Nat /\ pc # "peek"
          BY <1>1, <2>2, <4>1
        <4>4. QED
          BY <1>1, <4>2, <4>3, NextIsFine
      <3>2. \A s \in Serials : queue[s] = << >>
        BY <1>1, <2>2 DEF Control
      <3>3. Num + 1 \in 1 .. Num + 1
        BY <1>1
      <3>4. QED
        BY <1>1, <1>2, <3>1, <3>2, <3>3
    <2>3. QED
      BY <2>1, <2>2 DEF HeadersDone
  <1>4. ASSUME NEW s \in Serials
        PROVE  s \in mStreams /\ (video.kind[s] # "other" => headers[s] = HeaderPackets)
    <2>1. /\ s \in mStreams
          /\ video.kind[s] # "other" =>
               \A h \in 1 .. HeaderPackets : h <= headers[s] \/ h \in ToSet(queue[s])
      BY <1>1, <1>3, HeadersIn
    <2>2. HeaderPackets \in 1 .. HeaderPackets /\ HeaderPackets \notin ToSet(queue[s])
      BY <1>1, <1>3
    <2>3. headers[s] \in 0 .. HeaderPackets
      BY DEF TypeOK
    <2>4. QED
      BY <1>1, <2>1, <2>2, <2>3
  <1>5. mStreams = Serials
    BY <1>4 DEF TypeOK
  <1>6. CanStart
    BY <1>4, <1>5, StartReady
  <1>7. Fed = Num \/ ~BeforeData(Fed + 1)
    <2> SUFFICES ASSUME Fed # Num PROVE ~BeforeData(Fed + 1)
      OBVIOUS
    <2>1. Fed = e /\ EndsData(e) /\ e \in 1 .. Num
      BY <1>1, <1>3
    <2>2. e \in 1 .. (e + 1 - 1)
      BY <1>1, <2>1
    <2>3. ~BeforeData(e + 1)
      BY <2>1, <2>2 DEF BeforeData
    <2>4. QED
      BY <2>1, <2>3
  <1>8. QED
    BY <1>3, <1>5, <1>6, <1>7

\* Every step.
LEMMA PlaysStep ==
  ASSUME TypeOK, Control, AllKept, HeadersCounted, BeginsWell, PlaysWell, Next
  PROVE  PlaysWell'
  <1>1. CASE ReadPage \/ FeedPage \/ PacketOut \/ NoPacketOut
    BY <1>1, ReadPagePlays, FeedPagePlays, TakePlays
  <1>2. CASE HeadersPage \/ ConsumeHeader \/ NextHeaderPage
    <2>1. InHeaders'
      BY <1>2 DEF HeadersPage, ConsumeHeader, NextHeaderPage, InHeaders, Control
    <2>2. QED
      BY <2>1 DEF PlaysWell
  <1>3. CASE UnknownStream \/ HoleAmidHeaders \/ CannotStart
    <2>1. pc' = "aborted"
      BY <1>3 DEF UnknownStream, HoleAmidHeaders, CannotStart, Abort
    <2>2. QED
      BY <2>1 DEF PlaysWell
  <1>4. CASE HeadersDone
    <2>1. UNCHANGED <<file, streams, headers>> /\ Fed' = Fed
      BY <1>4 DEF HeadersDone, Fed, sync
    <2>2. ASSUME ~Cause PROVE PlaysThen(Fed)
      <3>1. /\ mStreams = Serials /\ CanStart
            /\ Fed = Num \/ ~BeforeData(Fed + 1)
            /\ \A s \in Serials : \A id \in ToSet(queue[s]) : id > HeaderPackets
        BY <1>4, <2>2, HeadersDonePlays
      <3>2. CanStart'
        <4>1. video' = video /\ mStreams' = mStreams /\ headers' = headers
          BY <2>1 DEF file, streams
        <4>2. \A kind : Known(kind)' = Known(kind)
          BY <4>1 DEF Known
        <4>3. \A kind : FirstOf(kind)' = FirstOf(kind)
          BY <4>2 DEF FirstOf
        <4>4. QED
          BY <3>1, <4>1, <4>3 DEF CanStart
      <3>3. QED
        BY <2>1, <3>1, <3>2 DEF PlaysThen, streams, ToSet
    <2>3. QED
      BY <2>1, <2>2, PlaysAfter
  <1>5. CASE StartPlay \/ NoPacket \/ FrameDue \/ NoFrameDue \/ NextPacket \/ Escape
    <2>1. /\ UNCHANGED <<file, streams, headers>> /\ Fed' = Fed /\ ~InHeaders
          /\ pc # "aborted" /\ pc' # "start"
      BY <1>5 DEF StartPlay, NoPacket, FrameDue, NoFrameDue, NextPacket, Escape, Fed, sync, InHeaders,
         Control
    <2>2. ASSUME ~Cause PROVE PlaysThen(Fed)
      BY <2>1, <2>2 DEF PlaysWell, PlaysThen, streams
    <2>3. QED
      BY <2>1, <2>2, PlaysAfter
  <1>6. QED
    BY <1>1, <1>2, <1>3, <1>4, <1>5, NextCases DEF Turning
-----------------------------------------------------------------------------
(* The assertions of the decoder *)

\* One that fails has a cause.
LEMMA AbortStep ==
  ASSUME TypeOK, Control, AllKept, HeadersCounted, BeginsWell, PlaysWell, AbortsWithCause, Next
  PROVE  AbortsWithCause'
  <1> SUFFICES ASSUME pc' = "aborted", ~Cause' PROVE FALSE
    BY DEF AbortsWithCause
  <1>1. UNCHANGED file
    BY DEF Next, ReadPage, EnterReadPage, ReturnPage, NeedData, Read, ReturnNoPage,
       ReadHeaders, HeadersPage, UnknownStream, ConsumeHeader, HoleAmidHeaders, NextHeaderPage,
       HeadersDone, Play, StartPlay, CannotStart, PacketOut, NoPacketOut, FeedPage, NoPacket,
       FrameDue, NoFrameDue, NextPacket, Escape, Abort
  <1>2. ~Cause
    BY <1>1, CauseKept
  <1>3. CASE ReadPage \/ HeadersPage \/ FeedPage \/ ConsumeHeader \/ NoPacketOut \/ HeadersDone
             \/ NextHeaderPage
    BY <1>3 DEF ReadPage, EnterReadPage, ReturnPage, NeedData, Read, ReturnNoPage, HeadersPage,
       FeedPage, ConsumeHeader, NoPacketOut, HeadersDone, NextHeaderPage
  <1>4. CASE StartPlay \/ NoPacket \/ FrameDue \/ NoFrameDue \/ NextPacket \/ Escape
    BY <1>4 DEF StartPlay, NoPacket, FrameDue, NoFrameDue, NextPacket, Escape
  <1>5. CASE PacketOut
    <2>1. /\ caller = "movie" /\ IsHeader(movie, Head(queue[movie])) /\ queue[movie] # << >>
          /\ Head(queue[movie]) # Hole /\ pc = "packetout"
      BY <1>5 DEF PacketOut, Decoded, Wanted, Control, TypeOK
    <2>2. movie \in Serials /\ video.kind[movie] = "theora" /\ queue[movie] \in Seq(Nat)
      BY <2>1 DEF Control, TypeOK
    <2>3. 1 \in DOMAIN queue[movie] /\ Head(queue[movie]) = queue[movie][1]
          /\ Head(queue[movie]) \in Nat
      <3> DEFINE q == queue[movie]
      <3>1. q \in Seq(Nat) /\ q # << >>
        BY <2>1, <2>2
      <3> HIDE DEF q
      <3>2. 1 \in DOMAIN q /\ Head(q) = q[1] /\ Head(q) \in Nat
        BY <3>1, EmptySeq, LenProperties, HeadTailProperties
      <3>3. QED
        BY <3>2 DEF q
    <2>4. \A i \in DOMAIN queue[movie] : queue[movie][i] = Hole \/ queue[movie][i] > HeaderPackets
      BY <1>2, <2>1, <2>2 DEF PlaysWell, InHeaders
    <2>5. QED
      BY <2>1, <2>3, <2>4, SizesAssumption DEF IsHeader
  <1>6. CASE HoleAmidHeaders
    <2>1. pc = "peek" /\ queue[peeked] # << >> /\ Peeked = Hole /\ InHeaders
      BY <1>6 DEF HoleAmidHeaders, InHeaders, Control
    <2>2. QED
      BY <1>2, <2>1, PeekedNext
  <1>7. CASE CannotStart
    BY <1>2, <1>7 DEF CannotStart, PlaysWell, InHeaders
  <1>8. CASE UnknownStream
    <2> DEFINE k == page
               s == Serial(k)
    <2>1. /\ pc = "page_read" /\ s \notin mStreams
          /\ caller = "read_headers" => ~video.pages[k].bos
          /\ Fed = k - 1
      BY <1>8 DEF UnknownStream, Serial, Fed
    <2>2. k \in 1 .. Num /\ Num \in Nat /\ s \in Serials
      <3>1. k \in 0 .. Num /\ k # 0 /\ video \in Videos
        BY <2>1 DEF TypeOK, Control
      <3>2. Num \in Nat
        BY <3>1, FileFacts
      <3>3. k \in 1 .. Num
        BY <3>1, <3>2
      <3>4. QED
        BY <3>1, <3>2, <3>3, FileFacts
    <2>3. CASE caller # "read_headers"
      BY <1>2, <2>1, <2>2, <2>3 DEF PlaysWell, InHeaders
    <2>4. CASE caller = "read_headers"
      <3>1. InHeaders /\ pc # "peek" /\ Fed \in Nat /\ Fed + 1 = k
        BY <2>1, <2>2, <2>4 DEF InHeaders
      <3>2. \A i \in 1 .. Num : i <= Fed + 1 => ~Hit(i) /\ ~OutOfStep(i)
        BY <1>2, <3>1, NextIsFine
      <3>3. k <= k /\ \A i \in 1 .. (k - 1) : i \in 1 .. Num /\ i <= k
        BY <2>2
      <3>4. PICK j \in 1 .. (k - 1) : Serial(j) = s
        BY <2>1, <2>2, <2>4, <3>1, <3>2, <3>3 DEF OutOfStep
      <3>5. j \notin damaged
        BY <3>1, <3>2, <3>3 DEF Hit
      <3>6. Kept(s, k - 1)
        BY <2>1, <2>2 DEF AllKept
      <3>7. QED
        BY <2>1, <3>4, <3>5, <3>6 DEF Kept
    <2>5. QED
      BY <2>3, <2>4
  <1>9. QED
    BY <1>3, <1>4, <1>5, <1>6, <1>7, <1>8, NextCases DEF Turning
-----------------------------------------------------------------------------
(* The theorems *)

\* Before the first page there is nothing to be wrong.
LEMMA InvariantAtFirst ==
  ASSUME Init
  PROVE  IInv
  <1>1. TypeOK /\ Control /\ AllKept /\ HeadersCounted /\ Unhurt
    BY StartHolds, UnhurtAtFirst
  <1>2. /\ InHeaders /\ pc = "read_page" /\ Fed = 0
        /\ \A s \in Serials : queue[s] = << >> /\ expected[s] = 0
    BY DEF Init, InHeaders, Fed, sync
  <1>3. BeginsWell
    <2>1. BeforeData(Fed)
      <3>1. \A j \in 1 .. (Fed - 1) : FALSE
        BY <1>2
      <3>2. QED
        BY <3>1 DEF BeforeData
    <2>2. ASSUME NEW s \in Serials PROVE Smooth(s, Fed) /\ Complete(s)
      <3>1. Holeless(queue[s])
        <4>1. queue[s] = << >>
          BY <1>2
        <4> HIDE DEF Serials
        <4>2. QED
          BY <4>1 DEF Holeless
      <3>2. Smooth(s, Fed)
        BY <1>2, <3>1 DEF Smooth
      <3>3. \A k \in 1 .. Num : Serial(k) = s => video.pages[k].no \in Nat
        <4>1. video \in Videos
          BY <1>1 DEF TypeOK
        <4>2. QED
          BY <4>1, FileFacts
      <3>4. Complete(s)
        BY <1>2, <3>3 DEF Complete
      <3>5. QED
        BY <3>2, <3>4
    <2>3. QED
      BY <1>2, <2>1, <2>2 DEF BeginsWell
  <1>4. PlaysWell /\ AbortsWithCause
    BY <1>2 DEF PlaysWell, AbortsWithCause
  <1>5. QED
    BY <1>1, <1>3, <1>4 DEF IInv

\* Nothing changes while the player waits.
LEMMA InvariantAtRest ==
  ASSUME IInv, UNCHANGED vars
  PROVE  IInv'
  <1>1. /\ UNCHANGED file
        /\ good' = good /\ got' = got /\ returned' = returned /\ unsynced' = unsynced
        /\ mStreams' = mStreams /\ expected' = expected /\ queue' = queue /\ partial' = partial
        /\ headers' = headers /\ audio' = audio /\ movie' = movie /\ active' = active
        /\ pc' = pc /\ caller' = caller /\ page' = page /\ peeked' = peeked
        /\ taken' = taken /\ escaped' = escaped
    BY DEF vars, sync, streams, chosen
  <1>2. /\ video' = video /\ damaged' = damaged /\ cut' = cut /\ Num' = Num /\ Serials' = Serials
        /\ PageUnits' = PageUnits
        /\ \A k : Serial(k)' = Serial(k) /\ (Hit(k)' <=> Hit(k))
    <2>1. video' = video
      BY <1>1 DEF file
    <2>2. QED
      BY <1>1, <2>1, FileKept DEF PageUnits
  <1>3. Fed' = Fed /\ (InHeaders' <=> InHeaders)
    BY <1>1 DEF Fed, InHeaders
  <1>4. /\ TypeOK /\ Control /\ AllKept /\ Unhurt /\ HeadersCounted
        /\ BeginsWell /\ PlaysWell /\ AbortsWithCause
    BY DEF IInv
  <1>5. TypeOK'
    BY <1>1, <1>2, <1>4 DEF TypeOK
  <1>6. Control'
    BY <1>1, <1>2, <1>3, <1>4 DEF Control
  <1>7. AllKept'
    <2>1. CASE pc = "aborted"
      BY <1>1, <2>1 DEF AllKept
    <2>2. CASE pc # "aborted"
      <3>1. \A s \in Serials : KeptThen(s, Fed)
        BY <1>1, <1>4, <2>2 DEF AllKept, Kept, KeptThen
      <3>2. QED
        BY <1>1, <1>3, <3>1, KeptAfter
    <2>3. QED
      BY <2>1, <2>2
  <1>8. Unhurt'
    <2>1. UnhurtThen(Fed)
      BY <1>1, <1>4 DEF Unhurt, UnhurtThen, Smooth, SmoothThen, Heard, Wanted,
         SoundBeforeDamageIsPlayed, Clean
    <2>2. QED
      BY <1>1, <1>3, <2>1, UnhurtAfter
  <1>9. HeadersCounted'
    BY <1>1, <1>2, <1>3, <1>4 DEF HeadersCounted, Counted, Holeless
  <1>10. BeginsWell'
    <2>1. InHeaders' /\ ~Cause => BeginsThen(Fed)
      BY <1>1, <1>3, <1>4 DEF BeginsWell, BeginsThen, Smooth, SmoothThen, Complete, CompleteThen
    <2>2. QED
      BY <1>1, <1>3, <2>1, BeginsAfter
  <1>11. PlaysWell'
    <2>1. CanStart => CanStart'
      <3>1. \A kind : Known(kind)' = Known(kind)
        BY <1>1, <1>2 DEF Known
      <3>2. \A kind : FirstOf(kind)' = FirstOf(kind)
        BY <3>1 DEF FirstOf
      <3>3. QED
        BY <1>1, <3>2 DEF CanStart
    <2>2. pc' # "aborted" /\ ~InHeaders' /\ ~Cause => PlaysThen(Fed)
      BY <1>1, <1>3, <1>4, <2>1 DEF PlaysWell, PlaysThen
    <2>3. QED
      BY <1>1, <1>3, <2>2, PlaysAfter
  <1>12. AbortsWithCause'
    BY <1>1, <1>4, CauseKept DEF AbortsWithCause
  <1>13. QED
    BY <1>5, <1>6, <1>7, <1>8, <1>9, <1>10, <1>11, <1>12 DEF IInv

\* The invariant of play(), read_page() and the two parts of libogg that they drive:
\* of every file, wherever it is damaged, cut off or repeated, and however the clock and
\* the user go on, what has been taken and what is queued is what the pages say.
THEOREM DemuxInvariant == Spec => []IInv
  <1>1. Init => IInv
    BY InvariantAtFirst
  <1>2. IInv /\ [Next]_vars => IInv'
    <2> SUFFICES ASSUME IInv, [Next]_vars PROVE IInv'
      OBVIOUS
    <2>1. CASE Next
      <3>1. /\ TypeOK /\ Control /\ AllKept /\ Unhurt /\ HeadersCounted
            /\ BeginsWell /\ PlaysWell /\ AbortsWithCause
        BY DEF IInv
      <3>2. TypeOK' /\ Control' /\ AllKept'
        BY <2>1, <3>1, TypeStep, ControlStep, KeptStep
      <3>3. Unhurt' /\ HeadersCounted'
        BY <2>1, <3>1, UnhurtStep, CountedStep
      <3>4. BeginsWell' /\ PlaysWell'
        BY <2>1, <3>1, BeginsStep, PlaysStep
      <3>5. AbortsWithCause'
        BY <2>1, <3>1, AbortStep
      <3>6. QED
        BY <3>2, <3>3, <3>4, <3>5 DEF IInv
    <2>2. CASE UNCHANGED vars
      BY <2>2, InvariantAtRest
    <2>3. QED
      BY <2>1, <2>2
  <1>3. QED
    BY <1>1, <1>2, PTL DEF Spec

\* ogg_stream_pagein and ogg_stream_packetout keep every packet that no damage and no
\* repetition has touched, in order and as often as it comes, and make up no other: a page
\* that read_page gives to another stream (PloggOggDecoder.cpp:351) is there when that
\* stream is asked, and a gap never joins the parts of two packets.
THEOREM NothingIsLost == Spec => []NothingVanishes
  <1>1. IInv => NothingVanishes
    BY DEF IInv, AllKept, Kept, NothingVanishes
  <1>2. QED
    BY <1>1, DemuxInvariant, PTL

\* play() leaves its loop only when read_packet of the sound finds nothing more, so all
\* the sound that came before the first damage has been decoded by then, what was queued
\* and what was still in the buffer of the sync state included.
THEOREM SoundIsPlayed == Spec => []SoundBeforeDamageIsPlayed
  <1>1. IInv => SoundBeforeDamageIsPlayed
    BY DEF IInv, Unhurt
  <1>2. QED
    BY <1>1, DemuxInvariant, PTL

\* The assertions of read_headers, play and the two handlers of headers fail only for a
\* file without sound, for damage or a repetition out of step before the first packet of
\* data, or for headers of the picture that come again.
THEOREM AbortsHaveCause == Spec => []AbortsWithCause
  <1>1. IInv => AbortsWithCause
    BY DEF IInv
  <1>2. QED
    BY <1>1, DemuxInvariant, PTL
=============================================================================

-------------------------- MODULE FlushPathProofs ---------------------------
(***************************************************************************)
(* What Flush writes is the memtable, in its order and once each, whatever *)
(* write fails; what Get, Seek and Next of the reader find in the file.    *)
(***************************************************************************)
EXTENDS MemtableProofs

-----------------------------------------------------------------------------
(* Sequences of blocks as one sequence *)

\* f holds what FlattenSeq makes of the first i members of s, for i up to n.
IsFlat(f, s, n) == f = [i \in 1 .. n |-> IF i = 1 THEN s[i] ELSE f[i - 1] \o s[i]]

\* Numbers from 1 to n that a property passes through one by one all have it.
LEMMA UpwardInduction ==
  ASSUME NEW n \in Nat, NEW P, n > 0 => 1 \in P,
         \A i \in 1 .. n - 1 : i \in P => i + 1 \in P
  PROVE  \A i \in 1 .. n : i \in P
<1>. DEFINE Bad == (1 .. n) \ P
<1>1. SUFFICES ASSUME Bad # {}
               PROVE  FALSE
  OBVIOUS
<1>2. Bad \in SUBSET Nat
  OBVIOUS
<1>3. PICK m \in Bad : \A k \in Bad : m <= k
  <2>. HIDE DEF Bad
  <2>. QED
    BY <1>1, <1>2, LeastNatural
<1>4. m # 1 /\ m \in 1 .. n
  OBVIOUS
<1>5. m - 1 \in P
  <2>1. m - 1 \in 1 .. n /\ ~(m <= m - 1)
    BY <1>4
  <2>2. m - 1 \notin Bad
    BY <1>3, <2>1
  <2>. QED
    BY <2>1, <2>2
<1>6. m - 1 \in 1 .. n - 1 /\ (m - 1) + 1 = m
  BY <1>4
<1>. QED
  BY <1>5, <1>6

\* There is such an f, and its values are sequences of the same members.
LEMMA FlatExists ==
  ASSUME NEW S, NEW s \in Seq(Seq(S)), NEW n \in 0 .. Len(s)
  PROVE  \E f : IsFlat(f, s, n)
<1>. DEFINE P == {i \in 1 .. Len(s) : \E f : IsFlat(f, s, i)}
<1>1. Len(s) \in Nat
  OBVIOUS
<1>2. IsFlat([i \in 1 .. 0 |-> s], s, 0)
  BY DEF IsFlat
<1>3. Len(s) > 0 => 1 \in P
  <2>. DEFINE g == [i \in 1 .. 1 |-> s[1]]
  <2>1. IsFlat(g, s, 1)
    BY DEF IsFlat
  <2>. QED
    BY <1>1, <2>1
<1>4. ASSUME NEW i \in 1 .. Len(s) - 1, i \in P
      PROVE  i + 1 \in P
  <2>1. PICK f : IsFlat(f, s, i)
    BY <1>4
  <2>. DEFINE g == [j \in 1 .. i + 1 |-> IF j = i + 1 THEN f[i] \o s[i + 1] ELSE f[j]]
  <2>2. ASSUME NEW j \in 1 .. i + 1
        PROVE  g[j] = IF j = 1 THEN s[j] ELSE g[j - 1] \o s[j]
    <3>1. \A l \in 1 .. i : f[l] = IF l = 1 THEN s[l] ELSE f[l - 1] \o s[l]
      BY <2>1 DEF IsFlat
    <3>2. CASE j = i + 1
      <4>1. j - 1 \in 1 .. i + 1 /\ j - 1 # i + 1 /\ j - 1 = i /\ j # 1
        BY <1>4, <3>2
      <4>. QED
        BY <3>2, <4>1
    <3>3. CASE j # i + 1 /\ j # 1
      <4>1. j \in 1 .. i /\ j - 1 \in 1 .. i + 1 /\ j - 1 # i + 1
        BY <3>3
      <4>. QED
        BY <3>1, <3>3, <4>1
    <3>4. CASE j # i + 1 /\ j = 1
      <4>1. j \in 1 .. i
        BY <3>4
      <4>. QED
        BY <3>1, <3>4, <4>1
    <3>. QED
      BY <3>2, <3>3, <3>4
  <2>3. IsFlat(g, s, i + 1)
    <3>. HIDE DEF g
    <3>1. g = [j \in 1 .. i + 1 |-> g[j]]
      BY DEF g
    <3>. QED
      BY <2>2, <3>1 DEF IsFlat
  <2>. QED
    BY <1>1, <1>4, <2>3
<1>5. \A i \in 1 .. Len(s) : i \in P
  <2>. HIDE DEF P
  <2>. QED
    BY <1>1, <1>3, <1>4, UpwardInduction
<1>6. CASE n = 0
  BY <1>2, <1>6
<1>7. CASE n # 0
  BY <1>1, <1>5, <1>7
<1>. QED
  BY <1>6, <1>7

\* The values of f one by one
LEMMA FlatAt ==
  ASSUME NEW f, NEW s, NEW n, IsFlat(f, s, n), NEW i \in 1 .. n
  PROVE  f[i] = IF i = 1 THEN s[i] ELSE f[i - 1] \o s[i]
BY DEF IsFlat

\* FlattenSeq returns the last of these values.
LEMMA FlattenIs ==
  ASSUME NEW S, NEW s \in Seq(Seq(S))
  PROVE  \E f : /\ IsFlat(f, s, Len(s))
                /\ Table!FlattenSeq(s) = IF Len(s) = 0 THEN s ELSE f[Len(s)]
<1>1. \E f : IsFlat(f, s, Len(s))
  BY FlatExists
<1>. QED
  BY <1>1 DEF Table!FlattenSeq, IsFlat

\* Flattening goes block by block.
LEMMA FlattenAppend ==
  ASSUME NEW S, NEW s \in Seq(Seq(S)), NEW b \in Seq(S)
  PROVE  Table!FlattenSeq(Append(s, b)) = Table!FlattenSeq(s) \o b
<1>. DEFINE t == Append(s, b)
            n == Len(s)
<1>1. /\ t \in Seq(Seq(S)) /\ n \in Nat /\ Len(t) = n + 1 /\ t[n + 1] = b
      /\ \A i \in 1 .. n : s[i] = t[i]
  OBVIOUS
<1>. HIDE DEF t
<1>2. PICK f : IsFlat(f, s, n) /\ Table!FlattenSeq(s) = IF n = 0 THEN s ELSE f[n]
  BY FlattenIs
<1>3. PICK g : IsFlat(g, t, n + 1) /\ Table!FlattenSeq(t) = IF n + 1 = 0 THEN t ELSE g[n + 1]
  BY <1>1, FlattenIs
<1>4. \A i \in 1 .. n : f[i] = g[i]
  <2>. HIDE DEF n
  <2>. DEFINE P == {i \in 1 .. n : f[i] = g[i]}
  <2>1. \A i \in 1 .. n : /\ s[i] = t[i]
                         /\ f[i] = IF i = 1 THEN s[i] ELSE f[i - 1] \o s[i]
    <3>1. IsFlat(f, s, n)
      BY <1>2
    <3>2. \A i \in 1 .. n : f[i] = IF i = 1 THEN s[i] ELSE f[i - 1] \o s[i]
      BY <3>1, FlatAt
    <3>. QED
      BY <1>1, <3>2
  <2>2. \A i \in 1 .. n : g[i] = IF i = 1 THEN t[i] ELSE g[i - 1] \o t[i]
    <3>1. \A i \in 1 .. n : i \in 1 .. n + 1
      BY <1>1
    <3>. QED
      BY <1>3, <3>1, FlatAt
  <2>3. n > 0 => 1 \in P
    BY <1>1, <2>1, <2>2
  <2>4. ASSUME NEW i \in 1 .. n - 1, i \in P
        PROVE  i + 1 \in P
    <3>1. i + 1 \in 1 .. n /\ i + 1 # 1 /\ (i + 1) - 1 = i
      BY <1>1
    <3>2. f[i + 1] = f[i] \o s[i + 1] /\ g[i + 1] = g[i] \o t[i + 1] /\ s[i + 1] = t[i + 1]
      BY <2>1, <2>2, <3>1
    <3>. QED
      BY <2>4, <3>1, <3>2
  <2>5. \A i \in 1 .. n : i \in P
    <3>. HIDE DEF P
    <3>. QED
      BY <1>1, <2>3, <2>4, UpwardInduction
  <2>. QED
    BY <2>5
<1>5. g[n + 1] = IF n + 1 = 1 THEN b ELSE g[(n + 1) - 1] \o b
  <2>1. n + 1 \in 1 .. n + 1
    BY <1>1
  <2>. HIDE DEF n
  <2>. QED
    BY <1>1, <1>3, <2>1, FlatAt
<1>6. CASE n = 0
  <2>1. s = <<>>
    BY <1>6
  <2>2. Table!FlattenSeq(s) = <<>> /\ Table!FlattenSeq(t) = b
    BY <1>2, <1>3, <1>5, <1>6, <2>1
  <2>. QED
    BY <2>2, ConcatEmptySeq DEF t
<1>7. CASE n # 0
  <2>1. n \in 1 .. n /\ (n + 1) - 1 = n /\ n + 1 # 1 /\ n + 1 # 0
    BY <1>1, <1>7
  <2>2. f[n] = g[n]
    BY <1>4, <2>1
  <2>. QED
    BY <1>2, <1>3, <1>5, <1>7, <2>1, <2>2 DEF t
<1>. QED
  BY <1>6, <1>7

\* Nothing flattens to nothing, and the members stay the same.
LEMMA FlattenType ==
  ASSUME NEW S, NEW s \in Seq(Seq(S))
  PROVE  /\ Table!FlattenSeq(s) \in Seq(S)
         /\ s = <<>> => Table!FlattenSeq(s) = <<>>
<1>1. PICK f : IsFlat(f, s, Len(s)) /\ Table!FlattenSeq(s) = IF Len(s) = 0 THEN s ELSE f[Len(s)]
  BY FlattenIs
<1>. DEFINE P == {i \in 1 .. Len(s) : f[i] \in Seq(S)}
<1>2. \A i \in 1 .. Len(s) : /\ s[i] \in Seq(S)
                             /\ f[i] = IF i = 1 THEN s[i] ELSE f[i - 1] \o s[i]
  BY <1>1, FlatAt
<1>3. Len(s) > 0 => 1 \in P
  BY <1>2
<1>4. ASSUME NEW i \in 1 .. Len(s) - 1, i \in P
      PROVE  i + 1 \in P
  <2>1. i + 1 \in 1 .. Len(s) /\ i + 1 # 1 /\ (i + 1) - 1 = i
    OBVIOUS
  <2>2. f[i + 1] = f[i] \o s[i + 1] /\ s[i + 1] \in Seq(S) /\ f[i] \in Seq(S)
    BY <1>2, <1>4, <2>1
  <2>3. f[i + 1] \in Seq(S)
    BY <2>2, ConcatProperties
  <2>. QED
    BY <2>1, <2>3
<1>5. \A i \in 1 .. Len(s) : i \in P
  <2>1. Len(s) \in Nat
    OBVIOUS
  <2>. HIDE DEF P
  <2>. QED
    BY <1>3, <1>4, <2>1, UpwardInduction
<1>6. CASE Len(s) = 0
  BY <1>1, <1>6
<1>7. CASE Len(s) # 0
  BY <1>1, <1>5, <1>7
<1>. QED
  BY <1>6, <1>7

-----------------------------------------------------------------------------
(* Where the entries of a block are in the one sequence *)

\* The number of entries in front of block b
Offset(bs, b) == Len(Table!FlattenSeq(SubSeq(bs, 1, b - 1)))

\* The blocks up to b are those in front of it and b.
LEMMA PrefixStep ==
  ASSUME NEW S, NEW bs \in Seq(Seq(S)), NEW b \in 1 .. Len(bs)
  PROVE  /\ Table!FlattenSeq(SubSeq(bs, 1, b)) = Table!FlattenSeq(SubSeq(bs, 1, b - 1)) \o bs[b]
         /\ Table!FlattenSeq(SubSeq(bs, 1, b - 1)) \in Seq(S)
         /\ bs[b] \in Seq(S)
         /\ Offset(bs, b) \in Nat /\ Len(bs[b]) \in Nat
         /\ Offset(bs, b + 1) = Offset(bs, b) + Len(bs[b])
<1>1. bs[b] \in Seq(S) /\ SubSeq(bs, 1, b - 1) \in Seq(Seq(S)) /\ b \in Nat /\ Len(bs) \in Nat
  <2>1. \A i \in 1 .. b - 1 : bs[i] \in Seq(S)
    OBVIOUS
  <2>2. 1 \in Int /\ b - 1 \in Int
    OBVIOUS
  <2>3. SubSeq(bs, 1, b - 1) \in Seq(Seq(S))
    BY ONLY <2>1, <2>2, SubSeqProperties
  <2>. QED
    BY <2>3
<1>2. SubSeq(bs, 1, b) = Append(SubSeq(bs, 1, b - 1), bs[b])
  <2>1. 1 \in 1 .. Len(bs) /\ b \in 1 .. Len(bs)
    OBVIOUS
  <2>2. SubSeq(bs, 1, b) = SubSeq(bs, 1, b - 1) \o <<bs[b]>>
    BY <2>1, SubSeqRecursiveSecond
  <2>. QED
    BY <1>1, <2>2, AppendIsConcat
<1>3. Table!FlattenSeq(SubSeq(bs, 1, b)) = Table!FlattenSeq(SubSeq(bs, 1, b - 1)) \o bs[b]
  BY <1>1, <1>2, FlattenAppend
<1>4. Table!FlattenSeq(SubSeq(bs, 1, b - 1)) \in Seq(S)
  BY <1>1, FlattenType
<1>5. (b + 1) - 1 = b
  OBVIOUS
<1>6. Len(Table!FlattenSeq(SubSeq(bs, 1, b))) =
        Len(Table!FlattenSeq(SubSeq(bs, 1, b - 1))) + Len(bs[b])
  BY <1>1, <1>3, <1>4, ConcatProperties
<1>. QED
  BY <1>1, <1>3, <1>4, <1>5, <1>6, LenProperties DEF Offset

\* The entries of a block come in front of those of every later block.
LEMMA OffsetsAscend ==
  ASSUME NEW S, NEW bs \in Seq(Seq(S)), NEW b \in 1 .. Len(bs), NEW c \in b + 1 .. Len(bs) + 1
  PROVE  /\ Offset(bs, c) \in Nat
         /\ Offset(bs, b) + Len(bs[b]) <= Offset(bs, c)
<1>. DEFINE P == {d \in 1 .. Len(bs) :
                    d >= b => /\ Offset(bs, d + 1) \in Nat
                              /\ Offset(bs, b) + Len(bs[b]) <= Offset(bs, d + 1)}
<1>0. Len(bs) \in Nat /\ b \in Nat /\ c \in Nat
  OBVIOUS
<1>1. \A d \in 1 .. Len(bs) : /\ Offset(bs, d) \in Nat /\ Len(bs[d]) \in Nat
                              /\ Offset(bs, d + 1) = Offset(bs, d) + Len(bs[d])
  BY PrefixStep
<1>2. 1 \in P
  BY <1>0, <1>1
<1>3. ASSUME NEW d \in 1 .. Len(bs) - 1, d \in P
      PROVE  d + 1 \in P
  <2>1. d + 1 \in 1 .. Len(bs)
    OBVIOUS
  <2>2. CASE d >= b
    <3>1. /\ Offset(bs, d + 1) \in Nat
          /\ Offset(bs, b) + Len(bs[b]) <= Offset(bs, d + 1)
      BY <1>3, <2>2
    <3>2. /\ Len(bs[d + 1]) \in Nat /\ Offset(bs, b) \in Nat /\ Len(bs[b]) \in Nat
          /\ Offset(bs, (d + 1) + 1) = Offset(bs, d + 1) + Len(bs[d + 1])
      BY <1>1, <2>1
    <3>3. /\ Offset(bs, (d + 1) + 1) \in Nat
          /\ Offset(bs, b) + Len(bs[b]) <= Offset(bs, (d + 1) + 1)
      <4>. DEFINE o == Offset(bs, b)
                  l == Len(bs[b])
                  q == Offset(bs, d + 1)
                  r == Offset(bs, (d + 1) + 1)
                  g == Len(bs[d + 1])
      <4>1. o \in Nat /\ l \in Nat /\ q \in Nat /\ g \in Nat /\ r = q + g /\ o + l <= q
        BY <3>1, <3>2
      <4>. HIDE DEF o, l, q, r, g
      <4>2. r \in Nat /\ o + l <= r
        BY <4>1
      <4>. QED
        BY <4>2 DEF o, l, r
    <3>. QED
      BY <2>1, <3>3
  <2>3. CASE d + 1 = b
    BY <1>0, <1>1, <2>1, <2>3
  <2>4. CASE d + 1 < b
    BY <1>0, <2>1, <2>4
  <2>. QED
    BY <1>0, <2>2, <2>3, <2>4
<1>4. \A d \in 1 .. Len(bs) : d \in P
  <2>. HIDE DEF P
  <2>. QED
    BY <1>0, <1>2, <1>3, UpwardInduction
<1>5. c - 1 \in 1 .. Len(bs) /\ c - 1 >= b /\ (c - 1) + 1 = c
  BY <1>0
<1>. QED
  BY <1>4, <1>5

\* The flat sequence has entry i of block b at its place ...
LEMMA FlattenHas ==
  ASSUME NEW S, NEW bs \in Seq(Seq(S)), NEW b \in 1 .. Len(bs), NEW i \in 1 .. Len(bs[b])
  PROVE  /\ Offset(bs, b) + i \in 1 .. Len(Table!FlattenSeq(bs))
         /\ Table!FlattenSeq(bs)[Offset(bs, b) + i] = bs[b][i]
<1>. DEFINE at == Offset(bs, b) + i
            F(d) == Table!FlattenSeq(SubSeq(bs, 1, d))
            P == {d \in 1 .. Len(bs) : d >= b => at \in 1 .. Len(F(d)) /\ F(d)[at] = bs[b][i]}
<1>0. Len(bs) \in Nat /\ b \in Nat /\ bs[b] \in Seq(S) /\ i \in Nat
  OBVIOUS
<1>1. \A d \in 1 .. Len(bs) : /\ F(d) = F(d - 1) \o bs[d]
                              /\ F(d - 1) \in Seq(S) /\ bs[d] \in Seq(S)
                              /\ Offset(bs, d) = Len(F(d - 1)) /\ Offset(bs, d) \in Nat
                              /\ Len(bs[d]) \in Nat
  BY PrefixStep DEF Offset
<1>. HIDE DEF F
<1>2. ASSUME NEW d \in 1 .. Len(bs)
      PROVE  /\ Len(F(d)) = Len(F(d - 1)) + Len(bs[d])
             /\ \A j \in 1 .. Len(F(d - 1)) + Len(bs[d]) :
                  F(d)[j] = IF j <= Len(F(d - 1)) THEN F(d - 1)[j] ELSE bs[d][j - Len(F(d - 1))]
  <2>. DEFINE u == F(d - 1)
              v == bs[d]
  <2>1. F(d) = u \o v /\ u \in Seq(S) /\ v \in Seq(S)
    BY <1>1
  <2>. HIDE DEF u, v
  <2>2. /\ Len(u \o v) = Len(u) + Len(v)
        /\ \A j \in 1 .. Len(u) + Len(v) : (u \o v)[j] = IF j <= Len(u) THEN u[j] ELSE v[j - Len(u)]
    BY <2>1, ConcatProperties
  <2>. QED
    BY <2>1, <2>2 DEF u, v
<1>3. ASSUME NEW d \in 1 .. Len(bs), d = b
      PROVE  d \in P
  <2>1. at \in 1 .. Len(F(d - 1)) + Len(bs[d]) /\ ~(at <= Len(F(d - 1))) /\ at - Len(F(d - 1)) = i
    <3>1. /\ at = Len(F(d - 1)) + i /\ Len(F(d - 1)) \in Nat
          /\ Len(bs[d]) \in Nat /\ i \in 1 .. Len(bs[d])
      BY <1>1, <1>3
    <3>. HIDE DEF at
    <3>. QED
      BY <3>1
  <2>2. Len(F(d)) = Len(F(d - 1)) + Len(bs[d]) /\ F(d)[at] = bs[d][i]
    <3>. HIDE DEF at
    <3>. QED
      BY <1>2, <2>1
  <2>. QED
    BY <1>3, <2>1, <2>2
<1>4. 1 \in P
  <2>1. 1 \in 1 .. Len(bs) /\ (1 >= b => b = 1)
    BY <1>0
  <2>2. CASE b = 1
    BY <1>3, <2>1, <2>2
  <2>3. CASE b # 1
    BY <2>1, <2>3
  <2>. QED
    BY <2>2, <2>3
<1>5. ASSUME NEW d \in 1 .. Len(bs) - 1, d \in P
      PROVE  d + 1 \in P
  <2>1. d + 1 \in 1 .. Len(bs) /\ (d + 1) - 1 = d
    OBVIOUS
  <2>2. CASE d >= b
    <3>1. at \in 1 .. Len(F(d)) /\ F(d)[at] = bs[b][i]
      BY <1>5, <2>2
    <3>2. F(d) \in Seq(S) /\ Len(F(d)) \in Nat /\ Len(bs[d + 1]) \in Nat
      BY <1>1, <2>1
    <3>3. Len(F(d + 1)) = Len(F(d)) + Len(bs[d + 1])
      BY <1>2, <2>1
    <3>4. at \in 1 .. Len(F(d)) + Len(bs[d + 1]) /\ at <= Len(F(d))
      <4>. HIDE DEF at
      <4>. QED
        BY <3>1, <3>2
    <3>5. F(d + 1)[at] = F(d)[at]
      <4>. HIDE DEF at
      <4>. QED
        BY <1>2, <2>1, <3>4
    <3>. QED
      BY <2>1, <3>1, <3>3, <3>4, <3>5
  <2>3. CASE d + 1 = b
    BY <1>3, <2>1, <2>3
  <2>4. CASE d + 1 < b
    BY <1>0, <2>1, <2>4
  <2>. QED
    BY <1>0, <2>2, <2>3, <2>4
<1>6. \A d \in 1 .. Len(bs) : d \in P
  <2>. HIDE DEF P
  <2>. QED
    BY <1>0, <1>4, <1>5, UpwardInduction
<1>7. F(Len(bs)) = Table!FlattenSeq(bs) /\ Len(bs) \in 1 .. Len(bs) /\ Len(bs) >= b
  <2>1. SubSeq(bs, 1, Len(bs)) = bs
    BY SubSeqFull
  <2>2. Len(bs) \in 1 .. Len(bs) /\ Len(bs) >= b
    BY <1>0
  <2>. QED
    BY <2>1, <2>2, Zenon DEF F
<1>8. at \in 1 .. Len(F(Len(bs))) /\ F(Len(bs))[at] = bs[b][i]
  BY <1>6, <1>7
<1>. QED
  BY <1>7, <1>8

\* ... and no others.
LEMMA FlattenOnly ==
  ASSUME NEW S, NEW bs \in Seq(Seq(S)), NEW j \in 1 .. Len(Table!FlattenSeq(bs))
  PROVE  \E b \in 1 .. Len(bs) : \E i \in 1 .. Len(bs[b]) : j = Offset(bs, b) + i
<1>. DEFINE F(d) == Table!FlattenSeq(SubSeq(bs, 1, d))
            Has(d, m) == \E b \in 1 .. d : \E i \in 1 .. Len(bs[b]) : m = Offset(bs, b) + i
            P == {d \in 1 .. Len(bs) : \A m \in 1 .. Len(F(d)) : Has(d, m)}
<1>0. Len(bs) \in Nat
  OBVIOUS
<1>1. \A d \in 1 .. Len(bs) : /\ F(d) = F(d - 1) \o bs[d]
                              /\ F(d - 1) \in Seq(S) /\ bs[d] \in Seq(S)
                              /\ Offset(bs, d) = Len(F(d - 1)) /\ Offset(bs, d) \in Nat
                              /\ Len(bs[d]) \in Nat
  BY PrefixStep DEF Offset
<1>2. Len(F(0)) = 0
  <2>1. SubSeq(bs, 1, 0) = <<>> /\ <<>> \in Seq(Seq(S))
    BY SubSeqEmpty
  <2>2. Table!FlattenSeq(<<>>) = <<>>
    BY <2>1, FlattenType
  <2>3. F(0) = <<>>
    BY <2>1, <2>2, Zenon
  <2>. QED
    BY <2>3
<1>. HIDE DEF F
<1>3. ASSUME NEW d \in 1 .. Len(bs), NEW m \in 1 .. Len(F(d))
      PROVE  m \in 1 .. Len(F(d - 1)) \/ Has(d, m)
  <2>1. Len(F(d)) = Len(F(d - 1)) + Len(bs[d])
    BY <1>1, ConcatProperties
  <2>2. CASE m <= Len(F(d - 1))
    BY <1>1, <2>2
  <2>3. CASE ~(m <= Len(F(d - 1)))
    <3>. DEFINE o == Offset(bs, d)
                l == Len(bs[d])
                all == Len(F(d))
    <3>0. o \in Nat /\ l \in Nat /\ all = o + l /\ ~(m <= o) /\ m \in 1 .. all
      BY <1>1, <2>1, <2>3
    <3>. HIDE DEF o, l, all
    <3>1. m - o \in 1 .. l /\ m = o + (m - o)
      BY <3>0
    <3>2. d \in 1 .. d
      OBVIOUS
    <3>. QED
      BY <3>1, <3>2 DEF o, l
  <2>. QED
    BY <2>2, <2>3
<1>4. Len(bs) > 0 => 1 \in P
  <2>1. ASSUME Len(bs) > 0, NEW m \in 1 .. Len(F(1))
        PROVE  Has(1, m)
    <3>1. 1 \in 1 .. Len(bs) /\ 1 - 1 = 0
      BY <1>0, <2>1
    <3>2. m \in 1 .. Len(F(0)) \/ Has(1, m)
      <4>. HIDE DEF Has
      <4>. QED
        BY <1>3, <3>1
    <3>. QED
      BY <1>2, <3>2
  <2>. QED
    BY <1>0, <2>1
<1>5. ASSUME NEW d \in 1 .. Len(bs) - 1, d \in P
      PROVE  d + 1 \in P
  <2>1. d + 1 \in 1 .. Len(bs) /\ (d + 1) - 1 = d
    OBVIOUS
  <2>2. ASSUME NEW m \in 1 .. Len(F(d + 1))
        PROVE  Has(d + 1, m)
    <3>1. m \in 1 .. Len(F(d)) \/ Has(d + 1, m)
      <4>. HIDE DEF Has
      <4>. QED
        BY <1>3, <2>1
    <3>2. ASSUME Has(d, m)
          PROVE  Has(d + 1, m)
      BY <3>2
    <3>. QED
      BY <1>5, <3>1, <3>2
  <2>. QED
    BY <2>1, <2>2
<1>6. \A d \in 1 .. Len(bs) : d \in P
  <2>. HIDE DEF P
  <2>. QED
    BY <1>0, <1>4, <1>5, UpwardInduction
<1>7. CASE Len(bs) = 0
  <2>1. Len(Table!FlattenSeq(bs)) = 0
    <3>1. bs = <<>>
      BY <1>7
    <3>2. Table!FlattenSeq(bs) = <<>>
      BY <3>1, FlattenType
    <3>. QED
      BY <3>2
  <2>. QED
    BY <2>1
<1>8. CASE Len(bs) # 0
  <2>1. F(Len(bs)) = Table!FlattenSeq(bs) /\ Len(bs) \in 1 .. Len(bs)
    <3>1. SubSeq(bs, 1, Len(bs)) = bs
      BY SubSeqFull
    <3>2. Len(bs) \in 1 .. Len(bs)
      BY <1>0, <1>8
    <3>. QED
      BY <3>1, <3>2, Zenon DEF F
  <2>2. \A m \in 1 .. Len(F(Len(bs))) : Has(Len(bs), m)
    BY <1>6, <2>1
  <2>. QED
    BY <2>1, <2>2
<1>. QED
  BY <1>7, <1>8

-----------------------------------------------------------------------------
(* The walk of Flush over the memtable *)

Walked == List!Level(1)

\* The walk begins at the first node, goes from each node to the next, comes by
\* every node and by keys in ascending order.
WalkComplete ==
  /\ IsPath(Walked, FirstNode, 1)
  /\ Walked \in Seq(DOMAIN entry)
  /\ \A j \in 1 .. Len(Walked) - 1 : entry[Walked[j]].key < entry[Walked[j + 1]].key
  /\ {Walked[j] : j \in DOMAIN Walked} = DOMAIN entry

\* That is so in every good state.
LEMMA WalkIsComplete == MemInv => WalkComplete
<1>1. ASSUME MemInv
      PROVE  WalkComplete
  <2>1. /\ IsPath(Walked, forward[List!head][1], 1)
        /\ Walked \in Seq(DOMAIN entry)
        /\ \A j \in 1 .. Len(Walked) - 1 : entry[Walked[j]].key < entry[Walked[j + 1]].key
        /\ {Walked[j] : j \in DOMAIN Walked} = List!OnLevel(1) \ {List!head}
    BY <1>1, LowestLevel, LevelLists DEF MemInv, Walked
  <2>2. List!OnLevel(1) \ {List!head} = DOMAIN entry
    BY <1>1, LowestLevel DEF MemInv
  <2>. QED
    BY <2>1, <2>2 DEF WalkComplete, FirstNode
<1>. QED
  BY <1>1

\* ... and behind every step.
LEMMA WalkIsCompleteNext == MemInv' => WalkComplete'
BY WalkIsComplete, PTL

\* A step that leaves the memtable alone leaves the walk alone.
LEMMA WalkStutter ==
  ASSUME MemInv, UNCHANGED memtable
  PROVE  Walked' = Walked /\ FirstNode' = FirstNode
<1>1. WalkComplete /\ WalkComplete'
  BY MemtableStutter, WalkIsComplete, WalkIsCompleteNext
<1>2. FirstNode' = FirstNode /\ List!OnLevel(1)' = List!OnLevel(1) /\ forward' = forward
  BY DEF FirstNode, memtable, List!OnLevel
<1>3. IsPath(Walked, FirstNode, 1) /\ IsPath(Walked', FirstNode, 1)
  BY <1>1, <1>2 DEF WalkComplete, IsPath
<1>4. 1 \in List!Levels /\ FirstNode \in List!OnLevel(1) \cup {List!Nil}
  <2>1. 1 \in List!Levels /\ List!head \in List!OnLevel(1)
    BY LowestLevel, Nodes DEF MemInv
  <2>. QED
    BY <2>1, NextBehind DEF MemInv, FirstNode
<1>5. Walked' = Walked
  BY <1>3, <1>4, PathExists DEF MemInv
<1>. QED
  BY <1>2, <1>5

-----------------------------------------------------------------------------
(* What the calls of the builder do to the file *)

\* The index has the last key of each block.
IndexMatches ==
  \A b \in DOMAIN blocks : index_entries[b] = blocks[b][Len(blocks[b])].key

\* What every step of the builder keeps
TableGood == Table!TypeOK /\ IndexMatches

\* The parts of a file that the builder has under way
LEMMA TableParts ==
  ASSUME Table!TypeOK
  PROVE  /\ blocks \in Seq(Seq(Table!Entries)) /\ Len(blocks) \in Nat
         /\ DOMAIN blocks = 1 .. Len(blocks)
         /\ \A b \in 1 .. Len(blocks) :
              /\ blocks[b] \in Seq(Table!Entries) /\ Len(blocks[b]) \in Nat \ {0}
              /\ DOMAIN blocks[b] = 1 .. Len(blocks[b])
         /\ data_block_buffer \in Seq(Table!Entries)
         /\ Table!FlattenSeq(blocks) \in Seq(Table!Entries)
         /\ Table!Added \in Seq(Table!Entries)
<1>1. /\ blocks \in Seq(Seq(Table!Entries) \ {<<>>})
      /\ data_block_buffer \in Seq(Table!Entries)
  BY DEF Table!TypeOK
<1>2. /\ blocks \in Seq(Seq(Table!Entries)) /\ Len(blocks) \in Nat
      /\ DOMAIN blocks = 1 .. Len(blocks)
      /\ \A b \in 1 .. Len(blocks) : blocks[b] \in Seq(Table!Entries) \ {<<>>}
  BY <1>1
<1>3. \A b \in 1 .. Len(blocks) : /\ blocks[b] \in Seq(Table!Entries)
                                 /\ Len(blocks[b]) \in Nat \ {0}
                                 /\ DOMAIN blocks[b] = 1 .. Len(blocks[b])
  BY <1>2, EmptySeq
<1>4. Table!FlattenSeq(blocks) \in Seq(Table!Entries)
  BY <1>2, FlattenType
<1>5. Table!Added \in Seq(Table!Entries)
  BY <1>1, <1>4, ConcatProperties DEF Table!Added
<1>. QED
  BY <1>1, <1>2, <1>3, <1>4, <1>5

\* A block that is written comes behind the others, its last key into the index.
LEMMA BlockIsWritten ==
  ASSUME TableGood, NEW buffer \in Seq(Table!Entries), buffer # <<>>, Table!WriteBlock(buffer)
  PROVE  /\ blocks' \in Seq(Seq(Table!Entries) \ {<<>>})
         /\ index_entries' \in Seq(Keys) /\ Len(index_entries') = Len(blocks')
         /\ IndexMatches'
         /\ data_block_buffer' = <<>>
         /\ DOMAIN blocks \subseteq DOMAIN blocks'
         /\ Table!Added' = Table!FlattenSeq(blocks) \o buffer
<1>1. /\ blocks' = Append(blocks, buffer)
      /\ index_entries' = Append(index_entries, buffer[Len(buffer)].key)
      /\ data_block_buffer' = <<>>
  BY DEF Table!WriteBlock, Table!Written, Table!LastKey, Table!Last
<1>2. /\ blocks \in Seq(Seq(Table!Entries) \ {<<>>}) /\ index_entries \in Seq(Keys)
      /\ Len(index_entries) = Len(blocks) /\ Len(blocks) \in Nat
  BY DEF TableGood, Table!TypeOK
<1>3. buffer[Len(buffer)].key \in Keys
  <2>1. Len(buffer) \in 1 .. Len(buffer)
    BY EmptySeq
  <2>2. buffer[Len(buffer)] \in Table!Entries
    BY <2>1
  <2>. QED
    BY <2>2 DEF Table!Entries
<1>4. buffer \in Seq(Table!Entries) \ {<<>>}
  OBVIOUS
<1>5. /\ blocks' \in Seq(Seq(Table!Entries) \ {<<>>})
      /\ index_entries' \in Seq(Keys) /\ Len(index_entries') = Len(blocks')
      /\ DOMAIN blocks' = 1 .. Len(blocks) + 1 /\ DOMAIN blocks = 1 .. Len(blocks)
  BY <1>1, <1>2, <1>3, <1>4
<1>6. IndexMatches'
  <2>1. \A b \in 1 .. Len(blocks) : blocks'[b] = blocks[b] /\ index_entries'[b] = index_entries[b]
    BY <1>1, <1>2
  <2>2. /\ blocks'[Len(blocks) + 1] = buffer
        /\ index_entries'[Len(blocks) + 1] = buffer[Len(buffer)].key
    BY <1>1, <1>2
  <2>3. \A b \in 1 .. Len(blocks) : index_entries[b] = blocks[b][Len(blocks[b])].key
    BY <1>5 DEF TableGood, IndexMatches
  <2>4. ASSUME NEW b \in DOMAIN blocks'
        PROVE  index_entries'[b] = blocks'[b][Len(blocks'[b])].key
    <3>1. b \in 1 .. Len(blocks) \/ b = Len(blocks) + 1
      BY <1>2, <1>5
    <3>2. CASE b \in 1 .. Len(blocks)
      BY <2>1, <2>3, <3>2
    <3>3. CASE b = Len(blocks) + 1
      BY <2>2, <3>3
    <3>. QED
      BY <3>1, <3>2, <3>3
  <2>. QED
    BY <2>4 DEF IndexMatches
<1>7. Table!Added' = Table!FlattenSeq(blocks) \o buffer
  <2>1. blocks \in Seq(Seq(Table!Entries))
    BY TableParts DEF TableGood
  <2>2. Table!FlattenSeq(blocks') = Table!FlattenSeq(blocks) \o buffer
    BY <1>1, <2>1, FlattenAppend
  <2>3. Table!FlattenSeq(blocks) \o buffer \in Seq(Table!Entries)
    BY <2>1, FlattenType, ConcatProperties
  <2>. QED
    BY <1>1, <2>2, <2>3, ConcatEmptySeq DEF Table!Added
<1>. QED
  BY <1>1, <1>5, <1>6, <1>7

\* Whether a write fails or not, an entry that is added comes behind the others.
LEMMA AddAppends ==
  ASSUME TableGood, NEW e \in Table!Entries, Table!Add(e), it = Table!Invalid, damaged = {}
  PROVE  /\ TableGood'
         /\ Table!Added' = Append(Table!Added, e)
         /\ file' \in {"building", "threw", "torn"}
         /\ it' = it /\ damaged' = damaged
<1>. DEFINE buffer == Append(data_block_buffer, e)
<1>1. /\ buffer \in Seq(Table!Entries) /\ buffer # <<>>
      /\ data_block_buffer \in Seq(Table!Entries)
      /\ Table!FlattenSeq(blocks) \in Seq(Table!Entries)
      /\ blocks \in Seq(Seq(Table!Entries) \ {<<>>})
      /\ index_entries \in Seq(Keys) /\ Len(index_entries) = Len(blocks)
  <2>1. data_block_buffer \in Seq(Table!Entries)
    BY DEF TableGood, Table!TypeOK
  <2>2. buffer \in Seq(Table!Entries) /\ buffer # <<>>
    BY <2>1, AppendProperties
  <2>. HIDE DEF buffer
  <2>. QED
    BY <2>1, <2>2, TableParts DEF TableGood, Table!TypeOK
<1>2. Table!FlattenSeq(blocks) \o buffer = Append(Table!Added, e)
  <2>. DEFINE F == Table!FlattenSeq(blocks)
  <2>1. F \in Seq(Table!Entries)
    BY <1>1
  <2>. HIDE DEF F
  <2>2. F \o Append(data_block_buffer, e) = Append(F \o data_block_buffer, e)
    BY <1>1, <2>1
  <2>. QED
    BY <2>2 DEF F, Table!Added
<1>3. it' = it /\ damaged' = damaged /\ file = "building"
  BY DEF Table!Add
<1>4. \/ UNCHANGED <<blocks, index_entries>> /\ data_block_buffer' = buffer
      \/ Table!WriteBlock(buffer)
  BY DEF Table!Add, Table!WriteBlockThrows
<1>5. file' \in {"building", "threw", "torn"}
  BY <1>3 DEF Table!Add, Table!WriteBlockThrows
<1>. HIDE DEF buffer
<1>6. CASE UNCHANGED <<blocks, index_entries>> /\ data_block_buffer' = buffer
  <2>1. Table!TypeOK'
    BY <1>1, <1>3, <1>5, <1>6 DEF Table!TypeOK
  <2>2. IndexMatches'
    BY <1>6 DEF TableGood, IndexMatches
  <2>3. Table!Added' = Append(Table!Added, e)
    <3>1. Table!Added' = Table!FlattenSeq(blocks') \o buffer
      BY <1>6 DEF Table!Added
    <3>2. blocks' = blocks
      BY <1>6
    <3>. QED
      BY <1>2, <3>1, <3>2
  <2>. QED
    BY <1>3, <1>5, <2>1, <2>2, <2>3 DEF TableGood
<1>7. CASE Table!WriteBlock(buffer)
  <2>1. /\ blocks' \in Seq(Seq(Table!Entries) \ {<<>>})
        /\ index_entries' \in Seq(Keys) /\ Len(index_entries') = Len(blocks')
        /\ IndexMatches' /\ data_block_buffer' = <<>>
        /\ Table!Added' = Table!FlattenSeq(blocks) \o buffer
    BY <1>1, <1>7, BlockIsWritten
  <2>2. Table!TypeOK'
    BY <1>3, <1>5, <2>1 DEF Table!TypeOK
  <2>. QED
    BY <1>2, <1>3, <1>5, <2>1, <2>2 DEF TableGood
<1>. QED
  BY <1>4, <1>6, <1>7

\* Finish and the destructor, which calls it again, lose nothing and add nothing;
\* a file that opens has all its entries in its blocks.
LEMMA FinishKeepsEntries ==
  ASSUME TableGood, Table!Finish \/ Table!Destroy, it = Table!Invalid, damaged = {}
  PROVE  /\ TableGood'
         /\ Table!Added' = Table!Added
         /\ file' \in {"complete", "broken", "threw", "torn"}
         /\ Table!Destroy => file' \in {"complete", "broken"}
         /\ file' = "complete" => data_block_buffer' = <<>>
         /\ it' = it /\ damaged' = damaged
<1>1. /\ data_block_buffer \in Seq(Table!Entries)
      /\ Table!FlattenSeq(blocks) \in Seq(Table!Entries)
      /\ blocks \in Seq(Seq(Table!Entries) \ {<<>>})
      /\ index_entries \in Seq(Keys) /\ Len(index_entries) = Len(blocks)
  BY TableParts DEF TableGood, Table!TypeOK
<1>2. /\ it' = it /\ damaged' = damaged
      /\ file' \in {"complete", "broken", "threw", "torn"}
      /\ Table!Destroy => file' \in {"complete", "broken"}
  BY DEF Table!Finish, Table!Destroy, Table!Completed, Table!WriteBlockThrows
<1>3. \/ /\ UNCHANGED <<data_block_buffer, blocks, index_entries>>
         /\ file' = "complete" => data_block_buffer = <<>>
      \/ data_block_buffer # <<>> /\ Table!WriteBlock(data_block_buffer)
  BY DEF Table!Finish, Table!Destroy, Table!Rest, Table!WriteBlockThrows
<1>4. CASE /\ UNCHANGED <<data_block_buffer, blocks, index_entries>>
           /\ file' = "complete" => data_block_buffer = <<>>
  <2>1. Table!TypeOK'
    BY <1>1, <1>2, <1>4 DEF Table!TypeOK
  <2>2. IndexMatches'
    BY <1>4 DEF TableGood, IndexMatches
  <2>3. Table!Added' = Table!Added
    <3>1. Table!Added' = Table!FlattenSeq(blocks') \o data_block_buffer'
      BY DEF Table!Added
    <3>. QED
      BY <1>4, <3>1 DEF Table!Added
  <2>. QED
    BY <1>2, <1>4, <2>1, <2>2, <2>3 DEF TableGood
<1>5. CASE data_block_buffer # <<>> /\ Table!WriteBlock(data_block_buffer)
  <2>1. /\ blocks' \in Seq(Seq(Table!Entries) \ {<<>>})
        /\ index_entries' \in Seq(Keys) /\ Len(index_entries') = Len(blocks')
        /\ IndexMatches' /\ data_block_buffer' = <<>>
        /\ Table!Added' = Table!FlattenSeq(blocks) \o data_block_buffer
    BY <1>1, <1>5, BlockIsWritten
  <2>2. Table!TypeOK'
    BY <1>2, <2>1 DEF Table!TypeOK
  <2>. QED
    BY <1>2, <2>1, <2>2 DEF TableGood, Table!Added
<1>. QED
  BY <1>3, <1>4, <1>5

-----------------------------------------------------------------------------
(* The inductive invariant *)

\* A builder exists, inside Flush.
UnderWay == file \in {"building", "threw", "torn"}

\* The entries come in ascending order of their keys.
KeysAscend ==
  \A i, j \in 1 .. Len(Table!Added) : i < j => Table!Added[i].key < Table!Added[j].key

\* The builder has the entries of the nodes that the walk has come by, and the
\* cursor is at the node behind these.
HandedOver ==
  LET n == Len(Table!Added)
  IN  /\ n <= Len(Walked)
      /\ \A j \in 1 .. n : Table!Added[j] = entry[Walked[j]]
      /\ cursor = IF n < Len(Walked) THEN Walked[n + 1] ELSE List!Nil

FileInv ==
  /\ TableGood
  /\ cursor \in DOMAIN entry \cup {List!Nil}
  /\ KeysAscend
  /\ UnderWay => HandedOver
  /\ ~UnderWay => cursor = List!Nil
  /\ file # "complete" => damaged = {} /\ it = Table!Invalid
  /\ file = "complete" => data_block_buffer = <<>>

\* A file without entries is good, before and behind a call of Create.
LEMMA FreshTable ==
  ASSUME Table!Create
  PROVE  TableGood' /\ Table!Added' = <<>> /\ KeysAscend'
<1>1. /\ data_block_buffer' = <<>> /\ blocks' = <<>> /\ index_entries' = <<>>
      /\ file' = "building" /\ damaged' = {} /\ it' = Table!Invalid
  BY DEF Table!Create, Table!Fresh
<1>2. TableGood'
  BY <1>1 DEF TableGood, IndexMatches, Table!TypeOK
<1>3. Table!FlattenSeq(<<>>) = <<>>
  <2>1. <<>> \in Seq(Seq(Table!Entries))
    OBVIOUS
  <2>. QED
    BY <2>1, FlattenType
<1>4. Table!Added' = <<>>
  <2>1. Table!Added' = Table!FlattenSeq(blocks') \o data_block_buffer'
    BY DEF Table!Added
  <2>2. <<>> \o <<>> = <<>>
    BY ConcatEmptySeq
  <2>. QED
    BY <1>1, <1>3, <2>1, <2>2
<1>5. KeysAscend'
  BY <1>4 DEF KeysAscend
<1>. QED
  BY <1>2, <1>4, <1>5

\* So is the state before any flush.
LEMMA FileInit ==
  ASSUME Init
  PROVE  FileInv
<1>1. /\ data_block_buffer = <<>> /\ blocks = <<>> /\ index_entries = <<>>
      /\ file = "none" /\ damaged = {} /\ it = Table!Invalid /\ cursor = List!Nil
  BY DEF Init, Table!Init
<1>2. TableGood
  BY <1>1 DEF TableGood, IndexMatches, Table!TypeOK
<1>3. Table!FlattenSeq(<<>>) = <<>>
  <2>1. <<>> \in Seq(Seq(Table!Entries))
    OBVIOUS
  <2>. QED
    BY <2>1, FlattenType
<1>4. Table!Added = <<>>
  <2>1. <<>> \o <<>> = <<>>
    BY ConcatEmptySeq
  <2>. QED
    BY <1>1, <1>3, <2>1 DEF Table!Added
<1>5. KeysAscend
  BY <1>4 DEF KeysAscend
<1>. QED
  BY <1>1, <1>2, <1>5 DEF FileInv, UnderWay

\* A flush begins at the first node.
LEMMA FlushBeginKeeps ==
  ASSUME MemInv, FileInv, FlushBegin
  PROVE  FileInv'
<1>1. Table!Create /\ UNCHANGED memtable /\ cursor' = FirstNode /\ FirstNode # List!Nil
  BY DEF FlushBegin
<1>2. TableGood' /\ Table!Added' = <<>> /\ KeysAscend'
  BY <1>1, FreshTable
<1>3. /\ WalkComplete /\ Walked' = Walked /\ entry' = entry
  BY <1>1, WalkIsComplete, WalkStutter DEF memtable
<1>4. /\ Len(Walked) > 0 /\ Walked[1] = FirstNode /\ FirstNode \in DOMAIN entry
  <2>1. Walked # <<>> /\ Walked[1] = FirstNode
    BY <1>1, <1>3 DEF WalkComplete, IsPath
  <2>2. Len(Walked) > 0
    BY <1>3, <2>1 DEF WalkComplete
  <2>3. Walked[1] \in DOMAIN entry
    BY <1>3, <2>2 DEF WalkComplete
  <2>. QED
    BY <2>1, <2>2, <2>3
<1>5. HandedOver'
  <2>1. Len(<<>>) = 0
    OBVIOUS
  <2>. QED
    BY <1>1, <1>2, <1>3, <1>4, <2>1 DEF HandedOver
<1>6. file' = "building" /\ damaged' = {} /\ it' = Table!Invalid
  BY <1>1 DEF Table!Create, Table!Fresh
<1>. QED
  BY <1>1, <1>2, <1>3, <1>4, <1>5, <1>6 DEF FileInv, UnderWay, Table!Invalid

\* An entry is handed over and the cursor goes on, also if the write throws.
LEMMA FlushAddKeeps ==
  ASSUME MemInv, FileInv, FlushAdd
  PROVE  FileInv'
<1>. DEFINE n == Len(Table!Added)
            e == entry[cursor]
<1>1. /\ cursor # List!Nil /\ Table!Add(e) /\ cursor' = forward[cursor][1]
      /\ UNCHANGED memtable /\ file = "building"
  BY DEF FlushAdd, Table!Add
<1>2. /\ TableGood /\ cursor \in DOMAIN entry /\ KeysAscend /\ HandedOver
      /\ damaged = {} /\ it = Table!Invalid
  BY <1>1 DEF FileInv, UnderWay
<1>3. e \in Table!Entries
  BY <1>2 DEF MemInv, List!TypeOK, Table!Entries
<1>4. /\ TableGood' /\ Table!Added' = Append(Table!Added, e)
      /\ file' \in {"building", "threw", "torn"} /\ it' = it /\ damaged' = damaged
  BY <1>1, <1>2, <1>3, AddAppends
<1>5. /\ WalkComplete /\ Walked' = Walked /\ entry' = entry
  BY <1>1, WalkIsComplete, WalkStutter DEF memtable
<1>6. Table!Added \in Seq(Table!Entries) /\ n \in Nat
  BY <1>2, TableParts, LenProperties DEF TableGood
<1>7. /\ Len(Table!Added') = n + 1 /\ Table!Added'[n + 1] = e
      /\ \A j \in 1 .. n : Table!Added'[j] = Table!Added[j]
  BY <1>3, <1>4, <1>6, AppendProperties
<1>8. /\ Walked \in Seq(DOMAIN entry) /\ Len(Walked) \in Nat
      /\ \A j \in 1 .. Len(Walked) : Walked[j] \in DOMAIN entry
      /\ \A j \in 1 .. Len(Walked) - 1 : entry[Walked[j]].key < entry[Walked[j + 1]].key
      /\ \A j \in 1 .. Len(Walked) - 1 : Walked[j + 1] = forward[Walked[j]][1]
      /\ Walked # <<>> => forward[Walked[Len(Walked)]][1] = List!Nil
  <2>1. Walked \in Seq(DOMAIN entry)
    BY <1>5 DEF WalkComplete
  <2>. QED
    BY <1>5, <2>1 DEF WalkComplete, IsPath
<1>. HIDE DEF n
<1>9. n < Len(Walked) /\ cursor = Walked[n + 1] /\ \A j \in 1 .. n : Table!Added[j] = entry[Walked[j]]
  BY <1>1, <1>2 DEF HandedOver, n
<1>10. HandedOver'
  <2>1. \A j \in 1 .. n + 1 : Table!Added'[j] = entry[Walked[j]]
    <3>1. ASSUME NEW j \in 1 .. n + 1
          PROVE  Table!Added'[j] = entry[Walked[j]]
      <4>1. j \in 1 .. n \/ j = n + 1
        BY <1>6
      <4>. QED
        BY <1>7, <1>9, <4>1
    <3>. QED
      BY <3>1
  <2>2. n + 1 <= Len(Walked)
    BY <1>6, <1>8, <1>9
  <2>3. cursor' = IF n + 1 < Len(Walked) THEN Walked[(n + 1) + 1] ELSE List!Nil
    <3>1. CASE n + 1 < Len(Walked)
      <4>1. n + 1 \in 1 .. Len(Walked) - 1
        BY <1>6, <1>8, <3>1
      <4>. QED
        BY <1>1, <1>8, <1>9, <3>1, <4>1
    <3>2. CASE ~(n + 1 < Len(Walked))
      <4>1. n + 1 = Len(Walked) /\ Walked # <<>>
        BY <1>6, <1>8, <1>9, <3>2
      <4>. QED
        BY <1>1, <1>8, <1>9, <3>2, <4>1
    <3>. QED
      BY <3>1, <3>2
  <2>. QED
    BY <1>5, <1>7, <2>1, <2>2, <2>3 DEF HandedOver
<1>11. KeysAscend'
  <2>1. \A j \in 1 .. n : Table!Added[j].key \in Int /\ Table!Added[j].key < e.key
    <3>1. ASSUME NEW j \in 1 .. n
          PROVE  Table!Added[j].key \in Int /\ Table!Added[j].key < e.key
      <4>1. n \in 1 .. n /\ n \in 1 .. Len(Walked) - 1 /\ n \in 1 .. Len(Walked) /\ j \in 1 .. Len(Walked)
        BY <1>6, <1>8, <1>9
      <4>2. Table!Added[n].key < e.key
        BY <1>8, <1>9, <4>1
      <4>3. Table!Added[j].key \in Int /\ Table!Added[n].key \in Int /\ e.key \in Int
        BY <1>2, <1>8, <1>9, <4>1, Nodes DEF MemInv
      <4>4. j < n => Table!Added[j].key < Table!Added[n].key
        BY <1>2, <4>1 DEF KeysAscend, n
      <4>5. j < n \/ j = n
        BY <1>6
      <4>. QED
        BY <4>2, <4>3, <4>4, <4>5
    <3>. QED
      BY <3>1
  <2>2. ASSUME NEW i \in 1 .. n + 1, NEW j \in 1 .. n + 1, i < j
        PROVE  Table!Added'[i].key < Table!Added'[j].key
    <3>1. i \in 1 .. n /\ (j \in 1 .. n \/ j = n + 1)
      BY <1>6, <2>2
    <3>2. CASE j \in 1 .. n
      BY <1>2, <1>7, <2>2, <3>1, <3>2 DEF KeysAscend, n
    <3>3. CASE j = n + 1
      BY <1>7, <2>1, <3>1, <3>3
    <3>. QED
      BY <3>1, <3>2, <3>3
  <2>. QED
    BY <1>7, <2>2 DEF KeysAscend
<1>12. cursor' \in DOMAIN entry' \cup {List!Nil}
  <2>1. 1 \in List!Levels /\ cursor \in List!OnLevel(1)
    BY <1>2, LowestLevel DEF MemInv
  <2>. QED
    BY <1>1, <1>5, <2>1, NextBehind DEF MemInv
<1>. QED
  BY <1>2, <1>4, <1>10, <1>11, <1>12 DEF FileInv, UnderWay

\* What says nothing but of file, table and cursor stays true where these stay.
LEMMA TableStutter ==
  ASSUME FileInv, UNCHANGED table
  PROVE  TableGood' /\ Table!Added' = Table!Added /\ KeysAscend'
<1>. USE DEF table
<1>1. Table!TypeOK'
  <2>1. Table!Positions' = Table!Positions
    BY DEF Table!Positions
  <2>. QED
    BY <2>1 DEF FileInv, TableGood, Table!TypeOK
<1>2. IndexMatches'
  BY DEF FileInv, TableGood, IndexMatches
<1>3. Table!Added' = Table!Added
  <2>1. Table!Added' = Table!FlattenSeq(blocks') \o data_block_buffer'
    BY DEF Table!Added
  <2>. QED
    BY <2>1 DEF Table!Added
<1>4. KeysAscend'
  BY <1>3 DEF FileInv, KeysAscend
<1>. QED
  BY <1>1, <1>2, <1>3, <1>4 DEF TableGood

\* The memtable changes only where no builder exists.
LEMMA MemtableCallKeeps ==
  ASSUME MemInv, FileInv, Serving, UNCHANGED <<table, cursor>>
  PROVE  FileInv'
<1>1. TableGood' /\ KeysAscend'
  BY TableStutter
<1>2. cursor' = List!Nil /\ file' = file /\ damaged' = damaged /\ it' = it /\ ~UnderWay'
  BY DEF FileInv, UnderWay, Serving, table
<1>. QED
  BY <1>1, <1>2 DEF FileInv, Serving, UnderWay, Table!Invalid

\* The end of a flush, however it comes, keeps the entries.
LEMMA FlushEndKeeps ==
  ASSUME MemInv, FileInv, FlushEnd
  PROVE  FileInv'
<1>1. /\ cursor = List!Nil /\ cursor' = List!Nil /\ Table!Finish /\ Cleared /\ file = "building"
  BY DEF FlushEnd, Table!Finish
<1>2. TableGood /\ KeysAscend /\ HandedOver /\ damaged = {} /\ it = Table!Invalid
  BY <1>1 DEF FileInv, UnderWay
<1>3. /\ TableGood' /\ Table!Added' = Table!Added
      /\ file' \in {"complete", "broken", "threw", "torn"}
      /\ file' = "complete" => data_block_buffer' = <<>>
      /\ it' = it /\ damaged' = damaged
  BY <1>1, <1>2, FinishKeepsEntries
<1>4. KeysAscend'
  BY <1>2, <1>3 DEF KeysAscend
<1>5. UnderWay' => HandedOver'
  <2>1. ASSUME UnderWay'
        PROVE  HandedOver'
    <3>1. UNCHANGED memtable
      BY <1>1, <2>1 DEF UnderWay, Cleared
    <3>2. Walked' = Walked /\ entry' = entry
      BY <3>1, WalkStutter DEF memtable
    <3>. QED
      BY <1>1, <1>2, <1>3, <3>2 DEF HandedOver
  <2>. QED
    BY <2>1
<1>. QED
  BY <1>1, <1>2, <1>3, <1>4, <1>5 DEF FileInv, UnderWay, Table!Invalid

\* An exception on its way through Flush takes the cursor with it.
LEMMA FlushThrowsKeeps ==
  ASSUME MemInv, FileInv, FlushThrows
  PROVE  FileInv'
<1>1. /\ cursor' = List!Nil /\ Table!Destroy /\ file \in {"threw", "torn"}
  BY DEF FlushThrows, Table!Destroy
<1>2. TableGood /\ KeysAscend /\ damaged = {} /\ it = Table!Invalid
  BY <1>1 DEF FileInv, UnderWay
<1>3. /\ TableGood' /\ Table!Added' = Table!Added
      /\ file' \in {"complete", "broken"}
      /\ file' = "complete" => data_block_buffer' = <<>>
      /\ it' = it /\ damaged' = damaged
  BY <1>1, <1>2, FinishKeepsEntries
<1>4. KeysAscend'
  BY <1>2, <1>3 DEF KeysAscend
<1>. QED
  BY <1>1, <1>2, <1>3, <1>4 DEF FileInv, UnderWay, Table!Invalid

-----------------------------------------------------------------------------
(* The reader *)

\* std::upper_bound finds the first block whose last key is greater, if any.
LEMMA UpperBoundIs ==
  ASSUME Table!TypeOK, NEW k \in Keys
  PROVE  LET u == Table!UpperBound(k)
         IN  /\ u \in 1 .. Table!NumBlocks + 1
             /\ u <= Table!NumBlocks => TextLess(k, index_entries[u])
             /\ \A c \in 1 .. u - 1 : ~TextLess(k, index_entries[c])
<1>. DEFINE N == Table!NumBlocks
            S == {b \in 1 .. N + 1 : b <= N => TextLess(k, index_entries[b])}
<1>1. N \in Nat
  BY DEF Table!TypeOK, Table!NumBlocks
<1>. HIDE DEF N
<1>2. S \in SUBSET Nat /\ S # {}
  <2>1. N + 1 \in S
    BY <1>1
  <2>. QED
    BY <1>1, <2>1
<1>3. PICK b \in S : \A c \in S : b <= c
  <2>. HIDE DEF S
  <2>. QED
    BY <1>2, LeastNatural
<1>4. \A c \in 1 .. b - 1 : ~TextLess(k, index_entries[c])
  <2>1. ASSUME NEW c \in 1 .. b - 1, TextLess(k, index_entries[c])
        PROVE  FALSE
    <3>1. c \in S /\ ~(b <= c)
      BY <1>1, <2>1
    <3>. QED
      BY <1>3, <3>1
  <2>. QED
    BY <2>1
<1>5. /\ b \in 1 .. N + 1
      /\ b <= N => TextLess(k, index_entries[b])
      /\ \A c \in 1 .. b - 1 : ~TextLess(k, index_entries[c])
  BY <1>4
<1>. HIDE DEF S
<1>. QED
  BY <1>5 DEF Table!UpperBound, N

\* The block to search is a block of the file.
LEMMA BlockOfIs ==
  ASSUME Table!TypeOK, NEW k \in Keys, Table!NumBlocks # 0
  PROVE  Table!BlockOf(k) \in 1 .. Len(blocks) /\ Table!NumBlocks = Len(blocks)
<1>1. Table!NumBlocks = Len(blocks) /\ Len(blocks) \in Nat
  BY DEF Table!NumBlocks, Table!TypeOK
<1>2. Table!UpperBound(k) \in 1 .. Table!NumBlocks + 1
  BY UpperBoundIs
<1>. QED
  BY <1>1, <1>2 DEF Table!BlockOf

\* Where the iterator can stand
LEMMA PositionsAre ==
  ASSUME Table!TypeOK
  PROVE  /\ \A b, i : <<b, i>> \in Table!Positions <=> b \in 1 .. Len(blocks) /\ i \in 1 .. Len(blocks[b])
         /\ \A at \in Table!Positions : /\ at = <<at[1], at[2]>>
                                        /\ at[1] \in 1 .. Len(blocks)
                                        /\ at[2] \in 1 .. Len(blocks[at[1]])
<1>1. /\ DOMAIN blocks = 1 .. Len(blocks)
      /\ \A b \in 1 .. Len(blocks) : DOMAIN blocks[b] = 1 .. Len(blocks[b])
  BY TableParts
<1>. QED
  BY <1>1 DEF Table!Positions

\* The first entry of a block, or Invalid
LEMMA FirstOfIs ==
  ASSUME Table!TypeOK, NEW b \in 1 .. Len(blocks) + 1
  PROVE  Table!FirstOf(b) \in Table!Positions \cup {Table!Invalid}
<1>1. Table!NumBlocks = Len(blocks) /\ Len(blocks) \in Nat
  BY DEF Table!NumBlocks, Table!TypeOK
<1>2. CASE b > Table!NumBlocks \/ b \in damaged
  BY <1>2 DEF Table!FirstOf
<1>3. CASE ~(b > Table!NumBlocks \/ b \in damaged)
  <2>1. b \in 1 .. Len(blocks)
    BY <1>1, <1>3
  <2>2. 1 \in 1 .. Len(blocks[b])
    BY <2>1, TableParts
  <2>3. <<b, 1>> \in Table!Positions
    BY <2>1, <2>2, PositionsAre
  <2>. QED
    BY <1>3, <2>3 DEF Table!FirstOf
<1>. QED
  BY <1>2, <1>3

\* Least member of a set of entry numbers
LEMMA LeastEntry ==
  ASSUME NEW S \in SUBSET Nat, S # {}
  PROVE  LET m == CHOOSE i \in S : \A j \in S : i <= j
         IN  m \in S /\ \A j \in S : m <= j
BY LeastNatural

\* Reading moves the iterator from one entry of the file to another or off it.
LEMMA ReadTableKeeps ==
  ASSUME MemInv, FileInv, ReadTable
  PROVE  FileInv'
<1>1. /\ file = "complete" /\ file' = file /\ UNCHANGED <<memtable, cursor>>
      /\ UNCHANGED <<data_block_buffer, blocks, index_entries>>
  BY DEF ReadTable, Table!Seek, Table!SeekToFirst, Table!IteratorNext, Table!Damage
<1>2. TableGood /\ Table!TypeOK /\ KeysAscend /\ cursor = List!Nil /\ data_block_buffer = <<>>
  BY <1>1 DEF FileInv, UnderWay, TableGood
<1>3. /\ it \in Table!Positions \cup {Table!Invalid}
      /\ damaged \subseteq DOMAIN blocks
      /\ Len(blocks) \in Nat /\ Table!NumBlocks = Len(blocks)
  BY <1>2 DEF Table!TypeOK, Table!NumBlocks
<1>4. it' \in Table!Positions \cup {Table!Invalid} /\ damaged' \subseteq DOMAIN blocks
  <2>1. ASSUME NEW k \in Keys, Table!Seek(k)
        PROVE  it' \in Table!Positions \cup {Table!Invalid} /\ damaged' \subseteq DOMAIN blocks
    <3>. DEFINE b == Table!BlockOf(k)
                from == {i \in DOMAIN blocks[b] : Table!AtOrBehind(blocks[b][i], k)}
    <3>1. /\ damaged' = damaged
          /\ it' = IF Table!NumBlocks = 0 \/ b \in damaged THEN Table!Invalid
                   ELSE IF from = {} THEN Table!FirstOf(b + 1)
                   ELSE <<b, CHOOSE i \in from : \A j \in from : i <= j>>
      BY <2>1 DEF Table!Seek
    <3>2. CASE Table!NumBlocks = 0 \/ b \in damaged
      BY <1>3, <3>1, <3>2
    <3>3. CASE ~(Table!NumBlocks = 0 \/ b \in damaged)
      <4>1. b \in 1 .. Len(blocks)
        BY <1>2, <3>3, BlockOfIs
      <4>. HIDE DEF b
      <4>2. b + 1 \in 1 .. Len(blocks) + 1
        BY <1>3, <4>1
      <4>3. CASE from = {}
        BY <1>2, <1>3, <3>1, <3>3, <4>2, <4>3, FirstOfIs
      <4>4. CASE from # {}
        <5>1. DOMAIN blocks[b] = 1 .. Len(blocks[b])
          BY <1>2, <4>1, TableParts
        <5>2. from \in SUBSET Nat
          BY <5>1
        <5>. DEFINE m == CHOOSE i \in from : \A j \in from : i <= j
        <5>3. m \in from
          <6>. HIDE DEF from
          <6>. QED
            BY <4>4, <5>2, LeastEntry
        <5>. HIDE DEF m
        <5>4. <<b, m>> \in Table!Positions
          BY <1>2, <4>1, <5>1, <5>3, PositionsAre
        <5>. QED
          BY <1>3, <3>1, <3>3, <4>4, <5>4 DEF m
      <4>. QED
        BY <4>3, <4>4
    <3>. QED
      BY <3>2, <3>3
  <2>2. CASE Table!SeekToFirst
    <3>1. 1 \in 1 .. Len(blocks) + 1 /\ it' = Table!FirstOf(1) /\ damaged' = damaged
      BY <1>3, <2>2 DEF Table!SeekToFirst
    <3>. QED
      BY <1>2, <1>3, <3>1, FirstOfIs
  <2>3. CASE Table!IteratorNext
    <3>1. it # Table!Invalid /\ it' = Table!Following(it[1], it[2]) /\ damaged' = damaged
      BY <2>3 DEF Table!IteratorNext
    <3>2. it[1] \in 1 .. Len(blocks) /\ it[2] \in 1 .. Len(blocks[it[1]])
      BY <1>2, <1>3, <3>1, PositionsAre
    <3>3. Len(blocks[it[1]]) \in Nat
      BY <1>2, <3>2, TableParts
    <3>4. CASE it[2] < Len(blocks[it[1]])
      <4>1. it[2] + 1 \in 1 .. Len(blocks[it[1]])
        BY <3>2, <3>3, <3>4
      <4>2. <<it[1], it[2] + 1>> \in Table!Positions
        BY <1>2, <3>2, <4>1, PositionsAre
      <4>. QED
        BY <1>3, <3>1, <3>4, <4>2 DEF Table!Following
    <3>5. CASE ~(it[2] < Len(blocks[it[1]]))
      <4>1. it[1] + 1 \in 1 .. Len(blocks) + 1
        BY <1>3, <3>2
      <4>. QED
        BY <1>2, <1>3, <3>1, <3>5, <4>1, FirstOfIs DEF Table!Following
    <3>. QED
      BY <3>4, <3>5
  <2>4. ASSUME NEW b \in DOMAIN blocks, Table!Damage(b)
        PROVE  it' \in Table!Positions \cup {Table!Invalid} /\ damaged' \subseteq DOMAIN blocks
    BY <1>3, <2>4 DEF Table!Damage
  <2>. QED
    BY <2>1, <2>2, <2>3, <2>4 DEF ReadTable
<1>5. Table!Positions' = Table!Positions
  BY <1>1 DEF Table!Positions
<1>6. Table!TypeOK'
  BY <1>1, <1>2, <1>4, <1>5 DEF Table!TypeOK, Table!Invalid
<1>7. IndexMatches'
  BY <1>1, <1>2 DEF TableGood, IndexMatches
<1>8. Table!Added' = Table!Added
  <2>1. Table!Added' = Table!FlattenSeq(blocks') \o data_block_buffer'
    BY DEF Table!Added
  <2>. QED
    BY <1>1, <2>1 DEF Table!Added
<1>9. KeysAscend'
  BY <1>2, <1>8 DEF KeysAscend
<1>. QED
  BY <1>1, <1>2, <1>6, <1>7, <1>9 DEF FileInv, TableGood, UnderWay

\* A step that changes nothing
LEMMA FlushPathStutter ==
  ASSUME MemInv, FileInv, UNCHANGED vars
  PROVE  FileInv'
<1>1. TableGood' /\ Table!Added' = Table!Added /\ KeysAscend'
  BY TableStutter DEF vars
<1>2. Walked' = Walked /\ entry' = entry
  BY WalkStutter DEF vars, memtable
<1>3. UnderWay' => HandedOver'
  BY <1>1, <1>2 DEF FileInv, HandedOver, UnderWay, vars, table
<1>. QED
  BY <1>1, <1>2, <1>3 DEF FileInv, UnderWay, vars, table, Table!Invalid

\* Every step keeps the invariant.
LEMMA FileStep ==
  ASSUME MemInv, FileInv, [Next]_vars
  PROVE  FileInv'
BY MemtableCallKeeps, FlushBeginKeeps, FlushAddKeeps, FlushEndKeeps, FlushThrowsKeeps,
   ReadTableKeeps, FlushPathStutter DEF Next, MemtableInsert, MemtableRemove

\* What the builder has is what the walk has come by, in its order and once each,
\* whatever writes fail.
THEOREM FlushPathInvariant == Spec => [](MemInv /\ FileInv)
<1>1. Init => FileInv
  BY FileInit
<1>2. MemInv /\ FileInv /\ [Next]_vars => FileInv'
  BY FileStep
<1>. QED
  BY <1>1, <1>2, MemtableInvariant, PTL DEF Spec

\* Pointers lead to nodes that exist, blocks are not empty, the index has one
\* entry per block and the iterator is at an entry of the file or nowhere.
THEOREM FlushPathTypes == Spec => []TypeOK
<1>1. MemInv /\ FileInv => TypeOK
  BY DEF MemInv, FileInv, TableGood, TypeOK
<1>. QED
  BY <1>1, FlushPathInvariant, PTL

-----------------------------------------------------------------------------
(* The order of the texts and of the entries *)

\* FormatKey turns the order of negative keys around: what is said of the order
\* of the texts is said for sets of keys with at most one that is negative.
AtMostOneNegative == \A j, k \in Keys : j < 0 /\ k < 0 => j = k

\* Then the texts are ordered like the numbers.
LEMMA TextOrder ==
  ASSUME AtMostOneNegative, NEW j \in Keys, NEW k \in Keys
  PROVE  TextLess(j, k) <=> j < k
BY KeysAssumption DEF AtMostOneNegative, TextLess

\* Flush hands the keys over in ascending order of their texts.
THEOREM AddsAlwaysAscend == Spec => []AddsAscend
<1>1. ASSUME MemInv, FileInv
      PROVE  AddsAscend
  <2>1. SUFFICES ASSUME AtMostOneNegative, NEW i \in 1 .. Len(Table!Added) - 1
                 PROVE  TextLess(Table!Added[i].key, Table!Added[i + 1].key)
    BY DEF AddsAscend, AtMostOneNegative
  <2>2. Table!Added \in Seq(Table!Entries) /\ KeysAscend
    BY <1>1, TableParts DEF FileInv, TableGood
  <2>3. i \in 1 .. Len(Table!Added) /\ i + 1 \in 1 .. Len(Table!Added) /\ i < i + 1
    BY <2>2
  <2>4. Table!Added[i].key \in Keys /\ Table!Added[i + 1].key \in Keys
    <3>1. Table!Added[i] \in Table!Entries /\ Table!Added[i + 1] \in Table!Entries
      BY <2>2, <2>3
    <3>. QED
      BY <3>1 DEF Table!Entries
  <2>. QED
    BY <2>1, <2>2, <2>3, <2>4, TextOrder DEF KeysAscend
<1>. QED
  BY <1>1, FlushPathInvariant, PTL

\* What a complete file is to its reader
Readable == TableGood /\ KeysAscend /\ data_block_buffer = <<>>

\* The order in which an iterator comes by the positions
Before(a, b) == a[1] < b[1] \/ (a[1] = b[1] /\ a[2] < b[2])

\* The rank of a position is the number of its entry among all that were added.
LEMMA RankIs ==
  ASSUME Readable, NEW at \in Table!Positions
  PROVE  /\ Table!Rank(at) = Offset(blocks, at[1]) + at[2]
         /\ Table!Rank(at) \in 1 .. Len(Table!Added)
         /\ Table!Added[Table!Rank(at)] = Table!EntryAt(at)
         /\ Table!EntryAt(at) \in Table!Entries
         /\ Table!EntryAt(at).key \in Keys /\ Table!EntryAt(at).key \in Int
<1>1. Table!TypeOK /\ data_block_buffer = <<>>
  BY DEF Readable, TableGood
<1>2. at[1] \in 1 .. Len(blocks) /\ at[2] \in 1 .. Len(blocks[at[1]])
  BY <1>1, PositionsAre
<1>3. /\ blocks \in Seq(Seq(Table!Entries)) /\ Table!FlattenSeq(blocks) \in Seq(Table!Entries)
      /\ blocks[at[1]] \in Seq(Table!Entries)
  BY <1>1, <1>2, TableParts
<1>4. Table!Added = Table!FlattenSeq(blocks)
  BY <1>1, <1>3, ConcatEmptySeq DEF Table!Added
<1>5. Table!Rank(at) = Offset(blocks, at[1]) + at[2]
  BY DEF Table!Rank, Offset
<1>6. /\ Table!Rank(at) \in 1 .. Len(Table!Added)
      /\ Table!Added[Table!Rank(at)] = Table!EntryAt(at)
  BY <1>2, <1>3, <1>4, <1>5, FlattenHas DEF Table!EntryAt
<1>7. Table!EntryAt(at) \in Table!Entries
  BY <1>2, <1>3 DEF Table!EntryAt
<1>. QED
  BY <1>5, <1>6, <1>7, KeysAssumption DEF Table!Entries

\* Positions are ordered like their ranks and like their keys.
LEMMA PositionsAscend ==
  ASSUME Readable, NEW a \in Table!Positions, NEW b \in Table!Positions
  PROVE  /\ Before(a, b) => /\ Table!Rank(a) < Table!Rank(b)
                            /\ Table!EntryAt(a).key < Table!EntryAt(b).key
         /\ a = b \/ Before(a, b) \/ Before(b, a)
<1>1. Table!TypeOK /\ KeysAscend
  BY DEF Readable, TableGood
<1>2. /\ a = <<a[1], a[2]>> /\ a[1] \in 1 .. Len(blocks) /\ a[2] \in 1 .. Len(blocks[a[1]])
      /\ b = <<b[1], b[2]>> /\ b[1] \in 1 .. Len(blocks) /\ b[2] \in 1 .. Len(blocks[b[1]])
  BY <1>1, PositionsAre
<1>3. blocks \in Seq(Seq(Table!Entries)) /\ Len(blocks) \in Nat /\ Len(blocks[a[1]]) \in Nat
  BY <1>1, <1>2, TableParts
<1>4. /\ Table!Rank(a) = Offset(blocks, a[1]) + a[2]
      /\ Table!Rank(b) = Offset(blocks, b[1]) + b[2]
      /\ Table!Rank(a) \in 1 .. Len(Table!Added) /\ Table!Rank(b) \in 1 .. Len(Table!Added)
      /\ Table!Added[Table!Rank(a)] = Table!EntryAt(a)
      /\ Table!Added[Table!Rank(b)] = Table!EntryAt(b)
  BY RankIs
<1>5. Offset(blocks, a[1]) \in Nat /\ Offset(blocks, b[1]) \in Nat
  BY <1>2, <1>3, PrefixStep
<1>6. ASSUME Before(a, b)
      PROVE  Table!Rank(a) < Table!Rank(b)
  <2>1. CASE a[1] < b[1]
    <3>1. b[1] \in a[1] + 1 .. Len(blocks) + 1
      BY <1>2, <1>3, <2>1
    <3>2. Offset(blocks, a[1]) + Len(blocks[a[1]]) <= Offset(blocks, b[1])
      BY <1>2, <1>3, <3>1, OffsetsAscend
    <3>. DEFINE o == Offset(blocks, a[1])
                q == Offset(blocks, b[1])
                l == Len(blocks[a[1]])
                i == a[2]
                j == b[2]
    <3>3. o \in Nat /\ q \in Nat /\ l \in Nat /\ i \in 1 .. l /\ j \in Nat \ {0} /\ o + l <= q
      BY <1>2, <1>3, <1>5, <3>2
    <3>. HIDE DEF o, q, l, i, j
    <3>4. o + i < q + j
      BY <3>3
    <3>. QED
      BY <1>4, <3>4 DEF o, q, i, j
  <2>2. CASE a[1] = b[1] /\ a[2] < b[2]
    <3>1. Offset(blocks, a[1]) = Offset(blocks, b[1])
      BY <2>2, Zenon
    <3>. QED
      BY <1>2, <1>4, <1>5, <2>2, <3>1
  <2>. QED
    BY <1>6, <2>1, <2>2 DEF Before
<1>7. ASSUME Before(a, b)
      PROVE  Table!EntryAt(a).key < Table!EntryAt(b).key
  <2>1. Table!Added[Table!Rank(a)].key < Table!Added[Table!Rank(b)].key
    BY <1>1, <1>4, <1>6, <1>7 DEF KeysAscend
  <2>. QED
    BY <1>4, <2>1
<1>8. a = b \/ Before(a, b) \/ Before(b, a)
  <2>1. a[1] < b[1] \/ a[1] = b[1] \/ b[1] < a[1]
    BY <1>2, <1>3
  <2>2. a[1] = b[1] => a[2] < b[2] \/ a[2] = b[2] \/ b[2] < a[2]
    BY <1>2, <1>3
  <2>. QED
    BY <1>2, <2>1, <2>2 DEF Before
<1>. QED
  BY <1>6, <1>7, <1>8

\* No key is in the file twice.
LEMMA KeysAreUnique ==
  ASSUME Readable, NEW a \in Table!Positions, NEW b \in Table!Positions,
         Table!EntryAt(a).key = Table!EntryAt(b).key
  PROVE  a = b
<1>1. Table!EntryAt(a).key \in Int /\ Table!EntryAt(b).key \in Int
  BY RankIs
<1>2. ~Before(a, b) /\ ~Before(b, a)
  BY <1>1, PositionsAscend
<1>. QED
  BY <1>2, PositionsAscend

\* The index entry of a block is the key of its last position, the largest of
\* all in the block and in front of it.
LEMMA IndexIs ==
  ASSUME Readable, NEW b \in 1 .. Len(blocks)
  PROVE  LET last == <<b, Len(blocks[b])>>
         IN  /\ last \in Table!Positions
             /\ index_entries[b] = Table!EntryAt(last).key
             /\ index_entries[b] \in Keys /\ index_entries[b] \in Int
             /\ \A at \in Table!Positions :
                  /\ at[1] <= b => Table!EntryAt(at).key <= index_entries[b]
                  /\ at[1] > b => index_entries[b] < Table!EntryAt(at).key
<1>. DEFINE last == <<b, Len(blocks[b])>>
<1>1. Table!TypeOK /\ IndexMatches
  BY DEF Readable, TableGood
<1>2. /\ Len(blocks[b]) \in Nat \ {0} /\ DOMAIN blocks = 1 .. Len(blocks) /\ Len(blocks) \in Nat
  BY <1>1, TableParts
<1>3. last \in Table!Positions
  <2>1. Len(blocks[b]) \in 1 .. Len(blocks[b])
    BY <1>2
  <2>. QED
    BY <1>1, <2>1, PositionsAre
<1>4. index_entries[b] = Table!EntryAt(last).key
  BY <1>1, <1>2 DEF IndexMatches, Table!EntryAt
<1>5. index_entries[b] \in Keys /\ index_entries[b] \in Int
  BY <1>3, <1>4, RankIs
<1>6. ASSUME NEW at \in Table!Positions
      PROVE  /\ at[1] <= b => Table!EntryAt(at).key <= index_entries[b]
             /\ at[1] > b => index_entries[b] < Table!EntryAt(at).key
  <2>1. /\ at = <<at[1], at[2]>> /\ at[1] \in 1 .. Len(blocks)
        /\ at[2] \in 1 .. Len(blocks[at[1]])
    BY <1>1, PositionsAre
  <2>2. Table!EntryAt(at).key \in Int
    BY RankIs
  <2>3. at[1] <= b => at = last \/ Before(at, last)
    <3>1. CASE at[1] = b
      <4>1. at[2] \in 1 .. Len(blocks[b])
        BY <2>1, <3>1
      <4>2. at[2] = Len(blocks[b]) \/ at[2] < Len(blocks[b])
        BY <1>2, <4>1
      <4>. QED
        BY <2>1, <3>1, <4>2 DEF Before
    <3>2. CASE at[1] < b
      BY <3>2 DEF Before
    <3>3. at[1] <= b => at[1] = b \/ at[1] < b
      BY <1>2, <2>1
    <3>. QED
      BY <3>1, <3>2, <3>3
  <2>4. at[1] > b => Before(last, at)
    BY <1>2, <2>1 DEF Before
  <2>5. /\ Before(at, last) => Table!EntryAt(at).key < Table!EntryAt(last).key
        /\ Before(last, at) => Table!EntryAt(last).key < Table!EntryAt(at).key
    BY <1>3, PositionsAscend
  <2>6. at = last => Table!EntryAt(at).key = index_entries[b]
    BY <1>4
  <2>. HIDE DEF last
  <2>. QED
    BY <1>4, <1>5, <2>2, <2>3, <2>4, <2>5, <2>6
<1>. QED
  BY <1>3, <1>4, <1>5, <1>6

-----------------------------------------------------------------------------
(* Get *)

\* A key that Get is not blind for is nowhere but in the block that the index
\* names, and a key that it is blind for is not in that block.
LEMMA BlockHolds ==
  ASSUME AtMostOneNegative, Readable, NEW k \in Keys,
         NEW at \in Table!Positions, Table!EntryAt(at).key = k
  PROVE  /\ Table!NumBlocks = Len(blocks) /\ Len(blocks) \in Nat \ {0}
         /\ Table!BlockOf(k) \in 1 .. Len(blocks)
         /\ k \notin Table!Unfindable <=> at[1] = Table!BlockOf(k)
         /\ ~TextLess(index_entries[Len(blocks)], k)
<1>. DEFINE b == at[1]
            u == Table!UpperBound(k)
            N == Len(blocks)
<1>1. Table!TypeOK
  BY DEF Readable, TableGood
<1>2. b \in 1 .. N /\ N \in Nat /\ Table!NumBlocks = N /\ k \in Int
  BY <1>1, PositionsAre, KeysAssumption DEF Table!TypeOK, Table!NumBlocks
<1>. HIDE DEF b, N
<1>3. N \in Nat \ {0} /\ N \in 1 .. N
  BY <1>2
<1>4. /\ u \in 1 .. N + 1
      /\ u <= N => TextLess(k, index_entries[u])
      /\ \A c \in 1 .. u - 1 : ~TextLess(k, index_entries[c])
  BY <1>1, <1>2, UpperBoundIs
<1>5. Table!BlockOf(k) = IF u > N THEN N ELSE u
  BY <1>2, Zenon DEF Table!BlockOf
<1>. HIDE DEF u
<1>6. \A c \in 1 .. N : /\ index_entries[c] \in Keys /\ index_entries[c] \in Int
                        /\ b <= c => k <= index_entries[c]
                        /\ b > c => index_entries[c] < k
  BY IndexIs DEF b, N
<1>7. /\ u <= N => k < index_entries[u]
      /\ \A c \in 1 .. N : c < u => index_entries[c] <= k
  <2>1. u <= N => k < index_entries[u]
    BY <1>3, <1>4, <1>6, TextOrder
  <2>2. ASSUME NEW c \in 1 .. N, c < u
        PROVE  index_entries[c] <= k
    <3>1. c \in 1 .. u - 1
      BY <1>3, <1>4, <2>2
    <3>2. ~(k < index_entries[c])
      BY <1>4, <1>6, <3>1, TextOrder
    <3>. QED
      BY <1>2, <1>6, <3>2
  <2>. QED
    BY <2>1, <2>2
<1>8. b <= u /\ Table!BlockOf(k) \in 1 .. N /\ b <= Table!BlockOf(k)
  <2>1. CASE u <= N
    <3>1. u \in 1 .. N /\ Table!BlockOf(k) = u
      BY <1>3, <1>4, <1>5, <2>1
    <3>2. ~(b > u)
      BY <1>2, <1>6, <1>7, <2>1, <3>1
    <3>. QED
      BY <1>2, <3>1, <3>2
  <2>2. CASE ~(u <= N)
    BY <1>2, <1>3, <1>4, <1>5, <2>2
  <2>. QED
    BY <2>1, <2>2
<1>9. b # Table!BlockOf(k) => k \in Table!Unfindable
  <2>1. ASSUME b # Table!BlockOf(k)
        PROVE  k \in Table!Unfindable
    <3>1. b < u /\ b \in 1 .. N - 1
      BY <1>2, <1>4, <1>5, <1>8, <2>1
    <3>2. index_entries[b] = k
      <4>1. index_entries[b] <= k
        BY <1>2, <1>7, <3>1
      <4>2. k <= index_entries[b] /\ index_entries[b] \in Int
        BY <1>2, <1>6
      <4>. QED
        BY <1>2, <4>1, <4>2
    <3>. QED
      BY <1>2, <3>1, <3>2 DEF Table!Unfindable
  <2>. QED
    BY <2>1
<1>10. k \in Table!Unfindable => b # Table!BlockOf(k)
  <2>1. ASSUME k \in Table!Unfindable, b = Table!BlockOf(k)
        PROVE  FALSE
    <3>1. PICK c \in 1 .. N - 1 : index_entries[c] = k
      BY <1>2, <2>1 DEF Table!Unfindable
    <3>2. c \in 1 .. N /\ ~(b > c)
      BY <1>2, <1>6, <3>1
    <3>3. b <= c
      BY <1>2, <3>2
    <3>4. b = u /\ u <= N
      BY <1>2, <1>4, <1>5, <2>1, <3>1, <3>3
    <3>5. k < index_entries[u]
      BY <1>7, <3>4
    <3>6. u # c
      BY <1>2, <3>1, <3>5
    <3>7. u \in 1 .. N /\ c > u /\ k <= index_entries[u]
      BY <1>2, <1>6, <3>2, <3>3, <3>4, <3>6
    <3>8. index_entries[u] < index_entries[c]
      <4>1. Len(blocks) = N
        BY DEF N
      <4>. DEFINE last == <<c, Len(blocks[c])>>
      <4>2. last \in Table!Positions /\ index_entries[c] = Table!EntryAt(last).key
        BY <3>2, <4>1, IndexIs
      <4>3. last[1] > u
        BY <3>7
      <4>. HIDE DEF last
      <4>. QED
        BY <3>7, <4>1, <4>2, <4>3, IndexIs
    <3>. QED
      BY <1>2, <1>6, <3>1, <3>5, <3>7, <3>8
  <2>. QED
    BY <2>1
<1>11. ~TextLess(index_entries[N], k)
  <2>1. ~(index_entries[N] < k)
    BY <1>2, <1>3, <1>6
  <2>. QED
    BY <1>3, <1>6, <2>1, TextOrder
<1>. QED
  BY <1>2, <1>3, <1>8, <1>9, <1>10, <1>11 DEF b, N

\* The search of a block finds the key if the block has it.
LEMMA SearchInBlockIs ==
  ASSUME Readable, NEW b \in 1 .. Len(blocks), NEW k \in Keys
  PROVE  /\ \A at \in Table!Positions :
              at[1] = b /\ Table!EntryAt(at).key = k =>
                Table!SearchInBlock(b, k) = Table!EntryAt(at).value
         /\ (\A at \in Table!Positions : at[1] = b => Table!EntryAt(at).key # k) =>
              Table!SearchInBlock(b, k) = Nothing
<1>. DEFINE hits == {i \in DOMAIN blocks[b] : blocks[b][i].key = k}
<1>1. Table!TypeOK /\ DOMAIN blocks[b] = 1 .. Len(blocks[b])
  BY TableParts DEF Readable, TableGood
<1>2. \A i \in hits : <<b, i>> \in Table!Positions /\ Table!EntryAt(<<b, i>>) = blocks[b][i]
  BY <1>1, PositionsAre DEF Table!EntryAt
<1>3. ASSUME NEW at \in Table!Positions, at[1] = b, Table!EntryAt(at).key = k
      PROVE  Table!SearchInBlock(b, k) = Table!EntryAt(at).value
  <2>1. at[2] \in hits /\ at = <<b, at[2]>>
    BY <1>1, <1>3, PositionsAre DEF Table!EntryAt
  <2>. DEFINE m == CHOOSE i \in hits : \A j \in hits : i <= j
  <2>2. hits \in SUBSET Nat
    BY <1>1
  <2>3. m \in hits
    <3>. HIDE DEF hits
    <3>. QED
      BY <2>1, <2>2, LeastEntry
  <2>4. Table!SearchInBlock(b, k) = blocks[b][m].value
    BY <2>1, Zenon DEF Table!SearchInBlock
  <2>. HIDE DEF m
  <2>5. <<b, m>> \in Table!Positions /\ Table!EntryAt(<<b, m>>) = blocks[b][m]
    BY <1>2, <2>3
  <2>6. Table!EntryAt(<<b, m>>).key = Table!EntryAt(at).key
    BY <1>3, <2>3, <2>5
  <2>7. <<b, m>> = at
    BY <2>5, <2>6, KeysAreUnique
  <2>. QED
    BY <2>4, <2>5, <2>7
<1>4. ASSUME \A at \in Table!Positions : at[1] = b => Table!EntryAt(at).key # k
      PROVE  Table!SearchInBlock(b, k) = Nothing
  <2>1. hits = {}
    <3>1. ASSUME NEW i \in hits
          PROVE  FALSE
      <4>1. <<b, i>> \in Table!Positions /\ Table!EntryAt(<<b, i>>).key = k
        BY <1>2
      <4>2. <<b, i>>[1] = b
        OBVIOUS
      <4>. QED
        BY <1>4, <4>1, <4>2
    <3>. HIDE DEF hits
    <3>. QED
      BY <3>1
  <2>. QED
    BY <2>1, Zenon DEF Table!SearchInBlock
<1>. QED
  BY <1>3, <1>4

\* What Get finds in a complete file
LEMMA GetFindsInState ==
  ASSUME AtMostOneNegative, FileInv
  PROVE  GetFinds
<1>. SUFFICES ASSUME file = "complete", NEW k \in Keys
              PROVE  LET there == {at \in Table!Positions :
                                     Table!EntryAt(at).key = k /\ at[1] \notin damaged}
                     IN  Table!Get(k) =
                           IF there = {} \/ k \in Table!Unfindable THEN Nothing
                           ELSE Table!EntryAt(CHOOSE at \in there : TRUE).value
  BY DEF GetFinds
<1>. DEFINE there == {at \in Table!Positions : Table!EntryAt(at).key = k /\ at[1] \notin damaged}
            c == CHOOSE at \in there : TRUE
            b == Table!BlockOf(k)
<1>1. Readable /\ Table!TypeOK
  BY DEF FileInv, Readable, TableGood
<1>2. CASE Table!Get(k) # Nothing
  <2>1. /\ Table!NumBlocks # 0 /\ b \notin damaged
        /\ Table!Get(k) = Table!SearchInBlock(b, k)
    BY <1>2 DEF Table!Get
  <2>2. b \in 1 .. Len(blocks)
    BY <1>1, <2>1, BlockOfIs
  <2>. HIDE DEF b
  <2>3. PICK at \in Table!Positions : at[1] = b /\ Table!EntryAt(at).key = k
    BY <1>1, <1>2, <2>1, <2>2, SearchInBlockIs
  <2>4. at \in there
    BY <2>1, <2>3
  <2>5. k \notin Table!Unfindable
    BY <1>1, <2>3, BlockHolds DEF b
  <2>6. c \in there
    <3>. HIDE DEF there
    <3>. QED
      BY <2>4
  <2>7. c \in Table!Positions /\ Table!EntryAt(c).key = k
    <3>. HIDE DEF c
    <3>. QED
      BY <2>6
  <2>. HIDE DEF c, there
  <2>8. c = at
    BY <1>1, <2>3, <2>7, KeysAreUnique
  <2>9. Table!Get(k) = Table!EntryAt(at).value
    BY <1>1, <2>1, <2>2, <2>3, SearchInBlockIs
  <2>. QED
    BY <2>4, <2>5, <2>8, <2>9 DEF c, there
<1>3. CASE Table!Get(k) = Nothing
  <2>1. ASSUME there # {}, k \notin Table!Unfindable
        PROVE  FALSE
    <3>1. PICK at \in Table!Positions : Table!EntryAt(at).key = k /\ at[1] \notin damaged
      BY <2>1
    <3>2. /\ Table!NumBlocks = Len(blocks) /\ Len(blocks) \in Nat \ {0}
          /\ b \in 1 .. Len(blocks) /\ at[1] = b
          /\ ~TextLess(index_entries[Len(blocks)], k)
      BY <1>1, <2>1, <3>1, BlockHolds
    <3>. HIDE DEF b
    <3>3. Table!Get(k) = Table!SearchInBlock(b, k)
      BY <3>1, <3>2 DEF Table!Get, b
    <3>4. Table!Get(k) = Table!EntryAt(at).value
      BY <1>1, <3>1, <3>2, <3>3, SearchInBlockIs
    <3>5. Table!EntryAt(at).value \in Values
      BY <1>1, RankIs DEF Table!Entries
    <3>. QED
      BY <1>3, <3>4, <3>5, ValuesAssumption
  <2>. HIDE DEF there
  <2>. QED
    BY <1>3, <2>1 DEF there
<1>. QED
  BY <1>2, <1>3

\* Get answers with the value of a key exactly if the key is in a block that is
\* not damaged and is not the last key of a block with another behind it.
THEOREM GetAlwaysFinds ==
  ASSUME AtMostOneNegative
  PROVE  Spec => []GetFinds
<1>1. FileInv => GetFinds
  BY GetFindsInState
<1>. QED
  BY <1>1, FlushPathInvariant, PTL

-----------------------------------------------------------------------------
(* What a flush leaves *)

\* The entries of the walk, in its order
Offered == [i \in DOMAIN Walked |-> entry[Walked[i]]]

\* A file that a failed flush leaves behind and that opens all the same holds
\* the first entries of the memtable, in their order and once each.
THEOREM LeftoverAlwaysPrefix == Spec => LeftoverIsPrefix
<1>1. ASSUME MemInv, FileInv, FlushThrows, file' = "complete"
      PROVE  IsPrefix(Table!Added', Offered) /\ UNCHANGED memtable
  <2>. DEFINE n == Len(Table!Added)
  <2>1. Table!Destroy /\ file \in {"threw", "torn"} /\ UNCHANGED memtable
    BY <1>1 DEF FlushThrows, Table!Destroy
  <2>2. TableGood /\ HandedOver /\ damaged = {} /\ it = Table!Invalid
    BY <1>1, <2>1 DEF FileInv, UnderWay
  <2>3. Table!Added' = Table!Added
    BY <2>1, <2>2, FinishKeepsEntries
  <2>4. Table!Added \in Seq(Table!Entries) /\ n \in Nat
    BY <2>2, TableParts DEF TableGood
  <2>5. /\ Walked \in Seq(DOMAIN entry) /\ Len(Walked) \in Nat /\ DOMAIN Walked = 1 .. Len(Walked)
        /\ entry \in [DOMAIN entry -> Table!Entries]
    BY <1>1, WalkIsComplete DEF WalkComplete, MemInv, List!TypeOK, Table!Entries
  <2>6. Offered \in Seq(Table!Entries) /\ Len(Offered) = Len(Walked)
    <3>1. \A i \in 1 .. Len(Walked) : entry[Walked[i]] \in Table!Entries
      BY <2>5
    <3>. QED
      BY <2>5, <3>1 DEF Offered
  <2>7. /\ n <= Len(Offered)
        /\ \A j \in 1 .. n : Table!Added[j] = Offered[j]
    BY <2>2, <2>4, <2>5, <2>6 DEF HandedOver, Offered
  <2>. HIDE DEF n
  <2>8. SubSeq(Table!Added, 1, n) = SubSeq(Offered, 1, n)
    <3>1. Len(SubSeq(Table!Added, 1, n)) = n /\ Len(SubSeq(Offered, 1, n)) = n
      BY <2>4, <2>6, <2>7 DEF n
    <3>2. \A j \in 1 .. n : SubSeq(Table!Added, 1, n)[j] = SubSeq(Offered, 1, n)[j]
      BY <2>4, <2>6, <2>7 DEF n
    <3>3. /\ SubSeq(Table!Added, 1, n) \in Seq(Table!Entries)
          /\ SubSeq(Offered, 1, n) \in Seq(Table!Entries)
      BY <2>4, <2>6, <2>7 DEF n
    <3>. QED
      BY <3>1, <3>2, <3>3, SeqEqual
  <2>. QED
    BY <2>1, <2>3, <2>7, <2>8 DEF IsPrefix, n
<1>2. ASSUME MemInv, FileInv
      PROVE  (FlushThrows /\ file' = "complete") =>
               LET nodes == List!Level(1)
                   walked == [i \in DOMAIN nodes |-> entry[nodes[i]]]
               IN  /\ IsPrefix(Table!Added', walked)
                   /\ UNCHANGED memtable
  BY <1>1, <1>2 DEF Offered, Walked
<1>. QED
  BY <1>2, FlushPathInvariant, PTL DEF LeftoverIsPrefix

\* The blocks of a complete file have the entries that were added, and no others.
BlocksHaveAll ==
  file = "complete" =>
    /\ \A j \in 1 .. Len(Table!Added) :
         \E at \in Table!Positions : Table!EntryAt(at) = Table!Added[j]
    /\ \A at \in Table!Positions :
         \E j \in 1 .. Len(Table!Added) : Table!EntryAt(at) = Table!Added[j]

\* That is so in every good state ...
LEMMA BlocksHaveAllInState == FileInv => BlocksHaveAll
<1>1. SUFFICES ASSUME FileInv, file = "complete"
               PROVE  BlocksHaveAll
  BY DEF BlocksHaveAll
<1>2. Readable /\ Table!TypeOK
  BY <1>1 DEF FileInv, Readable, TableGood
<1>3. ASSUME NEW at \in Table!Positions
      PROVE  \E j \in 1 .. Len(Table!Added) : Table!EntryAt(at) = Table!Added[j]
  BY <1>2, RankIs
<1>4. ASSUME NEW j \in 1 .. Len(Table!Added)
      PROVE  \E at \in Table!Positions : Table!EntryAt(at) = Table!Added[j]
  <2>1. blocks \in Seq(Seq(Table!Entries)) /\ Table!FlattenSeq(blocks) \in Seq(Table!Entries)
    BY <1>2, TableParts
  <2>2. Table!Added = Table!FlattenSeq(blocks)
    BY <1>2, <2>1, ConcatEmptySeq DEF Table!Added, Readable
  <2>3. PICK b \in 1 .. Len(blocks) : \E i \in 1 .. Len(blocks[b]) : j = Offset(blocks, b) + i
    BY <2>1, <2>2, FlattenOnly
  <2>4. PICK i \in 1 .. Len(blocks[b]) : j = Offset(blocks, b) + i
    BY <2>3
  <2>5. Table!FlattenSeq(blocks)[j] = blocks[b][i]
    BY <2>1, <2>4, FlattenHas
  <2>6. <<b, i>> \in Table!Positions /\ Table!EntryAt(<<b, i>>) = blocks[b][i]
    BY <1>2, PositionsAre DEF Table!EntryAt
  <2>. QED
    BY <2>2, <2>5, <2>6
<1>. QED
  BY <1>3, <1>4 DEF BlocksHaveAll

\* Get answers from all that was added as long as no block is damaged.
AnswersAll ==
  file = "complete" /\ damaged = {} =>
    \A k \in Keys \ Table!Unfindable :
      /\ \A j \in 1 .. Len(Table!Added) :
           Table!Added[j].key = k => Table!Get(k) = Table!Added[j].value
      /\ (\A j \in 1 .. Len(Table!Added) : Table!Added[j].key # k) => Table!Get(k) = Nothing

\* That is so in every good state ...
LEMMA AnswersAllInState ==
  ASSUME AtMostOneNegative
  PROVE  FileInv => AnswersAll
<1>1. SUFFICES ASSUME FileInv, file = "complete", damaged = {}, NEW k \in Keys \ Table!Unfindable
               PROVE  /\ \A j \in 1 .. Len(Table!Added) :
                           Table!Added[j].key = k => Table!Get(k) = Table!Added[j].value
                      /\ (\A j \in 1 .. Len(Table!Added) : Table!Added[j].key # k) =>
                           Table!Get(k) = Nothing
  BY DEF AnswersAll
<1>. DEFINE there == {at \in Table!Positions : Table!EntryAt(at).key = k /\ at[1] \notin damaged}
            c == CHOOSE at \in there : TRUE
<1>2. Table!Get(k) = IF there = {} THEN Nothing ELSE Table!EntryAt(c).value
  BY <1>1, GetFindsInState DEF GetFinds
<1>3. there = {at \in Table!Positions : Table!EntryAt(at).key = k}
  BY <1>1
<1>4. BlocksHaveAll /\ Readable
  BY <1>1, BlocksHaveAllInState DEF FileInv, Readable
<1>5. there # {} => c \in there
  <2>. HIDE DEF there
  <2>. QED
    OBVIOUS
<1>. HIDE DEF there, c
<1>6. ASSUME NEW j \in 1 .. Len(Table!Added), Table!Added[j].key = k
      PROVE  Table!Get(k) = Table!Added[j].value
  <2>1. PICK at \in Table!Positions : Table!EntryAt(at) = Table!Added[j]
    BY <1>1, <1>4 DEF BlocksHaveAll
  <2>2. at \in there
    BY <1>3, <1>6, <2>1
  <2>3. c = at
    BY <1>3, <1>4, <1>5, <2>2, KeysAreUnique
  <2>. QED
    BY <1>2, <2>1, <2>2, <2>3
<1>7. ASSUME \A j \in 1 .. Len(Table!Added) : Table!Added[j].key # k
      PROVE  Table!Get(k) = Nothing
  <2>1. there = {}
    BY <1>1, <1>3, <1>4, <1>7 DEF BlocksHaveAll
  <2>. QED
    BY <1>2, <2>1
<1>. QED
  BY <1>6, <1>7

\* ... and behind every step.
LEMMA AnswersAllNext ==
  ASSUME AtMostOneNegative
  PROVE  FileInv' => AnswersAll'
<1>1. FileInv => AnswersAll
  BY AnswersAllInState
<1>. QED
  BY <1>1, PTL

\* Only the end of a successful flush empties a memtable while a builder is at
\* work; the file then has the entries of all nodes and no others.
LEMMA EmptiedByFlush ==
  ASSUME MemInv, FileInv, [Next]_vars,
         DOMAIN entry # {}, DOMAIN entry' = {}, file = "building"
  PROVE  /\ file' = "complete" /\ damaged' = {} /\ FileInv'
         /\ \A n \in DOMAIN entry : \E j \in 1 .. Len(Table!Added') : Table!Added'[j] = entry[n]
         /\ \A j \in 1 .. Len(Table!Added') : \E n \in DOMAIN entry : Table!Added'[j] = entry[n]
<1>1. FlushEnd
  <2>1. ~UNCHANGED memtable
    BY DEF memtable
  <2>2. ~Serving
    BY DEF Serving
  <2>3. ~FlushBegin /\ ~FlushAdd /\ ~FlushThrows /\ ~ReadTable
    BY <2>1 DEF FlushBegin, FlushAdd, FlushThrows, ReadTable, memtable
  <2>4. ~UNCHANGED vars
    BY <2>1 DEF vars
  <2>. QED
    BY <2>2, <2>3, <2>4 DEF Next, MemtableInsert, MemtableRemove
<1>2. cursor = List!Nil /\ Table!Finish /\ file' = "complete"
  <2>1. cursor = List!Nil /\ Table!Finish /\ Cleared
    BY <1>1 DEF FlushEnd
  <2>2. ~UNCHANGED memtable
    BY DEF memtable
  <2>. QED
    BY <2>1, <2>2 DEF Cleared
<1>3. TableGood /\ HandedOver /\ damaged = {} /\ it = Table!Invalid
  BY DEF FileInv, UnderWay
<1>4. Table!Added' = Table!Added /\ damaged' = {}
  BY <1>2, <1>3, FinishKeepsEntries
<1>5. WalkComplete /\ Walked \in Seq(DOMAIN entry) /\ Len(Walked) \in Nat
  BY WalkIsComplete DEF WalkComplete
<1>6. Len(Table!Added) = Len(Walked)
  <2>. DEFINE n == Len(Table!Added)
  <2>1. n \in Nat
    BY <1>3, TableParts DEF TableGood
  <2>2. n <= Len(Walked) /\ (n < Len(Walked) => cursor = Walked[n + 1])
    BY <1>3 DEF HandedOver
  <2>. HIDE DEF n
  <2>3. ASSUME n < Len(Walked)
        PROVE  FALSE
    <3>1. n + 1 \in 1 .. Len(Walked)
      BY <1>5, <2>1, <2>3
    <3>2. Walked[n + 1] \in DOMAIN entry
      BY <1>5, <3>1
    <3>. QED
      BY <1>2, <2>2, <2>3, <3>2, Nodes DEF MemInv
  <2>. QED
    BY <1>5, <2>1, <2>2, <2>3 DEF n
<1>7. \A j \in 1 .. Len(Walked) : Table!Added[j] = entry[Walked[j]] /\ Walked[j] \in DOMAIN entry
  BY <1>3, <1>5, <1>6 DEF HandedOver
<1>8. \A n \in DOMAIN entry : \E j \in 1 .. Len(Walked) : Walked[j] = n
  BY <1>5 DEF WalkComplete
<1>9. FileInv'
  BY FileStep
<1>. QED
  BY <1>2, <1>4, <1>6, <1>7, <1>8, <1>9

\* The step of Flush that empties the memtable leaves every answer as it was,
\* up to the keys that Get is blind for.
THEOREM FlushAlwaysKeepsAnswers ==
  ASSUME AtMostOneNegative
  PROVE  Spec => FlushKeepsAnswers
<1>1. ASSUME MemInv, FileInv, [Next]_vars,
             DOMAIN entry # {}, DOMAIN entry' = {}, file = "building"
      PROVE  /\ file' = "complete"
             /\ \A k \in Keys : k \notin Table!Unfindable' => Table!Get(k)' = List!search(k)
  <2>1. /\ file' = "complete" /\ damaged' = {} /\ FileInv'
        /\ \A n \in DOMAIN entry : \E j \in 1 .. Len(Table!Added') : Table!Added'[j] = entry[n]
        /\ \A j \in 1 .. Len(Table!Added') : \E n \in DOMAIN entry : Table!Added'[j] = entry[n]
    BY <1>1, EmptiedByFlush
  <2>2. ASSUME NEW k \in Keys, k \notin Table!Unfindable'
        PROVE  Table!Get(k)' = List!search(k)
    <3>1. /\ \A j \in 1 .. Len(Table!Added') :
               Table!Added'[j].key = k => Table!Get(k)' = Table!Added'[j].value
          /\ (\A j \in 1 .. Len(Table!Added') : Table!Added'[j].key # k) => Table!Get(k)' = Nothing
      BY <2>1, <2>2, AnswersAllNext DEF AnswersAll
    <3>2. /\ List!Hit(k) <=> \E n \in DOMAIN entry : entry[n].key = k
          /\ List!Hit(k) => /\ List!Candidate(k) \in DOMAIN entry
                            /\ entry[List!Candidate(k)].key = k
      BY <1>1, SearchHits, KeysAssumption DEF MemInv
    <3>3. CASE List!Hit(k)
      <4>1. PICK j \in 1 .. Len(Table!Added') : Table!Added'[j] = entry[List!Candidate(k)]
        BY <2>1, <3>2, <3>3
      <4>. QED
        BY <3>1, <3>2, <3>3, <4>1 DEF List!search
    <3>4. CASE ~List!Hit(k)
      <4>1. \A j \in 1 .. Len(Table!Added') : Table!Added'[j].key # k
        BY <2>1, <3>2, <3>4
      <4>. QED
        BY <3>1, <3>4, <4>1 DEF List!search
    <3>. QED
      BY <3>3, <3>4
  <2>. QED
    BY <2>1, <2>2
<1>. QED
  BY <1>1, FlushPathInvariant, PTL DEF FlushKeepsAnswers, Spec

-----------------------------------------------------------------------------
(* The iterator *)

\* Among the blocks, the one that Seek looks into is the first with a key behind
\* its target in the last place, or the last of all.
LEMMA SeekBlock ==
  ASSUME AtMostOneNegative, Readable, NEW k \in Keys, Table!NumBlocks # 0
  PROVE  LET b == Table!BlockOf(k)
         IN  /\ b \in 1 .. Len(blocks)
             /\ k < index_entries[b] \/ b = Len(blocks)
             /\ \A c \in 1 .. Len(blocks) : c < b => index_entries[c] <= k
<1>. DEFINE u == Table!UpperBound(k)
            b == Table!BlockOf(k)
            N == Len(blocks)
<1>1. Table!TypeOK /\ k \in Int
  BY KeysAssumption DEF Readable, TableGood
<1>2. N \in Nat /\ Table!NumBlocks = N /\ b \in 1 .. N
  BY <1>1, BlockOfIs DEF Table!TypeOK
<1>3. \A c \in 1 .. N : index_entries[c] \in Keys /\ index_entries[c] \in Int
  BY IndexIs
<1>. HIDE DEF N
<1>4. /\ u \in 1 .. N + 1
      /\ u <= N => TextLess(k, index_entries[u])
      /\ \A c \in 1 .. u - 1 : ~TextLess(k, index_entries[c])
  BY <1>1, <1>2, UpperBoundIs
<1>5. b = IF u > N THEN N ELSE u
  BY <1>2, Zenon DEF Table!BlockOf
<1>. HIDE DEF u, b
<1>6. k < index_entries[b] \/ b = N
  <2>1. CASE u <= N
    <3>1. b = u /\ u \in 1 .. N
      BY <1>2, <1>4, <1>5, <2>1
    <3>. QED
      BY <1>3, <1>4, <2>1, <3>1, TextOrder
  <2>2. CASE ~(u <= N)
    BY <1>2, <1>4, <1>5, <2>2
  <2>. QED
    BY <2>1, <2>2
<1>7. ASSUME NEW c \in 1 .. N, c < b
      PROVE  index_entries[c] <= k
  <2>1. c \in 1 .. u - 1
    BY <1>2, <1>4, <1>5, <1>7
  <2>2. ~(k < index_entries[c])
    BY <1>3, <1>4, <2>1, TextOrder
  <2>. QED
    BY <1>1, <1>3, <2>2
<1>. QED
  BY <1>2, <1>6, <1>7 DEF b, N

\* A position in an earlier block has a key that Seek does not look for: it is
\* smaller than the target, or is the target and one that Seek is blind for.
LEMMA EarlierBlocks ==
  ASSUME AtMostOneNegative, Readable, NEW k \in Keys, Table!NumBlocks # 0,
         NEW at \in Table!Positions, at[1] < Table!BlockOf(k)
  PROVE  Table!EntryAt(at).key < k \/ (Table!EntryAt(at).key = k /\ k \in Table!Unfindable)
<1>. DEFINE c == at[1]
            e == Table!EntryAt(at).key
<1>1. /\ Table!BlockOf(k) \in 1 .. Len(blocks)
      /\ \A d \in 1 .. Len(blocks) : d < Table!BlockOf(k) => index_entries[d] <= k
  BY SeekBlock
<1>2. /\ c \in 1 .. Len(blocks) /\ Len(blocks) \in Nat /\ Table!NumBlocks = Len(blocks)
  BY PositionsAre DEF Readable, TableGood, Table!TypeOK, Table!NumBlocks
<1>3. e \in Int /\ k \in Int
  BY RankIs, KeysAssumption
<1>4. index_entries[c] \in Int /\ e <= index_entries[c]
  <2>1. at[1] <= c
    BY <1>2
  <2>. QED
    BY <1>2, <2>1, IndexIs
<1>5. index_entries[c] <= k /\ c \in 1 .. Table!NumBlocks - 1
  BY <1>1, <1>2
<1>. HIDE DEF c, e
<1>6. e < k \/ (e = k /\ index_entries[c] = k)
  BY <1>3, <1>4, <1>5
<1>. QED
  BY <1>5, <1>6 DEF Table!Unfindable, e

\* Where Seek lands
LEMMA SeekLandsInState ==
  ASSUME AtMostOneNegative, FileInv, NEW k \in Keys, Table!Seek(k)
  PROVE  LET fit == {at \in Table!Positions :
                       /\ ~TextLess(Table!EntryAt(at).key, k)
                       /\ Table!EntryAt(at).key = k => k \notin Table!Unfindable}
         IN  \/ /\ it' \in fit /\ \A at \in fit : Table!Rank(it') <= Table!Rank(at)
             \/ /\ it' = Table!Invalid
                /\ fit # {} => \E b \in damaged : b \in {Table!BlockOf(k), Table!BlockOf(k) + 1}
<1>. DEFINE fit == {at \in Table!Positions :
                      /\ ~TextLess(Table!EntryAt(at).key, k)
                      /\ Table!EntryAt(at).key = k => k \notin Table!Unfindable}
            b == Table!BlockOf(k)
            from == {i \in DOMAIN blocks[b] : Table!AtOrBehind(blocks[b][i], k)}
            m == CHOOSE i \in from : \A j \in from : i <= j
<1>1. Readable /\ Table!TypeOK /\ k \in Int
  BY KeysAssumption DEF FileInv, Readable, TableGood, Table!Seek
<1>2. it' = IF Table!NumBlocks = 0 \/ b \in damaged THEN Table!Invalid
            ELSE IF from = {} THEN Table!FirstOf(b + 1)
            ELSE <<b, m>>
  BY DEF Table!Seek
<1>3. \A at \in Table!Positions : /\ Table!EntryAt(at).key \in Int
                                  /\ TextLess(Table!EntryAt(at).key, k) <=> Table!EntryAt(at).key < k
  BY <1>1, RankIs, TextOrder
<1>4. CASE Table!NumBlocks = 0
  <2>1. fit = {}
    <3>1. Len(blocks) = 0
      BY <1>1, <1>4 DEF Table!TypeOK, Table!NumBlocks
    <3>2. Table!Positions = {}
      BY <1>1, <3>1, PositionsAre
    <3>. QED
      BY <3>2
  <2>. HIDE DEF fit
  <2>. QED
    BY <1>2, <1>4, <2>1 DEF fit
<1>5. CASE b \in damaged
  BY <1>2, <1>5
<1>6. CASE Table!NumBlocks # 0 /\ b \notin damaged
  <2>1. /\ b \in 1 .. Len(blocks) /\ Len(blocks) \in Nat /\ Table!NumBlocks = Len(blocks)
        /\ k < index_entries[b] \/ b = Len(blocks)
    BY <1>1, <1>6, SeekBlock DEF Table!TypeOK, Table!NumBlocks
  <2>2. DOMAIN blocks[b] = 1 .. Len(blocks[b])
    BY <1>1, <2>1, TableParts
  <2>3. \A at \in fit : ~(at[1] < b)
    <3>1. ASSUME NEW at \in fit, at[1] < b
          PROVE  FALSE
      <4>1. at \in Table!Positions /\ ~(Table!EntryAt(at).key < k)
        BY <1>3
      <4>. QED
        BY <1>1, <1>6, <3>1, <4>1, EarlierBlocks
    <3>. QED
      BY <3>1
  <2>. HIDE DEF b
  <2>4. \A i : i \in from <=> /\ <<b, i>> \in Table!Positions
                              /\ ~(Table!EntryAt(<<b, i>>).key < k)
    <3>1. \A i \in DOMAIN blocks[b] : /\ <<b, i>> \in Table!Positions
                                      /\ Table!EntryAt(<<b, i>>) = blocks[b][i]
      BY <1>1, <2>1, <2>2, PositionsAre DEF Table!EntryAt
    <3>2. \A i \in DOMAIN blocks[b] : /\ Table!EntryAt(<<b, i>>) = blocks[b][i]
                                      /\ TextLess(blocks[b][i].key, k) <=> blocks[b][i].key < k
      BY <1>3, <3>1
    <3>3. \A i : <<b, i>> \in Table!Positions => i \in DOMAIN blocks[b]
      BY <1>1, <2>2, PositionsAre
    <3>. QED
      BY <3>1, <3>2, <3>3 DEF Table!AtOrBehind
  <2>5. from \in SUBSET Nat
    BY <2>2
  <2>. HIDE DEF from
  <2>6. CASE from = {}
    <3>. DEFINE last == <<b, Len(blocks[b])>>
    <3>1. last \in Table!Positions /\ index_entries[b] = Table!EntryAt(last).key
          /\ index_entries[b] \in Int
          /\ \A at \in Table!Positions : at[1] <= b => Table!EntryAt(at).key <= index_entries[b]
      BY <1>1, <2>1, IndexIs
    <3>2. index_entries[b] < k
      BY <2>4, <2>6, <3>1
    <3>. HIDE DEF last
    <3>3. b = Len(blocks)
      BY <1>1, <2>1, <3>1, <3>2
    <3>4. it' = Table!Invalid
      <4>1. b + 1 > Table!NumBlocks
        BY <2>1, <3>3
      <4>. QED
        BY <1>2, <1>6, <2>6, <4>1 DEF Table!FirstOf
    <3>5. fit = {}
      <4>1. ASSUME NEW at \in fit
            PROVE  FALSE
        <5>1. at \in Table!Positions /\ ~(Table!EntryAt(at).key < k) /\ Table!EntryAt(at).key \in Int
          BY <1>3
        <5>2. at[1] <= b
          BY <1>1, <2>1, <3>3, <5>1, PositionsAre
        <5>. QED
          BY <1>1, <3>1, <3>2, <5>1, <5>2
      <4>. HIDE DEF fit
      <4>. QED
        BY <4>1
    <3>. HIDE DEF fit
    <3>. QED
      BY <3>4, <3>5 DEF fit
  <2>7. CASE from # {}
    <3>1. m \in from /\ \A j \in from : m <= j
      BY <2>5, <2>7, LeastEntry
    <3>. DEFINE p == <<b, m>>
    <3>2. it' = p
      BY <1>2, <1>6, <2>7
    <3>. HIDE DEF m
    <3>3. p \in Table!Positions /\ ~(Table!EntryAt(p).key < k) /\ p[1] = b /\ p[2] = m
      BY <2>4, <3>1
    <3>4. p \in fit
      <4>1. Table!EntryAt(p).key = k => k \notin Table!Unfindable
        BY <1>1, <3>3, BlockHolds DEF b
      <4>. QED
        BY <1>3, <3>3, <4>1
    <3>5. ASSUME NEW at \in fit
          PROVE  Table!Rank(p) <= Table!Rank(at)
      <4>1. at \in Table!Positions /\ ~(Table!EntryAt(at).key < k) /\ ~(at[1] < b)
        BY <1>3, <2>3
      <4>2. ~Before(at, p)
        <5>1. ASSUME at[1] = b, at[2] < m
              PROVE  FALSE
          <6>1. at = <<b, at[2]>>
            BY <1>1, <4>1, <5>1, PositionsAre
          <6>2. at[2] \in from
            BY <2>4, <4>1, <6>1
          <6>3. m \in Nat /\ at[2] \in Nat /\ m <= at[2]
            BY <2>5, <3>1, <6>2
          <6>. QED
            BY <5>1, <6>3
        <5>. HIDE DEF p
        <5>. QED
          BY <3>3, <4>1, <5>1 DEF Before
      <4>3. Table!Rank(p) \in Nat /\ Table!Rank(at) \in Nat
        BY <1>1, <3>3, <4>1, RankIs
      <4>4. at = p \/ Table!Rank(p) < Table!Rank(at)
        BY <1>1, <3>3, <4>1, <4>2, PositionsAscend
      <4>. HIDE DEF p
      <4>. QED
        BY <4>3, <4>4
    <3>. HIDE DEF p, fit
    <3>. QED
      BY <3>2, <3>4, <3>5 DEF fit
  <2>. QED
    BY <2>6, <2>7
<1>. HIDE DEF fit
<1>. QED
  BY <1>4, <1>5, <1>6

\* Seek lands on the first key that is not smaller than its target, up to the
\* keys that it is blind for and the blocks that are damaged.
THEOREM SeekAlwaysLands ==
  ASSUME AtMostOneNegative
  PROVE  Spec => SeekLands
<1>1. FileInv => \A k \in Keys : Table!Seek(k) =>
        LET fit == {at \in Table!Positions :
                      /\ ~TextLess(Table!EntryAt(at).key, k)
                      /\ Table!EntryAt(at).key = k => k \notin Table!Unfindable}
        IN  \/ /\ it' \in fit /\ \A at \in fit : Table!Rank(it') <= Table!Rank(at)
            \/ /\ it' = Table!Invalid
               /\ fit # {} => \E b \in damaged : b \in {Table!BlockOf(k), Table!BlockOf(k) + 1}
  BY SeekLandsInState
<1>. QED
  BY <1>1, FlushPathInvariant, PTL DEF SeekLands

\* Next goes to the entry behind, over the border of blocks too, and is invalid
\* only behind the last one or in front of a damaged block.
THEOREM IterationAlwaysComplete == Spec => IterationComplete
<1>1. ASSUME FileInv, Table!IteratorNext
      PROVE  IF it' # Table!Invalid THEN Table!Rank(it') = Table!Rank(it) + 1
             ELSE Table!Rank(it) = Len(Table!Added) \/ it[1] + 1 \in damaged
  <2>. DEFINE b == it[1]
              i == it[2]
              l == Len(blocks[b])
              o == Offset(blocks, b)
  <2>1. Readable /\ Table!TypeOK /\ it # Table!Invalid /\ it' = Table!Following(b, i)
    BY <1>1 DEF FileInv, Readable, TableGood, Table!IteratorNext
  <2>2. it \in Table!Positions
    BY <2>1 DEF Table!TypeOK
  <2>3. /\ b \in 1 .. Len(blocks) /\ i \in 1 .. l /\ it = <<b, i>>
        /\ Len(blocks) \in Nat /\ Table!NumBlocks = Len(blocks)
    BY <2>1, <2>2, PositionsAre DEF Table!TypeOK, Table!NumBlocks
  <2>4. Table!Rank(it) = o + i
    BY <2>1, <2>2, RankIs
  <2>5. /\ blocks \in Seq(Seq(Table!Entries)) /\ Table!FlattenSeq(blocks) \in Seq(Table!Entries)
        /\ o \in Nat /\ l \in Nat /\ Offset(blocks, b + 1) = o + l
    BY <2>1, <2>3, TableParts, PrefixStep
  <2>6. CASE i < l
    <3>1. it' = <<b, i + 1>> /\ i + 1 \in 1 .. l
      BY <2>1, <2>3, <2>5, <2>6 DEF Table!Following
    <3>2. <<b, i + 1>> \in Table!Positions
      BY <2>1, <2>3, <3>1, PositionsAre
    <3>3. Table!Rank(<<b, i + 1>>) = o + (i + 1)
      BY <2>1, <3>2, RankIs
    <3>4. <<b, i + 1>> # Table!Invalid
      BY <2>3 DEF Table!Invalid
    <3>. QED
      BY <2>3, <2>4, <2>5, <3>1, <3>3, <3>4
  <2>7. CASE ~(i < l)
    <3>1. it' = Table!FirstOf(b + 1) /\ i = l
      BY <2>1, <2>3, <2>5, <2>7 DEF Table!Following
    <3>2. CASE b + 1 \in damaged
      BY <3>1, <3>2 DEF Table!FirstOf
    <3>3. CASE b = Len(blocks)
      <4>1. it' = Table!Invalid
        BY <2>3, <3>1, <3>3 DEF Table!FirstOf
      <4>2. Len(Table!Added) = Offset(blocks, b + 1)
        <5>1. Table!Added = Table!FlattenSeq(blocks)
          BY <2>1, <2>5, ConcatEmptySeq DEF Readable, Table!Added
        <5>2. SubSeq(blocks, 1, (b + 1) - 1) = blocks
          <6>1. (b + 1) - 1 = Len(blocks)
            BY <2>3, <3>3
          <6>. QED
            BY <2>5, <6>1, SubSeqFull
        <5>. QED
          BY <5>1, <5>2, Zenon DEF Offset
      <4>. QED
        BY <2>4, <2>5, <3>1, <4>1, <4>2
    <3>4. CASE b + 1 \notin damaged /\ b # Len(blocks)
      <4>1. b + 1 \in 1 .. Len(blocks) /\ ~(b + 1 > Table!NumBlocks)
        BY <2>3, <3>4
      <4>2. it' = <<b + 1, 1>>
        BY <3>1, <3>4, <4>1 DEF Table!FirstOf
      <4>3. 1 \in 1 .. Len(blocks[b + 1])
        BY <2>1, <4>1, TableParts
      <4>4. <<b + 1, 1>> \in Table!Positions
        BY <2>1, <4>1, <4>3, PositionsAre
      <4>5. Table!Rank(<<b + 1, 1>>) = Offset(blocks, b + 1) + 1
        BY <2>1, <4>4, RankIs
      <4>6. <<b + 1, 1>> # Table!Invalid
        BY <2>3 DEF Table!Invalid
      <4>. QED
        BY <2>4, <2>5, <3>1, <4>2, <4>5, <4>6
    <3>. QED
      BY <3>2, <3>3, <3>4
  <2>. QED
    BY <2>6, <2>7
<1>2. FileInv => (Table!IteratorNext =>
        IF it' # Table!Invalid THEN Table!Rank(it') = Table!Rank(it) + 1
        ELSE Table!Rank(it) = Len(Table!Added) \/ it[1] + 1 \in damaged)
  BY <1>1
<1>. QED
  BY <1>2, FlushPathInvariant, PTL DEF IterationComplete

=============================================================================

-------------------------- MODULE FileKeeperProofs --------------------------
(***************************************************************************)
(* Theorems about FileKeeper, for any pairs and lines of any length, and   *)
(* however often the process crashes.                                      *)
(***************************************************************************)
EXTENDS FileKeeper, SequenceTheorems, FiniteSetTheorems, NatSets, TLAPS

-----------------------------------------------------------------------------
(***************************************************************************)
(* What a save writes.                                                     *)
(***************************************************************************)

(* Line by line: f[i] is what the first i sequences make.                  *)
LEMMA FlattenIs ==
  ASSUME NEW S, NEW ss \in Seq(Seq(S)), Len(ss) # 0
  PROVE  \E f : /\ f[1] = ss[1]
                /\ \A i \in 2 .. Len(ss) : f[i] = f[i - 1] \o ss[i]
                /\ FlattenSeq(ss) = f[Len(ss)]
  <1> DEFINE n == Len(ss)
             Next2(g, i) == IF i = 1 THEN ss[i] ELSE g[i - 1] \o ss[i]
             Made == {m \in Nat : \E g : g = [i \in 1 .. m |-> Next2(g, i)]}
  <1>1. n \in Nat
    BY LenProperties
  <1>2. 0 \in Made
    <2>1. \E g : g = [i \in 1 .. 0 |-> Next2(g, i)]
      <3> DEFINE e == [i \in 1 .. 0 |-> 0]
      <3>1. e = [i \in 1 .. 0 |-> Next2(e, i)]
        OBVIOUS
      <3> QED
        BY <3>1
    <2> QED
      BY <2>1
  <1>3. ASSUME NEW m \in 0 .. n - 1, m \in Made PROVE m + 1 \in Made
    <2>1. PICK g : g = [i \in 1 .. m |-> Next2(g, i)]
      BY <1>3
    <2> DEFINE g2 == [i \in 1 .. m + 1 |-> IF i = m + 1 THEN Next2(g, i) ELSE g[i]]
    <2>2. \A i \in 1 .. m : g[i] = Next2(g, i)
      BY <2>1
    <2>3. \A i \in 1 .. m + 1 : g2[i] = Next2(g2, i)
      <3> SUFFICES ASSUME NEW i \in 1 .. m + 1 PROVE g2[i] = Next2(g2, i)
        OBVIOUS
      <3>1. i # 1 => i - 1 \in 1 .. m /\ i - 1 # m + 1
        OBVIOUS
      <3>2. i # 1 => g2[i - 1] = g[i - 1]
        BY <3>1
      <3>3. Next2(g2, i) = Next2(g, i)
        BY <3>2
      <3> QED
        BY <2>2, <3>3
    <2>4. g2 = [i \in 1 .. m + 1 |-> g2[i]]
      OBVIOUS
    <2> HIDE DEF g2
    <2>5. g2 = [i \in 1 .. m + 1 |-> Next2(g2, i)]
      BY <2>3, <2>4
    <2>6. \E h : h = [i \in 1 .. m + 1 |-> Next2(h, i)]
      BY <2>5
    <2>7. m + 1 \in Nat
      BY <1>1
    <2> QED
      BY <2>6, <2>7
  <1>4. \E g : g = [i \in 1 .. n |-> Next2(g, i)]
    <2> HIDE DEF Made, n
    <2>1. \A i \in 0 .. n - 1 : i \in Made => i + 1 \in Made
      BY <1>3
    <2>2. \A i \in 0 .. n : i \in Made
      BY <1>1, <1>2, <2>1, Induction
    <2>3. n \in Made
      BY <1>1, <2>2
    <2> QED
      BY <2>3 DEF Made
  <1> DEFINE f == CHOOSE g : g = [i \in 1 .. n |-> Next2(g, i)]
  <1>5. f = [i \in 1 .. n |-> Next2(f, i)]
    BY <1>4
  <1>6. FlattenSeq(ss) = f[n]
    BY DEF FlattenSeq
  <1> HIDE DEF f
  <1>7. \A i \in 1 .. n : f[i] = Next2(f, i)
    BY <1>5
  <1>8. n \in Nat \ {0}
    BY <1>1
  <1> HIDE DEF n
  <1>9. f[1] = ss[1] /\ \A i \in 2 .. n : f[i] = f[i - 1] \o ss[i]
    <2>1. 1 \in 1 .. n /\ \A i \in 2 .. n : i \in 1 .. n /\ i # 1
      BY <1>8
    <2>2. f[1] = ss[1]
      BY <1>7, <2>1
    <2>3. ASSUME NEW i \in 2 .. n PROVE f[i] = f[i - 1] \o ss[i]
      BY <1>7, <2>1
    <2> QED
      BY <2>2, <2>3
  <1>10. \E g : g[1] = ss[1] /\ (\A i \in 2 .. n : g[i] = g[i - 1] \o ss[i]) /\ FlattenSeq(ss) = g[n]
    BY <1>6, <1>9
  <1> QED
    BY <1>10 DEF n

LEMMA LineIs ==
  ASSUME NEW p \in Pair, NEW v \in 1 .. MaxVersion
  PROVE  /\ Size[p] \in Nat \ {0} /\ Line(p, v) \in Seq(Chunk) /\ Len(Line(p, v)) = Size[p]
         /\ \A i \in 1 .. Size[p] : Line(p, v)[i] = <<p, v, i>>
  <1>1. Size[p] \in Nat \ {0}
    BY LineAssumption
  <1>2. ASSUME NEW i \in 1 .. Size[p] PROVE <<p, v, i>> \in Chunk
    BY <1>1 DEF Chunk
  <1>3. Line(p, v) \in Seq(Chunk)
    BY <1>1, <1>2, IsASeq DEF Line
  <1> QED
    BY <1>1, <1>3 DEF Line

(* One more line.                                                          *)
LEMMA AddLine ==
  ASSUME NEW f \in Seq(Chunk), Uncut(f), NEW p \in Pair, NEW v \in 1 .. MaxVersion
  PROVE  /\ f \o Line(p, v) \in Seq(Chunk) /\ Uncut(f \o Line(p, v))
         /\ FullLines(f \o Line(p, v)) = FullLines(f) \cup {<<p, v>>}
  <1> DEFINE l == Line(p, v)
             g == f \o l
             n == Len(f)
             z == Size[p]
  <1>1. /\ z \in Nat \ {0} /\ l \in Seq(Chunk) /\ Len(l) = z
        /\ \A i \in 1 .. z : l[i] = <<p, v, i>>
    BY LineIs
  <1> HIDE DEF l
  <1>2. /\ g \in Seq(Chunk) /\ Len(g) = n + z /\ n \in Nat
        /\ \A i \in 1 .. n + z : g[i] = IF i <= n THEN f[i] ELSE l[i - n]
    <2>1. g \in Seq(Chunk) /\ Len(g) = Len(f) + Len(l)
      BY <1>1, ConcatProperties
    <2>2. \A i \in 1 .. Len(f) + Len(l) : g[i] = IF i <= Len(f) THEN f[i] ELSE l[i - Len(f)]
      BY <1>1, ConcatProperties
    <2>3. Len(f) \in Nat
      BY LenProperties
    <2> HIDE DEF g
    <2> QED
      BY <1>1, <2>1, <2>2, <2>3
  <1> HIDE DEF g, n, z
  <1>3. /\ \A i \in 1 .. n : g[i] = f[i]
        /\ \A i \in n + 1 .. n + z : g[i] = <<p, v, i - n>>
    <2>1. \A i \in 1 .. n : i \in 1 .. n + z /\ i <= n
      BY <1>1, <1>2
    <2>2. \A i \in n + 1 .. n + z : i \in 1 .. n + z /\ ~(i <= n) /\ i - n \in 1 .. z
      BY <1>1, <1>2
    <2> QED
      BY <1>1, <1>2, <2>1, <2>2
  <1>4. Uncut(g)
    <2> SUFFICES ASSUME NEW i \in 1 .. n + z
                 PROVE  /\ g[i][3] = 1 \/ (i > 1 /\ NextChunk(g[i - 1]) = g[i])
                        /\ g[i][3] = Size[g[i][1]] \/ (i < n + z /\ g[i + 1] = NextChunk(g[i]))
      BY <1>2 DEF Uncut
    <2>1. CASE i <= n
      <3>1. /\ f[i][3] = 1 \/ (i > 1 /\ NextChunk(f[i - 1]) = f[i])
            /\ f[i][3] = Size[f[i][1]] \/ (i < n /\ f[i + 1] = NextChunk(f[i]))
        BY <1>2, <2>1 DEF Uncut, n
      <3>2. /\ g[i] = f[i] /\ (i > 1 => g[i - 1] = f[i - 1]) /\ (i < n => g[i + 1] = f[i + 1])
            /\ (i < n => i < n + z)
        BY <1>1, <1>2, <1>3, <2>1
      <3> QED
        BY <3>1, <3>2
    <2>2. CASE i > n
      <3>1. g[i] = <<p, v, i - n>>
        BY <1>1, <1>2, <1>3, <2>2
      <3>2. i - n = 1 \/ (i > 1 /\ g[i - 1] = <<p, v, i - n - 1>>)
        <4>1. i - n # 1 => i - 1 \in n + 1 .. n + z /\ i > 1 /\ i - 1 - n = i - n - 1
          BY <1>1, <1>2, <2>2
        <4> QED
          BY <1>3, <4>1
      <3>3. i - n = z \/ (i < n + z /\ g[i + 1] = <<p, v, i - n + 1>>)
        <4> SUFFICES ASSUME i - n # z PROVE i < n + z /\ g[i + 1] = <<p, v, i - n + 1>>
          OBVIOUS
        <4>1. i + 1 \in n + 1 .. n + z /\ i < n + z /\ i + 1 - n = i - n + 1
          BY <1>1, <1>2, <2>2
        <4>2. g[i + 1] = <<p, v, i + 1 - n>>
          BY <1>1, <1>2, <1>3, <4>1
        <4> QED
          BY <4>1, <4>2
      <3>4. i - n - 1 + 1 = i - n
        BY <1>2
      <3> QED
        BY <3>1, <3>2, <3>3, <3>4 DEF NextChunk, z
    <2> QED
      BY <1>2, <2>1, <2>2
  <1>5. ASSUME NEW c \in FullLines(f) PROVE c \in FullLines(g)
    <2>1. c \in Pair \X (1 .. MaxVersion) /\ Size[c[1]] \in Nat \ {0}
      BY <1>5, LineAssumption DEF FullLines
    <2>2. PICK i \in 0 .. n - Size[c[1]] :
            \A k \in 1 .. Size[c[1]] : f[i + k] = Line(c[1], c[2])[k]
      BY <1>5 DEF FullLines, n
    <2>3. i \in 0 .. Len(g) - Size[c[1]] /\ \A k \in 1 .. Size[c[1]] : i + k \in 1 .. n
      BY <1>1, <1>2, <2>1
    <2>4. \A k \in 1 .. Size[c[1]] : g[i + k] = Line(c[1], c[2])[k]
      BY <1>3, <2>2, <2>3
    <2> QED
      BY <2>1, <2>3, <2>4 DEF FullLines
  <1>6. <<p, v>> \in FullLines(g)
    <2>1. n \in 0 .. Len(g) - z /\ \A k \in 1 .. z : n + k \in n + 1 .. n + z /\ n + k - n = k
      BY <1>1, <1>2
    <2>2. \A k \in 1 .. z : g[n + k] = Line(p, v)[k]
      <3> SUFFICES ASSUME NEW k \in 1 .. z PROVE g[n + k] = Line(p, v)[k]
        OBVIOUS
      <3>1. n + k \in n + 1 .. n + z /\ n + k - n = k
        BY <2>1
      <3>2. g[n + k] = <<p, v, n + k - n>>
        BY <1>1, <1>2, <1>3, <3>1
      <3> QED
        BY <1>1, <3>1, <3>2 DEF l
    <2> QED
      BY <2>1, <2>2 DEF FullLines, z
  <1>7. ASSUME NEW c \in FullLines(g) PROVE c \in FullLines(f) \cup {<<p, v>>}
    <2> DEFINE m == Size[c[1]]
    <2>1. /\ c \in Pair \X (1 .. MaxVersion) /\ m \in Nat \ {0}
          /\ \A k \in 1 .. m : Line(c[1], c[2])[k] = <<c[1], c[2], k>>
      <3>1. c \in Pair \X (1 .. MaxVersion)
        BY <1>7 DEF FullLines
      <3>2. c[1] \in Pair /\ c[2] \in 1 .. MaxVersion
        BY <3>1
      <3> QED
        BY <3>1, <3>2, LineIs
    <2>2. PICK i \in 0 .. Len(g) - m : \A k \in 1 .. m : g[i + k] = Line(c[1], c[2])[k]
      BY <1>7 DEF FullLines
    <2> HIDE DEF m
    <2>3. \A k \in 1 .. m : g[i + k] = <<c[1], c[2], k>> /\ i + k \in 1 .. n + z
      <3>1. \A k \in 1 .. m : i + k \in 1 .. n + z
        BY <1>1, <1>2, <2>1
      <3> QED
        BY <2>1, <2>2, <3>1
    <2>4. CASE i >= n
      <3>1. i + 1 \in n + 1 .. n + z /\ 1 \in 1 .. m
        BY <1>2, <2>1, <2>3, <2>4
      <3>2. g[i + 1] = <<p, v, i + 1 - n>>
        BY <1>1, <1>2, <1>3, <3>1
      <3>3. g[i + 1] = <<c[1], c[2], 1>>
        BY <2>3, <3>1
      <3>4. c = <<p, v>>
        BY <2>1, <3>2, <3>3
      <3> QED
        BY <3>4
    <2>5. CASE i < n /\ i + m > n
      <3>1. n - i \in 1 .. m /\ n - i # m /\ n \in 1 .. n /\ i + (n - i) = n
        BY <1>2, <2>1, <2>5
      <3>2. f[n] = <<c[1], c[2], n - i>>
        BY <1>3, <2>3, <3>1
      <3>3. f[n][3] = Size[f[n][1]]
        BY <1>2, <3>1 DEF Uncut, n
      <3>4. n - i = m
        BY <3>2, <3>3 DEF m
      <3> QED
        BY <3>1, <3>4
    <2>6. CASE i + m <= n
      <3>1. i \in 0 .. n - m /\ \A k \in 1 .. m : i + k \in 1 .. n
        BY <1>2, <2>1, <2>6
      <3>2. \A k \in 1 .. m : f[i + k] = Line(c[1], c[2])[k]
        BY <1>3, <2>1, <2>3, <3>1
      <3> QED
        BY <2>1, <3>1, <3>2 DEF FullLines, m, n
    <2> QED
      BY <1>2, <2>1, <2>4, <2>5, <2>6
  <1>8. FullLines(g) = FullLines(f) \cup {<<p, v>>}
    BY <1>5, <1>6, <1>7
  <1> QED
    BY <1>2, <1>4, <1>8 DEF g, l

LEMMA NoLine == <<>> \in Seq(Chunk) /\ Uncut(<<>>) /\ FullLines(<<>>) = {}
  <1>1. <<>> \in Seq(Chunk) /\ Len(<<>>) = 0
    BY EmptySeq
  <1>2. ASSUME NEW c \in FullLines(<<>>) PROVE FALSE
    <2>1. c[1] \in Pair /\ \E i \in 0 .. 0 - Size[c[1]] : TRUE
      BY <1>1, <1>2 DEF FullLines
    <2>2. Size[c[1]] \in Nat \ {0}
      BY <2>1, LineAssumption
    <2> QED
      BY <2>1, <2>2
  <1> QED
    BY <1>1, <1>2 DEF Uncut

(* An order of a finite set has every member.                              *)
LEMMA OrderIs ==
  ASSUME NEW P, IsFiniteSet(P), NEW order \in SetToSeqs(P)
  PROVE  /\ order \in Seq(P) /\ Len(order) \in Nat /\ order \in [1 .. Len(order) -> P]
         /\ \A p \in P : \E i \in 1 .. Len(order) : p = order[i]
  <1> DEFINE n == Cardinality(P)
             D == 1 .. n
  <1>1. n \in Nat
    BY FS_CardinalityType
  <1>2. order \in [D -> P] /\ \A i, j \in D : i # j => order[i] # order[j]
    BY DEF SetToSeqs
  <1>3. order \in Injection(D, P)
    BY <1>2 DEF Injection, IsInjective
  <1>4. Cardinality(D) = n
    <2>1. Cardinality(1 .. n) = IF 1 > n THEN 0 ELSE n - 1 + 1
      BY <1>1, FS_Interval
    <2> QED
      BY <1>1, <2>1
  <1>5. order \in Surjection(D, P)
    BY <1>3, <1>4, FS_Injection
  <1>6. \A p \in P : \E i \in D : p = order[i]
    BY <1>5 DEF Surjection
  <1>7. order \in Seq(P) /\ Len(order) = n
    <2>1. order = [i \in 1 .. n |-> order[i]] /\ \A i \in 1 .. n : order[i] \in P
      BY <1>2
    <2> HIDE DEF n
    <2>2. [i \in 1 .. n |-> order[i]] \in Seq(P)
      BY <1>1, <2>1, IsASeq
    <2>3. order \in Seq(P)
      BY <2>1, <2>2
    <2>4. DOMAIN order = 1 .. n /\ DOMAIN order = 1 .. Len(order) /\ Len(order) \in Nat
      BY <2>1, <2>3, LenProperties
    <2> QED
      BY <1>1, <2>3, <2>4
  <1> QED
    BY <1>1, <1>2, <1>6, <1>7

(* The lines of the stored pairs in some order, and nothing else.          *)
LEMMA BodyLines ==
  ASSUME NEW s \in [Pair -> 0 .. MaxVersion], NEW b \in Bodies(s)
  PROVE  /\ b \in Seq(Chunk) /\ Uncut(b)
         /\ \A c : c \in FullLines(b) <=> \E p \in Pair : s[p] # 0 /\ c = <<p, s[p]>>
  <1> DEFINE P == {p \in Pair : s[p] # 0}
  <1>1. PICK order \in SetToSeqs(P) :
          b = FlattenSeq([i \in 1 .. Len(order) |-> Line(order[i], s[order[i]])])
    BY DEF Bodies
  <1> DEFINE n  == Len(order)
             ss == [i \in 1 .. n |-> Line(order[i], s[order[i]])]
             Of(k) == {<<order[i], s[order[i]]>> : i \in 1 .. k}
  <1>2. IsFiniteSet(P)
    BY LineAssumption, FS_Subset
  <1>3. /\ n \in Nat /\ \A i \in 1 .. n : order[i] \in P
        /\ \A p \in P : \E i \in 1 .. n : p = order[i]
    <2> HIDE DEF P
    <2>1. /\ n \in Nat /\ order \in [1 .. n -> P]
          /\ \A p \in P : \E i \in 1 .. n : p = order[i]
      BY <1>1, <1>2, OrderIs
    <2> QED
      BY <2>1
  <1>4. \A i \in 1 .. n : order[i] \in Pair /\ s[order[i]] \in 1 .. MaxVersion
    BY <1>3, BoundAssumption
  <1>5. \A c : c \in Of(n) <=> \E p \in Pair : s[p] # 0 /\ c = <<p, s[p]>>
    BY <1>3
  <1> HIDE DEF P, n
  <1>6. \A i \in 1 .. n : ss[i] = Line(order[i], s[order[i]]) /\ ss[i] \in Seq(Chunk)
    BY <1>4, LineIs
  <1>7. ss \in Seq(Seq(Chunk)) /\ Len(ss) = n
    BY <1>3, <1>6, IsASeq
  <1>8. b = FlattenSeq(ss)
    BY <1>1 DEF n
  <1> HIDE DEF ss
  <1>9. CASE n = 0
    <2>1. ss = <<>>
      BY <1>7, <1>9, EmptySeq
    <2>2. b = <<>> /\ Of(n) = {}
      BY <1>7, <1>8, <1>9, <2>1 DEF FlattenSeq
    <2> QED
      BY <1>5, <2>2, NoLine
  <1>10. CASE n # 0
    <2>1. PICK f : /\ f[1] = ss[1]
                   /\ \A i \in 2 .. n : f[i] = f[i - 1] \o ss[i]
                   /\ FlattenSeq(ss) = f[n]
      BY <1>7, <1>10, FlattenIs
    <2> DEFINE Good(k) == f[k] \in Seq(Chunk) /\ Uncut(f[k]) /\ FullLines(f[k]) = Of(k)
               G == {k \in Nat : Good(k + 1)}
    <2>2. ASSUME NEW e \in Seq(Chunk), Uncut(e), NEW k \in 1 .. n, FullLines(e) = Of(k - 1),
                 f[k] = e \o ss[k]
          PROVE  Good(k)
      <3>1. f[k] = e \o Line(order[k], s[order[k]])
        BY <1>6, <2>2
      <3>2. f[k] \in Seq(Chunk) /\ Uncut(f[k])
            /\ FullLines(f[k]) = Of(k - 1) \cup {<<order[k], s[order[k]]>>}
        BY <1>4, <2>2, <3>1, AddLine
      <3>3. \A i : i \in 1 .. k <=> i \in 1 .. k - 1 \/ i = k
        BY <1>3
      <3>4. Of(k - 1) \cup {<<order[k], s[order[k]]>>} = Of(k)
        BY <3>3
      <3> QED
        BY <3>2, <3>4
    <2>3. Good(1)
      <3>1. 1 \in 1 .. n /\ Of(1 - 1) = {}
        BY <1>3, <1>10
      <3>2. f[1] = <<>> \o ss[1]
        BY <1>6, <2>1, <3>1, ConcatEmptySeq
      <3> HIDE DEF Good, Of
      <3> QED
        BY <1>3, <2>2, <3>1, <3>2, NoLine
    <2>4. ASSUME NEW k \in 2 .. n, Good(k - 1) PROVE Good(k)
      <3>1. k \in 1 .. n
        BY <1>3
      <3>2. f[k] = f[k - 1] \o ss[k]
        BY <2>1
      <3>3. f[k - 1] \in Seq(Chunk) /\ Uncut(f[k - 1]) /\ FullLines(f[k - 1]) = Of(k - 1)
        BY <2>4
      <3> HIDE DEF Good, Of
      <3> QED
        BY <2>2, <3>1, <3>2, <3>3
    <2> HIDE DEF Good
    <2>5. 0 \in G /\ n - 1 \in Nat /\ \A k \in 0 .. n - 1 - 1 : k \in G => k + 1 \in G
      <3>1. 0 \in G /\ n - 1 \in Nat
        BY <1>3, <1>10, <2>3
      <3>2. ASSUME NEW k \in 0 .. n - 1 - 1, k \in G PROVE k + 1 \in G
        <4>1. k + 1 + 1 \in 2 .. n /\ k + 1 + 1 - 1 = k + 1 /\ k + 1 \in Nat
          BY <1>3
        <4>2. Good(k + 1 + 1 - 1)
          BY <3>2, <4>1
        <4>3. Good(k + 1 + 1)
          BY <2>4, <4>1, <4>2
        <4> QED
          BY <4>1, <4>3
      <3> QED
        BY <3>1, <3>2
    <2> HIDE DEF G
    <2>6. \A k \in 0 .. n - 1 : k \in G
      BY <2>5, Induction
    <2>7. n - 1 \in 0 .. n - 1 /\ n - 1 + 1 = n
      BY <1>3, <2>5
    <2>8. Good(n)
      BY <2>6, <2>7 DEF G
    <2>9. b \in Seq(Chunk) /\ Uncut(b) /\ FullLines(b) = Of(n)
      BY <1>8, <2>1, <2>8 DEF Good
    <2> QED
      BY <1>5, <2>9
  <1> QED
    BY <1>9, <1>10

(* What was written reads as what was saved.                               *)
LEMMA BodyIs ==
  ASSUME NEW s \in [Pair -> 0 .. MaxVersion], NEW b \in Bodies(s)
  PROVE  b \in Seq(Chunk) /\ Uncut(b) /\ Contents(b) = s
  <1>1. \A c : c \in FullLines(b) <=> \E p \in Pair : s[p] # 0 /\ c = <<p, s[p]>>
    BY BodyLines
  <1>2. ASSUME NEW p \in Pair PROVE Contents(b)[p] = s[p]
    <2>1. CASE s[p] = 0
      <3>1. ~ \E c \in FullLines(b) : c[1] = p
        BY <1>1, <2>1
      <3> QED
        BY <2>1, <3>1 DEF Contents
    <2>2. CASE s[p] # 0
      <3>1. <<p, s[p]>> \in FullLines(b) /\ \A c \in FullLines(b) : c[1] = p => c = <<p, s[p]>>
        BY <1>1, <2>2
      <3>2. s[p] \in 1 .. MaxVersion /\ MaxVersion \in Nat
        BY <2>2, BoundAssumption
      <3>3. <<p, s[p]>>[1] = p /\ <<p, s[p]>>[2] = s[p]
        OBVIOUS
      <3> DEFINE Top(v) == <<p, v>> \in FullLines(b) /\ \A c \in FullLines(b) : c[1] = p => c[2] <= v
      <3>4. Top(s[p])
        BY <3>1, <3>2, <3>3
      <3>5. ASSUME NEW v \in 1 .. MaxVersion, Top(v) PROVE v = s[p]
        <4>1. <<p, v>> = <<p, s[p]>>
          BY <3>1, <3>5
        <4> QED
          BY <4>1
      <3>6. Contents(b)[p] = CHOOSE v \in 1 .. MaxVersion : Top(v)
        BY <3>1, <3>3 DEF Contents
      <3> HIDE DEF Top
      <3> QED
        BY <3>2, <3>4, <3>5, <3>6
    <2> QED
      BY <2>1, <2>2
  <1>3. Contents(b) = s
    BY <1>2 DEF Contents
  <1> QED
    BY <1>3, BodyLines

(* A line for a pair in the file is a version of it in the contents.       *)
LEMMA ContentsHas ==
  ASSUME NEW f \in Seq(Chunk), NEW c \in FullLines(f)
  PROVE  Contents(f)[c[1]] \in 1 .. MaxVersion
  <1> DEFINE p  == c[1]
             Vs == {v \in 1 .. MaxVersion : <<p, v>> \in FullLines(f)}
  <1>1. c \in Pair \X (1 .. MaxVersion) /\ \A d \in FullLines(f) : d \in Pair \X (1 .. MaxVersion)
    BY DEF FullLines
  <1>2. c = <<p, c[2]>> /\ p \in Pair /\ c[2] \in 1 .. MaxVersion
    BY <1>1
  <1>3. Vs \in SUBSET (0 .. MaxVersion) /\ Vs # {} /\ MaxVersion \in Nat
    BY <1>2, BoundAssumption
  <1>4. PICK v \in Vs : \A u \in Vs : u <= v
    BY <1>3, HasGreatest
  <1> DEFINE Top(w) == <<p, w>> \in FullLines(f) /\ \A d \in FullLines(f) : d[1] = p => d[2] <= w
  <1>5. v \in 1 .. MaxVersion /\ Top(v)
    <2>1. ASSUME NEW d \in FullLines(f), d[1] = p PROVE d[2] <= v
      <3>1. d = <<p, d[2]>> /\ d[2] \in 1 .. MaxVersion
        BY <1>1, <2>1
      <3> QED
        BY <1>4, <3>1
    <2> QED
      BY <1>4, <2>1
  <1>6. Contents(f)[p] = CHOOSE w \in 1 .. MaxVersion : Top(w)
    BY <1>2 DEF Contents
  <1> HIDE DEF Top
  <1> QED
    BY <1>5, <1>6

-----------------------------------------------------------------------------
(* What is written over a file.                                            *)
LEMMA OverIs ==
  ASSUME NEW b \in Seq(Chunk), NEW f \in Seq(Chunk)
  PROVE  Over(b, f) \in Seq(Chunk) /\ (f = <<>> => Over(b, f) = b)
  <1> DEFINE m == Len(b)
             n == Len(f)
             rest == SubSeq(f, m + 1, n)
  <1>1. m \in Nat /\ n \in Nat /\ \A i \in 1 .. n : f[i] \in Chunk
    BY LenProperties, ElementOfSeq
  <1>2. \A i \in m + 1 .. n : f[i] \in Chunk
    BY <1>1
  <1>3. /\ rest \in Seq(Chunk)
        /\ Len(rest) = IF m + 1 <= n THEN n - (m + 1) + 1 ELSE 0
    BY <1>1, <1>2, SubSeqProperties
  <1>4. Over(b, f) = b \o rest
    BY DEF Over
  <1>5. ASSUME f = <<>> PROVE b \o rest = b
    <2>1. n = 0
      BY <1>5, EmptySeq
    <2> HIDE DEF m, n, rest
    <2>2. Len(rest) = 0
      BY <1>1, <1>3, <2>1
    <2>3. rest = <<>>
      BY <1>3, <2>2, EmptySeq
    <2> QED
      BY <2>3, ConcatEmptySeq
  <1> HIDE DEF rest
  <1> QED
    BY <1>3, <1>4, <1>5, ConcatProperties

LEMMA CutsType ==
  ASSUME TypeOK, NEW w \in Writer, NEW f \in Cuts(w) \cup Overs(w)
  PROVE  f \in Seq(Chunk)
  <1>1. datas[w] \in [Pair -> 0 .. MaxVersion] /\ file \in Seq(Chunk)
    BY DEF TypeOK
  <1>2. CASE f \in Overs(w)
    BY <1>1, <1>2, BodyIs, OverIs DEF Overs
  <1>3. CASE f \in Cuts(w)
    <2>0. PICK b \in Bodies(datas[w]) : \E n \in 0 .. Len(b) - 1 : f = Over(SubSeq(b, 1, n), file)
      BY <1>3 DEF Cuts
    <2>1. PICK n \in 0 .. Len(b) - 1 : f = Over(SubSeq(b, 1, n), file)
      BY <2>0
    <2>2. b \in Seq(Chunk) /\ Len(b) \in Nat /\ \A i \in 1 .. Len(b) : b[i] \in Chunk
      BY <1>1, BodyIs, LenProperties, ElementOfSeq
    <2>3. n \in Int /\ \A i \in 1 .. n : b[i] \in Chunk
      BY <2>2
    <2>4. SubSeq(b, 1, n) \in Seq(Chunk)
      BY <2>2, <2>3, SubSeqProperties
    <2> QED
      BY <1>1, <2>1, <2>4, OverIs
  <1> QED
    BY <1>2, <1>3

LEMMA ContentsType ==
  ASSUME NEW f \in Seq(Chunk)
  PROVE  Contents(f) \in [Pair -> 0 .. MaxVersion]
  <1>1. ASSUME NEW p \in Pair PROVE Contents(f)[p] \in 0 .. MaxVersion
    <2>1. CASE \E c \in FullLines(f) : c[1] = p
      <3>1. PICK c \in FullLines(f) : c[1] = p
        BY <2>1
      <3> QED
        BY <3>1, ContentsHas
    <2>2. CASE ~ \E c \in FullLines(f) : c[1] = p
      BY <2>2, BoundAssumption DEF Contents
    <2> QED
      BY <2>1, <2>2
  <1> QED
    BY <1>1 DEF Contents

-----------------------------------------------------------------------------
LEMMA NothingType == Nothing \in [Pair -> 0 .. MaxVersion]
  BY BoundAssumption DEF Nothing

LEMMA InvInit == Init => IInv
  <1> SUFFICES ASSUME Init PROVE IInv
    OBVIOUS
  <1>1. file \in Seq(Chunk) /\ Uncut(file) /\ FullLines(file) = {}
    BY NoLine DEF Init
  <1>2. Contents(file) = saved
    BY <1>1 DEF Init, Contents, Nothing
  <1>3. TypeOK
    <2>1. garbage \in BOOLEAN /\ closed \in BOOLEAN /\ whole \in BOOLEAN /\ alone \in BOOLEAN
      BY DEF Init
    <2> QED
      BY <1>1, <2>1, NothingType, BoundAssumption DEF Init, TypeOK
  <1> QED
    BY <1>1, <1>2, <1>3 DEF Init, IInv, SavedIsThere, Quiet, Closing, LeftAlone, Writer, Running

LEMMA StartStep ==
  ASSUME IInv, NEW result \in {"run", "refused"}, NEW bad \in BOOLEAN, Started(result, bad),
         stops <= MaxStop
  PROVE  IInv'
  <1>1. Contents(file) \in [Pair -> 0 .. MaxVersion]
    BY ContentsType DEF IInv, TypeOK
  <1>2. TypeOK'
    <2>1. garbage' \in BOOLEAN /\ closed' \in BOOLEAN /\ whole' \in BOOLEAN /\ alone' \in BOOLEAN
      BY DEF Started, IInv, TypeOK
    <2> QED
      BY <1>1, <2>1, NothingType DEF Started, IInv, TypeOK
  <1>3. \A w \in Writer : pc'[w] = "sleep"
    BY DEF Started
  <1> QED
    BY <1>2, <1>3 DEF Started, IInv, SavedIsThere, Quiet, Closing, LeftAlone, Writer, Running

LEMMA WriteStep ==
  ASSUME IInv, NEW w \in Writer, Write(w)
  PROVE  IInv'
  <1>1. PICK b \in Bodies(datas[w]) : file' = Over(b, file)
    BY DEF Write, Overs
  <1>2. /\ pc[w] = "open" /\ Running /\ saved' = datas[w]
        /\ whole' = (file = <<>> /\ ~OthersOpen(w))
        /\ pc' = [pc EXCEPT ![w] = IF w = Main THEN "end" ELSE "sleep"]
        /\ datas' = [datas EXCEPT ![w] = Nothing]
        /\ UNCHANGED <<proc, stops, store, garbage, closed, alone>>
    BY DEF Write, Ends
  <1>3. /\ file \in Seq(Chunk) /\ datas[w] \in [Pair -> 0 .. MaxVersion]
        /\ b \in Seq(Chunk) /\ Uncut(b) /\ Contents(b) = datas[w]
    BY BodyIs DEF IInv, TypeOK
  <1>4. file' \in Seq(Chunk) /\ (file = <<>> => file' = b)
    BY <1>1, <1>3, OverIs
  <1>5. TypeOK'
    BY <1>2, <1>3, <1>4, BoundAssumption DEF IInv, TypeOK, Nothing
  <1>6. SavedIsThere'
    BY <1>2, <1>3, <1>4 DEF SavedIsThere
  <1>7. Quiet'
    BY <1>2 DEF Quiet, OthersOpen, IInv, TypeOK
  <1>8. Closing'
    BY <1>2, WriterAssumption DEF IInv, TypeOK, Closing, Running, Writer
  <1>9. LeftAlone'
    <2>1. SUFFICES ASSUME alone, proc \in {"shutdown", "exit"}
                   PROVE  /\ pc'[Minute] \in {"sleep", "end"}
                          /\ pc'[Main] = "open" => file' = <<>>
                          /\ pc'[Main] = "end" => whole'
      BY <1>2 DEF LeftAlone
    <2>2. pc[Minute] \in {"sleep", "end"} /\ (pc[Main] = "open" => file = <<>>)
      BY <2>1 DEF IInv, LeftAlone
    <2>3. w = Main
      BY <1>2, <2>2 DEF Writer
    <2>4. ~OthersOpen(w)
      BY <2>2, <2>3 DEF OthersOpen, Writer
    <2> QED
      BY <1>2, <2>2, <2>3, <2>4, WriterAssumption DEF IInv, TypeOK, Writer
  <1> QED
    BY <1>5, <1>6, <1>7, <1>8, <1>9 DEF IInv

LEMMA OpenFailsStep ==
  ASSUME IInv, NEW w \in Writer, OpenFails(w)
  PROVE  IInv'
  <1>1. /\ Running /\ alone' = FALSE
        /\ pc' = [pc EXCEPT ![w] = IF w = Main THEN "end" ELSE "sleep"]
        /\ datas' = [datas EXCEPT ![w] = Nothing]
        /\ UNCHANGED <<proc, stops, store, garbage, file, closed, saved, whole>>
    BY DEF OpenFails, Ends
  <1>2. TypeOK'
    <2>1. garbage' \in BOOLEAN /\ closed' \in BOOLEAN /\ whole' \in BOOLEAN /\ alone' \in BOOLEAN
      BY <1>1 DEF IInv, TypeOK
    <2> QED
      BY <1>1, <2>1, NothingType DEF IInv, TypeOK
  <1>3. Closing'
    BY <1>1, WriterAssumption DEF OpenFails, IInv, TypeOK, Closing, Running, Writer
  <1>4. Quiet'
    BY <1>1 DEF IInv, TypeOK, Quiet
  <1> QED
    BY <1>1, <1>2, <1>3, <1>4 DEF IInv, SavedIsThere, LeftAlone

LEMMA WriteFailsStep ==
  ASSUME IInv, NEW w \in Writer, WriteFails(w)
  PROVE  IInv'
  <1>1. /\ pc[w] = "open" /\ Running /\ alone' = FALSE
        /\ pc' = [pc EXCEPT ![w] = IF w = Main THEN "end" ELSE "sleep"]
        /\ datas' = [datas EXCEPT ![w] = Nothing]
        /\ UNCHANGED <<proc, stops, store, garbage, closed, saved, whole>>
    BY DEF WriteFails, Ends
  <1>2. file' \in Seq(Chunk)
    BY CutsType DEF IInv, WriteFails
  <1>3. ~whole
    BY <1>1 DEF IInv, Quiet
  <1>4. TypeOK'
    <2>1. garbage' \in BOOLEAN /\ closed' \in BOOLEAN /\ whole' \in BOOLEAN /\ alone' \in BOOLEAN
      BY <1>1 DEF IInv, TypeOK
    <2> QED
      BY <1>1, <1>2, <2>1, NothingType DEF IInv, TypeOK
  <1>5. Closing'
    BY <1>1, WriterAssumption DEF IInv, TypeOK, Closing, Running, Writer
  <1> QED
    BY <1>1, <1>3, <1>4, <1>5 DEF IInv, SavedIsThere, Quiet, LeftAlone

LEMMA GoneStep ==
  ASSUME IInv, Running, Gone, stops \in 0 .. MaxStop, UNCHANGED file \/ ~whole, file' \in Seq(Chunk)
  PROVE  IInv'
  <1>1. TypeOK'
    <2>1. garbage' \in BOOLEAN /\ closed' \in BOOLEAN /\ whole' \in BOOLEAN /\ alone' \in BOOLEAN
      BY DEF Gone, IInv, TypeOK
    <2> QED
      BY <2>1, NothingType, BoundAssumption DEF IInv, TypeOK, Gone
  <1>2. SavedIsThere'
    BY DEF IInv, SavedIsThere, Gone
  <1>3. Quiet' /\ Closing' /\ LeftAlone'
    BY DEF Gone, Quiet, Closing, LeftAlone, Writer, Running
  <1> QED
    BY <1>1, <1>2, <1>3 DEF IInv

LEMMA InvStep == IInv /\ [Next]_vars => IInv'
  <1> SUFFICES ASSUME IInv, [Next]_vars PROVE IInv'
    OBVIOUS
  <1>1. CASE stops <= MaxStop /\ (Start \/ StartFails \/ StartGarbled)
    BY <1>1, StartStep DEF Start, StartFails, StartGarbled
  <1>2. ASSUME NEW p \in Pair, Learn(p) PROVE IInv'
    <2>1. TypeOK'
      BY <1>2, BoundAssumption DEF Learn, IInv, TypeOK
    <2> QED
      BY <1>2, <2>1 DEF Learn, IInv, SavedIsThere, Quiet, Closing, LeftAlone, Running
  <1>3. CASE Wake
    <2>1. TypeOK'
      BY <1>3 DEF Wake, IInv, TypeOK, Writer
    <2>2. \A w \in Writer : pc'[w] = IF w = Minute THEN IF closed THEN "end" ELSE "checked" ELSE pc[w]
      BY <1>3 DEF Wake, IInv, TypeOK, Writer
    <2> QED
      BY <1>3, <2>1, <2>2, WriterAssumption
         DEF Wake, IInv, SavedIsThere, Quiet, Closing, LeftAlone, Running, Writer
  <1>4. CASE ShutDown
    <2>1. TypeOK'
      BY <1>4 DEF ShutDown, IInv, TypeOK, Writer
    <2>2. \A w \in Writer : pc'[w] = IF w = Main THEN "checked" ELSE pc[w]
      BY <1>4 DEF ShutDown, IInv, TypeOK, Writer
    <2>3. SavedIsThere' /\ Quiet' /\ Closing'
      BY <1>4, <2>2 DEF ShutDown, IInv, SavedIsThere, Quiet, Closing, Running, Writer
    <2>4. alone' => pc[Minute] = "sleep"
      BY <1>4 DEF ShutDown
    <2>5. LeftAlone'
      BY <2>2, <2>4, WriterAssumption DEF LeftAlone, Writer
    <2> QED
      BY <2>1, <2>3, <2>5 DEF IInv
  <1>5. ASSUME NEW w \in Writer, Load(w) PROVE IInv'
    <2>1. TypeOK'
      BY <1>5 DEF Load, IInv, TypeOK
    <2>2. \A v \in Writer : pc'[v] = IF v = w THEN "loaded" ELSE pc[v]
      BY <1>5 DEF Load, IInv, TypeOK
    <2> QED
      BY <1>5, <2>1, <2>2, WriterAssumption
         DEF Load, IInv, SavedIsThere, Quiet, Closing, LeftAlone, Running, Writer
  <1>6. ASSUME NEW w \in Writer, Open(w) PROVE IInv'
    <2>1. file' \in Seq(Chunk) /\ whole' \in BOOLEAN
      BY <1>6, EmptySeq DEF Open
    <2>2. TypeOK'
      BY <1>6, <2>1 DEF Open, IInv, TypeOK
    <2>3. \A v \in Writer : pc'[v] = IF v = w THEN "open" ELSE pc[v]
      BY <1>6 DEF Open, IInv, TypeOK
    <2> QED
      BY <1>6, <2>2, <2>3, WriterAssumption
         DEF Open, IInv, SavedIsThere, Quiet, Closing, LeftAlone, Running, Writer
  <1>7. ASSUME NEW w \in Writer, OpenFails(w) \/ Write(w) \/ WriteFails(w) PROVE IInv'
    BY <1>7, OpenFailsStep, WriteStep, WriteFailsStep
  <1>8. CASE Wait
    <2>1. TypeOK'
      BY <1>8 DEF Wait, IInv, TypeOK
    <2> QED
      BY <1>8, <2>1 DEF Wait, IInv, SavedIsThere, Quiet, Closing, LeftAlone, Running
  <1>9. CASE Exit
    BY <1>9, GoneStep DEF Exit, Running, IInv, TypeOK, Closing
  <1>10. CASE Crash
    <2>1. UNCHANGED file \/ \E w \in Writer : pc[w] = "open" /\ file' \in Cuts(w) \cup Overs(w)
      BY <1>10 DEF Crash
    <2>2. file' \in Seq(Chunk) /\ (UNCHANGED file \/ ~whole)
      BY <2>1, CutsType DEF IInv, TypeOK, Quiet
    <2>3. Running /\ Gone /\ stops \in 0 .. MaxStop
      BY <1>10 DEF Crash, IInv, TypeOK, Closing
    <2> QED
      BY <2>2, <2>3, GoneStep
  <1>11. CASE UNCHANGED vars
    BY <1>11 DEF vars, IInv, TypeOK, SavedIsThere, Quiet, Closing, LeftAlone, Running
  <1> QED
    BY <1>1, <1>2, <1>3, <1>4, <1>5, <1>6, <1>7, <1>8, <1>9, <1>10, <1>11 DEF Next, WriteData

(* The state is well typed, and what a save that ended well saved is in    *)
(* the file, complete and readable, until another save opens it: for lines *)
(* of any length, in any order, and wherever the process is killed         *)
(* (datakeeper_file.go:67-87).                                             *)
THEOREM Invariant == Spec => []IInv
  BY InvInit, InvStep, PTL DEF Spec

(* The type invariant alone.                                               *)
THEOREM TypeCorrect == Spec => []TypeOK
  <1>1. IInv => TypeOK
    BY DEF IInv
  <1> QED
    BY <1>1, Invariant, PTL

(* Where the shutdown met the minute loop asleep and its save did not fail *)
(* the last save is the one ShutDown made, and stays (main.go,             *)
(* datakeeper_file.go:57-65).                                              *)
THEOREM LastSave == Spec => []ShutDownLast
  <1>1. IInv => ShutDownLast
    BY DEF IInv, Closing, LeftAlone, ShutDownLast
  <1> QED
    BY <1>1, Invariant, PTL

(* A start after a save that ended well restores exactly what it saved,    *)
(* unless FromFileData refuses a pair of it (datakeeper_file.go:111-156).  *)
THEOREM Restores == Spec => StartRestores
  <1> DEFINE Restored == Starts /\ whole /\ (\A p \in Refused : saved[p] = 0)
                           => proc' = "run" /\ store' = saved /\ ~garbage'
  <1>1. ASSUME IInv, [Next]_vars PROVE Restored
    <2> SUFFICES ASSUME Starts, whole, \A p \in Refused : saved[p] = 0
                 PROVE  proc' = "run" /\ store' = saved /\ ~garbage'
      OBVIOUS
    <2>1. Uncut(file) /\ Contents(file) = saved /\ file \in Seq(Chunk)
      BY <1>1 DEF IInv, TypeOK, SavedIsThere
    <2>2. Readable(file)
      <3> SUFFICES ASSUME NEW c \in FullLines(file), c[1] \in Refused PROVE FALSE
        BY DEF Readable
      <3>1. saved[c[1]] \in 1 .. MaxVersion
        BY <2>1, ContentsHas
      <3>2. saved[c[1]] = 0
        OBVIOUS
      <3> QED
        BY <3>1, <3>2
    <2>3. Start \/ StartFails \/ StartGarbled
      BY <1>1 DEF Starts, Next, Learn, Wake, ShutDown, WriteData, Load, Open, OpenFails, Write, WriteFails,
           Wait, Exit, Crash, Running, vars
    <2>4. Start
      BY <2>1, <2>2, <2>3 DEF StartFails, StartGarbled
    <2> QED
      BY <2>1, <2>4 DEF Start, Started
  <1>2. IInv /\ [Next]_vars => [Restored]_vars
    BY <1>1
  <1> HIDE DEF Restored
  <1>3. Spec => [][Restored]_vars
    BY <1>2, Invariant, PTL DEF Spec
  <1> QED
    BY <1>3 DEF Restored, StartRestores
=============================================================================

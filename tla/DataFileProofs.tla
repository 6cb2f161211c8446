--------------------------- MODULE DataFileProofs ---------------------------
(***************************************************************************)
(* Proofs about DataFile, for a marker and blocks of any size, any number  *)
(* of datums, and any number of writers and readers; and about the numbers *)
(* and bytes of AvroBinary, for any.                                       *)
(***************************************************************************)
EXTENDS DataFile, AvroBinary, SequenceTheorems, FiniteSetTheorems, TLAPS

-----------------------------------------------------------------------------
(* Induction on natural numbers, by way of a least one.                      *)
LEMMA LeastNumber ==
    ASSUME NEW S, S \subseteq Nat, S # {}
    PROVE  \E n \in S : \A m \in S : n <= m
<1> DEFINE less == OpToRel(<, Nat)
<1>1. IsWellFoundedOn(less, Nat)
  BY NatLessThanWellFounded
<1>2. \A i, j \in Nat : i < j => <<i, j>> \in less
  BY DEF OpToRel
<1> HIDE DEF less
<1>3. PICK n \in S : \A m \in S : <<m, n>> \notin less
  BY <1>1, WFMin
<1>4. ASSUME NEW m \in S PROVE n <= m
  <2>1. m \in Nat /\ n \in Nat
    OBVIOUS
  <2>2. ~ (m < n)
    BY <1>2, <1>3, <2>1
  <2> QED
    BY <2>1, <2>2
<1> QED
  BY <1>4

LEMMA InductionOnNat ==
    ASSUME NEW S, 0 \in S, \A n \in Nat : n \in S => n + 1 \in S
    PROVE  Nat \subseteq S
<1> SUFFICES ASSUME Nat \ S # {} PROVE FALSE
  OBVIOUS
<1>1. PICK n \in Nat \ S : \A m \in Nat \ S : n <= m
  BY LeastNumber
<1>2. n # 0 /\ n - 1 \in Nat
  BY <1>1
<1>3. n - 1 \in S
  BY <1>1, <1>2
<1> QED
  BY <1>1, <1>2, <1>3

-----------------------------------------------------------------------------
(* Datums: g takes the datums out of f, those of the first n tokens to g[n]. *)
(* D holds what the tokens of S carry.                                       *)
Carries(S, D) == \A t \in S : t[1] = "tail" => t[2] \in D

Taken(s, t) == IF t[1] = "tail" THEN Append(s, t[2]) ELSE s

Takes(g, f) == g = [n \in 0 .. Len(f) |-> IF n = 0 THEN <<>> ELSE Taken(g[n - 1], f[n])]

LEMMA TakesExist ==
    ASSUME NEW S, NEW D, Carries(S, D), NEW f \in Seq(S)
    PROVE  \E g \in [0 .. Len(f) -> Seq(D)] : Takes(g, f)
<1> DEFINE Up(n) == {g \in [0 .. n -> Seq(D)] :
                        \A i \in 0 .. n : g[i] = IF i = 0 THEN <<>> ELSE Taken(g[i - 1], f[i])}
           Good == {n \in Nat : n <= Len(f) => Up(n) # {}}
<1>1. Len(f) \in Nat /\ \A i \in 1 .. Len(f) : f[i] \in S
  BY LenProperties, ElementOfSeq
<1>2. 0 \in Good
  <2>1. [i \in 0 .. 0 |-> <<>>] \in Up(0)
    BY EmptySeq
  <2> QED
    BY <2>1
<1> HIDE DEF Up
<1>3. ASSUME NEW n \in Nat, n \in Good PROVE n + 1 \in Good
  <2> SUFFICES ASSUME n + 1 <= Len(f) PROVE Up(n + 1) # {}
    OBVIOUS
  <2>1. PICK g \in Up(n) : TRUE
    BY <1>1, <1>3
  <2>2. g \in [0 .. n -> Seq(D)]
        /\ \A i \in 0 .. n : g[i] = IF i = 0 THEN <<>> ELSE Taken(g[i - 1], f[i])
    BY <2>1 DEF Up
  <2> DEFINE last == Taken(g[n], f[n + 1])
             h == [i \in 0 .. n + 1 |-> IF i = n + 1 THEN last ELSE g[i]]
  <2>3. last \in Seq(D)
    <3>1. f[n + 1] \in S /\ g[n] \in Seq(D)
      BY <1>1, <2>2
    <3> QED
      BY <3>1, AppendProperties DEF Taken, Carries
  <2> HIDE DEF last
  <2>4. h \in [0 .. n + 1 -> Seq(D)]
    BY <2>2, <2>3
  <2>5. ASSUME NEW i \in 0 .. n + 1
        PROVE  h[i] = IF i = 0 THEN <<>> ELSE Taken(h[i - 1], f[i])
    <3>1. CASE i = n + 1
      <4>1. h[i] = last /\ h[i - 1] = g[n] /\ i # 0 /\ f[i] = f[n + 1]
        BY <3>1
      <4> QED
        BY <4>1 DEF last
    <3>2. CASE i # n + 1
      <4>1. i \in 0 .. n /\ h[i] = g[i] /\ (i # 0 => h[i - 1] = g[i - 1])
        BY <3>2
      <4> QED
        BY <2>2, <4>1
    <3> QED
      BY <3>1, <3>2
  <2> HIDE DEF h
  <2>6. h \in Up(n + 1)
    BY <2>4, <2>5 DEF Up
  <2> QED
    BY <2>6
<1>4. Len(f) \in Good
  <2> HIDE DEF Good
  <2>1. Nat \subseteq Good
    BY <1>2, <1>3, InductionOnNat
  <2> QED
    BY <1>1, <2>1
<1>5. PICK g \in Up(Len(f)) : TRUE
  <2>1. Len(f) <= Len(f)
    BY <1>1
  <2> QED
    BY <1>4, <2>1
<1>6. g \in [0 .. Len(f) -> Seq(D)] /\ Takes(g, f)
  BY <1>5 DEF Takes, Up
<1> QED
  BY <1>6

LEMMA TakesUnique ==
    ASSUME NEW f, Len(f) \in Nat, NEW g, NEW h, Takes(g, f), Takes(h, f)
    PROVE  g = h
<1> DEFINE Good == {n \in Nat : n <= Len(f) => g[n] = h[n]}
<1>1. \A i \in 0 .. Len(f) : /\ g[i] = IF i = 0 THEN <<>> ELSE Taken(g[i - 1], f[i])
                             /\ h[i] = IF i = 0 THEN <<>> ELSE Taken(h[i - 1], f[i])
  BY DEF Takes
<1>2. 0 \in Good
  BY <1>1
<1>3. ASSUME NEW n \in Nat, n \in Good PROVE n + 1 \in Good
  <2> SUFFICES ASSUME n + 1 <= Len(f) PROVE g[n + 1] = h[n + 1]
    OBVIOUS
  <2> DEFINE m == n + 1
  <2>1. g[n] = h[n]
    BY <1>3
  <2>2. m \in 0 .. Len(f) /\ m # 0 /\ m - 1 = n
    OBVIOUS
  <2> HIDE DEF m
  <2>3. g[m] = Taken(g[n], f[m]) /\ h[m] = Taken(h[n], f[m])
    BY <1>1, <2>2
  <2> QED
    BY <2>1, <2>3 DEF m
<1>4. \A i \in 0 .. Len(f) : g[i] = h[i]
  <2> HIDE DEF Good
  <2>1. Nat \subseteq Good
    BY <1>2, <1>3, InductionOnNat
  <2> QED
    BY <2>1 DEF Good
<1>5. /\ g = [i \in 0 .. Len(f) |-> g[i]]
      /\ h = [i \in 0 .. Len(f) |-> h[i]]
  <2>1. g = [n \in 0 .. Len(f) |-> IF n = 0 THEN <<>> ELSE Taken(g[n - 1], f[n])]
    BY DEF Takes
  <2>2. h = [n \in 0 .. Len(f) |-> IF n = 0 THEN <<>> ELSE Taken(h[n - 1], f[n])]
    BY DEF Takes
  <2> QED
    BY <1>1, <2>1, <2>2, Zenon
<1> QED
  BY <1>4, <1>5

LEMMA DatumsAre ==
    ASSUME NEW f, Len(f) \in Nat, NEW g, Takes(g, f)
    PROVE  Datums(f) = g[Len(f)]
<1> DEFINE Rec(h) == h = [n \in 0 .. Len(f) |->
                            IF n = 0 THEN <<>>
                            ELSE IF f[n][1] = "tail" THEN Append(h[n - 1], f[n][2]) ELSE h[n - 1]]
           upto == CHOOSE h : Rec(h)
<1>1. Datums(f) = upto[Len(f)]
  BY DEF Datums
<1>2. \A h : Rec(h) <=> Takes(h, f)
  BY Zenon DEF Takes, Taken
<1> HIDE DEF Rec
<1>3. Rec(upto)
  BY <1>2, Zenon
<1>4. Takes(upto, f)
  BY <1>2, <1>3
<1> HIDE DEF upto
<1>5. upto = g
  BY <1>4, TakesUnique
<1> QED
  BY <1>1, <1>5

LEMMA DatumsType ==
    ASSUME NEW S, NEW D, Carries(S, D), NEW f \in Seq(S)
    PROVE  Datums(f) \in Seq(D) /\ Datums(<<>>) = <<>>
<1>1. Len(f) \in Nat
  BY LenProperties
<1>2. PICK g \in [0 .. Len(f) -> Seq(D)] : Takes(g, f)
  BY TakesExist
<1>3. Datums(f) = g[Len(f)]
  BY <1>1, <1>2, DatumsAre
<1>4. Len(f) \in 0 .. Len(f)
  BY <1>1
<1> DEFINE h == [n \in 0 .. 0 |-> <<>>]
<1>5. Takes(h, <<>>) /\ Len(<<>>) = 0
  BY EmptySeq DEF Takes
<1>6. h[0] = <<>>
  OBVIOUS
<1> HIDE DEF h
<1>7. Datums(<<>>) = <<>>
  BY <1>5, <1>6, DatumsAre
<1> QED
  BY <1>2, <1>3, <1>4, <1>7

(* A token at the end comes last. *)
LEMMA DatumsAppend ==
    ASSUME NEW S, NEW D, Carries(S, D), NEW f \in Seq(S), NEW t \in S
    PROVE  Datums(Append(f, t)) = Taken(Datums(f), t)
<1> DEFINE n == Len(f)
           a == Append(f, t)
<1>1. /\ n \in Nat /\ a \in Seq(S) /\ Len(a) = n + 1 /\ a[n + 1] = t
      /\ \A i \in 1 .. n : a[i] = f[i]
  BY LenProperties, AppendProperties
<1>2. PICK g \in [0 .. n -> Seq(D)] : Takes(g, f)
  BY TakesExist
<1> HIDE DEF a
<1> DEFINE last == Taken(g[n], t)
           h == [i \in 0 .. n + 1 |-> IF i = n + 1 THEN last ELSE g[i]]
<1>3. \A i \in 0 .. n : g[i] = IF i = 0 THEN <<>> ELSE Taken(g[i - 1], f[i])
  BY <1>2 DEF Takes
<1>4. Datums(f) = g[n]
  BY <1>1, <1>2, DatumsAre
<1> HIDE DEF n, last
<1>5. ASSUME NEW i \in 0 .. n + 1
      PROVE  h[i] = IF i = 0 THEN <<>> ELSE Taken(h[i - 1], a[i])
  <2>1. CASE i = n + 1
    <3>1. h[i] = last /\ h[i - 1] = g[n] /\ i # 0 /\ a[i] = t
      BY <1>1, <2>1
    <3> QED
      BY <3>1 DEF last
  <2>2. CASE i # n + 1
    <3>1. i \in 0 .. n /\ h[i] = g[i] /\ (i # 0 => h[i - 1] = g[i - 1] /\ a[i] = f[i])
      BY <1>1, <2>2
    <3> QED
      BY <1>3, <3>1
  <2> QED
    BY <2>1, <2>2
<1>6. h[n + 1] = last
  BY <1>1
<1>7. h = [i \in 0 .. n + 1 |-> IF i = 0 THEN <<>> ELSE Taken(h[i - 1], a[i])]
  <2>1. h = [i \in 0 .. n + 1 |-> h[i]]
    OBVIOUS
  <2> HIDE DEF h
  <2> QED
    BY <1>5, <2>1
<1> HIDE DEF h
<1>8. Takes(h, a) /\ Len(a) \in Nat
  BY <1>1, <1>7 DEF Takes
<1>9. Datums(a) = h[n + 1]
  BY <1>1, <1>8, DatumsAre
<1> QED
  BY <1>4, <1>6, <1>9 DEF a, last

(* Tokens without datums. *)
LEMMA DatumsNone ==
    ASSUME NEW S, NEW f \in Seq(S), \A i \in 1 .. Len(f) : f[i][1] # "tail"
    PROVE  Datums(f) = <<>>
<1> DEFINE g == [n \in 0 .. Len(f) |-> <<>>]
<1>1. Len(f) \in Nat
  BY LenProperties
<1>2. Takes(g, f)
  BY <1>1 DEF Takes, Taken
<1>3. g[Len(f)] = <<>>
  BY <1>1
<1> HIDE DEF g
<1> QED
  BY <1>1, <1>2, <1>3, DatumsAre

(* Concatenation under a name, which the provers do not take apart. *)
Join(s, t) == s \o t

LEMMA Associative ==
    ASSUME NEW S, NEW s \in Seq(S), NEW t \in Seq(S), NEW u \in Seq(S)
    PROVE  Join(Join(s, t), u) = Join(s, Join(t, u))
BY ConcatAssociative DEF Join

LEMMA JoinProperties ==
    ASSUME NEW S, NEW s \in Seq(S), NEW t \in Seq(S)
    PROVE  /\ Join(s, t) \in Seq(S) /\ Len(Join(s, t)) = Len(s) + Len(t)
           /\ \A i \in 1 .. Len(s) + Len(t) :
                 Join(s, t)[i] = IF i <= Len(s) THEN s[i] ELSE t[i - Len(s)]
BY ConcatProperties DEF Join

LEMMA AppendJoin ==
    ASSUME NEW S, NEW s \in Seq(S), NEW t \in Seq(S), NEW e \in S
    PROVE  Join(s, Append(t, e)) = Append(Join(s, t), e)
<1> DEFINE one == <<e>>
           te  == Append(t, e)
           st  == Join(s, t)
<1>1. one \in Seq(S)
  OBVIOUS
<1>2. te = Join(t, one)
  BY AppendIsConcat DEF Join
<1>3. st \in Seq(S)
  BY JoinProperties
<1>4. Join(st, one) = Join(s, Join(t, one))
  <2> HIDE DEF one
  <2> QED
    BY <1>1, Associative
<1>5. Append(st, e) = Join(st, one)
  <2> HIDE DEF st
  <2> QED
    BY <1>3, AppendIsConcat DEF Join
<1> HIDE DEF one, te, st
<1>6. Join(s, te) = Append(st, e)
  BY <1>2, <1>4, <1>5
<1> QED
  BY <1>6 DEF te, st

(* What two pieces of a file hold is what the one holds and then the other.  *)
LEMMA DatumsJoin ==
    ASSUME NEW S, NEW D, Carries(S, D), NEW f \in Seq(S), NEW g \in Seq(S)
    PROVE  Datums(Join(f, g)) = Join(Datums(f), Datums(g))
<1> DEFINE Good == {n \in Nat : \A h \in Seq(S) :
                        Len(h) = n => Datums(Join(f, h)) = Join(Datums(f), Datums(h))}
<1>1. Datums(f) \in Seq(D) /\ Datums(<<>>) = <<>>
  BY DatumsType
<1>2. 0 \in Good
  <2> SUFFICES ASSUME NEW h \in Seq(S), Len(h) = 0
               PROVE  Datums(Join(f, h)) = Join(Datums(f), Datums(h))
    OBVIOUS
  <2>1. h = <<>>
    BY EmptySeq
  <2>2. Join(f, <<>>) = f /\ Join(Datums(f), <<>>) = Datums(f)
    BY <1>1, ConcatEmptySeq DEF Join
  <2> QED
    BY <1>1, <2>1, <2>2
<1>3. ASSUME NEW n \in Nat, n \in Good PROVE n + 1 \in Good
  <2> SUFFICES ASSUME NEW h \in Seq(S), Len(h) = n + 1
               PROVE  Datums(Join(f, h)) = Join(Datums(f), Datums(h))
    OBVIOUS
  <2>1. h # <<>>
    BY EmptySeq
  <2>2. PICK k \in Seq(S), e \in S : h = Append(k, e)
    BY <2>1, SequenceEmptyOrAppend
  <2>3. Len(k) = n
    BY <2>2, LenProperties, AppendProperties
  <2>4. Datums(Join(f, k)) = Join(Datums(f), Datums(k))
    BY <1>3, <2>3
  <2>5. Datums(h) = Taken(Datums(k), e)
    BY <2>2, DatumsAppend
  <2>6. Join(f, k) \in Seq(S)
    BY JoinProperties
  <2>7. Datums(Join(f, h)) = Taken(Join(Datums(f), Datums(k)), e)
    <3>1. Join(f, h) = Append(Join(f, k), e)
      BY <2>2, AppendJoin
    <3> QED
      BY <2>4, <2>6, <3>1, DatumsAppend
  <2>8. Datums(k) \in Seq(D) /\ (e[1] = "tail" => e[2] \in D)
    BY DatumsType DEF Carries
  <2>9. CASE e[1] = "tail"
    <3> DEFINE a == Datums(f)
               b == Datums(k)
               d == e[2]
    <3>2. a \in Seq(D) /\ b \in Seq(D) /\ d \in D
      BY <1>1, <2>8, <2>9
    <3> HIDE DEF a, b, d
    <3>3. Join(a, Append(b, d)) = Append(Join(a, b), d)
      BY <3>2, AppendJoin
    <3>1. Join(Datums(f), Append(Datums(k), e[2])) = Append(Join(Datums(f), Datums(k)), e[2])
      BY <3>3 DEF a, b, d
    <3> QED
      BY <2>5, <2>7, <2>9, <3>1 DEF Taken
  <2>10. CASE e[1] # "tail"
    BY <2>5, <2>7, <2>10 DEF Taken
  <2> QED
    BY <2>9, <2>10
<1>4. Len(g) \in Good
  <2> HIDE DEF Good
  <2>1. Nat \subseteq Good
    BY <1>2, <1>3, InductionOnNat
  <2> QED
    BY <2>1, LenProperties
<1> QED
  BY <1>4

(* The head and the tail of each datum of a block. *)
Pieces(data) ==
    [i \in 1 .. 2 * Len(data) |-> <<IF i % 2 = 1 THEN "head" ELSE "tail", data[(i + 1) \div 2]>>]

LEMMA DatumsOfPieces ==
    ASSUME NEW D, NEW data \in Seq(D)
    PROVE  Datums(Pieces(data)) = data
<1> DEFINE k == 2 * Len(data)
           p == Pieces(data)
           g == [n \in 0 .. k |-> SubSeq(data, 1, n \div 2)]
<1>1. Len(data) \in Nat /\ k \in Nat /\ \A i \in 1 .. Len(data) : data[i] \in D
  BY LenProperties, ElementOfSeq
<1>2. Len(p) = k /\ \A i \in 1 .. k : p[i] = <<IF i % 2 = 1 THEN "head" ELSE "tail", data[(i + 1) \div 2]>>
  BY <1>1 DEF Pieces
<1> HIDE DEF p, k
<1>3. ASSUME NEW n \in 0 .. k
      PROVE  g[n] = IF n = 0 THEN <<>> ELSE Taken(g[n - 1], p[n])
  <2>1. CASE n = 0
    <3>1. n \div 2 = 0
      BY <2>1
    <3>2. SubSeq(data, 1, 0) = <<>>
      BY SubSeqEmpty
    <3> QED
      BY <2>1, <3>1, <3>2
  <2>2. CASE n # 0 /\ n % 2 = 1
    <3>1. n - 1 \in 0 .. k /\ n \in 1 .. k /\ n \div 2 = (n - 1) \div 2
      BY <1>1, <2>2
    <3>2. p[n][1] = "head"
      BY <1>2, <2>2, <3>1
    <3>3. g[n] = g[n - 1]
      BY <3>1
    <3> HIDE DEF g
    <3> QED
      BY <2>2, <3>2, <3>3 DEF Taken
  <2>3. CASE n # 0 /\ n % 2 # 1
    <3> DEFINE h == n \div 2
    <3>1. /\ n - 1 \in 0 .. k /\ n \in 1 .. k /\ (n - 1) \div 2 = h - 1
          /\ (n + 1) \div 2 = h /\ h \in 1 .. Len(data)
      BY <1>1, <2>3 DEF k
    <3>2. p[n] = <<"tail", data[h]>>
      BY <1>2, <2>3, <3>1
    <3>3. g[n] = SubSeq(data, 1, h) /\ g[n - 1] = SubSeq(data, 1, h - 1)
      BY <3>1
    <3> HIDE DEF g, h
    <3>4. SubSeq(data, 1, h) = SubSeq(data, 1, h - 1) \o <<data[h]>>
      BY <1>1, <3>1, SubSeqRecursiveSecond
    <3>5. SubSeq(data, 1, h - 1) \in Seq(D) /\ data[h] \in D
      <4>1. \A i \in 1 .. h - 1 : data[i] \in D
        BY <1>1, <3>1
      <4>2. 1 \in Int /\ h - 1 \in Int
        BY <3>1
      <4> QED
        BY <1>1, <3>1, <4>1, <4>2, SubSeqProperties
    <3> DEFINE s == SubSeq(data, 1, h - 1)
               e == data[h]
    <3>6. s \in Seq(D) /\ e \in D
      BY <3>5
    <3> HIDE DEF s, e
    <3>7. Append(s, e) = s \o <<e>>
      BY <3>6, AppendIsConcat
    <3>8. g[n] = Append(g[n - 1], data[h])
      BY <3>3, <3>4, <3>7 DEF s, e
    <3> QED
      BY <2>3, <3>2, <3>8 DEF Taken
  <2> QED
    BY <2>1, <2>2, <2>3
<1>4. g = [n \in 0 .. k |-> IF n = 0 THEN <<>> ELSE Taken(g[n - 1], p[n])]
  <2>1. g = [n \in 0 .. k |-> g[n]]
    OBVIOUS
  <2> HIDE DEF g
  <2> QED
    BY <1>3, <2>1
<1>5. g[k] = data
  <2>1. k \in 0 .. k /\ k \div 2 = Len(data)
    BY <1>1 DEF k
  <2> QED
    BY <2>1, SubSeqFull
<1> HIDE DEF g
<1>6. Takes(g, p) /\ Len(p) \in Nat
  BY <1>1, <1>2, <1>4 DEF Takes
<1>7. Datums(p) = g[k]
  BY <1>2, <1>6, DatumsAre
<1> QED
  BY <1>5, <1>7 DEF p

-----------------------------------------------------------------------------
(* Prefixes. *)
LEMMA PrefixIs ==
    ASSUME NEW D, NEW s \in Seq(D), NEW t \in Seq(D)
    PROVE  IsPrefix(s, t) <=> Len(s) <= Len(t) /\ \A i \in 1 .. Len(s) : s[i] = t[i]
<1>1. /\ Len(s) \in Nat /\ \A i \in 1 .. Len(s) : s[i] \in D
      /\ Len(t) \in Nat /\ \A i \in 1 .. Len(t) : t[i] \in D
  BY LenProperties, ElementOfSeq
<1>2. SubSeq(s, 1, Len(s)) = s
  BY SubSeqFull
<1> SUFFICES ASSUME Len(s) <= Len(t)
             PROVE  s = SubSeq(t, 1, Len(s)) <=> \A i \in 1 .. Len(s) : s[i] = t[i]
  BY <1>2 DEF IsPrefix
<1> DEFINE u == SubSeq(t, 1, Len(s))
<1>3. u \in Seq(D) /\ Len(u) = Len(s) /\ \A i \in 1 .. Len(s) : u[i] = t[i]
  <2>1. \A i \in 1 .. Len(s) : t[i] \in D
    BY <1>1
  <2>2. 1 \in Int /\ Len(s) \in Int
    BY <1>1
  <2>3. /\ u \in Seq(D) /\ Len(u) = IF 1 <= Len(s) THEN Len(s) - 1 + 1 ELSE 0
        /\ \A i \in 1 .. Len(s) - 1 + 1 : u[i] = t[1 + i - 1]
    BY <2>1, <2>2, SubSeqProperties
  <2> HIDE DEF u
  <2> QED
    BY <1>1, <2>3
<1> HIDE DEF u
<1>4. (\A i \in 1 .. Len(s) : s[i] = u[i]) => s = u
  BY <1>3, SeqEqual
<1>5. s = u <=> \A i \in 1 .. Len(s) : s[i] = t[i]
  BY <1>3, <1>4
<1> QED
  BY <1>5 DEF u

LEMMA PrefixTransitive ==
    ASSUME NEW D, NEW s \in Seq(D), NEW t \in Seq(D), NEW u \in Seq(D),
           IsPrefix(s, t), IsPrefix(t, u)
    PROVE  IsPrefix(s, u)
<1>1. Len(s) \in Nat /\ Len(t) \in Nat /\ Len(u) \in Nat
  BY LenProperties
<1>2. Len(s) <= Len(t) /\ \A i \in 1 .. Len(s) : s[i] = t[i]
  BY PrefixIs
<1>3. Len(t) <= Len(u) /\ \A i \in 1 .. Len(t) : t[i] = u[i]
  BY PrefixIs
<1>4. Len(s) <= Len(u) /\ \A i \in 1 .. Len(s) : s[i] = u[i]
  BY <1>1, <1>2, <1>3
<1> QED
  BY <1>4, PrefixIs

LEMMA PrefixJoin ==
    ASSUME NEW D, NEW s \in Seq(D), NEW t \in Seq(D)
    PROVE  IsPrefix(s, Join(s, t)) /\ IsPrefix(s, s) /\ IsPrefix(<<>>, s)
<1>1. Len(s) \in Nat /\ Len(t) \in Nat
  BY LenProperties
<1> DEFINE st == Join(s, t)
<1>2. /\ st \in Seq(D) /\ Len(st) = Len(s) + Len(t)
      /\ \A i \in 1 .. Len(s) + Len(t) : st[i] = IF i <= Len(s) THEN s[i] ELSE t[i - Len(s)]
  BY JoinProperties
<1> HIDE DEF st
<1>3. Len(s) <= Len(st) /\ \A i \in 1 .. Len(s) : s[i] = st[i]
  BY <1>1, <1>2
<1>4. IsPrefix(s, st)
  BY <1>2, <1>3, PrefixIs
<1>5. IsPrefix(s, s)
  BY <1>1, PrefixIs
<1>6. IsPrefix(<<>>, s)
  <2> DEFINE nil == <<>>
  <2>1. nil \in Seq(D) /\ Len(nil) = 0
    BY EmptySeq
  <2> HIDE DEF nil
  <2>2. Len(nil) <= Len(s) /\ \A i \in 1 .. Len(nil) : nil[i] = s[i]
    BY <1>1, <2>1
  <2>3. IsPrefix(nil, s)
    BY <2>1, <2>2, PrefixIs
  <2> QED
    BY <2>3 DEF nil
<1> QED
  BY <1>4, <1>5, <1>6 DEF st

(* The beginning of a sequence, and the rest. *)
LEMMA Split ==
    ASSUME NEW S, NEW f \in Seq(S), NEW n \in 0 .. Len(f), NEW m \in 0 .. n
    PROVE  /\ SubSeq(f, 1, m) \in Seq(S) /\ Len(SubSeq(f, 1, m)) = m
           /\ \A i \in 1 .. m : SubSeq(f, 1, m)[i] = f[i]
           /\ SubSeq(f, m + 1, n) \in Seq(S) /\ Len(SubSeq(f, m + 1, n)) = n - m
           /\ \A i \in 1 .. n - m : SubSeq(f, m + 1, n)[i] = f[m + i]
           /\ SubSeq(f, 1, n) = Join(SubSeq(f, 1, m), SubSeq(f, m + 1, n))
<1>1. Len(f) \in Nat /\ \A i \in 1 .. Len(f) : f[i] \in S
  BY LenProperties, ElementOfSeq
<1>2. /\ 1 \in Int /\ m \in Int /\ m + 1 \in Int /\ n \in Int
      /\ (\A i \in 1 .. m : f[i] \in S) /\ (\A i \in m + 1 .. n : f[i] \in S)
  BY <1>1
<1> DEFINE a == SubSeq(f, 1, m)
           b == SubSeq(f, m + 1, n)
<1>3. /\ a \in Seq(S) /\ Len(a) = IF 1 <= m THEN m - 1 + 1 ELSE 0
      /\ \A i \in 1 .. m - 1 + 1 : a[i] = f[1 + i - 1]
  BY <1>2, SubSeqProperties
<1>4. /\ b \in Seq(S) /\ Len(b) = IF m + 1 <= n THEN n - (m + 1) + 1 ELSE 0
      /\ \A i \in 1 .. n - (m + 1) + 1 : b[i] = f[m + 1 + i - 1]
  BY <1>2, SubSeqProperties
<1>5. SubSeq(f, 1, n) = Join(a, b)
  <2>1. 1 \in 1 .. Len(f) + 1 /\ m \in 1 - 1 .. Len(f) /\ n \in m .. Len(f)
    BY <1>1
  <2> QED
    BY <2>1, ConcatAdjacentSubSeq DEF Join
<1> HIDE DEF a, b
<1>6. Len(a) = m /\ \A i \in 1 .. m : a[i] = f[i]
  BY <1>1, <1>3
<1>7. Len(b) = n - m /\ \A i \in 1 .. n - m : b[i] = f[m + i]
  BY <1>1, <1>4
<1> QED
  BY <1>3, <1>4, <1>5, <1>6, <1>7 DEF a, b

LEMMA FirstPart ==
    ASSUME NEW S, NEW f \in Seq(S), NEW n \in 0 .. Len(f)
    PROVE  /\ SubSeq(f, 1, n) \in Seq(S) /\ Len(SubSeq(f, 1, n)) = n
           /\ \A i \in 1 .. n : SubSeq(f, 1, n)[i] = f[i]
<1>1. n \in 0 .. n
  BY LenProperties
<1> QED
  BY <1>1, Split

LEMMA MiddlePart ==
    ASSUME NEW S, NEW f \in Seq(S), NEW n \in 0 .. Len(f), NEW m \in 0 .. n
    PROVE  /\ SubSeq(f, m + 1, n) \in Seq(S) /\ Len(SubSeq(f, m + 1, n)) = n - m
           /\ \A i \in 1 .. n - m : SubSeq(f, m + 1, n)[i] = f[m + i]
BY Split

LEMMA DatumsSplit ==
    ASSUME NEW S, NEW D, Carries(S, D), NEW f \in Seq(S),
           NEW n \in 0 .. Len(f), NEW m \in 0 .. n
    PROVE  /\ Datums(SubSeq(f, 1, m)) \in Seq(D) /\ Datums(SubSeq(f, 1, n)) \in Seq(D)
           /\ Datums(SubSeq(f, m + 1, n)) \in Seq(D)
           /\ Datums(SubSeq(f, 1, n)) = Join(Datums(SubSeq(f, 1, m)), Datums(SubSeq(f, m + 1, n)))
           /\ IsPrefix(Datums(SubSeq(f, 1, m)), Datums(SubSeq(f, 1, n)))
<1> DEFINE a == SubSeq(f, 1, m)
           b == SubSeq(f, m + 1, n)
           c == SubSeq(f, 1, n)
<1>1. a \in Seq(S) /\ b \in Seq(S) /\ c = Join(a, b)
  BY Split
<1> HIDE DEF a, b, c
<1>2. Datums(a) \in Seq(D) /\ Datums(b) \in Seq(D) /\ Datums(c) = Join(Datums(a), Datums(b))
  BY <1>1, DatumsType, DatumsJoin
<1>3. Datums(c) \in Seq(D)
  BY <1>1, JoinProperties, DatumsType
<1>4. IsPrefix(Datums(a), Datums(c))
  BY <1>2, PrefixJoin
<1> QED
  BY <1>2, <1>3, <1>4 DEF a, b, c

-----------------------------------------------------------------------------
(* The tokens of a file, and which follow which: a datum's tail its head, if *)
(* anything of a datum does.                                                 *)
Data   == 1 .. MaxData
Tokens == ({"header"} \X (ValidCodecs \cup {"absent"}))
          \cup {<<"sync", g, i>> : g \in Nat, i \in 1 .. SyncSize}
          \cup ({"count"} \X (Nat \ {0})) \cup {<<"len">>} \cup ({"head", "tail"} \X Data)

Neighbours(f) ==
    \A i \in 1 .. Len(f) - 1 :
        /\ f[i][1] = "head" /\ f[i + 1][1] \in {"head", "tail"} =>
              f[i + 1][1] = "tail" /\ f[i + 1][2] = f[i][2]
        /\ f[i][1] \in {"len", "tail"} => f[i + 1][1] # "tail"

(* Tokens a + 1 to e of f are a block, with a marker of g.                   *)
WholeBlock(f, g, a, e) ==
    \E n \in Nat \ {0} :
        /\ e = a + 2 + 2 * n + SyncSize
        /\ f[a + 1] = <<"count", n>> /\ f[a + 2] = <<"len">>
        /\ \A i \in 1 .. 2 * n : f[a + 2 + i][1] = IF i % 2 = 1 THEN "head" ELSE "tail"
        /\ \A i \in 1 .. SyncSize : f[a + 2 + 2 * n + i] = <<"sync", g, i>>

(* From each of the ends a block leads to the next.                          *)
Chained(f, g, es) ==
    \A a \in es, x \in es : a < x => \E e \in es : e <= x /\ WholeBlock(f, g, a, e)

Headed(f, es) ==
    f # <<>> =>
      /\ Len(f) >= HeaderEnd /\ HeaderEnd \in es /\ \A e \in es : e >= HeaderEnd
      /\ \A i \in 1 .. HeaderEnd : f[i][1] \in {"header", "sync"}

FileGood(f, g, es) ==
    /\ f \in Seq(Tokens) /\ es \subseteq 1 .. Len(f)
    /\ Neighbours(f) /\ Chained(f, g, es) /\ Headed(f, es)

LEMMA TokenFacts ==
    /\ Carries(Tokens, Data)
    /\ \A t \in Tokens : /\ t[1] = "count" => t[2] \in Nat \ {0}
                         /\ t[1] \in {"head", "tail"} => t[2] \in Data
                         /\ t[1] = "len" => t = <<"len">>
    /\ \A c \in ValidCodecs \cup {"absent"} : <<"header", c>> \in Tokens
    /\ \A g \in Nat, i \in 1 .. SyncSize : <<"sync", g, i>> \in Tokens
    /\ \A n \in Nat \ {0} : <<"count", n>> \in Tokens
    /\ \A d \in Data : <<"head", d>> \in Tokens /\ <<"tail", d>> \in Tokens
    /\ <<"len">> \in Tokens
BY DEF Tokens, Carries

LEMMA MarkerFacts ==
    ASSUME NEW g \in Nat
    PROVE  /\ Marker(g) \in Seq(Tokens) /\ Len(Marker(g)) = SyncSize
           /\ \A i \in 1 .. SyncSize : Marker(g)[i] = <<"sync", g, i>>
<1>1. SyncSize \in Nat
  BY DataFileAssumption
<1>2. \A i \in 1 .. SyncSize : <<"sync", g, i>> \in Tokens
  BY TokenFacts
<1> QED
  BY <1>1, <1>2 DEF Marker

(* A block. *)
Counted(n) == <<<<"count", n>>, <<"len">>>>
BlockOf(data, g) == Join(Join(Counted(Len(data)), Pieces(data)), Marker(g))

LEMMA PiecesFacts ==
    ASSUME NEW data \in Seq(Data)
    PROVE  /\ Pieces(data) \in Seq(Tokens) /\ Len(Pieces(data)) = 2 * Len(data)
           /\ \A i \in 1 .. 2 * Len(data) :
                 Pieces(data)[i] = <<IF i % 2 = 1 THEN "head" ELSE "tail", data[(i + 1) \div 2]>>
<1>1. Len(data) \in Nat /\ \A i \in 1 .. Len(data) : data[i] \in Data
  BY LenProperties, ElementOfSeq
<1>2. ASSUME NEW i \in 1 .. 2 * Len(data)
      PROVE  <<IF i % 2 = 1 THEN "head" ELSE "tail", data[(i + 1) \div 2]>> \in Tokens
  <2>1. (i + 1) \div 2 \in 1 .. Len(data)
    BY <1>1
  <2> DEFINE d == data[(i + 1) \div 2]
  <2>2. d \in Data
    BY <1>1, <2>1
  <2> HIDE DEF d
  <2>3. <<"head", d>> \in Tokens /\ <<"tail", d>> \in Tokens
    BY <2>2, TokenFacts
  <2>4. <<IF i % 2 = 1 THEN "head" ELSE "tail", d>> \in Tokens
    BY <2>3
  <2> QED
    BY <2>4 DEF d
<1> DEFINE k == 2 * Len(data)
           Piece(i) == <<IF i % 2 = 1 THEN "head" ELSE "tail", data[(i + 1) \div 2]>>
<1>3. k \in Nat
  BY <1>1
<1>4. Pieces(data) = [i \in 1 .. k |-> Piece(i)]
  BY DEF Pieces
<1>5. \A i \in 1 .. k : Piece(i) \in Tokens
  BY <1>2
<1>6. \A i \in 1 .. k : Pieces(data)[i] = Piece(i)
  BY <1>4
<1> HIDE DEF k, Piece
<1>7. Pieces(data) \in Seq(Tokens) /\ Len(Pieces(data)) = k
  BY <1>3, <1>4, <1>5
<1> QED
  BY <1>6, <1>7, Zenon DEF k, Piece

LEMMA BlockFacts ==
    ASSUME NEW data \in Seq(Data), data # <<>>, NEW g \in Nat
    PROVE  LET b == BlockOf(data, g)
               n == Len(data) IN
           /\ n \in Nat \ {0} /\ b \in Seq(Tokens) /\ Len(b) = 2 + 2 * n + SyncSize
           /\ b[1] = <<"count", n>> /\ b[2] = <<"len">>
           /\ \A i \in 1 .. 2 * n :
                 b[2 + i] = <<IF i % 2 = 1 THEN "head" ELSE "tail", data[(i + 1) \div 2]>>
           /\ \A i \in 1 .. SyncSize : b[2 + 2 * n + i] = <<"sync", g, i>>
           /\ Datums(b) = data
<1> DEFINE n == Len(data)
           c == Counted(n)
           p == Pieces(data)
           m == Marker(g)
           cp == Join(c, p)
           b == Join(cp, m)
<1>0. BlockOf(data, g) = b /\ Len(data) = n
  BY DEF BlockOf
<1>1. n \in Nat \ {0} /\ SyncSize \in Nat
  BY EmptySeq, DataFileAssumption
<1>2. c \in Seq(Tokens) /\ Len(c) = 2 /\ c[1] = <<"count", n>> /\ c[2] = <<"len">>
  BY <1>1, TokenFacts DEF Counted
<1>3. /\ p \in Seq(Tokens) /\ Len(p) = 2 * n
      /\ \A i \in 1 .. 2 * n : p[i] = <<IF i % 2 = 1 THEN "head" ELSE "tail", data[(i + 1) \div 2]>>
  BY PiecesFacts
<1>4. m \in Seq(Tokens) /\ Len(m) = SyncSize /\ \A i \in 1 .. SyncSize : m[i] = <<"sync", g, i>>
  BY MarkerFacts
<1>5. Datums(c) = <<>> /\ Datums(m) = <<>> /\ Datums(p) = data
  <2>1. \A i \in 1 .. Len(c) : c[i][1] # "tail"
    <3>1. \A i \in 1 .. 2 : i = 1 \/ i = 2
      OBVIOUS
    <3> HIDE DEF c
    <3> QED
      BY <1>2, <3>1
  <2>2. \A i \in 1 .. Len(m) : m[i][1] # "tail"
    BY <1>4
  <2>3. Datums(c) = <<>>
    BY <1>2, <2>1, DatumsNone
  <2>4. Datums(m) = <<>>
    BY <1>4, <2>2, DatumsNone
  <2> QED
    BY <2>3, <2>4, DatumsOfPieces
<1> HIDE DEF c, p, m
<1>6. /\ cp \in Seq(Tokens) /\ Len(cp) = 2 + 2 * n
      /\ \A i \in 1 .. 2 + 2 * n : cp[i] = IF i <= 2 THEN c[i] ELSE p[i - 2]
  <2>1. /\ cp \in Seq(Tokens) /\ Len(cp) = Len(c) + Len(p)
        /\ \A i \in 1 .. Len(c) + Len(p) : cp[i] = IF i <= Len(c) THEN c[i] ELSE p[i - Len(c)]
    BY <1>2, <1>3, JoinProperties
  <2>2. Len(c) = 2 /\ Len(p) = 2 * n
    BY <1>2, <1>3
  <2> HIDE DEF cp, n
  <2> QED
    BY <2>1, <2>2
<1>7. Datums(cp) = data
  <2>1. Datums(cp) = Join(Datums(c), Datums(p))
    BY <1>2, <1>3, DatumsJoin, TokenFacts
  <2> QED
    BY <1>5, <2>1, ConcatEmptySeq DEF Join
<1> HIDE DEF cp
<1>8. /\ b \in Seq(Tokens) /\ Len(b) = 2 + 2 * n + SyncSize
      /\ \A i \in 1 .. 2 + 2 * n + SyncSize : b[i] = IF i <= 2 + 2 * n THEN cp[i] ELSE m[i - (2 + 2 * n)]
  <2>1. /\ b \in Seq(Tokens) /\ Len(b) = Len(cp) + Len(m)
        /\ \A i \in 1 .. Len(cp) + Len(m) : b[i] = IF i <= Len(cp) THEN cp[i] ELSE m[i - Len(cp)]
    BY <1>4, <1>6, JoinProperties
  <2>2. Len(cp) = 2 + 2 * n /\ Len(m) = SyncSize
    BY <1>4, <1>6
  <2> HIDE DEF b, n
  <2> QED
    BY <2>1, <2>2
<1>9. Datums(b) = data
  <2>1. Datums(b) = Join(Datums(cp), Datums(m))
    BY <1>4, <1>6, DatumsJoin, TokenFacts
  <2> QED
    BY <1>5, <1>7, <2>1, ConcatEmptySeq DEF Join
<1> HIDE DEF b, n
<1>10. b[1] = c[1] /\ b[2] = c[2]
  BY <1>1, <1>6, <1>8
<1>11. ASSUME NEW i \in 1 .. 2 * n PROVE b[2 + i] = p[i]
  <2> DEFINE k == 2 + i
  <2>1. k \in 1 .. 2 + 2 * n /\ k \in 1 .. 2 + 2 * n + SyncSize /\ ~ (k <= 2) /\ k - 2 = i
    BY <1>1
  <2> HIDE DEF k
  <2>2. b[k] = p[i]
    BY <1>6, <1>8, <2>1
  <2> QED
    BY <2>2 DEF k
<1>12. ASSUME NEW i \in 1 .. SyncSize PROVE b[2 + 2 * n + i] = m[i]
  <2> DEFINE k == 2 + 2 * n + i
  <2>1. /\ k \in 1 .. 2 + 2 * n + SyncSize /\ ~ (k <= 2 + 2 * n)
        /\ k - (2 + 2 * n) = i
    BY <1>1
  <2> HIDE DEF k
  <2>2. b[k] = m[i]
    BY <1>8, <2>1
  <2> QED
    BY <2>2 DEF k
<1>14. /\ b[1] = <<"count", n>> /\ b[2] = <<"len">>
       /\ \A i \in 1 .. 2 * n :
             b[2 + i] = <<IF i % 2 = 1 THEN "head" ELSE "tail", data[(i + 1) \div 2]>>
       /\ \A i \in 1 .. SyncSize : b[2 + 2 * n + i] = <<"sync", g, i>>
  BY <1>2, <1>3, <1>4, <1>10, <1>11, <1>12
<1> QED
  BY <1>0, <1>1, <1>8, <1>9, <1>14

-----------------------------------------------------------------------------
(* What happens to a file keeps it good: it is created, a block or the count *)
(* of one is added at its end, or it is cut off.                             *)
LEMMA HeaderEndFacts == HeaderEnd \in Nat \ {0} /\ HeaderEnd = 1 + SyncSize /\ SyncSize \in Nat \ {0}
BY DataFileAssumption DEF HeaderEnd

LEMMA WholeBlockKept ==
    ASSUME NEW f, NEW h, NEW g, NEW a \in Nat, NEW e \in Nat,
           \A i \in 1 .. e : h[i] = f[i], WholeBlock(f, g, a, e)
    PROVE  WholeBlock(h, g, a, e) /\ a < e
<1>1. PICK n \in Nat \ {0} :
        /\ e = a + 2 + 2 * n + SyncSize
        /\ f[a + 1] = <<"count", n>> /\ f[a + 2] = <<"len">>
        /\ \A i \in 1 .. 2 * n : f[a + 2 + i][1] = IF i % 2 = 1 THEN "head" ELSE "tail"
        /\ \A i \in 1 .. SyncSize : f[a + 2 + 2 * n + i] = <<"sync", g, i>>
  BY DEF WholeBlock
<1>2. SyncSize \in Nat \ {0}
  BY HeaderEndFacts
<1>3. a + 1 \in 1 .. e /\ a + 2 \in 1 .. e /\ a < e
  BY <1>1, <1>2
<1>4. \A i \in 1 .. 2 * n : a + 2 + i \in 1 .. e
  BY <1>1, <1>2
<1>5. \A i \in 1 .. SyncSize : a + 2 + 2 * n + i \in 1 .. e
  BY <1>1, <1>2
<1>6. /\ h[a + 1] = f[a + 1] /\ h[a + 2] = f[a + 2]
      /\ \A i \in 1 .. 2 * n : h[a + 2 + i] = f[a + 2 + i]
      /\ \A i \in 1 .. SyncSize : h[a + 2 + 2 * n + i] = f[a + 2 + 2 * n + i]
  BY <1>3, <1>4, <1>5
<1>7. /\ h[a + 1] = <<"count", n>> /\ h[a + 2] = <<"len">>
      /\ \A i \in 1 .. 2 * n : h[a + 2 + i][1] = IF i % 2 = 1 THEN "head" ELSE "tail"
      /\ \A i \in 1 .. SyncSize : h[a + 2 + 2 * n + i] = <<"sync", g, i>>
  BY <1>1, <1>6
<1>8. WholeBlock(h, g, a, e)
  BY <1>1, <1>7 DEF WholeBlock
<1> QED
  BY <1>3, <1>8

LEMMA CutGood ==
    ASSUME NEW f, NEW g, NEW es, FileGood(f, g, es), NEW n \in 0 .. Len(f),
           n = 0 \/ n >= HeaderEnd
    PROVE  FileGood(SubSeq(f, 1, n), g, {e \in es : e <= n})
<1> DEFINE h == SubSeq(f, 1, n)
           left == {e \in es : e <= n}
<1>1. /\ Len(f) \in Nat /\ f \in Seq(Tokens) /\ es \subseteq 1 .. Len(f)
      /\ Neighbours(f) /\ Chained(f, g, es) /\ Headed(f, es)
  BY LenProperties DEF FileGood
<1>3. h \in Seq(Tokens) /\ Len(h) = n /\ \A i \in 1 .. n : h[i] = f[i]
  BY <1>1, FirstPart
<1> HIDE DEF h
<1>4. left \subseteq 1 .. Len(h)
  <2> SUFFICES ASSUME NEW e \in es, e <= n PROVE e \in 1 .. Len(h)
    OBVIOUS
  <2>1. e \in 1 .. Len(f)
    BY <1>1
  <2> QED
    BY <1>1, <1>3, <2>1
<1>5. Neighbours(h)
  <2> SUFFICES ASSUME NEW i \in 1 .. n - 1
               PROVE /\ h[i][1] = "head" /\ h[i + 1][1] \in {"head", "tail"} =>
                           h[i + 1][1] = "tail" /\ h[i + 1][2] = h[i][2]
                     /\ h[i][1] \in {"len", "tail"} => h[i + 1][1] # "tail"
    BY <1>3 DEF Neighbours
  <2>1. i \in 1 .. Len(f) - 1 /\ h[i] = f[i] /\ h[i + 1] = f[i + 1]
    BY <1>1, <1>3
  <2> QED
    BY <1>1, <2>1 DEF Neighbours
<1>6. Chained(h, g, left)
  <2> SUFFICES ASSUME NEW a \in left, NEW x \in left, a < x
               PROVE  \E e \in left : e <= x /\ WholeBlock(h, g, a, e)
    BY DEF Chained
  <2>1. PICK e \in es : e <= x /\ WholeBlock(f, g, a, e)
    BY <1>1 DEF Chained
  <2>2. a \in Nat /\ e \in Nat /\ x \in Nat /\ e <= n
    BY <1>1, <2>1
  <2>3. \A i \in 1 .. e : h[i] = f[i]
    BY <1>3, <2>2
  <2> QED
    BY <2>1, <2>2, <2>3, WholeBlockKept
<1>7. Headed(h, left)
  <2> SUFFICES ASSUME h # <<>> PROVE Headed(h, left)
    BY DEF Headed
  <2>1. n # 0 /\ f # <<>>
    BY <1>1, <1>3, EmptySeq
  <2> QED
    BY <1>1, <1>3, <2>1, HeaderEndFacts DEF Headed
<1> QED
  BY <1>3, <1>4, <1>5, <1>6, <1>7 DEF FileGood, h

LEMMA FreshGood ==
    ASSUME NEW c \in ValidCodecs \cup {"absent"}, NEW g \in Nat
    PROVE  /\ FileGood(Header(c, g), g, {HeaderEnd}) /\ Len(Header(c, g)) = HeaderEnd
           /\ Header(c, g)[1] = <<"header", c>> /\ Datums(Header(c, g)) = <<>>
           /\ FileGood(<<>>, g, {}) /\ Header(c, g) # <<>>
<1> DEFINE one == <<<<"header", c>>>>
           m == Marker(g)
           h == Join(one, m)
<1>1. one \in Seq(Tokens) /\ Len(one) = 1 /\ one[1] = <<"header", c>>
  BY TokenFacts
<1>2. m \in Seq(Tokens) /\ Len(m) = SyncSize /\ \A i \in 1 .. SyncSize : m[i] = <<"sync", g, i>>
  BY MarkerFacts
<1>0. Header(c, g) = h
  BY DEF Header, Join
<1> HIDE DEF one, m
<1>3. /\ h \in Seq(Tokens) /\ Len(h) = Len(one) + Len(m)
      /\ \A i \in 1 .. Len(one) + Len(m) : h[i] = IF i <= Len(one) THEN one[i] ELSE m[i - Len(one)]
  BY <1>1, <1>2, JoinProperties
<1> HIDE DEF h
<1>4. Len(h) = HeaderEnd /\ h[1] = <<"header", c>>
  BY <1>1, <1>2, <1>3, HeaderEndFacts
<1>5. ASSUME NEW i \in 1 .. HeaderEnd PROVE h[i][1] \in {"header", "sync"}
  <2>1. CASE i = 1
    BY <1>4, <2>1
  <2>2. CASE i # 1
    <3> DEFINE k == i - 1
    <3>1. k \in 1 .. SyncSize /\ ~ (i <= 1) /\ i \in 1 .. 1 + SyncSize
      BY <2>2, HeaderEndFacts
    <3> HIDE DEF k
    <3>2. h[i] = m[i - 1]
      BY <1>1, <1>2, <1>3, <3>1
    <3>3. h[i] = m[k]
      BY <3>2 DEF k
    <3> QED
      BY <1>2, <3>1, <3>3
  <2> QED
    BY <2>1, <2>2
<1>6. Neighbours(h)
  <2> SUFFICES ASSUME NEW i \in 1 .. HeaderEnd - 1
               PROVE h[i][1] \notin {"head", "len", "tail"}
    BY <1>4 DEF Neighbours
  <2>1. i \in 1 .. HeaderEnd
    BY HeaderEndFacts
  <2> QED
    BY <1>5, <2>1
<1>7. Chained(h, g, {HeaderEnd}) /\ {HeaderEnd} \subseteq 1 .. Len(h)
  BY <1>4, HeaderEndFacts DEF Chained
<1>8. Headed(h, {HeaderEnd})
  BY <1>4, <1>5, HeaderEndFacts DEF Headed
<1>9. Datums(h) = <<>>
  <2>1. \A i \in 1 .. Len(h) : h[i][1] # "tail"
    BY <1>4, <1>5
  <2> QED
    BY <1>3, <2>1, DatumsNone
<1>10. FileGood(<<>>, g, {})
  <2> DEFINE nil == <<>>
  <2>1. nil \in Seq(Tokens) /\ Len(nil) = 0
    BY EmptySeq
  <2>2. Headed(nil, {})
    BY DEF Headed
  <2> HIDE DEF nil
  <2>3. Neighbours(nil)
    BY <2>1 DEF Neighbours
  <2>4. Chained(nil, g, {})
    BY DEF Chained
  <2>5. FileGood(nil, g, {})
    BY <2>1, <2>2, <2>3, <2>4 DEF FileGood
  <2> QED
    BY <2>5 DEF nil
<1>11. h # <<>>
  BY <1>4, HeaderEndFacts, EmptySeq
<1> QED
  BY <1>0, <1>3, <1>4, <1>6, <1>7, <1>8, <1>9, <1>10, <1>11 DEF FileGood

LEMMA GrownGood ==
    ASSUME NEW f, NEW h, NEW g, NEW es, FileGood(f, g, es), f # <<>>,
           h \in Seq(Tokens), Len(f) <= Len(h), \A i \in 1 .. Len(f) : h[i] = f[i],
           \A i \in Len(f) .. Len(h) - 1 :
              /\ h[i][1] = "head" /\ h[i + 1][1] \in {"head", "tail"} =>
                    h[i + 1][1] = "tail" /\ h[i + 1][2] = h[i][2]
              /\ h[i][1] \in {"len", "tail"} => h[i + 1][1] # "tail"
    PROVE  /\ FileGood(h, g, es)
           /\ WholeBlock(h, g, Len(f), Len(h)) /\ Len(f) \in es =>
                 FileGood(h, g, es \cup {Len(h)})
<1>1. /\ Len(f) \in Nat /\ f \in Seq(Tokens) /\ es \subseteq 1 .. Len(f) /\ Len(h) \in Nat
      /\ Neighbours(f) /\ Chained(f, g, es) /\ Headed(f, es) /\ h # <<>> /\ Len(f) # 0
  BY LenProperties, EmptySeq DEF FileGood
<1>2. Neighbours(h)
  <2> SUFFICES ASSUME NEW i \in 1 .. Len(h) - 1
               PROVE /\ h[i][1] = "head" /\ h[i + 1][1] \in {"head", "tail"} =>
                           h[i + 1][1] = "tail" /\ h[i + 1][2] = h[i][2]
                     /\ h[i][1] \in {"len", "tail"} => h[i + 1][1] # "tail"
    BY DEF Neighbours
  <2>1. CASE i < Len(f)
    <3>1. i \in 1 .. Len(f) - 1 /\ h[i] = f[i] /\ h[i + 1] = f[i + 1]
      BY <1>1, <2>1
    <3> QED
      BY <1>1, <3>1 DEF Neighbours
  <2>2. CASE ~ (i < Len(f))
    <3>1. i \in Len(f) .. Len(h) - 1
      BY <1>1, <2>2
    <3> QED
      BY <3>1
  <2> QED
    BY <2>1, <2>2
<1>3. ASSUME NEW a \in es, NEW x \in es, a < x
      PROVE  \E e \in es : e <= x /\ WholeBlock(h, g, a, e)
  <2>1. PICK e \in es : e <= x /\ WholeBlock(f, g, a, e)
    BY <1>1, <1>3 DEF Chained
  <2>2. a \in Nat /\ e \in Nat /\ \A i \in 1 .. e : h[i] = f[i]
    BY <1>1, <2>1
  <2> QED
    BY <2>1, <2>2, WholeBlockKept
<1>4. Headed(h, es)
  BY <1>1, HeaderEndFacts DEF Headed
<1>5. FileGood(h, g, es)
  BY <1>1, <1>2, <1>3, <1>4 DEF FileGood, Chained
<1>6. ASSUME WholeBlock(h, g, Len(f), Len(h)), Len(f) \in es
      PROVE  FileGood(h, g, es \cup {Len(h)})
  <2> DEFINE more == es \cup {Len(h)}
  <2>1. more \subseteq 1 .. Len(h)
    <3>1. \A e \in es : e \in 1 .. Len(h)
      BY <1>1
    <3>2. Len(h) \in 1 .. Len(h)
      BY <1>1
    <3> QED
      BY <3>1, <3>2
  <2>2. ASSUME NEW a \in more, NEW x \in more, a < x
        PROVE  \E e \in more : e <= x /\ WholeBlock(h, g, a, e)
    <3>1. a \in es /\ a <= Len(f) /\ x <= Len(h)
      BY <1>1, <2>1, <2>2
    <3>2. CASE x \in es
      BY <1>3, <2>2, <3>1, <3>2
    <3>3. CASE x = Len(h) /\ a = Len(f)
      BY <1>1, <1>6, <3>3
    <3>4. CASE x = Len(h) /\ a < Len(f)
      <4>1. PICK e \in es : e <= Len(f) /\ WholeBlock(h, g, a, e)
        BY <1>3, <1>6, <3>1, <3>4
      <4>2. e <= x
        BY <1>1, <3>4, <4>1
      <4> QED
        BY <4>1, <4>2
    <3> QED
      BY <1>1, <2>2, <3>1, <3>2, <3>3, <3>4
  <2>3. Headed(h, more)
    BY <1>1, <1>4 DEF Headed
  <2> HIDE DEF more
  <2>4. FileGood(h, g, more)
    BY <1>1, <1>2, <2>1, <2>2, <2>3 DEF FileGood, Chained
  <2> QED
    BY <2>4 DEF more
<1> QED
  BY <1>5, <1>6

LEMMA BlockGood ==
    ASSUME NEW f, NEW g \in Nat, NEW es, FileGood(f, g, es), f # <<>>,
           NEW data \in Seq(Data), data # <<>>, NEW h, h = Join(f, BlockOf(data, g))
    PROVE  /\ FileGood(h, g, es \cup {e \in {Len(h)} : Len(f) \in es})
           /\ Len(f) <= Len(h) /\ \A i \in 1 .. Len(f) : h[i] = f[i]
           /\ Datums(h) = Join(Datums(f), data)
<1> DEFINE b == BlockOf(data, g)
           n == Len(data)
           k == Len(f)
           w == Join(f, b)
<1>0. h = w
  OBVIOUS
<1>1. k \in Nat /\ f \in Seq(Tokens) /\ SyncSize \in Nat \ {0}
  BY LenProperties, HeaderEndFacts DEF FileGood
<1>2. /\ n \in Nat \ {0} /\ b \in Seq(Tokens) /\ Len(b) = 2 + 2 * n + SyncSize
      /\ b[1] = <<"count", n>> /\ b[2] = <<"len">>
      /\ \A i \in 1 .. 2 * n :
            b[2 + i] = <<IF i % 2 = 1 THEN "head" ELSE "tail", data[(i + 1) \div 2]>>
      /\ \A i \in 1 .. SyncSize : b[2 + 2 * n + i] = <<"sync", g, i>>
      /\ Datums(b) = data
  BY BlockFacts
<1> HIDE DEF b, n
<1>3. w \in Seq(Tokens) /\ Len(w) = k + Len(b)
      /\ \A i \in 1 .. k + Len(b) : w[i] = IF i <= k THEN f[i] ELSE b[i - k]
  BY <1>1, <1>2, JoinProperties
<1>4. Datums(w) = Join(Datums(f), data)
  BY <1>1, <1>2, DatumsJoin, TokenFacts
<1> HIDE DEF w, k
<1>5. Len(w) = k + 2 + 2 * n + SyncSize /\ k <= Len(w) /\ \A i \in 1 .. k : w[i] = f[i]
  <2>1. Len(w) = k + 2 + 2 * n + SyncSize /\ k <= Len(w) /\ Len(b) \in Nat
    <3>1. Len(b) = 2 + 2 * n + SyncSize /\ n \in Nat /\ Len(w) = k + Len(b)
      BY <1>2, <1>3
    <3>2. k \in Nat /\ SyncSize \in Nat
      BY <1>1
    <3> QED
      BY <3>1, <3>2
  <2>2. ASSUME NEW i \in 1 .. k PROVE w[i] = f[i]
    <3>1. i \in 1 .. k + Len(b) /\ i <= k
      BY <1>1, <2>1
    <3> QED
      BY <1>3, <3>1
  <2> QED
    BY <2>1, <2>2
<1>6. ASSUME NEW i \in 1 .. Len(b) PROVE w[k + i] = b[i]
  <2> DEFINE j == k + i
  <2>1. j \in 1 .. k + Len(b) /\ ~ (j <= k) /\ j - k = i
    BY <1>1, <1>2
  <2> HIDE DEF j
  <2>2. w[j] = b[i]
    BY <1>3, <2>1
  <2> QED
    BY <2>2 DEF j
<1>7. /\ w[k + 1] = <<"count", n>> /\ w[k + 2] = <<"len">>
      /\ \A i \in 1 .. 2 * n :
            w[k + 2 + i] = <<IF i % 2 = 1 THEN "head" ELSE "tail", data[(i + 1) \div 2]>>
      /\ \A i \in 1 .. SyncSize : w[k + 2 + 2 * n + i] = <<"sync", g, i>>
  <2>1. 1 \in 1 .. Len(b) /\ 2 \in 1 .. Len(b)
    BY <1>1, <1>2
  <2>2. ASSUME NEW i \in 1 .. 2 * n PROVE 2 + i \in 1 .. Len(b) /\ k + (2 + i) = k + 2 + i
    BY <1>1, <1>2
  <2>3. ASSUME NEW i \in 1 .. SyncSize
        PROVE  2 + 2 * n + i \in 1 .. Len(b) /\ k + (2 + 2 * n + i) = k + 2 + 2 * n + i
    BY <1>1, <1>2
  <2>4. ASSUME NEW i \in 1 .. 2 * n PROVE w[k + 2 + i] = b[2 + i]
    BY <1>6, <2>2
  <2>5. ASSUME NEW i \in 1 .. SyncSize PROVE w[k + 2 + 2 * n + i] = b[2 + 2 * n + i]
    BY <1>6, <2>3
  <2> QED
    BY <1>2, <1>6, <2>1, <2>4, <2>5
<1>71. k \in Nat /\ Len(w) \in Nat /\ \A i \in k .. Len(w) - 1 : i \in Nat
  BY <1>1, <1>3, LenProperties
<1>8. ASSUME NEW i \in k .. Len(w) - 1
      PROVE  /\ w[i][1] = "head" /\ w[i + 1][1] \in {"head", "tail"} =>
                   w[i + 1][1] = "tail" /\ w[i + 1][2] = w[i][2]
             /\ w[i][1] \in {"len", "tail"} => w[i + 1][1] # "tail"
  <2>1. CASE i = k
    BY <1>7, <2>1
  <2>2. CASE i = k + 1
    BY <1>7, <2>2
  <2>3. CASE i = k + 2
    <3>1. 1 \in 1 .. 2 * n /\ i + 1 = k + 2 + 1 /\ 1 % 2 = 1
      BY <1>1, <1>2, <2>3
    <3>2. w[i] = <<"len">> /\ w[i + 1][1] = "head"
      BY <1>7, <2>3, <3>1
    <3> QED
      BY <3>2
  <2>4. CASE i > k + 2 /\ i < k + 2 + 2 * n
    <3> DEFINE j == i - (k + 2)
               l == j + 1
    <3>1. /\ j \in 1 .. 2 * n /\ l \in 1 .. 2 * n /\ i = k + 2 + j /\ i + 1 = k + 2 + l
      <4>1. k \in Nat /\ n \in Nat /\ i \in Nat
        BY <1>2, <1>71
      <4> QED
        BY <2>4, <4>1
    <3>6. /\ j % 2 = 1 => l % 2 # 1 /\ (l + 1) \div 2 = (j + 1) \div 2
          /\ j % 2 # 1 => l % 2 = 1
      <4>1. j \in Nat /\ l = j + 1
        BY <3>1
      <4> HIDE DEF j, l
      <4> QED
        BY <4>1
    <3> HIDE DEF j, l
    <3>2. w[i] = <<IF j % 2 = 1 THEN "head" ELSE "tail", data[(j + 1) \div 2]>>
      BY <1>7, <3>1
    <3>3. w[i + 1] = <<IF l % 2 = 1 THEN "head" ELSE "tail", data[(l + 1) \div 2]>>
      BY <1>7, <3>1
    <3>4. CASE j % 2 = 1
      <4> DEFINE d == data[(j + 1) \div 2]
      <4>1. w[i] = <<"head", d>> /\ w[i + 1] = <<"tail", d>>
        BY <3>2, <3>3, <3>4, <3>6
      <4> HIDE DEF d
      <4> QED
        BY <4>1
    <3>5. CASE j % 2 # 1
      <4>1. w[i][1] = "tail" /\ w[i + 1][1] = "head"
        BY <3>2, <3>3, <3>5, <3>6
      <4> QED
        BY <4>1
    <3> QED
      BY <3>4, <3>5
  <2>5. CASE i >= k + 2 + 2 * n
    <3> DEFINE j == i + 1 - (k + 2 + 2 * n)
    <3>1. j \in 1 .. SyncSize /\ i + 1 = k + 2 + 2 * n + j
      BY <1>1, <1>2, <1>5, <2>5
    <3> HIDE DEF j
    <3>2. w[i + 1] = <<"sync", g, j>>
      BY <1>7, <3>1
    <3> QED
      BY <3>2
  <2>6. \/ i = k \/ i = k + 1 \/ i = k + 2 \/ (i > k + 2 /\ i < k + 2 + 2 * n)
        \/ i >= k + 2 + 2 * n
    BY <1>1, <1>2
  <2> QED
    BY <2>1, <2>2, <2>3, <2>4, <2>5, <2>6
<1>9. WholeBlock(w, g, k, Len(w))
  <2>1. \A i \in 1 .. 2 * n : w[k + 2 + i][1] = IF i % 2 = 1 THEN "head" ELSE "tail"
    BY <1>7
  <2> QED
    BY <1>2, <1>5, <1>7, <2>1 DEF WholeBlock
<1>10. /\ FileGood(w, g, es)
       /\ k \in es => FileGood(w, g, es \cup {Len(w)})
  BY <1>3, <1>5, <1>8, <1>9, GrownGood DEF k
<1>11. FileGood(w, g, es \cup {e \in {Len(w)} : k \in es})
  <2>1. CASE k \in es
    <3>1. {e \in {Len(w)} : k \in es} = {Len(w)}
      BY <2>1
    <3> QED
      BY <1>10, <2>1, <3>1
  <2>2. CASE k \notin es
    <3>1. es \cup {e \in {Len(w)} : k \in es} = es
      BY <2>2
    <3> QED
      BY <1>10, <3>1
  <2> QED
    BY <2>1, <2>2
<1> QED
  BY <1>0, <1>4, <1>5, <1>11 DEF k

LEMMA CountGood ==
    ASSUME NEW f, NEW g, NEW es, FileGood(f, g, es), f # <<>>, NEW n \in Nat \ {0}
    PROVE  LET h == Append(f, <<"count", n>>) IN
           /\ FileGood(h, g, es)
           /\ Len(f) <= Len(h) /\ \A i \in 1 .. Len(f) : h[i] = f[i]
           /\ Datums(h) = Datums(f)
<1> DEFINE t == <<"count", n>>
           h == Append(f, t)
<1>1. Len(f) \in Nat /\ f \in Seq(Tokens)
  BY LenProperties DEF FileGood
<1>2. t \in Tokens /\ t[1] = "count"
  BY TokenFacts
<1> HIDE DEF t
<1>3. /\ h \in Seq(Tokens) /\ Len(h) = Len(f) + 1 /\ h[Len(f) + 1] = t
      /\ \A i \in 1 .. Len(f) : h[i] = f[i]
  BY <1>1, <1>2, AppendProperties
<1>4. Datums(h) = Datums(f)
  <2>1. Datums(h) = Taken(Datums(f), t)
    BY <1>1, <1>2, DatumsAppend, TokenFacts
  <2> QED
    BY <1>2, <2>1 DEF Taken
<1> HIDE DEF h
<1>5. ASSUME NEW i \in Len(f) .. Len(h) - 1 PROVE h[i + 1][1] = "count"
  <2>1. i = Len(f)
    BY <1>1, <1>3
  <2> QED
    BY <1>2, <1>3, <2>1
<1>6. \A i \in Len(f) .. Len(h) - 1 :
        /\ h[i][1] = "head" /\ h[i + 1][1] \in {"head", "tail"} =>
              h[i + 1][1] = "tail" /\ h[i + 1][2] = h[i][2]
        /\ h[i][1] \in {"len", "tail"} => h[i + 1][1] # "tail"
  BY <1>5
<1>7. Len(f) <= Len(h)
  BY <1>1, <1>3
<1>8. FileGood(h, g, es)
  BY <1>3, <1>6, <1>7, GrownGood
<1> QED
  BY <1>3, <1>4, <1>7, <1>8 DEF h, t

-----------------------------------------------------------------------------
(* The invariant of the file and its writer.                                 *)
FlushedOK(f, es, n, fl) ==
    /\ fl \in Seq(Data)
    /\ fl = <<>> \/ \E e \in es : e <= n /\ IsPrefix(fl, Datums(SubSeq(f, 1, e)))

FileInv ==
    /\ FileGood(file, gen, ends) /\ gen \in Nat
    /\ seen \in 0 .. Len(file) /\ (seen = 0 \/ seen >= HeaderEnd)
    /\ writer \in {"none", "open"}
    /\ writer = "open" => file # <<>>
    /\ writer = "none" => buffer = <<>>
    /\ buffer \in Seq(Data) /\ blockCount = Len(buffer)
    /\ accepted = Join(Datums(file), buffer)
    /\ FlushedOK(file, ends, seen, flushed)
    /\ nextDatum \in 1 .. MaxData + 1 /\ sessions \in 0 .. MaxSessions /\ reads \in 0 .. MaxReads

LEMMA SamePart ==
    ASSUME NEW S, NEW f \in Seq(S), NEW h \in Seq(S), NEW n \in 0 .. Len(f), n <= Len(h),
           \A i \in 1 .. n : h[i] = f[i]
    PROVE  SubSeq(h, 1, n) = SubSeq(f, 1, n)
<1>1. Len(f) \in Nat /\ Len(h) \in Nat /\ n \in 0 .. Len(h)
  BY LenProperties
<1> DEFINE a == SubSeq(f, 1, n)
           b == SubSeq(h, 1, n)
<1>2. a \in Seq(S) /\ Len(a) = n /\ \A i \in 1 .. n : a[i] = f[i]
  BY FirstPart
<1>3. b \in Seq(S) /\ Len(b) = n /\ \A i \in 1 .. n : b[i] = h[i]
  BY <1>1, FirstPart
<1> HIDE DEF a, b
<1>4. Len(a) = Len(b) /\ \A i \in 1 .. Len(b) : b[i] = a[i]
  BY <1>2, <1>3
<1>5. a = b
  BY <1>2, <1>3, <1>4, SeqEqual
<1> QED
  BY <1>5 DEF a, b

(* What is secured stays so as long as the file up to there does.            *)
LEMMA FlushedKept ==
    ASSUME NEW f \in Seq(Tokens), NEW h \in Seq(Tokens), NEW es \in SUBSET (1 .. Len(f)), NEW ds,
           NEW n \in 0 .. Len(f), NEW m \in Nat, NEW fl, FlushedOK(f, es, n, fl),
           n <= m, n <= Len(h), \A i \in 1 .. n : h[i] = f[i], \A e \in es : e <= n => e \in ds
    PROVE  FlushedOK(h, ds, m, fl)
<1> SUFFICES ASSUME NEW e \in es, e <= n, IsPrefix(fl, Datums(SubSeq(f, 1, e)))
             PROVE  e \in ds /\ e <= m /\ IsPrefix(fl, Datums(SubSeq(h, 1, e)))
  BY DEF FlushedOK
<1>1. Len(f) \in Nat /\ Len(h) \in Nat /\ e \in Nat /\ n \in Nat
  BY LenProperties
<1>2. e \in ds /\ e <= m /\ e \in 0 .. Len(f) /\ e <= Len(h) /\ \A i \in 1 .. e : h[i] = f[i]
  BY <1>1
<1>3. SubSeq(h, 1, e) = SubSeq(f, 1, e)
  BY <1>2, SamePart
<1> QED
  BY <1>2, <1>3

LEMMA FileFacts ==
    ASSUME FileInv
    PROVE  /\ file \in Seq(Tokens) /\ Len(file) \in Nat /\ seen \in Nat /\ seen <= Len(file)
           /\ Datums(file) \in Seq(Data) /\ accepted \in Seq(Data) /\ ends \in SUBSET (1 .. Len(file))
           /\ Upto(Len(file)) = file
<1>1. file \in Seq(Tokens) /\ seen \in 0 .. Len(file) /\ ends \subseteq 1 .. Len(file)
      /\ buffer \in Seq(Data) /\ accepted = Join(Datums(file), buffer)
  BY DEF FileInv, FileGood
<1>2. Len(file) \in Nat /\ Datums(file) \in Seq(Data)
  BY <1>1, LenProperties, DatumsType, TokenFacts
<1>3. Upto(Len(file)) = file
  BY <1>1, SubSeqFull DEF Upto
<1> QED
  BY <1>1, <1>2, <1>3, JoinProperties

(* _write_block, and a writer that raises instead.                           *)
Grows(f, g, es, h, ds) ==
    /\ FileGood(h, g, ds) /\ Len(f) <= Len(h) /\ es \subseteq ds /\ h # <<>>
    /\ \A i \in 1 .. Len(f) : h[i] = f[i]

LEMMA WrittenGrows ==
    ASSUME FileInv, file # <<>>, NEW data \in Seq(Data), WriteBlock(data, Len(data))
    PROVE  /\ Grows(file, gen, ends, file', ends') /\ buffer' = <<>> /\ blockCount' = 0
           /\ Datums(file') = Join(Datums(file), data)
<1>1. FileGood(file, gen, ends) /\ gen \in Nat /\ Len(data) \in Nat /\ file \in Seq(Tokens)
      /\ Len(file) \in Nat
  BY LenProperties, FileFacts DEF FileInv
<1>2. CASE Len(data) > 0
  <2>1. data # <<>>
    BY <1>2, EmptySeq
  <2> DEFINE b == BlockOf(data, gen)
             h == Join(file, b)
             ds == ends \cup {e \in {Len(h)} : Len(file) \in ends}
  <2>2. FileGood(h, gen, ds) /\ Len(file) <= Len(h)
        /\ (\A i \in 1 .. Len(file) : h[i] = file[i]) /\ Datums(h) = Join(Datums(file), data)
    <3>1. h = Join(file, BlockOf(data, gen))
      OBVIOUS
    <3> HIDE DEF h
    <3> QED
      BY <1>1, <2>1, <3>1, BlockGood
  <2>3. Written(data, Len(data)) /\ buffer' = <<>> /\ blockCount' = 0
    BY <1>2 DEF WriteBlock, Block
  <2>4. file' = h
    <3> DEFINE c == Counted(Len(data))
               p == Pieces(data)
               m == Marker(gen)
    <3>1. file' = Join(Join(Join(file, c), p), m)
      BY <2>3 DEF Written, Join, Counted, Pieces
    <3>2. c \in Seq(Tokens) /\ p \in Seq(Tokens) /\ m \in Seq(Tokens)
      <4>1. Len(data) \in Nat \ {0}
        BY <1>1, <1>2
      <4>2. <<"count", Len(data)>> \in Tokens /\ <<"len">> \in Tokens
        BY <4>1, TokenFacts
      <4>3. c \in Seq(Tokens)
        BY <4>2 DEF Counted
      <4> QED
        BY <1>1, <4>3, PiecesFacts, MarkerFacts
    <3>3. b = Join(Join(c, p), m)
      BY DEF BlockOf
    <3> HIDE DEF c, p, m, b
    <3> DEFINE cp == Join(c, p)
               fc == Join(file, c)
    <3>4. cp \in Seq(Tokens) /\ fc \in Seq(Tokens)
      BY <1>1, <3>2, JoinProperties
    <3>5. Join(fc, p) = Join(file, cp)
      BY <1>1, <3>2, Associative
    <3> HIDE DEF cp
    <3>6. Join(Join(file, cp), m) = Join(file, Join(cp, m))
      BY <1>1, <3>2, <3>4, Associative
    <3>7. b = Join(cp, m)
      BY <3>3 DEF cp
    <3> QED
      BY <3>1, <3>5, <3>6, <3>7
  <2> HIDE DEF h
  <2>5. ends' = ds
    BY <2>3, <2>4 DEF Written
  <2>6. ends \subseteq ds
    OBVIOUS
  <2>7. h # <<>>
    <3>1. Len(file) # 0
      BY <1>1, EmptySeq
    <3>2. Len(h) # 0
      <4>1. Len(h) \in Nat
        BY <2>2, LenProperties DEF FileGood
      <4> QED
        BY <1>1, <2>2, <3>1, <4>1
    <3> QED
      BY <3>2, EmptySeq
  <2> HIDE DEF ds
  <2> QED
    BY <2>2, <2>3, <2>4, <2>5, <2>6, <2>7 DEF Grows
<1>3. CASE ~ (Len(data) > 0)
  <2>1. data = <<>> /\ Len(data) = 0
    BY <1>1, <1>3, EmptySeq
  <2>2. file' = file /\ ends' = ends /\ buffer' = data /\ blockCount' = Len(data)
    BY <1>3 DEF WriteBlock
  <2>3. Datums(file) = Join(Datums(file), <<>>)
    BY FileFacts, ConcatEmptySeq DEF Join
  <2>4. Grows(file, gen, ends, file, ends)
    BY <1>1 DEF Grows
  <2> QED
    BY <2>1, <2>2, <2>3, <2>4
<1> QED
  BY <1>2, <1>3

LEMMA GrownFlushed ==
    ASSUME FileInv, Grows(file, gen, ends, file', ends'), NEW m \in Nat, seen <= m
    PROVE  FlushedOK(file', ends', m, flushed)
<1>1. /\ file \in Seq(Tokens) /\ Len(file) \in Nat /\ seen \in 0 .. Len(file)
      /\ ends \in SUBSET (1 .. Len(file)) /\ FlushedOK(file, ends, seen, flushed)
  BY FileFacts DEF FileInv
<1>2. file' \in Seq(Tokens) /\ Len(file') \in Nat
  BY LenProperties DEF Grows, FileGood
<1>3. seen <= Len(file') /\ (\A i \in 1 .. seen : file'[i] = file[i])
      /\ \A e \in ends : e <= seen => e \in ends'
  BY <1>1, <1>2 DEF Grows
<1> QED
  BY <1>1, <1>2, <1>3, FlushedKept

LEMMA RaiseKeeps ==
    ASSUME FileInv, file # <<>>, NEW n \in Nat \ {0}, Raise(n)
    PROVE  /\ Grows(file, gen, ends, file', ends') /\ seen' = Len(file')
           /\ writer' = "none" /\ buffer' = <<>> /\ blockCount' = 0
           /\ accepted' = Join(Datums(file'), buffer') /\ flushed' = flushed
<1> DEFINE h == Append(file, <<"count", n>>)
<1>1. /\ FileGood(h, gen, ends) /\ Len(file) <= Len(h) /\ \A i \in 1 .. Len(file) : h[i] = file[i]
      /\ Datums(h) = Datums(file)
  BY CountGood DEF FileInv
<1>2. h # <<>>
  BY FileFacts, AppendProperties, TokenFacts
<1>3. /\ file' = h /\ ends' = ends /\ seen' = Len(file') /\ accepted' = Datums(file)
      /\ writer' = "none" /\ buffer' = <<>> /\ blockCount' = 0 /\ flushed' = flushed
  BY DEF Raise
<1> HIDE DEF h
<1>4. Grows(file, gen, ends, file', ends')
  BY <1>1, <1>2, <1>3 DEF Grows
<1>5. Join(Datums(file), <<>>) = Datums(file)
  BY FileFacts, ConcatEmptySeq DEF Join
<1> QED
  BY <1>1, <1>3, <1>4, <1>5

(* What is left to show of a step under which the file grows.                *)
(* What is in the hands of others stays, unless the file is created anew.    *)
Kept ==
    /\ gen' = gen /\ seen <= seen' /\ seen <= Len(file')
    /\ \A i \in 1 .. seen : file'[i] = file[i]
    /\ \A e \in ends : e <= seen => e \in ends'

LEMMA GrownInv ==
    ASSUME FileInv, Grows(file, gen, ends, file', ends'), gen' = gen,
           seen' \in {seen, Len(file')}, writer' \in {"none", "open"},
           buffer' \in Seq(Data), writer' = "none" => buffer' = <<>>, blockCount' = Len(buffer'),
           accepted' = Join(Datums(file'), buffer'),
           flushed' = flushed \/ FlushedOK(file', ends', seen', flushed'),
           nextDatum' \in 1 .. MaxData + 1, sessions' \in 0 .. MaxSessions, reads' \in 0 .. MaxReads
    PROVE  FileInv' /\ Kept
<1>1. FileGood(file', gen', ends') /\ gen' \in Nat /\ file' # <<>>
  BY DEF FileInv, Grows
<1>2. Len(file') \in Nat /\ Len(file') >= HeaderEnd /\ Len(file) \in Nat /\ Len(file) <= Len(file')
  <2>1. file' \in Seq(Tokens) /\ Len(file') >= HeaderEnd
    BY <1>1 DEF FileGood, Headed
  <2>2. Len(file') \in Nat
    BY <2>1, LenProperties
  <2> QED
    BY <2>1, <2>2, FileFacts DEF Grows
<1>3. seen' \in 0 .. Len(file') /\ (seen' = 0 \/ seen' >= HeaderEnd) /\ seen <= seen' /\ seen' \in Nat
  <2>1. seen \in 0 .. Len(file) /\ (seen = 0 \/ seen >= HeaderEnd)
    BY DEF FileInv
  <2> QED
    BY <1>2, <2>1
<1>4. FlushedOK(file', ends', seen', flushed')
  BY <1>3, GrownFlushed
<1>5. Kept
  BY <1>2, <1>3, FileFacts DEF Kept, Grows
<1> QED
  BY <1>1, <1>3, <1>4, <1>5 DEF FileInv

LEMMA CreateFileInv ==
    ASSUME FileInv, NEW c \in ValidCodecs, CreateFile(c)
    PROVE  FileInv'
<1>1. /\ gen' = gen + 1 /\ file' = Header(c, gen') /\ ends' = {HeaderEnd} /\ seen' = 0
      /\ writer' = "open" /\ buffer' = <<>> /\ blockCount' = 0
      /\ accepted' = <<>> /\ flushed' = <<>>
      /\ sessions' \in 0 .. MaxSessions /\ UNCHANGED <<reads, nextDatum>>
  BY DataFileAssumption DEF CreateFile, FileInv, readerVars
<1>2. gen' \in Nat
  BY <1>1 DEF FileInv
<1>3. /\ FileGood(file', gen', ends') /\ Len(file') = HeaderEnd /\ Datums(file') = <<>>
      /\ file' # <<>>
  BY <1>1, <1>2, FreshGood
<1>4. <<>> \in Seq(Data) /\ Len(<<>>) = 0 /\ Join(<<>>, <<>>) = <<>>
  BY EmptySeq, ConcatEmptySeq DEF Join
<1>5. FlushedOK(file', ends', seen', flushed')
  BY <1>1, <1>4 DEF FlushedOK
<1>6. seen' \in 0 .. Len(file')
  BY <1>1, <1>3, HeaderEndFacts
<1> QED
  BY <1>1, <1>2, <1>3, <1>4, <1>5, <1>6 DEF FileInv

LEMMA AppendDatumInv ==
    ASSUME FileInv, AppendDatum
    PROVE  FileInv' /\ Kept
<1> DEFINE full == Append(buffer, nextDatum)
           n == blockCount + 1
<1>1. /\ file # <<>> /\ nextDatum \in Data /\ buffer \in Seq(Data) /\ nextDatum' \in 1 .. MaxData + 1
      /\ blockCount = Len(buffer) /\ writer = "open"
      /\ UNCHANGED <<gen, reads, sessions>> /\ sessions \in 0 .. MaxSessions /\ reads \in 0 .. MaxReads
  BY DataFileAssumption DEF AppendDatum, FileInv, Data, readerVars
<1>2. full \in Seq(Data) /\ n = Len(full) /\ n \in Nat \ {0}
  BY <1>1, AppendProperties, LenProperties
<1>3. Append(accepted, nextDatum) = Join(Datums(file), full)
  <2>1. Datums(file) \in Seq(Data) /\ accepted = Join(Datums(file), buffer)
    BY FileFacts DEF FileInv
  <2> QED
    BY <1>1, <2>1, AppendJoin
<1>4. <<>> \in Seq(Data) /\ Len(<<>>) = 0
  BY EmptySeq
<1>5. \/ /\ buffer' = full /\ blockCount' = n /\ accepted' = Append(accepted, nextDatum)
         /\ UNCHANGED <<file, ends, seen, writer, flushed>>
      \/ /\ WriteBlock(full, n) /\ accepted' = Append(accepted, nextDatum)
         /\ UNCHANGED <<seen, writer, flushed>>
      \/ Raise(n)
  BY DEF AppendDatum
<1> HIDE DEF full, n
<1>6. CASE /\ buffer' = full /\ blockCount' = n /\ accepted' = Append(accepted, nextDatum)
           /\ UNCHANGED <<file, ends, seen, writer, flushed>>
  <2>1. Grows(file, gen, ends, file', ends')
    BY <1>1, <1>6, FileFacts DEF Grows, FileInv
  <2> QED
    BY <1>1, <1>2, <1>3, <1>6, <2>1, GrownInv
<1>7. CASE /\ WriteBlock(full, n) /\ accepted' = Append(accepted, nextDatum)
           /\ UNCHANGED <<seen, writer, flushed>>
  <2>1. /\ Grows(file, gen, ends, file', ends') /\ buffer' = <<>> /\ blockCount' = 0
        /\ Datums(file') = Join(Datums(file), full)
    BY <1>1, <1>2, <1>7, WrittenGrows
  <2>2. accepted' = Join(Datums(file'), buffer')
    <3>1. Join(Datums(file), full) \in Seq(Data)
      BY <1>2, FileFacts, JoinProperties
    <3>2. Join(Join(Datums(file), full), <<>>) = Join(Datums(file), full)
      BY <3>1, ConcatEmptySeq DEF Join
    <3> QED
      BY <1>3, <1>7, <2>1, <3>2
  <2> QED
    BY <1>1, <1>4, <1>7, <2>1, <2>2, GrownInv
<1>8. CASE Raise(n)
  <2>1. /\ Grows(file, gen, ends, file', ends') /\ seen' = Len(file')
        /\ writer' = "none" /\ buffer' = <<>> /\ blockCount' = 0
        /\ accepted' = Join(Datums(file'), buffer') /\ flushed' = flushed
    BY <1>1, <1>2, <1>8, RaiseKeeps
  <2> QED
    BY <1>1, <1>4, <2>1, GrownInv
<1> QED
  BY <1>5, <1>6, <1>7, <1>8

LEMMA SyncInv ==
    ASSUME FileInv, Sync \/ Flush
    PROVE  FileInv' /\ Kept
<1>1. /\ file # <<>> /\ buffer \in Seq(Data) /\ blockCount = Len(buffer) /\ blockCount \in Nat
      /\ writer = "open" /\ UNCHANGED <<gen, reads, nextDatum, sessions>>
      /\ nextDatum \in 1 .. MaxData + 1 /\ sessions \in 0 .. MaxSessions /\ reads \in 0 .. MaxReads
  BY LenProperties DEF Sync, Flush, FileInv, readerVars
<1>2. <<>> \in Seq(Data) /\ Len(<<>>) = 0
  BY EmptySeq
<1>3. accepted = Join(Datums(file), buffer) /\ accepted \in Seq(Data)
  BY FileFacts DEF FileInv
<1>4. ASSUME WriteBlock(buffer, blockCount), accepted' = accepted
      PROVE  /\ Grows(file, gen, ends, file', ends') /\ buffer' = <<>> /\ blockCount' = 0
             /\ accepted' = Join(Datums(file'), buffer') /\ Datums(file') = accepted
  <2>1. /\ Grows(file, gen, ends, file', ends') /\ buffer' = <<>> /\ blockCount' = 0
        /\ Datums(file') = Join(Datums(file), buffer)
    BY <1>1, <1>4, WrittenGrows
  <2>2. Join(accepted, <<>>) = accepted
    BY <1>3, ConcatEmptySeq DEF Join
  <2> QED
    BY <1>3, <1>4, <2>1, <2>2
<1>5. CASE /\ WriteBlock(buffer, blockCount) /\ UNCHANGED <<seen, writer, accepted, flushed>>
  BY <1>1, <1>2, <1>4, <1>5, GrownInv
<1>6. ASSUME NEW state \in {"open", "none"}, FlushTo(state), accepted' = accepted PROVE FileInv' /\ Kept
  <2>1. /\ WriteBlock(buffer, blockCount) /\ seen' = Len(file') /\ writer' = state
        /\ flushed' = IF Len(file') \in ends' THEN accepted ELSE flushed
    BY <1>6 DEF FlushTo, Secured
  <2>2. /\ Grows(file, gen, ends, file', ends') /\ buffer' = <<>> /\ blockCount' = 0
        /\ accepted' = Join(Datums(file'), buffer') /\ Datums(file') = accepted
    BY <1>4, <1>6, <2>1
  <2>3. FlushedOK(file', ends', seen', accepted) \/ flushed' = flushed
    <3> SUFFICES ASSUME Len(file') \in ends' PROVE FlushedOK(file', ends', seen', accepted)
      BY <2>1
    <3>1. file' \in Seq(Tokens) /\ Len(file') \in Nat
      BY <2>2, LenProperties DEF Grows, FileGood
    <3>2. SubSeq(file', 1, Len(file')) = file'
      BY <3>1, SubSeqFull
    <3>3. IsPrefix(accepted, accepted)
      BY <1>3, PrefixJoin
    <3>4. Len(file') <= Len(file')
      BY <3>1
    <3> QED
      BY <1>3, <2>1, <2>2, <3>2, <3>3, <3>4 DEF FlushedOK
  <2>4. flushed' = flushed \/ FlushedOK(file', ends', seen', flushed')
    BY <2>1, <2>3
  <2> QED
    BY <1>1, <1>2, <1>6, <2>1, <2>2, <2>4, GrownInv
<1>7. CASE Raise(blockCount) /\ NoCodec(blockCount)
  <2>1. blockCount \in Nat \ {0}
    BY <1>1, <1>7 DEF NoCodec
  <2>2. /\ Grows(file, gen, ends, file', ends') /\ seen' = Len(file')
        /\ writer' = "none" /\ buffer' = <<>> /\ blockCount' = 0
        /\ accepted' = Join(Datums(file'), buffer') /\ flushed' = flushed
    BY <1>1, <1>7, <2>1, RaiseKeeps
  <2> QED
    BY <1>1, <1>2, <2>2, GrownInv
<1> QED
  BY <1>5, <1>6, <1>7 DEF Sync, Flush

LEMMA SpillInv ==
    ASSUME FileInv, Spill
    PROVE  FileInv' /\ Kept
<1>1. /\ file # <<>> /\ Len(file) >= HeaderEnd /\ file \in Seq(Tokens) /\ Len(file) \in Nat
      /\ ends \in SUBSET (1 .. Len(file)) /\ HeaderEnd \in Nat
  <2>1. Len(file) \in Nat /\ file \in Seq(Tokens) /\ seen \in Nat /\ seen < Len(file)
        /\ ends \in SUBSET (1 .. Len(file))
    BY FileFacts DEF Spill
  <2>2. file # <<>>
    BY <2>1, EmptySeq
  <2> QED
    BY <2>1, <2>2, HeaderEndFacts DEF FileInv, FileGood, Headed
<1>2. seen' \in 0 .. Len(file) /\ seen' >= HeaderEnd /\ seen <= seen' /\ seen' \in Nat
  BY <1>1 DEF Spill, FileInv
<1>3. FlushedOK(file, ends, seen', flushed)
  <2>1. seen \in 0 .. Len(file) /\ FlushedOK(file, ends, seen, flushed)
    BY DEF FileInv
  <2> QED
    BY <1>1, <1>2, <2>1, FlushedKept
<1>4. Kept
  BY <1>1, <1>2 DEF Spill, Kept, FileInv
<1> QED
  BY <1>2, <1>3, <1>4 DEF Spill, FileInv, writerVars, readerVars

LEMMA AbortInv ==
    ASSUME FileInv, Abort
    PROVE  FileInv' /\ Kept
<1>1. /\ file # <<>> /\ UNCHANGED <<file, gen, ends, flushed, nextDatum, sessions, reads>>
      /\ seen' = Len(file) /\ writer' = "none" /\ buffer' = <<>> /\ blockCount' = 0
      /\ accepted' = Datums(file)
  BY DEF Abort, FileInv, readerVars
<1>2. Grows(file, gen, ends, file', ends')
  BY <1>1, FileFacts DEF Grows, FileInv
<1>3. Join(Datums(file), <<>>) = Datums(file)
  BY FileFacts, ConcatEmptySeq DEF Join
<1>4. <<>> \in Seq(Data) /\ Len(<<>>) = 0
  BY EmptySeq
<1>5. nextDatum \in 1 .. MaxData + 1 /\ sessions \in 0 .. MaxSessions /\ reads \in 0 .. MaxReads
  BY DEF FileInv
<1> QED
  BY <1>1, <1>2, <1>3, <1>4, <1>5, GrownInv

LEMMA KillInv ==
    ASSUME FileInv, Kill
    PROVE  FileInv' /\ Kept
<1>1. /\ file' = SubSeq(file, 1, seen) /\ ends' = {e \in ends : e <= seen}
      /\ writer' = "none" /\ buffer' = <<>> /\ blockCount' = 0 /\ accepted' = Datums(file')
      /\ UNCHANGED <<seen, gen, reads, flushed, nextDatum, sessions>>
  BY DEF Kill, Upto, readerVars
<1>2. /\ file \in Seq(Tokens) /\ seen \in 0 .. Len(file) /\ seen \in Nat
      /\ ends \in SUBSET (1 .. Len(file)) /\ (seen = 0 \/ seen >= HeaderEnd)
      /\ FileGood(file, gen, ends) /\ FlushedOK(file, ends, seen, flushed)
  BY FileFacts DEF FileInv
<1>3. FileGood(file', gen', ends')
  BY <1>1, <1>2, CutGood
<1>4. file' \in Seq(Tokens) /\ Len(file') = seen /\ \A i \in 1 .. seen : file'[i] = file[i]
  BY <1>1, <1>2, FirstPart
<1>5. FlushedOK(file', ends', seen', flushed')
  <2>1. \A e \in ends : e <= seen => e \in ends'
    BY <1>1
  <2>2. seen <= seen /\ seen <= Len(file')
    BY <1>2, <1>4
  <2>3. FlushedOK(file', ends', seen, flushed)
    BY <1>2, <1>4, <2>1, <2>2, FlushedKept
  <2> QED
    BY <1>1, <2>3
<1>6. /\ <<>> \in Seq(Data) /\ Len(<<>>) = 0 /\ Join(Datums(file'), <<>>) = Datums(file')
  <2>1. Datums(file') \in Seq(Data)
    BY <1>4, DatumsType, TokenFacts
  <2> QED
    BY <2>1, EmptySeq, ConcatEmptySeq DEF Join
<1>7. seen \in 0 .. Len(file')
  BY <1>2, <1>4
<1>8. Kept
  BY <1>1, <1>2, <1>4 DEF Kept
<1> QED
  BY <1>1, <1>3, <1>5, <1>6, <1>7, <1>8 DEF FileInv

LEMMA OpenWriterInv ==
    ASSUME FileInv, OpenWriter
    PROVE  FileInv' /\ Kept
<1>1. /\ UNCHANGED <<file, gen, seen, ends, accepted, flushed, nextDatum, reads>>
      /\ writer' = "open" /\ buffer' = <<>> /\ blockCount' = 0 /\ sessions' \in 0 .. MaxSessions
      /\ buffer = <<>> /\ seen >= HeaderEnd
  BY DataFileAssumption DEF OpenWriter, FileInv, readerVars
<1>2. <<>> \in Seq(Data) /\ Len(<<>>) = 0
  BY EmptySeq
<1>3. file # <<>>
  BY <1>1, <1>2, FileFacts, HeaderEndFacts
<1>4. Kept
  BY <1>1, FileFacts DEF Kept
<1> QED
  BY <1>1, <1>2, <1>3, <1>4 DEF FileInv

LEMMA ReadingInv ==
    ASSUME FileInv, OpenReader \/ ReadNext \/ CloseReader \/ UNCHANGED vars
    PROVE  FileInv' /\ Kept
<1>1. UNCHANGED <<file, gen, seen, ends, accepted, flushed, nextDatum, sessions,
                  writer, buffer, blockCount>>
  BY DEF OpenReader, ReadNext, CloseReader, vars, writerVars
<1>2. reads' \in 0 .. MaxReads
  <2>1. reads \in 0 .. MaxReads /\ MaxReads \in Nat
    BY DataFileAssumption DEF FileInv
  <2>2. reads' = reads \/ (reads < MaxReads /\ reads' = reads + 1)
    BY DEF OpenReader, ReadNext, CloseReader, vars, readerVars
  <2> QED
    BY <2>1, <2>2
<1>3. Kept
  BY <1>1, FileFacts DEF Kept
<1> QED
  BY <1>1, <1>2, <1>3 DEF FileInv

LEMMA FileInvInit == Init => FileInv
<1> SUFFICES ASSUME Init PROVE FileInv
  OBVIOUS
<1>1. <<>> \in Seq(Data) /\ Len(<<>>) = 0 /\ Join(<<>>, <<>>) = <<>>
  BY EmptySeq, ConcatEmptySeq DEF Join
<1>2. /\ FileGood(file, gen, ends) /\ Datums(file) = <<>> /\ Len(file) \in {0, HeaderEnd}
  <2>1. CASE file = <<>> /\ ends = {}
    <3>1. FileGood(<<>>, 0, {})
      BY FreshGood
    <3>2. Datums(<<>>) = <<>>
      BY DatumsType, EmptySeq, TokenFacts
    <3> QED
      BY <1>1, <2>1, <3>1, <3>2 DEF Init
  <2>2. ASSUME NEW c \in Codecs, file = Header(c, 0), ends = {HeaderEnd}
        PROVE  /\ FileGood(file, gen, ends) /\ Datums(file) = <<>> /\ Len(file) \in {0, HeaderEnd}
    <3>1. c \in ValidCodecs \cup {"absent"}
      BY DataFileAssumption
    <3> QED
      BY <2>2, <3>1, FreshGood DEF Init
  <2> QED
    BY <2>1, <2>2 DEF Init
<1>3. seen \in 0 .. Len(file) /\ (seen = 0 \/ seen >= HeaderEnd)
  BY <1>2, HeaderEndFacts DEF Init
<1>4. FlushedOK(file, ends, seen, flushed)
  BY <1>1 DEF FlushedOK, Init
<1> QED
  BY <1>1, <1>2, <1>3, <1>4, DataFileAssumption DEF FileInv, Init

LEMMA FileInvStep ==
    ASSUME FileInv, [Next]_vars
    PROVE  FileInv' /\ (Kept \/ \E c \in ValidCodecs : CreateFile(c))
BY CreateFileInv, AppendDatumInv, SyncInv, SpillInv, AbortInv, KillInv, OpenWriterInv, ReadingInv
   DEF Next

-----------------------------------------------------------------------------
(* What a flush has secured. *)
LEMMA MaxIs ==
    ASSUME NEW S, S \subseteq Nat, S # {}, NEW n \in Nat, \A s \in S : s <= n
    PROVE  Max(S) \in S /\ \A s \in S : s <= Max(S)
<1> DEFINE room == {n - s : s \in S}
<1>1. room \subseteq Nat /\ room # {}
  <2>1. \A s \in S : n - s \in Nat
    OBVIOUS
  <2>2. \A r \in room : r \in Nat
    BY <2>1
  <2>3. PICK s \in S : TRUE
    OBVIOUS
  <2>4. n - s \in room
    OBVIOUS
  <2> QED
    BY <2>2, <2>4
<1>2. PICK r \in room : \A m \in room : r <= m
  <2> HIDE DEF room
  <2> QED
    BY <1>1, LeastNumber
<1>3. PICK t \in S : r = n - t
  BY <1>2
<1>4. ASSUME NEW s \in S PROVE t >= s
  <2>1. n - s \in room
    OBVIOUS
  <2>2. n - t <= n - s
    BY <1>2, <1>3, <2>1
  <2>3. s \in Nat /\ t \in Nat
    OBVIOUS
  <2> QED
    BY <2>2, <2>3
<1> DEFINE Top(x) == \A y \in S : x >= y
           top == CHOOSE x \in S : Top(x)
<1>5. t \in S /\ Top(t)
  BY <1>4
<1> HIDE DEF Top
<1>6. top \in S /\ Top(top)
  BY <1>5
<1>7. Max(S) = top
  BY DEF Max, Top
<1> HIDE DEF top
<1>8. \A s \in S : top >= s
  BY <1>6 DEF Top
<1>9. \A s \in S : s <= top
  <2> TAKE s \in S
  <2>1. s \in Nat /\ top \in Nat /\ top >= s
    BY <1>6, <1>8
  <2> QED
    BY <2>1
<1> QED
  BY <1>6, <1>7, <1>9

LEMMA WholeAtIs ==
    ASSUME FileInv, NEW n \in 0 .. Len(file)
    PROVE  /\ WholeAt(n) \in {0} \cup ends /\ WholeAt(n) \in 0 .. n
           /\ \A e \in ends : e <= n => e <= WholeAt(n)
<1> DEFINE S == {0} \cup {e \in ends : e <= n}
<1>1. Len(file) \in Nat /\ ends \in SUBSET (1 .. Len(file))
  BY FileFacts
<1>2. S \subseteq Nat /\ S # {} /\ (\A s \in S : s <= n) /\ n \in Nat
  <2>1. n \in Nat /\ \A e \in ends : e \in Nat
    BY <1>1
  <2>2. \A s \in S : s = 0 \/ (s \in ends /\ s <= n)
    OBVIOUS
  <2>3. \A s \in S : s \in Nat /\ s <= n
    BY <2>1, <2>2
  <2>4. 0 \in S
    OBVIOUS
  <2> HIDE DEF S
  <2> QED
    BY <2>1, <2>3, <2>4
<1>3. S \subseteq {0} \cup ends /\ \A e \in ends : e <= n => e \in S
  OBVIOUS
<1>4. WholeAt(n) = Max(S)
  BY DEF WholeAt
<1> HIDE DEF S
<1> DEFINE top == Max(S)
<1>5. top \in S /\ \A s \in S : s <= top
  BY <1>2, MaxIs
<1> HIDE DEF top
<1>6. top \in {0} \cup ends /\ top \in 0 .. n
  BY <1>2, <1>3, <1>5
<1>7. \A e \in ends : e <= n => e <= top
  BY <1>3, <1>5
<1> QED
  BY <1>4, <1>6, <1>7 DEF top

LEMMA UptoFacts ==
    ASSUME FileInv, NEW n \in 0 .. Len(file), NEW m \in 0 .. n
    PROVE  /\ Datums(Upto(m)) \in Seq(Data) /\ Datums(Upto(n)) \in Seq(Data)
           /\ Datums(Upto(n)) = Join(Datums(Upto(m)), Datums(SubSeq(file, m + 1, n)))
           /\ IsPrefix(Datums(Upto(m)), Datums(Upto(n)))
BY DatumsSplit, TokenFacts, FileFacts DEF Upto

LEMMA FlushedIsWhole ==
    ASSUME FileInv
    PROVE  IsPrefix(flushed, Datums(Upto(WholeAt(seen))))
<1>1. seen \in 0 .. Len(file) /\ Len(file) \in Nat /\ ends \in SUBSET (1 .. Len(file))
  BY FileFacts DEF FileInv
<1> DEFINE w == WholeAt(seen)
<1>2. w \in 0 .. seen /\ \A e \in ends : e <= seen => e <= w
  BY <1>1, WholeAtIs
<1> HIDE DEF w
<1>3. w \in 0 .. Len(file) /\ 0 \in 0 .. w
  BY <1>1, <1>2
<1>4. Datums(Upto(w)) \in Seq(Data)
  BY <1>3, UptoFacts
<1>5. CASE flushed = <<>>
  BY <1>4, <1>5, PrefixJoin DEF w
<1>6. ASSUME NEW e \in ends, e <= seen, IsPrefix(flushed, Datums(SubSeq(file, 1, e))),
             flushed \in Seq(Data)
      PROVE  IsPrefix(flushed, Datums(Upto(w)))
  <2>1. e \in 0 .. w
    BY <1>1, <1>2, <1>3, <1>6
  <2>2. Datums(Upto(e)) \in Seq(Data) /\ IsPrefix(Datums(Upto(e)), Datums(Upto(w)))
    BY <1>3, <2>1, UptoFacts
  <2>3. IsPrefix(flushed, Datums(Upto(e)))
    BY <1>6 DEF Upto
  <2> QED
    BY <1>4, <1>6, <2>2, <2>3, PrefixTransitive
<1> QED
  BY <1>5, <1>6 DEF FileInv, FlushedOK, w

-----------------------------------------------------------------------------
(* What a reader got, torn datums left aside.                                *)
Gettable == 0 .. MaxData
Marks(got) == [i \in 1 .. Len(got) |-> <<IF got[i] = Torn THEN "torn" ELSE "tail", got[i]>>]
Marked == {<<"torn", 0>>} \cup ({"tail"} \X Data)

LEMMA MarksFacts ==
    ASSUME NEW got \in Seq(Gettable)
    PROVE  /\ Marks(got) \in Seq(Marked) /\ Len(Marks(got)) = Len(got) /\ Carries(Marked, Data)
           /\ \A i \in 1 .. Len(got) :
                 Marks(got)[i] = <<IF got[i] = Torn THEN "torn" ELSE "tail", got[i]>>
<1>1. Len(got) \in Nat /\ \A i \in 1 .. Len(got) : got[i] \in Gettable
  BY LenProperties, ElementOfSeq
<1>2. \A d \in Gettable : <<IF d = Torn THEN "torn" ELSE "tail", d>> \in Marked
  BY DataFileAssumption DEF Gettable, Marked, Data, Torn
<1>3. Carries(Marked, Data)
  BY DEF Carries, Marked
<1> QED
  BY <1>1, <1>2, <1>3 DEF Marks

LEMMA UntornFacts ==
    ASSUME NEW got \in Seq(Gettable)
    PROVE  /\ Untorn(got) \in Seq(Data) /\ Untorn(<<>>) = <<>>
           /\ \A d \in Data : Untorn(Append(got, d)) = Append(Untorn(got), d)
           /\ Untorn(Append(got, Torn)) = Untorn(got)
<1>1. \A g : Untorn(g) = Datums(Marks(g))
  BY DEF Untorn, Marks
<1>2. Untorn(got) \in Seq(Data)
  BY <1>1, MarksFacts, DatumsType
<1>3. Untorn(<<>>) = <<>>
  <2> DEFINE nil == <<>>
  <2>1. nil \in Seq(Gettable) /\ Len(nil) = 0
    BY EmptySeq
  <2> HIDE DEF nil
  <2>2. Marks(nil) \in Seq(Marked) /\ Len(Marks(nil)) = 0
    BY <2>1, MarksFacts
  <2>3. \A i \in 1 .. Len(Marks(nil)) : Marks(nil)[i][1] # "tail"
    BY <2>2
  <2>4. Untorn(nil) = <<>>
    BY <1>1, <2>2, <2>3, DatumsNone
  <2> QED
    BY <2>4 DEF nil
<1>4. ASSUME NEW d \in Gettable
      PROVE  Untorn(Append(got, d)) = Taken(Untorn(got), <<IF d = Torn THEN "torn" ELSE "tail", d>>)
  <2> DEFINE more == Append(got, d)
             t == <<IF d = Torn THEN "torn" ELSE "tail", d>>
             m == Marks(got)
             k == Len(got)
  <2>1. /\ more \in Seq(Gettable) /\ Len(more) = k + 1 /\ more[k + 1] = d /\ k \in Nat
        /\ \A i \in 1 .. k : more[i] = got[i]
    BY LenProperties, AppendProperties
  <2> HIDE DEF more
  <2>2. /\ m \in Seq(Marked) /\ Len(m) = k /\ Carries(Marked, Data)
        /\ \A i \in 1 .. k : m[i] = <<IF got[i] = Torn THEN "torn" ELSE "tail", got[i]>>
    BY MarksFacts
  <2>3. /\ Marks(more) \in Seq(Marked) /\ Len(Marks(more)) = k + 1
        /\ \A i \in 1 .. k + 1 :
              Marks(more)[i] = <<IF more[i] = Torn THEN "torn" ELSE "tail", more[i]>>
    BY <2>1, MarksFacts
  <2>4. k + 1 \in 1 .. k + 1 /\ \A i \in 1 .. k : i \in 1 .. k + 1
    BY <2>1
  <2>5. Marks(more)[k + 1] = t
    BY <2>1, <2>3, <2>4
  <2>6. t \in Marked
    BY <2>3, <2>4, <2>5, ElementOfSeq
  <2> HIDE DEF t, m, k
  <2>7. Marks(more) = Append(m, t)
    <3> DEFINE mt == Append(m, t)
    <3>1. /\ mt \in Seq(Marked) /\ Len(mt) = k + 1 /\ mt[k + 1] = t
          /\ \A i \in 1 .. k : mt[i] = m[i]
      BY <2>2, <2>6, AppendProperties
    <3> HIDE DEF mt
    <3>2. ASSUME NEW i \in 1 .. k + 1 PROVE Marks(more)[i] = mt[i]
      <4>1. CASE i = k + 1
        BY <2>5, <3>1, <4>1
      <4>2. CASE i # k + 1
        <5>1. i \in 1 .. k
          BY <2>1, <4>2
        <5> QED
          BY <2>1, <2>2, <2>3, <3>1, <5>1
      <4> QED
        BY <4>1, <4>2
    <3>3. Marks(more) = mt
      BY <2>3, <3>1, <3>2, SeqEqual
    <3> QED
      BY <3>3 DEF mt
  <2>8. Datums(Append(m, t)) = Taken(Datums(m), t)
    BY <2>2, <2>6, DatumsAppend
  <2>9. Untorn(more) = Taken(Untorn(got), t)
    BY <1>1, <2>7, <2>8 DEF m
  <2> QED
    BY <2>9 DEF more, t
<1>5. ASSUME NEW d \in Data PROVE Untorn(Append(got, d)) = Append(Untorn(got), d)
  <2>1. d \in Gettable /\ d # Torn
    BY DataFileAssumption DEF Data, Gettable, Torn
  <2> QED
    BY <1>4, <2>1 DEF Taken
<1>6. Untorn(Append(got, Torn)) = Untorn(got)
  <2>1. Torn \in Gettable
    BY DataFileAssumption DEF Gettable, Torn
  <2> QED
    BY <1>4, <2>1 DEF Taken
<1> QED
  BY <1>2, <1>3, <1>5, <1>6


-----------------------------------------------------------------------------
(* The reader's file. *)
LEMMA UptoNext ==
    ASSUME FileInv, NEW p \in 0 .. Len(file) - 1
    PROVE  Datums(Upto(p + 1)) = Taken(Datums(Upto(p)), file[p + 1]) /\ file[p + 1] \in Tokens
<1>1. file \in Seq(Tokens) /\ Len(file) \in Nat /\ p \in Nat
  BY FileFacts
<1>2. p + 1 \in 1 .. Len(file) /\ p + 1 \in 0 .. Len(file) /\ p \in 0 .. Len(file) /\ p \in 0 .. p + 1
  BY <1>1
<1> DEFINE a == Upto(p)
           b == Upto(p + 1)
           t == file[p + 1]
           at == Append(a, t)
<1>3. t \in Tokens
  BY <1>1, <1>2, ElementOfSeq
<1>4. a \in Seq(Tokens) /\ Len(a) = p /\ \A i \in 1 .. p : a[i] = file[i]
  BY <1>1, <1>2, FirstPart DEF Upto
<1>5. b \in Seq(Tokens) /\ Len(b) = p + 1 /\ \A i \in 1 .. p + 1 : b[i] = file[i]
  BY <1>1, <1>2, FirstPart DEF Upto
<1> HIDE DEF a, b
<1>6. /\ at \in Seq(Tokens) /\ Len(at) = p + 1 /\ at[p + 1] = t
      /\ \A i \in 1 .. p : at[i] = a[i]
  BY <1>3, <1>4, AppendProperties
<1> HIDE DEF at
<1>7. ASSUME NEW i \in 1 .. p + 1 PROVE b[i] = at[i]
  <2>1. CASE i = p + 1
    BY <1>5, <1>6, <2>1
  <2>2. CASE i # p + 1
    <3>1. i \in 1 .. p
      BY <1>1, <2>2
    <3> QED
      BY <1>4, <1>5, <1>6, <3>1
  <2> QED
    BY <2>1, <2>2
<1>8. b = at
  BY <1>5, <1>6, <1>7, SeqEqual
<1>9. Datums(at) = Taken(Datums(a), t)
  BY <1>3, <1>4, DatumsAppend, TokenFacts DEF at
<1> QED
  BY <1>3, <1>8, <1>9 DEF a, b

LEMMA KindFacts ==
    ASSUME FileInv, NEW p \in Nat, Kind(p + 1) # "eof"
    PROVE  /\ p + 1 <= seen /\ p \in 0 .. Len(file) - 1 /\ file[p + 1] \in Tokens
           /\ Kind(p + 1) = file[p + 1][1]
           /\ Datums(Upto(p + 1)) = Taken(Datums(Upto(p)), file[p + 1])
<1>1. p + 1 <= seen /\ Kind(p + 1) = file[p + 1][1]
  BY DEF Kind
<1>2. p \in 0 .. Len(file) - 1
  BY <1>1, FileFacts
<1> QED
  BY <1>1, <1>2, UptoNext

(* A head and its tail. *)
LEMMA HeadAndTail ==
    ASSUME FileInv, NEW p \in Nat, Kind(p + 1) = "head", Kind(p + 2) \in {"head", "tail"}
    PROVE  /\ p + 2 <= seen /\ file[p + 1][2] \in Data /\ Kind(p + 2) = "tail"
           /\ Datums(Upto(p + 2)) = Append(Datums(Upto(p)), file[p + 1][2])
<1>1. p + 1 \in Nat /\ p + 2 = (p + 1) + 1
  OBVIOUS
<1>2. /\ p + 1 <= seen /\ file[p + 1] \in Tokens /\ file[p + 1][1] = "head"
      /\ Datums(Upto(p + 1)) = Taken(Datums(Upto(p)), file[p + 1])
  BY KindFacts
<1>3. /\ p + 2 <= seen /\ p + 1 \in 0 .. Len(file) - 1 /\ file[p + 2][1] = Kind(p + 2)
      /\ Datums(Upto(p + 2)) = Taken(Datums(Upto(p + 1)), file[p + 2])
  BY <1>1, KindFacts
<1>4. p + 1 \in 1 .. Len(file) - 1
  BY <1>3, FileFacts
<1>5. file[p + 2][1] = "tail" /\ file[p + 2][2] = file[p + 1][2]
  BY <1>1, <1>2, <1>3, <1>4 DEF FileInv, FileGood, Neighbours
<1>6. file[p + 1][2] \in Data
  BY <1>2, TokenFacts
<1> QED
  BY <1>2, <1>3, <1>5, <1>6 DEF Taken

-----------------------------------------------------------------------------
(* The reader: what it holds, and what it got, are the datums up to where it *)
(* is; or were, until it went astray.                                        *)
Readers ==
    [at : {"closed", "open", "stopped", "broken", "lost"}, gen : Nat, pos : Nat, length : Nat,
     count : Nat, inflated : Seq(Data), got : Seq(Gettable), turn : Nat \cup {Never}]

InMemory(b) == b.inflated # <<>> => b.count = Len(b.inflated)

FaithfulAt(b, p) ==
    /\ p \in 1 .. seen
    /\ b.turn = Never => Join(Untorn(b.got), b.inflated) = Datums(Upto(p))
    /\ b.turn # Never => /\ b.turn <= Len(b.got)
                         /\ IsPrefix(Untorn(SubSeq(b.got, 1, b.turn)), Datums(Upto(seen)))

Faithful(b) == b.pos >= HeaderEnd /\ FaithfulAt(b, b.pos)

(* What a call of next leaves as it was. *)
Follows(b, c) ==
    /\ c \in Readers /\ InMemory(c) /\ c.gen = b.gen /\ c.length = b.length
    /\ c.got = b.got \/ \E d \in Gettable : c.got = Append(b.got, d)
    /\ c.turn = b.turn \/ (b.turn = Never /\ c.turn = Len(b.got))

LEMMA GotMore ==
    ASSUME NEW b \in Readers, NEW d \in Gettable, NEW t \in Nat, t <= Len(b.got)
    PROVE  /\ Append(b.got, d) \in Seq(Gettable) /\ Len(Append(b.got, d)) = Len(b.got) + 1
           /\ t <= Len(Append(b.got, d)) /\ SubSeq(Append(b.got, d), 1, t) = SubSeq(b.got, 1, t)
<1> DEFINE g == b.got
           h == Append(g, d)
<1>1. g \in Seq(Gettable) /\ Len(g) \in Nat
  BY LenProperties DEF Readers
<1> HIDE DEF g
<1>2. h \in Seq(Gettable) /\ Len(h) = Len(g) + 1 /\ \A i \in 1 .. Len(g) : h[i] = g[i]
  BY <1>1, AppendProperties
<1> HIDE DEF h
<1>3. t \in 0 .. Len(g) /\ t <= Len(h) /\ \A i \in 1 .. t : h[i] = g[i]
  BY <1>1, <1>2 DEF g
<1>4. SubSeq(h, 1, t) = SubSeq(g, 1, t)
  BY <1>1, <1>2, <1>3, SamePart
<1> QED
  BY <1>2, <1>3, <1>4 DEF g, h


(* A read that goes wrong: an exception, or a datum of which nothing is      *)
(* known; what was got before stays what it was.                             *)
LEMMA FailedFollows ==
    ASSUME FileInv, NEW b \in Readers, InMemory(b), NEW c, c = Broken(b) \/ c \in Lost(b)
    PROVE  Follows(b, c) /\ (Faithful(b) => Faithful(c))
<1>1. CASE c = Broken(b)
  <2>1. /\ c \in Readers /\ c.gen = b.gen /\ c.length = b.length /\ c.got = b.got /\ c.turn = b.turn
        /\ c.inflated = b.inflated /\ c.count = b.count /\ c.pos = b.pos
    BY <1>1 DEF Broken, Readers
  <2> QED
    BY <2>1 DEF Follows, InMemory, Faithful, FaithfulAt
<1>2. ASSUME c = [Astray(b) EXCEPT !.at = "lost", !.got = Append(@, Torn)]
      PROVE  Follows(b, c) /\ (Faithful(b) => Faithful(c))
  <2> DEFINE more == Append(b.got, Torn)
             turn == IF b.turn = Never THEN Len(b.got) ELSE b.turn
  <2>1. b.got \in Seq(Gettable) /\ Len(b.got) \in Nat /\ SubSeq(b.got, 1, Len(b.got)) = b.got
        /\ Torn \in Gettable /\ turn \in Nat
    <3>1. b.got \in Seq(Gettable) /\ Torn \in Gettable /\ b.turn \in Nat \cup {Never}
      BY DataFileAssumption DEF Readers, Gettable, Torn
    <3>2. Len(b.got) \in Nat /\ SubSeq(b.got, 1, Len(b.got)) = b.got
      BY <3>1, LenProperties, SubSeqFull
    <3> QED
      BY <3>1, <3>2
  <2>2. more \in Seq(Gettable)
    BY <2>1, GotMore
  <2>3. /\ c.at = "lost" /\ c.gen = b.gen /\ c.length = b.length /\ c.got = more /\ c.turn = turn
        /\ c.inflated = b.inflated /\ c.count = b.count /\ c.pos = b.pos
    BY <1>2 DEF Astray, Readers
  <2>4. c \in Readers
    <3> HIDE DEF more, turn
    <3>1. c = [b EXCEPT !.at = "lost", !.got = more, !.turn = turn]
      BY <1>2 DEF Astray, more, turn, Readers
    <3> QED
      BY <2>1, <2>2, <3>1 DEF Readers
  <2>5. Follows(b, c)
    BY <2>1, <2>3, <2>4 DEF Follows, InMemory
  <2>6. ASSUME Faithful(b) PROVE Faithful(c)
    <3>1. b.pos >= HeaderEnd /\ b.pos \in 1 .. seen
      BY <2>6 DEF Faithful, FaithfulAt
    <3>2. b.turn # Never => b.turn <= Len(b.got)
      BY <2>6 DEF Faithful, FaithfulAt
    <3>3. IsPrefix(Untorn(SubSeq(b.got, 1, turn)), Datums(Upto(seen)))
      <4>1. CASE b.turn # Never
        BY <2>6, <4>1 DEF Faithful, FaithfulAt
      <4>2. CASE b.turn = Never
        <5>1. Join(Untorn(b.got), b.inflated) = Datums(Upto(b.pos))
          BY <2>6, <4>2 DEF Faithful, FaithfulAt
        <5>2. b.pos \in 0 .. seen /\ seen \in 0 .. Len(file) /\ b.inflated \in Seq(Data)
          BY <3>1, FileFacts DEF FileInv, Readers
        <5>3. /\ Datums(Upto(b.pos)) \in Seq(Data) /\ Datums(Upto(seen)) \in Seq(Data)
              /\ IsPrefix(Datums(Upto(b.pos)), Datums(Upto(seen)))
          BY <5>2, UptoFacts
        <5>4. Untorn(b.got) \in Seq(Data)
          BY <2>1, UntornFacts
        <5>5. IsPrefix(Untorn(b.got), Datums(Upto(b.pos)))
          BY <5>1, <5>2, <5>4, PrefixJoin
        <5>6. IsPrefix(Untorn(b.got), Datums(Upto(seen)))
          BY <5>3, <5>4, <5>5, PrefixTransitive
        <5> QED
          BY <2>1, <4>2, <5>6
      <4> QED
        BY <4>1, <4>2
    <3>4. turn <= Len(b.got) /\ turn # Never
      BY <2>1, <3>2 DEF Never
    <3>5. turn <= Len(more) /\ SubSeq(more, 1, turn) = SubSeq(b.got, 1, turn)
      BY <2>1, <3>4, GotMore
    <3> HIDE DEF more, turn
    <3> QED
      BY <2>3, <3>1, <3>3, <3>4, <3>5 DEF Faithful, FaithfulAt
  <2> QED
    BY <2>5, <2>6
<1> QED
  BY <1>1, <1>2 DEF Lost

(* A datum more: d for what is found, the tokens up to q hold it as well.    *)
LEMMA DatumFollows ==
    ASSUME FileInv, NEW b \in Readers, b.inflated = <<>>, NEW p \in Nat, FaithfulAt(b, p),
           NEW q \in HeaderEnd .. seen, NEW n \in Nat, NEW d \in Gettable,
           \/ d \in Data /\ Datums(Upto(q)) = Append(Datums(Upto(p)), d)
           \/ d = Torn /\ Datums(Upto(q)) = Datums(Upto(p)),
           NEW c, c = [b EXCEPT !.count = n, !.pos = q, !.got = Append(@, d)]
    PROVE  Follows(b, c) /\ Faithful(c)
<1> DEFINE more == Append(b.got, d)
<1>1. HeaderEnd \in Nat /\ q \in Nat /\ q >= HeaderEnd /\ q \in 1 .. seen
  BY HeaderEndFacts, FileFacts
<1>2. more \in Seq(Gettable) /\ b.got \in Seq(Gettable)
  BY GotMore DEF Readers
<1>3. /\ c.at = b.at /\ c.gen = b.gen /\ c.length = b.length /\ c.count = n /\ c.pos = q
      /\ c.inflated = b.inflated /\ c.got = more /\ c.turn = b.turn
  BY DEF Readers
<1>4. c \in Readers
  <2> HIDE DEF more
  <2>1. c = [b EXCEPT !.count = n, !.pos = q, !.got = more]
    BY DEF more
  <2> QED
    BY <1>1, <1>2, <2>1 DEF Readers
<1>5. Follows(b, c)
  BY <1>3, <1>4 DEF Follows, InMemory
<1>6. c.turn = Never => Join(Untorn(c.got), c.inflated) = Datums(Upto(c.pos))
  <2> SUFFICES ASSUME b.turn = Never PROVE Join(Untorn(more), <<>>) = Datums(Upto(q))
    BY <1>3
  <2>1. Untorn(b.got) \in Seq(Data) /\ Untorn(more) \in Seq(Data)
    BY <1>2, UntornFacts
  <2>2. Untorn(b.got) = Datums(Upto(p))
    BY <2>1, ConcatEmptySeq DEF FaithfulAt, Join
  <2>3. Untorn(more) = Datums(Upto(q))
    BY <1>2, <2>2, UntornFacts
  <2> QED
    BY <2>1, <2>3, ConcatEmptySeq DEF Join
<1>7. c.turn # Never => /\ c.turn <= Len(c.got)
                        /\ IsPrefix(Untorn(SubSeq(c.got, 1, c.turn)), Datums(Upto(seen)))
  <2> SUFFICES ASSUME b.turn # Never
               PROVE  /\ b.turn <= Len(more)
                      /\ IsPrefix(Untorn(SubSeq(more, 1, b.turn)), Datums(Upto(seen)))
    BY <1>3
  <2>1. b.turn \in Nat /\ b.turn <= Len(b.got)
        /\ IsPrefix(Untorn(SubSeq(b.got, 1, b.turn)), Datums(Upto(seen)))
    BY DEF Readers, FaithfulAt
  <2> QED
    BY <2>1, GotMore
<1> QED
  BY <1>1, <1>3, <1>5, <1>6, <1>7 DEF Faithful, FaithfulAt

LEMMA ReadDatumFollows ==
    ASSUME FileInv, NEW b \in Readers, InMemory(b), Faithful(b), b.inflated = <<>>,
           NEW p \in HeaderEnd .. seen, FaithfulAt(b, p), NEW n \in Nat, NEW c \in ReadDatum(b, p, n)
    PROVE  Follows(b, c) /\ Faithful(c)
<1>1. p \in Nat /\ p + 1 \in Nat /\ HeaderEnd \in Nat /\ seen \in Nat
  BY HeaderEndFacts, FileFacts
<1>2. CASE c = Broken(b) \/ c \in Lost(b)
  BY <1>2, FailedFollows
<1>3. ASSUME Kind(p + 1) = "head", Kind(p + 2) = "tail",
             c = [b EXCEPT !.count = n, !.pos = p + 2, !.got = Append(@, file[p + 1][2])]
      PROVE  Follows(b, c) /\ Faithful(c)
  <2> DEFINE d == file[p + 1][2]
  <2>1. /\ p + 2 <= seen /\ d \in Data
        /\ Datums(Upto(p + 2)) = Append(Datums(Upto(p)), d)
    BY <1>1, <1>3, HeadAndTail
  <2>2. p + 2 \in HeaderEnd .. seen /\ d \in Gettable
    BY <1>1, <2>1, DataFileAssumption DEF Data, Gettable
  <2> HIDE DEF d
  <2> QED
    BY <1>1, <1>3, <2>1, <2>2, DatumFollows DEF d
<1>4. ASSUME Kind(p + 1) = "head", c = [b EXCEPT !.count = n, !.pos = p + 1, !.got = Append(@, Torn)]
      PROVE  Follows(b, c) /\ Faithful(c)
  <2>1. p + 1 <= seen /\ Datums(Upto(p + 1)) = Datums(Upto(p))
    BY <1>1, <1>4, KindFacts DEF Taken
  <2>2. p + 1 \in HeaderEnd .. seen /\ Torn \in Gettable
    BY <1>1, <2>1, DataFileAssumption DEF Gettable, Torn
  <2> QED
    BY <1>1, <1>4, <2>1, <2>2, DatumFollows
<1> QED
  BY <1>2, <1>3, <1>4 DEF ReadDatum

LEMMA HeadAndRest ==
    ASSUME NEW S, NEW s \in Seq(S), s # <<>>
    PROVE  /\ Head(s) \in S /\ Tail(s) \in Seq(S) /\ Len(Tail(s)) = Len(s) - 1 /\ Len(s) - 1 \in Nat
           /\ s = Join(<<Head(s)>>, Tail(s))
<1>1. /\ Head(s) \in S /\ Tail(s) \in Seq(S) /\ Len(Tail(s)) = Len(s) - 1
  BY HeadTailProperties
<1>2. Len(s) \in Nat \ {0}
  BY LenProperties, EmptySeq
<1>3. 1 \in 1 .. Len(s) /\ Len(s) \in 1 .. Len(s) /\ Len(s) - 1 \in Nat
  BY <1>2
<1>4. SubSeq(s, 1, Len(s)) = s
  BY SubSeqFull
<1>5. /\ Head(SubSeq(s, 1, Len(s))) = s[1]
      /\ Tail(SubSeq(s, 1, Len(s))) = SubSeq(s, 1 + 1, Len(s))
  BY <1>3, HeadTailOfSubSeq
<1>6. SubSeq(s, 1, Len(s)) = <<s[1]>> \o SubSeq(s, 1 + 1, Len(s))
  BY <1>3, SubSeqRecursiveFirst
<1>7. Head(s) = s[1] /\ Tail(s) = SubSeq(s, 1 + 1, Len(s))
  BY <1>4, <1>5
<1>8. s = <<s[1]>> \o SubSeq(s, 1 + 1, Len(s))
  BY <1>4, <1>6
<1>9. s = Join(<<Head(s)>>, Tail(s))
  BY <1>7, <1>8 DEF Join
<1> QED
  BY <1>1, <1>3, <1>9

(* The datums of a compressed block. *)
LEMMA DecodeFollows ==
    ASSUME FileInv, NEW b \in Readers, NEW data \in Seq(Data), data # <<>>, NEW q \in HeaderEnd .. seen,
           b.turn = Never => Join(Untorn(b.got), data) = Datums(Upto(q)),
           b.turn # Never => /\ b.turn <= Len(b.got)
                             /\ IsPrefix(Untorn(SubSeq(b.got, 1, b.turn)), Datums(Upto(seen))),
           NEW c, c = [Decode(b, data) EXCEPT !.pos = q]
    PROVE  Follows(b, c) /\ Faithful(c)
<1> DEFINE d == Head(data)
           rest == Tail(data)
           more == Append(b.got, d)
<1>1. HeaderEnd \in Nat /\ q \in Nat /\ q >= HeaderEnd /\ q \in 1 .. seen
  BY HeaderEndFacts, FileFacts
<1>2. /\ d \in Data /\ rest \in Seq(Data) /\ Len(rest) = Len(data) - 1
      /\ Len(data) - 1 \in Nat /\ data = Join(<<d>>, rest)
  BY HeadAndRest
<1>3. d \in Gettable
  BY <1>2, DataFileAssumption DEF Data, Gettable
<1> HIDE DEF d, rest
<1>4. more \in Seq(Gettable) /\ b.got \in Seq(Gettable)
  BY <1>3, GotMore DEF Readers
<1>5. /\ c.at = b.at /\ c.gen = b.gen /\ c.length = b.length /\ c.count = Len(data) - 1
      /\ c.pos = q /\ c.inflated = rest /\ c.got = more /\ c.turn = b.turn
  BY DEF Readers, Decode, d, rest
<1>6. c \in Readers
  <2> HIDE DEF more
  <2>1. c = [[b EXCEPT !.count = Len(data) - 1, !.got = more, !.inflated = rest] EXCEPT !.pos = q]
    BY DEF more, d, rest, Decode
  <2> QED
    BY <1>1, <1>2, <1>4, <2>1 DEF Readers
<1>7. Follows(b, c)
  BY <1>2, <1>3, <1>5, <1>6 DEF Follows, InMemory
<1>8. c.turn = Never => Join(Untorn(c.got), c.inflated) = Datums(Upto(c.pos))
  <2> SUFFICES ASSUME b.turn = Never PROVE Join(Untorn(more), rest) = Datums(Upto(q))
    BY <1>5
  <2> DEFINE u == Untorn(b.got)
             one == <<d>>
  <2>1. u \in Seq(Data) /\ Untorn(more) = Append(u, d)
    BY <1>2, <1>4, UntornFacts
  <2>2. one \in Seq(Data)
    BY <1>2
  <2> HIDE DEF u
  <2>3. Append(u, d) = Join(u, one)
    BY <1>2, <2>1, AppendIsConcat DEF Join
  <2> HIDE DEF one
  <2>4. Join(Join(u, one), rest) = Join(u, Join(one, rest))
    BY <1>2, <2>1, <2>2, Associative
  <2>5. Join(one, rest) = data
    BY <1>2 DEF one
  <2> QED
    BY <2>1, <2>3, <2>4, <2>5 DEF u
<1>9. c.turn # Never => /\ c.turn <= Len(c.got)
                        /\ IsPrefix(Untorn(SubSeq(c.got, 1, c.turn)), Datums(Upto(seen)))
  <2> SUFFICES ASSUME b.turn # Never
               PROVE  /\ b.turn <= Len(more)
                      /\ IsPrefix(Untorn(SubSeq(more, 1, b.turn)), Datums(Upto(seen)))
    BY <1>5
  <2>1. b.turn \in Nat
    BY DEF Readers
  <2> QED
    BY <1>3, <2>1, GotMore
<1> QED
  BY <1>1, <1>5, <1>7, <1>8, <1>9 DEF Faithful, FaithfulAt


LEMMA InflatedData ==
    ASSUME FileInv, NEW p \in Nat \ {0}, Kind(p) = "len", NEW n \in Nat \ {0}, p + 2 * n <= seen,
           \A i \in 1 .. 2 * n : Kind(p + i) \in {"head", "tail"}
    PROVE  /\ Datums(SubSeq(file, p + 1, p + 2 * n)) \in Seq(Data)
           /\ Datums(SubSeq(file, p + 1, p + 2 * n)) # <<>>
           /\ Datums(Upto(p + 2 * n)) = Join(Datums(Upto(p)), Datums(SubSeq(file, p + 1, p + 2 * n)))
<1> DEFINE q == p + 2 * n
           D == Datums(SubSeq(file, p + 1, q))
           U == Datums(Upto(p))
<1>1. /\ file \in Seq(Tokens) /\ Len(file) \in Nat /\ seen \in Nat /\ seen <= Len(file)
  BY FileFacts
<1>2. /\ q \in Nat /\ p + 2 <= q /\ q \in 0 .. Len(file) /\ p \in 0 .. q /\ p + 2 \in 0 .. q
      /\ 1 \in 1 .. 2 * n /\ 2 \in 1 .. 2 * n
  BY <1>1
<1>3. D \in Seq(Data) /\ Datums(Upto(q)) = Join(U, D) /\ U \in Seq(Data)
      /\ Datums(Upto(q)) \in Seq(Data)
  <2> HIDE DEF q
  <2>1. Carries(Tokens, Data) /\ file \in Seq(Tokens) /\ q \in 0 .. Len(file) /\ p \in 0 .. q
    BY <1>1, <1>2, TokenFacts
  <2> HIDE DEF U
  <2>2. D \in Seq(Data)
    BY <2>1, DatumsSplit, Zenon
  <2>3. Datums(Upto(q)) \in Seq(Data) /\ Datums(Upto(q)) = Join(U, D) /\ U \in Seq(Data)
    BY <2>1, UptoFacts, Zenon DEF U
  <2> QED
    BY <2>2, <2>3
<1>4. Kind(p + 1) \in {"head", "tail"} /\ Kind(p + 2) \in {"head", "tail"}
  BY <1>2
<1>5. Kind(p + 1) = "head"
  <2>1. p \in 1 .. Len(file) - 1 /\ file[p + 1][1] = Kind(p + 1)
    <3>1. Kind(p + 1) # "eof" /\ p \in Nat
      BY <1>4
    <3>2. p \in 0 .. Len(file) - 1 /\ file[p + 1][1] = Kind(p + 1)
      BY <3>1, KindFacts
    <3>3. p \in 1 .. Len(file) - 1
      BY <1>1, <3>2
    <3> QED
      BY <3>2, <3>3
  <2>2. file[p][1] = "len"
    BY <1>1, <1>2 DEF Kind
  <2>3. file[p + 1][1] # "tail"
    BY <2>1, <2>2 DEF FileInv, FileGood, Neighbours
  <2> QED
    BY <1>4, <2>1, <2>3
<1> DEFINE d == file[p + 1][2]
           V == Datums(Upto(p + 2))
           W == Datums(Upto(q))
<1>6. d \in Data /\ V = Append(U, d)
  BY <1>4, <1>5, HeadAndTail
<1>7. IsPrefix(V, W) /\ V \in Seq(Data)
  BY <1>2, UptoFacts
<1> HIDE DEF D, U, V, W, d, q
<1>8. D # <<>>
  <2> SUFFICES ASSUME D = <<>> PROVE FALSE
    OBVIOUS
  <2>1. Join(U, <<>>) = U
    BY <1>3, ConcatEmptySeq DEF Join
  <2>2. W = U
    BY <1>3, <2>1 DEF W
  <2>3. Len(V) <= Len(W)
    BY <1>3, <1>7, PrefixIs DEF W
  <2>4. Len(V) = Len(U) + 1 /\ Len(U) \in Nat
    BY <1>3, <1>6, AppendProperties, LenProperties
  <2> QED
    BY <2>2, <2>3, <2>4
<1> QED
  BY <1>3, <1>8 DEF D, U, q

LEMMA InflateFollows ==
    ASSUME FileInv, NEW b \in Readers, InMemory(b), Faithful(b), b.inflated = <<>>,
           NEW p \in HeaderEnd .. seen, FaithfulAt(b, p), Kind(p) = "len", NEW n \in Nat \ {0},
           NEW c \in Inflate(b, p, n)
    PROVE  Follows(b, c) /\ Faithful(c)
<1>1. p \in Nat \ {0} /\ HeaderEnd \in Nat /\ seen \in Nat
  BY HeaderEndFacts, FileFacts
<1>2. CASE c = Broken(b) \/ c \in Lost(b)
  BY <1>2, FailedFollows
<1> DEFINE q == p + 2 * n
           D == Datums(SubSeq(file, p + 1, q))
<1>3. ASSUME q <= seen, \A i \in 1 .. 2 * n : Kind(p + i) \in {"head", "tail"},
             c = [Decode(b, D) EXCEPT !.pos = q]
      PROVE  Follows(b, c) /\ Faithful(c)
  <2>1. D \in Seq(Data) /\ D # <<>> /\ Datums(Upto(q)) = Join(Datums(Upto(p)), D)
    BY <1>1, <1>3, InflatedData
  <2>2. q \in HeaderEnd .. seen
    BY <1>1, <1>3
  <2> HIDE DEF D, q
  <2>3. b.turn = Never => Join(Untorn(b.got), D) = Datums(Upto(q))
    <3>1. Untorn(b.got) \in Seq(Data)
      BY UntornFacts DEF Readers
    <3>2. Join(Untorn(b.got), <<>>) = Untorn(b.got)
      BY <3>1, ConcatEmptySeq DEF Join
    <3> QED
      BY <2>1, <3>2 DEF FaithfulAt
  <2>4. b.turn # Never => /\ b.turn <= Len(b.got)
                          /\ IsPrefix(Untorn(SubSeq(b.got, 1, b.turn)), Datums(Upto(seen)))
    BY DEF FaithfulAt
  <2> QED
    BY <1>3, <2>1, <2>2, <2>3, <2>4, DecodeFollows
<1>4. c = Broken(b) \/ c \in Lost(b)
      \/ (/\ q <= seen /\ (\A i \in 1 .. 2 * n : Kind(p + i) \in {"head", "tail"})
          /\ c = [Decode(b, D) EXCEPT !.pos = q])
  <2>1. CASE q > seen
    BY <2>1 DEF Inflate
  <2>2. CASE ~ (q > seen) /\ \E i \in 1 .. 2 * n : Kind(p + i) \notin {"head", "tail"}
    BY <2>2 DEF Inflate
  <2>3. CASE ~ (q > seen) /\ ~ \E i \in 1 .. 2 * n : Kind(p + i) \notin {"head", "tail"}
    <3>1. q <= seen
      BY <1>1, <2>3
    <3>2. c = [Decode(b, D) EXCEPT !.pos = q]
      BY <2>3, Zenon DEF Inflate
    <3> QED
      BY <2>3, <3>1, <3>2
  <2> QED
    BY <2>1, <2>2, <2>3
<1> QED
  BY <1>2, <1>3, <1>4

(* _read_block_header, and the first datum. *)
LEMMA CountAndLength ==
    ASSUME FileInv, NEW p \in Nat, Kind(p + 1) = "count", Kind(p + 2) = "len"
    PROVE  /\ p >= HeaderEnd /\ p + 2 <= seen /\ file[p + 1][2] \in Nat \ {0}
           /\ Datums(Upto(p + 2)) = Datums(Upto(p))
<1>1. p + 1 \in Nat /\ p + 2 = (p + 1) + 1 /\ HeaderEnd \in Nat /\ seen \in Nat /\ Len(file) \in Nat
  BY HeaderEndFacts, FileFacts
<1>2. /\ p + 1 <= seen /\ p \in 0 .. Len(file) - 1 /\ file[p + 1] \in Tokens /\ file[p + 1][1] = "count"
      /\ Datums(Upto(p + 1)) = Datums(Upto(p))
  BY KindFacts DEF Taken
<1>3. /\ p + 2 <= seen /\ file[p + 2][1] = "len"
      /\ Datums(Upto(p + 2)) = Datums(Upto(p + 1))
  BY <1>1, KindFacts DEF Taken
<1>4. p >= HeaderEnd
  <2> SUFFICES ASSUME p < HeaderEnd PROVE FALSE
    BY <1>1
  <2>1. file # <<>>
    BY <1>2, EmptySeq
  <2>2. p + 1 \in 1 .. HeaderEnd
    BY <1>1
  <2>3. file[p + 1][1] \in {"header", "sync"}
    BY <2>1, <2>2 DEF FileInv, FileGood, Headed
  <2> QED
    BY <1>2, <2>3
<1>5. file[p + 1][2] \in Nat \ {0}
  BY <1>2, TokenFacts
<1> QED
  BY <1>2, <1>3, <1>4, <1>5

LEMMA BeginBlockFollows ==
    ASSUME FileInv, NEW b \in Readers, InMemory(b), Faithful(b), b.inflated = <<>>,
           NEW p \in Nat, FaithfulAt(b, p), NEW c \in BeginBlock(b, p)
    PROVE  Follows(b, c) /\ Faithful(c)
<1>1. CASE c = Broken(b) \/ c \in Lost(b)
  BY <1>1, FailedFollows
<1>2. ASSUME Kind(p + 1) = "count", Kind(p + 2) = "len",
             IF Codec = "deflate" THEN c \in Inflate(b, p + 2, file[p + 1][2])
             ELSE c \in ReadDatum(b, p + 2, file[p + 1][2] - 1)
      PROVE  Follows(b, c) /\ Faithful(c)
  <2> DEFINE n == file[p + 1][2]
  <2>1. /\ p >= HeaderEnd /\ p + 2 <= seen /\ n \in Nat \ {0}
        /\ Datums(Upto(p + 2)) = Datums(Upto(p))
    BY <1>2, CountAndLength
  <2>2. HeaderEnd \in Nat /\ seen \in Nat /\ n - 1 \in Nat /\ p + 2 \in HeaderEnd .. seen
        /\ p + 2 \in 1 .. seen
    <3>1. HeaderEnd \in Nat /\ seen \in Nat
      BY HeaderEndFacts, FileFacts
    <3> HIDE DEF n
    <3> QED
      BY <2>1, <3>1
  <2>3. FaithfulAt(b, p + 2)
    BY <2>1, <2>2 DEF FaithfulAt
  <2> HIDE DEF n
  <2>4. CASE Codec = "deflate"
    BY <1>2, <2>1, <2>2, <2>3, <2>4, InflateFollows DEF n
  <2>5. CASE Codec # "deflate"
    BY <1>2, <2>2, <2>3, <2>5, ReadDatumFollows DEF n
  <2> QED
    BY <2>4, <2>5
<1> QED
  BY <1>1, <1>2 DEF BeginBlock


(* _skip_sync: past a marker, or not forward.                                *)
LEMMA SkipSyncIs ==
    ASSUME FileInv, NEW p \in HeaderEnd .. seen
    PROVE  \/ /\ SkipSync(p) = p + SyncSize /\ p + SyncSize \in HeaderEnd .. seen
              /\ SkipSync(p) > p /\ Datums(Upto(SkipSync(p))) = Datums(Upto(p))
           \/ SkipSync(p) \in 1 .. p
<1> DEFINE m == IF p + SyncSize < seen THEN p + SyncSize ELSE seen
           piece == SubSeq(file, p + 1, m)
<1>1. /\ HeaderEnd \in Nat /\ HeaderEnd = 1 + SyncSize /\ SyncSize \in Nat \ {0} /\ p \in Nat
      /\ seen \in Nat /\ file \in Seq(Tokens) /\ Len(file) \in Nat /\ seen <= Len(file) /\ gen \in Nat
  BY HeaderEndFacts, FileFacts DEF FileInv
<1>2. m \in p .. seen /\ m <= p + SyncSize
  BY <1>1
<1>3. SkipSync(p) = IF piece = Marker(gen) THEN m ELSE m - SyncSize
  BY DEF SkipSync
<1>4. m \in 0 .. Len(file) /\ p \in 0 .. m
  BY <1>1, <1>2
<1> HIDE DEF m
<1>5. /\ piece \in Seq(Tokens) /\ Len(piece) = m - p
      /\ Datums(Upto(m)) = Join(Datums(Upto(p)), Datums(piece)) /\ Datums(Upto(p)) \in Seq(Data)
  <2>1. piece \in Seq(Tokens) /\ Len(piece) = m - p
    BY <1>1, <1>4, MiddlePart
  <2>2. Datums(Upto(m)) = Join(Datums(Upto(p)), Datums(piece)) /\ Datums(Upto(p)) \in Seq(Data)
    BY <1>4, UptoFacts
  <2> QED
    BY <2>1, <2>2
<1> HIDE DEF piece
<1>6. CASE piece = Marker(gen)
  <2>1. Len(piece) = SyncSize /\ \A i \in 1 .. Len(piece) : piece[i] = <<"sync", gen, i>>
    BY <1>1, <1>6, MarkerFacts
  <2>2. \A i \in 1 .. Len(piece) : piece[i][1] # "tail"
    BY <2>1
  <2>3. Datums(piece) = <<>>
    BY <1>5, <2>2, DatumsNone
  <2>4. Datums(Upto(m)) = Datums(Upto(p))
    BY <1>5, <2>3, ConcatEmptySeq DEF Join
  <2>5. m = p + SyncSize /\ m \in HeaderEnd .. seen /\ m > p
    BY <1>1, <1>2, <1>5, <2>1
  <2>6. SkipSync(p) = m
    BY <1>3, <1>6
  <2> QED
    BY <2>4, <2>5, <2>6
<1>7. CASE piece # Marker(gen)
  <2>1. m - SyncSize \in 1 .. p
    BY <1>1, <1>2
  <2> QED
    BY <1>3, <1>7, <2>1
<1> QED
  BY <1>6, <1>7

LEMMA TurnedFacts ==
    ASSUME FileInv, NEW b \in Readers, Faithful(b), b.inflated = <<>>, b.count = 0,
           NEW q, q = SkipSync(b.pos)
    PROVE  /\ Turned(b, q) \in Readers /\ InMemory(Turned(b, q)) /\ Faithful(Turned(b, q))
           /\ Turned(b, q).inflated = <<>> /\ Turned(b, q).gen = b.gen /\ Turned(b, q).got = b.got
           /\ Turned(b, q).length = b.length /\ q \in Nat /\ FaithfulAt(Turned(b, q), q)
           /\ Turned(b, q).turn = b.turn \/ (b.turn = Never /\ Turned(b, q).turn = Len(b.got))
<1> DEFINE p == b.pos
           t == Turned(b, q)
<1>1. HeaderEnd \in Nat \ {0} /\ seen \in Nat /\ p \in HeaderEnd .. seen /\ FaithfulAt(b, p)
      /\ seen \in 0 .. Len(file) /\ p \in 1 .. seen /\ p \in 0 .. seen
  BY HeaderEndFacts, FileFacts DEF Faithful, FaithfulAt, FileInv
<1>2. \/ q \in HeaderEnd .. seen /\ q > p /\ Datums(Upto(q)) = Datums(Upto(p))
      \/ q \in 1 .. p
  BY <1>1, SkipSyncIs
<1>3. q \in 1 .. seen /\ q \in Nat
  BY <1>1, <1>2
<1>4. b.got \in Seq(Gettable) /\ Untorn(b.got) \in Seq(Data) /\ Len(b.got) \in Nat
      /\ Join(Untorn(b.got), <<>>) = Untorn(b.got) /\ SubSeq(b.got, 1, Len(b.got)) = b.got
  <2>1. b.got \in Seq(Gettable)
    BY DEF Readers
  <2>2. Untorn(b.got) \in Seq(Data) /\ Len(b.got) \in Nat /\ SubSeq(b.got, 1, Len(b.got)) = b.got
    BY <2>1, UntornFacts, LenProperties, SubSeqFull
  <2> QED
    BY <2>1, <2>2, ConcatEmptySeq DEF Join
<1>5. CASE q < p /\ b.turn = Never
  <2>1. t = [b EXCEPT !.turn = Len(b.got)]
    BY <1>5 DEF Turned, Astray
  <2>2. /\ t \in Readers /\ t.inflated = <<>> /\ t.count = 0 /\ t.gen = b.gen /\ t.got = b.got
        /\ t.length = b.length /\ t.pos = p /\ t.turn = Len(b.got)
    BY <1>4, <2>1 DEF Readers
  <2>3. t.turn # Never
    BY <1>4, <2>2 DEF Never
  <2>4. IsPrefix(Untorn(b.got), Datums(Upto(seen)))
    <3>1. Untorn(b.got) = Datums(Upto(p))
      BY <1>1, <1>4, <1>5 DEF FaithfulAt
    <3> QED
      BY <1>1, <3>1, UptoFacts
  <2> HIDE DEF t
  <2>5. FaithfulAt(t, p) /\ FaithfulAt(t, q)
    <3>1. t.turn <= Len(t.got)
      BY <1>4, <2>2
    <3>2. SubSeq(t.got, 1, t.turn) = b.got
      BY <1>4, <2>2
    <3> QED
      BY <1>1, <1>3, <2>3, <2>4, <3>1, <3>2 DEF FaithfulAt
  <2>6. InMemory(t) /\ Faithful(t)
    BY <1>1, <2>2, <2>5 DEF InMemory, Faithful
  <2> QED
    BY <1>3, <1>5, <2>2, <2>5, <2>6 DEF t
<1>6. CASE ~ (q < p /\ b.turn = Never)
  <2>1. t = b
    BY <1>6 DEF Turned, Astray
  <2>2. b.turn = Never => Datums(Upto(q)) = Datums(Upto(p))
    <3>1. ASSUME b.turn = Never PROVE Datums(Upto(q)) = Datums(Upto(p))
      <4>1. ~ (q < p)
        BY <1>6, <3>1
      <4>2. CASE q \in 1 .. p
        <5>1. q = p
          BY <1>1, <4>1, <4>2
        <5> QED
          BY <5>1
      <4> QED
        BY <1>2, <4>2
    <3> QED
      BY <3>1
  <2>3. FaithfulAt(b, q)
    BY <1>1, <1>3, <2>2 DEF FaithfulAt
  <2> QED
    BY <1>1, <1>3, <2>1, <2>3 DEF InMemory
<1> QED
  BY <1>5, <1>6

LEMMA StoppedFollows ==
    ASSUME NEW b \in Readers, InMemory(b), NEW q \in Nat,
           NEW c, c = [b EXCEPT !.at = "stopped", !.pos = q]
    PROVE  /\ Follows(b, c) /\ c.at = "stopped" /\ c.got = b.got /\ c.pos = q
           /\ q >= HeaderEnd /\ FaithfulAt(b, q) => Faithful(c)
<1>1. /\ c \in Readers /\ c.gen = b.gen /\ c.length = b.length /\ c.got = b.got /\ c.turn = b.turn
      /\ c.inflated = b.inflated /\ c.count = b.count /\ c.pos = q /\ c.at = "stopped"
  BY DEF Readers
<1> QED
  BY <1>1 DEF Follows, InMemory, Faithful, FaithfulAt

LEMMA DecodeType ==
    ASSUME NEW b \in Readers, InMemory(b), b.inflated # <<>>, NEW c, c = Decode(b, b.inflated)
    PROVE  /\ Follows(b, c) /\ c = [Decode(b, b.inflated) EXCEPT !.pos = b.pos]
           /\ c.pos = b.pos /\ c.at = b.at /\ c.turn = b.turn /\ c.count = Len(b.inflated) - 1
           /\ c.inflated = Tail(b.inflated) /\ c.got = Append(b.got, Head(b.inflated))
<1> DEFINE data == b.inflated
           d == Head(data)
           rest == Tail(data)
           more == Append(b.got, d)
<1>1. data \in Seq(Data) /\ b.got \in Seq(Gettable) /\ b.pos \in Nat
  BY DEF Readers
<1>2. d \in Data /\ rest \in Seq(Data) /\ Len(rest) = Len(data) - 1 /\ Len(data) - 1 \in Nat
  BY <1>1, HeadAndRest
<1> HIDE DEF d, rest
<1>3. d \in Gettable
  BY <1>2, DataFileAssumption DEF Data, Gettable
<1>4. more \in Seq(Gettable)
  BY <1>1, <1>3, AppendProperties
<1>5. c = [b EXCEPT !.count = Len(data) - 1, !.got = more, !.inflated = rest]
  BY DEF Decode, d, rest
<1>6. /\ c.at = b.at /\ c.gen = b.gen /\ c.length = b.length /\ c.count = Len(data) - 1
      /\ c.pos = b.pos /\ c.inflated = rest /\ c.got = more /\ c.turn = b.turn
  BY <1>5 DEF Readers
<1>7. c \in Readers
  <2> HIDE DEF more
  <2> QED
    BY <1>2, <1>4, <1>5 DEF Readers
<1>8. c = [c EXCEPT !.pos = b.pos]
  BY <1>6, <1>7 DEF Readers
<1>9. Follows(b, c)
  BY <1>2, <1>3, <1>6, <1>7 DEF Follows, InMemory
<1>10. c = [Decode(b, b.inflated) EXCEPT !.pos = b.pos]
  BY <1>8
<1> QED
  BY <1>6, <1>9, <1>10 DEF d, rest


(* next. *)
LEMMA NextsAre ==
    ASSUME NEW b \in Readers, InMemory(b), NEW c \in Nexts(b)
    PROVE  \/ b.at = "lost" /\ (c \in Lost(b) \/ c = [b EXCEPT !.at = "stopped"])
           \/ b.count > 0 /\ b.inflated # <<>> /\ c = Decode(b, b.inflated)
           \/ b.count = 0 /\ b.pos = b.length /\ c = [b EXCEPT !.at = "stopped"]
           \/ b.gen # gen /\ c \in Lost(b)
           \/ b.gen = gen /\ b.count > 0 /\ b.inflated = <<>> /\ c \in ReadDatum(b, b.pos, b.count - 1)
           \/ /\ b.gen = gen /\ b.count = 0 /\ b.inflated = <<>> /\ b.pos # b.length
              /\ \/ /\ SkipSync(b.pos) > b.pos /\ SkipSync(b.pos) = b.length
                    /\ c = [b EXCEPT !.at = "stopped", !.pos = SkipSync(b.pos)]
                 \/ /\ ~ (SkipSync(b.pos) > b.pos /\ SkipSync(b.pos) = b.length)
                    /\ c \in BeginBlock(Turned(b, SkipSync(b.pos)), SkipSync(b.pos))
<1>1. b.count \in Nat /\ (b.inflated # <<>> => b.count \in Nat \ {0})
  <2>1. b.count \in Nat /\ b.inflated \in Seq(Data)
    BY DEF Readers
  <2>2. b.inflated # <<>> => Len(b.inflated) # 0
    BY <2>1, EmptySeq
  <2> QED
    BY <2>1, <2>2 DEF InMemory
<1>7. CASE b.at = "lost"
  BY <1>7 DEF Nexts
<1>2. CASE b.at # "lost" /\ b.count > 0 /\ b.inflated # <<>>
  BY <1>2 DEF Nexts
<1>3. CASE b.at # "lost" /\ ~ (b.count > 0 /\ b.inflated # <<>>) /\ b.count = 0 /\ b.pos = b.length
  BY <1>3 DEF Nexts, IsEOF
<1>4. CASE /\ b.at # "lost" /\ ~ (b.count > 0 /\ b.inflated # <<>>) /\ ~ (b.count = 0 /\ b.pos = b.length)
           /\ b.gen # gen
  BY <1>4, Zenon DEF Nexts, IsEOF
<1>5. CASE /\ b.at # "lost" /\ ~ (b.count > 0 /\ b.inflated # <<>>) /\ ~ (b.count = 0 /\ b.pos = b.length)
           /\ b.gen = gen /\ b.count > 0
  <2>1. c \in ReadDatum(b, b.pos, b.count - 1)
    BY <1>5, Zenon DEF Nexts, IsEOF
  <2> QED
    BY <1>5, <2>1
<1>6. CASE /\ b.at # "lost" /\ ~ (b.count > 0 /\ b.inflated # <<>>) /\ ~ (b.count = 0 /\ b.pos = b.length)
           /\ b.gen = gen /\ ~ (b.count > 0)
  <2> DEFINE q == SkipSync(b.pos)
  <2>1. b.count = 0 /\ b.inflated = <<>>
    BY <1>1, <1>6
  <2>2. c \in IF q > b.pos /\ q = b.length THEN {[b EXCEPT !.at = "stopped", !.pos = q]}
              ELSE BeginBlock(Turned(b, q), q)
    BY <1>6, Zenon DEF Nexts, IsEOF
  <2> QED
    BY <1>6, <2>1, <2>2
<1> QED
  BY <1>2, <1>3, <1>4, <1>5, <1>6, <1>7

LEMMA NextsFollow ==
    ASSUME FileInv, NEW b \in Readers, InMemory(b), b.gen = gen => Faithful(b), NEW c \in Nexts(b)
    PROVE  Follows(b, c) /\ (b.gen = gen => Faithful(c))
<1>1. CASE b.count > 0 /\ b.inflated # <<>> /\ c = Decode(b, b.inflated)
  <2>1. Follows(b, c) /\ c = [Decode(b, b.inflated) EXCEPT !.pos = b.pos]
    BY <1>1, DecodeType
  <2>2. ASSUME b.gen = gen PROVE Faithful(c)
    <3>1. Faithful(b)
      BY <2>2
    <3>2. b.pos \in HeaderEnd .. seen /\ b.inflated \in Seq(Data)
      BY <3>1, HeaderEndFacts, FileFacts DEF Faithful, FaithfulAt, Readers
    <3>3. /\ b.turn = Never => Join(Untorn(b.got), b.inflated) = Datums(Upto(b.pos))
          /\ b.turn # Never => /\ b.turn <= Len(b.got)
                               /\ IsPrefix(Untorn(SubSeq(b.got, 1, b.turn)), Datums(Upto(seen)))
      BY <3>1 DEF Faithful, FaithfulAt
    <3> QED
      BY <1>1, <2>1, <3>2, <3>3, DecodeFollows
  <2> QED
    BY <2>1, <2>2
<1>2. CASE c = [b EXCEPT !.at = "stopped"]
  <2>1. b.pos \in Nat
    BY DEF Readers
  <2>2. c = [b EXCEPT !.at = "stopped", !.pos = b.pos]
    BY <1>2 DEF Readers
  <2>3. Follows(b, c) /\ (b.pos >= HeaderEnd /\ FaithfulAt(b, b.pos) => Faithful(c))
    BY <2>1, <2>2, StoppedFollows
  <2> QED
    BY <2>3 DEF Faithful
<1>3. CASE c \in Lost(b)
  BY <1>3, FailedFollows
<1>4. ASSUME b.gen = gen, b.count > 0, b.inflated = <<>>, c \in ReadDatum(b, b.pos, b.count - 1)
      PROVE  Follows(b, c) /\ Faithful(c)
  <2>1. Faithful(b) /\ FaithfulAt(b, b.pos) /\ b.count - 1 \in Nat
    BY <1>4 DEF Faithful, Readers
  <2>2. b.pos \in HeaderEnd .. seen
    BY <2>1, HeaderEndFacts, FileFacts DEF Faithful, FaithfulAt
  <2> QED
    BY <1>4, <2>1, <2>2, ReadDatumFollows
<1>5. ASSUME b.gen = gen, b.count = 0, b.inflated = <<>>
      PROVE  /\ SkipSync(b.pos) \in Nat
             /\ SkipSync(b.pos) > b.pos => SkipSync(b.pos) >= HeaderEnd /\ FaithfulAt(b, SkipSync(b.pos))
             /\ \A d \in BeginBlock(Turned(b, SkipSync(b.pos)), SkipSync(b.pos)) :
                   Follows(b, d) /\ Faithful(d)
  <2> DEFINE q == SkipSync(b.pos)
             t == Turned(b, q)
  <2>1. Faithful(b) /\ FaithfulAt(b, b.pos) /\ HeaderEnd \in Nat /\ seen \in Nat
    BY <1>5, HeaderEndFacts, FileFacts DEF Faithful
  <2>2. b.pos \in HeaderEnd .. seen
    BY <2>1 DEF Faithful, FaithfulAt
  <2>3. /\ t \in Readers /\ InMemory(t) /\ Faithful(t) /\ t.inflated = <<>> /\ t.gen = b.gen
        /\ t.got = b.got /\ t.length = b.length /\ q \in Nat /\ FaithfulAt(t, q)
        /\ t.turn = b.turn \/ (b.turn = Never /\ t.turn = Len(b.got))
    BY <1>5, <2>1, TurnedFacts
  <2>4. q > b.pos => q >= HeaderEnd /\ FaithfulAt(b, q)
    <3>1. q > b.pos => t = b
      BY <2>2, <2>3 DEF Turned
    <3> QED
      BY <2>1, <2>2, <2>3, <3>1
  <2> HIDE DEF t, q
  <2>5. ASSUME NEW d \in BeginBlock(t, q) PROVE Follows(b, d) /\ Faithful(d)
    <3>1. Follows(t, d) /\ Faithful(d)
      BY <2>3, BeginBlockFollows
    <3>2. Len(b.got) \in Nat /\ Never \notin Nat
      BY LenProperties DEF Readers, Never
    <3> QED
      BY <2>3, <3>1, <3>2 DEF Follows
  <2> QED
    BY <2>3, <2>4, <2>5 DEF t, q
<1>6. ASSUME b.gen = gen, b.count = 0, b.inflated = <<>>, SkipSync(b.pos) > b.pos,
             c = [b EXCEPT !.at = "stopped", !.pos = SkipSync(b.pos)]
      PROVE  Follows(b, c) /\ Faithful(c)
  BY <1>5, <1>6, StoppedFollows
<1>7. ASSUME b.gen = gen, b.count = 0, b.inflated = <<>>,
             c \in BeginBlock(Turned(b, SkipSync(b.pos)), SkipSync(b.pos))
      PROVE  Follows(b, c) /\ Faithful(c)
  BY <1>5, <1>7
<1> QED
  BY <1>1, <1>2, <1>3, <1>4, <1>6, <1>7, NextsAre


LEMMA KeptUpto ==
    ASSUME FileInv, FileInv', Kept, NEW n \in 0 .. seen
    PROVE  /\ Upto(n)' = Upto(n) /\ n \in 0 .. Len(file) /\ n \in 0 .. seen'
           /\ IsPrefix(Datums(Upto(n)), Datums(Upto(seen))')
<1>1. /\ file \in Seq(Tokens) /\ Len(file) \in Nat /\ seen \in Nat /\ seen <= Len(file)
  BY FileFacts
<1>2. /\ file' \in Seq(Tokens) /\ Len(file') \in Nat /\ seen' \in Nat /\ seen' <= Len(file')
  BY LenProperties DEF FileInv, FileGood
<1>3. n \in 0 .. Len(file) /\ n <= Len(file') /\ (\A i \in 1 .. n : file'[i] = file[i])
      /\ n \in 0 .. seen' /\ seen' \in 0 .. Len(file')
  BY <1>1, <1>2 DEF Kept
<1>4. SubSeq(file', 1, n) = SubSeq(file, 1, n)
  BY <1>1, <1>2, <1>3, SamePart
<1>5. IsPrefix(Datums(SubSeq(file', 1, n)), Datums(SubSeq(file', 1, seen')))
  BY <1>2, <1>3, DatumsSplit, TokenFacts
<1> QED
  BY <1>3, <1>4, <1>5 DEF Upto

LEMMA FaithfulKept ==
    ASSUME FileInv, FileInv', Kept, NEW b \in Readers, Faithful(b), reader' = b
    PROVE  Faithful(reader)'
<1>1. b.pos \in 0 .. seen /\ b.pos \in 1 .. seen' /\ b.pos >= HeaderEnd /\ seen \in 0 .. seen
  <2>1. b.pos \in 1 .. seen /\ b.pos >= HeaderEnd
    BY DEF Faithful, FaithfulAt
  <2>2. seen \in Nat
    BY FileFacts
  <2>3. seen' \in Nat
    BY LenProperties DEF FileInv, FileGood
  <2>4. seen <= seen'
    BY DEF Kept
  <2> QED
    BY <2>1, <2>2, <2>3, <2>4
<1>2. Upto(b.pos)' = Upto(b.pos)
  BY <1>1, KeptUpto
<1>3. ASSUME b.turn # Never
      PROVE  b.turn <= Len(b.got) /\ IsPrefix(Untorn(SubSeq(b.got, 1, b.turn)), Datums(Upto(seen))')
  <2> DEFINE s == SubSeq(b.got, 1, b.turn)
             u == Untorn(s)
             v == Datums(Upto(seen))
             w == Datums(SubSeq(file', 1, seen'))
  <2>1. b.turn <= Len(b.got) /\ IsPrefix(u, v)
    BY <1>3 DEF Faithful, FaithfulAt
  <2>2. b.turn \in 0 .. Len(b.got) /\ b.got \in Seq(Gettable)
    <3>1. b.turn \in Nat /\ b.got \in Seq(Gettable)
      BY <1>3 DEF Readers
    <3> QED
      BY <2>1, <3>1, LenProperties
  <2>3. s \in Seq(Gettable)
    BY <2>2, FirstPart
  <2>4. u \in Seq(Data)
    BY <2>3, UntornFacts
  <2>5. v \in Seq(Data)
    <3>1. seen \in 0 .. Len(file)
      BY DEF FileInv
    <3> QED
      BY <3>1, FileFacts, FirstPart, DatumsType, TokenFacts DEF Upto
  <2>6. w \in Seq(Data)
    <3>1. file' \in Seq(Tokens) /\ seen' \in 0 .. Len(file')
      BY DEF FileInv, FileGood
    <3>2. SubSeq(file', 1, seen') \in Seq(Tokens)
      BY <3>1, FirstPart
    <3> QED
      BY <3>2, DatumsType, TokenFacts
  <2>7. IsPrefix(v, w)
    BY <1>1, KeptUpto DEF Upto
  <2> HIDE DEF u, v, w
  <2>8. IsPrefix(u, w)
    BY <2>1, <2>4, <2>5, <2>6, <2>7, PrefixTransitive
  <2> QED
    BY <2>1, <2>8 DEF u, w, Upto
<1>4. b.turn = Never => Join(Untorn(b.got), b.inflated) = Datums(SubSeq(file', 1, b.pos))
  BY <1>2 DEF Faithful, FaithfulAt, Upto
<1>5. ASSUME b.turn # Never
      PROVE  b.turn <= Len(b.got)
             /\ IsPrefix(Untorn(SubSeq(b.got, 1, b.turn)), Datums(SubSeq(file', 1, seen')))
  BY <1>3, <1>5 DEF Upto
<1> QED
  BY <1>1, <1>4, <1>5 DEF Faithful, FaithfulAt, HeaderEnd, Upto


LEMMA HeaderHolds ==
    ASSUME FileInv, seen >= HeaderEnd
    PROVE  /\ Datums(Upto(HeaderEnd)) = <<>> /\ HeaderEnd \in 1 .. seen /\ HeaderEnd \in 0 .. Len(file)
           /\ HeaderEnd \in ends /\ \A e \in ends : e >= HeaderEnd
<1>1. /\ file \in Seq(Tokens) /\ Len(file) \in Nat /\ seen \in Nat /\ seen <= Len(file)
      /\ HeaderEnd \in Nat \ {0}
  BY FileFacts, HeaderEndFacts
<1>2. HeaderEnd \in 0 .. Len(file) /\ HeaderEnd \in 1 .. seen
  BY <1>1
<1>3. file # <<>>
  BY <1>1, EmptySeq
<1>4. /\ HeaderEnd \in ends /\ \A e \in ends : e >= HeaderEnd
      /\ \A i \in 1 .. HeaderEnd : file[i][1] \in {"header", "sync"}
  BY <1>3 DEF FileInv, FileGood, Headed
<1> DEFINE u == SubSeq(file, 1, HeaderEnd)
<1>5. u \in Seq(Tokens) /\ Len(u) = HeaderEnd /\ \A i \in 1 .. HeaderEnd : u[i] = file[i]
  BY <1>1, <1>2, FirstPart
<1> HIDE DEF u
<1>6. \A i \in 1 .. Len(u) : u[i][1] # "tail"
  BY <1>4, <1>5
<1>7. Datums(u) = <<>>
  BY <1>5, <1>6, DatumsNone
<1> QED
  BY <1>2, <1>4, <1>7 DEF u, Upto

ReaderInv ==
    /\ reader \in Readers /\ InMemory(reader) /\ reader.gen <= gen
    /\ Current => Faithful(reader)

LEMMA ReaderKept ==
    ASSUME FileInv, FileInv', Kept, NEW b \in Readers, InMemory(b), b.gen <= gen,
           b.at # "closed" /\ b.gen = gen => Faithful(b), reader' = b
    PROVE  ReaderInv'
<1>1. gen' = gen
  BY DEF Kept
<1>2. ASSUME Current' PROVE Faithful(reader)'
  <2>1. b.at # "closed" /\ b.gen = gen
    BY <1>1, <1>2 DEF Current
  <2> QED
    BY <2>1, FaithfulKept
<1> QED
  BY <1>1, <1>2 DEF ReaderInv, InMemory

LEMMA ClosedIs == Closed \in Readers /\ InMemory(Closed) /\ Closed.at = "closed" /\ Closed.gen = 0
<1>1. <<>> \in Seq(Data) /\ <<>> \in Seq(Gettable)
  BY EmptySeq
<1> QED
  BY <1>1 DEF Closed, Readers, InMemory

LEMMA OpenedIs ==
    ASSUME FileInv, seen >= HeaderEnd, gen \in Nat,
           NEW b, b = [Closed EXCEPT !.at = "open", !.gen = gen, !.pos = HeaderEnd, !.length = seen]
    PROVE  /\ b \in Readers /\ InMemory(b) /\ Faithful(b) /\ b.gen = gen /\ b.at = "open"
           /\ b.pos = HeaderEnd /\ b.length = seen /\ b.count = 0 /\ b.inflated = <<>>
           /\ b.got = <<>> /\ b.turn = Never
<1>1. /\ Datums(Upto(HeaderEnd)) = <<>> /\ HeaderEnd \in 1 .. seen /\ HeaderEnd \in Nat /\ seen \in Nat
  BY HeaderHolds, HeaderEndFacts, FileFacts
<1>2. <<>> \in Seq(Data) /\ <<>> \in Seq(Gettable)
  BY EmptySeq
<1>3. /\ b.at = "open" /\ b.gen = gen /\ b.pos = HeaderEnd /\ b.length = seen /\ b.count = 0
      /\ b.inflated = <<>> /\ b.got = <<>> /\ b.turn = Never
  BY DEF Closed
<1>4. b \in Readers
  BY <1>1, <1>2 DEF Closed, Readers
<1>5. Join(Untorn(<<>>), <<>>) = <<>>
  BY <1>2, UntornFacts, ConcatEmptySeq DEF Join
<1>6. Faithful(b)
  BY <1>1, <1>3, <1>5 DEF Faithful, FaithfulAt
<1> QED
  BY <1>3, <1>4, <1>6 DEF InMemory

LEMMA ReaderInvStep ==
    ASSUME FileInv, ReaderInv, [Next]_vars
    PROVE  ReaderInv'
<1>1. FileInv' /\ (Kept \/ \E c \in ValidCodecs : CreateFile(c))
  BY FileInvStep
<1>2. reader \in Readers /\ InMemory(reader) /\ reader.gen <= gen /\ reader.gen \in Nat /\ gen \in Nat
  BY DEF ReaderInv, Readers, FileInv
<1>3. ASSUME NEW c \in ValidCodecs, CreateFile(c) PROVE ReaderInv'
  <2>1. reader' = reader /\ gen' = gen + 1
    BY <1>3 DEF CreateFile, readerVars
  <2>2. ~Current' /\ reader'.gen <= gen'
    BY <1>2, <2>1 DEF Current
  <2> QED
    BY <1>2, <2>1, <2>2 DEF ReaderInv, InMemory
<1>4. ASSUME Kept, reader' = reader PROVE ReaderInv'
  <2>1. reader.at # "closed" /\ reader.gen = gen => Faithful(reader)
    BY DEF ReaderInv, Current
  <2> QED
    BY <1>1, <1>2, <1>4, <2>1, ReaderKept
<1>5. ASSUME OpenReader PROVE ReaderInv'
  <2> DEFINE b == [Closed EXCEPT !.at = "open", !.gen = gen, !.pos = HeaderEnd, !.length = seen]
  <2>1. reader' = b /\ seen >= HeaderEnd
    BY <1>5 DEF OpenReader
  <2>2. b \in Readers /\ InMemory(b) /\ Faithful(b) /\ b.gen = gen
    BY <1>2, <2>1, OpenedIs
  <2>3. Kept
    BY <1>5, ReadingInv
  <2> HIDE DEF b
  <2>4. b.gen <= gen
    BY <1>2, <2>2
  <2> QED
    BY <1>1, <2>1, <2>2, <2>3, <2>4, ReaderKept
<1>6. ASSUME ReadNext PROVE ReaderInv'
  <2>1. reader' \in Nexts(reader) /\ reader.at # "closed"
    BY <1>6 DEF ReadNext
  <2>2. reader.gen = gen => Faithful(reader)
    BY <2>1 DEF ReaderInv, Current
  <2>3. PICK c \in Nexts(reader) : reader' = c
    BY <2>1
  <2>4. Follows(reader, c) /\ (reader.gen = gen => Faithful(c))
    BY <1>2, <2>2, <2>3, NextsFollow
  <2>5. c \in Readers /\ InMemory(c) /\ c.gen = reader.gen
    BY <2>4 DEF Follows
  <2>6. Kept
    BY <1>6, ReadingInv
  <2>7. c.gen <= gen /\ (c.at # "closed" /\ c.gen = gen => Faithful(c))
    BY <1>2, <2>4, <2>5
  <2> QED
    BY <1>1, <2>3, <2>5, <2>6, <2>7, ReaderKept
<1>7. ASSUME CloseReader PROVE ReaderInv'
  <2>1. reader' = Closed /\ Kept
    BY <1>7, ReadingInv DEF CloseReader
  <2>2. Closed.gen <= gen
    BY <1>2, ClosedIs
  <2> QED
    BY <1>1, <2>1, <2>2, ClosedIs, ReaderKept
<1>8. \/ \E c \in ValidCodecs : CreateFile(c)
      \/ OpenReader \/ ReadNext \/ CloseReader
      \/ reader' = reader
  BY DEF Next, vars, readerVars, OpenWriter, AppendDatum, Sync, Flush, Spill, Abort, Kill
<1> QED
  BY <1>1, <1>3, <1>4, <1>5, <1>6, <1>7, <1>8

LEMMA ReaderInvInit == Init => ReaderInv
BY ClosedIs DEF Init, ReaderInv, Current

LEMMA ReadingIsFaithful ==
    ASSUME FileInv, ReaderInv
    PROVE  Current => IsPrefix(Untorn(Sure), accepted)
<1> SUFFICES ASSUME Current PROVE IsPrefix(Untorn(Sure), accepted)
  OBVIOUS
<1>1. reader \in Readers /\ Faithful(reader) /\ reader.pos \in 1 .. seen
  BY DEF ReaderInv, Faithful, FaithfulAt
<1>2. /\ file \in Seq(Tokens) /\ Len(file) \in Nat /\ seen \in 0 .. Len(file)
      /\ Upto(Len(file)) = file /\ Datums(file) \in Seq(Data) /\ accepted \in Seq(Data)
      /\ accepted = Join(Datums(file), buffer) /\ buffer \in Seq(Data)
  BY FileFacts DEF FileInv
<1>3. reader.got \in Seq(Gettable) /\ reader.inflated \in Seq(Data)
  BY <1>1 DEF Readers
<1> DEFINE u == Untorn(Sure)
           v == Datums(Upto(seen))
<1>4. u \in Seq(Data) /\ v \in Seq(Data) /\ IsPrefix(u, v)
  <2>1. CASE reader.turn = Never
    <3>1. Untorn(reader.got) \in Seq(Data)
      BY <1>3, UntornFacts
    <3>2. reader.pos \in 0 .. seen
      BY <1>1
    <3>3. Datums(Upto(reader.pos)) \in Seq(Data) /\ v \in Seq(Data)
          /\ IsPrefix(Datums(Upto(reader.pos)), v)
      BY <1>2, <3>2, UptoFacts
    <3>4. Join(Untorn(reader.got), reader.inflated) = Datums(Upto(reader.pos))
      BY <1>1, <2>1 DEF Faithful, FaithfulAt
    <3>5. IsPrefix(Untorn(reader.got), Datums(Upto(reader.pos)))
      BY <1>3, <3>1, <3>4, PrefixJoin
    <3>6. u = Untorn(reader.got)
      BY <2>1 DEF Sure
    <3> HIDE DEF u, v
    <3> QED
      BY <3>1, <3>3, <3>5, <3>6, PrefixTransitive
  <2>2. CASE reader.turn # Never
    <3>1. reader.turn <= Len(reader.got)
          /\ IsPrefix(Untorn(SubSeq(reader.got, 1, reader.turn)), v)
      BY <1>1, <2>2 DEF Faithful, FaithfulAt
    <3>2. reader.turn \in 0 .. Len(reader.got)
      BY <1>1, <1>3, <2>2, <3>1, LenProperties DEF Readers
    <3>3. SubSeq(reader.got, 1, reader.turn) \in Seq(Gettable)
      BY <1>3, <3>2, FirstPart
    <3>4. u = Untorn(SubSeq(reader.got, 1, reader.turn))
      BY <2>2 DEF Sure
    <3>5. v \in Seq(Data)
      BY <1>2, FirstPart, DatumsType, TokenFacts DEF Upto
    <3> QED
      BY <3>1, <3>3, <3>4, <3>5, UntornFacts
  <2> QED
    BY <2>1, <2>2
<1>5. IsPrefix(v, Datums(file))
  <2>1. Len(file) \in 0 .. Len(file) /\ seen \in 0 .. Len(file)
    BY <1>2
  <2> QED
    BY <1>2, <2>1, UptoFacts
<1>6. IsPrefix(Datums(file), accepted)
  BY <1>2, PrefixJoin
<1> HIDE DEF u, v
<1>7. IsPrefix(u, Datums(file))
  BY <1>2, <1>4, <1>5, PrefixTransitive
<1>8. IsPrefix(u, accepted)
  BY <1>2, <1>4, <1>6, <1>7, PrefixTransitive
<1> QED
  BY <1>8 DEF u


-----------------------------------------------------------------------------
(* A reader and the whole blocks that were there when it was opened.         *)
LEMMA ShiftHead ==
    ASSUME NEW S, NEW s \in Seq(S), NEW t \in Seq(S), t # <<>>
    PROVE  Join(Append(s, Head(t)), Tail(t)) = Join(s, t)
<1> DEFINE d == Head(t)
           rest == Tail(t)
           one == <<d>>
<1>1. d \in S /\ rest \in Seq(S) /\ t = Join(one, rest)
  BY HeadAndRest
<1> HIDE DEF d, rest
<1>2. one \in Seq(S)
  BY <1>1
<1>3. Append(s, d) = Join(s, one)
  BY <1>1, AppendIsConcat DEF Join
<1> HIDE DEF one
<1>4. Join(Join(s, one), rest) = Join(s, Join(one, rest))
  BY <1>1, <1>2, Associative
<1>5. Join(Append(s, d), rest) = Join(s, t)
  BY <1>1, <1>3, <1>4
<1> QED
  BY <1>5 DEF d, rest

LEMMA InBlock ==
    ASSUME FileInv, NEW a \in Nat, NEW e \in Nat, e <= seen, WholeBlock(file, gen, a, e)
    PROVE  \E n \in Nat \ {0} :
             /\ e = a + 2 + 2 * n + SyncSize
             /\ Kind(a + 1) = "count" /\ file[a + 1][2] = n /\ Kind(a + 2) = "len"
             /\ \A i \in 1 .. 2 * n : Kind(a + 2 + i) = IF i % 2 = 1 THEN "head" ELSE "tail"
             /\ \A i \in 1 .. SyncSize : file[a + 2 + 2 * n + i] = <<"sync", gen, i>>
<1>1. PICK n \in Nat \ {0} :
        /\ e = a + 2 + 2 * n + SyncSize
        /\ file[a + 1] = <<"count", n>> /\ file[a + 2] = <<"len">>
        /\ \A i \in 1 .. 2 * n : file[a + 2 + i][1] = IF i % 2 = 1 THEN "head" ELSE "tail"
        /\ \A i \in 1 .. SyncSize : file[a + 2 + 2 * n + i] = <<"sync", gen, i>>
  BY DEF WholeBlock
<1>2. SyncSize \in Nat \ {0} /\ seen \in Nat
  BY HeaderEndFacts, FileFacts
<1>3. a + 1 <= seen /\ a + 2 <= seen /\ \A i \in 1 .. 2 * n : a + 2 + i <= seen
  BY <1>1, <1>2
<1>4. Kind(a + 1) = "count" /\ Kind(a + 2) = "len" /\ file[a + 1][2] = n
  BY <1>1, <1>3 DEF Kind
<1>5. \A i \in 1 .. 2 * n : Kind(a + 2 + i) = IF i % 2 = 1 THEN "head" ELSE "tail"
  BY <1>1, <1>3 DEF Kind
<1> QED
  BY <1>1, <1>4, <1>5

LEMMA SkipSyncPast ==
    ASSUME FileInv, NEW p \in HeaderEnd .. seen, p + SyncSize <= seen,
           \A i \in 1 .. SyncSize : file[p + i] = <<"sync", gen, i>>
    PROVE  SkipSync(p) = p + SyncSize /\ Datums(Upto(p + SyncSize)) = Datums(Upto(p))
<1> DEFINE q == p + SyncSize
           piece == SubSeq(file, p + 1, q)
<1>1. /\ SyncSize \in Nat \ {0} /\ HeaderEnd \in Nat /\ seen \in Nat /\ Len(file) \in Nat /\ p \in Nat
      /\ seen <= Len(file) /\ file \in Seq(Tokens) /\ gen \in Nat
  BY HeaderEndFacts, FileFacts DEF FileInv
<1>2. q \in 0 .. Len(file) /\ p \in 0 .. q /\ q - p = SyncSize
  BY <1>1
<1>3. piece \in Seq(Tokens) /\ Len(piece) = SyncSize /\ \A i \in 1 .. SyncSize : piece[i] = file[p + i]
  <2>1. piece \in Seq(Tokens) /\ Len(piece) = q - p /\ \A i \in 1 .. q - p : piece[i] = file[p + i]
    <3> HIDE DEF q
    <3>1. file \in Seq(Tokens) /\ q \in 0 .. Len(file) /\ p \in 0 .. q
      BY <1>1, <1>2
    <3>2. /\ SubSeq(file, p + 1, q) \in Seq(Tokens) /\ Len(SubSeq(file, p + 1, q)) = q - p
          /\ \A i \in 1 .. q - p : SubSeq(file, p + 1, q)[i] = file[p + i]
      BY <3>1, MiddlePart, Zenon
    <3> QED
      BY <3>2
  <2> QED
    BY <1>2, <2>1
<1> HIDE DEF piece
<1>4. /\ Marker(gen) \in Seq(Tokens) /\ Len(Marker(gen)) = SyncSize
      /\ \A i \in 1 .. SyncSize : Marker(gen)[i] = <<"sync", gen, i>>
  BY <1>1, MarkerFacts
<1> DEFINE m == Marker(gen)
<1> HIDE DEF m
<1>5. piece = m
  <2>1. Len(piece) = Len(m) /\ \A i \in 1 .. Len(piece) : piece[i] = m[i]
    BY <1>3, <1>4 DEF m
  <2> QED
    BY <1>3, <1>4, <2>1, SeqEqual DEF m
<1>6. (IF p + SyncSize < seen THEN p + SyncSize ELSE seen) = q
  BY <1>1
<1>7. SkipSync(p) = q
  BY <1>5, <1>6 DEF SkipSync, piece, m
<1>8. q > p
  BY <1>1
<1>9. Datums(Upto(q)) = Datums(Upto(p))
  BY <1>1, <1>7, <1>8, SkipSyncIs
<1> QED
  BY <1>7, <1>9

LEMMA SkipSyncStays ==
    ASSUME FileInv, NEW p \in HeaderEnd .. seen, p + SyncSize < seen, file[p + 1][1] # "sync"
    PROVE  SkipSync(p) = p
<1> DEFINE q == p + SyncSize
           piece == SubSeq(file, p + 1, q)
<1>1. /\ SyncSize \in Nat \ {0} /\ HeaderEnd \in Nat /\ seen \in Nat /\ Len(file) \in Nat /\ p \in Nat
      /\ seen <= Len(file) /\ file \in Seq(Tokens) /\ gen \in Nat
  BY HeaderEndFacts, FileFacts DEF FileInv
<1>2. q \in 0 .. Len(file) /\ p \in 0 .. q /\ q - p = SyncSize /\ 1 \in 1 .. SyncSize
  BY <1>1
<1>3. piece[1] = file[p + 1]
  <2>1. \A i \in 1 .. q - p : piece[i] = file[p + i]
    <3> HIDE DEF q
    <3>1. file \in Seq(Tokens) /\ q \in 0 .. Len(file) /\ p \in 0 .. q
      BY <1>1, <1>2
    <3>2. /\ SubSeq(file, p + 1, q) \in Seq(Tokens) /\ Len(SubSeq(file, p + 1, q)) = q - p
          /\ \A i \in 1 .. q - p : SubSeq(file, p + 1, q)[i] = file[p + i]
      BY <3>1, MiddlePart, Zenon
    <3> QED
      BY <3>2
  <2> QED
    BY <1>2, <2>1
<1>4. Marker(gen)[1][1] = "sync"
  <2>1. \A i \in 1 .. SyncSize : Marker(gen)[i] = <<"sync", gen, i>>
    BY <1>1, MarkerFacts, Zenon
  <2>2. Marker(gen)[1] = <<"sync", gen, 1>>
    BY <1>2, <2>1, Zenon
  <2> QED
    BY <2>2
<1>5. piece # Marker(gen)
  BY <1>3, <1>4
<1>6. SkipSync(p) = q - SyncSize
  BY <1>5 DEF SkipSync
<1> QED
  BY <1>1, <1>6


(* The reader is in the block from a to e. *)
Inside(b, a, e) ==
    /\ WholeBlock(file, gen, a, e) /\ b.at = "open" /\ b.pos \in a + 2 .. e - SyncSize
    /\ IF b.inflated = <<>> THEN 2 * b.count = e - SyncSize - b.pos ELSE b.pos = e - SyncSize
    /\ Join(b.got, b.inflated) = Datums(Upto(b.pos))

(* It is at the beginning, in a whole block, through, or it has read what it *)
(* must and was to find more.  It went astray behind that only.              *)
AstrayBehind(b, w) == b.turn # Never => ~w.whole /\ IsPrefix(w.data, SubSeq(b.got, 1, b.turn))

Snapshot(b, w) ==
    \E T \in ends :
        /\ T <= b.length /\ b.length <= seen
        /\ w.data = Datums(Upto(T)) /\ (w.whole <=> T = b.length)
        /\ \/ /\ b.at = "open" /\ b.pos = HeaderEnd /\ b.count = 0
              /\ b.inflated = <<>> /\ b.got = <<>>
           \/ \E a \in ends, e \in ends : e <= T /\ Inside(b, a, e)
           \/ b.at = "stopped" /\ b.got = w.data
           \/ ~w.whole /\ IsPrefix(w.data, b.got)
        /\ AstrayBehind(b, w)

LEMMA EndFacts ==
    ASSUME FileInv, NEW e \in ends
    PROVE  /\ e \in Nat \ {0} /\ e \in 1 .. Len(file) /\ e \in 0 .. Len(file) /\ e >= HeaderEnd
           /\ Datums(Upto(e)) \in Seq(Data) /\ Datums(Upto(e)) \in Seq(Gettable)
<1>1. ends \in SUBSET (1 .. Len(file)) /\ Len(file) \in Nat /\ file \in Seq(Tokens)
  BY FileFacts
<1>2. e \in 1 .. Len(file) /\ e \in Nat \ {0} /\ e \in 0 .. Len(file)
  BY <1>1
<1>3. file # <<>>
  BY <1>1, <1>2, EmptySeq
<1>4. e >= HeaderEnd
  BY <1>3 DEF FileInv, FileGood, Headed
<1>5. Datums(Upto(e)) \in Seq(Data)
  BY <1>1, <1>2, FirstPart, DatumsType, TokenFacts DEF Upto
<1>6. Data \subseteq Gettable
  BY DataFileAssumption DEF Data, Gettable
<1>7. Datums(Upto(e)) \in Seq(Gettable)
  BY <1>5, <1>6, SeqMonotonic
<1> QED
  BY <1>2, <1>4, <1>5, <1>7

LEMMA GettableData == \A s \in Seq(Data) : s \in Seq(Gettable)
<1>1. Data \subseteq Gettable
  BY DataFileAssumption DEF Data, Gettable
<1> QED
  BY <1>1, SeqMonotonic

LEMMA SnapshotFaithful ==
    ASSUME FileInv, ReaderInv, Current, Snapshot(reader, want)
    PROVE  /\ reader.at # "open" => IsPrefix(want.data, reader.got)
           /\ want.whole => /\ reader.at \in {"open", "stopped"}
                            /\ IsPrefix(reader.got, want.data)
           /\ AstrayBehind(reader, want)
<1>1. PICK T \in ends :
        /\ T <= reader.length /\ reader.length <= seen
        /\ want.data = Datums(Upto(T)) /\ (want.whole <=> T = reader.length)
        /\ \/ /\ reader.at = "open" /\ reader.pos = HeaderEnd /\ reader.count = 0
              /\ reader.inflated = <<>> /\ reader.got = <<>>
           \/ \E a \in ends, e \in ends : e <= T /\ Inside(reader, a, e)
           \/ reader.at = "stopped" /\ reader.got = want.data
           \/ ~want.whole /\ IsPrefix(want.data, reader.got)
        /\ AstrayBehind(reader, want)
  BY DEF Snapshot
<1>2. reader.got \in Seq(Gettable) /\ reader.inflated \in Seq(Gettable)
      /\ want.data \in Seq(Gettable) /\ T \in Nat /\ T \in 0 .. Len(file)
  BY <1>1, EndFacts, GettableData DEF ReaderInv, Readers
<1>3. CASE reader.at = "open" /\ reader.got = <<>>
  BY <1>1, <1>2, <1>3, PrefixJoin
<1>4. ASSUME NEW a \in ends, NEW e \in ends, e <= T, Inside(reader, a, e)
      PROVE  reader.at = "open" /\ IsPrefix(reader.got, want.data)
  <2>1. /\ reader.at = "open" /\ reader.pos \in a + 2 .. e - SyncSize
        /\ Join(reader.got, reader.inflated) = Datums(Upto(reader.pos))
    BY <1>4 DEF Inside
  <2>2. a \in Nat /\ e \in Nat /\ SyncSize \in Nat
    BY EndFacts, HeaderEndFacts
  <2>3. reader.pos \in 0 .. T
    BY <1>2, <1>4, <2>1, <2>2
  <2>4. /\ Datums(Upto(reader.pos)) \in Seq(Data)
        /\ IsPrefix(Datums(Upto(reader.pos)), Datums(Upto(T)))
    BY <1>2, <2>3, UptoFacts
  <2>5. IsPrefix(reader.got, Datums(Upto(reader.pos)))
    BY <1>2, <2>1, PrefixJoin
  <2>6. Datums(Upto(reader.pos)) \in Seq(Gettable)
    BY <2>4, GettableData
  <2>7. IsPrefix(reader.got, Datums(Upto(T)))
    BY <1>1, <1>2, <2>4, <2>5, <2>6, PrefixTransitive
  <2> QED
    BY <1>1, <2>1, <2>7
<1>5. CASE reader.at = "stopped" /\ reader.got = want.data
  BY <1>1, <1>2, <1>5, PrefixJoin
<1> QED
  BY <1>1, <1>3, <1>4, <1>5

(* What others do changes nothing of it. *)
LEMMA InsideKept ==
    ASSUME FileInv, FileInv', Kept, NEW b, NEW a \in ends, NEW e \in ends, e <= seen, Inside(b, a, e)
    PROVE  Inside(b, a, e)' /\ a \in ends' /\ e \in ends'
<1>1. a \in Nat /\ e \in Nat /\ seen \in Nat /\ SyncSize \in Nat
  BY EndFacts, FileFacts, HeaderEndFacts
<1>2. WholeBlock(file, gen, a, e) /\ b.pos \in a + 2 .. e - SyncSize
      /\ Join(b.got, b.inflated) = Datums(Upto(b.pos))
  BY DEF Inside
<1>3. \A i \in 1 .. e : file'[i] = file[i]
  BY <1>1 DEF Kept
<1>4. WholeBlock(file', gen, a, e) /\ a < e
  BY <1>1, <1>2, <1>3, WholeBlockKept
<1>5. a \in ends' /\ e \in ends'
  BY <1>1, <1>4 DEF Kept
<1>6. b.pos \in 0 .. seen
  BY <1>1, <1>2
<1>7. SubSeq(file', 1, b.pos) = SubSeq(file, 1, b.pos)
  BY <1>6, KeptUpto DEF Upto
<1>8. gen' = gen
  BY DEF Kept
<1>9. Join(b.got, b.inflated) = Datums(SubSeq(file', 1, b.pos))
  BY <1>2, <1>7 DEF Upto
<1>10. /\ b.at = "open"
       /\ IF b.inflated = <<>> THEN 2 * b.count = e - SyncSize - b.pos ELSE b.pos = e - SyncSize
  BY DEF Inside
<1>11. WholeBlock(file', gen', a, e)
  BY <1>4, <1>8
<1>12. Inside(b, a, e)'
  BY <1>2, <1>9, <1>10, <1>11 DEF Inside, Upto
<1> QED
  BY <1>5, <1>12


LEMMA SnapshotKept ==
    ASSUME FileInv, FileInv', Kept, NEW b, NEW w, Snapshot(b, w), b.length \in Nat
    PROVE  Snapshot(b, w)'
<1>1. PICK T \in ends :
        /\ T <= b.length /\ b.length <= seen
        /\ w.data = Datums(Upto(T)) /\ (w.whole <=> T = b.length)
        /\ \/ /\ b.at = "open" /\ b.pos = HeaderEnd /\ b.count = 0
              /\ b.inflated = <<>> /\ b.got = <<>>
           \/ \E a \in ends, e \in ends : e <= T /\ Inside(b, a, e)
           \/ b.at = "stopped" /\ b.got = w.data
           \/ ~w.whole /\ IsPrefix(w.data, b.got)
        /\ AstrayBehind(b, w)
  BY DEF Snapshot
<1>2. T \in Nat /\ seen \in Nat /\ seen' \in Nat /\ seen <= seen'
  <2>1. T \in Nat /\ seen \in Nat /\ seen <= seen'
    BY EndFacts, FileFacts DEF Kept
  <2>2. seen' \in Nat
    BY LenProperties DEF FileInv, FileGood
  <2> QED
    BY <2>1, <2>2
<1>3. T <= seen /\ b.length <= seen' /\ T \in 0 .. seen
  BY <1>1, <1>2
<1>4. T \in ends'
  BY <1>3 DEF Kept
<1>5. w.data = Datums(Upto(T))'
  BY <1>1, <1>3, KeptUpto DEF Upto
<1>6. (\E a \in ends, e \in ends : e <= T /\ Inside(b, a, e))
         => \E a \in ends', e \in ends' : e <= T /\ Inside(b, a, e)'
  <2> SUFFICES ASSUME NEW a \in ends, NEW e \in ends, e <= T, Inside(b, a, e)
               PROVE  \E x \in ends', y \in ends' : y <= T /\ Inside(b, x, y)'
    OBVIOUS
  <2>1. e <= seen
    BY <1>2, <1>3, EndFacts
  <2> QED
    BY <2>1, InsideKept
<1> DEFINE start == /\ b.at = "open" /\ b.pos = HeaderEnd /\ b.count = 0
                    /\ b.inflated = <<>> /\ b.got = <<>>
           rest == (b.at = "stopped" /\ b.got = w.data) \/ (~w.whole /\ IsPrefix(w.data, b.got))
<1> DEFINE reading(t) == \E a \in ends', e \in ends' : e <= t /\ Inside(b, a, e)'
           Q(t) == /\ t <= b.length /\ b.length <= seen'
                   /\ w.data = Datums(SubSeq(file', 1, t)) /\ (w.whole <=> t = b.length)
                   /\ start \/ reading(t) \/ rest
                   /\ AstrayBehind(b, w)
<1>7. start \/ reading(T) \/ rest
  BY <1>1, <1>6
<1>8. w.data = Datums(SubSeq(file', 1, T))
  BY <1>5 DEF Upto
<1>9. Q(T)
  <2> HIDE DEF start, reading, rest
  <2> QED
    BY <1>1, <1>3, <1>7, <1>8
<1>10. (\E t \in ends' : Q(t)) => Snapshot(b, w)'
  BY DEF Snapshot, AstrayBehind, HeaderEnd, Upto
<1> QED
  BY <1>4, <1>9, <1>10

(* The first datum of a whole block. *)
LEMMA EnterBlock ==
    ASSUME FileInv, NEW b \in Readers, b.at = "open", b.inflated = <<>>,
           NEW a \in ends, NEW e \in ends, e <= seen, WholeBlock(file, gen, a, e),
           b.got = Datums(Upto(a)), NEW c \in BeginBlock(b, a)
    PROVE  Inside(c, a, e) /\ c.turn = b.turn
<1>1. a \in Nat /\ e \in Nat /\ seen \in Nat /\ SyncSize \in Nat \ {0}
  BY EndFacts, FileFacts, HeaderEndFacts
<1>2. PICK n \in Nat \ {0} :
        /\ e = a + 2 + 2 * n + SyncSize
        /\ Kind(a + 1) = "count" /\ file[a + 1][2] = n /\ Kind(a + 2) = "len"
        /\ \A i \in 1 .. 2 * n : Kind(a + 2 + i) = IF i % 2 = 1 THEN "head" ELSE "tail"
        /\ \A i \in 1 .. SyncSize : file[a + 2 + 2 * n + i] = <<"sync", gen, i>>
  BY <1>1, InBlock
<1> DEFINE p == a + 2
<1>3. /\ p \in Nat \ {0} /\ p + 2 * n = e - SyncSize /\ p + 2 * n <= seen /\ n - 1 \in Nat
      /\ p + 2 \in a + 2 .. e - SyncSize /\ 2 * (n - 1) = e - SyncSize - (p + 2)
      /\ p + 2 * n \in a + 2 .. e - SyncSize
  BY <1>1, <1>2
<1>4. Kind(p) = "len" /\ \A i \in 1 .. 2 * n : Kind(p + i) = IF i % 2 = 1 THEN "head" ELSE "tail"
  BY <1>2
<1>5. Datums(Upto(p)) = Datums(Upto(a))
  BY <1>1, <1>2, CountAndLength
<1>6. c \in IF Codec = "deflate" THEN Inflate(b, p, n) ELSE ReadDatum(b, p, n - 1)
  BY <1>2 DEF BeginBlock
<1> HIDE DEF p
<1>7. CASE Codec = "deflate"
  <2> DEFINE q == p + 2 * n
             D == Datums(SubSeq(file, p + 1, q))
  <2>1. \A i \in 1 .. 2 * n : Kind(p + i) \in {"head", "tail"}
    BY <1>4
  <2>2. ~ (q > seen) /\ ~ (\E i \in 1 .. 2 * n : Kind(p + i) \notin {"head", "tail"})
    BY <1>1, <1>3, <2>1
  <2>3. c = [Decode(b, D) EXCEPT !.pos = q]
    BY <1>6, <1>7, <2>2, Zenon DEF Inflate
  <2>4. D \in Seq(Data) /\ D # <<>> /\ Datums(Upto(q)) = Join(Datums(Upto(p)), D)
    BY <1>3, <1>4, <2>1, InflatedData
  <2>5. /\ Tail(D) \in Seq(Data) /\ Len(Tail(D)) = Len(D) - 1 /\ Head(D) \in Data
    BY <2>4, HeadAndRest
  <2>6. b.got \in Seq(Data)
    BY EndFacts
  <2>7. Join(Append(b.got, Head(D)), Tail(D)) = Join(b.got, D)
    BY <2>4, <2>6, ShiftHead
  <2> HIDE DEF D, q
  <2>8. /\ c.at = "open" /\ c.pos = q /\ c.count = Len(D) - 1 /\ c.inflated = Tail(D)
        /\ c.got = Append(b.got, Head(D)) /\ c.turn = b.turn
    BY <2>3 DEF Decode, Readers
  <2>9. Join(c.got, c.inflated) = Datums(Upto(c.pos))
    BY <1>5, <2>4, <2>7, <2>8
  <2>10. c.inflated = <<>> => c.count = 0
    BY <2>5, <2>8, EmptySeq
  <2>11. q = e - SyncSize /\ q \in a + 2 .. e - SyncSize /\ e - SyncSize - q = 2 * 0
    BY <1>1, <1>3 DEF q
  <2> QED
    BY <2>8, <2>9, <2>10, <2>11 DEF Inside
<1>8. CASE Codec # "deflate"
  <2>1. 1 \in 1 .. 2 * n /\ 2 \in 1 .. 2 * n /\ 1 % 2 = 1 /\ 2 % 2 = 0
    BY <1>2
  <2>2. Kind(p + 1) = "head" /\ Kind(p + 2) = "tail"
    BY <1>4, <2>1
  <2>3. c = [b EXCEPT !.count = n - 1, !.pos = p + 2, !.got = Append(@, file[p + 1][2])]
    BY <1>6, <1>8, <2>2 DEF ReadDatum
  <2>4. /\ c.at = "open" /\ c.pos = p + 2 /\ c.count = n - 1 /\ c.inflated = <<>>
        /\ c.got = Append(b.got, file[p + 1][2]) /\ c.turn = b.turn
    BY <2>3 DEF Readers
  <2>5. Datums(Upto(p + 2)) = Append(Datums(Upto(p)), file[p + 1][2]) /\ file[p + 1][2] \in Data
    BY <1>3, <2>2, HeadAndTail
  <2>6. b.got \in Seq(Data)
    BY EndFacts
  <2>7. Append(b.got, file[p + 1][2]) \in Seq(Data)
    BY <2>5, <2>6, AppendProperties
  <2>8. Join(c.got, c.inflated) = Datums(Upto(c.pos))
    BY <1>5, <2>4, <2>5, <2>7, ConcatEmptySeq DEF Join
  <2> QED
    BY <1>3, <2>4, <2>8 DEF Inside
<1> QED
  BY <1>7, <1>8


LEMMA GotIsPrefix ==
    ASSUME NEW g \in Seq(Gettable), NEW h, h = g \/ \E d \in Gettable : h = Append(g, d)
    PROVE  IsPrefix(g, h) /\ h \in Seq(Gettable)
<1>1. CASE h = g
  BY <1>1, PrefixJoin
<1>2. ASSUME NEW d \in Gettable, h = Append(g, d) PROVE IsPrefix(g, h) /\ h \in Seq(Gettable)
  <2> DEFINE one == <<d>>
  <2>1. one \in Seq(Gettable)
    OBVIOUS
  <2>2. h = Join(g, one)
    BY <1>2, AppendIsConcat DEF Join
  <2> HIDE DEF one
  <2> QED
    BY <2>1, <2>2, PrefixJoin, JoinProperties
<1> QED
  BY <1>1, <1>2

(* next inside a whole block: the next datum of it, the first of the next    *)
(* block, the end of the file, or whatever follows the last whole block.     *)
LEMMA InsideNext ==
    ASSUME FileInv, NEW b \in Readers, InMemory(b), b.gen = gen, Faithful(b),
           NEW T \in ends, T <= b.length, b.length <= seen,
           NEW a \in ends, NEW e \in ends, e <= T, Inside(b, a, e), NEW c \in Nexts(b)
    PROVE  \/ Inside(c, a, e) /\ c.turn = b.turn
           \/ e = b.length /\ c.at = "stopped" /\ c.got = Datums(Upto(e)) /\ c.turn = b.turn
           \/ e = T /\ T < b.length /\ b.got = Datums(Upto(e))
           \/ (\E x \in ends : x <= T /\ Inside(c, e, x)) /\ c.turn = b.turn
<1>1. /\ a \in Nat /\ e \in Nat /\ T \in Nat /\ seen \in Nat /\ b.length \in Nat /\ b.count \in Nat
      /\ SyncSize \in Nat \ {0} /\ HeaderEnd \in Nat /\ a >= HeaderEnd
      /\ b.got \in Seq(Gettable) /\ b.inflated \in Seq(Gettable) /\ b.inflated \in Seq(Data)
  <2>1. /\ seen \in Nat /\ SyncSize \in Nat \ {0} /\ HeaderEnd \in Nat
    BY FileFacts, HeaderEndFacts
  <2>2. a \in Nat /\ e \in Nat /\ T \in Nat /\ a >= HeaderEnd
    BY EndFacts
  <2>3. /\ b.length \in Nat /\ b.count \in Nat /\ b.got \in Seq(Gettable)
        /\ b.inflated \in Seq(Data)
    BY DEF Readers
  <2> QED
    BY <2>1, <2>2, <2>3, GettableData
<1>2. /\ WholeBlock(file, gen, a, e) /\ b.at = "open" /\ b.pos \in a + 2 .. e - SyncSize
      /\ b.inflated = <<>> => 2 * b.count = e - SyncSize - b.pos
      /\ b.inflated # <<>> => b.pos = e - SyncSize
      /\ Join(b.got, b.inflated) = Datums(Upto(b.pos))
  BY DEF Inside
<1>3. e <= seen /\ b.pos < b.length /\ b.pos \in Nat /\ b.pos \in HeaderEnd .. seen
  <2> DEFINE p == b.pos
             len == b.length
  <2>1. /\ a \in Nat /\ e \in Nat /\ T \in Nat /\ seen \in Nat /\ len \in Nat /\ SyncSize \in Nat \ {0}
        /\ HeaderEnd \in Nat /\ a >= HeaderEnd
    BY <1>1
  <2>2. p \in a + 2 .. e - SyncSize /\ e <= T /\ T <= len /\ len <= seen
    BY <1>2
  <2> HIDE DEF p, len
  <2>3. e <= seen /\ p \in Nat /\ p < e
    BY <2>1, <2>2
  <2>4. p < len /\ p \in HeaderEnd .. seen
    BY <2>1, <2>2, <2>3
  <2> QED
    BY <2>3, <2>4 DEF p, len
<1>4. PICK n \in Nat \ {0} :
        /\ e = a + 2 + 2 * n + SyncSize
        /\ Kind(a + 1) = "count" /\ file[a + 1][2] = n /\ Kind(a + 2) = "len"
        /\ \A i \in 1 .. 2 * n : Kind(a + 2 + i) = IF i % 2 = 1 THEN "head" ELSE "tail"
        /\ \A i \in 1 .. SyncSize : file[a + 2 + 2 * n + i] = <<"sync", gen, i>>
  <2>1. a \in Nat /\ e \in Nat /\ e <= seen /\ WholeBlock(file, gen, a, e)
    BY <1>1, <1>2, <1>3
  <2> QED
    BY <2>1, InBlock
<1>10. /\ e = a + 2 + 2 * n + SyncSize /\ e \in Nat /\ a \in Nat /\ SyncSize \in Nat
       /\ b.count \in Nat /\ b.pos \in Nat /\ n \in Nat /\ b.pos \in a + 2 .. e - SyncSize
  <2>1. e = a + 2 + 2 * n + SyncSize
    BY <1>4
  <2>2. b.pos \in Nat /\ b.pos \in a + 2 .. e - SyncSize
    BY <1>2, <1>3
  <2>3. e \in Nat /\ a \in Nat /\ SyncSize \in Nat \ {0} /\ b.count \in Nat /\ n \in Nat \ {0}
    BY <1>1, Zenon
  <2>4. SyncSize \in Nat /\ n \in Nat
    BY <2>3
  <2> QED
    BY <2>1, <2>2, <2>3, <2>4, Zenon
<1>5. CASE b.count > 0 /\ b.inflated # <<>> /\ c = Decode(b, b.inflated)
  <2>1. /\ c.pos = b.pos /\ c.at = b.at /\ c.count = Len(b.inflated) - 1
        /\ c.inflated = Tail(b.inflated) /\ c.got = Append(b.got, Head(b.inflated))
        /\ c.turn = b.turn
    BY <1>5, DecodeType
  <2>2. Join(c.got, c.inflated) = Datums(Upto(c.pos))
    <3>1. /\ b.got \in Seq(Gettable) /\ b.inflated \in Seq(Gettable) /\ b.inflated # <<>>
          /\ Join(b.got, b.inflated) = Datums(Upto(b.pos))
      BY <1>1, <1>2, <1>5, Zenon
    <3>2. Join(Append(b.got, Head(b.inflated)), Tail(b.inflated)) = Join(b.got, b.inflated)
      BY <3>1, ShiftHead, Zenon
    <3> QED
      BY <2>1, <3>1, <3>2, Zenon
  <2>3. c.inflated = <<>> => c.count = 0
    BY <1>1, <1>5, <2>1, HeadAndRest, EmptySeq
  <2>4. c.pos = e - SyncSize /\ 2 * 0 = e - SyncSize - c.pos
    BY <1>1, <1>2, <1>5, <2>1
  <2> QED
    BY <1>2, <2>1, <2>2, <2>3, <2>4 DEF Inside
<1>6. ASSUME b.count > 0, b.inflated = <<>>, c \in ReadDatum(b, b.pos, b.count - 1)
      PROVE  Inside(c, a, e) /\ c.turn = b.turn
  <2> DEFINE k == n - b.count
             p == b.pos
  <2>1. p = a + 2 + 2 * k /\ k \in Nat /\ k + 1 <= n
    <3>1. 2 * b.count = e - SyncSize - p /\ b.count > 0
      BY <1>2, <1>6
    <3>2. p \in Nat /\ p = a + 2 + 2 * n - 2 * b.count /\ a + 2 <= p
      BY <1>10, <3>1
    <3> HIDE DEF p
    <3> QED
      BY <1>10, <3>1, <3>2
  <2> HIDE DEF k
  <2>2. /\ 2 * k + 1 \in 1 .. 2 * n /\ 2 * k + 2 \in 1 .. 2 * n
        /\ (2 * k + 1) % 2 = 1 /\ (2 * k + 2) % 2 = 0
        /\ p + 1 = a + 2 + (2 * k + 1) /\ p + 2 = a + 2 + (2 * k + 2)
    BY <1>1, <2>1
  <2>3. Kind(p + 1) = "head" /\ Kind(p + 2) = "tail"
    BY <1>4, <2>2
  <2>4. c = [b EXCEPT !.count = b.count - 1, !.pos = p + 2, !.got = Append(@, file[p + 1][2])]
    BY <1>6, <2>3 DEF ReadDatum
  <2>5. /\ c.at = "open" /\ c.pos = p + 2 /\ c.count = b.count - 1 /\ c.inflated = <<>>
        /\ c.got = Append(b.got, file[p + 1][2]) /\ c.turn = b.turn
    BY <1>2, <1>6, <2>4 DEF Readers
  <2>6. Datums(Upto(p + 2)) = Append(Datums(Upto(p)), file[p + 1][2]) /\ file[p + 1][2] \in Gettable
    <3>1. Datums(Upto(p + 2)) = Append(Datums(Upto(p)), file[p + 1][2]) /\ file[p + 1][2] \in Data
      BY <1>3, <2>3, HeadAndTail
    <3> QED
      BY <3>1, DataFileAssumption DEF Data, Gettable
  <2>7. b.got = Datums(Upto(p)) /\ Join(c.got, <<>>) = c.got
    <3>1. c.got \in Seq(Gettable)
      BY <1>1, <2>5, <2>6, AppendProperties
    <3> QED
      BY <1>1, <1>2, <1>6, <3>1, ConcatEmptySeq DEF Join
  <2>8. Join(c.got, c.inflated) = Datums(Upto(c.pos))
    BY <2>5, <2>6, <2>7
  <2>9. c.pos \in a + 2 .. e - SyncSize /\ 2 * c.count = e - SyncSize - c.pos
    <3>1. 2 * b.count = e - SyncSize - p /\ p + 2 = a + 2 + (2 * k + 2) /\ p \in Nat
          /\ 2 * k + 2 \in 1 .. 2 * n
      BY <1>2, <1>3, <1>6, <2>2
    <3> HIDE DEF p
    <3>2. p + 2 \in a + 2 .. e - SyncSize /\ 2 * (b.count - 1) = e - SyncSize - (p + 2)
      BY <1>10, <2>1, <3>1
    <3> QED
      BY <2>5, <3>2
  <2> QED
    BY <1>2, <2>5, <2>8, <2>9 DEF Inside
<1>7. ASSUME b.count = 0, b.inflated = <<>>
      PROVE  /\ SkipSync(b.pos) = e /\ e > b.pos /\ b.got = Datums(Upto(e)) /\ Turned(b, e) = b
             /\ b.got \in Seq(Gettable)
  <2>1. b.pos = e - SyncSize /\ b.pos + SyncSize = e /\ b.pos = a + 2 + 2 * n /\ e > b.pos
    <3>1. 2 * 0 = e - SyncSize - b.pos
      BY <1>2, <1>7
    <3>2. SyncSize > 0
      BY <1>1
    <3> QED
      BY <1>10, <3>1, <3>2
  <2>2. \A i \in 1 .. SyncSize : file[b.pos + i] = <<"sync", gen, i>>
    BY <1>4, <2>1
  <2>3. SkipSync(b.pos) = e /\ Datums(Upto(e)) = Datums(Upto(b.pos))
    BY <1>3, <2>1, <2>2, SkipSyncPast
  <2>4. Join(b.got, <<>>) = b.got
    BY <1>1, ConcatEmptySeq DEF Join
  <2>5. ~ (e < b.pos)
    BY <1>1, <1>3, <2>1
  <2> QED
    BY <1>1, <1>2, <1>7, <2>1, <2>3, <2>4, <2>5 DEF Turned
<1>8. ASSUME b.count = 0, b.inflated = <<>>, e # b.length, c \in BeginBlock(b, e)
      PROVE  \/ e = T /\ T < b.length /\ b.got = Datums(Upto(e))
             \/ (\E x \in ends : x <= T /\ Inside(c, e, x)) /\ c.turn = b.turn
  <2>1. CASE e = T
    BY <1>1, <1>7, <1>8, <2>1
  <2>2. CASE e # T
    <3>1. e < T
      BY <1>1, <2>2
    <3>2. PICK x \in ends : x <= T /\ WholeBlock(file, gen, e, x)
      BY <3>1 DEF FileInv, FileGood, Chained
    <3>3. x <= seen
      BY <1>1, <3>2, EndFacts
    <3>4. Inside(c, e, x) /\ c.turn = b.turn
      BY <1>2, <1>7, <1>8, <3>2, <3>3, EnterBlock
    <3> QED
      BY <3>2, <3>4
  <2> QED
    BY <2>1, <2>2
<1>9. ASSUME b.count = 0, b.inflated = <<>>, e = b.length,
             c = [b EXCEPT !.at = "stopped", !.pos = e]
      PROVE  c.at = "stopped" /\ c.got = Datums(Upto(e)) /\ c.turn = b.turn
  BY <1>1, <1>7, <1>9 DEF Readers
<1> QED
  <2>1. b.pos # b.length /\ b.at # "lost"
    BY <1>1, <1>2, <1>3
  <2>2. CASE /\ b.count = 0 /\ b.inflated = <<>>
             /\ \/ /\ SkipSync(b.pos) > b.pos /\ SkipSync(b.pos) = b.length
                   /\ c = [b EXCEPT !.at = "stopped", !.pos = SkipSync(b.pos)]
                \/ /\ ~ (SkipSync(b.pos) > b.pos /\ SkipSync(b.pos) = b.length)
                   /\ c \in BeginBlock(Turned(b, SkipSync(b.pos)), SkipSync(b.pos))
    <3>1. SkipSync(b.pos) = e /\ e > b.pos /\ Turned(b, e) = b
      BY <1>7, <2>2
    <3> QED
      BY <1>8, <1>9, <2>2, <3>1
  <2> QED
    BY <1>5, <1>6, <2>1, <2>2, NextsAre


LEMMA StaysAtBlock ==
    ASSUME FileInv, NEW a \in ends, NEW e \in ends, e <= seen, WholeBlock(file, gen, a, e)
    PROVE  SkipSync(a) = a
<1>1. /\ a \in Nat /\ e \in Nat /\ a >= HeaderEnd /\ seen \in Nat /\ HeaderEnd \in Nat
      /\ SyncSize \in Nat \ {0}
  BY EndFacts, FileFacts, HeaderEndFacts
<1>2. PICK n \in Nat \ {0} :
        /\ e = a + 2 + 2 * n + SyncSize
        /\ Kind(a + 1) = "count" /\ file[a + 1][2] = n /\ Kind(a + 2) = "len"
        /\ \A i \in 1 .. 2 * n : Kind(a + 2 + i) = IF i % 2 = 1 THEN "head" ELSE "tail"
        /\ \A i \in 1 .. SyncSize : file[a + 2 + 2 * n + i] = <<"sync", gen, i>>
  BY <1>1, InBlock
<1>3. e = a + 2 + 2 * n + SyncSize /\ Kind(a + 1) = "count"
  BY <1>2
<1>4. a + SyncSize < seen /\ a \in HeaderEnd .. seen
  BY <1>1, <1>3
<1>5. file[a + 1][1] # "sync"
  BY <1>1, <1>3, KindFacts
<1> QED
  BY <1>4, <1>5, SkipSyncStays

(* next at the beginning of the file. *)
LEMMA StartNext ==
    ASSUME FileInv, NEW b \in Readers, InMemory(b), b.gen = gen, Faithful(b),
           NEW T \in ends, T <= b.length, b.length <= seen,
           b.at = "open", b.pos = HeaderEnd, b.count = 0, b.inflated = <<>>, b.got = <<>>,
           NEW c \in Nexts(b)
    PROVE  \/ c.at = "stopped" /\ c.got = Datums(Upto(T)) /\ c.turn = b.turn
           \/ T < b.length /\ b.got = Datums(Upto(T))
           \/ (\E x \in ends : x <= T /\ Inside(c, HeaderEnd, x)) /\ c.turn = b.turn
<1>1. /\ T \in Nat /\ seen \in Nat /\ b.length \in Nat /\ HeaderEnd \in Nat /\ SyncSize \in Nat \ {0}
      /\ T >= HeaderEnd
  BY EndFacts, FileFacts, HeaderEndFacts DEF Readers
<1>2. Datums(Upto(HeaderEnd)) = <<>> /\ HeaderEnd \in ends /\ seen >= HeaderEnd
  <2>1. seen >= HeaderEnd
    BY <1>1
  <2> QED
    BY <2>1, HeaderHolds
<1>3. CASE b.pos = b.length /\ c = [b EXCEPT !.at = "stopped"]
  <2>1. T = HeaderEnd
    BY <1>1, <1>3
  <2>2. c.at = "stopped" /\ c.got = <<>> /\ c.turn = b.turn
    BY <1>3 DEF Readers
  <2> QED
    BY <1>2, <2>1, <2>2
<1>4. CASE T = HeaderEnd /\ b.pos # b.length
  <2>1. T < b.length
    BY <1>1, <1>4
  <2> QED
    BY <1>2, <1>4, <2>1
<1>5. ASSUME T # HeaderEnd, b.pos # b.length,
             SkipSync(b.pos) = HeaderEnd => c \in BeginBlock(b, HeaderEnd)
      PROVE  (\E x \in ends : x <= T /\ Inside(c, HeaderEnd, x)) /\ c.turn = b.turn
  <2>1. HeaderEnd < T
    BY <1>1, <1>5
  <2>2. PICK x \in ends : x <= T /\ WholeBlock(file, gen, HeaderEnd, x)
    BY <1>2, <2>1 DEF FileInv, FileGood, Chained
  <2>3. x <= seen /\ x \in Nat
    BY <1>1, <2>2, EndFacts
  <2>8. SkipSync(HeaderEnd) = HeaderEnd
    BY <1>2, <2>2, <2>3, StaysAtBlock
  <2>9. c \in BeginBlock(b, HeaderEnd)
    BY <1>5, <2>8
  <2>10. Inside(c, HeaderEnd, x) /\ c.turn = b.turn
    BY <1>2, <2>2, <2>3, <2>9, EnterBlock
  <2> QED
    BY <2>2, <2>10
<1>6. SkipSync(b.pos) = HeaderEnd => Turned(b, SkipSync(b.pos)) = b /\ ~ (SkipSync(b.pos) > b.pos)
  BY <1>1 DEF Turned
<1>7. \/ b.pos = b.length /\ c = [b EXCEPT !.at = "stopped"]
      \/ b.pos # b.length /\ (SkipSync(b.pos) = HeaderEnd => c \in BeginBlock(b, HeaderEnd))
  <2> DEFINE q == SkipSync(b.pos)
  <2>1. \/ b.pos = b.length /\ c = [b EXCEPT !.at = "stopped"]
        \/ b.pos # b.length /\ q > b.pos
        \/ b.pos # b.length /\ c \in BeginBlock(Turned(b, q), q)
    <3>1. ~ (b.count > 0)
      OBVIOUS
    <3>2. \/ b.count = 0 /\ b.pos = b.length /\ c = [b EXCEPT !.at = "stopped"]
          \/ /\ b.count = 0 /\ b.inflated = <<>> /\ b.pos # b.length
             /\ \/ /\ q > b.pos /\ q = b.length
                   /\ c = [b EXCEPT !.at = "stopped", !.pos = q]
                \/ /\ ~ (q > b.pos /\ q = b.length)
                   /\ c \in BeginBlock(Turned(b, q), q)
      BY <3>1, NextsAre
    <3> QED
      BY <3>2
  <2> HIDE DEF q
  <2>2. q = HeaderEnd => Turned(b, q) = b /\ ~ (q > b.pos)
    BY <1>6 DEF q
  <2>3. q = HeaderEnd /\ c \in BeginBlock(Turned(b, q), q) => c \in BeginBlock(b, HeaderEnd)
    BY <2>2
  <2> QED
    BY <2>1, <2>2, <2>3 DEF q
<1> QED
  BY <1>3, <1>4, <1>5, <1>7

LEMMA SnapshotNext ==
    ASSUME FileInv, NEW b \in Readers, InMemory(b), b.gen = gen, Faithful(b),
           b.at \in {"open", "lost"},
           NEW w, Snapshot(b, w), NEW c \in Nexts(b)
    PROVE  Snapshot(c, w)
<1>1. PICK T \in ends :
        /\ T <= b.length /\ b.length <= seen
        /\ w.data = Datums(Upto(T)) /\ (w.whole <=> T = b.length)
        /\ \/ /\ b.at = "open" /\ b.pos = HeaderEnd /\ b.count = 0
              /\ b.inflated = <<>> /\ b.got = <<>>
           \/ \E a \in ends, e \in ends : e <= T /\ Inside(b, a, e)
           \/ b.at = "stopped" /\ b.got = w.data
           \/ ~w.whole /\ IsPrefix(w.data, b.got)
        /\ AstrayBehind(b, w)
  BY DEF Snapshot
<1>2. /\ c.length = b.length /\ (c.got = b.got \/ \E d \in Gettable : c.got = Append(b.got, d))
      /\ c.turn = b.turn \/ (b.turn = Never /\ c.turn = Len(b.got))
      /\ b.got \in Seq(Gettable) /\ w.data \in Seq(Gettable) /\ T \in Nat /\ b.length \in Nat
  BY <1>1, NextsFollow, EndFacts DEF Follows, Readers
<1> DEFINE through == c.at = "stopped" /\ c.got = w.data
           more    == ~w.whole /\ IsPrefix(w.data, c.got)
           within  == \E a \in ends, e \in ends : e <= T /\ Inside(c, a, e)
           sure    == c.turn = b.turn \/ (~w.whole /\ IsPrefix(w.data, b.got))
<1>7. IsPrefix(b.got, c.got) /\ c.got \in Seq(Gettable)
  BY <1>2, GotIsPrefix
<1>8. IsPrefix(b.got, b.got)
  BY <1>2, PrefixJoin
<1>3. ASSUME b.at = "open", b.pos = HeaderEnd, b.count = 0, b.inflated = <<>>, b.got = <<>>
      PROVE  (through \/ more \/ within) /\ sure
  <2>1. \/ c.at = "stopped" /\ c.got = Datums(Upto(T)) /\ c.turn = b.turn
        \/ T < b.length /\ b.got = Datums(Upto(T))
        \/ (\E x \in ends : x <= T /\ Inside(c, HeaderEnd, x)) /\ c.turn = b.turn
    BY <1>1, <1>3, StartNext
  <2>2. HeaderEnd \in ends
    <3>1. seen >= HeaderEnd
      BY <1>1, <1>2, EndFacts, FileFacts, HeaderEndFacts
    <3> QED
      BY <3>1, HeaderHolds
  <2>3. T < b.length => T # b.length
    BY <1>2
  <2> QED
    BY <1>1, <1>7, <1>8, <2>1, <2>2, <2>3
<1>4. ASSUME NEW a \in ends, NEW e \in ends, e <= T, Inside(b, a, e)
      PROVE  (through \/ more \/ within) /\ sure
  <2>1. \/ Inside(c, a, e) /\ c.turn = b.turn
        \/ e = b.length /\ c.at = "stopped" /\ c.got = Datums(Upto(e)) /\ c.turn = b.turn
        \/ e = T /\ T < b.length /\ b.got = Datums(Upto(e))
        \/ (\E x \in ends : x <= T /\ Inside(c, e, x)) /\ c.turn = b.turn
    BY <1>1, <1>4, InsideNext
  <2>2. e = b.length => e = T
    BY <1>1, <1>2, <1>4, EndFacts
  <2>3. T < b.length => T # b.length
    BY <1>2
  <2> QED
    BY <1>1, <1>4, <1>7, <1>8, <2>1, <2>2, <2>3
<1>5. ASSUME ~w.whole, IsPrefix(w.data, b.got) PROVE more /\ sure
  BY <1>2, <1>5, <1>7, PrefixTransitive
<1>9. ASSUME b.at = "stopped" PROVE FALSE
  BY <1>9
<1>6. (through \/ more \/ within) /\ sure
  <2> HIDE DEF through, more, within, sure
  <2> QED
    BY <1>1, <1>3, <1>4, <1>5, <1>9
<1>10. AstrayBehind(c, w)
  <2> SUFFICES ASSUME c.turn # Never
               PROVE  ~w.whole /\ IsPrefix(w.data, SubSeq(c.got, 1, c.turn))
    BY DEF AstrayBehind
  <2>1. Len(b.got) \in Nat /\ SubSeq(b.got, 1, Len(b.got)) = b.got
    BY <1>2, LenProperties, SubSeqFull
  <2>2. ASSUME NEW t \in Nat, t <= Len(b.got) PROVE SubSeq(c.got, 1, t) = SubSeq(b.got, 1, t)
    BY <1>2, <2>2, GotMore
  <2>3. CASE b.turn # Never
    <3>1. c.turn = b.turn /\ b.turn \in Nat /\ b.turn <= Len(b.got)
      BY <1>2, <2>3 DEF Faithful, FaithfulAt, Readers
    <3>2. ~w.whole /\ IsPrefix(w.data, SubSeq(b.got, 1, b.turn))
      BY <1>1, <2>3 DEF AstrayBehind
    <3> QED
      BY <2>2, <3>1, <3>2
  <2>4. CASE b.turn = Never
    <3>1. c.turn = Len(b.got) /\ c.turn # b.turn
      BY <1>2, <2>4
    <3>2. ~w.whole /\ IsPrefix(w.data, b.got)
      BY <1>6, <3>1
    <3>3. SubSeq(c.got, 1, c.turn) = b.got
      BY <2>1, <2>2, <3>1
    <3> QED
      BY <3>2, <3>3
  <2> QED
    BY <2>3, <2>4
<1> QED
  BY <1>1, <1>2, <1>6, <1>10 DEF Snapshot

SnapshotInv == Current => Snapshot(reader, want)

LEMMA SnapshotInvStep ==
    ASSUME FileInv, ReaderInv, SnapshotInv, [Next]_vars
    PROVE  SnapshotInv'
<1>1. FileInv' /\ (Kept \/ \E c \in ValidCodecs : CreateFile(c))
  BY FileInvStep
<1>2. reader \in Readers /\ InMemory(reader) /\ reader.gen <= gen /\ reader.gen \in Nat /\ gen \in Nat
      /\ reader.length \in Nat
  BY DEF ReaderInv, Readers, FileInv
<1>3. ASSUME NEW c \in ValidCodecs, CreateFile(c) PROVE SnapshotInv'
  <2>1. reader' = reader /\ gen' = gen + 1
    BY <1>3 DEF CreateFile, readerVars
  <2>2. ~Current'
    BY <1>2, <2>1 DEF Current
  <2> QED
    BY <2>2 DEF SnapshotInv
<1>4. ASSUME Kept, NEW b \in Readers, NEW w, reader' = b, want' = w,
             b.at # "closed" /\ b.gen = gen => Snapshot(b, w)
      PROVE  SnapshotInv'
  <2>1. Current' => b.at # "closed" /\ b.gen = gen
    BY <1>4 DEF Current, Kept
  <2>2. Current' => Snapshot(b, w)'
    <3>1. b.length \in Nat
      BY DEF Readers
    <3> QED
      BY <1>1, <1>4, <2>1, <3>1, SnapshotKept
  <2>3. Snapshot(b, w)' => Snapshot(reader, want)'
    BY <1>4 DEF Snapshot, AstrayBehind, Inside
  <2> QED
    BY <2>2, <2>3 DEF SnapshotInv
<1>5. ASSUME Kept, reader' = reader, want' = want PROVE SnapshotInv'
  <2>1. reader.at # "closed" /\ reader.gen = gen => Snapshot(reader, want)
    BY DEF SnapshotInv, Current
  <2> QED
    BY <1>2, <1>4, <1>5, <2>1
<1>6. ASSUME OpenReader PROVE SnapshotInv'
  <2> DEFINE b == [Closed EXCEPT !.at = "open", !.gen = gen, !.pos = HeaderEnd, !.length = seen]
             T == WholeAt(seen)
             w == [data |-> Datums(Upto(T)), whole |-> T = seen]
  <2>1. reader' = b /\ want' = w /\ seen >= HeaderEnd
    BY <1>6 DEF OpenReader
  <2>2. /\ b \in Readers /\ b.at = "open" /\ b.pos = HeaderEnd /\ b.length = seen /\ b.count = 0
        /\ b.inflated = <<>> /\ b.got = <<>> /\ b.turn = Never
    BY <1>2, <2>1, OpenedIs
  <2>3. T \in ends /\ T <= seen
    <3>1. /\ T \in {0} \cup ends /\ T \in 0 .. seen /\ (\A e \in ends : e <= seen => e <= T)
          /\ HeaderEnd \in ends /\ seen \in Nat /\ HeaderEnd \in Nat \ {0}
      BY <2>1, WholeAtIs, HeaderHolds, HeaderEndFacts, FileFacts DEF FileInv
    <3>2. HeaderEnd <= T
      BY <2>1, <3>1
    <3> QED
      BY <3>1, <3>2
  <2>4. seen <= seen
    BY FileFacts
  <2> HIDE DEF b, T
  <2>5. w.data = Datums(Upto(T)) /\ (w.whole <=> T = b.length)
    BY <2>2
  <2>6. Snapshot(b, w)
    <3> HIDE DEF w
    <3> QED
      BY <2>2, <2>3, <2>4, <2>5 DEF Snapshot, AstrayBehind
  <2>7. Kept
    BY <1>6, ReadingInv
  <2> HIDE DEF w
  <2> QED
    BY <1>4, <2>1, <2>2, <2>6, <2>7
<1>7. ASSUME ReadNext PROVE SnapshotInv'
  <2>1. reader' \in Nexts(reader) /\ reader.at \in {"open", "lost"} /\ want' = want
    BY <1>7 DEF ReadNext
  <2>2. PICK c \in Nexts(reader) : reader' = c
    BY <2>1
  <2>3. reader.gen = gen => Faithful(reader) /\ Snapshot(reader, want)
    BY <2>1 DEF ReaderInv, SnapshotInv, Current
  <2>4. Follows(reader, c)
    BY <1>2, <2>2, <2>3, NextsFollow
  <2>5. c \in Readers /\ c.gen = reader.gen
    BY <2>4 DEF Follows
  <2>6. reader.gen = gen => Snapshot(c, want)
    BY <1>2, <2>1, <2>2, <2>3, SnapshotNext
  <2>7. Kept
    BY <1>7, ReadingInv
  <2> QED
    BY <1>4, <2>1, <2>2, <2>5, <2>6, <2>7
<1>8. ASSUME CloseReader PROVE SnapshotInv'
  <2>1. ~Current'
    BY <1>8, ClosedIs DEF CloseReader, Current
  <2> QED
    BY <2>1 DEF SnapshotInv
<1>9. \/ \E c \in ValidCodecs : CreateFile(c)
      \/ OpenReader \/ ReadNext \/ CloseReader
      \/ reader' = reader /\ want' = want
  BY DEF Next, vars, readerVars, OpenWriter, AppendDatum, Sync, Flush, Spill, Abort, Kill
<1>10. (\E c \in ValidCodecs : CreateFile(c)) \/ Kept
  BY <1>1
<1> QED
  BY <1>3, <1>5, <1>6, <1>7, <1>8, <1>9, <1>10

-----------------------------------------------------------------------------
LEMMA InvIsType ==
    ASSUME FileInv, ReaderInv
    PROVE  TypeOK
<1>1. /\ seen \in 0 .. Len(file) /\ ends \subseteq 1 .. Len(file) /\ writer \in {"none", "open"}
      /\ blockCount = Len(buffer) /\ nextDatum \in 1 .. MaxData + 1
      /\ sessions \in 0 .. MaxSessions /\ reads \in 0 .. MaxReads
  BY DEF FileInv, FileGood
<1>2. reader.at \in {"closed", "open", "stopped", "broken", "lost"} /\ reader.count \in Nat
  BY DEF ReaderInv, Readers
<1> QED
  BY <1>1, <1>2 DEF TypeOK

LEMMA InvInvariant == Spec => [](FileInv /\ ReaderInv /\ SnapshotInv)
<1>1. Init => FileInv /\ ReaderInv /\ SnapshotInv
  <2>1. Init => SnapshotInv
    BY ClosedIs DEF Init, Current, SnapshotInv
  <2> QED
    BY <2>1, FileInvInit, ReaderInvInit
<1>2. FileInv /\ ReaderInv /\ SnapshotInv /\ [Next]_vars => (FileInv /\ ReaderInv /\ SnapshotInv)'
  BY FileInvStep, ReaderInvStep, SnapshotInvStep
<1> QED
  BY <1>1, <1>2, PTL DEF Spec

(* What a flush has secured is in the whole blocks that others see, and      *)
(* stays there while writers append, raise, die and are killed; and what     *)
(* append has taken is in the file or in the buffer, once and in its order.  *)
THEOREM FlushedBlocksStay == Spec => []FlushedStays
<1>1. FileInv /\ ReaderInv => FlushedStays
  <2> SUFFICES ASSUME FileInv, ReaderInv PROVE FlushedStays
    OBVIOUS
  <2>1. accepted = Datums(file) \o buffer
    BY DEF FileInv, Join
  <2> QED
    BY <2>1, FlushedIsWhole, InvIsType DEF FlushedStays
<1> QED
  BY <1>1, InvInvariant, PTL

(* A reader gets the datums that were appended, in their order, none left    *)
(* out or twice, until it goes astray: _skip_sync sends it back behind where *)
(* it was, or it takes what a later writer appended for the rest of a datum  *)
(* or for a block.  That is after all that was whole when the file was       *)
(* opened, and never if nothing else was there.  What next returns from then *)
(* on may be no datum that was appended.                                     *)
THEOREM ReadersAreFaithful == Spec => []ReadersFaithful
<1>1. FileInv /\ ReaderInv /\ SnapshotInv => ReadersFaithful
  <2> SUFFICES ASSUME FileInv, ReaderInv, SnapshotInv, Current
               PROVE  /\ IsPrefix(Untorn(Sure), accepted)
                      /\ reader.turn # Never => ~want.whole /\ IsPrefix(want.data, Sure)
    BY DEF ReadersFaithful
  <2>1. IsPrefix(Untorn(Sure), accepted)
    BY ReadingIsFaithful
  <2>2. AstrayBehind(reader, want)
    BY SnapshotFaithful DEF SnapshotInv
  <2> QED
    BY <2>1, <2>2 DEF AstrayBehind, Sure
<1> QED
  BY <1>1, InvInvariant, PTL

(* A reader that is through has all whole blocks that were there when it was *)
(* opened; and if there was nothing else, it gets nothing else and ends      *)
(* without an error, even if the file has grown since.                       *)
THEOREM SnapshotsAreRead == Spec => []SnapshotIsRead
<1>1. FileInv /\ ReaderInv /\ SnapshotInv => SnapshotIsRead
  BY SnapshotFaithful DEF SnapshotInv, SnapshotIsRead
<1> QED
  BY <1>1, InvInvariant, PTL

-----------------------------------------------------------------------------
(* AvroBinary: the numbers and bytes that files and calls consist of (the    *)
(* count and the length of a block are such numbers, datafile.py:145), for a *)
(* byte of any size.                                                         *)
Bytes == 0 .. BYTE - 1

\* The bytes b hold the bytes w from position p on.
Holds(b, p, w) ==
    /\ p + Len(w) - 1 <= Len(b)
    /\ \A i \in 1 .. Len(w) : b[p + i - 1] = w[i]

LEMMA GroupFacts == Group \in Nat /\ Group > 1 /\ BYTE \in Nat /\ BYTE > Group
BY IOAssumption DEF BYTE

(* Division of any integer: of a negative one its quotient is rounded down,  *)
(* as a shift to the right rounds it.                                        *)
LEMMA DivisionOfInt ==
    ASSUME NEW e \in Int, NEW c \in Nat \ {0}
    PROVE  /\ e \div c \in Int /\ e % c \in 0 .. c - 1
           /\ e = (c * (e \div c)) + (e % c)
OBVIOUS

LEMMA ShiftsAre ==
    ASSUME NEW n \in Int, NEW base \in Nat \ {0}, NEW k \in Nat
    PROVE  /\ Shifts(n, base, k) \in [0 .. k -> Int]
           /\ Shifts(n, base, k)[0] = n
           /\ \A i \in 1 .. k : Shifts(n, base, k)[i] = Shifts(n, base, k)[i - 1] \div base
<1> DEFINE Is(f, m) == \A i \in 0 .. m : f[i] = IF i = 0 THEN n ELSE f[i - 1] \div base
           Up(m) == {f \in [0 .. m -> Int] : Is(f, m)}
           Good == {m \in Nat : Up(m) # {}}
<1>1. 0 \in Good
  <2>1. [i \in 0 .. 0 |-> n] \in Up(0)
    OBVIOUS
  <2> QED
    BY <2>1
<1>2. ASSUME NEW m \in Nat, m \in Good PROVE m + 1 \in Good
  <2>1. PICK f \in [0 .. m -> Int] : Is(f, m)
    BY <1>2
  <2> DEFINE last == f[m] \div base
             h == [i \in 0 .. m + 1 |-> IF i = m + 1 THEN last ELSE f[i]]
  <2>2. last \in Int
    <3>1. f[m] \in Int
      BY <2>1
    <3> QED
      BY <3>1, DivisionOfInt
  <2> HIDE DEF last
  <2>3. h \in [0 .. m + 1 -> Int]
    BY <2>1, <2>2
  <2>4. ASSUME NEW i \in 0 .. m + 1 PROVE h[i] = IF i = 0 THEN n ELSE h[i - 1] \div base
    <3>1. CASE i = m + 1
      <4>1. h[i] = last /\ h[i - 1] = f[m] /\ i # 0
        BY <3>1
      <4> QED
        BY <4>1 DEF last
    <3>2. CASE i # m + 1
      <4>1. i \in 0 .. m /\ h[i] = f[i] /\ (i # 0 => h[i - 1] = f[i - 1])
        BY <3>2
      <4> HIDE DEF h
      <4> QED
        BY <2>1, <4>1
    <3> QED
      BY <3>1, <3>2
  <2>5. Is(h, m + 1)
    BY <2>4
  <2> HIDE DEF h
  <2>6. h \in Up(m + 1)
    BY <2>3, <2>5
  <2> HIDE DEF Up
  <2> QED
    BY <2>6
<1>3. PICK f \in [0 .. k -> Int] : Is(f, k)
  <2> HIDE DEF Up
  <2>1. Nat \subseteq Good
    BY <1>1, <1>2, InductionOnNat
  <2>2. Up(k) # {}
    BY <2>1
  <2> QED
    BY <2>2 DEF Up
<1> DEFINE Rec(g) == g = [i \in 0 .. k |-> IF i = 0 THEN n ELSE g[i - 1] \div base]
           rest == CHOOSE g : Rec(g)
<1>4. Rec(f)
  BY <1>3
<1> HIDE DEF Rec
<1>5. Rec(rest)
  BY <1>4
<1>6. Shifts(n, base, k) = rest
  BY DEF Shifts, Rec
<1> HIDE DEF rest
<1>7. rest = [i \in 0 .. k |-> IF i = 0 THEN n ELSE rest[i - 1] \div base]
  BY <1>5 DEF Rec
<1>8. Is(rest, k)
  BY <1>7
<1> DEFINE Same == {m \in Nat : m <= k => rest[m] \in Int}
<1>9. 0 \in Same
  BY <1>8
<1>10. ASSUME NEW m \in Nat, m \in Same PROVE m + 1 \in Same
  <2> SUFFICES ASSUME m + 1 <= k PROVE rest[m + 1] \in Int
    OBVIOUS
  <2>1. rest[m] \in Int
    BY <1>10
  <2>2. m + 1 \in 0 .. k /\ m + 1 # 0 /\ (m + 1) - 1 = m
    OBVIOUS
  <2>3. rest[m + 1] = rest[m] \div base
    BY <1>8, <2>2
  <2> QED
    BY <2>1, <2>3, DivisionOfInt
<1>11. \A i \in 0 .. k : rest[i] \in Int
  <2>1. Nat \subseteq Same
    <3> HIDE DEF Same
    <3> QED
      BY <1>9, <1>10, InductionOnNat
  <2> QED
    BY <2>1
<1>12. rest \in [0 .. k -> Int]
  BY <1>7, <1>11
<1>13. rest[0] = n
  BY <1>8
<1>14. \A i \in 1 .. k : rest[i] = rest[i - 1] \div base
  BY <1>8
<1> QED
  BY <1>6, <1>12, <1>13, <1>14

(* The digits h[p] .. h[last] of a number, each the remainder of the next.   *)
LEMMA NumberIs ==
    ASSUME NEW b, NEW p \in Int, NEW last \in Int, p <= last, NEW base, NEW top, NEW h,
           \A i \in p .. last :
              h[i] = IF i = last THEN top ELSE (b[i] % base) + (base * h[i + 1])
    PROVE  Number(b, p, last, base, top) = h[p]
<1> DEFINE Digit(i, f) == IF i = last THEN top ELSE (b[i] % base) + (base * f[i + 1])
           Rec(f) == f = [i \in p .. last |-> Digit(i, f)]
           bits == CHOOSE f : Rec(f)
           here == [i \in p .. last |-> h[i]]
<1>1. Rec(here)
  <2>1. ASSUME NEW i \in p .. last PROVE h[i] = Digit(i, here)
    <3>1. CASE i = last
      BY <3>1
    <3>2. CASE i # last
      <4>1. i + 1 \in p .. last
        BY <3>2
      <4>2. here[i + 1] = h[i + 1]
        BY <4>1
      <4> HIDE DEF here
      <4> QED
        BY <3>2, <4>2
    <3> QED
      BY <3>1, <3>2
  <2> HIDE DEF Digit
  <2> QED
    BY <2>1
<1>2. Number(b, p, last, base, top) = bits[p]
  BY DEF Number
<1> HIDE DEF Rec
<1>3. Rec(bits)
  BY <1>1
<1> HIDE DEF bits
<1>4. \A i \in p .. last : bits[i] = Digit(i, bits)
  BY <1>3 DEF Rec
<1> DEFINE Same == {m \in Nat : m <= last - p => bits[last - m] = h[last - m]}
<1>5. 0 \in Same
  <2>1. last \in p .. last /\ last - 0 = last
    OBVIOUS
  <2> QED
    BY <1>4, <2>1
<1>6. ASSUME NEW m \in Nat, m \in Same PROVE m + 1 \in Same
  <2> SUFFICES ASSUME m + 1 <= last - p PROVE bits[last - (m + 1)] = h[last - (m + 1)]
    OBVIOUS
  <2> DEFINE i == last - (m + 1)
  <2>1. i \in p .. last /\ i # last /\ i + 1 = last - m
    OBVIOUS
  <2>2. bits[last - m] = h[last - m]
    BY <1>6
  <2> HIDE DEF i
  <2>3. bits[i] = (b[i] % base) + (base * bits[i + 1])
    BY <1>4, <2>1
  <2>4. h[i] = (b[i] % base) + (base * h[i + 1])
    BY <2>1
  <2>5. bits[i] = h[i]
    BY <2>1, <2>2, <2>3, <2>4
  <2> QED
    BY <2>5 DEF i
<1>7. bits[p] = h[p]
  <2>1. Nat \subseteq Same
    <3> HIDE DEF Same
    <3> QED
      BY <1>5, <1>6, InductionOnNat
  <2>2. last - p \in Nat /\ last - (last - p) = p
    OBVIOUS
  <2>3. last - p \in Same
    BY <2>1, <2>2
  <2> QED
    BY <2>2, <2>3
<1> QED
  BY <1>2, <1>7
(* The least of a set of numbers. *)
LEMMA MinIs ==
    ASSUME NEW S, S \subseteq Nat, S # {}
    PROVE  Min(S) \in S /\ \A s \in S : Min(S) <= s
<1> DEFINE Least(x) == \A y \in S : x <= y
           least == CHOOSE x \in S : Least(x)
<1>1. \E x \in S : Least(x)
  BY LeastNumber
<1>2. Min(S) = least
  BY DEF Min
<1> HIDE DEF Least
<1>3. least \in S /\ Least(least)
  BY <1>1
<1> QED
  BY <1>2, <1>3 DEF Least

LEMMA UnzigzagZigzag ==
    ASSUME NEW n \in Int
    PROVE  Zigzag(n) \in Nat /\ Unzigzag(Zigzag(n)) = n
<1>1. CASE n < 0
  <2>1. Zigzag(n) = 2 * (-n - 1) + 1 /\ -n - 1 \in Nat
    BY <1>1 DEF Zigzag
  <2>2. Zigzag(n) % 2 = 1 /\ Zigzag(n) \div 2 = -n - 1
    BY <2>1
  <2> QED
    BY <2>1, <2>2 DEF Unzigzag
<1>2. CASE n >= 0
  <2>1. Zigzag(n) = 2 * n
    BY <1>2 DEF Zigzag
  <2>2. Zigzag(n) % 2 = 0 /\ Zigzag(n) \div 2 = n
    BY <2>1
  <2> QED
    BY <1>2, <2>1, <2>2 DEF Unzigzag
<1> QED
  BY <1>1, <1>2

(* Shifted by Group, a number that is not 0 gets smaller. *)
LEMMA ShiftShrinks ==
    ASSUME NEW x \in Nat
    PROVE  x \div Group \in Nat /\ (x > 0 => x \div Group < x)
           /\ (x \div Group = 0 => x < Group /\ x % Group = x)
<1> DEFINE q == x \div Group
           r == x % Group
<1>1. q \in Int /\ r \in 0 .. Group - 1 /\ x = (Group * q) + r
  BY GroupFacts, DivisionOfInt
<1> HIDE DEF q, r
<1>2. q >= 0
  <2> SUFFICES ASSUME q <= -1 PROVE FALSE
    BY <1>1
  <2>1. Group * q <= -Group
    BY <1>1, GroupFacts
  <2> QED
    BY <1>1, <2>1, GroupFacts
<1>3. ASSUME x > 0 PROVE q < x
  <2>1. CASE q = 0
    BY <1>3, <2>1
  <2>2. CASE q > 0
    <3>1. Group * q >= 2 * q
      BY <1>1, <2>2, GroupFacts
    <3> QED
      BY <1>1, <2>2, <3>1, GroupFacts
  <2> QED
    BY <1>1, <1>2, <2>1, <2>2
<1>4. q = 0 => x < Group /\ r = x
  BY <1>1, GroupFacts
<1> QED
  BY <1>1, <1>2, <1>3, <1>4 DEF q, r

(* What write_long makes of the number z: the digits of z, low ones first. *)
LEMMA DigitsOf ==
    ASSUME NEW z \in Nat, NEW rest, rest = Shifts(z, Group, z + 1)
    PROVE  /\ \A i \in 0 .. z + 1 : rest[i] \in Nat
           /\ \E k \in 1 .. z + 1 : rest[k] = 0 /\ \A j \in 1 .. k - 1 : rest[j] # 0
<1>1. /\ rest \in [0 .. z + 1 -> Int] /\ rest[0] = z
      /\ \A i \in 1 .. z + 1 : rest[i] = rest[i - 1] \div Group
  <2>1. z \in Int /\ z + 1 \in Nat /\ Group \in Nat \ {0}
    BY GroupFacts
  <2>2. /\ Shifts(z, Group, z + 1) \in [0 .. z + 1 -> Int]
        /\ Shifts(z, Group, z + 1)[0] = z
        /\ \A i \in 1 .. z + 1 :
              Shifts(z, Group, z + 1)[i] = Shifts(z, Group, z + 1)[i - 1] \div Group
    <3> HIDE DEF Shifts
    <3> QED
      BY <2>1, ShiftsAre, Zenon
  <2> QED
    BY <2>2
<1> DEFINE Down == {i \in Nat : i <= z + 1 =>
                       rest[i] \in Nat /\ (rest[i] = 0 \/ rest[i] <= z - i)}
<1>2. 0 \in Down
  BY <1>1
<1>3. ASSUME NEW i \in Nat, i \in Down PROVE i + 1 \in Down
  <2> SUFFICES ASSUME i + 1 <= z + 1
               PROVE  rest[i + 1] \in Nat /\ (rest[i + 1] = 0 \/ rest[i + 1] <= z - (i + 1))
    OBVIOUS
  <2>1. rest[i] \in Nat /\ (rest[i] = 0 \/ rest[i] <= z - i)
    BY <1>3
  <2>2. rest[i + 1] = rest[i] \div Group
    BY <1>1
  <2> DEFINE x == rest[i]
  <2>3. x \div Group \in Nat /\ (x > 0 => x \div Group < x)
    BY <2>1, ShiftShrinks
  <2>4. x = 0 => x \div Group = 0
    <3> SUFFICES ASSUME x = 0 PROVE 0 \div Group = 0
      OBVIOUS
    <3> HIDE DEF x
    <3> QED
      BY GroupFacts
  <2> HIDE DEF x
  <2>5. rest[i + 1] = x \div Group /\ x \in Nat /\ (x = 0 \/ x <= z - i)
    BY <2>1, <2>2 DEF x
  <2> QED
    BY <2>3, <2>4, <2>5
<1>4. \A i \in 0 .. z + 1 : rest[i] \in Nat /\ (rest[i] = 0 \/ rest[i] <= z - i)
  <2> HIDE DEF Down
  <2>1. Nat \subseteq Down
    BY <1>2, <1>3, InductionOnNat
  <2> QED
    BY <2>1 DEF Down
<1> DEFINE zeros == {k \in 1 .. z + 1 : rest[k] = 0}
<1>5. z + 1 \in zeros
  <2>1. z + 1 \in 0 .. z + 1
    OBVIOUS
  <2>2. rest[z + 1] = 0 \/ (rest[z + 1] \in Nat /\ rest[z + 1] <= z - (z + 1))
    BY <1>4, <2>1
  <2> QED
    BY <2>2
<1>6. PICK k \in zeros : \A m \in zeros : k <= m
  <2>1. zeros \subseteq Nat /\ zeros # {}
    BY <1>5
  <2> HIDE DEF zeros
  <2> QED
    BY <2>1, LeastNumber
<1>7. ASSUME NEW j \in 1 .. k - 1 PROVE rest[j] # 0
  <2> SUFFICES ASSUME rest[j] = 0 PROVE FALSE
    OBVIOUS
  <2>1. k \in 1 .. z + 1
    BY <1>6
  <2>2. j \in zeros /\ j < k
    BY <2>1
  <2> QED
    BY <1>6, <2>1, <2>2
<1> QED
  BY <1>4, <1>6, <1>7
LEMMA LongWritten ==
    ASSUME NEW n \in Int
    PROVE  /\ WriteLong(n) \in Seq(Bytes) /\ Len(WriteLong(n)) > 0
           /\ \E rest :
                /\ rest[0] = Zigzag(n)
                /\ \A i \in 0 .. Len(WriteLong(n)) - 1 : rest[i] \in Nat
                /\ \A i \in 1 .. Len(WriteLong(n)) - 1 :
                      /\ WriteLong(n)[i] = (rest[i - 1] % Group) + Group
                      /\ rest[i] = rest[i - 1] \div Group
                /\ WriteLong(n)[Len(WriteLong(n))] = rest[Len(WriteLong(n)) - 1]
                /\ rest[Len(WriteLong(n)) - 1] < Group
<1> DEFINE z == Zigzag(n)
           rest == Shifts(z, Group, z + 1)
           Ends(k) == rest[k] = 0 /\ \A j \in 1 .. k - 1 : rest[j] # 0
           len == CHOOSE k \in 1 .. z + 1 : Ends(k)
           w == [i \in 1 .. len |-> (rest[i - 1] % Group) + IF i < len THEN Group ELSE 0]
<1>1. z \in Nat
  BY UnzigzagZigzag
<1>2. WriteLong(n) = w
  BY DEF WriteLong
<1> HIDE DEF z
<1>3. /\ rest[0] = z
      /\ \A i \in 1 .. z + 1 : rest[i] = rest[i - 1] \div Group
  <2>1. z \in Int /\ z + 1 \in Nat /\ Group \in Nat \ {0}
    BY <1>1, GroupFacts
  <2> HIDE DEF rest
  <2>2. rest = Shifts(z, Group, z + 1)
    BY DEF rest
  <2>3. /\ Shifts(z, Group, z + 1)[0] = z
        /\ \A i \in 1 .. z + 1 :
              Shifts(z, Group, z + 1)[i] = Shifts(z, Group, z + 1)[i - 1] \div Group
    BY <2>1, ShiftsAre, Zenon
  <2> QED
    BY <2>2, <2>3
<1>4. (\A i \in 0 .. z + 1 : rest[i] \in Nat) /\ \E k \in 1 .. z + 1 : Ends(k)
  <2> HIDE DEF rest
  <2>1. rest = Shifts(z, Group, z + 1)
    BY DEF rest
  <2> QED
    BY <1>1, <2>1, DigitsOf
<1> HIDE DEF rest, Ends
<1>5. len \in 1 .. z + 1 /\ Ends(len)
  BY <1>4
<1> HIDE DEF len
<1>6. \A i \in 1 .. len : i - 1 \in 0 .. z + 1 /\ rest[i - 1] \in Nat
  BY <1>1, <1>4, <1>5
<1>7. \A i \in 1 .. len : rest[i - 1] % Group \in 0 .. Group - 1
  <2> TAKE i \in 1 .. len
  <2> DEFINE x == rest[i - 1]
  <2>1. x \in Nat
    BY <1>6
  <2>2. x \in Int /\ Group \in Nat \ {0}
    BY <2>1, GroupFacts
  <2> HIDE DEF x
  <2>3. x % Group \in 0 .. Group - 1
    BY <2>2, DivisionOfInt, Zenon
  <2> QED
    BY <2>3 DEF x
<1>8. w \in Seq(Bytes) /\ Len(w) = len
  <2>1. ASSUME NEW i \in 1 .. len
        PROVE  (rest[i - 1] % Group) + (IF i < len THEN Group ELSE 0) \in Bytes
    <3> DEFINE r == rest[i - 1] % Group
    <3>1. r \in 0 .. Group - 1
      BY <1>7
    <3> HIDE DEF r
    <3>2. r \in Bytes /\ r + Group \in Bytes /\ r + 0 = r
      BY <3>1, GroupFacts DEF Bytes, BYTE
    <3>3. r + (IF i < len THEN Group ELSE 0) \in Bytes
      BY <3>2
    <3> QED
      BY <3>3 DEF r
  <2>2. len \in Nat
    BY <1>1, <1>5
  <2>3. w \in [1 .. len -> Bytes]
    BY <2>1
  <2> HIDE DEF w, Bytes
  <2> QED
    BY <2>2, <2>3, LenProperties
<1>9. /\ \A i \in 0 .. len - 1 : rest[i] \in Nat
      /\ \A i \in 1 .. len - 1 : rest[i] = rest[i - 1] \div Group
  BY <1>1, <1>3, <1>4, <1>5
<1>10. \A i \in 1 .. len - 1 : w[i] = (rest[i - 1] % Group) + Group
  BY <1>1, <1>5
<1>11. w[len] = rest[len - 1] /\ rest[len - 1] < Group
  <2> DEFINE x == rest[len - 1]
  <2>1. len \in 1 .. len
    BY <1>1, <1>5
  <2>2. x \in Nat /\ x \div Group = 0
    BY <1>3, <1>5, <1>6, <2>1 DEF Ends
  <2>3. w[len] = (x % Group) + 0
    BY <2>1
  <2> HIDE DEF x, w
  <2>4. x < Group /\ x % Group = x
    BY <2>2, ShiftShrinks
  <2>5. w[len] = x
    BY <2>2, <2>3, <2>4
  <2> QED
    BY <2>4, <2>5 DEF x
<1> HIDE DEF w
<1>12. len > 0
  BY <1>1, <1>5
<1>13. rest[0] = Zigzag(n)
  BY <1>3 DEF z
<1>14. /\ \A i \in 0 .. Len(w) - 1 : rest[i] \in Nat
       /\ \A i \in 1 .. Len(w) - 1 :
              w[i] = (rest[i - 1] % Group) + Group /\ rest[i] = rest[i - 1] \div Group
       /\ w[Len(w)] = rest[Len(w) - 1] /\ rest[Len(w) - 1] < Group
  BY <1>8, <1>9, <1>10, <1>11
<1> QED
  BY <1>2, <1>8, <1>12, <1>13, <1>14, Zenon

(* read_long (io.py:178) returns the number that write_long (io.py:299)      *)
(* wrote and stops behind it, whatever comes before and after, for a number  *)
(* of any size and either sign.                                              *)
THEOREM LongsAreRead ==
    ASSUME NEW n \in Int, NEW b \in Seq(Bytes), NEW p \in Nat \ {0},
           Holds(b, p, WriteLong(n))
    PROVE  ReadLong(b, p) = Got(n, p + Len(WriteLong(n)))
<1> DEFINE w == WriteLong(n)
           len == Len(w)
           last == p + len - 1
           lasts == {i \in p .. Len(b) : b[i] < Group}
<1>1. w \in Seq(Bytes) /\ len \in Nat /\ len > 0
  BY LongWritten, LenProperties
<1>2. Holds(b, p, w)
  OBVIOUS
<1>3. PICK rest : /\ rest[0] = Zigzag(n)
                  /\ \A i \in 0 .. len - 1 : rest[i] \in Nat
                  /\ \A i \in 1 .. len - 1 :
                        w[i] = (rest[i - 1] % Group) + Group /\ rest[i] = rest[i - 1] \div Group
                  /\ w[len] = rest[len - 1] /\ rest[len - 1] < Group
  <2> HIDE DEF Holds
  <2> QED
    BY LongWritten, Zenon
<1> HIDE DEF w
<1>4. last \in Nat /\ p <= last /\ last <= Len(b) /\ Len(b) \in Nat
      /\ \A i \in 1 .. len : b[p + i - 1] = w[i]
  BY <1>1, <1>2, LenProperties DEF Holds
<1> HIDE DEF len
<1>5. ASSUME NEW i \in p .. last
      PROVE  /\ i - p \in 0 .. len - 1 /\ rest[i - p] \in Nat
             /\ b[i] = w[(i - p) + 1]
  <2>1. i - p \in 0 .. len - 1 /\ (i - p) + 1 \in 1 .. len /\ p + ((i - p) + 1) - 1 = i
    BY <1>1, <1>4
  <2> QED
    BY <1>3, <1>4, <2>1
<1>6. b[last] = rest[len - 1] /\ b[last] < Group
  <2>1. last \in p .. last /\ (last - p) + 1 = len
    BY <1>1, <1>4
  <2> HIDE DEF last
  <2>2. b[last] = w[len]
    BY <1>5, <2>1
  <2> QED
    BY <1>3, <2>2
<1>7. ASSUME NEW i \in p .. last, i # last
      PROVE  /\ b[i] = (rest[i - p] % Group) + Group
             /\ rest[i - p] = (b[i] % Group) + (Group * rest[(i + 1) - p])
             /\ ~ (b[i] < Group)
  <2> DEFINE j == i - p
             x == rest[j]
             y == x \div Group
             r == x % Group
  <2>1. j + 1 \in 1 .. len - 1 /\ (j + 1) - 1 = j /\ (i + 1) - p = j + 1
    BY <1>1, <1>4, <1>7
  <2>2. b[i] = w[j + 1] /\ x \in Nat
    BY <1>5
  <2> HIDE DEF j
  <2>3. b[i] = r + Group /\ rest[j + 1] = y
    BY <1>3, <2>1, <2>2
  <2>4. x = (Group * y) + r /\ y \in Int /\ r \in 0 .. Group - 1
    <3>1. x \in Int /\ Group \in Nat \ {0}
      BY <2>2, GroupFacts
    <3> HIDE DEF x
    <3> QED
      BY <3>1, DivisionOfInt, Zenon
  <2> HIDE DEF x, y, r
  <2>5. (r + Group) % Group = r
    BY <2>4, GroupFacts
  <2>6. Group * y \in Int
    BY <2>4, GroupFacts
  <2>7. x = (b[i] % Group) + (Group * rest[j + 1])
    BY <2>3, <2>4, <2>5, <2>6
  <2>8. ~ (b[i] < Group)
    BY <2>3, <2>4, GroupFacts
  <2> QED
    BY <2>1, <2>3, <2>7, <2>8 DEF j, x, r
<1>8. Min(lasts) = last /\ lasts # {}
  <2>1. last \in lasts /\ lasts \subseteq Nat
    BY <1>4, <1>6
  <2>2. Min(lasts) \in lasts /\ Min(lasts) <= last
    <3> HIDE DEF lasts, last
    <3> QED
      BY <2>1, MinIs
  <2> DEFINE m == Min(lasts)
  <2> HIDE DEF m
  <2>3. m \in p .. Len(b) /\ b[m] < Group /\ m <= last
    BY <2>2 DEF m
  <2>4. m \in p .. last
    BY <1>4, <2>3
  <2>5. m = last
    BY <1>7, <2>3, <2>4
  <2> QED
    BY <2>1, <2>5 DEF m
<1> DEFINE h == [i \in p .. last |-> rest[i - p]]
           N == Number(b, p, last, Group, b[last])
<1>9. N = Zigzag(n)
  <2>1. ASSUME NEW i \in p .. last
        PROVE  h[i] = IF i = last THEN b[last] ELSE (b[i] % Group) + (Group * h[i + 1])
    <3>1. h[i] = rest[i - p]
      OBVIOUS
    <3>2. CASE i = last
      <4>1. last - p = len - 1
        BY <1>1, <1>4
      <4> HIDE DEF last, h
      <4> QED
        BY <1>6, <3>1, <3>2, <4>1
    <3>3. CASE i # last
      <4>1. i + 1 \in p .. last
        BY <1>4, <3>3
      <4>2. h[i + 1] = rest[(i + 1) - p]
        BY <4>1
      <4> HIDE DEF h, last
      <4>3. rest[i - p] = (b[i] % Group) + (Group * rest[(i + 1) - p])
        BY <1>7, <3>3
      <4> QED
        BY <3>1, <3>3, <4>2, <4>3
    <3> QED
      BY <3>2, <3>3
  <2>2. p \in p .. last /\ p - p = 0
    BY <1>4
  <2>3. h[p] = Zigzag(n)
    BY <1>3, <2>2
  <2> HIDE DEF h, last
  <2>4. N = h[p]
    BY <1>4, <2>1, <2>2, NumberIs
  <2> QED
    BY <2>3, <2>4
<1> HIDE DEF lasts, N, last
<1>10. ReadLong(b, p) = Got(Unzigzag(N), last + 1)
  BY <1>8 DEF ReadLong, lasts, N
<1>11. last + 1 = p + Len(WriteLong(n))
  BY <1>1, <1>4 DEF last, len, w
<1> QED
  BY <1>9, <1>10, <1>11, UnzigzagZigzag
(* read_long raises on a long that the end of the input cuts short, wherever *)
(* it does: it never takes the bytes that are there for another number.      *)
THEOREM CutLongRaises ==
    ASSUME NEW n \in Int, NEW b \in Seq(Bytes), NEW p \in Nat \ {0},
           p + Len(WriteLong(n)) - 1 > Len(b),
           \A i \in p .. Len(b) : b[i] = WriteLong(n)[i - p + 1]
    PROVE  ReadLong(b, p) = Raised
<1> DEFINE w == WriteLong(n)
           len == Len(w)
           lasts == {i \in p .. Len(b) : b[i] < Group}
<1>1. w \in Seq(Bytes) /\ len \in Nat /\ len > 0 /\ Len(b) \in Nat
  BY LongWritten, LenProperties
<1>2. PICK rest : /\ \A i \in 0 .. len - 1 : rest[i] \in Nat
                  /\ \A i \in 1 .. len - 1 : w[i] = (rest[i - 1] % Group) + Group
  BY LongWritten, Zenon
<1> HIDE DEF w
<1>3. p + len - 1 > Len(b) /\ \A i \in p .. Len(b) : b[i] = w[i - p + 1]
  BY DEF w
<1> HIDE DEF len
<1>4. ASSUME NEW i \in p .. Len(b) PROVE ~ (b[i] < Group)
  <2> DEFINE j == i - p + 1
             x == rest[j - 1]
             r == x % Group
  <2>1. j \in 1 .. len - 1 /\ j - 1 \in 0 .. len - 1
    BY <1>1, <1>3
  <2>2. b[i] = w[j]
    BY <1>3
  <2> HIDE DEF j
  <2>3. b[i] = r + Group
    BY <1>2, <2>1, <2>2
  <2>4. x \in Int /\ Group \in Nat \ {0}
    BY <1>2, <2>1, GroupFacts
  <2> HIDE DEF x
  <2>5. r \in 0 .. Group - 1
    BY <2>4, DivisionOfInt
  <2> HIDE DEF r
  <2> QED
    BY <2>3, <2>5, GroupFacts
<1>5. lasts = {}
  BY <1>4
<1> QED
  BY <1>5 DEF ReadLong

(* read_float and read_double (io.py:192) return what write_float and        *)
(* write_double (io.py:309) wrote, if the bytes have room for it: what the   *)
(* shifts leave for the highest one is a byte with a sign.                   *)
THEOREM BitsAreRead ==
    ASSUME NEW n \in Int, NEW size \in Nat \ {0}, NEW b \in Seq(Bytes), NEW p \in Nat \ {0},
           Shifts(n, BYTE, size)[size - 1] \in -Group .. Group - 1,
           Holds(b, p, WriteBits(n, size))
    PROVE  ReadBits(b, p, size) = Got(n, p + size)
<1> DEFINE rest == Shifts(n, BYTE, size)
           w == WriteBits(n, size)
           last == p + size - 1
           top == IF b[last] < Group THEN b[last] ELSE b[last] - BYTE
<1>1. /\ rest \in [0 .. size -> Int] /\ rest[0] = n
      /\ \A i \in 1 .. size : rest[i] = rest[i - 1] \div BYTE
  <2> HIDE DEF rest
  <2>1. BYTE \in Nat \ {0} /\ size \in Nat /\ rest = Shifts(n, BYTE, size)
    BY GroupFacts DEF rest
  <2>2. /\ Shifts(n, BYTE, size) \in [0 .. size -> Int] /\ Shifts(n, BYTE, size)[0] = n
        /\ \A i \in 1 .. size :
              Shifts(n, BYTE, size)[i] = Shifts(n, BYTE, size)[i - 1] \div BYTE
    BY <2>1, ShiftsAre, Zenon
  <2> QED
    BY <2>1, <2>2
<1>2. rest[size - 1] \in -Group .. Group - 1
  OBVIOUS
<1> HIDE DEF rest
<1>3. w = [i \in 1 .. size |-> rest[i - 1] % BYTE]
  BY DEF WriteBits, rest
<1>4. Len(w) = size
  BY <1>3
<1>5. last <= Len(b) /\ \A i \in 1 .. size : b[p + i - 1] = w[i]
  BY <1>4 DEF Holds
<1> HIDE DEF w
<1>6. ASSUME NEW i \in p .. last
      PROVE  i - p \in 0 .. size /\ b[i] = rest[i - p] % BYTE
  <2>1. (i - p) + 1 \in 1 .. size /\ p + ((i - p) + 1) - 1 = i /\ ((i - p) + 1) - 1 = i - p
    OBVIOUS
  <2>2. b[i] = w[(i - p) + 1]
    BY <1>5, <2>1
  <2> QED
    BY <1>3, <2>1, <2>2
<1>7. top = rest[size - 1]
  <2> DEFINE s == rest[size - 1]
  <2>1. last \in p .. last /\ last - p = size - 1
    OBVIOUS
  <2>2. b[last] = s % BYTE
    BY <1>6, <2>1
  <2>3. s \in -Group .. Group - 1
    BY <1>2
  <2> HIDE DEF s, last
  <2>4. CASE s >= 0
    <3>1. s % BYTE = s
      BY <2>3, <2>4, GroupFacts DEF BYTE
    <3>2. b[last] < Group
      BY <2>2, <2>3, <3>1, GroupFacts
    <3> QED
      BY <2>2, <3>1, <3>2 DEF s
  <2>5. CASE s < 0
    <3>1. s % BYTE = s + BYTE
      BY <2>3, <2>5, GroupFacts DEF BYTE
    <3>2. ~ (b[last] < Group) /\ b[last] - BYTE = s
      BY <2>2, <2>3, <3>1, GroupFacts DEF BYTE
    <3> QED
      BY <3>2 DEF s
  <2>6. s \in Int /\ (s >= 0 \/ s < 0)
    BY <2>3, GroupFacts
  <2> QED
    BY <2>6, <2>4, <2>5
<1> HIDE DEF top
<1> DEFINE h == [i \in p .. last |-> rest[i - p]]
           N == Number(b, p, last, BYTE, top)
<1>8. N = n
  <2>1. ASSUME NEW i \in p .. last
        PROVE  h[i] = IF i = last THEN top ELSE (b[i] % BYTE) + (BYTE * h[i + 1])
    <3>1. h[i] = rest[i - p]
      OBVIOUS
    <3>2. CASE i = last
      <4>1. last - p = size - 1
        OBVIOUS
      <4> HIDE DEF last, h
      <4> QED
        BY <1>7, <3>1, <3>2, <4>1
    <3>3. CASE i # last
      <4> DEFINE x == rest[i - p]
                 y == x \div BYTE
                 r == x % BYTE
      <4>1. i + 1 \in p .. last /\ (i - p) + 1 \in 1 .. size
            /\ ((i - p) + 1) - 1 = i - p /\ (i + 1) - p = (i - p) + 1
        BY <3>3
      <4>2. h[i + 1] = rest[(i - p) + 1]
        BY <4>1
      <4> HIDE DEF h, last
      <4>3. rest[(i - p) + 1] = y /\ b[i] = r /\ x \in Int
        BY <1>1, <1>6, <4>1
      <4>4. BYTE \in Nat \ {0}
        BY GroupFacts
      <4> HIDE DEF x
      <4>5. x = (BYTE * y) + r /\ y \in Int /\ r \in 0 .. BYTE - 1
        BY <4>3, <4>4, DivisionOfInt, Zenon
      <4> HIDE DEF y, r
      <4>6. r % BYTE = r /\ BYTE * y \in Int
        BY <4>4, <4>5
      <4>7. x = (b[i] % BYTE) + (BYTE * h[i + 1])
        BY <4>2, <4>3, <4>5, <4>6
      <4> QED
        BY <3>1, <3>3, <4>7 DEF x
    <3> QED
      BY <3>2, <3>3
  <2>2. p \in p .. last /\ p - p = 0 /\ p <= last /\ p \in Int /\ last \in Int
    OBVIOUS
  <2>3. h[p] = n
    BY <1>1, <2>2
  <2> HIDE DEF h, last
  <2>4. N = h[p]
    BY <2>1, <2>2, NumberIs
  <2> QED
    BY <2>3, <2>4
<1>9. ReadBits(b, p, size) = Got(N, last + 1)
  <2>1. ~ (last > Len(b))
    BY <1>5, LenProperties
  <2> QED
    BY <2>1 DEF ReadBits, top
<1>10. last + 1 = p + size
  OBVIOUS
<1> QED
  BY <1>8, <1>9, <1>10
(* read_bytes (io.py:220) returns the bytes that write_bytes wrote and stops *)
(* behind them, whatever comes before and after.                             *)
THEOREM BytesAreRead ==
    ASSUME NEW s \in Seq(Bytes), NEW b \in Seq(Bytes), NEW p \in Nat \ {0},
           Holds(b, p, WriteBytes(s))
    PROVE  ReadBytes(b, p) = Got(s, p + Len(WriteBytes(s)))
<1> DEFINE n == Len(s)
           w == WriteLong(n)
           from == p + Len(w)
           all == WriteBytes(s)
<1>1. n \in Nat /\ n \in Int /\ Len(b) \in Nat
  BY LenProperties
<1>2. w \in Seq(Bytes) /\ Len(w) \in Nat /\ Len(w) > 0
  <2> HIDE DEF n
  <2> QED
    BY <1>1, LongWritten, LenProperties
<1>3. all = w \o s
  BY DEF WriteBytes
<1> HIDE DEF w
<1>4. /\ Len(all) = Len(w) + n
      /\ \A i \in 1 .. Len(w) + n : all[i] = IF i <= Len(w) THEN w[i] ELSE s[i - Len(w)]
  BY <1>2, <1>3, ConcatProperties
<1>5. p + Len(all) - 1 <= Len(b) /\ \A i \in 1 .. Len(all) : b[p + i - 1] = all[i]
  BY DEF Holds
<1> HIDE DEF all, n
<1>6. Holds(b, p, w)
  <2>1. p + Len(w) - 1 <= Len(b)
    BY <1>1, <1>2, <1>4, <1>5
  <2>2. ASSUME NEW i \in 1 .. Len(w) PROVE b[p + i - 1] = w[i]
    <3>1. i \in 1 .. Len(w) + n /\ i \in 1 .. Len(all) /\ i <= Len(w)
      BY <1>1, <1>2, <1>4
    <3> QED
      BY <1>4, <1>5, <3>1
  <2> QED
    BY <2>1, <2>2 DEF Holds
<1>7. ReadLong(b, p) = Got(n, from)
  BY <1>1, <1>6, LongsAreRead, Zenon DEF w
<1>8. from \in Nat /\ from > 0 /\ from + n <= Len(b) + 1
  BY <1>1, <1>2, <1>4, <1>5
<1>9. \A i \in 1 .. n : b[from + i - 1] = s[i]
  <2> TAKE i \in 1 .. n
  <2>1. /\ Len(w) + i \in 1 .. Len(w) + n /\ ~ (Len(w) + i <= Len(w))
        /\ (Len(w) + i) - Len(w) = i /\ p + (Len(w) + i) - 1 = from + i - 1
    BY <1>1, <1>2
  <2>2. all[Len(w) + i] = s[i]
    BY <1>4, <2>1
  <2> QED
    BY <1>4, <1>5, <2>1, <2>2
<1> HIDE DEF from
<1>10. SubSeq(b, from, from + n - 1) = s
  <2> DEFINE t == SubSeq(b, from, from + n - 1)
  <2>1. t = [i \in 1 .. n |-> b[from + i - 1]]
    <3>1. (from + n - 1) - from + 1 = n
      BY <1>1, <1>8
    <3>2. t = [i \in 1 .. ((from + n - 1) - from + 1) |-> b[from + i - 1]]
      BY <1>1, <1>8
    <3> QED
      BY <3>1, <3>2
  <2>2. s = [i \in 1 .. n |-> s[i]]
    BY LenProperties DEF n
  <2> HIDE DEF t
  <2>3. t = s
    BY <1>9, <2>1, <2>2
  <2> QED
    BY <2>3 DEF t
<1>11. EndOfRead(b, from, n) = from + n
  BY <1>1, <1>8 DEF EndOfRead
<1>12. ReadBytes(b, p) = Read(b, from, n)
  BY <1>7 DEF ReadBytes, Got
<1>13. Read(b, from, n) = Got(s, from + n)
  <2> DEFINE end == EndOfRead(b, from, n)
  <2>1. Read(b, from, n) = Got(SubSeq(b, from, end - 1), end)
    BY DEF Read
  <2>2. end = from + n
    BY <1>11
  <2> HIDE DEF end
  <2>3. end - 1 = from + n - 1
    BY <1>1, <1>8, <2>2
  <2>4. SubSeq(b, from, end - 1) = s
    BY <1>10, <2>3
  <2> QED
    BY <2>1, <2>2, <2>4
<1>14. from + n = p + Len(WriteBytes(s))
  BY <1>1, <1>2, <1>4 DEF all, from
<1> QED
  BY <1>12, <1>13, <1>14

(* The bytes of a long, whatever they are, add up to a number.               *)
LEMMA DigitsExist ==
    ASSUME NEW b \in Seq(Bytes), NEW p \in Nat \ {0}, NEW last \in p .. Len(b)
    PROVE  Number(b, p, last, Group, b[last]) \in Nat
<1> DEFINE Is(h, from) ==
              \A i \in from .. last :
                 h[i] = IF i = last THEN b[last] ELSE (b[i] % Group) + (Group * h[i + 1])
           From(from) == {h \in [from .. last -> Nat] : Is(h, from)}
           Good == {m \in Nat : m <= last - p => From(last - m) # {}}
<1>1. last \in Nat /\ p <= last /\ last <= Len(b) /\ Len(b) \in Nat
      /\ \A i \in p .. last : b[i] \in Nat
  <2>1. \A i \in 1 .. Len(b) : b[i] \in Bytes
    BY ElementOfSeq
  <2>2. Len(b) \in Nat
    BY LenProperties
  <2>3. \A x \in Bytes : x \in Nat
    BY GroupFacts DEF Bytes
  <2> HIDE DEF Bytes
  <2>4. \A i \in p .. last : i \in 1 .. Len(b)
    BY <2>2
  <2> QED
    BY <2>1, <2>2, <2>3, <2>4
<1>2. 0 \in Good
  <2> DEFINE h == [i \in last .. last |-> b[last]]
  <2>1. b[last] \in Nat
    BY <1>1
  <2>2. h \in [last .. last -> Nat] /\ Is(h, last)
    BY <1>1, <2>1
  <2>3. last - 0 = last
    BY <1>1
  <2> HIDE DEF h, Is
  <2> QED
    BY <2>2, <2>3
<1>3. ASSUME NEW m \in Nat, m \in Good PROVE m + 1 \in Good
  <2> DEFINE from == last - (m + 1)
  <2> HIDE DEF From
  <2> SUFFICES ASSUME m + 1 <= last - p PROVE From(from) # {}
    OBVIOUS
  <2> USE DEF From
  <2>1. from \in p .. last /\ from # last /\ from + 1 = last - m /\ from + 1 <= last
        /\ from \in Nat
    BY <1>1
  <2>2. PICK g \in [from + 1 .. last -> Nat] : Is(g, from + 1)
    <3>1. From(last - m) # {}
      BY <1>1, <1>3
    <3> QED
      BY <2>1, <3>1
  <2> HIDE DEF from
  <2> DEFINE first == (b[from] % Group) + (Group * g[from + 1])
             h == [i \in from .. last |-> IF i = from THEN first ELSE g[i]]
  <2>3. first \in Nat
    <3>1. b[from] \in Nat /\ g[from + 1] \in Nat
      BY <1>1, <2>1, <2>2
    <3> DEFINE x == b[from]
               y == g[from + 1]
    <3> HIDE DEF x, y
    <3>2. x % Group \in Nat
      BY <3>1, GroupFacts DEF x
    <3>3. Group * y \in Nat
      BY <3>1, GroupFacts DEF y
    <3> QED
      BY <3>2, <3>3 DEF x, y
  <2> HIDE DEF first
  <2>4. h \in [from .. last -> Nat]
    BY <1>1, <2>1, <2>2, <2>3
  <2>5. ASSUME NEW i \in from .. last
        PROVE  h[i] = IF i = last THEN b[last] ELSE (b[i] % Group) + (Group * h[i + 1])
    <3>1. CASE i = from
      <4>1. h[i] = first /\ h[i + 1] = g[from + 1] /\ i # last
        BY <1>1, <2>1, <3>1
      <4> QED
        BY <3>1, <4>1 DEF first
    <3>2. CASE i # from
      <4>1. i \in from + 1 .. last
        BY <1>1, <2>1, <3>2
      <4>2. h[i] = g[i] /\ (i # last => h[i + 1] = g[i + 1])
        BY <1>1, <2>1, <3>2
      <4> HIDE DEF h
      <4> QED
        BY <2>2, <4>1, <4>2
    <3> QED
      BY <3>1, <3>2
  <2> HIDE DEF h
  <2>6. Is(h, from)
    BY <2>5
  <2> HIDE DEF Is
  <2> QED
    BY <2>4, <2>6
<1>4. PICK h \in [p .. last -> Nat] : Is(h, p)
  <2>1. last - p \in Nat /\ last - (last - p) = p
    BY <1>1
  <2> HIDE DEF From
  <2>2. Nat \subseteq Good
    <3> HIDE DEF Good
    <3> QED
      BY <1>2, <1>3, InductionOnNat
  <2>3. last - p \in Good
    BY <2>1, <2>2
  <2>4. From(last - (last - p)) # {}
    BY <2>1, <2>3
  <2>5. From(p) # {}
    BY <2>1, <2>4
  <2> QED
    BY <2>5 DEF From
<1>5. Number(b, p, last, Group, b[last]) = h[p]
  <2>1. p \in Int /\ last \in Int /\ p <= last
    BY <1>1
  <2> DEFINE top == b[last]
             g == h
  <2>2. \A i \in p .. last :
           g[i] = IF i = last THEN top ELSE (b[i] % Group) + (Group * g[i + 1])
    BY <1>4
  <2> HIDE DEF top, g
  <2>3. Number(b, p, last, Group, top) = g[p]
    BY <2>1, <2>2, NumberIs
  <2> QED
    BY <2>3 DEF top, g
<1>6. p \in p .. last
  BY <1>1
<1> QED
  BY <1>4, <1>5, <1>6

(* Of any bytes at all, a read_long or read_bytes that does not raise leaves *)
(* a position behind the one it started at, and at most the one after the    *)
(* end, a negative length and one beyond the end included.                   *)
THEOREM ReadsMoveOn ==
    ASSUME NEW b \in Seq(Bytes), NEW p \in Nat \ {0}, p <= Len(b) + 1
    PROVE  /\ ReadLong(b, p).ok =>
                 ReadLong(b, p).v \in Int /\ ReadLong(b, p).p \in p + 1 .. Len(b) + 1
           /\ ReadBytes(b, p).ok =>
                 ReadBytes(b, p).v \in Seq(Bytes) /\ ReadBytes(b, p).p \in p + 1 .. Len(b) + 1
<1> DEFINE lasts == {i \in p .. Len(b) : b[i] < Group}
           last == Min(lasts)
           N == Number(b, p, last, Group, b[last])
           r == ReadLong(b, p)
<1>1. Len(b) \in Nat
  BY LenProperties
<1>2. CASE lasts = {}
  <2>1. ReadLong(b, p) = [ok |-> FALSE]
    BY <1>2 DEF ReadLong, Raised
  <2>2. ReadBytes(b, p) = [ok |-> FALSE]
    BY <2>1 DEF ReadBytes, Raised
  <2> QED
    BY <2>1, <2>2
<1>3. CASE lasts # {}
  <2>1. last \in p .. Len(b)
    <3>1. lasts \subseteq Nat
      BY <1>1
    <3> HIDE DEF lasts
    <3>2. last \in lasts
      BY <1>3, <3>1, MinIs
    <3> QED
      BY <3>2 DEF lasts
  <2>2. ReadLong(b, p) = Got(Unzigzag(N), last + 1)
    BY <1>3 DEF ReadLong
  <2> HIDE DEF lasts, last
  <2>3. N \in Nat
    BY <2>1, DigitsExist
  <2> HIDE DEF N
  <2> DEFINE v == Unzigzag(N)
             from == last + 1
  <2>4. v \in Int
    BY <2>3 DEF Unzigzag
  <2> HIDE DEF v
  <2>5. r = [ok |-> TRUE, v |-> v, p |-> from]
    BY <2>2 DEF Got, v
  <2>6. from \in p + 1 .. Len(b) + 1 /\ from \in Nat /\ from > 0
    BY <1>1, <2>1
  <2> HIDE DEF from, r
  <2>7. r.ok /\ r.v = v /\ r.p = from
    BY <2>5
  <2> DEFINE end == EndOfRead(b, from, v)
             taken == SubSeq(b, from, end - 1)
  <2>8. end \in from .. Len(b) + 1
    BY <1>1, <2>4, <2>6 DEF EndOfRead
  <2>9. ReadBytes(b, p) = [ok |-> TRUE, v |-> taken, p |-> end]
    BY <2>7 DEF ReadBytes, r, Read, Got
  <2> HIDE DEF end
  <2>10. taken \in Seq(Bytes)
    <3>1. \A i \in from .. end - 1 : i \in 1 .. Len(b)
      BY <1>1, <2>6, <2>8
    <3>2. from \in Int /\ end - 1 \in Int /\ \A i \in from .. end - 1 : b[i] \in Bytes
      BY <1>1, <2>6, <2>8, <3>1, ElementOfSeq
    <3> HIDE DEF Bytes
    <3> QED
      BY <3>2, SubSeqProperties
  <2> HIDE DEF taken
  <2>11. end \in p + 1 .. Len(b) + 1
    BY <1>1, <2>6, <2>8
  <2> QED
    BY <2>4, <2>6, <2>7, <2>9, <2>10, <2>11 DEF r
<1> QED
  BY <1>2, <1>3
=============================================================================

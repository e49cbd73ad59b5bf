--------------------------- MODULE DownloadSafety ---------------------------
(***************************************************************************)
(* What a download returns, proved for every body, every number of data    *)
(* and parity shards and every chunk size: a complete download is never    *)
(* wrong while every shard is in place, the object's own bytes come first  *)
(* in what Decode returns, and a range of a full stripe is exact.          *)
(*                                                                         *)
(* Decode concatenates by recursion, so the facts about it are proved by   *)
(* induction on the number of pieces.  The values of the parity bytes are  *)
(* never needed, only their number.                                        *)
(***************************************************************************)
EXTENDS Download, SequenceTheorems, FiniteSetTheorems, NaturalsInduction,
        WellFoundedInduction, TLAPS

(* Induction on a set of numbers. *)

LEMMA Induction ==
    ASSUME NEW S, 0 \in S, \A n \in Nat : n \in S => n + 1 \in S
    PROVE  Nat \subseteq S
<1> DEFINE T == Nat \ S
<1>1. SUFFICES ASSUME T # {} PROVE FALSE
  OBVIOUS
<1>2. PICK m \in T : \A y \in T : ~(<<y, m>> \in OpToRel(<, Nat))
  BY <1>1, WFMin, NatLessThanWellFounded, Zenon
<1>3. \A y \in T : ~(y < m)
  BY <1>2 DEF OpToRel
<1>4. m \in Nat /\ m \notin S /\ m # 0
  OBVIOUS
<1>5. m - 1 \in Nat /\ m - 1 < m
  BY <1>4
<1>6. m - 1 \in S
  BY <1>3, <1>5
<1>7. (m - 1) + 1 \in S
  BY <1>5, <1>6
<1>8. (m - 1) + 1 = m
  BY <1>4
<1> QED
  BY <1>4, <1>7, <1>8

-----------------------------------------------------------------------------
(* Concatenating pieces *)

\* f[i] is the concatenation of the first i of the m pieces of P.
Concatenates(f, P, m) ==
    f = [i \in 1 .. m |-> IF i = 1 THEN P[i] ELSE f[i - 1] \o P[i]]

LEMMA ConcatenationExists ==
    ASSUME NEW P
    PROVE  \A m \in Nat : \E f : Concatenates(f, P, m)
<1> DEFINE Good == {m \in Nat : \E f : Concatenates(f, P, m)}
<1>1. 0 \in Good
  <2> DEFINE f == [i \in 1 .. 0 |-> 0]
  <2>1. Concatenates(f, P, 0)
    BY 1 .. 0 = {} DEF Concatenates
  <2> QED
    BY <2>1
<1>2. ASSUME NEW n \in Nat, n \in Good PROVE n + 1 \in Good
  <2>1. PICK f : Concatenates(f, P, n)
    BY <1>2
  <2> DEFINE x == IF n = 0 THEN P[1] ELSE f[n] \o P[n + 1]
  <2> DEFINE g == [i \in 1 .. n + 1 |-> IF i = n + 1 THEN x ELSE f[i]]
  <2> HIDE DEF x
  <2>2. ASSUME NEW i \in 1 .. n + 1
        PROVE  g[i] = IF i = 1 THEN P[i] ELSE g[i - 1] \o P[i]
    <3>1. CASE i \in 1 .. n
      <4>1. f[i] = IF i = 1 THEN P[i] ELSE f[i - 1] \o P[i]
        BY <2>1, <3>1, Zenon DEF Concatenates
      <4>2. g[i] = f[i] /\ (i # 1 => i - 1 \in 1 .. n /\ g[i - 1] = f[i - 1])
        BY <3>1
      <4> QED
        BY <4>1, <4>2
    <3>2. CASE i = n + 1
      <4>1. g[i] = x /\ (i # 1 => g[i - 1] = f[i - 1] /\ i - 1 = n)
        BY <3>2
      <4> QED
        BY <4>1, <3>2 DEF x
    <3> QED
      BY <3>1, <3>2
  <2>3. Concatenates(g, P, n + 1)
    <3>1. g = [i \in 1 .. n + 1 |-> g[i]]
      OBVIOUS
    <3> HIDE DEF g
    <3> QED
      BY <2>2, <3>1 DEF Concatenates
  <2> QED
    BY <2>3
<1> HIDE DEF Good
<1>3. Nat \subseteq Good
  BY <1>1, <1>2, Induction
<1> QED
  BY <1>3 DEF Good

LEMMA FlattenSeqValue ==
    ASSUME NEW P, NEW n \in Nat, n # 0, Len(P) = n
    PROVE  \E f : Concatenates(f, P, n) /\ FlattenSeq(P) = f[n]
<1> DEFINE f == CHOOSE g : Concatenates(g, P, n)
<1>1. Concatenates(f, P, n)
  BY ConcatenationExists
<1>2. FlattenSeq(P) = f[n]
  BY Zenon DEF Concatenates, FlattenSeq
<1> QED
  BY <1>1, <1>2

\* One step of the concatenation.
LEMMA ConcatenationStep ==
    ASSUME NEW f, NEW P, NEW n \in Nat, Concatenates(f, P, n)
    PROVE  /\ n # 0 => f[1] = P[1]
           /\ \A i \in 1 .. n :
                 i + 1 \in 1 .. n => f[i + 1] = f[i] \o P[i + 1]
<1>1. \A i \in 1 .. n : f[i] = IF i = 1 THEN P[i] ELSE f[i - 1] \o P[i]
  BY Zenon DEF Concatenates
<1>2. n # 0 => f[1] = P[1]
  BY <1>1
<1>3. ASSUME NEW i \in 1 .. n, i + 1 \in 1 .. n
      PROVE  f[i + 1] = f[i] \o P[i + 1]
  <2>1. i + 1 # 1 /\ (i + 1) - 1 = i
    OBVIOUS
  <2> QED
    BY <1>1, <1>3, <2>1
<1> QED
  BY <1>2, <1>3

\* The concatenations are sequences, and each begins with the earlier ones.
LEMMA ConcatenationGrows ==
    ASSUME NEW V, NEW P, NEW f, NEW n \in Nat, NEW k \in 1 .. n,
           Concatenates(f, P, n), \A i \in 1 .. n : P[i] \in Seq(V)
    PROVE  \A i \in k .. n : f[i] \in Seq(V) /\ IsPrefix(f[k], f[i])
<1> DEFINE Typed == {i \in Nat : i \in 1 .. n => f[i] \in Seq(V)}
<1>1. 0 \in Typed
  OBVIOUS
<1>2. ASSUME NEW i \in Nat, i \in Typed PROVE i + 1 \in Typed
  <2>1. SUFFICES ASSUME i + 1 \in 1 .. n PROVE f[i + 1] \in Seq(V)
    OBVIOUS
  <2>2. CASE i = 0
    <3>1. i + 1 = 1 /\ n # 0
      BY <2>1, <2>2
    <3> QED
      BY <2>1, <3>1, ConcatenationStep
  <2>3. CASE i # 0
    <3>1. i \in 1 .. n
      BY <2>1, <2>3
    <3>2. f[i] \in Seq(V) /\ P[i + 1] \in Seq(V)
      BY <1>2, <2>1, <3>1
    <3>3. f[i + 1] = f[i] \o P[i + 1]
      BY <2>1, <3>1, ConcatenationStep
    <3> QED
      BY <3>2, <3>3, ConcatProperties
  <2> QED
    BY <2>2, <2>3
<1>3. \A i \in 1 .. n : f[i] \in Seq(V)
  <2> HIDE DEF Typed
  <2>1. Nat \subseteq Typed
    BY <1>1, <1>2, Induction
  <2> QED
    BY <2>1 DEF Typed
<1> HIDE DEF Typed
<1> DEFINE Begins(i) == Len(f[k]) <= Len(f[i]) /\ SubSeq(f[i], 1, Len(f[k])) = f[k]
<1> DEFINE Good == {d \in Nat : k + d \in 1 .. n => Begins(k + d)}
<1>4. 0 \in Good
  <2>1. Begins(k)
    BY <1>3, SubSeqFull
  <2> QED
    BY <2>1
<1>5. ASSUME NEW d \in Nat, d \in Good PROVE d + 1 \in Good
  <2>1. SUFFICES ASSUME k + d + 1 \in 1 .. n PROVE Begins(k + d + 1)
    OBVIOUS
  <2> DEFINE s == f[k + d]
             t == P[k + d + 1]
             u == f[k]
  <2>2. Begins(k + d) /\ k + d \in 1 .. n
    BY <1>5, <2>1
  <2>3. f[k + d + 1] = s \o t
    BY <2>1, <2>2, ConcatenationStep
  <2>4. s \in Seq(V) /\ t \in Seq(V) /\ u \in Seq(V)
    BY <1>3, <2>1, <2>2
  <2>5. Len(u) <= Len(s) /\ SubSeq(s, 1, Len(u)) = u
    BY <2>2
  <2> HIDE DEF s, t, u
  <2>6. Len(u) <= Len(s \o t) /\ SubSeq(s \o t, 1, Len(u)) = u
    <3>1. CASE Len(u) = 0
      BY <2>4, <3>1, SubSeqEmpty
    <3>2. CASE Len(u) # 0
      <4>1. SubSeq(s \o t, 1, Len(u)) = SubSeq(s, 1, Len(u))
        <5>1. 1 \in 1 .. Len(s) /\ Len(u) \in 1 .. Len(s)
          BY <2>4, <2>5, <3>2
        <5> QED
          BY <2>4, <5>1, SubSeqOfConcat1
      <4> QED
        BY <4>1, <2>4, <2>5
    <3> QED
      BY <3>1, <3>2
  <2> QED
    BY <2>3, <2>6 DEF u
<1>6. Nat \subseteq Good
  <2> HIDE DEF Good
  <2> QED
    BY <1>4, <1>5, Induction
<1>7. ASSUME NEW i \in k .. n PROVE Begins(i)
  <2>1. i - k \in Nat /\ k + (i - k) = i /\ i \in 1 .. n
    OBVIOUS
  <2> HIDE DEF Begins
  <2>2. i - k \in Good
    BY <1>6, <2>1
  <2> QED
    BY <2>1, <2>2
<1>8. SubSeq(f[k], 1, Len(f[k])) = f[k]
  BY <1>3, SubSeqFull
<1> QED
  BY <1>3, <1>7, <1>8 DEF IsPrefix

-----------------------------------------------------------------------------
(* The chunks of a body *)

LEMMA DivideUp ==
    ASSUME NEW c \in Nat, c # 0, NEW n \in Nat
    PROVE  /\ (n + c - 1) \div c \in Nat
           /\ n <= c * ((n + c - 1) \div c)
           /\ c * ((n + c - 1) \div c) < n + c
<1> DEFINE q == (n + c - 1) \div c
           m == n + c - 1
<1>1. m \in Nat
  OBVIOUS
<1>2. q \in Int /\ m = c * q + (m % c) /\ m % c \in 0 .. c - 1
  OBVIOUS
<1>3. q \in Nat
  BY <1>1, <1>2
<1> HIDE DEF q
<1> QED
  BY <1>2, <1>3

\* The first i chunks end in the body, and all of them cover it.
LEMMA ChunkBounds ==
    ASSUME NEW n \in Nat, n # 0
    PROVE  /\ ChunkCount(n) \in Nat \ {0}
           /\ n <= ChunkCount(n) * ChunkSize
           /\ \A i \in 1 .. ChunkCount(n) :
                 (i - 1) * ChunkSize \in Nat /\ (i - 1) * ChunkSize < n
           /\ \A i \in 1 .. ChunkCount(n) :
                 /\ i * ChunkSize \in Nat
                 /\ i * ChunkSize = (i - 1) * ChunkSize + ChunkSize
<1> DEFINE K == ChunkCount(n)
<1>1. ChunkSize \in Nat /\ ChunkSize # 0
  BY LayoutAssumption
<1>2. K \in Nat /\ n <= ChunkSize * K /\ ChunkSize * K < n + ChunkSize
  BY <1>1, DivideUp DEF ChunkCount
<1> HIDE DEF K
<1>3. K # 0 /\ n <= K * ChunkSize
  BY <1>1, <1>2
<1>4. ASSUME NEW i \in 1 .. K
      PROVE  /\ (i - 1) * ChunkSize \in Nat
             /\ i * ChunkSize \in Nat
             /\ i * ChunkSize = (i - 1) * ChunkSize + ChunkSize
             /\ (i - 1) * ChunkSize < n
  <2>1. i - 1 \in Nat /\ i \in Nat /\ K - i \in Nat
    BY <1>2
  <2>2. (i - 1) * ChunkSize \in Nat /\ i * ChunkSize \in Nat
    BY <1>1, <2>1
  <2>3. i * ChunkSize = (i - 1) * ChunkSize + ChunkSize
    BY <1>1, <2>1
  <2>4. (K - i) * ChunkSize \in Nat
    BY <1>1, <2>1
  <2>5. ChunkSize * K = i * ChunkSize + (K - i) * ChunkSize
    BY <1>1, <1>2, <2>1
  <2>6. ChunkSize * K \in Nat
    BY <1>1, <1>2
  <2> QED
    BY <1>1, <1>2, <2>2, <2>3, <2>4, <2>5, <2>6
<1>5. /\ \A i \in 1 .. K : (i - 1) * ChunkSize \in Nat /\ (i - 1) * ChunkSize < n
      /\ \A i \in 1 .. K : /\ i * ChunkSize \in Nat
                           /\ i * ChunkSize = (i - 1) * ChunkSize + ChunkSize
  BY <1>4
<1> QED
  BY <1>2, <1>3, <1>5 DEF K

\* Split: every chunk is a run of the body, and none is empty or longer than
\* the first.
LEMMA SplitChunks ==
    ASSUME NEW b \in Seq(Byte), Len(b) # 0
    PROVE  /\ DOMAIN Split(b) = 1 .. ChunkCount(Len(b))
           /\ Len(Split(b)) = ChunkCount(Len(b))
           /\ \A i \in 1 .. ChunkCount(Len(b)) :
                 /\ Split(b)[i] = SubSeq(b, (i - 1) * ChunkSize + 1,
                                         Least(i * ChunkSize, Len(b)))
                 /\ Split(b)[i] \in Seq(Byte)
                 /\ Len(Split(b)[i]) \in 1 .. Least(ChunkSize, Len(b))
           /\ Len(Split(b)[1]) = Least(ChunkSize, Len(b))
<1> DEFINE n == Len(b)
           K == ChunkCount(n)
<1>1. ChunkSize \in Nat /\ ChunkSize # 0 /\ n \in Nat /\ n # 0
  BY LayoutAssumption, LenProperties
<1>2. K \in Nat \ {0}
  BY <1>1, ChunkBounds
<1>3. DOMAIN Split(b) = 1 .. K
  BY DEF Split
<1>4. Len(Split(b)) = K
  BY <1>2 DEF Split
<1>5. ASSUME NEW i \in 1 .. K
      PROVE  /\ Split(b)[i] = SubSeq(b, (i - 1) * ChunkSize + 1, Least(i * ChunkSize, n))
             /\ Split(b)[i] \in Seq(Byte)
             /\ Len(Split(b)[i]) \in 1 .. Least(ChunkSize, n)
             /\ i = 1 => Len(Split(b)[i]) = Least(ChunkSize, n)
  <2> DEFINE s == (i - 1) * ChunkSize
             e == i * ChunkSize
  <2>1. Split(b)[i] = SubSeq(b, s + 1, Least(e, n))
    BY DEF Split
  <2>2. s \in Nat /\ e \in Nat /\ s < n /\ e = s + ChunkSize
    BY <1>1, ChunkBounds
  <2>3. i = 1 => s = 0
    BY <1>1
  <2> HIDE DEF s, e, n
  <2>4. s + 1 \in Int /\ Least(e, n) \in Int /\ s + 1 <= Least(e, n) /\ Least(e, n) <= n
    BY <1>1, <2>2 DEF Least
  <2>5. \A j \in s + 1 .. Least(e, n) : b[j] \in Byte
    <3>1. \A j \in s + 1 .. Least(e, n) : j \in 1 .. n
      BY <1>1, <2>2, <2>4
    <3> QED
      BY <3>1, ElementOfSeq DEF n
  <2>6. /\ SubSeq(b, s + 1, Least(e, n)) \in Seq(Byte)
        /\ Len(SubSeq(b, s + 1, Least(e, n))) = Least(e, n) - (s + 1) + 1
    BY <2>4, <2>5, SubSeqProperties
  <2>7. /\ Least(e, n) - (s + 1) + 1 \in 1 .. Least(ChunkSize, n)
        /\ i = 1 => Least(e, n) - (s + 1) + 1 = Least(ChunkSize, n)
    BY <1>1, <2>2, <2>3 DEF Least
  <2> QED
    BY <2>1, <2>6, <2>7 DEF s, e
<1>6. 1 \in 1 .. K
  BY <1>2
<1> QED
  BY <1>3, <1>4, <1>5, <1>6

\* The first k pieces are the first k chunks: together they are the beginning
\* of the body.
LEMMA ConcatenatedChunks ==
    ASSUME NEW b \in Seq(Byte), Len(b) # 0,
           NEW P, NEW f, NEW n \in Nat, Concatenates(f, P, n),
           NEW k \in 1 .. n, k <= ChunkCount(Len(b)),
           \A i \in 1 .. k : P[i] = Split(b)[i]
    PROVE  f[k] = SubSeq(b, 1, Least(k * ChunkSize, Len(b)))
<1>0. /\ f[1] = P[1]
      /\ \A i \in 1 .. n : i + 1 \in 1 .. n => f[i + 1] = f[i] \o P[i + 1]
  <2>1. n # 0
    OBVIOUS
  <2> QED
    BY <2>1, ConcatenationStep, ZenonT(60)
<1> DEFINE N == Len(b)
           K == ChunkCount(N)
           Begin(i) == SubSeq(b, 1, Least(i * ChunkSize, N))
           Good == {i \in Nat : i + 1 \in 1 .. k => f[i + 1] = Begin(i + 1)}
<1>1. ChunkSize \in Nat /\ ChunkSize # 0 /\ N \in Nat /\ N # 0
  BY LayoutAssumption, LenProperties
<1>2. K \in Nat \ {0} /\ k \in 1 .. K
  BY <1>1, ChunkBounds
<1>3. 0 \in Good
  <2>1. f[1] = Split(b)[1]
    <3>1. n # 0 /\ 1 \in 1 .. k
      OBVIOUS
    <3> QED
      BY <1>0, <3>1
  <2>2. Split(b)[1] = SubSeq(b, (1 - 1) * ChunkSize + 1, Least(1 * ChunkSize, N))
    BY <1>2, SplitChunks
  <2>3. (1 - 1) * ChunkSize + 1 = 1
    BY <1>1
  <2> QED
    BY <2>1, <2>2, <2>3
<1>4. ASSUME NEW i \in Nat, i \in Good PROVE i + 1 \in Good
  <2>1. SUFFICES ASSUME i + 2 \in 1 .. k PROVE f[i + 2] = Begin(i + 2)
    BY <1>2
  <2>2. f[i + 1] = Begin(i + 1)
    BY <1>4, <2>1, <1>2
  <2>3. f[i + 2] = f[i + 1] \o P[i + 2]
    <3>1. i + 1 \in 1 .. n /\ (i + 1) + 1 \in 1 .. n /\ (i + 1) + 1 = i + 2
      BY <2>1, <1>2
    <3>2. f[(i + 1) + 1] = f[i + 1] \o P[(i + 1) + 1]
      BY <1>0, <3>1
    <3> QED
      BY <3>1, <3>2
  <2> DEFINE m == (i + 1) * ChunkSize
             l == Least((i + 2) * ChunkSize, N)
  <2>4. i + 2 \in 1 .. K /\ (i + 2) - 1 = i + 1
    BY <1>2, <2>1
  <2>5. P[i + 2] = SubSeq(b, m + 1, l)
    BY <2>1, <2>4, SplitChunks
  <2>6. m \in Nat /\ m < N /\ (i + 2) * ChunkSize = m + ChunkSize
    BY <1>1, <2>4, ChunkBounds
  <2>7. Least(m, N) = m
    BY <1>1, <2>6 DEF Least
  <2>8. l \in m .. N
    BY <1>1, <2>6 DEF Least
  <2> HIDE DEF m, l
  <2>9. SubSeq(b, 1, m) \o SubSeq(b, m + 1, l) = SubSeq(b, 1, l)
    <3>1. 1 \in 1 .. Len(b) + 1 /\ m \in 1 - 1 .. Len(b) /\ l \in m .. Len(b)
      BY <1>1, <2>6, <2>8
    <3> QED
      BY <3>1, ConcatAdjacentSubSeq
  <2> QED
    BY <2>2, <2>3, <2>5, <2>7, <2>9 DEF m, l
<1> HIDE DEF Good
<1>5. Nat \subseteq Good
  BY <1>3, <1>4, Induction
<1>6. k - 1 \in Nat /\ (k - 1) + 1 = k
  OBVIOUS
<1>7. k - 1 \in Good
  BY <1>5, <1>6
<1> QED
  BY <1>6, <1>7 DEF Good

-----------------------------------------------------------------------------
(* The shards of a body *)

\* Shards at hand for the body b: some of those that Encode returned.
AtHand(at, b) ==
    /\ DOMAIN at \subseteq ShardsOf(Len(b))
    /\ \A s \in DOMAIN at : at[s] = Encode(Split(b))[s]

\* Every data shard of b is at hand.
DataAtHand(at, b) == Data \cap ShardsOf(Len(b)) \subseteq DOMAIN at

\* The bytes of b that the data shards hold.
Striped(b) == SubSeq(b, 1, Least(Len(b), DataShards * ChunkSize))

LEMMA ShardSizeOfSplit ==
    ASSUME NEW b \in Seq(Byte), Len(b) # 0
    PROVE  ShardSize(Split(b)) = Least(ChunkSize, Len(b))
<1> DEFINE ch == Split(b)
           m == Least(ChunkSize, Len(b))
           Lengths == {Len(ch[i]) : i \in DOMAIN ch}
           Longest(x) == \A i \in DOMAIN ch : Len(ch[i]) <= x
<1>1. Len(b) \in Nat /\ m \in Nat /\ 1 \in DOMAIN ch
  <2>1. Len(b) \in Nat
    BY LenProperties
  <2>2. ChunkCount(Len(b)) \in Nat \ {0}
    BY <2>1, ChunkBounds
  <2>3. DOMAIN ch = 1 .. ChunkCount(Len(b))
    BY SplitChunks
  <2>4. m \in Nat
    BY <2>1, LayoutAssumption DEF Least
  <2> QED
    BY <2>1, <2>2, <2>3, <2>4
<1>2. Len(ch[1]) = m
  BY SplitChunks
<1>3. \A i \in DOMAIN ch : Len(ch[i]) \in Nat /\ Len(ch[i]) <= m
  BY <1>1, SplitChunks
<1> HIDE DEF ch, m
<1>4. m \in Lengths /\ Longest(m)
  BY <1>1, <1>2, <1>3
<1>5. \A x \in Lengths : Longest(x) => x = m
  BY <1>1, <1>2, <1>3
<1>6. (CHOOSE x \in Lengths : Longest(x)) = m
  BY <1>4, <1>5
<1> QED
  BY <1>6 DEF ShardSize, ch, m

\* What Encode returns: it makes the shards that Layout counts for a body of
\* that length, so ObjectStore may speak of indexes alone; a data shard is a
\* chunk, and a parity shard has as many bytes as the longest chunk.
THEOREM EncodedShards ==
    ASSUME NEW b \in Seq(Byte), Len(b) # 0
    PROVE  /\ DOMAIN Encode(Split(b)) = ShardsOf(Len(b))
           /\ \A s \in Data \cap ShardsOf(Len(b)) :
                 /\ s + 1 \in 1 .. ChunkCount(Len(b))
                 /\ Encode(Split(b))[s] = Split(b)[s + 1]
           /\ \A s \in Parity :
                 /\ s \in ShardsOf(Len(b))
                 /\ DOMAIN Encode(Split(b))[s] = 1 .. Least(ChunkSize, Len(b))
<1> DEFINE K == ChunkCount(Len(b))
           ch == Split(b)
<1>1. Len(b) \in Nat /\ K \in Nat \ {0} /\ Len(ch) = K
  <2>1. Len(b) \in Nat
    BY LenProperties
  <2> QED
    BY <2>1, ChunkBounds, SplitChunks
<1> HIDE DEF K, ch
<1>2. {s \in Shard : s \in Parity \/ s < Len(ch)} = ShardsOf(Len(b))
  BY <1>1, LayoutAssumption DEF ShardsOf, Shard, Parity, Data, K
<1>3. /\ DOMAIN Encode(ch) = ShardsOf(Len(b))
      /\ \A s \in ShardsOf(Len(b)) :
            Encode(ch)[s] = IF s \in Data THEN ch[s + 1]
                            ELSE ParityShard(ch, s - DataShards)
  BY <1>2, Zenon DEF Encode
<1>4. \A s \in Data \cap ShardsOf(Len(b)) : s + 1 \in 1 .. K
  BY <1>1, LayoutAssumption DEF ShardsOf, Shard, Data, K
<1>5. \A s \in Parity : s \in ShardsOf(Len(b)) /\ s \notin Data
  BY LayoutAssumption DEF ShardsOf, Shard, Data, Parity
<1>6. \A i : DOMAIN ParityShard(ch, i) = 1 .. Least(ChunkSize, Len(b))
  <2>1. ShardSize(ch) = Least(ChunkSize, Len(b))
    BY ShardSizeOfSplit DEF ch
  <2> QED
    BY <2>1, Zenon DEF ParityShard
<1> QED
  BY <1>3, <1>4, <1>5, <1>6 DEF K, ch

\* A piece appended for a data shard is that shard, nothing, or as many bytes
\* as a parity shard has.
LEMMA PieceShapes ==
    ASSUME NEW b \in Seq(Byte), Len(b) # 0, NEW at, AtHand(at, b),
           NEW j \in Data
    PROVE  /\ j \in DOMAIN at => /\ Piece(at, j) = Split(b)[j + 1]
                                 /\ Piece(at, j) \in Seq(Byte)
                                 /\ j + 1 \in 1 .. ChunkCount(Len(b))
           /\ j \notin DOMAIN at /\ SpentOn(at, j) = {} => Piece(at, j) = <<>>
           /\ j \notin DOMAIN at /\ SpentOn(at, j) # {} =>
                 DOMAIN Piece(at, j) = 1 .. Least(ChunkSize, Len(b))
<1>1. CASE j \in DOMAIN at
  <2>1. j \in Data \cap ShardsOf(Len(b)) /\ at[j] = Encode(Split(b))[j]
    BY <1>1 DEF AtHand
  <2>2. at[j] = Split(b)[j + 1] /\ j + 1 \in 1 .. ChunkCount(Len(b))
    BY <2>1, EncodedShards
  <2>3. Piece(at, j) = at[j]
    BY <1>1 DEF Piece
  <2> QED
    BY <1>1, <2>2, <2>3, SplitChunks
<1>2. CASE j \notin DOMAIN at /\ SpentOn(at, j) = {}
  BY <1>2 DEF Piece
<1>3. CASE j \notin DOMAIN at /\ SpentOn(at, j) # {}
  <2> DEFINE p == CHOOSE q \in SpentOn(at, j) : TRUE
  <2>1. p \in Parity /\ p \in DOMAIN at
    <3>1. p \in SpentOn(at, j)
      BY <1>3
    <3> QED
      BY <3>1 DEF SpentOn
  <2>2. Piece(at, j) = Recovered(at, p)
    BY <1>3, Zenon DEF Piece
  <2> HIDE DEF p
  <2>3. DOMAIN Recovered(at, p) = DOMAIN at[p]
    BY Zenon DEF Recovered
  <2>4. at[p] = Encode(Split(b))[p]
    BY <2>1 DEF AtHand
  <2> QED
    BY <1>3, <2>1, <2>2, <2>3, <2>4, EncodedShards
<1> QED
  BY <1>1, <1>2, <1>3

-----------------------------------------------------------------------------
(* Decode *)

\* Decode concatenates one piece for each data shard, and its result begins
\* with what any number of them gives.
LEMMA DecodeSteps ==
    ASSUME NEW b \in Seq(Byte), Len(b) # 0, NEW at, AtHand(at, b)
    PROVE  LET P == [j \in 1 .. DataShards |-> Piece(at, j - 1)]
           IN  \E f, V :
                  /\ Concatenates(f, P, DataShards)
                  /\ Decode(at) = f[DataShards]
                  /\ \A i \in 1 .. DataShards : P[i] = Piece(at, i - 1)
                  /\ \A i \in 1 .. DataShards : P[i] \in Seq(V)
<1> DEFINE P == [j \in 1 .. DataShards |-> Piece(at, j - 1)]
           V == UNION {{P[i][x] : x \in DOMAIN P[i]} : i \in 1 .. DataShards}
<1>1. DataShards \in Nat /\ DataShards # 0
  BY LayoutAssumption
<1>2. Len(P) = DataShards
  BY <1>1
<1>3. PICK f : Concatenates(f, P, DataShards) /\ FlattenSeq(P) = f[DataShards]
  <2> HIDE DEF P
  <2> QED
    BY <1>1, <1>2, FlattenSeqValue
<1>4. Decode(at) = f[DataShards]
  BY <1>3, Zenon DEF Decode
<1>5. \A i \in 1 .. DataShards : P[i] = Piece(at, i - 1)
  OBVIOUS
<1>6. ASSUME NEW i \in 1 .. DataShards PROVE P[i] \in Seq(V)
  <2>1. \E m \in Nat : P[i] \in [1 .. m -> V]
    <3> HIDE DEF P
    <3>1. i - 1 \in Data
      BY <1>1, LayoutAssumption DEF Data, Shard
    <3>2. \E m \in Nat : DOMAIN P[i] = 1 .. m /\ P[i] = [x \in 1 .. m |-> P[i][x]]
      <4>1. CASE i - 1 \in DOMAIN at
        <5>1. P[i] \in Seq(Byte)
          BY <1>5, <3>1, <4>1, PieceShapes
        <5> QED
          BY <5>1, LenProperties
      <4>2. CASE i - 1 \notin DOMAIN at /\ SpentOn(at, i - 1) = {}
        <5>1. P[i] = <<>>
          BY <1>5, <3>1, <4>2, PieceShapes
        <5>2. <<>> \in Seq(Byte)
          OBVIOUS
        <5> QED
          BY <5>1, <5>2, LenProperties
      <4>3. CASE i - 1 \notin DOMAIN at /\ SpentOn(at, i - 1) # {}
        <5>1. DOMAIN P[i] = 1 .. Least(ChunkSize, Len(b))
          BY <1>5, <3>1, <4>3, PieceShapes
        <5>2. Least(ChunkSize, Len(b)) \in Nat
          BY LayoutAssumption, LenProperties DEF Least
        <5>3. P[i] = Recovered(at, CHOOSE p \in SpentOn(at, i - 1) : TRUE)
          BY <1>5, <4>3, Zenon DEF Piece
        <5>4. P[i] = [x \in DOMAIN P[i] |-> P[i][x]]
          BY <5>3, Zenon DEF Recovered
        <5> QED
          BY <5>1, <5>2, <5>4
      <4> QED
        BY <4>1, <4>2, <4>3
    <3>3. \A x \in DOMAIN P[i] : P[i][x] \in V
      OBVIOUS
    <3> QED
      BY <3>2, <3>3
  <2> HIDE DEF P, V
  <2> QED
    BY <2>1, SeqDef
<1> QED
  BY <1>3, <1>4, <1>5, <1>6

\* The first data shard that a short body leaves out is made up from the first
\* parity shard.
LEMMA FirstMissing ==
    ASSUME NEW b \in Seq(Byte), Len(b) # 0, NEW at, AtHand(at, b),
           DataAtHand(at, b), ChunkCount(Len(b)) < DataShards,
           DataShards \in DOMAIN at
    PROVE  LET K == ChunkCount(Len(b))
           IN  K \in Data /\ K \notin DOMAIN at /\ SpentOn(at, K) # {}
<1> DEFINE K == ChunkCount(Len(b))
<1>1. K \in Nat \ {0}
  BY LenProperties, ChunkBounds
<1> HIDE DEF K
<1>2. K \in Data /\ K \notin ShardsOf(Len(b))
  BY <1>1, LayoutAssumption DEF Data, Shard, ShardsOf, K
<1>3. K \notin DOMAIN at
  BY <1>2 DEF AtHand
<1>4. {j \in Data \ DOMAIN at : j < K} = {}
  <2>1. \A j \in Data : j < K => j \in ShardsOf(Len(b))
    BY <1>1 DEF Data, ShardsOf, K
  <2> QED
    BY <2>1 DEF DataAtHand
<1>5. {j \in Parity \cap DOMAIN at : j < DataShards} = {}
  BY LayoutAssumption DEF Parity, Data, Shard
<1>6. DataShards \in Parity
  BY LayoutAssumption DEF Parity, Data, Shard
<1>7. Rank(DataShards, Parity \cap DOMAIN at) = Rank(K, Data \ DOMAIN at)
  BY <1>4, <1>5, Zenon DEF Rank
<1>8. DataShards \in SpentOn(at, K)
  BY <1>6, <1>7 DEF SpentOn
<1> QED
  BY <1>2, <1>3, <1>8 DEF K

\* With every data shard at hand, the result of Decode begins with what the
\* data shards hold of the body; it is that when the stripe is full, and
\* longer than the body when the stripe is not.
THEOREM DecodeOfIntactData ==
    ASSUME NEW b \in Seq(Byte), Len(b) # 0, NEW at, AtHand(at, b),
           DataAtHand(at, b)
    PROVE  /\ IsPrefix(Striped(b), Decode(at))
           /\ ChunkCount(Len(b)) >= DataShards => Decode(at) = Striped(b)
           /\ ChunkCount(Len(b)) < DataShards /\ DataShards \in DOMAIN at =>
                 Len(Decode(at)) > Len(b)
           /\ Len(Decode(at)) \in Nat
<1> DEFINE N == Len(b)
           K == ChunkCount(N)
           k == Least(K, DataShards)
           P == [j \in 1 .. DataShards |-> Piece(at, j - 1)]
<1>1. N \in Nat /\ N # 0 /\ DataShards \in Nat /\ DataShards # 0
      /\ ChunkSize \in Nat /\ ChunkSize # 0
  BY LayoutAssumption, LenProperties
<1>2. K \in Nat /\ K # 0 /\ N <= K * ChunkSize
  BY <1>1, ChunkBounds
<1>3. PICK f, V : /\ Concatenates(f, P, DataShards)
                  /\ Decode(at) = f[DataShards]
                  /\ \A i \in 1 .. DataShards : P[i] = Piece(at, i - 1)
                  /\ \A i \in 1 .. DataShards : P[i] \in Seq(V)
  <2> HIDE DEF P
  <2> QED
    BY DecodeSteps, Zenon DEF P
<1> HIDE DEF N, K, P
<1>4. k \in 1 .. DataShards /\ k <= K
  BY <1>1, <1>2 DEF Least
<1>5. ASSUME NEW i \in 1 .. k PROVE P[i] = Split(b)[i]
  <2>1. i \in 1 .. DataShards /\ i - 1 \in Data /\ (i - 1) + 1 = i
    BY <1>1, <1>4, LayoutAssumption DEF Data, Shard
  <2>2. i - 1 \in ShardsOf(N)
    BY <1>1, <1>2, <1>4, <2>1 DEF ShardsOf, Data, K
  <2>3. i - 1 \in DOMAIN at
    BY <2>1, <2>2 DEF DataAtHand, N
  <2>4. Piece(at, i - 1) = Split(b)[(i - 1) + 1]
    BY <2>1, <2>3, PieceShapes
  <2> QED
    BY <1>3, <2>1, <2>4
<1>6. f[k] = SubSeq(b, 1, Least(k * ChunkSize, N))
  <2> HIDE DEF k
  <2> QED
    BY <1>1, <1>3, <1>4, <1>5, ConcatenatedChunks DEF N, K
<1>7. Least(k * ChunkSize, N) = Least(N, DataShards * ChunkSize)
  <2>1. DataShards * ChunkSize \in Nat
    BY <1>1
  <2>2. CASE K >= DataShards
    <3>1. k = DataShards
      BY <1>1, <1>2, <2>2 DEF Least
    <3> QED
      BY <1>1, <2>1, <3>1 DEF Least
  <2>3. CASE K < DataShards
    <3>1. k = K
      BY <1>1, <1>2, <2>3 DEF Least
    <3>2. K * ChunkSize \in Nat /\ (DataShards - K) * ChunkSize \in Nat
      BY <1>1, <1>2, <2>3
    <3>3. DataShards * ChunkSize = K * ChunkSize + (DataShards - K) * ChunkSize
      BY <1>1, <1>2
    <3> QED
      BY <1>1, <1>2, <2>1, <3>1, <3>2, <3>3 DEF Least
  <2> QED
    BY <1>1, <1>2, <2>2, <2>3
<1>8. f[k] = Striped(b)
  BY <1>6, <1>7 DEF Striped, N
<1>9. \A m \in 1 .. DataShards : \A i \in m .. DataShards :
          f[i] \in Seq(V) /\ IsPrefix(f[m], f[i])
  BY <1>1, <1>3, ConcatenationGrows
<1> HIDE DEF k
<1>10. DataShards \in k .. DataShards /\ DataShards \in 1 .. DataShards /\ k \in k .. DataShards
  BY <1>1, <1>4
<1>11. IsPrefix(Striped(b), Decode(at))
  BY <1>3, <1>4, <1>8, <1>9, <1>10
<1>12. K >= DataShards => Decode(at) = Striped(b)
  <2>1. K >= DataShards => k = DataShards
    BY <1>1, <1>2 DEF Least, k
  <2> QED
    BY <1>3, <1>8, <2>1
<1>13. ASSUME K < DataShards, DataShards \in DOMAIN at
       PROVE  Len(Decode(at)) > N
  <2>1. K \in Data /\ K \notin DOMAIN at /\ SpentOn(at, K) # {}
    BY <1>13, FirstMissing DEF K, N
  <2>2. DOMAIN Piece(at, K) = 1 .. Least(ChunkSize, N)
    BY <2>1, PieceShapes DEF N
  <2>3. K \in 1 .. DataShards /\ K + 1 \in 1 .. DataShards /\ (K + 1) - 1 = K
    BY <1>1, <1>2, <1>13
  <2>4. P[K + 1] = Piece(at, K) /\ P[K + 1] \in Seq(V)
    BY <1>3, <2>3
  <2>5. Len(P[K + 1]) >= 1
    <3>1. 1 \in DOMAIN P[K + 1]
      BY <1>1, <2>2, <2>4 DEF Least
    <3>2. DOMAIN P[K + 1] = 1 .. Len(P[K + 1]) /\ Len(P[K + 1]) \in Nat
      BY <2>4, LenProperties
    <3> QED
      BY <3>1, <3>2
  <2>6. f[K + 1] = f[K] \o P[K + 1]
    BY <1>1, <1>3, <2>3, ConcatenationStep
  <2>7. f[K] = b
    <3>1. k = K
      BY <1>1, <1>2, <1>13 DEF Least, k
    <3>2. Least(k * ChunkSize, N) = N
      BY <1>1, <1>2, <3>1 DEF Least
    <3> QED
      BY <1>6, <3>1, <3>2, SubSeqFull DEF N
  <2>8. f[K] \in Seq(V)
    BY <1>9, <2>3
  <2>9. Len(f[K + 1]) = N + Len(P[K + 1])
    BY <2>4, <2>6, <2>7, <2>8, ConcatProperties DEF N
  <2>10. Len(f[K + 1]) <= Len(f[DataShards]) /\ f[DataShards] \in Seq(V)
    BY <1>1, <1>9, <2>3 DEF IsPrefix
  <2>11. Len(f[DataShards]) \in Nat /\ Len(P[K + 1]) \in Nat
    BY <2>4, <2>10, LenProperties
  <2> QED
    BY <1>1, <1>3, <2>5, <2>9, <2>10, <2>11
<1>14. Len(Decode(at)) \in Nat
  BY <1>3, <1>9, <1>10, LenProperties
<1> QED
  BY <1>11, <1>12, <1>13, <1>14 DEF K, N

-----------------------------------------------------------------------------
(* The store *)

\* What is on disk is what Encode made of the body, less what was lost.
StoreInv ==
    /\ body \in Seq(Byte) /\ Len(body) # 0
    /\ Len(body) < MaxInt
    /\ AtHand(onDisk, body)
    /\ rows \subseteq AllShards

\* The inductive invariant: an answer is right for as long as nothing more is
\* lost, and is forgotten when something is.
DownloadInv == StoreInv /\ IntactDownload /\ RangeExact

\* What GetObject decodes when every data shard has its row and file.
LEMMA IntactRawData ==
    ASSUME StoreInv, Data \cap LostShards = {}, ~Unreadable
    PROVE  /\ IsPrefix(Striped(body), RawData)
           /\ ChunkCount(Len(body)) >= DataShards => RawData = Striped(body)
           /\ ChunkCount(Len(body)) < DataShards /\ LostShards = {} =>
                 Len(RawData) > Len(body)
           /\ Len(RawData) \in Nat
<1> DEFINE at == [s \in rows |-> onDisk[s]]
<1>1. DOMAIN at = rows /\ \A s \in rows : at[s] = onDisk[s]
  OBVIOUS
<1>2. RawData = Decode(at)
  BY DEF RawData
<1> HIDE DEF at
<1>3. AtHand(at, body)
  BY <1>1 DEF StoreInv, AtHand, AllShards, Unreadable
<1>4. DataAtHand(at, body)
  BY <1>1 DEF DataAtHand, LostShards, AllShards
<1>5. LostShards = {} => DataShards \in DOMAIN at
  <2>1. DataShards \in AllShards
    BY LayoutAssumption DEF AllShards, ShardsOf, Shard
  <2> QED
    BY <1>1, <2>1 DEF LostShards
<1> QED
  BY <1>2, <1>3, <1>4, <1>5, DecodeOfIntactData DEF StoreInv

\* The stripe of a body that fits is the body.
LEMMA StripedBody ==
    ASSUME NEW b \in Seq(Byte), Len(b) # 0
    PROVE  /\ Len(Striped(b)) = Least(Len(b), DataShards * ChunkSize)
           /\ ChunkCount(Len(b)) = DataShards => Striped(b) = b
<1>1. Len(b) \in Nat /\ DataShards * ChunkSize \in Nat
  BY LayoutAssumption, LenProperties
<1>2. ChunkCount(Len(b)) = DataShards => Len(b) <= DataShards * ChunkSize
  BY <1>1, ChunkBounds
<1>3. Least(Len(b), DataShards * ChunkSize) \in 0 .. Len(b)
  BY <1>1 DEF Least
<1>4. Len(Striped(b)) = Least(Len(b), DataShards * ChunkSize)
  BY <1>1, <1>3 DEF Striped
<1>5. ChunkCount(Len(b)) = DataShards => Striped(b) = b
  <2>1. ChunkCount(Len(b)) = DataShards =>
           Least(Len(b), DataShards * ChunkSize) = Len(b)
    BY <1>1, <1>2 DEF Least
  <2> QED
    BY <2>1, SubSeqFull DEF Striped
<1> QED
  BY <1>4, <1>5

\* Decode undoes Encode for a body that fills the data shards exactly, whatever
\* its last chunk's length.
THEOREM FullStripeRoundTrip ==
    ASSUME NEW b \in Seq(Byte), ChunkCount(Len(b)) = DataShards
    PROVE  Decode(Encode(Split(b))) = b
<1> DEFINE at == Encode(Split(b))
<1>1. Len(b) # 0
  <2>1. ChunkCount(0) = 0
    BY LayoutAssumption DEF ChunkCount
  <2> QED
    BY <2>1, LayoutAssumption
<1>2. AtHand(at, b) /\ DataAtHand(at, b)
  BY <1>1, EncodedShards DEF AtHand, DataAtHand
<1>3. ChunkCount(Len(b)) >= DataShards
  BY LayoutAssumption
<1> HIDE DEF at
<1>4. Decode(at) = Striped(b)
  BY <1>1, <1>2, <1>3, DecodeOfIntactData
<1>5. Striped(b) = b
  BY <1>1, StripedBody
<1> QED
  BY <1>4, <1>5 DEF at

LEMMA DownloadInvInit == DownloadInit => DownloadInv
<1> SUFFICES ASSUME DownloadInit PROVE DownloadInv
  OBVIOUS
<1>1. body \in Seq(Byte) /\ ~CannotEncode(Len(body))
  BY BodyAssumption DEF DownloadInit
<1>2. Len(body) # 0
  <2>1. CASE Len(body) = 0
    <3>1. ChunkCount(0) = 0
      <4> DEFINE q == (0 + ChunkSize - 1) \div ChunkSize
      <4>1. q \in Nat /\ ChunkSize * q < 0 + ChunkSize
        BY DivideUp, LayoutAssumption
      <4> HIDE DEF q
      <4>2. q = 0
        BY <4>1, LayoutAssumption
      <4> QED
        BY <4>2 DEF q, ChunkCount
    <3> QED
      BY <1>1, <2>1, <3>1 DEF CannotEncode
  <2> QED
    BY <2>1
<1>3. DOMAIN onDisk = AllShards /\ onDisk = Encode(Split(body))
  BY <1>1, <1>2, EncodedShards DEF DownloadInit, AllShards
<1>4. StoreInv
  <2>1. Len(body) < MaxInt
    BY BodyAssumption DEF DownloadInit
  <2> QED
    BY <1>1, <1>2, <1>3, <2>1 DEF DownloadInit, StoreInv, AtHand, AllShards
<1>5. reply.status = 0
  BY DEF DownloadInit, NoReply
<1> QED
  BY <1>4, <1>5 DEF DownloadInv, IntactDownload, RangeExact

LEMMA LossStep ==
    ASSUME DownloadInv, NEW s \in Shard, LoseRow(s) \/ LoseFile(s)
    PROVE  DownloadInv'
<1>1. reply'.status = 0
  BY DEF LoseRow, LoseFile, NoReply
<1>2. StoreInv'
  <2>1. CASE LoseRow(s)
    BY <2>1 DEF DownloadInv, StoreInv, LoseRow, AllShards
  <2>2. CASE LoseFile(s)
    <3>1. /\ DOMAIN onDisk' = DOMAIN onDisk \ {s}
          /\ \A i \in DOMAIN onDisk' : onDisk'[i] = onDisk[i]
      BY <2>2, Zenon DEF LoseFile
    <3>2. body' = body /\ rows' = rows
      BY <2>2 DEF LoseFile
    <3>3. AtHand(onDisk', body)
      BY <3>1 DEF DownloadInv, StoreInv, AtHand
    <3> QED
      BY <3>2, <3>3 DEF DownloadInv, StoreInv, AllShards
  <2> QED
    BY <2>1, <2>2
<1> QED
  BY <1>1, <1>2 DEF DownloadInv, IntactDownload, RangeExact

LEMMA GetStep ==
    ASSUME DownloadInv, Get
    PROVE  DownloadInv'
<1>1. body' = body /\ onDisk' = onDisk /\ rows' = rows
  BY DEF Get
<1>2. StoreInv' /\ LostShards' = LostShards
  BY <1>1 DEF DownloadInv, StoreInv, AllShards, LostShards
<1>3. reply'.status # 206
  BY DEF Get, Answer
<1>4. RangeExact'
  BY <1>3 DEF RangeExact
<1>5. IntactDownload'
  <2>1. SUFFICES ASSUME LostShards = {}, reply'.status = 200
                 PROVE  reply'.bytes = IF ChunkCount(Len(body)) < DataShards THEN <<>>
                                       ELSE Striped(body)
    BY <1>1, <1>2 DEF IntactDownload, Striped
  <2>2. ~Unreadable /\ reply'.bytes = WholeBody
    BY <2>1 DEF Get, Answer, Unreadable
  <2>3. StoreInv /\ Data \cap LostShards = {}
    BY <2>1 DEF DownloadInv
  <2>4. body \in Seq(Byte) /\ Len(body) # 0 /\ Len(body) \in Nat
        /\ ChunkCount(Len(body)) \in Nat /\ DataShards \in Nat
    <3>1. body \in Seq(Byte) /\ Len(body) # 0
      BY <2>3 DEF StoreInv
    <3> QED
      BY <3>1, LenProperties, ChunkBounds, LayoutAssumption
  <2>5. CASE ChunkCount(Len(body)) < DataShards
    <3>1. Len(RawData) > Len(body)
      BY <2>1, <2>2, <2>3, <2>5, IntactRawData
    <3> QED
      BY <2>2, <2>5, <3>1 DEF WholeBody
  <2>6. CASE ChunkCount(Len(body)) >= DataShards
    <3>1. RawData = Striped(body)
      BY <2>2, <2>3, <2>6, IntactRawData
    <3>2. ~(Len(Striped(body)) > Len(body))
      <4>1. DataShards * ChunkSize \in Nat
        BY LayoutAssumption
      <4>2. Len(Striped(body)) = Least(Len(body), DataShards * ChunkSize)
        BY <2>4, StripedBody
      <4> QED
        BY <2>4, <4>1, <4>2 DEF Least
    <3> QED
      BY <2>2, <2>4, <2>6, <3>1, <3>2 DEF WholeBody
  <2> QED
    BY <2>4, <2>5, <2>6
<1> QED
  BY <1>2, <1>4, <1>5 DEF DownloadInv

LEMMA GetRangeStep ==
    ASSUME DownloadInv, NEW a \in Offset, NEW b \in Offset \cup {MaxInt}, GetRange(a, b)
    PROVE  DownloadInv'
<1> DEFINE asked == RangeLength(a, b)
           stop == RangeEnd(a, asked)
           cut == SubSeq(RawData, a + 1, stop)
<1>1. body' = body /\ onDisk' = onDisk /\ rows' = rows
  BY DEF GetRange
<1>2. StoreInv' /\ LostShards' = LostShards
  BY <1>1 DEF DownloadInv, StoreInv, AllShards, LostShards
<1>3. reply'.status # 200
  BY DEF GetRange, Answer
<1>4. IntactDownload'
  BY <1>3 DEF IntactDownload
<1>5. RangeExact'
  <2>1. SUFFICES ASSUME FullStripe, reply'.status = 206, Data \cap LostShards = {}
                 PROVE  RangeExact'
    BY <1>1, <1>2 DEF RangeExact, FullStripe
  <2>2. ~Unreadable /\ ~(a < 0 \/ a >= Len(RawData)) /\ ~(stop < a)
        /\ reply' = [status |-> 206, first |-> a, last |-> b, bytes |-> cut]
    BY <2>1 DEF GetRange, Answer
  <2>3. StoreInv /\ body \in Seq(Byte) /\ Len(body) \in Nat /\ Len(body) < MaxInt
        /\ MaxInt \in Nat
    <3>1. StoreInv /\ body \in Seq(Byte) /\ Len(body) < MaxInt
      BY DEF DownloadInv, StoreInv
    <3> QED
      BY <3>1, BodyAssumption, LenProperties
  <2>4. RawData = body
    <3>1. ChunkCount(Len(body)) = DataShards /\ Len(body) # 0
      BY <2>1, <2>3 DEF FullStripe, StoreInv
    <3>2. ChunkCount(Len(body)) >= DataShards
      BY <3>1, LayoutAssumption
    <3> QED
      BY <2>1, <2>2, <2>3, <3>1, <3>2, IntactRawData, StripedBody
  <2>5. a \in 0 .. Len(body) - 1 /\ b \in -1 .. MaxInt /\ b \in Int
    BY <2>2, <2>3, <2>4 DEF Offset
  <2> HIDE DEF asked, stop, cut
  <2>6. /\ asked \in Int
        /\ b <= 0 => asked = b
        /\ 0 < b /\ a <= b => asked = b - a + 1 \/ (asked <= 0 /\ b = MaxInt)
    BY <2>3, <2>5 DEF asked, RangeLength, Wrap
  <2>7. /\ stop \in a + 1 .. Len(body)
        /\ b > 0 /\ a <= b => stop = Least(b + 1, Len(body))
        /\ b = Open => stop = Len(body)
    <3> DEFINE sum == a + asked
    <3>1. CASE asked <= 0
      <4>1. stop = Len(body)
        BY <3>1, <2>4 DEF stop, RangeEnd
      <4> QED
        BY <4>1, <3>1, <2>3, <2>5, <2>6 DEF Least
    <3>2. CASE asked > 0 /\ Wrap(sum) > Len(body)
      <4>1. stop = Len(body)
        BY <3>2, <2>4 DEF stop, RangeEnd
      <4>2. b # Open
        BY <3>2, <2>6 DEF Open
      <4>3. b > 0 /\ a <= b => b + 1 > Len(body)
        BY <3>2, <2>3, <2>5, <2>6 DEF Wrap
      <4> QED
        BY <4>1, <4>2, <4>3, <2>3, <2>5 DEF Least
    <3>3. CASE asked > 0 /\ ~(Wrap(sum) > Len(body))
      <4>1. stop = Wrap(sum)
        BY <3>3, <2>4, <2>6 DEF stop, RangeEnd
      <4>2. sum \in Int /\ sum > a /\ stop <= Len(body) /\ stop \in Int
        BY <3>3, <4>1, <2>3, <2>5, <2>6 DEF Wrap
      <4>3. b # Open
        BY <3>3, <2>6 DEF Open
      <4>4. sum <= MaxInt /\ stop = sum
        <5>1. stop >= a
          BY <2>2, <2>3, <2>5, <4>2
        <5> QED
          BY <4>1, <4>2, <5>1, <2>3, <2>5, <2>6 DEF Wrap, asked, RangeLength
      <4>5. b > 0 /\ a <= b => stop = b + 1
        BY <4>4, <3>3, <2>5, <2>6
      <4> QED
        BY <4>2, <4>3, <4>4, <4>5, <2>3, <2>5 DEF Least
    <3> QED
      BY <3>1, <3>2, <3>3, <2>3, <2>5, <2>6 DEF Wrap
  <2>8. /\ cut = SubSeq(body, a + 1, stop) /\ Len(cut) = stop - a
        /\ cut # <<>>
    <3>1. cut = SubSeq(body, a + 1, stop)
      BY <2>4 DEF cut
    <3>2. \A i \in a + 1 .. stop : body[i] \in Byte
      <4>1. \A i \in a + 1 .. stop : i \in 1 .. Len(body)
        BY <2>3, <2>5, <2>7
      <4> QED
        BY <4>1, <2>3, ElementOfSeq
    <3>3. Len(SubSeq(body, a + 1, stop)) = stop - (a + 1) + 1
      BY <3>2, <2>3, <2>5, <2>7, SubSeqProperties
    <3>4. stop - (a + 1) + 1 = stop - a /\ stop - a # 0
      BY <2>3, <2>5, <2>7
    <3> QED
      BY <3>1, <3>3, <3>4
  <2>9. a + (stop - a) = stop
    BY <2>3, <2>5, <2>7
  <2> QED
    BY <1>1, <2>2, <2>7, <2>8, <2>9 DEF RangeExact
<1> QED
  BY <1>2, <1>4, <1>5 DEF DownloadInv

LEMMA DownloadInvNext == DownloadInv /\ [DownloadNext]_dvars => DownloadInv'
<1> SUFFICES ASSUME DownloadInv, [DownloadNext]_dvars PROVE DownloadInv'
  OBVIOUS
<1>1. ASSUME NEW s \in Shard, LoseRow(s) \/ LoseFile(s) PROVE DownloadInv'
  BY <1>1, LossStep
<1>2. CASE Get
  BY <1>2, GetStep
<1>3. ASSUME NEW a \in Offset, NEW b \in Offset \cup {MaxInt}, GetRange(a, b)
      PROVE  DownloadInv'
  BY <1>3, GetRangeStep
<1>4. CASE UNCHANGED dvars
  BY <1>4 DEF dvars, DownloadInv, StoreInv, IntactDownload, RangeExact, AllShards,
              LostShards, FullStripe
<1> QED
  BY <1>1, <1>2, <1>3, <1>4 DEF DownloadNext

-----------------------------------------------------------------------------
(* Theorems *)

\* Every reachable state of the download model satisfies the inductive
\* invariant.
THEOREM DownloadSafe == DownloadSpec => []DownloadInv
<1> QED
  BY DownloadInvInit, DownloadInvNext, PTL DEF DownloadSpec

\* While every shard has its row and file, no client is handed wrong bytes as
\* a complete download.
THEOREM IntactDownloads == DownloadSpec => []IntactDownload
<1>1. DownloadInv => IntactDownload
  BY DEF DownloadInv
<1> QED
  BY <1>1, DownloadSafe, PTL

\* While every data shard has its row and file, the bytes GetObject decodes
\* begin with the object's own.
THEOREM DataFirst == DownloadSpec => []DataComesFirst
<1>1. DownloadInv => DataComesFirst
  BY IntactRawData DEF DownloadInv, DataComesFirst, Striped
<1> QED
  BY <1>1, DownloadSafe, PTL

\* A partial answer for a full stripe whose data shards are in place carries the
\* bytes it says it carries, all that a closed range asked for and, for an open
\* one, all to the end, even when the length asked for overflows.
THEOREM RangesExact == DownloadSpec => []RangeExact
<1>1. DownloadInv => RangeExact
  BY DEF DownloadInv
<1> QED
  BY <1>1, DownloadSafe, PTL
=============================================================================

-------------------------- MODULE MarketFeedProofs --------------------------
(***************************************************************************)
(* Proofs about the market feed and the loader that fills its tables.      *)
(***************************************************************************)
EXTENDS MarketFeed, SetLemmas, SequenceTheorems

-----------------------------------------------------------------------------
(* The chunks of a table, and their order. *)

Piece == {c \in [into : Tables, rows : SUBSET Times] :
            IsFiniteSet(c.rows) /\ (c.into \in Instruments => c.rows \subseteq Recorded)}

\* Two chunks have no row in common.
Apart(c, d) == c.into = d.into => c.rows \cap d.rows = {}
AllApart(s) == \A j, k \in DOMAIN s : j # k => Apart(s[j], s[k])

\* s inserts the rows into the table, each once.
Loads(s, table, rows) ==
    /\ s \in Seq(Piece)
    /\ AllApart(s)
    /\ \A c \in ToSet(s) : c.into = table /\ c.rows \subseteq rows
    /\ \A t \in rows : \E c \in ToSet(s) : t \in c.rows

\* As many elements of a finite set of times come before one of them as there
\* are, less one at least.
LEMMA BeforeIsBounded ==
  ASSUME NEW S, IsFiniteSet(S), NEW t \in S, \A x \in S : x \in Int
  PROVE  Before(t, S) \in Nat /\ Before(t, S) < Cardinality(S)
<1> DEFINE U == {u \in S : u < t}
<1>1. U \subseteq S /\ t \notin U
  OBVIOUS
<1> HIDE DEF U
<1>2. IsFiniteSet(U) /\ Cardinality(U) \in Nat /\ Cardinality(S) \in Nat
  BY <1>1, FS_Subset, FS_CardinalityType
<1>3. Cardinality(U) < Cardinality(S)
  BY <1>1, <1>2, FS_Subset, FS_CardinalityType
<1> QED
  BY <1>2, <1>3 DEF Before, U

\* The chunks of a table have its rows, each in one of them.
LEMMA ChunksAreTheRows ==
  ASSUME NEW table \in Tables, NEW rows, IsFiniteSet(rows), \A x \in rows : x \in Times,
         table \in Instruments => rows \subseteq Recorded
  PROVE  Loads(Chunks(table, rows), table, rows)
<1> DEFINE n == (Cardinality(rows) + Chunk - 1) \div Chunk
           chunk(k) == [into |-> table, rows |-> {t \in rows : Before(t, rows) \div Chunk = k - 1}]
           s == [k \in 1..n |-> chunk(k)]
<1>1. s = Chunks(table, rows)
  BY DEF Chunks
<1>2. Chunk \in Nat /\ Chunk # 0 /\ Cardinality(rows) \in Nat
  BY LoaderAssumption, FS_CardinalityType
<1>3. n \in Nat
  <2>1. Cardinality(rows) + Chunk - 1 \in Nat
    BY <1>2
  <2> QED
    BY <1>2, <2>1
<1>4. \A k \in 1..n : chunk(k) \in Piece
  <2>1. \A k \in 1..n : IsFiniteSet({t \in rows : Before(t, rows) \div Chunk = k - 1})
    BY FS_Subset
  <2> QED
    BY <2>1 DEF Piece, Times
<1> HIDE DEF n
<1>5. s \in Seq(Piece)
  BY <1>3, <1>4, IsASeq
<1>6. \A j, k \in 1..n : j # k => chunk(j).rows \cap chunk(k).rows = {}
  OBVIOUS
<1>7. AllApart(s)
  BY <1>6 DEF AllApart, Apart
<1>8. \A c \in ToSet(s) : c.into = table /\ c.rows \subseteq rows
  BY DEF ToSet
<1>9. ASSUME NEW t \in rows PROVE \E c \in ToSet(s) : t \in c.rows
  <2> DEFINE b == Before(t, rows)
             k == b \div Chunk + 1
  <2>1. b \in Nat /\ b < Cardinality(rows)
    BY BeforeIsBounded DEF Times
  <2> HIDE DEF b
  <2>2. b + Chunk <= Cardinality(rows) + Chunk - 1
    BY <1>2, <2>1
  <2>3. (b + Chunk) \div Chunk = b \div Chunk + 1 /\ b \div Chunk \in Nat
    BY <1>2, <2>1
  <2>4. (b + Chunk) \div Chunk <= n
    <3>1. Cardinality(rows) + Chunk - 1 \in Nat /\ b + Chunk \in Nat
      BY <1>2, <2>1
    <3> QED
      BY <1>2, <2>2, <3>1 DEF n
  <2>5. k \in 1..n
    BY <1>3, <2>3, <2>4
  <2>6. t \in chunk(k).rows
    BY <2>3 DEF b
  <2> QED
    BY <2>5, <2>6 DEF ToSet
<1> QED
  BY <1>1, <1>5, <1>7, <1>8, <1>9 DEF Loads

\* Of two elements fewer come before the smaller one.
LEMMA BeforeGrows ==
  ASSUME NEW S, IsFiniteSet(S), NEW t \in S, NEW u \in S, \A x \in S : x \in Int, t < u
  PROVE  Before(t, S) < Before(u, S)
<1> DEFINE T == {x \in S : x < t}
           U == {x \in S : x < u}
<1>1. T \subseteq U /\ t \in U /\ t \notin T /\ U \subseteq S
  OBVIOUS
<1> HIDE DEF T, U
<1>2. IsFiniteSet(U)
  BY <1>1, FS_Subset
<1>3. Cardinality(T) < Cardinality(U)
  BY <1>1, <1>2, FS_Subset, FS_CardinalityType
<1> QED
  BY <1>3 DEF Before, T, U

\* InOrder lists a finite set of times in their order, each of them once.
LEMMA InOrderAscends ==
  ASSUME NEW S, IsFiniteSet(S), \A x \in S : x \in Int
  PROVE  LET s == InOrder(S) IN
         /\ s \in [1..Cardinality(S) -> S]
         /\ s \in Seq(S) /\ Len(s) = Cardinality(S)
         /\ \A j, k \in DOMAIN s : j < k => s[j] < s[k]
         /\ ToSet(s) = S
<1> DEFINE n == Cardinality(S)
           r == [t \in S |-> Before(t, S)]
           s == InOrder(S)
<1>1. n \in Nat
  BY FS_CardinalityType
<1> HIDE DEF n
<1>2. \A t \in S : Before(t, S) \in Nat /\ Before(t, S) < n
  BY BeforeIsBounded DEF n
<1>3. r \in [S -> 0..n - 1]
  BY <1>1, <1>2
<1>4. \A t, u \in S : t # u => r[t] # r[u]
  <2> SUFFICES ASSUME NEW t \in S, NEW u \in S, t < u PROVE r[t] # r[u]
    OBVIOUS
  <2>1. Before(t, S) < Before(u, S)
    BY BeforeGrows
  <2> QED
    BY <1>2, <2>1
<1>5. r \in Injection(S, 0..n - 1)
  BY <1>3, <1>4 DEF Injection, IsInjective
<1>6. IsFiniteSet(0..n - 1) /\ Cardinality(0..n - 1) = n
  BY <1>1, FS_Interval
<1>7. r \in Surjection(S, 0..n - 1)
  BY <1>5, <1>6, FS_Injection DEF n
<1>8. \A k \in 1..n : \E t \in S : Before(t, S) = k - 1
  <2>1. \A q \in 0..n - 1 : \E t \in S : r[t] = q
    BY <1>7 DEF Surjection
  <2>2. \A k \in 1..n : k - 1 \in 0..n - 1
    BY <1>1
  <2> QED
    BY <2>1, <2>2
<1>9. s = [k \in 1..n |-> CHOOSE t \in S : Before(t, S) = k - 1]
  BY DEF InOrder, n
<1> HIDE DEF s
<1>10. \A k \in 1..n : s[k] \in S /\ Before(s[k], S) = k - 1
  BY <1>8, <1>9
<1>11. s \in [1..n -> S]
  BY <1>9, <1>10
<1>12. s \in Seq(S) /\ Len(s) = n
  BY <1>1, <1>11, SeqDef, LenProperties
<1>13. ASSUME NEW j \in 1..n, NEW k \in 1..n, j < k PROVE s[j] < s[k]
  <2>1. s[j] \in S /\ s[k] \in S /\ Before(s[j], S) = j - 1 /\ Before(s[k], S) = k - 1
    BY <1>10
  <2>2. CASE s[k] < s[j]
    BY <1>1, <1>13, <2>1, <2>2, BeforeGrows
  <2>3. s[k] # s[j]
    BY <1>1, <1>13, <2>1
  <2> QED
    BY <2>1, <2>2, <2>3
<1>14. ASSUME NEW t \in S PROVE t \in ToSet(s)
  <2> DEFINE k == Before(t, S) + 1
  <2>1. k \in 1..n
    BY <1>1, <1>2
  <2>2. Before(s[k], S) = Before(t, S)
    BY <1>2, <1>10, <2>1
  <2>3. s[k] = t
    BY <1>4, <1>10, <2>1, <2>2
  <2> QED
    BY <1>11, <2>1, <2>3 DEF ToSet
<1>15. ToSet(s) = S
  BY <1>11, <1>14 DEF ToSet
<1> QED
  BY <1>11, <1>12, <1>13, <1>15 DEF s, n

-----------------------------------------------------------------------------
(* One sequence of chunks after another. *)

\* The elements of two sequences are those of the first and of the second.
LEMMA ConcatElements ==
  ASSUME NEW S, NEW s \in Seq(S), NEW t \in Seq(S)
  PROVE  ToSet(s \o t) = ToSet(s) \cup ToSet(t)
<1> DEFINE m == Len(s)
           n == Len(t)
           u == s \o t
<1>1. /\ m \in Nat /\ n \in Nat /\ DOMAIN s = 1..m /\ DOMAIN t = 1..n
      /\ u \in Seq(S) /\ Len(u) = m + n /\ DOMAIN u = 1..(m + n)
      /\ \A k \in 1..(m + n) : u[k] = IF k <= m THEN s[k] ELSE t[k - m]
  BY ConcatProperties, LenProperties
<1> HIDE DEF m, n, u
<1>2. \A k \in 1..m : k \in 1..(m + n) /\ u[k] = s[k]
  BY <1>1
<1>3. \A k \in 1..n : k + m \in 1..(m + n) /\ u[k + m] = t[k]
  BY <1>1
<1>4. \A k \in 1..(m + n) : k \in 1..m \/ k - m \in 1..n
  BY <1>1
<1>5. ToSet(u) \subseteq ToSet(s) \cup ToSet(t)
  <2>1. ASSUME NEW k \in 1..(m + n) PROVE u[k] \in ToSet(s) \cup ToSet(t)
    <3>1. CASE k <= m
      <4>1. k \in DOMAIN s /\ u[k] = s[k]
        BY <1>1, <3>1
      <4> QED
        BY <4>1 DEF ToSet
    <3>2. CASE k > m
      <4>1. k - m \in DOMAIN t /\ u[k] = t[k - m]
        BY <1>1, <3>2
      <4> QED
        BY <4>1 DEF ToSet
    <3> QED
      BY <1>1, <3>1, <3>2
  <2> QED
    BY <1>1, <2>1 DEF ToSet
<1>6. ToSet(s) \subseteq ToSet(u) /\ ToSet(t) \subseteq ToSet(u)
  <2>1. ASSUME NEW k \in DOMAIN s PROVE s[k] \in ToSet(u)
    BY <1>1, <1>2 DEF ToSet
  <2>2. ASSUME NEW k \in DOMAIN t PROVE t[k] \in ToSet(u)
    <3>1. k + m \in DOMAIN u /\ u[k + m] = t[k]
      BY <1>1, <1>3
    <3> QED
      BY <3>1 DEF ToSet
  <2> QED
    BY <2>1, <2>2 DEF ToSet
<1> QED
  BY <1>5, <1>6 DEF u

\* Chunks that are apart stay so when others are appended that are apart too.
LEMMA ConcatApart ==
  ASSUME NEW S, NEW s \in Seq(S), NEW t \in Seq(S), AllApart(s), AllApart(t),
         \A c \in ToSet(s), d \in ToSet(t) : Apart(c, d)
  PROVE  AllApart(s \o t)
<1> DEFINE m == Len(s)
           n == Len(t)
           u == s \o t
<1>1. /\ m \in Nat /\ n \in Nat /\ DOMAIN s = 1..m /\ DOMAIN t = 1..n
      /\ u \in Seq(S) /\ Len(u) = m + n /\ DOMAIN u = 1..(m + n)
      /\ \A k \in 1..(m + n) : u[k] = IF k <= m THEN s[k] ELSE t[k - m]
  BY ConcatProperties, LenProperties
<1> HIDE DEF m, n, u
<1>2. \A k \in 1..(m + n) : \/ k \in DOMAIN s /\ u[k] = s[k]
                            \/ k > m /\ k - m \in DOMAIN t /\ u[k] = t[k - m]
  BY <1>1
<1>3. \A c, d : Apart(c, d) <=> Apart(d, c)
  BY DEF Apart
<1>4. ASSUME NEW j \in 1..(m + n), NEW k \in 1..(m + n), j < k PROVE Apart(u[j], u[k])
  <2>1. CASE k \in DOMAIN s /\ u[k] = s[k]
    <3>1. j \in DOMAIN s /\ u[j] = s[j]
      BY <1>1, <1>4, <2>1
    <3> QED
      BY <1>1, <1>4, <2>1, <3>1 DEF AllApart
  <2>2. CASE k > m /\ k - m \in DOMAIN t /\ u[k] = t[k - m]
    <3>1. CASE j \in DOMAIN s /\ u[j] = s[j]
      BY <2>2, <3>1 DEF ToSet
    <3>2. CASE j > m /\ j - m \in DOMAIN t /\ u[j] = t[j - m]
      <4>1. j - m # k - m
        BY <1>1, <1>4
      <4> QED
        BY <2>2, <3>2, <4>1 DEF AllApart
    <3> QED
      BY <1>2, <3>1, <3>2
  <2> QED
    BY <1>2, <2>1, <2>2
<1>5. ASSUME NEW j \in 1..(m + n), NEW k \in 1..(m + n), j # k PROVE Apart(u[j], u[k])
  BY <1>1, <1>3, <1>4, <1>5
<1> QED
  BY <1>1, <1>5 DEF AllApart, u

Gathered(seqs, k) == UNION {ToSet(seqs[j]) : j \in 1..k}

\* f[k] is the concatenation of the first k sequences.
FlatTo(f, seqs, n) ==
    f = [i \in 1..n |-> IF i = 1 THEN seqs[i] ELSE f[i - 1] \o seqs[i]]

\* FlatTo, equation by equation.
LEMMA FlatStep ==
  ASSUME NEW f, NEW seqs, NEW n \in Nat, FlatTo(f, seqs, n)
  PROVE  \A i \in 1..n : f[i] = IF i = 1 THEN seqs[i] ELSE f[i - 1] \o seqs[i]
BY DEF FlatTo

\* There is such an f, for every n.
LEMMA FlatExists ==
  ASSUME NEW seqs, NEW n \in Nat
  PROVE  \E f : FlatTo(f, seqs, n)
<1> DEFINE T == {k \in 0..n : \E f : FlatTo(f, seqs, k)}
<1>1. 0 \in T
  <2>1. FlatTo(<<>>, seqs, 0)
    BY DEF FlatTo
  <2> QED
    BY <2>1
<1>2. ASSUME NEW k \in 0..n, k \in T, k # n PROVE k + 1 \in T
  <2>1. PICK f : FlatTo(f, seqs, k)
    BY <1>2
  <2> DEFINE g == [i \in 1..k + 1 |-> IF i = 1 THEN seqs[i] ELSE f[i - 1] \o seqs[i]]
  <2>2. \A i \in 1..k : g[i] = f[i]
    <3>1. \A i \in 1..k : i \in 1..k + 1
      OBVIOUS
    <3> QED
      BY <2>1, <3>1, FlatStep
  <2>3. \A i \in 1..k + 1 : i # 1 => i - 1 \in 1..k
    OBVIOUS
  <2> HIDE DEF g
  <2>4. g = [i \in 1..k + 1 |-> IF i = 1 THEN seqs[i] ELSE f[i - 1] \o seqs[i]]
    BY DEF g
  <2>5. FlatTo(g, seqs, k + 1)
    BY <2>2, <2>3, <2>4 DEF FlatTo
  <2>6. k + 1 \in 0..n
    BY <1>2
  <2> QED
    BY <2>5, <2>6
<1> HIDE DEF T
<1>3. n \in T
  BY <1>1, <1>2, Climb
<1> QED
  BY <1>3 DEF T

\* FlattenSeq has the elements of its sequences, in chunks that are apart if
\* those of each sequence are and those of different sequences.
LEMMA FlatElements ==
  ASSUME NEW S, NEW seqs, NEW n \in Nat, seqs \in [1..n -> Seq(S)], NEW f, FlatTo(f, seqs, n),
         NEW k \in 1..n
  PROVE  /\ f[k] \in Seq(S)
         /\ ToSet(f[k]) = Gathered(seqs, k)
<1> DEFINE T == {i \in 0..n : i # 0 => /\ f[i] \in Seq(S)
                                       /\ ToSet(f[i]) = Gathered(seqs, i)}
<1>1. 0 \in T
  OBVIOUS
<1>2. ASSUME NEW i \in 0..n, i \in T, i # n PROVE i + 1 \in T
  <2>1. i + 1 \in 0..n /\ i + 1 \in 1..n
    BY <1>2
  <2>2. f[i + 1] = IF i + 1 = 1 THEN seqs[i + 1] ELSE f[i + 1 - 1] \o seqs[i + 1]
    BY <2>1, FlatStep
  <2>3. CASE i = 0
    <3>1. f[i + 1] = seqs[1] /\ 1..(i + 1) = {1} /\ i + 1 = 1 /\ i + 1 \in 1..n
      BY <2>1, <2>2, <2>3
    <3>2. Gathered(seqs, i + 1) = ToSet(seqs[1])
      BY <3>1 DEF Gathered
    <3> HIDE DEF T
    <3>3. f[i + 1] \in Seq(S) /\ ToSet(f[i + 1]) = Gathered(seqs, i + 1)
      BY <3>1, <3>2
    <3> USE DEF T
    <3> QED
      BY <2>1, <3>3
  <2>4. CASE i # 0
    <3>1. f[i + 1] = f[i] \o seqs[i + 1] /\ i + 1 - 1 = i
      <4>1. i + 1 - 1 = i /\ i + 1 # 1
        BY <2>4
      <4> QED
        BY <2>2, <4>1
    <3>2. f[i] \in Seq(S) /\ seqs[i + 1] \in Seq(S)
      BY <1>2, <2>1, <2>4
    <3>3. f[i + 1] \in Seq(S)
      BY <3>1, <3>2, ConcatProperties
    <3>4. ToSet(f[i + 1]) = ToSet(f[i]) \cup ToSet(seqs[i + 1])
      BY <3>1, <3>2, ConcatElements
    <3>5. ToSet(f[i]) = Gathered(seqs, i)
      BY <1>2, <2>4
    <3>6. 1..(i + 1) = (1..i) \cup {i + 1}
      BY <2>1
    <3>7. ToSet(f[i + 1]) = Gathered(seqs, i + 1)
      BY <3>4, <3>5, <3>6 DEF Gathered
    <3> QED
      BY <2>1, <3>3, <3>7
  <2> QED
    BY <2>3, <2>4
<1> HIDE DEF T
<1>3. k \in T
  BY <1>1, <1>2, Climb, k \in 0..n
<1> QED
  BY <1>3 DEF T

\* Chunks that are apart within each sequence and between any two stay so.
LEMMA FlatApart ==
  ASSUME NEW S, NEW seqs, NEW n \in Nat, seqs \in [1..n -> Seq(S)], NEW f, FlatTo(f, seqs, n),
         \A j \in 1..n : AllApart(seqs[j]),
         \A i, j \in 1..n : i # j => \A c \in ToSet(seqs[i]), d \in ToSet(seqs[j]) : Apart(c, d),
         NEW k \in 1..n
  PROVE  AllApart(f[k])
<1> DEFINE T == {i \in 0..n : i # 0 => AllApart(f[i])}
<1>1. 0 \in T
  OBVIOUS
<1>2. ASSUME NEW i \in 0..n, i \in T, i # n PROVE i + 1 \in T
  <2>1. i + 1 \in 0..n /\ i + 1 \in 1..n
    BY <1>2
  <2>2. f[i + 1] = IF i + 1 = 1 THEN seqs[i + 1] ELSE f[i + 1 - 1] \o seqs[i + 1]
    BY <2>1, FlatStep
  <2>3. CASE i = 0
    BY <2>1, <2>2, <2>3
  <2>4. CASE i # 0
    <3>1. f[i + 1] = f[i] \o seqs[i + 1] /\ i \in 1..n
      <4>1. i + 1 - 1 = i /\ i + 1 # 1 /\ i \in 1..n
        BY <2>4
      <4> QED
        BY <2>2, <4>1
    <3>2. f[i] \in Seq(S) /\ ToSet(f[i]) = Gathered(seqs, i)
      BY <3>1, FlatElements
    <3>6. seqs[i + 1] \in Seq(S)
      BY <2>1
    <3>3. AllApart(f[i]) /\ AllApart(seqs[i + 1])
      BY <1>2, <2>1, <2>4
    <3>4. ASSUME NEW c \in ToSet(f[i]), NEW d \in ToSet(seqs[i + 1]) PROVE Apart(c, d)
      <4>1. PICK j \in 1..i : c \in ToSet(seqs[j])
        BY <3>2 DEF Gathered
      <4>2. j \in 1..n /\ j # i + 1
        BY <3>1
      <4> QED
        BY <2>1, <4>1, <4>2
    <3>5. AllApart(f[i] \o seqs[i + 1])
      BY <3>2, <3>3, <3>4, <3>6, ConcatApart
    <3> QED
      BY <2>1, <3>1, <3>5
  <2> QED
    BY <2>3, <2>4
<1> HIDE DEF T
<1>3. k \in T
  BY <1>1, <1>2, Climb, k \in 0..n
<1> QED
  BY <1>3 DEF T

\* What FlattenSeq makes of sequences of chunks.
LEMMA Flattened ==
  ASSUME NEW S, NEW seqs, NEW n \in Nat, seqs \in [1..n -> Seq(S)]
  PROVE  /\ FlattenSeq(seqs) \in Seq(S)
         /\ ToSet(FlattenSeq(seqs)) = Gathered(seqs, n)
         /\ /\ \A j \in 1..n : AllApart(seqs[j])
            /\ \A i, j \in 1..n :
                  i # j => \A c \in ToSet(seqs[i]), d \in ToSet(seqs[j]) : Apart(c, d)
            => AllApart(FlattenSeq(seqs))
<1>1. seqs \in Seq(Seq(S)) /\ Len(seqs) = n
  BY SeqDef, LenProperties
<1>2. CASE n = 0
  <2>1. FlattenSeq(seqs) = seqs /\ seqs = <<>> /\ DOMAIN seqs = {}
    BY <1>1, <1>2 DEF FlattenSeq
  <2> QED
    BY <1>2, <2>1 DEF ToSet, AllApart, Gathered
<1>3. CASE n # 0
  <2>1. PICK g : FlatTo(g, seqs, n)
    BY FlatExists
  <2>2. \E f : FlatTo(f, seqs, n) /\ FlattenSeq(seqs) = f[n]
    BY <1>1, <1>3, <2>1 DEF FlattenSeq, FlatTo
  <2>3. PICK f : FlatTo(f, seqs, n) /\ FlattenSeq(seqs) = f[n]
    BY <2>2
  <2>4. n \in 1..n
    BY <1>3
  <2> QED
    <3>1. /\ f[n] \in Seq(S)
          /\ ToSet(f[n]) = Gathered(seqs, n)
      BY <2>3, <2>4, FlatElements
    <3>2. /\ \A j \in 1..n : AllApart(seqs[j])
          /\ \A i, j \in 1..n :
                i # j => \A c \in ToSet(seqs[i]), d \in ToSet(seqs[j]) : Apart(c, d)
          => AllApart(f[n])
      BY <2>3, <2>4, FlatApart
    <3> QED
      BY <2>3, <3>1, <3>2
<1> QED
  BY <1>2, <1>3

-----------------------------------------------------------------------------
(* What a plan inserts. *)

\* A plan loads the tables that have nothing yet, each as its chunks do.
LEMMA PlanLoads ==
  ASSUME NEW order, order \in Seq(ToSet(order)), IsInjective(order),
         NEW have, NEW rows, NEW goal,
         \A i \in ToSet(order) : Loads(rows[i], i, goal[i])
  PROVE  /\ Plan(order, have, rows) \in Seq(Piece)
         /\ AllApart(Plan(order, have, rows))
         /\ \A c \in ToSet(Plan(order, have, rows)) :
               c.into \in ToSet(order) \ have /\ c.rows \subseteq goal[c.into]
         /\ \A i \in ToSet(order) \ have : \A t \in goal[i] :
               \E c \in ToSet(Plan(order, have, rows)) : c.into = i /\ t \in c.rows
<1> DEFINE n == Len(order)
           part(k) == IF order[k] \in have THEN <<>> ELSE rows[order[k]]
           seqs == [k \in 1..n |-> part(k)]
           s == FlattenSeq(seqs)
<1>1. n \in Nat /\ DOMAIN order = 1..n /\ \A k \in 1..n : order[k] \in ToSet(order)
  BY LenProperties DEF ToSet
<1>2. Plan(order, have, rows) = s
  BY <1>1 DEF Plan
<1> HIDE DEF n
<1>3. ASSUME NEW k \in 1..n
      PROVE  /\ part(k) \in Seq(Piece) /\ AllApart(part(k))
             /\ \A c \in ToSet(part(k)) : /\ order[k] \notin have
                                          /\ c.into = order[k] /\ c.rows \subseteq goal[order[k]]
             /\ order[k] \notin have => \A t \in goal[order[k]] : \E c \in ToSet(part(k)) : t \in c.rows
  <2>1. CASE order[k] \in have
    <3>1. part(k) = <<>> /\ part(k) \in Seq(Piece) /\ ToSet(part(k)) = {}
      BY <2>1, EmptySeq DEF ToSet
    <3> QED
      BY <2>1, <3>1 DEF AllApart
  <2>2. CASE order[k] \notin have
    BY <1>1, <2>2 DEF Loads
  <2> QED
    BY <2>1, <2>2
<1> HIDE DEF part
<1>4. seqs \in [1..n -> Seq(Piece)]
  BY <1>3
<1>5. \A j \in 1..n : AllApart(seqs[j])
  BY <1>3
<1>6. \A i, j \in 1..n : i # j => \A c \in ToSet(seqs[i]), d \in ToSet(seqs[j]) : Apart(c, d)
  <2> SUFFICES ASSUME NEW i \in 1..n, NEW j \in 1..n, i # j,
                      NEW c \in ToSet(seqs[i]), NEW d \in ToSet(seqs[j])
               PROVE  Apart(c, d)
    OBVIOUS
  <2>1. c.into = order[i] /\ d.into = order[j]
    BY <1>3
  <2>2. order[i] # order[j]
    BY <1>1 DEF IsInjective
  <2> QED
    BY <2>1, <2>2 DEF Apart
<1> HIDE DEF seqs
<1>7. s \in Seq(Piece) /\ ToSet(s) = Gathered(seqs, n)
  BY <1>1, <1>4, Flattened
<1>8. AllApart(s)
  BY <1>1, <1>4, <1>5, <1>6, Flattened
<1>9. ASSUME NEW c \in ToSet(s)
      PROVE  c.into \in ToSet(order) \ have /\ c.rows \subseteq goal[c.into]
  <2>1. PICK j \in 1..n : c \in ToSet(seqs[j])
    BY <1>7 DEF Gathered
  <2>2. c \in ToSet(part(j))
    BY <2>1 DEF seqs
  <2> QED
    BY <1>1, <1>3, <2>2
<1>10. ASSUME NEW i \in ToSet(order) \ have, NEW t \in goal[i]
       PROVE  \E c \in ToSet(s) : c.into = i /\ t \in c.rows
  <2>1. PICK k \in 1..n : order[k] = i
    BY <1>1 DEF ToSet
  <2>2. PICK c \in ToSet(part(k)) : t \in c.rows
    BY <1>3, <2>1
  <2>3. c.into = i
    BY <1>3, <2>1, <2>2
  <2>4. c \in ToSet(s)
    BY <1>7, <2>2 DEF Gathered, seqs
  <2> QED
    BY <2>2, <2>3, <2>4
<1> HIDE DEF s
<1> QED
  BY <1>2, <1>7, <1>8, <1>9, <1>10

\* The times of which there may be a row, one by one.
LEMMA RecordedHas ==
  \A t : t \in Recorded <=> \/ \E tables \in Existing, i \in Instruments : t \in tables[i]
                            \/ \E i \in ToSet(Equities) : t \in Historical[i] \cup Live[i]
                            \/ t \in Backfill
<1> DEFINE A == UNION {UNION {tables[i] : i \in Instruments} : tables \in Existing}
           B == UNION {Historical[i] \cup Live[i] : i \in ToSet(Equities)}
<1>1. \A t : t \in A <=> \E tables \in Existing, i \in Instruments : t \in tables[i]
  OBVIOUS
<1>2. \A t : t \in B <=> \E i \in ToSet(Equities) : t \in Historical[i] \cup Live[i]
  OBVIOUS
<1>3. Recorded = A \cup B \cup Backfill
  BY Zenon DEF Recorded
<1> HIDE DEF A, B
<1> QED
  BY <1>1, <1>2, <1>3

\* What the files of an equity have for its table.
Stock(i) == {t \in Historical[i] : t < LiveStart} \cup Live[i]

\* The files of an equity make chunks that load its stock.
LEMMA FilesLoad ==
  ASSUME NEW i \in ToSet(Equities)
  PROVE  Loads(Files[i], i, Stock(i))
<1> DEFINE old == {t \in Historical[i] : t < LiveStart}
           a == Chunks(i, old)
           b == Chunks(i, Live[i])
<1>1. i \in Tables /\ i \in Instruments
  BY DEF Tables, Instruments, Universe
<1>2. /\ IsFiniteSet(Historical[i]) /\ IsFiniteSet(Live[i])
      /\ Historical[i] \subseteq Times /\ Live[i] \subseteq Times
      /\ \A t \in Live[i] : t >= LiveStart
  BY FileAssumption
<1>3. Historical[i] \subseteq Recorded /\ Live[i] \subseteq Recorded
  BY RecordedHas
<1>4. IsFiniteSet(old)
  BY <1>2, FS_Subset
<1>5. Loads(a, i, old)
  BY <1>1, <1>2, <1>3, <1>4, ChunksAreTheRows
<1>6. Loads(b, i, Live[i])
  BY <1>1, <1>2, <1>3, ChunksAreTheRows
<1>7. Files[i] = a \o b
  BY DEF Files
<1>8. old \cap Live[i] = {}
  BY <1>2, LoaderAssumption DEF Times
<1>9. Stock(i) = old \cup Live[i]
  BY DEF Stock
<1> HIDE DEF a, b, old
<1>10. a \o b \in Seq(Piece) /\ ToSet(a \o b) = ToSet(a) \cup ToSet(b)
  BY <1>5, <1>6, ConcatProperties, ConcatElements DEF Loads
<1>11. \A c \in ToSet(a), d \in ToSet(b) : Apart(c, d)
  BY <1>5, <1>6, <1>8 DEF Loads, Apart
<1>12. AllApart(a \o b)
  BY <1>5, <1>6, <1>11, ConcatApart DEF Loads
<1> QED
  BY <1>5, <1>6, <1>7, <1>9, <1>10, <1>12 DEF Loads

-----------------------------------------------------------------------------
(* The types of what the loader keeps. *)

LoadTypes ==
    /\ stored \in [Tables -> SUBSET Times]
    /\ \A table \in Tables : IsFiniteSet(stored[table])
    /\ \A i \in Instruments : stored[i] \subseteq Recorded
    /\ tradable \in {Universe, Instruments}
    /\ loader \in [at   : {"start", "ticks", "bonds", "news", "loaded", "dead"},
                   have : SUBSET Instruments,
                   rest : Seq(Piece)]
    /\ faults \in 0..MaxFaults

\* The invariant has the types in it.
LEMMA LoadTypesAreTypes == LoadTypes => LoaderTypeOK
<1> SUFFICES ASSUME LoadTypes PROVE LoaderTypeOK
  OBVIOUS
<1>1. loader.rest \in Seq(Piece)
  BY DEF LoadTypes
<1>2. \A k \in DOMAIN loader.rest : loader.rest[k] \in Piece
  BY <1>1, LenProperties
<1>3. \A k \in DOMAIN loader.rest : loader.rest[k].into \in Tables
  BY <1>2 DEF Piece
<1> QED
  BY <1>3 DEF LoadTypes, LoaderTypeOK

\* What may be recorded is a time.
LEMMA RecordedIsTimes == Recorded \subseteq Times
<1>1. \A tables \in Existing, i \in Instruments : tables[i] \subseteq Times
  BY LoaderAssumption DEF Tables
<1>2. \A i \in ToSet(Equities) : Historical[i] \cup Live[i] \subseteq Times
  BY FileAssumption
<1>3. Backfill \subseteq Times
  BY FileAssumption, LoaderAssumption DEF Times
<1> QED
  BY <1>1, <1>2, <1>3, RecordedHas

\* The first of some equities is one of them.
LEMMA FirstEquity ==
  ASSUME NEW any, any \subseteq DOMAIN Equities, any # {}
  PROVE  Min(any) \in any /\ Equities[Min(any)] \in ToSet(Equities)
<1>1. DOMAIN Equities = 1..Len(Equities) /\ Len(Equities) \in Nat
  BY UniverseAssumption, LenProperties
<1>2. any \in SUBSET (1..Len(Equities)) /\ \A k \in any : k \in Int
  BY <1>1
<1>3. IsFiniteSet(1..Len(Equities))
  BY <1>1, FS_Interval
<1>4. IsFiniteSet(any)
  BY <1>2, <1>3, FS_Subset
<1>5. Min(any) \in any
  BY <1>2, <1>4, MinProperties
<1> QED
  BY <1>5 DEF ToSet

\* The minutes of the first equity that has any are a finite set of times.
LEMMA MinutesAreTimes ==
  ASSUME LoadTypes
  PROVE  IsFiniteSet(ReferenceMinutes) /\ ReferenceMinutes \subseteq Recorded
<1> DEFINE any == {k \in DOMAIN Equities : Minutes(Equities[k]) # {}}
<1>1. CASE any = {}
  BY <1>1, FS_EmptySet DEF ReferenceMinutes
<1>2. CASE any # {}
  <2>4. ReferenceMinutes = Minutes(Equities[Min(any)])
    BY <1>2 DEF ReferenceMinutes
  <2>7. Equities[Min(any)] \in ToSet(Equities)
    BY <1>2, FirstEquity
  <2> DEFINE i == Equities[Min(any)]
  <2> HIDE DEF i
  <2>8. i \in Instruments /\ i \in Tables
    BY <2>7 DEF i, Tables, Instruments, Universe
  <2>9. Minutes(i) \in SUBSET stored[i]
    BY DEF Minutes
  <2>10. IsFiniteSet(stored[i]) /\ stored[i] \subseteq Recorded
    BY <2>8 DEF LoadTypes
  <2>11. IsFiniteSet(Minutes(i))
    BY <2>9, <2>10, FS_Subset
  <2> QED
    BY <2>4, <2>9, <2>10, <2>11 DEF i
<1> QED
  BY <1>1, <1>2

\* The series of a bond makes chunks that load it.
LEMMA SeriesLoad ==
  ASSUME LoadTypes, NEW i \in ToSet(Bonds)
  PROVE  Loads(Series[i], i, Backfill \cup ReferenceMinutes)
<1> DEFINE rows == Backfill \cup ReferenceMinutes
<1>1. i \in Tables
  BY DEF Tables, Instruments, Universe
<1>2. Backfill \in SUBSET (0..LiveStart) /\ IsFiniteSet(0..LiveStart)
  <2>1. LiveStart \in Nat
    BY LoaderAssumption
  <2>2. IsFiniteSet(0..LiveStart)
    BY <2>1, FS_Interval
  <2> QED
    BY <2>2, FileAssumption
<1>3. IsFiniteSet(Backfill)
  BY <1>2, FS_Subset
<1>4. IsFiniteSet(rows)
  BY <1>3, MinutesAreTimes, FS_Union
<1>5. rows \subseteq Recorded
  BY MinutesAreTimes, RecordedHas
<1>6. Series[i] = Chunks(i, rows)
  BY DEF Series
<1> HIDE DEF rows
<1>7. \A t \in rows : t \in Times
  BY <1>5, RecordedIsTimes
<1>8. Loads(Chunks(i, rows), i, rows)
  BY <1>1, <1>4, <1>5, <1>7, ChunksAreTheRows
<1> QED
  BY <1>6, <1>8 DEF rows

\* The news, one file at a time.
NewsPlan == [k \in DOMAIN InOrder(NewsFiles) |-> NewsFile(InOrder(NewsFiles)[k])]

\* The files of the news are one chunk each.
LEMMA NewsLoad == Loads(NewsPlan, News, NewsFiles)
<1> DEFINE s == InOrder(NewsFiles)
           n == Cardinality(NewsFiles)
<1>1. IsFiniteSet(NewsFiles) /\ \A t \in NewsFiles : t \in Times /\ t \in Int
  BY FileAssumption DEF Times
<1>2. /\ s \in [1..n -> NewsFiles] /\ ToSet(s) = NewsFiles
      /\ \A j, k \in DOMAIN s : j < k => s[j] < s[k]
  BY <1>1, InOrderAscends
<1>3. n \in Nat
  BY <1>1, FS_CardinalityType
<1> HIDE DEF s, n
<1>4. NewsPlan = [k \in 1..n |-> NewsFile(s[k])]
  BY <1>2 DEF NewsPlan, s
<1>5. ASSUME NEW k \in 1..n PROVE NewsFile(s[k]) \in Piece
  <2>1. s[k] \in Times
    BY <1>1, <1>2
  <2>2. IsFiniteSet({s[k]})
    BY FS_Singleton
  <2> QED
    BY <2>1, <2>2, UniverseAssumption DEF NewsFile, Piece, Tables
<1>6. NewsPlan \in Seq(Piece)
  <2>1. NewsPlan \in [1..n -> Piece]
    BY <1>4, <1>5
  <2> QED
    BY <1>3, <2>1, SeqDef
<1>7. ASSUME NEW j \in 1..n, NEW k \in 1..n, j # k PROVE s[j] # s[k]
  <2>1. s[j] \in Int /\ s[k] \in Int
    BY <1>1, <1>2
  <2>2. j < k \/ k < j
    BY <1>3, <1>7
  <2> QED
    BY <1>2, <2>1, <2>2
<1>8. AllApart(NewsPlan)
  BY <1>4, <1>7 DEF AllApart, Apart, NewsFile
<1>9. \A c \in ToSet(NewsPlan) : c.into = News /\ c.rows \subseteq NewsFiles
  BY <1>2, <1>4 DEF ToSet, NewsFile
<1>10. ASSUME NEW t \in NewsFiles PROVE \E c \in ToSet(NewsPlan) : t \in c.rows
  <2>1. PICK k \in 1..n : s[k] = t
    BY <1>2 DEF ToSet
  <2>2. t \in NewsPlan[k].rows /\ k \in DOMAIN NewsPlan
    BY <1>4, <2>1 DEF NewsFile
  <2> QED
    BY <2>2 DEF ToSet
<1> QED
  BY <1>6, <1>8, <1>9, <1>10 DEF Loads

\* The plan of the equities skips those that have rows and loads the others.
LEMMA TicksPlan ==
  ASSUME NEW have
  PROVE  LET s == Plan(Equities, have, Files) IN
         /\ s \in Seq(Piece) /\ AllApart(s)
         /\ \A c \in ToSet(s) : c.into \in ToSet(Equities) \ have /\ c.rows \subseteq Stock(c.into)
         /\ \A i \in ToSet(Equities) \ have : \A t \in Stock(i) :
               \E c \in ToSet(s) : c.into = i /\ t \in c.rows
<1> DEFINE goal == [i \in ToSet(Equities) |-> Stock(i)]
           s == Plan(Equities, have, Files)
<1>1. \A i \in ToSet(Equities) : Loads(Files[i], i, goal[i])
  BY FilesLoad
<1>2. Equities \in Seq(ToSet(Equities)) /\ IsInjective(Equities)
  BY UniverseAssumption
<1> HIDE DEF goal
<1>3. /\ s \in Seq(Piece) /\ AllApart(s)
      /\ \A c \in ToSet(s) : c.into \in ToSet(Equities) \ have /\ c.rows \subseteq goal[c.into]
      /\ \A i \in ToSet(Equities) \ have : \A t \in goal[i] :
            \E c \in ToSet(s) : c.into = i /\ t \in c.rows
  BY <1>1, <1>2, PlanLoads
<1>4. \A i \in ToSet(Equities) : goal[i] = Stock(i)
  BY DEF goal
<1> HIDE DEF s
<1> QED
  BY <1>3, <1>4 DEF s

\* So does the plan of the bonds.
LEMMA BondsPlan ==
  ASSUME LoadTypes, NEW have
  PROVE  LET s == Plan(Bonds, have, Series) IN
         /\ s \in Seq(Piece) /\ AllApart(s)
         /\ \A c \in ToSet(s) : c.into \in ToSet(Bonds) \ have
                                /\ c.rows \subseteq Backfill \cup ReferenceMinutes
         /\ \A i \in ToSet(Bonds) \ have : \A t \in Backfill \cup ReferenceMinutes :
               \E c \in ToSet(s) : c.into = i /\ t \in c.rows
<1> DEFINE goal == [i \in ToSet(Bonds) |-> Backfill \cup ReferenceMinutes]
           s == Plan(Bonds, have, Series)
<1>1. \A i \in ToSet(Bonds) : Loads(Series[i], i, goal[i])
  BY SeriesLoad
<1>2. Bonds \in Seq(ToSet(Bonds)) /\ IsInjective(Bonds)
  BY UniverseAssumption
<1> HIDE DEF goal
<1>3. /\ s \in Seq(Piece) /\ AllApart(s)
      /\ \A c \in ToSet(s) : c.into \in ToSet(Bonds) \ have /\ c.rows \subseteq goal[c.into]
      /\ \A i \in ToSet(Bonds) \ have : \A t \in goal[i] :
            \E c \in ToSet(s) : c.into = i /\ t \in c.rows
  BY <1>1, <1>2, PlanLoads
<1>4. \A i \in ToSet(Bonds) : goal[i] = Backfill \cup ReferenceMinutes
  BY DEF goal
<1> HIDE DEF s
<1> QED
  BY <1>3, <1>4 DEF s

\* The chunk that is committed, and those that are left.
LEMMA Committed ==
  ASSUME LoadTypes, CommitChunk
  PROVE  \E chunk \in Piece :
            /\ ToSet(loader.rest) = {chunk} \cup ToSet(loader'.rest)
            /\ \A k \in DOMAIN loader.rest : k = 1 => loader.rest[k] = chunk
            /\ 1 \in DOMAIN loader.rest
            /\ \A k \in DOMAIN loader'.rest : /\ k + 1 \in DOMAIN loader.rest /\ k + 1 # 1
                                             /\ loader'.rest[k] = loader.rest[k + 1]
            /\ \A j, k \in DOMAIN loader'.rest : j # k => j + 1 # k + 1
            /\ stored' = [stored EXCEPT ![chunk.into] = @ \cup chunk.rows]
            /\ loader' = [loader EXCEPT !.rest = Tail(loader.rest)]
            /\ loader'.rest = Tail(loader.rest) /\ Tail(loader.rest) \in Seq(Piece)
<1> DEFINE s == loader.rest
           t == Tail(loader.rest)
<1>1. s \in Seq(Piece) /\ s # <<>>
  BY DEF LoadTypes, CommitChunk
<1>2. loader' = [loader EXCEPT !.rest = t] /\ loader'.rest = t
  BY DEF LoadTypes, CommitChunk
<1>3. stored' = [stored EXCEPT ![Head(s).into] = @ \cup Head(s).rows]
  BY DEF CommitChunk
<1> HIDE DEF s, t
<1>4. /\ Head(s) \in Piece /\ t \in Seq(Piece) /\ Len(t) = Len(s) - 1
      /\ \A i \in 1 .. Len(t) : t[i] = s[i + 1]
  BY <1>1, HeadTailProperties DEF s, t
<1>5. /\ DOMAIN s = 1..Len(s) /\ DOMAIN t = 1..Len(t) /\ Len(s) \in Nat /\ Len(t) \in Nat
      /\ Head(s) = s[1]
  BY <1>1, <1>4, LenProperties
<1>6. \A k \in DOMAIN t : k + 1 \in DOMAIN s /\ k + 1 # 1 /\ t[k] = s[k + 1]
  BY <1>4, <1>5
<1>7. ASSUME NEW k \in DOMAIN s, k # 1 PROVE k - 1 \in DOMAIN t /\ t[k - 1] = s[k]
  <2>1. k - 1 \in 1..Len(t) /\ k - 1 + 1 = k
    BY <1>4, <1>5, <1>7
  <2> QED
    BY <1>4, <1>5, <2>1
<1>8. 1 \in DOMAIN s
  BY <1>4, <1>5
<1>9. ToSet(s) = {Head(s)} \cup ToSet(t)
  <2>1. ASSUME NEW k \in DOMAIN s PROVE s[k] \in {Head(s)} \cup ToSet(t)
    BY <1>5, <1>7 DEF ToSet
  <2>2. ASSUME NEW k \in DOMAIN t PROVE t[k] \in ToSet(s)
    BY <1>6 DEF ToSet
  <2>3. Head(s) \in ToSet(s)
    BY <1>5, <1>8 DEF ToSet
  <2> QED
    BY <2>1, <2>2, <2>3 DEF ToSet
<1>10. \A j, k \in DOMAIN t : j # k => j + 1 # k + 1
  BY <1>5
<1> QED
  BY <1>2, <1>3, <1>4, <1>5, <1>6, <1>8, <1>9, <1>10 DEF s, t

\* The loader starts with its types.
LEMMA LoadTypesAtFirst == LoaderInit => LoadTypes
<1> SUFFICES ASSUME LoaderInit PROVE LoadTypes
  OBVIOUS
<1>1. stored \in Existing
  BY DEF LoaderInit
<1>2. /\ stored \in [Tables -> SUBSET Times]
      /\ \A table \in Tables : IsFiniteSet(stored[table])
  BY <1>1, LoaderAssumption
<1>3. \A i \in Instruments : stored[i] \subseteq Recorded
  BY <1>1, RecordedHas
<1>4. loader = [at |-> "start", have |-> {}, rest |-> <<>>] /\ <<>> \in Seq(Piece)
  BY EmptySeq DEF LoaderInit, Loading
<1>5. faults \in 0..MaxFaults
  BY LoaderAssumption DEF LoaderInit
<1>6. tradable = Instruments
  BY DEF LoaderInit
<1> QED
  BY <1>2, <1>3, <1>4, <1>5, <1>6 DEF LoadTypes

\* A chunk that is committed keeps the types of the tables.
LEMMA CommitTypes ==
  ASSUME LoadTypes, CommitChunk
  PROVE  /\ LoadTypes'
         /\ \A table \in Tables : stored[table] \subseteq stored'[table]
<1>1. PICK chunk \in Piece :
         /\ stored' = [stored EXCEPT ![chunk.into] = @ \cup chunk.rows]
         /\ loader' = [loader EXCEPT !.rest = Tail(loader.rest)]
         /\ Tail(loader.rest) \in Seq(Piece)
  BY Committed
<1>2. /\ chunk.into \in Tables /\ chunk.rows \subseteq Times /\ IsFiniteSet(chunk.rows)
      /\ chunk.into \in Instruments => chunk.rows \subseteq Recorded
  BY DEF Piece
<1>3. stored \in [Tables -> SUBSET Times]
  BY DEF LoadTypes
<1>4. \A table \in Tables : stored'[table] = IF table = chunk.into THEN stored[table] \cup chunk.rows
                                             ELSE stored[table]
  BY <1>1, <1>3
<1>5. stored' \in [Tables -> SUBSET Times]
  BY <1>1, <1>2, <1>3
<1>6. ASSUME NEW table \in Tables PROVE IsFiniteSet(stored'[table])
  <2>1. IsFiniteSet(stored[table])
    BY DEF LoadTypes
  <2>2. IsFiniteSet(stored[table] \cup chunk.rows)
    BY <1>2, <2>1, FS_Union
  <2> QED
    BY <1>4, <2>1, <2>2
<1>7. ASSUME NEW i \in Instruments PROVE stored'[i] \subseteq Recorded
  <2>1. stored[i] \subseteq Recorded /\ i \in Tables
    BY DEF LoadTypes, Tables
  <2> QED
    BY <1>2, <1>4, <2>1
<1>8. tradable' \in {Universe, Instruments} /\ faults' \in 0..MaxFaults
  BY DEF CommitChunk, EnsureInstruments, LoadTypes
<1>9. loader' \in [at   : {"start", "ticks", "bonds", "news", "loaded", "dead"},
                   have : SUBSET Instruments,
                   rest : Seq(Piece)]
  BY <1>1 DEF LoadTypes
<1> QED
  BY <1>4, <1>5, <1>6, <1>7, <1>8, <1>9 DEF LoadTypes

\* Whatever else the loader does, it leaves the tables alone.
LEMMA LoaderTypes ==
  ASSUME LoadTypes, Load \/ LoadFault
  PROVE  /\ LoadTypes'
         /\ \A table \in Tables : stored[table] \subseteq stored'[table]
<1>1. CASE CommitChunk
  BY <1>1, CommitTypes
<1>2. ASSUME stored' = stored,
             tradable' \in {Universe, Instruments}, faults' \in 0..MaxFaults,
             loader' \in [at   : {"start", "ticks", "bonds", "news", "loaded", "dead"},
                          have : SUBSET Instruments,
                          rest : Seq(Piece)]
      PROVE  LoadTypes' /\ \A table \in Tables : stored[table] \subseteq stored'[table]
  BY <1>2 DEF LoadTypes
<1>3. tradable \in {Universe, Instruments} /\ faults \in 0..MaxFaults /\ loader.have \subseteq Instruments
  BY DEF LoadTypes
<1>4. CASE BeginLoad
  <2>1. Plan(Equities, HaveTicks, Files) \in Seq(Piece)
    BY TicksPlan
  <2>2. HaveTicks \subseteq Instruments
    BY DEF HaveTicks
  <2> QED
    BY <1>2, <1>3, <1>4, <2>1, <2>2 DEF BeginLoad, Loading
<1>5. CASE PlanBonds
  <2>1. Plan(Bonds, loader.have, Series) \in Seq(Piece)
    BY BondsPlan
  <2> QED
    BY <1>2, <1>3, <1>5, <2>1 DEF PlanBonds, Loading
<1>6. CASE PlanNews
  <2>1. NewsPlan \in Seq(Piece) /\ <<>> \in Seq(Piece)
    BY NewsLoad, EmptySeq DEF Loads
  <2>2. loader' = Loading("news", {}, IF stored[News] # {} THEN <<>> ELSE NewsPlan)
    BY <1>6 DEF PlanNews, NewsPlan
  <2> QED
    BY <1>2, <1>3, <1>6, <2>1, <2>2 DEF PlanNews, Loading
<1>7. CASE EndLoad
  <2>1. <<>> \in Seq(Piece)
    BY EmptySeq
  <2> QED
    BY <1>2, <1>3, <1>7, <2>1 DEF EndLoad, Loading, EnsureInstruments
<1>8. CASE LoadFault
  <2>1. <<>> \in Seq(Piece)
    BY EmptySeq
  <2>2. faults' \in 0..MaxFaults
    BY <1>3, <1>8, LoaderAssumption DEF LoadFault
  <2> QED
    BY <1>2, <1>3, <1>8, <2>1, <2>2 DEF LoadFault, Loading
<1> QED
  BY <1>1, <1>4, <1>5, <1>6, <1>7, <1>8 DEF Load

-----------------------------------------------------------------------------
(* The types of the feed, and the range of a latest price. *)

\* A latest price is the close of a row; its range has the open and the price,
\* and is within that of the rows of its day.
SnapOK(i) ==
    latest[i] # Nothing =>
        LET snap == latest[i]  today == {t \in stored[i] : Day(t) = Day(snap.ts)} IN
        /\ snap.ts \in stored[i] /\ snap.price = Tape[i][snap.ts].close
        /\ {snap.low, snap.high} \subseteq Int
        /\ snap.open \in snap.low..snap.high /\ snap.price \in snap.low..snap.high
        /\ \E t \in today : snap.high <= Tape[i][t].high
        /\ \E t \in today : snap.low >= Tape[i][t].low

WarmState  == [at : {"warm"}, missing : SUBSET Instruments,
               on : Instruments \cup {Nothing}, row : Times \cup {Nothing}]

ChartState(c) == [at : {"clock", "day", "served"}, on : {c.on}, days : {c.days},
                  clock : {c.clock}, ref : {c.ref}, rows : {c.rows}, candles : {c.candles}]

HandlerOK(h) ==
    \/ handler[h] = Idle
    \/ h = Boot /\ handler[h] = [at |-> "replaying"]
    \/ /\ handler[h] \in WarmState
       /\ handler[h].on # Nothing => handler[h].row \in stored[handler[h].on] \cup {Nothing}
    \/ h \in Handlers /\ handler[h] \in ChartState(handler[h])

Playable == UNION {stored[i] : i \in Instruments}

FeedTypes ==
    /\ simNow \in Times \cup {Nothing}
    /\ replay \in [bars : SUBSET Playable, at : Times \cup {Nothing}]
    /\ replay.at \in replay.bars \cup {Nothing}
    /\ DOMAIN latest = Instruments /\ \A i \in Instruments : SnapOK(i)
    /\ DOMAIN handler = Workers /\ \A h \in Workers : HandlerOK(h)

\* A row that may be stored is a candle.
LEMMA RowsAreCandles ==
  ASSUME LoadTypes, NEW i \in Instruments, NEW t \in stored[i]
  PROVE  /\ t \in Times
         /\ Tape[i][t].low \in Int /\ Tape[i][t].high \in Int
         /\ Tape[i][t].open \in Tape[i][t].low..Tape[i][t].high
         /\ Tape[i][t].close \in Tape[i][t].low..Tape[i][t].high
<1>1. t \in Recorded
  BY DEF LoadTypes
<1>2. t \in Times
  BY <1>1, RecordedIsTimes
<1>3. Tape[i][t] \in Candle /\ {Tape[i][t].open, Tape[i][t].close} \subseteq Tape[i][t].low..Tape[i][t].high
  BY <1>1, TapeAssumption
<1> QED
  BY <1>2, <1>3 DEF Candle

\* The greater and the lesser of two.
LEMMA MaxOfTwo ==
  ASSUME NEW a \in Int, NEW b \in Int
  PROVE  /\ Max({a, b}) = (IF a >= b THEN a ELSE b)
         /\ Min({a, b}) = (IF a <= b THEN a ELSE b)
<1> DEFINE S == {a, b}
<1>1. IsFiniteSet({a}) /\ S = {a} \cup {b}
  BY FS_Singleton
<1>2. IsFiniteSet(S)
  BY <1>1, FS_AddElement
<1>3. S # {} /\ \A x \in S : x \in Int
  OBVIOUS
<1> HIDE DEF S
<1>4. Max(S) \in S /\ Min(S) \in S /\ \A x \in S : Max(S) >= x /\ Min(S) <= x
  BY <1>2, <1>3, MaxProperties, MinProperties
<1> QED
  BY <1>4 DEF S

\* An entry that is left alone stays right: the tables only grow.
LEMMA SnapKept ==
  ASSUME NEW i \in Instruments, SnapOK(i), latest'[i] = latest[i], stored[i] \subseteq stored'[i]
  PROVE  SnapOK(i)'
BY DEF SnapOK, Day

\* An entry warmed from a row is of its day.
LEMMA SnapOfRow ==
  ASSUME LoadTypes, NEW i \in Instruments, NEW t \in stored[i], stored' = stored,
         LET c == Tape[i][t] IN latest'[i] = Snapshot(c.close, t, c.open, c.high, c.low)
  PROVE  SnapOK(i)'
BY RowsAreCandles DEF SnapOK, Snapshot, Day

\* An entry that is ticked stays within its day, or opens the next.
LEMMA SnapOfTick ==
  ASSUME LoadTypes, NEW i \in Instruments, NEW t \in stored[i], stored' = stored, SnapOK(i),
         latest'[i] = Ticked(latest[i], Tape[i][t].close, t)
  PROVE  SnapOK(i)'
<1> DEFINE p == Tape[i][t].close
<1>1. /\ p \in Int /\ Tape[i][t].low \in Int /\ Tape[i][t].high \in Int
      /\ Tape[i][t].low <= p /\ p <= Tape[i][t].high
  BY RowsAreCandles
<1>2. CASE latest'[i] = Snapshot(p, t, p, p, p)
  BY <1>1, <1>2 DEF SnapOK, Snapshot, Day
<1>3. CASE /\ latest[i] # Nothing /\ Day(latest[i].ts) = Day(t)
           /\ LET snap == latest[i] IN
              latest'[i] = Snapshot(p, t, snap.open, Max({snap.high, p}), Min({snap.low, p}))
  <2> DEFINE snap == latest[i]
             today == {u \in stored[i] : Day(u) = Day(t)}
  <2>1. /\ snap.low \in Int /\ snap.high \in Int
        /\ snap.open \in snap.low..snap.high
        /\ \E u \in today : snap.high <= Tape[i][u].high
        /\ \E u \in today : snap.low >= Tape[i][u].low
    BY <1>3 DEF SnapOK
  <2>2. /\ Max({snap.high, p}) = (IF snap.high >= p THEN snap.high ELSE p)
        /\ Min({snap.low, p}) = (IF snap.low <= p THEN snap.low ELSE p)
    BY <1>1, <2>1, MaxOfTwo
  <2>3. t \in today
    OBVIOUS
  <2> DEFINE high == Max({snap.high, p})
             low  == Min({snap.low, p})
  <2>4. \E u \in today : high <= Tape[i][u].high
    BY <1>1, <2>1, <2>2, <2>3
  <2>5. \E u \in today : low >= Tape[i][u].low
    BY <1>1, <2>1, <2>2, <2>3
  <2>6. low \in Int /\ high \in Int /\ snap.open \in low..high /\ p \in low..high
    BY <1>1, <2>1, <2>2
  <2>7. latest'[i] = Snapshot(p, t, snap.open, high, low)
    BY <1>3
  <2> HIDE DEF high, low, snap
  <2>8. Day(t)' = Day(t) /\ \A u : Day(u)' = Day(u)
    BY DEF Day
  <2> QED
    BY <2>3, <2>4, <2>5, <2>6, <2>7, <2>8 DEF SnapOK, Snapshot, Day
<1> QED
  BY <1>2, <1>3 DEF Ticked

\* What a request has read stays right, whatever is inserted meanwhile.
LEMMA HandlerKept ==
  ASSUME NEW h \in Workers, HandlerOK(h), handler'[h] = handler[h],
         \A table \in Tables : stored[table] \subseteq stored'[table]
  PROVE  HandlerOK(h)'
<1>1. Instruments \subseteq Tables
  BY DEF Tables
<1>2. CASE handler[h] \in WarmState /\ (handler[h].on # Nothing =>
              handler[h].row \in stored[handler[h].on] \cup {Nothing})
  <2>1. handler[h].on # Nothing => handler[h].on \in Tables
    BY <1>1, <1>2 DEF WarmState
  <2>2. handler[h].on # Nothing => handler[h].row \in stored'[handler[h].on] \cup {Nothing}
    BY <1>2, <2>1
  <2> QED
    BY <1>2, <2>2 DEF HandlerOK, WarmState
<1>3. CASE handler[h] = Idle \/ (h = Boot /\ handler[h] = [at |-> "replaying"])
  BY <1>3 DEF HandlerOK
<1>4. CASE h \in Handlers /\ handler[h] \in ChartState(handler[h])
  BY <1>4 DEF HandlerOK, ChartState
<1> QED
  BY <1>2, <1>3, <1>4 DEF HandlerOK

\* One request takes a step, the others have read what they had.
LEMMA HandlerSteps ==
  ASSUME FeedTypes, stored' = stored, NEW h \in Workers, NEW e,
         handler' = [handler EXCEPT ![h] = e],
         HandlerOK(h)'
  PROVE  DOMAIN handler' = Workers /\ \A g \in Workers : HandlerOK(g)'
<1>1. DOMAIN handler' = Workers
  BY DEF FeedTypes
<1>2. ASSUME NEW g \in Workers, g # h PROVE HandlerOK(g)'
  <2>1. HandlerOK(g) /\ handler'[g] = handler[g]
    BY <1>2 DEF FeedTypes
  <2> QED
    BY <2>1, HandlerKept
<1> QED
  BY <1>1, <1>2

\* A step of a request that leaves the registry and the replay alone.
LEMMA FeedOfHandler ==
  ASSUME FeedTypes, stored' = stored, UNCHANGED <<latest, simNow, replay>>,
         NEW h \in Workers, NEW e, handler' = [handler EXCEPT ![h] = e],
         HandlerOK(h)'
  PROVE  FeedTypes'
<1>1. DOMAIN handler' = Workers /\ \A g \in Workers : HandlerOK(g)'
  BY HandlerSteps
<1>2. \A i \in Instruments : SnapOK(i)'
  BY SnapKept DEF FeedTypes
<1>3. Playable' = Playable
  BY DEF Playable
<1> QED
  BY <1>1, <1>2, <1>3 DEF FeedTypes

\* The bars that are replayed stay stored.
LEMMA ReplayKept ==
  ASSUME FeedTypes, \A table \in Tables : stored[table] \subseteq stored'[table], replay' = replay
  PROVE  replay' \in [bars : SUBSET Playable', at : Times \cup {Nothing}]
<1>1. Playable \subseteq Playable'
  BY DEF Playable, Tables
<1> QED
  BY <1>1 DEF FeedTypes

\* A step of the loader keeps the types of the feed.
LEMMA FeedOfLoader ==
  ASSUME FeedTypes, \A table \in Tables : stored[table] \subseteq stored'[table], Feed
  PROVE  FeedTypes'
<1>1. \A i \in Instruments : stored[i] \subseteq stored'[i]
  BY DEF Tables
<1>2. \A i \in Instruments : SnapOK(i)'
  BY <1>1, SnapKept DEF FeedTypes, Feed
<1>3. \A h \in Workers : HandlerOK(h)'
  BY HandlerKept DEF FeedTypes, Feed
<1>4. replay' \in [bars : SUBSET Playable', at : Times \cup {Nothing}]
  BY ReplayKept DEF Feed
<1> QED
  BY <1>2, <1>3, <1>4 DEF FeedTypes, Feed

-----------------------------------------------------------------------------
(* The steps of a warm. *)

\* A warm starts with its types.
LEMMA WarmIsTyped ==
  ASSUME NEW S, S \subseteq Instruments, NEW h \in Workers, handler'[h] = Warm(S)
  PROVE  HandlerOK(h)'
<1>1. handler'[h] = [at |-> "warm", missing |-> S, on |-> Nothing, row |-> Nothing]
  BY DEF Warm
<1> QED
  BY <1>1 DEF HandlerOK, WarmState

\* What a warm has read.
LEMMA AtWarm ==
  ASSUME FeedTypes, NEW h \in Workers, handler[h].at = "warm"
  PROVE  /\ handler[h] \in WarmState
         /\ handler[h].on # Nothing => handler[h].row \in stored[handler[h].on] \cup {Nothing}
BY DEF FeedTypes, HandlerOK, Idle, ChartState

\* Nothing is read by who is idle.
LEMMA IdleIsTyped ==
  ASSUME NEW h \in Workers, handler'[h] = Idle
  PROVE  HandlerOK(h)'
BY DEF HandlerOK, Idle

\* A request begins to warm.
LEMMA WarmBegins ==
  ASSUME FeedTypes, NEW h \in Workers, WarmBegin(h)
  PROVE  FeedTypes'
<1>1. Missing(Instruments) \subseteq Instruments
  BY DEF Missing
<1>2. handler' = [handler EXCEPT ![h] = Warm(Missing(Instruments))]
  BY DEF WarmBegin
<1>3. HandlerOK(h)'
  BY <1>1, <1>2, WarmIsTyped DEF FeedTypes
<1> QED
  BY <1>2, <1>3, FeedOfHandler DEF WarmBegin, loaderVars

\* It reads the last row of an instrument.
LEMMA WarmReads ==
  ASSUME LoadTypes, FeedTypes, NEW h \in Workers, NEW i \in Instruments, WarmRead(h, i)
  PROVE  FeedTypes'
<1> DEFINE row == IF stored[i] = {} THEN Nothing ELSE Max(stored[i])
<1>1. handler[h] \in WarmState
  BY AtWarm DEF WarmRead
<1>2. row \in stored[i] \cup {Nothing} /\ row \in Times \cup {Nothing}
  <2>1. CASE stored[i] = {}
    BY <2>1
  <2>2. CASE stored[i] # {}
    <3>1. IsFiniteSet(stored[i]) /\ stored[i] \subseteq Times
      BY DEF LoadTypes, Tables
    <3>2. \A t \in stored[i] : t \in Int
      BY <3>1 DEF Times
    <3>3. Max(stored[i]) \in stored[i]
      BY <2>2, <3>1, <3>2, MaxProperties
    <3> QED
      BY <2>2, <3>1, <3>3
  <2> QED
    BY <2>1, <2>2
<1>3. handler' = [handler EXCEPT ![h].on = i, ![h].missing = @ \ {i}, ![h].row = row]
  BY DEF WarmRead
<1> HIDE DEF row
<1> DEFINE e == [handler[h] EXCEPT !.on = i, !.missing = @ \ {i}, !.row = row]
<1>4. h \in DOMAIN handler
  BY DEF FeedTypes
<1>5. handler' = [handler EXCEPT ![h] = e]
  BY <1>1, <1>3, <1>4 DEF WarmState
<1>6. e \in WarmState /\ e.on = i /\ e.row = row
  BY <1>1, <1>2 DEF WarmState
<1>7. handler'[h] = e /\ stored' = stored
  BY <1>4, <1>5 DEF WarmRead, loaderVars
<1> HIDE DEF e
<1>8. HandlerOK(h)'
  BY <1>2, <1>6, <1>7 DEF HandlerOK, WarmState
<1> QED
  BY <1>5, <1>8, FeedOfHandler DEF WarmRead, loaderVars

\* It writes the entry, whatever has happened meanwhile.
LEMMA WarmWrites ==
  ASSUME LoadTypes, FeedTypes, NEW h \in Workers, WarmWrite(h)
  PROVE  FeedTypes'
<1> DEFINE e == [handler[h] EXCEPT !.on = Nothing, !.row = Nothing]
<1>0. PICK i : i = handler[h].on
  OBVIOUS
<1>11. PICK t : t = handler[h].row
  OBVIOUS
<1>1. handler[h] \in WarmState /\ i \in Instruments /\ t \in stored[i] \cup {Nothing}
  BY <1>0, <1>11, AtWarm DEF WarmWrite, WarmState
<1>2. h \in DOMAIN handler
  BY DEF FeedTypes
<1>3. handler' = [handler EXCEPT ![h] = e] /\ handler'[h] = e
  BY <1>1, <1>2 DEF WarmWrite, WarmState
<1>4. e \in WarmState /\ e.on = Nothing
  BY <1>1 DEF WarmState
<1>5. stored' = stored /\ replay' = replay
  BY DEF WarmWrite, loaderVars
<1>6. HandlerOK(h)'
  BY <1>3, <1>4, <1>5 DEF HandlerOK, WarmState
<1>7. DOMAIN handler' = Workers /\ \A g \in Workers : HandlerOK(g)'
  BY <1>3, <1>5, <1>6, HandlerSteps
<1>8. replay' \in [bars : SUBSET Playable', at : Times \cup {Nothing}]
  BY <1>5, ReplayKept
<1> HIDE DEF e
<1>9. CASE t = Nothing
  <2>1. UNCHANGED <<latest, simNow>>
    BY <1>9, <1>11 DEF WarmWrite
  <2>2. \A j \in Instruments : SnapOK(j)'
    BY <1>5, <2>1, SnapKept DEF FeedTypes
  <2> QED
    BY <1>5, <1>7, <1>8, <2>1, <2>2 DEF FeedTypes
<1>10. CASE t # Nothing
  <2> DEFINE c == Tape[i][t]
             snap == Snapshot(c.close, t, c.open, c.high, c.low)
  <2>1. t \in stored[i] /\ t \in Times
    BY <1>1, <1>10, RowsAreCandles
  <2>2. simNow' = Later(t) /\ latest' = [latest EXCEPT ![i] = snap]
    BY <1>0, <1>10, <1>11 DEF WarmWrite
  <2>3. simNow' \in Times \cup {Nothing}
    BY <2>1, <2>2 DEF Later, FeedTypes
  <2>4. DOMAIN latest' = Instruments /\ latest'[i] = snap
    BY <1>1, <2>2 DEF FeedTypes
  <2>5. SnapOK(i)'
    BY <1>1, <1>5, <2>1, <2>4, SnapOfRow
  <2>6. ASSUME NEW j \in Instruments, j # i PROVE SnapOK(j)'
    <3>1. latest'[j] = latest[j] /\ SnapOK(j)
      BY <2>2, <2>6 DEF FeedTypes
    <3> QED
      BY <1>5, <3>1, SnapKept
  <2>7. \A j \in Instruments : SnapOK(j)'
    BY <2>5, <2>6
  <2> QED
    BY <1>5, <1>7, <1>8, <2>3, <2>4, <2>7 DEF FeedTypes
<1> QED
  BY <1>9, <1>10

\* It ends.
LEMMA HandlerEnds ==
  ASSUME FeedTypes, NEW h \in Workers, handler' = [handler EXCEPT ![h] = Idle],
         UNCHANGED <<loaderVars, latest, simNow, replay>>
  PROVE  FeedTypes'
<1>1. HandlerOK(h)'
  BY IdleIsTyped DEF FeedTypes
<1> QED
  BY <1>1, FeedOfHandler DEF loaderVars

\* The bootstrap begins to warm.
LEMMA Bootstraps ==
  ASSUME LoadTypes, FeedTypes, Bootstrap
  PROVE  FeedTypes'
<1>1. Missing(tradable) \subseteq Instruments /\ Boot \in Workers
  BY DEF Missing, LoadTypes, Instruments, Workers
<1>2. handler' = [handler EXCEPT ![Boot] = Warm(Missing(tradable))]
  BY DEF Bootstrap
<1>3. HandlerOK(Boot)'
  BY <1>1, <1>2, WarmIsTyped DEF FeedTypes
<1> QED
  BY <1>1, <1>2, <1>3, FeedOfHandler DEF Bootstrap, loaderVars

-----------------------------------------------------------------------------
(* The steps of the replay. *)

\* The least of a set of times, finite or not.
LEMMA MinOfTimes ==
  ASSUME NEW S, S \subseteq Times, S # {}
  PROVE  Min(S) \in S
<1>1. PICK x : x \in S
  OBVIOUS
<1> DEFINE T == {y \in S : y <= x}
<1>2. T \in SUBSET (0..x) /\ T # {} /\ x \in Times /\ x \in Nat
  <2>1. \A y \in S : y \in Nat
    BY DEF Times
  <2>2. x \in T
    BY <1>1, <2>1
  <2>3. x \in Nat /\ \A y \in T : y \in 0..x
    BY <1>1, <2>1
  <2> HIDE DEF T
  <2> QED
    BY <2>2, <2>3 DEF Times
<1>3. IsFiniteSet(0..x)
  BY <1>2, FS_Interval
<1>4. \A y \in T : y \in Int
  BY <1>2
<1> HIDE DEF T
<1>5. IsFiniteSet(T)
  BY <1>2, <1>3, FS_Subset
<1>6. Min(T) \in T /\ \A y \in T : Min(T) <= y
  BY <1>2, <1>4, <1>5, MinProperties
<1>7. Min(T) \in S /\ Min(T) <= x
  BY <1>6 DEF T
<1>8. ASSUME NEW y \in S PROVE Min(T) <= y
  <2>1. y \in Nat /\ Min(T) \in Nat
    BY <1>7 DEF Times
  <2>2. CASE y <= x
    BY <1>6, <2>2 DEF T
  <2>3. CASE y > x
    BY <1>2, <1>7, <2>1, <2>3
  <2> QED
    BY <1>2, <2>1, <2>2, <2>3
<1>9. \E m \in S : \A y \in S : m <= y
  BY <1>7, <1>8
<1> QED
  BY <1>9 DEF Min

\* The bars of the live window are read.
LEMMA BarsLoaded ==
  ASSUME LoadTypes, FeedTypes, LoadBars
  PROVE  FeedTypes'
<1> DEFINE bars == UNION {Minutes(i) : i \in Instruments}
<1>1. stored' = stored /\ UNCHANGED <<latest, simNow>> /\ Boot \in Workers
  BY DEF LoadBars, loaderVars, Workers
<1>2. bars \subseteq Playable
  BY DEF Minutes, Playable
<1>3. Playable' = Playable
  BY <1>1 DEF Playable
<1>4. replay' = [bars |-> bars, at |-> Nothing]
  BY DEF LoadBars, NotReplayed
<1> HIDE DEF bars
<1>5. replay' \in [bars : SUBSET Playable', at : Times \cup {Nothing}] /\ replay'.at = Nothing
  BY <1>2, <1>3, <1>4
<1>6. handler' = [handler EXCEPT ![Boot] = [at |-> "replaying"]]
  BY DEF LoadBars
<1>7. HandlerOK(Boot)'
  BY <1>1, <1>6 DEF HandlerOK, FeedTypes
<1>8. DOMAIN handler' = Workers /\ \A g \in Workers : HandlerOK(g)'
  BY <1>1, <1>6, <1>7, HandlerSteps
<1>9. \A i \in Instruments : SnapOK(i)'
  BY <1>1, SnapKept DEF FeedTypes
<1> QED
  BY <1>1, <1>5, <1>8, <1>9 DEF FeedTypes

\* A group of bars is ticked.
LEMMA PlaysOn ==
  ASSUME LoadTypes, FeedTypes, NEW t \in replay.bars, PlayOn(t), simNow' \in Times \cup {Nothing}
  PROVE  FeedTypes'
<1>1. stored' = stored /\ handler' = handler
  BY DEF PlayOn, loaderVars
<1>2. Playable' = Playable
  BY <1>1 DEF Playable
<1>3. t \in Times
  <2>1. PICK i \in Instruments : t \in stored[i]
    BY DEF FeedTypes, Playable
  <2> QED
    BY <2>1, RowsAreCandles
<1>4. /\ replay' \in [bars : SUBSET Playable', at : Times \cup {Nothing}]
      /\ replay'.at \in replay'.bars \cup {Nothing}
  BY <1>2, <1>3 DEF PlayOn, FeedTypes
<1>5. DOMAIN latest' = Instruments
  BY DEF PlayOn, TickAll
<1>6. ASSUME NEW i \in Instruments PROVE SnapOK(i)'
  <2>1. CASE i \in tradable /\ t \in stored[i]
    <3>1. latest'[i] = Ticked(latest[i], Tape[i][t].close, t)
      BY <2>1 DEF PlayOn, TickAll
    <3>2. SnapOK(i)
      BY DEF FeedTypes
    <3> QED
      BY <1>1, <2>1, <3>1, <3>2, SnapOfTick
  <2>2. CASE ~(i \in tradable /\ t \in stored[i])
    <3>1. latest'[i] = latest[i]
      BY <2>2 DEF PlayOn, TickAll
    <3>2. SnapOK(i)
      BY DEF FeedTypes
    <3> QED
      BY <1>1, <3>1, <3>2, SnapKept
  <2> QED
    BY <2>1, <2>2
<1>7. ASSUME NEW h \in Workers PROVE HandlerOK(h)'
  BY <1>1, HandlerKept DEF FeedTypes
<1> QED
  BY <1>1, <1>4, <1>5, <1>6, <1>7 DEF FeedTypes

\* The bars are times.
LEMMA BarsAreTimes ==
  ASSUME LoadTypes, FeedTypes
  PROVE  replay.bars \subseteq Times
BY RowsAreCandles DEF FeedTypes, Playable

\* The replay starts a pass or goes on.
LEMMA Replays ==
  ASSUME LoadTypes, FeedTypes, Replay
  PROVE  FeedTypes'
<1>1. CASE StartPass
  <2>1. Min(replay.bars) \in replay.bars
    BY <1>1, BarsAreTimes, MinOfTimes DEF StartPass, PassMayStart
  <2>2. simNow' \in Times
    BY <1>1, <2>1, BarsAreTimes DEF StartPass
  <2> QED
    BY <1>1, <2>1, <2>2, PlaysOn DEF StartPass
<1>2. CASE NextBars
  <2>1. PICK t \in replay.bars : PlayOn(t) /\ simNow' = IF AnyTicked(t) THEN Later(t) ELSE simNow
    BY <1>2 DEF NextBars
  <2>2. simNow' \in Times \cup {Nothing}
    BY <2>1, BarsAreTimes DEF Later, FeedTypes
  <2> QED
    BY <2>1, <2>2, PlaysOn
<1> QED
  BY <1>1, <1>2 DEF Replay

-----------------------------------------------------------------------------
(* The steps of a chart. *)

\* A chart has its types.
LEMMA ChartIsTyped ==
  ASSUME NEW h \in Handlers, NEW at \in {"clock", "day", "served"},
         NEW i, NEW days, NEW clock, NEW ref, NEW rows, NEW candles,
         handler'[h] = Chart(at, i, days, clock, ref, rows, candles)
  PROVE  HandlerOK(h)'
BY DEF HandlerOK, Chart, ChartState

\* What a request for a chart has read.
LEMMA AtChart ==
  ASSUME FeedTypes, NEW h \in Workers, handler[h].at \in {"clock", "day", "served"}
  PROVE  h \in Handlers /\ handler[h] \in ChartState(handler[h])
BY DEF FeedTypes, HandlerOK, Idle, WarmState

\* The steps of a chart.
LEMMA Charts ==
  ASSUME FeedTypes, NEW h \in Handlers, Charting(h)
  PROVE  FeedTypes'
<1>1. h \in Workers /\ h \in DOMAIN handler
  BY DEF Workers, FeedTypes
<1>2. ASSUME NEW e, handler' = [handler EXCEPT ![h] = e], HandlerOK(h)',
             UNCHANGED <<loaderVars, latest, simNow, replay>>
      PROVE  FeedTypes'
  BY <1>1, <1>2, FeedOfHandler DEF loaderVars
<1>3. ASSUME NEW i \in Charted, NEW days \in Timeframes, ChartClock(h, i, days)
      PROVE  FeedTypes'
  <2> DEFINE e == Chart("clock", i, days, simNow, Nothing, {}, <<>>)
  <2>1. handler' = [handler EXCEPT ![h] = e] /\ handler'[h] = e
    BY <1>1, <1>3 DEF ChartClock
  <2>2. HandlerOK(h)'
    BY <2>1, ChartIsTyped
  <2> QED
    BY <1>2, <1>3, <2>1, <2>2 DEF ChartClock
<1>4. CASE ChartDay(h)
  <2>1. CASE Shown(h) = {}
    BY <1>1, <1>4, <2>1, HandlerEnds DEF ChartDay
  <2>2. CASE Shown(h) # {}
    <3>1. PICK c : c = handler[h]
      OBVIOUS
    <3>2. PICK ref : ref = Day(Max(Shown(h)))
      OBVIOUS
    <3>3. c \in ChartState(c)
      BY <1>1, <1>4, <3>1, AtChart DEF ChartDay
    <3>4. handler' = [handler EXCEPT ![h].at = "day", ![h].ref = ref]
      BY <1>4, <2>2, <3>2 DEF ChartDay
    <3> DEFINE e == [c EXCEPT !.at = "day", !.ref = ref]
    <3>5. handler' = [handler EXCEPT ![h] = e] /\ handler'[h] = e
      BY <1>1, <3>1, <3>4
    <3>7. e \in ChartState(e)
      BY <3>3 DEF ChartState
    <3> HIDE DEF e
    <3>6. HandlerOK(h)'
      BY <3>5, <3>7 DEF HandlerOK, ChartState
    <3> QED
      BY <1>2, <1>4, <3>5, <3>6 DEF ChartDay
  <2> QED
    BY <2>1, <2>2
<1>5. CASE ChartRows(h)
  <2>1. PICK c : c = handler[h]
    OBVIOUS
  <2> DEFINE rows == {t \in Shown(h) : IF c.days = 0 THEN Day(t) >= c.ref
                                       ELSE Day(t) >= c.ref - c.days}
  <2>2. PICK R : R = rows
    OBVIOUS
  <2>3. PICK candles : candles = IF c.days = 0 THEN Rows(c.on, R) ELSE Daily(c.on, R, c.ref)
    OBVIOUS
  <2> DEFINE e == Chart("served", c.on, c.days, c.clock, c.ref, R, candles)
  <2>4. handler' = [handler EXCEPT ![h] = e]
    BY <1>5, <2>1, <2>2, <2>3 DEF ChartRows
  <2> HIDE DEF rows
  <2>5. handler'[h] = e
    BY <1>1, <2>4
  <2>6. HandlerOK(h)'
    BY <2>5, ChartIsTyped
  <2> QED
    BY <1>2, <1>5, <2>4, <2>6 DEF ChartRows
<1>6. CASE ChartEnd(h)
  BY <1>1, <1>6, HandlerEnds DEF ChartEnd
<1> QED
  BY <1>3, <1>4, <1>5, <1>6 DEF Charting

-----------------------------------------------------------------------------
FeedInv == LoadTypes /\ FeedTypes

\* The invariant holds at the start ...
LEMMA FeedAtFirst == Init => FeedInv
<1> SUFFICES ASSUME Init PROVE FeedInv
  OBVIOUS
<1>1. LoadTypes
  BY LoadTypesAtFirst DEF Init
<1>2. /\ latest = [i \in Instruments |-> Nothing] /\ simNow = Nothing
      /\ replay = [bars |-> {}, at |-> Nothing]
      /\ handler = [h \in Workers |-> Idle]
  BY DEF Init, NotReplayed
<1>3. \A i \in Instruments : SnapOK(i)
  BY <1>2 DEF SnapOK
<1>4. \A h \in Workers : HandlerOK(h)
  BY <1>2 DEF HandlerOK
<1> QED
  BY <1>1, <1>2, <1>3, <1>4 DEF FeedInv, FeedTypes

\* ... and after every restart ...
LEMMA Restarts ==
  ASSUME LoadTypes, Restart
  PROVE  FeedInv'
<1>1. <<>> \in Seq(Piece)
  BY EmptySeq
<1>2. /\ stored' = stored /\ tradable' = tradable /\ faults' \in 0..MaxFaults
      /\ loader' = [at |-> "start", have |-> {}, rest |-> <<>>]
  BY LoaderAssumption DEF Restart, Loading, LoadTypes
<1>3. LoadTypes'
  BY <1>1, <1>2 DEF LoadTypes
<1>4. /\ latest' = [i \in Instruments |-> Nothing] /\ simNow' = Nothing
      /\ replay' = [bars |-> {}, at |-> Nothing]
      /\ handler' = [h \in Workers |-> Idle]
  BY DEF Restart, NotReplayed
<1>5. \A i \in Instruments : SnapOK(i)'
  BY <1>4 DEF SnapOK
<1>6. \A h \in Workers : HandlerOK(h)'
  BY <1>4 DEF HandlerOK, Idle
<1> QED
  BY <1>3, <1>4, <1>5, <1>6 DEF FeedInv, FeedTypes

\* ... and is kept by what leaves the tables alone.
LEMMA LoadTypesKept == LoadTypes /\ UNCHANGED loaderVars => LoadTypes'
BY DEF LoadTypes, loaderVars

\* Every step keeps it.
LEMMA FeedNext == FeedInv /\ [Next]_vars => FeedInv'
<1> SUFFICES ASSUME FeedInv, [Next]_vars PROVE FeedInv'
  OBVIOUS
<1>1. LoadTypes /\ FeedTypes
  BY DEF FeedInv
<1>2. CASE (Load \/ LoadFault) /\ Feed
  BY <1>1, <1>2, LoaderTypes, FeedOfLoader DEF FeedInv
<1>3. CASE Boots
  <2>1. Boot \in Workers
    BY DEF Workers
  <2>2. CASE Bootstrap
    BY <1>1, <2>2, Bootstraps, LoadTypesKept DEF Bootstrap, FeedInv
  <2>3. CASE LoadBars
    BY <1>1, <2>3, BarsLoaded, LoadTypesKept DEF LoadBars, FeedInv
  <2>4. CASE \E i \in Instruments : WarmRead(Boot, i)
    BY <1>1, <2>1, <2>4, WarmReads, LoadTypesKept DEF WarmRead, FeedInv
  <2>5. CASE WarmWrite(Boot)
    BY <1>1, <2>1, <2>5, WarmWrites, LoadTypesKept DEF WarmWrite, FeedInv
  <2>6. CASE WarmEnd(Boot)
    BY <1>1, <2>1, <2>6, HandlerEnds, LoadTypesKept DEF WarmEnd, FeedInv
  <2> QED
    BY <1>3, <2>2, <2>3, <2>4, <2>5, <2>6 DEF Boots, Warming
<1>4. CASE Replay
  BY <1>1, <1>4, Replays, LoadTypesKept DEF Replay, StartPass, NextBars, PlayOn, FeedInv
<1>5. ASSUME NEW h \in Handlers, WarmBegin(h) \/ Warming(h) \/ Charting(h)
      PROVE  FeedInv'
  <2>1. h \in Workers
    BY DEF Workers
  <2>2. CASE WarmBegin(h)
    BY <1>1, <2>1, <2>2, WarmBegins, LoadTypesKept DEF WarmBegin, FeedInv
  <2>3. CASE \E i \in Instruments : WarmRead(h, i)
    BY <1>1, <2>1, <2>3, WarmReads, LoadTypesKept DEF WarmRead, FeedInv
  <2>4. CASE WarmWrite(h)
    BY <1>1, <2>1, <2>4, WarmWrites, LoadTypesKept DEF WarmWrite, FeedInv
  <2>5. CASE WarmEnd(h)
    BY <1>1, <2>1, <2>5, HandlerEnds, LoadTypesKept DEF WarmEnd, FeedInv
  <2>6. CASE Charting(h)
    BY <1>1, <2>6, Charts, LoadTypesKept
       DEF Charting, ChartClock, ChartDay, ChartRows, ChartEnd, FeedInv
  <2> QED
    BY <1>5, <2>2, <2>3, <2>4, <2>5, <2>6 DEF Warming
<1>6. CASE Restart
  BY <1>1, <1>6, Restarts
<1>7. CASE UNCHANGED vars
  <2>1. UNCHANGED loaderVars /\ Feed /\ stored' = stored
    BY <1>7 DEF vars, Feed, loaderVars
  <2> QED
    BY <1>1, <2>1, LoadTypesKept, FeedOfLoader DEF FeedInv
<1> QED
  BY <1>2, <1>3, <1>4, <1>5, <1>6, <1>7 DEF Next

\* So it holds.
LEMMA FeedHolds == Spec => []FeedInv
<1>1. FeedInv /\ [Next]_vars => FeedInv'
  BY FeedNext
<1> QED
  BY <1>1, FeedAtFirst, PTL DEF Spec

\* The types follow.
LEMMA FeedIsTyped == FeedInv => TypeOK
<1> SUFFICES ASSUME FeedInv PROVE TypeOK
  OBVIOUS
<1>1. LoadTypes /\ FeedTypes
  BY DEF FeedInv
<1>2. LoaderTypeOK
  BY <1>1, LoadTypesAreTypes
<1>3. replay.bars \subseteq UNION {stored[i] : i \in Instruments}
  BY <1>1 DEF FeedTypes, Playable
<1>4. ASSUME NEW i \in Instruments, latest[i] # Nothing
      PROVE  latest[i].ts \in stored[i] /\ latest[i].price = Tape[i][latest[i].ts].close
  BY <1>1, <1>4 DEF FeedTypes, SnapOK
<1>5. ASSUME NEW h \in Workers
      PROVE  handler[h].at \in {"idle", "warm", "replaying", "clock", "day", "served"}
  BY <1>1 DEF FeedTypes, HandlerOK, Idle, WarmState, ChartState
<1> QED
  BY <1>1, <1>2, <1>3, <1>4, <1>5 DEF TypeOK, FeedTypes

\* The tables, the registry, the clock and what is read of them have their
\* types throughout (registry.py:83-151, loader.py:272-364): an entry is the
\* close of a row that is stored, whoever wrote it last, and the replay is at
\* one of the bars it has loaded.
THEOREM TypesHold == Spec => []TypeOK
BY FeedHolds, FeedIsTyped, PTL

\* The greatest and the least over the rows of a finite set of times.
LEMMA ExtremesOfRows ==
  ASSUME NEW S, IsFiniteSet(S), NEW f, \A t \in S : f[t] \in Int, NEW u \in S
  PROVE  /\ Max({f[t] : t \in S}) \in Int /\ Max({f[t] : t \in S}) >= f[u]
         /\ Min({f[t] : t \in S}) \in Int /\ Min({f[t] : t \in S}) <= f[u]
<1> DEFINE g == [t \in S |-> f[t]]
           T == {f[t] : t \in S}
<1>1. g \in Surjection(S, T)
  BY DEF Surjection
<1>2. IsFiniteSet(T)
  BY <1>1, FS_Surjection
<1>3. f[u] \in T /\ T # {} /\ \A x \in T : x \in Int
  OBVIOUS
<1> HIDE DEF T
<1>4. Max(T) \in T /\ Min(T) \in T /\ \A x \in T : Max(T) >= x /\ Min(T) <= x
  BY <1>2, <1>3, MaxProperties, MinProperties
<1> QED
  BY <1>3, <1>4 DEF T

\* The range of an entry that is of its day is within the rows of the day.
LEMMA RangeOfSnap ==
  ASSUME LoadTypes, NEW i \in Instruments, latest[i] # Nothing, SnapOK(i)
  PROVE  LET snap == latest[i]
             bars == {Tape[i][t] : t \in {t \in stored[i] : Day(t) = Day(snap.ts)}}
         IN  /\ {snap.open, snap.price} \subseteq snap.low..snap.high
             /\ snap.high <= Max({c.high : c \in bars})
             /\ snap.low  >= Min({c.low : c \in bars})
<1> DEFINE snap == latest[i]
           today == {t \in stored[i] : Day(t) = Day(snap.ts)}
           bars == {Tape[i][t] : t \in today}
           highs == [t \in today |-> Tape[i][t].high]
           lows == [t \in today |-> Tape[i][t].low]
           H == {highs[t] : t \in today}
           L == {lows[t] : t \in today}
<1>1. /\ {snap.low, snap.high} \subseteq Int
      /\ {snap.open, snap.price} \subseteq snap.low..snap.high
      /\ \E t \in today : snap.high <= Tape[i][t].high
      /\ \E t \in today : snap.low >= Tape[i][t].low
  BY DEF SnapOK
<1>2. IsFiniteSet(stored[i]) /\ today \in SUBSET stored[i]
  BY DEF LoadTypes, Tables
<1>3. \A t \in today : Tape[i][t].high \in Int /\ Tape[i][t].low \in Int
  BY RowsAreCandles
<1> HIDE DEF snap, today
<1>4. IsFiniteSet(today)
  BY <1>2, FS_Subset
<1>5. {c.high : c \in bars} = H /\ {c.low : c \in bars} = L
  OBVIOUS
<1>6. \A t \in today : highs[t] \in Int /\ lows[t] \in Int
  BY <1>3
<1>7. ASSUME NEW u \in today
      PROVE  Max(H) \in Int /\ Max(H) >= highs[u] /\ Min(L) \in Int /\ Min(L) <= lows[u]
  BY <1>4, <1>6, ExtremesOfRows
<1>8. /\ \E u \in today : snap.high <= highs[u]
      /\ \E u \in today : snap.low >= lows[u]
      /\ snap.high \in Int /\ snap.low \in Int
  BY <1>1
<1> HIDE DEF H, L, highs, lows, bars
<1>9. snap.high <= Max(H) /\ snap.low >= Min(L)
  BY <1>6, <1>7, <1>8
<1>10. {snap.open, snap.price} \subseteq snap.low..snap.high
  BY <1>1
<1> QED
  BY <1>5, <1>9, <1>10 DEF snap, today, bars

\* The range of a latest price is of its day and of no other, and has the open
\* and the price in it (registry.py:83-115, 137-151), however the rows of the
\* database, read by any request at any time, mix with the ticks of the replay
\* and with the tables as they grow.
THEOREM RangeHolds == Spec => []RangeIsOfTheDay
<1>1. FeedInv => RangeIsOfTheDay
  BY RangeOfSnap DEF FeedInv, FeedTypes, RangeIsOfTheDay
<1> QED
  BY <1>1, FeedHolds, PTL

-----------------------------------------------------------------------------
(* What is still to be inserted is not there.                              *)
(*                                                                         *)
(* The chunks that are left are apart from each other and from the tables; *)
(* while the equities are loaded, the bonds that had nothing at the        *)
(* beginning still have nothing, so their series may be planned then.      *)

Fresh ==
    /\ AllApart(loader.rest)
    /\ \A c \in ToSet(loader.rest) : c.rows \cap stored[c.into] = {}
    /\ loader.at = "ticks" => /\ \A c \in ToSet(loader.rest) : c.into \in ToSet(Equities)
                              /\ \A i \in ToSet(Bonds) \ loader.have : stored[i] = {}
    /\ loader.at \in {"start", "loaded", "dead"} => loader.rest = <<>>

\* The property follows from the invariant.
LEMMA FreshIsOnce == Fresh => RowsAreInsertedOnce
BY DEF Fresh, RowsAreInsertedOnce, ToSet

\* Without chunks there is nothing to be apart.
LEMMA NothingLeft == ToSet(<<>>) = {} /\ AllApart(<<>>)
BY DEF ToSet, AllApart

\* At the start nothing is planned.
LEMMA FreshAtFirst == LoaderInit => Fresh
BY NothingLeft DEF LoaderInit, Loading, Fresh

\* The chunk that is committed is apart from those that are left.
LEMMA CommitIsFresh ==
  ASSUME LoadTypes, Fresh, CommitChunk
  PROVE  Fresh'
<1>1. PICK chunk \in Piece :
         /\ ToSet(loader.rest) = {chunk} \cup ToSet(loader'.rest)
         /\ \A k \in DOMAIN loader.rest : k = 1 => loader.rest[k] = chunk
         /\ 1 \in DOMAIN loader.rest
         /\ \A k \in DOMAIN loader'.rest : /\ k + 1 \in DOMAIN loader.rest /\ k + 1 # 1
                                          /\ loader'.rest[k] = loader.rest[k + 1]
         /\ \A j, k \in DOMAIN loader'.rest : j # k => j + 1 # k + 1
         /\ stored' = [stored EXCEPT ![chunk.into] = @ \cup chunk.rows]
         /\ loader' = [loader EXCEPT !.rest = Tail(loader.rest)]
  BY Committed
<1>2. stored \in [Tables -> SUBSET Times] /\ chunk.into \in Tables
  BY DEF LoadTypes, Piece
<1>3. \A table \in Tables : stored'[table] = IF table = chunk.into THEN stored[table] \cup chunk.rows
                                             ELSE stored[table]
  BY <1>1, <1>2
<1>4. AllApart(loader'.rest)
  BY <1>1 DEF Fresh, AllApart
<1>5. ASSUME NEW c \in ToSet(loader'.rest) PROVE c.rows \cap stored'[c.into] = {}
  <2>1. PICK k \in DOMAIN loader'.rest : loader'.rest[k] = c
    BY DEF ToSet
  <2>2. Apart(chunk, c)
    BY <1>1, <2>1 DEF Fresh, AllApart
  <2>3. c.rows \cap stored[c.into] = {}
    BY <1>1 DEF Fresh
  <2>4. c.into \in Tables
    <3>1. loader.rest \in Seq(Piece)
      BY DEF LoadTypes
    <3>2. loader.rest[k + 1] \in Piece
      BY <1>1, <2>1, <3>1, LenProperties
    <3> QED
      BY <1>1, <2>1, <3>2 DEF Piece
  <2> QED
    BY <1>3, <2>2, <2>3, <2>4 DEF Apart
<1>6. loader'.at = loader.at /\ loader'.have = loader.have
  BY <1>1 DEF LoadTypes
<1>7. ASSUME loader.at = "ticks"
      PROVE  /\ \A c \in ToSet(loader'.rest) : c.into \in ToSet(Equities)
             /\ \A i \in ToSet(Bonds) \ loader.have : stored'[i] = {}
  <2>1. chunk.into \in ToSet(Equities)
    BY <1>1, <1>7 DEF Fresh
  <2>2. \A i \in ToSet(Bonds) : i \in Tables /\ i # chunk.into
    BY <2>1, UniverseAssumption DEF Tables, Instruments, Universe
  <2> QED
    BY <1>1, <1>3, <1>7, <2>2 DEF Fresh
<1>8. loader.at \notin {"start", "loaded", "dead"}
  BY <1>1 DEF Fresh
<1> QED
  BY <1>4, <1>5, <1>6, <1>7, <1>8 DEF Fresh

\* A stage plans for the tables without rows only.
LEMMA FreshNext ==
  ASSUME LoadTypes, Fresh, Load \/ LoadFault
  PROVE  Fresh'
<1>1. CASE CommitChunk
  BY <1>1, CommitIsFresh
<1>2. CASE BeginLoad
  <2> DEFINE s == Plan(Equities, HaveTicks, Files)
  <2>1. AllApart(s) /\ \A c \in ToSet(s) : c.into \in ToSet(Equities) \ HaveTicks
    BY TicksPlan
  <2>2. \A i \in Universe : i \notin HaveTicks => stored[i] = {}
    BY DEF HaveTicks, Instruments
  <2>3. /\ loader'.at = "ticks" /\ loader'.have = HaveTicks /\ loader'.rest = s
        /\ stored' = stored
    BY <1>2 DEF BeginLoad, Loading
  <2> HIDE DEF s
  <2>4. ASSUME NEW c \in ToSet(s) PROVE c.rows \cap stored[c.into] = {}
    BY <2>1, <2>2 DEF Universe
  <2> QED
    BY <2>1, <2>2, <2>3, <2>4 DEF Fresh, Universe
<1>3. CASE PlanBonds
  <2> DEFINE s == Plan(Bonds, loader.have, Series)
  <2>1. AllApart(s) /\ \A c \in ToSet(s) : c.into \in ToSet(Bonds) \ loader.have
    BY BondsPlan
  <2>2. loader'.at = "bonds" /\ loader'.rest = s /\ stored' = stored
    BY <1>3 DEF PlanBonds, Loading
  <2> HIDE DEF s
  <2>3. ASSUME NEW c \in ToSet(s) PROVE c.rows \cap stored[c.into] = {}
    BY <1>3, <2>1 DEF Fresh, PlanBonds
  <2> QED
    BY <2>1, <2>2, <2>3 DEF Fresh
<1>4. CASE PlanNews
  <2>1. loader' = Loading("news", {}, IF stored[News] # {} THEN <<>> ELSE NewsPlan)
    BY <1>4 DEF PlanNews, NewsPlan
  <2>2. loader'.at = "news" /\ loader'.rest = (IF stored[News] # {} THEN <<>> ELSE NewsPlan)
    BY <2>1 DEF Loading
  <2>3. AllApart(NewsPlan) /\ \A c \in ToSet(NewsPlan) : c.into = News
    BY NewsLoad DEF Loads
  <2>4. stored' = stored
    BY <1>4 DEF PlanNews
  <2>5. CASE stored[News] # {}
    BY <2>2, <2>4, <2>5, NothingLeft DEF Fresh
  <2>6. CASE stored[News] = {}
    BY <2>2, <2>3, <2>4, <2>6 DEF Fresh
  <2> QED
    BY <2>5, <2>6
<1>5. CASE EndLoad \/ LoadFault
  <2>1. loader'.at \in {"loaded", "dead"} /\ loader'.rest = <<>>
    BY <1>5 DEF EndLoad, LoadFault, Loading
  <2> QED
    BY <2>1, NothingLeft DEF Fresh
<1> QED
  BY <1>1, <1>2, <1>3, <1>4, <1>5 DEF Load

\* What leaves the loader alone keeps it.
LEMMA FreshKept == Fresh /\ UNCHANGED loaderVars => Fresh'
BY DEF Fresh, loaderVars

\* A restart forgets the plan.
LEMMA RestIsFresh == Restart => Fresh'
BY NothingLeft DEF Restart, Loading, Fresh

\* A step of the feed loads, or restarts, or leaves the loader alone.
LEMMA LoaderStep ==
  ASSUME [Next]_vars
  PROVE  Load \/ LoadFault \/ Restart \/ UNCHANGED loaderVars
BY DEF Next, vars, Boots, Bootstrap, LoadBars, Warming, WarmRead, WarmWrite, WarmEnd, WarmBegin,
       Replay, StartPass, NextBars, PlayOn, Charting, ChartClock, ChartDay, ChartRows, ChartEnd

\* No start of the process inserts a row twice, wherever the one before it was
\* interrupted (loader.py:193-198, 283-355): each stage looks for what it has
\* loaded before.
THEOREM InsertedOnceHolds == Spec => []RowsAreInsertedOnce
<1>1. Init => Fresh
  BY FreshAtFirst DEF Init
<1>2. FeedInv /\ Fresh /\ [Next]_vars => Fresh'
  BY FreshNext, FreshKept, RestIsFresh, LoaderStep DEF FeedInv
<1> QED
  BY <1>1, <1>2, FeedHolds, FreshIsOnce, PTL DEF Spec

-----------------------------------------------------------------------------
(* A first start that nothing interrupts loads everything.                 *)
(*                                                                         *)
(* At each stage a table and the chunks that are left for it make what the *)
(* stages begun so far are to load, and once the bonds have been planned   *)
(* the minutes they follow change no more.                                 *)

Coming(table) == UNION {c.rows : c \in {c \in ToSet(loader.rest) : c.into = table}}

Target(table) ==
    IF table \in ToSet(Equities) THEN IF loader.at = "start" THEN {} ELSE Stock(table)
    ELSE IF table \in ToSet(Bonds)
         THEN IF loader.at \in {"start", "ticks"} THEN {} ELSE Backfill \cup ReferenceMinutes
         ELSE IF loader.at \in {"start", "ticks", "bonds"} THEN {} ELSE NewsFiles

Due == ToSet(Equities) \cup ToSet(Bonds) \cup {News}

OnCourse ==
    faults = 0 =>
        /\ loader.have \cap Universe = {}
        /\ \A table \in Due : stored[table] \cup Coming(table) = Target(table)
        /\ loader.at \notin {"start", "ticks"} => \A i \in ToSet(Equities) : Coming(i) = {}

\* What is due are tables, each of one stage.
LEMMA DueIsTable == Due \subseteq Tables /\ News \notin ToSet(Equities) /\ News \notin ToSet(Bonds)
                    /\ ToSet(Equities) \cap ToSet(Bonds) = {}
BY UniverseAssumption DEF Due, Tables, Instruments, Universe

\* Membership in what is coming.
LEMMA ComingHas ==
  \A table, t : t \in Coming(table) <=> \E c \in ToSet(loader.rest) : c.into = table /\ t \in c.rows
BY DEF Coming

\* When the plan is done nothing is coming.
LEMMA NothingComes == loader.rest = <<>> => \A table : Coming(table) = {}
BY NothingLeft DEF Coming

\* The minutes of the bonds depend on the rows of the equities.
LEMMA ReferenceKept ==
  ASSUME \A i \in ToSet(Equities) : stored'[i] = stored[i]
  PROVE  ReferenceMinutes' = ReferenceMinutes
<1>1. \A k \in DOMAIN Equities : Minutes(Equities[k])' = Minutes(Equities[k])
  BY DEF ToSet, Minutes
<1> DEFINE any == {k \in DOMAIN Equities : Minutes(Equities[k]) # {}}
<1>2. any' = any
  BY <1>1
<1>3. CASE any = {}
  BY <1>2, <1>3 DEF ReferenceMinutes
<1>4. CASE any # {}
  <2>1. PICK k : k = Min(any) /\ k \in any
    BY <1>4, FirstEquity
  <2>2. ReferenceMinutes = Minutes(Equities[k])
    BY <1>4, <2>1 DEF ReferenceMinutes
  <2>3. ReferenceMinutes' = Minutes(Equities[k])'
    BY <1>2, <1>4, <2>1 DEF ReferenceMinutes
  <2> QED
    BY <1>1, <2>1, <2>2, <2>3
<1> QED
  BY <1>3, <1>4

\* A committed chunk moves its rows from what is coming to what is stored.
LEMMA CommitOnCourse ==
  ASSUME LoadTypes, Fresh, OnCourse, CommitChunk
  PROVE  OnCourse'
<1> SUFFICES ASSUME faults' = 0
             PROVE  /\ loader'.have \cap Universe = {}
                    /\ \A table \in Due : stored'[table] \cup Coming(table)' = Target(table)'
                    /\ loader'.at \notin {"start", "ticks"} => \A i \in ToSet(Equities) : Coming(i)' = {}
  BY DEF OnCourse
<1>1. PICK chunk \in Piece :
         /\ ToSet(loader.rest) = {chunk} \cup ToSet(loader'.rest)
         /\ stored' = [stored EXCEPT ![chunk.into] = @ \cup chunk.rows]
         /\ loader' = [loader EXCEPT !.rest = Tail(loader.rest)]
         /\ 1 \in DOMAIN loader.rest
  BY Committed
<1>2. stored \in [Tables -> SUBSET Times] /\ chunk.into \in Tables
  BY DEF LoadTypes, Piece
<1>3. loader'.at = loader.at /\ loader'.have = loader.have /\ faults = 0 /\ loader.at # "start"
  BY <1>1 DEF LoadTypes, CommitChunk, Fresh
<1>4. ASSUME NEW table \in Tables
      PROVE  /\ stored'[table] \cup Coming(table)' = stored[table] \cup Coming(table)
             /\ Coming(table)' \subseteq Coming(table)
             /\ stored[table] \subseteq stored'[table]
  <2>1. stored'[table] = IF table = chunk.into THEN stored[table] \cup chunk.rows ELSE stored[table]
    BY <1>1, <1>2
  <2>2. \A t : t \in Coming(table)' <=> \E c \in ToSet(loader'.rest) : c.into = table /\ t \in c.rows
    BY DEF Coming
  <2>3. \A t : t \in Coming(table) <=> \/ table = chunk.into /\ t \in chunk.rows
                                       \/ t \in Coming(table)'
    BY <1>1, <2>2, ComingHas
  <2> QED
    BY <2>1, <2>3
<1>5. \A table \in Due : stored[table] \cup Coming(table) = Target(table)
  BY <1>3 DEF OnCourse
<1>6. loader.at \notin {"start", "ticks"} => ReferenceMinutes' = ReferenceMinutes
  <2> SUFFICES ASSUME loader.at \notin {"start", "ticks"} PROVE ReferenceMinutes' = ReferenceMinutes
    OBVIOUS
  <2>1. \A i \in ToSet(Equities) : Coming(i) = {} /\ i \in Tables
    BY <1>3, DueIsTable DEF OnCourse, Due
  <2>2. \A i \in ToSet(Equities) : stored'[i] = stored[i]
    BY <1>4, <2>1
  <2> QED
    BY <2>2, ReferenceKept
<1>7. ASSUME NEW table \in Due PROVE Target(table)' = Target(table)
  BY <1>3, <1>6 DEF Target
<1>8. \A table \in Due : stored'[table] \cup Coming(table)' = Target(table)'
  BY <1>4, <1>5, <1>7, DueIsTable
<1>9. loader.at \notin {"start", "ticks"} => \A i \in ToSet(Equities) : Coming(i)' = {}
  <2> SUFFICES ASSUME loader.at \notin {"start", "ticks"}, NEW i \in ToSet(Equities)
               PROVE  Coming(i)' = {}
    OBVIOUS
  <2>1. Coming(i) = {} /\ i \in Tables
    BY <1>3, DueIsTable DEF OnCourse, Due
  <2> QED
    BY <1>4, <2>1
<1> QED
  BY <1>3, <1>8, <1>9 DEF OnCourse

\* A stage is planned: the tables stay, the chunks are new.
LEMMA PlanOnCourse ==
  ASSUME LoadTypes, Fresh, OnCourse, Load \/ LoadFault, ~CommitChunk
  PROVE  OnCourse'
<1> SUFFICES ASSUME faults' = 0
             PROVE  /\ loader'.have \cap Universe = {}
                    /\ \A table \in Due : stored'[table] \cup Coming(table)' = Target(table)'
                    /\ loader'.at \notin {"start", "ticks"} => \A i \in ToSet(Equities) : Coming(i)' = {}
  BY DEF OnCourse
<1>1. BeginLoad \/ PlanBonds \/ PlanNews \/ EndLoad
  <2>1. ~LoadFault
    BY DEF LoadFault, LoadTypes
  <2> QED
    BY <2>1 DEF Load
<1>2. stored' = stored /\ faults = 0
  BY <1>1 DEF BeginLoad, PlanBonds, PlanNews, EndLoad
<1>3. ReferenceMinutes' = ReferenceMinutes
  BY <1>2, ReferenceKept
<1>4. loader.rest = <<>>
  BY <1>1 DEF BeginLoad, PlanBonds, PlanNews, EndLoad, Fresh
<1>5. \A table : Coming(table) = {}
  BY <1>4, NothingComes
<1>6. \A table \in Due : stored[table] = Target(table)
  BY <1>2, <1>5 DEF OnCourse
<1>7. loader.have \cap Universe = {}
  BY <1>2 DEF OnCourse
<1>8. \A table, t : t \in Coming(table)' <=> \E c \in ToSet(loader'.rest) : c.into = table /\ t \in c.rows
  BY DEF Coming
<1>9. CASE BeginLoad
  <2> DEFINE s == Plan(Equities, HaveTicks, Files)
  <2>1. /\ loader'.at = "ticks" /\ loader'.have = HaveTicks /\ loader'.rest = s
        /\ loader.at = "start"
    BY <1>9 DEF BeginLoad, Loading
  <2>2. \A table \in Due : stored[table] = {}
    BY <1>6, <2>1 DEF Target
  <2>3. HaveTicks \cap Universe = {}
    BY <2>2 DEF HaveTicks, Due, Universe
  <2>4. /\ \A c \in ToSet(s) : c.into \in ToSet(Equities) /\ c.rows \subseteq Stock(c.into)
        /\ \A i \in ToSet(Equities) \ HaveTicks : \A t \in Stock(i) :
              \E c \in ToSet(s) : c.into = i /\ t \in c.rows
    BY TicksPlan
  <2> HIDE DEF s
  <2>5. ASSUME NEW i \in ToSet(Equities) PROVE Coming(i)' = Stock(i)
    <3>1. i \notin HaveTicks
      BY <2>3 DEF Universe
    <3>2. ASSUME NEW t \in Coming(i)' PROVE t \in Stock(i)
      <4>1. PICK c \in ToSet(s) : c.into = i /\ t \in c.rows
        BY <1>8, <2>1
      <4>2. c.rows \subseteq Stock(c.into)
        BY <2>4
      <4> QED
        BY <4>1, <4>2
    <3>3. ASSUME NEW t \in Stock(i) PROVE t \in Coming(i)'
      <4>1. PICK c \in ToSet(s) : c.into = i /\ t \in c.rows
        BY <2>4, <3>1
      <4> QED
        BY <1>8, <2>1, <4>1
    <3> QED
      BY <3>2, <3>3
  <2>6. ASSUME NEW table, table \notin ToSet(Equities) PROVE Coming(table)' = {}
    BY <1>8, <2>1, <2>4, <2>6
  <2>7. ASSUME NEW table \in Due PROVE stored'[table] \cup Coming(table)' = Target(table)'
    BY <1>2, <2>1, <2>2, <2>5, <2>6 DEF Target
  <2> QED
    BY <2>1, <2>3, <2>7
<1>10. CASE PlanBonds
  <2> DEFINE s == Plan(Bonds, loader.have, Series)
  <2>1. /\ loader'.at = "bonds" /\ loader'.have = loader.have /\ loader'.rest = s
        /\ loader.at = "ticks"
    BY <1>10 DEF PlanBonds, Loading
  <2>2. /\ \A c \in ToSet(s) : /\ c.into \in ToSet(Bonds)
                               /\ c.rows \subseteq Backfill \cup ReferenceMinutes
        /\ \A i \in ToSet(Bonds) \ loader.have : \A t \in Backfill \cup ReferenceMinutes :
              \E c \in ToSet(s) : c.into = i /\ t \in c.rows
    BY BondsPlan
  <2> HIDE DEF s
  <2>3. ASSUME NEW i \in ToSet(Bonds) PROVE Coming(i)' = Backfill \cup ReferenceMinutes
    <3>1. i \notin loader.have
      BY <1>7 DEF Universe
    <3> QED
      BY <1>8, <2>1, <2>2, <3>1
  <2>4. ASSUME NEW table, table \notin ToSet(Bonds) PROVE Coming(table)' = {}
    BY <1>8, <2>1, <2>2, <2>4
  <2>5. ASSUME NEW table \in Due PROVE stored'[table] \cup Coming(table)' = Target(table)'
    <3>1. CASE table \in ToSet(Bonds)
      <4>1. stored[table] = {}
        BY <1>6, <2>1, <3>1, DueIsTable DEF Target
      <4> QED
        BY <1>2, <1>3, <2>1, <2>3, <3>1, <4>1, DueIsTable DEF Target
    <3>2. CASE table \notin ToSet(Bonds)
      BY <1>2, <1>6, <2>1, <2>4, <3>2 DEF Target
    <3> QED
      BY <3>1, <3>2
  <2>6. \A i \in ToSet(Equities) : Coming(i)' = {}
    BY <2>4, DueIsTable
  <2> QED
    BY <1>7, <2>1, <2>5, <2>6
<1>11. CASE PlanNews
  <2>1. /\ loader'.at = "news" /\ loader'.have = {} /\ loader.at = "bonds"
        /\ loader'.rest = IF stored[News] # {} THEN <<>> ELSE NewsPlan
    BY <1>11 DEF PlanNews, NewsPlan, Loading
  <2>2. stored[News] = {} /\ News \in Due
    BY <1>6, <2>1, DueIsTable DEF Target, Due
  <2>3. /\ \A c \in ToSet(NewsPlan) : c.into = News /\ c.rows \subseteq NewsFiles
        /\ \A t \in NewsFiles : \E c \in ToSet(NewsPlan) : t \in c.rows
    BY NewsLoad DEF Loads
  <2>4. loader'.rest = NewsPlan
    BY <2>1, <2>2
  <2>5. Coming(News)' = NewsFiles
    BY <1>8, <2>3, <2>4
  <2>6. ASSUME NEW table, table # News PROVE Coming(table)' = {}
    BY <1>8, <2>3, <2>4, <2>6
  <2>7. ASSUME NEW table \in Due PROVE stored'[table] \cup Coming(table)' = Target(table)'
    <3>1. CASE table = News
      BY <1>2, <2>1, <2>2, <2>5, <3>1, DueIsTable DEF Target
    <3>2. CASE table # News
      BY <1>2, <1>3, <1>6, <2>1, <2>6, <3>2 DEF Target, Due
    <3> QED
      BY <3>1, <3>2
  <2>8. \A i \in ToSet(Equities) : Coming(i)' = {}
    BY <2>6, DueIsTable
  <2> QED
    BY <2>1, <2>7, <2>8
<1>12. CASE EndLoad
  <2>1. /\ loader'.at = "loaded" /\ loader'.have = {} /\ loader.at = "news"
        /\ loader'.rest = <<>>
    BY <1>12 DEF EndLoad, Loading
  <2>2. \A table : Coming(table)' = {}
    BY <1>8, <2>1, NothingLeft
  <2>3. ASSUME NEW table \in Due PROVE stored'[table] \cup Coming(table)' = Target(table)'
    BY <1>2, <1>3, <1>6, <2>1, <2>2 DEF Target
  <2> QED
    BY <2>1, <2>2, <2>3
<1> QED
  BY <1>1, <1>9, <1>10, <1>11, <1>12

\* What leaves the loader alone stays on course.
LEMMA OnCourseKept == OnCourse /\ UNCHANGED loaderVars => OnCourse'
<1> SUFFICES ASSUME OnCourse, UNCHANGED loaderVars PROVE OnCourse'
  OBVIOUS
<1>1. stored' = stored /\ loader' = loader /\ faults' = faults
  BY DEF loaderVars
<1>2. ReferenceMinutes' = ReferenceMinutes /\ \A table : Coming(table)' = Coming(table)
  BY <1>1, ReferenceKept DEF Coming
<1> QED
  BY <1>1, <1>2 DEF OnCourse, Target

\* Every step does.
LEMMA OnCourseNext ==
  ASSUME LoadTypes, Fresh, OnCourse, [Next]_vars
  PROVE  OnCourse'
<1>1. CASE Restart
  BY <1>1 DEF Restart, OnCourse, LoadTypes
<1> QED
  BY <1>1, CommitOnCourse, PlanOnCourse, OnCourseKept, LoaderStep

\* At the end of the course the load is complete.
LEMMA LoadedIsComplete ==
  ASSUME Fresh, OnCourse
  PROVE  UninterruptedLoadIsComplete
<1> SUFFICES ASSUME loader.at = "loaded", faults = 0 PROVE Complete
  BY DEF UninterruptedLoadIsComplete
<1>1. loader.rest = <<>>
  BY DEF Fresh
<1>2. \A table \in Due : stored[table] = Target(table)
  BY <1>1, NothingComes DEF OnCourse
<1> QED
  BY <1>2, DueIsTable DEF Complete, Target, Due, Stock

\* A first start that nothing interrupts loads everything, whatever the tables
\* hold of instruments of another era (loader.py:283, the "No price data for
\* AAPL" regression): each equity its files, each bond the backfill and the
\* minutes of the tape, and all the news.
THEOREM FirstLoadIsComplete ==
  ASSUME \A tables \in Existing : \A table \in Tables \ Others : tables[table] = {}
  PROVE  Spec => []UninterruptedLoadIsComplete
<1>1. Init => Fresh /\ OnCourse
  <2> SUFFICES ASSUME Init PROVE Fresh /\ OnCourse
    OBVIOUS
  <2>1. Fresh
    BY FreshAtFirst DEF Init
  <2>2. stored \in Existing /\ loader = [at |-> "start", have |-> {}, rest |-> <<>>]
    BY DEF Init, LoaderInit, Loading
  <2>3. Due \cap Others = {} /\ Due \subseteq Tables
    BY UniverseAssumption, DueIsTable DEF Due, Universe, Instruments
  <2>4. \A table \in Due : stored[table] = {}
    BY <2>2, <2>3
  <2>5. OnCourse
    BY <2>2, <2>4, NothingComes DEF OnCourse, Target
  <2> QED
    BY <2>1, <2>5
<1>2. FeedInv /\ Fresh /\ [Next]_vars => Fresh'
  BY FreshNext, FreshKept, RestIsFresh, LoaderStep DEF FeedInv
<1>3. FeedInv /\ Fresh /\ OnCourse /\ [Next]_vars => OnCourse'
  BY OnCourseNext DEF FeedInv
<1>4. Fresh /\ OnCourse => UninterruptedLoadIsComplete
  BY LoadedIsComplete
<1> QED
  BY <1>1, <1>2, <1>3, <1>4, FeedHolds, PTL DEF Spec

-----------------------------------------------------------------------------
(* Charts: the folds over the rows.                                        *)

Item == [day : Int, c : Candle]

\* What _aggregate_daily makes of its candles and one more row.
Merged(candles, r) ==
    IF candles # <<>> /\ Last(candles).day = r.day
    THEN LET c == Last(candles).c IN
         Append(Front(candles),
                [day |-> r.day,
                 c |-> [c EXCEPT !.high = Max({@, r.c.high}), !.low = Min({@, r.c.low}),
                                 !.close = r.c.close, !.volume = @ + r.c.volume]])
    ELSE Append(candles, [day |-> r.day, c |-> r.c])

\* The two folds: the candles of the days, and the volume of some rows.
Base(kind)       == IF kind = "candles" THEN <<>> ELSE 0
Step(kind, x, r) == IF kind = "candles" THEN Merged(x, r) ELSE x + r.c.volume

\* g[s] is the fold over the rows whose numbers are in s.
IsFold(g, kind, rows, U) ==
    g = [s \in SUBSET U |-> IF s = {} THEN Base(kind)
                            ELSE Step(kind, g[s \ {Max(s)}], rows[Max(s)])]

\* IsFold, equation by equation.
LEMMA FoldEquations ==
  ASSUME NEW g, NEW kind, NEW rows, NEW U
  PROVE  IsFold(g, kind, rows, U) <=>
            /\ g = [s \in SUBSET U |-> g[s]]
            /\ g[{}] = Base(kind)
            /\ \A s \in SUBSET U :
                  s # {} => g[s] = Step(kind, g[s \ {Max(s)}], rows[Max(s)])
<1>1. ASSUME IsFold(g, kind, rows, U)
      PROVE  /\ g = [s \in SUBSET U |-> g[s]]
             /\ g[{}] = Base(kind)
             /\ \A s \in SUBSET U :
                   s # {} => g[s] = Step(kind, g[s \ {Max(s)}], rows[Max(s)])
  BY <1>1 DEF IsFold
<1>2. ASSUME /\ g = [s \in SUBSET U |-> g[s]]
             /\ g[{}] = Base(kind)
             /\ \A s \in SUBSET U :
                   s # {} => g[s] = Step(kind, g[s \ {Max(s)}], rows[Max(s)])
      PROVE  IsFold(g, kind, rows, U)
  BY <1>2 DEF IsFold
<1> QED
  BY <1>1, <1>2

\* The greatest of some numbers is one of them.
LEMMA MaxIsMember ==
  ASSUME NEW U, IsFiniteSet(U), \A x \in U : x \in Int, NEW s \in SUBSET U, s # {}
  PROVE  Max(s) \in s
<1>1. IsFiniteSet(s)
  BY FS_Subset
<1>2. \A x \in s : x \in Int
  OBVIOUS
<1> QED
  BY <1>1, <1>2, MaxProperties

\* A fold over a set of numbers is one over each of its subsets ...
LEMMA FoldRestricts ==
  ASSUME NEW U, NEW kind, NEW rows, NEW g, IsFold(g, kind, rows, U), NEW V \in SUBSET U
  PROVE  IsFold([s \in SUBSET V |-> g[s]], kind, rows, V)
<1> DEFINE h == [s \in SUBSET V |-> g[s]]
<1>1. h = [s \in SUBSET V |-> h[s]] /\ h[{}] = Base(kind)
  BY FoldEquations
<1>2. ASSUME NEW s \in SUBSET V, s # {}
      PROVE  h[s] = Step(kind, h[s \ {Max(s)}], rows[Max(s)])
  BY <1>2, FoldEquations
<1> QED
  BY <1>1, <1>2, FoldEquations

\* ... there is at most one ...
LEMMA FoldUnique ==
  ASSUME NEW U, IsFiniteSet(U), \A x \in U : x \in Int, NEW kind, NEW rows, NEW g, NEW h,
         IsFold(g, kind, rows, U), IsFold(h, kind, rows, U)
  PROVE  g = h
<1> DEFINE T == {s \in SUBSET U : g[s] # h[s]}
<1>1. SUFFICES ASSUME T # {} PROVE FALSE
  BY FoldEquations
<1>2. T \subseteq SUBSET U
  OBVIOUS
<1> HIDE DEF T
<1>5. PICK m \in T : \A y \in T : y \subseteq m => y = m
  BY <1>1, <1>2, MinimalSubset
<1> USE DEF T
<1>6. m # {}
  BY FoldEquations
<1>7. Max(m) \in m
  BY <1>6, MaxIsMember
<1>8. m \ {Max(m)} \notin T
  BY <1>5, <1>7
<1> QED
  BY <1>6, <1>8, FoldEquations

\* ... and there is one.
LEMMA FoldExists ==
  ASSUME NEW U, IsFiniteSet(U), \A x \in U : x \in Int, NEW kind, NEW rows
  PROVE  \E g : IsFold(g, kind, rows, U)
<1> DEFINE T == {s \in SUBSET U : ~ \E g : IsFold(g, kind, rows, s)}
<1>1. SUFFICES ASSUME T # {} PROVE FALSE
  OBVIOUS
<1>2. T \subseteq SUBSET U
  OBVIOUS
<1> HIDE DEF T
<1>4. PICK m \in T : \A y \in T : y \subseteq m => y = m
  BY <1>1, <1>2, MinimalSubset
<1> USE DEF T
<1>5. ASSUME NEW s \in SUBSET m, s # m PROVE \E g : IsFold(g, kind, rows, s)
  BY <1>4, <1>5
<1> DEFINE below(s) == CHOOSE g : IsFold(g, kind, rows, s)
           rest(s)  == s \ {Max(s)}
           h == [s \in SUBSET m |-> IF s = {} THEN Base(kind)
                                    ELSE Step(kind, below(rest(s))[rest(s)], rows[Max(s)])]
<1>6. ASSUME NEW s \in SUBSET m, s # m PROVE IsFold(below(s), kind, rows, s)
  BY <1>5, <1>6
<1>7. /\ m \in SUBSET U /\ \A s \in SUBSET m : s \in SUBSET U
      /\ \A s \in SUBSET m : IsFiniteSet(s) /\ \A x \in s : x \in Int
  BY <1>4, FS_Subset
<1> HIDE DEF below, T
<1>8. ASSUME NEW s \in SUBSET m, s # {}
      PROVE  rest(s) \in SUBSET s /\ rest(s) # m /\ rest(s) \in SUBSET m
  <2>1. Max(s) \in s
    BY <1>7, <1>8, MaxIsMember
  <2> QED
    BY <2>1
<1>9. ASSUME NEW s \in SUBSET m, s # m, s # {}
      PROVE  below(s)[s] = Step(kind, below(rest(s))[rest(s)], rows[Max(s)])
  <2>1. rest(s) \in SUBSET s /\ rest(s) # m /\ rest(s) \in SUBSET m
    BY <1>8, <1>9
  <2>2. IsFold(below(s), kind, rows, s) /\ IsFold(below(rest(s)), kind, rows, rest(s))
    BY <1>6, <1>9, <2>1
  <2> DEFINE k == [v \in SUBSET rest(s) |-> below(s)[v]]
  <2>3. IsFold(k, kind, rows, rest(s))
    <3>1. PICK V, g : V = rest(s) /\ g = below(s)
      OBVIOUS
    <3>2. IsFold([v \in SUBSET V |-> g[v]], kind, rows, V)
      <4>1. V \in SUBSET s /\ IsFold(g, kind, rows, s)
        BY <2>1, <2>2, <3>1
      <4> QED
        BY <4>1, FoldRestricts
    <3> QED
      BY <3>1, <3>2
  <2>4. IsFiniteSet(rest(s)) /\ \A x \in rest(s) : x \in Int
    BY <1>7, <2>1
  <2> HIDE DEF k
  <2>5. k = below(rest(s))
    BY <2>2, <2>3, <2>4, FoldUnique
  <2>6. below(s)[s] = Step(kind, below(s)[rest(s)], rows[Max(s)])
    BY <1>9, <2>2, FoldEquations
  <2> QED
    BY <2>5, <2>6 DEF k
<1>10. h = [s \in SUBSET m |-> h[s]] /\ h[{}] = Base(kind)
  OBVIOUS
<1>11. ASSUME NEW s \in SUBSET m, s # {} PROVE h[s] = Step(kind, h[rest(s)], rows[Max(s)])
  <2>1. rest(s) \in SUBSET m /\ rest(s) # m
    BY <1>8, <1>11
  <2>2. h[s] = Step(kind, below(rest(s))[rest(s)], rows[Max(s)])
    BY <1>11
  <2>3. CASE rest(s) = {}
    <3>1. below(rest(s))[rest(s)] = Base(kind)
      BY <1>6, <2>1, <2>3, FoldEquations
    <3> QED
      BY <2>2, <2>3, <3>1
  <2>4. CASE rest(s) # {}
    <3>1. below(rest(s))[rest(s)]
             = Step(kind, below(rest(rest(s)))[rest(rest(s))], rows[Max(rest(s))])
      BY <1>9, <2>1, <2>4
    <3>2. h[rest(s)] = Step(kind, below(rest(rest(s)))[rest(rest(s))], rows[Max(rest(s))])
      BY <2>1, <2>4
    <3> QED
      BY <2>2, <3>1, <3>2
  <2> QED
    BY <2>3, <2>4
<1> HIDE DEF h
<1>12. IsFold(h, kind, rows, m)
  BY <1>10, <1>11, FoldEquations
<1> QED
  BY <1>4, <1>12 DEF T

\* Row by row.
LEMMA FoldSteps ==
  ASSUME NEW n \in Nat, NEW kind, NEW rows, NEW g, IsFold(g, kind, rows, 1..n)
  PROVE  /\ g[1..0] = Base(kind)
         /\ \A k \in 0..n : k # n => g[1..(k + 1)] = Step(kind, g[1..k], rows[k + 1])
<1>1. 1..0 = {}
  OBVIOUS
<1>2. ASSUME NEW k \in 0..n, k # n
      PROVE  g[1..(k + 1)] = Step(kind, g[1..k], rows[k + 1])
  <2> DEFINE s == 1..(k + 1)
  <2>1. s \in SUBSET (1..n) /\ s # {} /\ k + 1 \in s /\ \A x \in s : x <= k + 1
    BY <1>2
  <2>2. IsFiniteSet(s) /\ \A x \in s : x \in Int
    BY FS_Interval
  <2>3. s \ {k + 1} = 1..k
    OBVIOUS
  <2> HIDE DEF s
  <2>4. Max(s) = k + 1
    <3>1. Max(s) \in s /\ \A x \in s : x <= Max(s)
      BY <2>1, <2>2, MaxProperties
    <3>2. Max(s) \in Int /\ Max(s) <= k + 1 /\ k + 1 <= Max(s)
      BY <2>1, <2>2, <3>1
    <3> QED
      BY <3>2
  <2>5. g[s] = Step(kind, g[s \ {Max(s)}], rows[Max(s)])
    BY <2>1, FoldEquations
  <2> QED
    BY <2>3, <2>4, <2>5 DEF s
<1> QED
  BY <1>1, <1>2, FoldEquations

\* What Aggregate computes.
LEMMA AggregateSteps ==
  ASSUME NEW n \in Nat, NEW rows, DOMAIN rows = 1..n
  PROVE  \E h : /\ h[0] = <<>>
                /\ \A k \in 0..n : k # n => h[k + 1] = Merged(h[k], rows[k + 1])
                /\ Aggregate(rows) = h[n]
<1>0. IsFiniteSet(DOMAIN rows) /\ \A x \in DOMAIN rows : x \in Int
  BY FS_Interval
<1>1. \E g : IsFold(g, "candles", rows, DOMAIN rows)
  BY <1>0, FoldExists
<1>2. \E g : IsFold(g, "candles", rows, DOMAIN rows) /\ Aggregate(rows) = g[DOMAIN rows]
  BY <1>1 DEF Aggregate, FoldLeft, MapThenFoldSet, IsFold, Base, Step, Merged
<1>3. PICK g : IsFold(g, "candles", rows, 1..n) /\ Aggregate(rows) = g[1..n]
  BY <1>2
<1> DEFINE h == [k \in 0..n |-> g[1..k]]
<1>4. h[0] = <<>>
  BY <1>3, FoldSteps DEF Base
<1>5. \A k \in 0..n : k # n => h[k + 1] = Merged(h[k], rows[k + 1])
  BY <1>3, FoldSteps DEF Step
<1>6. Aggregate(rows) = h[n]
  BY <1>3
<1> QED
  BY <1>4, <1>5, <1>6

\* What the volume of a partial day is.
LEMMA VolumeSteps ==
  ASSUME NEW n \in Nat, NEW rows, DOMAIN rows = 1..n
  PROVE  \E h : /\ h[0] = 0
                /\ \A k \in 0..n : k # n => h[k + 1] = h[k] + rows[k + 1].c.volume
                /\ FoldLeft(LAMBDA sum, r : sum + r.c.volume, 0, rows) = h[n]
<1>0. IsFiniteSet(DOMAIN rows) /\ \A x \in DOMAIN rows : x \in Int
  BY FS_Interval
<1>1. \E g : IsFold(g, "volume", rows, DOMAIN rows)
  BY <1>0, FoldExists
<1>2. \E g : /\ IsFold(g, "volume", rows, DOMAIN rows)
             /\ FoldLeft(LAMBDA sum, r : sum + r.c.volume, 0, rows) = g[DOMAIN rows]
  BY <1>1 DEF FoldLeft, MapThenFoldSet, IsFold, Base, Step
<1>3. PICK total : total = FoldLeft(LAMBDA sum, r : sum + r.c.volume, 0, rows)
  OBVIOUS
<1>4. PICK g : IsFold(g, "volume", rows, 1..n) /\ total = g[1..n]
  BY <1>2, <1>3
<1> DEFINE h == [k \in 0..n |-> g[1..k]]
<1>5. h[0] = 0
  BY <1>4, FoldSteps DEF Base
<1>6. \A k \in 0..n : k # n => h[k + 1] = h[k] + rows[k + 1].c.volume
  BY <1>4, FoldSteps DEF Step
<1>7. total = h[n]
  BY <1>4
<1> HIDE DEF h
<1> QED
  BY <1>3, <1>5, <1>6, <1>7

-----------------------------------------------------------------------------
(* What a candle is of, and what the candles of the days are of.           *)

Volumes(i) == [t \in Recorded |-> Tape[i][t].volume]

CandleOf(c, i, X) ==
    /\ c \in Candle
    /\ c.open  = Tape[i][Min(X)].open
    /\ c.close = Tape[i][Max(X)].close
    /\ c.high  = Max({Tape[i][t].high : t \in X})
    /\ c.low   = Min({Tape[i][t].low : t \in X})
    /\ c.volume = SumOf(Volumes(i), X)

DailyOf(candles, i, X) ==
    /\ candles \in Seq(Item)
    /\ \A k \in DOMAIN candles : \E t \in X : candles[k].day = Day(t)
    /\ \A t \in X : \E k \in DOMAIN candles : candles[k].day = Day(t)
    /\ \A j, k \in DOMAIN candles : j < k => candles[j].day < candles[k].day
    /\ \A k \in DOMAIN candles :
          CandleOf(candles[k].c, i, {t \in X : Day(t) = candles[k].day})

\* Finitely many rows of an instrument.
RowSet(i, X) == i \in Instruments /\ X \subseteq Recorded /\ IsFiniteSet(X)

\* The rows of a row set are times, and on the tape.
LEMMA RowSetHas ==
  ASSUME NEW i, NEW X, RowSet(i, X)
  PROVE  /\ \A t \in X : t \in Int /\ t \in Nat /\ Day(t) \in Int
         /\ \A t \in X : Tape[i][t] \in Candle /\ Volumes(i)[t] = Tape[i][t].volume
         /\ \A t \in X : /\ Tape[i][t].open \in Int /\ Tape[i][t].close \in Int
                         /\ Tape[i][t].high \in Int /\ Tape[i][t].low \in Int
                         /\ Tape[i][t].volume \in Int
<1>1. \A t \in X : t \in Nat
  BY RecordedIsTimes DEF RowSet, Times
<1>2. \A t \in X : t \in Int /\ Day(t) \in Int
  BY <1>1, FeedAssumption DEF Day
<1>3. \A t \in X : Tape[i][t] \in Candle
  BY TapeAssumption DEF RowSet
<1>4. \A t \in X : Volumes(i)[t] = Tape[i][t].volume
  BY DEF Volumes, RowSet
<1> QED
  BY <1>1, <1>2, <1>3, <1>4 DEF Candle

\* The greatest and the least of one.
LEMMA ExtremesOfOne ==
  ASSUME NEW a \in Int
  PROVE  Max({a}) = a /\ Min({a}) = a
<1> DEFINE S == {a}
<1>1. IsFiniteSet(S) /\ S # {} /\ \A x \in S : x \in Int
  BY FS_Singleton
<1> HIDE DEF S
<1>2. Max(S) \in S /\ Min(S) \in S
  BY <1>1, MaxProperties, MinProperties
<1> QED
  BY <1>2 DEF S

\* Another element.
LEMMA ExtremesOfMore ==
  ASSUME NEW S, IsFiniteSet(S), S # {}, \A x \in S : x \in Int, NEW a \in Int
  PROVE  /\ Max(S) \in Int /\ Min(S) \in Int
         /\ Max(S \cup {a}) = Max({Max(S), a})
         /\ Min(S \cup {a}) = Min({Min(S), a})
<1> DEFINE U == S \cup {a}
<1>1. IsFiniteSet(U) /\ U # {} /\ \A x \in U : x \in Int
  BY FS_AddElement
<1>2. S \subseteq U /\ a \in U /\ \A x \in U : x \in S \/ x = a
  OBVIOUS
<1> HIDE DEF U
<1>3. /\ Max(U) \in U /\ Min(U) \in U /\ Max(S) \in S /\ Min(S) \in S
      /\ \A x \in U : x <= Max(U) /\ Min(U) <= x
      /\ \A x \in S : x <= Max(S) /\ Min(S) <= x
  BY <1>1, MaxProperties, MinProperties
<1>4. Max(S) \in Int /\ Min(S) \in Int /\ Max(U) \in Int /\ Min(U) \in Int
  BY <1>1, <1>3
<1>5. /\ Max({Max(S), a}) = (IF Max(S) >= a THEN Max(S) ELSE a)
      /\ Min({Min(S), a}) = (IF Min(S) <= a THEN Min(S) ELSE a)
  BY <1>4, MaxOfTwo
<1>6. Max(U) = (IF Max(S) >= a THEN Max(S) ELSE a)
  <2>1. Max(S) <= Max(U) /\ a <= Max(U)
    BY <1>2, <1>3
  <2>2. Max(U) <= Max(S) \/ Max(U) = a
    BY <1>2, <1>3
  <2> QED
    BY <1>4, <2>1, <2>2
<1>7. Min(U) = (IF Min(S) <= a THEN Min(S) ELSE a)
  <2>1. Min(U) <= Min(S) /\ Min(U) <= a
    BY <1>2, <1>3
  <2>2. Min(S) <= Min(U) \/ Min(U) = a
    BY <1>2, <1>3
  <2> QED
    BY <1>4, <2>1, <2>2
<1> QED
  BY <1>4, <1>5, <1>6, <1>7 DEF U

\* A row alone is its candle.
LEMMA CandleOfOne ==
  ASSUME NEW i, NEW t, RowSet(i, {t})
  PROVE  CandleOf(Tape[i][t], i, {t})
<1> DEFINE r == Tape[i][t]
<1>1. /\ t \in Int /\ r \in Candle /\ Volumes(i)[t] = r.volume
      /\ r.high \in Int /\ r.low \in Int /\ r.volume \in Int
  BY RowSetHas
<1>2. Max({t}) = t /\ Min({t}) = t
  BY <1>1, ExtremesOfOne
<1>3. {Tape[i][u].high : u \in {t}} = {r.high} /\ {Tape[i][u].low : u \in {t}} = {r.low}
  OBVIOUS
<1>4. Max({r.high}) = r.high /\ Min({r.low}) = r.low
  BY <1>1, ExtremesOfOne
<1>5. SumOf(Volumes(i), {t}) = r.volume
  <2>1. \A y \in {} \cup {t} : Volumes(i)[y] \in Int
    BY <1>1
  <2>2. SumOf(Volumes(i), {} \cup {t}) = Volumes(i)[t] + SumOf(Volumes(i), {})
    BY <2>1, FS_EmptySet, SumAdd
  <2>3. SumOf(Volumes(i), {}) = 0 /\ {} \cup {t} = {t}
    BY SumEmpty
  <2> QED
    BY <1>1, <2>2, <2>3
<1> QED
  BY <1>1, <1>2, <1>3, <1>4, <1>5 DEF CandleOf

\* The values of finitely many rows.
LEMMA ValuesOf ==
  ASSUME NEW X, IsFiniteSet(X), NEW f, \A u \in X : f[u] \in Int
  PROVE  IsFiniteSet({f[u] : u \in X}) /\ \A v \in {f[u] : u \in X} : v \in Int
<1> DEFINE g == [u \in X |-> f[u]]
           V == {f[u] : u \in X}
<1>1. g \in Surjection(X, V)
  BY DEF Surjection
<1>2. IsFiniteSet(V)
  BY <1>1, FS_Surjection
<1> QED
  BY <1>2

\* One more row, later than the others, goes into their candle.
LEMMA CandleOfMore ==
  ASSUME NEW i, NEW X, RowSet(i, X), X # {}, NEW t, RowSet(i, X \cup {t}),
         \A u \in X : u < t, NEW c, CandleOf(c, i, X)
  PROVE  CandleOf([c EXCEPT !.high = Max({c.high, Tape[i][t].high}),
                            !.low = Min({c.low, Tape[i][t].low}),
                            !.close = Tape[i][t].close,
                            !.volume = c.volume + Tape[i][t].volume], i, X \cup {t})
<1> DEFINE r == Tape[i][t]
           Y == X \cup {t}
           H == {Tape[i][u].high : u \in X}
           L == {Tape[i][u].low : u \in X}
           d == [c EXCEPT !.high = Max({c.high, r.high}), !.low = Min({c.low, r.low}),
                          !.close = r.close, !.volume = c.volume + r.volume]
<1>1. /\ t \in Int /\ Volumes(i)[t] = r.volume
      /\ r.high \in Int /\ r.low \in Int /\ r.volume \in Int /\ r.close \in Int
      /\ \A u \in Y : u \in Int /\ Volumes(i)[u] \in Int
      /\ \A u \in X : u \in Int /\ Tape[i][u].high \in Int /\ Tape[i][u].low \in Int
  BY RowSetHas
<1>2. IsFiniteSet(X) /\ t \notin X
  BY <1>1 DEF RowSet
<1>3. Min(Y) = Min(X) /\ Max(Y) = t
  <2>1. Max(Y) = Max({Max(X), t}) /\ Min(Y) = Min({Min(X), t}) /\ Max(X) \in Int /\ Min(X) \in Int
    BY <1>1, <1>2, ExtremesOfMore
  <2>2. Max(X) \in X /\ Min(X) \in X
    BY <1>1, <1>2, MaxProperties, MinProperties
  <2>3. Max(X) < t /\ Min(X) < t
    BY <2>2
  <2> HIDE DEF Y
  <2>4. /\ Max({Max(X), t}) = (IF Max(X) >= t THEN Max(X) ELSE t)
        /\ Min({Min(X), t}) = (IF Min(X) <= t THEN Min(X) ELSE t)
    BY <1>1, <2>1, MaxOfTwo
  <2> QED
    BY <1>1, <2>1, <2>3, <2>4
<1>4. IsFiniteSet(H) /\ H # {} /\ \A v \in H : v \in Int
  <2> DEFINE f == [u \in X |-> Tape[i][u].high]
  <2>1. \A u \in X : f[u] \in Int
    BY <1>1
  <2>2. {f[u] : u \in X} = H
    OBVIOUS
  <2> HIDE DEF f
  <2>3. IsFiniteSet({f[u] : u \in X}) /\ \A v \in {f[u] : u \in X} : v \in Int
    BY <1>2, <2>1, ValuesOf
  <2> QED
    BY <2>2, <2>3
<1>5. IsFiniteSet(L) /\ L # {} /\ \A v \in L : v \in Int
  <2> DEFINE f == [u \in X |-> Tape[i][u].low]
  <2>1. \A u \in X : f[u] \in Int
    BY <1>1
  <2>2. {f[u] : u \in X} = L
    OBVIOUS
  <2> HIDE DEF f
  <2>3. IsFiniteSet({f[u] : u \in X}) /\ \A v \in {f[u] : u \in X} : v \in Int
    BY <1>2, <2>1, ValuesOf
  <2> QED
    BY <2>2, <2>3
<1>6. {Tape[i][u].high : u \in Y} = H \cup {r.high} /\ {Tape[i][u].low : u \in Y} = L \cup {r.low}
  OBVIOUS
<1>7. c.high = Max(H) /\ c.low = Min(L)
  BY DEF CandleOf
<1> HIDE DEF H, L
<1>8. Max(H \cup {r.high}) = Max({c.high, r.high}) /\ c.high \in Int
  <2>1. PICK a \in Int : a = r.high
    BY <1>1
  <2>2. Max(H) \in Int /\ Max(H \cup {a}) = Max({Max(H), a})
    BY <1>4, ExtremesOfMore
  <2> QED
    BY <1>7, <2>1, <2>2
<1>9. Min(L \cup {r.low}) = Min({c.low, r.low}) /\ c.low \in Int
  <2>1. PICK a \in Int : a = r.low
    BY <1>1
  <2>2. Min(L) \in Int /\ Min(L \cup {a}) = Min({Min(L), a})
    BY <1>5, ExtremesOfMore
  <2> QED
    BY <1>7, <2>1, <2>2
<1>10. /\ Max({c.high, r.high}) \in Int /\ Min({c.low, r.low}) \in Int
  BY <1>1, <1>8, <1>9, MaxOfTwo
<1>11. SumOf(Volumes(i), Y) = Volumes(i)[t] + SumOf(Volumes(i), X)
  BY <1>1, <1>2, SumAdd
<1>12. c \in Candle /\ c.open = Tape[i][Min(X)].open /\ c.volume = SumOf(Volumes(i), X)
  BY DEF CandleOf
<1>13. c.volume \in Int /\ SumOf(Volumes(i), Y) = c.volume + r.volume
  BY <1>1, <1>11, <1>12 DEF Candle
<1> HIDE DEF Y, r
<1>14. d \in Candle
  <2>1. PICK high \in Int, low \in Int, volume \in Int :
           /\ high = Max({c.high, r.high}) /\ low = Min({c.low, r.low})
           /\ volume = c.volume + r.volume
    BY <1>1, <1>10, <1>13
  <2>2. d = [c EXCEPT !.high = high, !.low = low, !.close = r.close, !.volume = volume]
    BY <2>1
  <2> HIDE DEF d
  <2> QED
    BY <1>1, <1>12, <2>2 DEF Candle
<1>15. /\ d.open = c.open /\ d.close = r.close /\ d.volume = c.volume + r.volume
       /\ d.high = Max({c.high, r.high}) /\ d.low = Min({c.low, r.low})
  BY <1>12 DEF Candle
<1> HIDE DEF d
<1>16. CandleOf(d, i, Y)
  BY <1>3, <1>6, <1>8, <1>9, <1>12, <1>13, <1>14, <1>15 DEF CandleOf, r
<1> QED
  BY <1>16 DEF d, Y, r

\* Days follow each other as times do.
LEMMA DayGrows ==
  ASSUME NEW t \in Nat, NEW u \in Nat, t <= u
  PROVE  Day(t) \in Int /\ Day(u) \in Int /\ Day(t) <= Day(u)
<1> DEFINE D == DayLength
           p == t \div D
           q == u \div D
<1>1. D \in Nat /\ D > 0
  BY FeedAssumption
<1>2. p \in Int /\ q \in Int /\ D * p <= t /\ u < D * (q + 1)
  BY <1>1
<1> HIDE DEF D, p, q
<1>3. D * p < D * (q + 1)
  BY <1>1, <1>2
<1>4. p < q + 1
  BY <1>1, <1>2, <1>3, Z3
<1>5. p <= q
  BY <1>2, <1>4
<1> QED
  BY <1>2, <1>5 DEF Day, D, p, q

\* The last element of a sequence is exchanged.
LEMMA LastExchanged ==
  ASSUME NEW S, NEW s \in Seq(S), s # <<>>, NEW e \in S
  PROVE  /\ Append(Front(s), e) \in Seq(S)
         /\ Len(Append(Front(s), e)) = Len(s)
         /\ \A k \in 1..Len(s) : Append(Front(s), e)[k] = IF k = Len(s) THEN e ELSE s[k]
<1>1. Len(s) \in Nat /\ Len(s) # 0
  BY EmptySeq, LenProperties
<1> DEFINE m == Len(s) - 1
           f == SubSeq(s, 1, m)
<1>2. m \in Nat /\ m <= Len(s) /\ m + 1 = Len(s)
  BY <1>1
<1>3. f \in Seq(S) /\ Len(f) = m /\ \A k \in 1..m : f[k] = s[k]
  <2>1. \A k \in 1..m : s[k] \in S
    BY <1>2, LenProperties
  <2> QED
    BY <1>2, <2>1, SubSeqProperties
<1>4. f = Front(s)
  BY DEF Front
<1> HIDE DEF f, m
<1>5. /\ Append(f, e) \in Seq(S)
      /\ Len(Append(f, e)) = Len(f) + 1
      /\ \A k \in 1..Len(f) : Append(f, e)[k] = f[k]
      /\ Append(f, e)[Len(f) + 1] = e
  BY <1>3, AppendProperties
<1>6. \A k \in 1..Len(s) : k # Len(s) => k \in 1..m
  BY <1>2
<1>7. PICK out : out = Append(f, e)
  OBVIOUS
<1>8. \A k \in 1..Len(s) : out[k] = IF k = Len(s) THEN e ELSE s[k]
  BY <1>2, <1>3, <1>5, <1>6, <1>7
<1> QED
  BY <1>2, <1>3, <1>4, <1>5, <1>7, <1>8

\* The last candle is exchanged for one of the same day, of rows with the same
\* days: the others stay.
LEMMA DailyExchanged ==
  ASSUME NEW i, NEW X, NEW Y, NEW cs, DailyOf(cs, i, X), cs # <<>>,
         NEW e \in Item, e.day = Last(cs).day,
         X \subseteq Y, \A t \in Y \ X : Day(t) = e.day,
         CandleOf(e.c, i, {t \in Y : Day(t) = e.day})
  PROVE  DailyOf(Append(Front(cs), e), i, Y)
<1>0. PICK n, out : n = Len(cs) /\ out = Append(Front(cs), e)
  OBVIOUS
<1>1. /\ cs \in Seq(Item) /\ n \in Nat /\ n # 0 /\ DOMAIN cs = 1..n
      /\ \A k \in 1..n : cs[k] \in Item
  BY <1>0, EmptySeq, LenProperties DEF DailyOf
<1>2. /\ out \in Seq(Item)
      /\ Len(out) = n
      /\ \A k \in 1..n : out[k] = IF k = n THEN e ELSE cs[k]
  <2>1. cs \in Seq(Item)
    BY <1>1
  <2>2. /\ Append(Front(cs), e) \in Seq(Item)
        /\ Len(Append(Front(cs), e)) = Len(cs)
        /\ \A k \in 1..Len(cs) : Append(Front(cs), e)[k] = IF k = Len(cs) THEN e ELSE cs[k]
    BY <2>1, LastExchanged
  <2> QED
    BY <1>0, <2>2
<1>3. DOMAIN out = 1..n
  BY <1>2, LenProperties
<1>4. n \in 1..n /\ cs[n].day = e.day
  BY <1>0, <1>1 DEF Last
<1>5. \A k \in 1..n : out[k].day = cs[k].day
  BY <1>2, <1>4
<1>6. \A k \in 1..n : \E t \in Y : out[k].day = Day(t)
  BY <1>1, <1>5 DEF DailyOf
<1>7. ASSUME NEW t \in Y PROVE \E k \in 1..n : out[k].day = Day(t)
  <2>1. CASE t \in X
    BY <1>1, <1>5, <2>1 DEF DailyOf
  <2>2. CASE t \notin X
    BY <1>4, <1>5, <2>2
  <2> QED
    BY <2>1, <2>2
<1>8. \A j, k \in 1..n : j < k => out[j].day < out[k].day
  BY <1>1, <1>5 DEF DailyOf
<1>9. ASSUME NEW k \in 1..n
      PROVE  CandleOf(out[k].c, i, {t \in Y : Day(t) = out[k].day})
  <2>1. CASE k = n
    BY <1>2, <2>1
  <2>2. CASE k # n
    <3>1. cs[k].day # e.day
      <4>1. k < n
        <5>1. k \in 1..n /\ k # n /\ n \in Nat
          BY <1>1, <2>2
        <5> QED
          BY <5>1
      <4>2. cs[k].day < cs[n].day
        BY <1>1, <1>4, <4>1 DEF DailyOf
      <4>3. cs[k].day \in Int /\ cs[n].day \in Int
        BY <1>1, <1>4 DEF Item
      <4> QED
        BY <1>4, <4>2, <4>3
    <3>2. {t \in Y : Day(t) = cs[k].day} = {t \in X : Day(t) = cs[k].day}
      BY <3>1
    <3>3. CandleOf(cs[k].c, i, {t \in X : Day(t) = cs[k].day})
      BY <1>1 DEF DailyOf
    <3>4. out[k] = cs[k]
      BY <1>2, <2>2
    <3> QED
      BY <3>2, <3>3, <3>4
  <2> QED
    BY <2>1, <2>2
<1>10. DailyOf(out, i, Y)
  BY <1>2, <1>3, <1>6, <1>7, <1>8, <1>9 DEF DailyOf
<1> QED
  BY <1>0, <1>10

\* The last candle is of the latest day.
LEMMA LastIsLatest ==
  ASSUME NEW i, NEW X, NEW cs, DailyOf(cs, i, X), cs # <<>>
  PROVE  /\ Last(cs) \in Item
         /\ \E t \in X : Day(t) = Last(cs).day
         /\ \A t \in X : Day(t) <= Last(cs).day
<1>1. PICK n : n = Len(cs)
  OBVIOUS
<1>2. /\ cs \in Seq(Item) /\ n \in Nat /\ n # 0 /\ DOMAIN cs = 1..n
      /\ \A k \in 1..n : cs[k] \in Item
  BY <1>1, EmptySeq, LenProperties DEF DailyOf
<1>3. Last(cs) = cs[n] /\ n \in 1..n
  BY <1>1, <1>2 DEF Last
<1>4. \E t \in X : Day(t) = Last(cs).day
  BY <1>2, <1>3 DEF DailyOf
<1>5. ASSUME NEW t \in X PROVE Day(t) <= Last(cs).day
  <2>1. PICK k \in 1..n : cs[k].day = Day(t)
    BY <1>2 DEF DailyOf
  <2>2. cs[k].day \in Int /\ cs[n].day \in Int
    BY <1>2, <1>3 DEF Item
  <2>3. CASE k = n
    BY <1>3, <2>1, <2>2, <2>3
  <2>4. CASE k # n
    <3>1. k < n
      <4>1. k \in 1..n /\ n \in Nat
        BY <1>2
      <4> QED
        BY <2>4, <4>1
    <3>2. cs[k].day < cs[n].day
      BY <1>2, <1>3, <3>1 DEF DailyOf
    <3> QED
      BY <1>3, <2>1, <2>2, <3>2
  <2> QED
    BY <2>3, <2>4
<1> QED
  BY <1>2, <1>3, <1>4, <1>5

\* The first row of a later day makes a candle of its own.
LEMMA DailyAppended ==
  ASSUME NEW i, NEW X, NEW t, NEW cs, DailyOf(cs, i, X),
         NEW e \in Item, e.day = Day(t), CandleOf(e.c, i, {t}),
         \A u \in X : Day(u) < e.day
  PROVE  DailyOf(Append(cs, e), i, X \cup {t})
<1>1. PICK n, out : n = Len(cs) /\ out = Append(cs, e)
  OBVIOUS
<1>2. /\ cs \in Seq(Item) /\ n \in Nat /\ DOMAIN cs = 1..n
      /\ \A k \in 1..n : cs[k] \in Item
  BY <1>1, LenProperties DEF DailyOf
<1>3. /\ out \in Seq(Item)
      /\ Len(out) = n + 1
      /\ \A k \in 1..n : out[k] = cs[k]
      /\ out[n + 1] = e
  <2>1. cs \in Seq(Item)
    BY <1>2
  <2>2. /\ Append(cs, e) \in Seq(Item)
        /\ Len(Append(cs, e)) = Len(cs) + 1
        /\ \A k \in 1..Len(cs) : Append(cs, e)[k] = cs[k]
        /\ Append(cs, e)[Len(cs) + 1] = e
    BY <2>1, AppendProperties
  <2> QED
    BY <1>1, <2>2
<1>4. DOMAIN out = 1..(n + 1)
  BY <1>3, LenProperties
<1>5. \A k \in 1..(n + 1) : k \in 1..n \/ k = n + 1
  BY <1>2
<1>6. \A k \in 1..n : \E u \in X : cs[k].day = Day(u)
  BY <1>2 DEF DailyOf
<1>7. \A k \in 1..n : cs[k].day < e.day
  BY <1>6
<1>8. \A k \in 1..(n + 1) : \E u \in X \cup {t} : out[k].day = Day(u)
  BY <1>3, <1>5, <1>6
<1>9. ASSUME NEW u \in X \cup {t} PROVE \E k \in 1..(n + 1) : out[k].day = Day(u)
  <2>1. CASE u \in X
    <3>1. PICK k \in 1..n : cs[k].day = Day(u)
      BY <1>2, <2>1 DEF DailyOf
    <3>2. k \in 1..(n + 1)
      BY <1>2
    <3> QED
      BY <1>3, <3>1, <3>2
  <2>2. CASE u = t
    <3>1. n + 1 \in 1..(n + 1)
      BY <1>2
    <3> QED
      BY <1>3, <2>2, <3>1
  <2> QED
    BY <2>1, <2>2
<1>10. ASSUME NEW j \in 1..(n + 1), NEW k \in 1..(n + 1), j < k PROVE out[j].day < out[k].day
  <2>1. j \in 1..n
    BY <1>2, <1>10
  <2>2. CASE k \in 1..n
    <3>1. cs[j].day < cs[k].day
      BY <1>2, <1>10, <2>1, <2>2 DEF DailyOf
    <3> QED
      BY <1>3, <2>1, <2>2, <3>1
  <2>3. CASE k = n + 1
    BY <1>3, <1>7, <2>1, <2>3
  <2> QED
    BY <1>5, <2>2, <2>3
<1>11. ASSUME NEW k \in 1..(n + 1)
       PROVE  CandleOf(out[k].c, i, {u \in X \cup {t} : Day(u) = out[k].day})
  <2>1. e.day \in Int /\ \A u \in X : Day(u) # e.day
    <3>1. e.day \in Int
      BY DEF Item
    <3> QED
      BY <3>1
  <2>2. CASE k \in 1..n
    <3>1. cs[k].day # e.day
      BY <1>6, <2>1, <2>2
    <3>2. {u \in X \cup {t} : Day(u) = cs[k].day} = {u \in X : Day(u) = cs[k].day}
      BY <3>1
    <3>3. CandleOf(cs[k].c, i, {u \in X : Day(u) = cs[k].day})
      BY <1>2, <2>2 DEF DailyOf
    <3>4. out[k] = cs[k]
      BY <1>3, <2>2
    <3> QED
      BY <3>2, <3>3, <3>4
  <2>3. CASE k = n + 1
    <3>1. {u \in X \cup {t} : Day(u) = e.day} = {t}
      BY <2>1
    <3> QED
      BY <1>3, <2>3, <3>1
  <2> QED
    BY <1>5, <2>2, <2>3
<1>12. DailyOf(out, i, X \cup {t})
  BY <1>3, <1>4, <1>8, <1>9, <1>10, <1>11 DEF DailyOf
<1> QED
  BY <1>1, <1>12

\* One more row, later than the others.
LEMMA DailyOfMore ==
  ASSUME NEW i, NEW X, NEW t, RowSet(i, X \cup {t}), \A u \in X : u < t,
         NEW cs, DailyOf(cs, i, X), NEW r, r = [c |-> Tape[i][t], day |-> Day(t)]
  PROVE  DailyOf(Merged(cs, r), i, X \cup {t})
<1>1. /\ RowSet(i, {t})
      /\ \A S \in SUBSET X : RowSet(i, S) /\ RowSet(i, S \cup {t})
  <2>1. IsFiniteSet(X \cup {t})
    BY DEF RowSet
  <2>2. IsFiniteSet({t}) /\ \A S \in SUBSET X : IsFiniteSet(S) /\ IsFiniteSet(S \cup {t})
    BY <2>1, FS_Subset
  <2> QED
    BY <2>2 DEF RowSet
<1>2. /\ t \in Nat /\ Day(t) \in Int /\ Tape[i][t] \in Candle
      /\ \A u \in X : u \in Nat
  BY RowSetHas
<1>3. \A u \in X : Day(u) \in Int /\ Day(u) <= Day(t)
  BY <1>2, DayGrows
<1>4. r.c = Tape[i][t] /\ r.day = Day(t)
  OBVIOUS
<1>5. CASE cs # <<>> /\ Last(cs).day = Day(t)
  <2>1. PICK c : c = Last(cs).c
    OBVIOUS
  <2>2. PICK d : d = [c EXCEPT !.high = Max({c.high, r.c.high}), !.low = Min({c.low, r.c.low}),
                               !.close = r.c.close, !.volume = c.volume + r.c.volume]
    OBVIOUS
  <2>3. Merged(cs, r) = Append(Front(cs), [day |-> Day(t), c |-> d])
    BY <1>4, <1>5, <2>1, <2>2 DEF Merged
  <2>4. PICK Y : Y = {u \in X : Day(u) = Day(t)}
    OBVIOUS
  <2>5. Y \in SUBSET X /\ Y # {}
    BY <1>5, <2>4, LastIsLatest
  <2>6. CandleOf(c, i, Y)
    <3>1. PICK n : n = Len(cs)
      OBVIOUS
    <3>2. cs \in Seq(Item) /\ n \in Nat /\ n # 0 /\ DOMAIN cs = 1..n
      BY <1>5, <3>1, EmptySeq, LenProperties DEF DailyOf
    <3>3. Last(cs) = cs[n] /\ n \in 1..n
      BY <3>1, <3>2 DEF Last
    <3>4. CandleOf(cs[n].c, i, {u \in X : Day(u) = cs[n].day})
      BY <3>2, <3>3 DEF DailyOf
    <3> QED
      BY <1>5, <2>1, <2>4, <3>3, <3>4
  <2>7. CandleOf(d, i, Y \cup {t})
    <3>1. RowSet(i, Y) /\ RowSet(i, Y \cup {t}) /\ \A u \in Y : u < t
      BY <1>1, <2>5
    <3> QED
      BY <1>4, <2>2, <2>5, <2>6, <3>1, CandleOfMore
  <2>8. Y \cup {t} = {u \in X \cup {t} : Day(u) = Day(t)}
    BY <2>4
  <2>9. PICK e : e = [day |-> Day(t), c |-> d]
    OBVIOUS
  <2>10. e \in Item /\ e.day = Day(t) /\ e.c = d
    BY <1>2, <2>7, <2>9 DEF Item, CandleOf
  <2>11. /\ e.day = Last(cs).day
         /\ X \subseteq X \cup {t} /\ \A u \in (X \cup {t}) \ X : Day(u) = e.day
         /\ CandleOf(e.c, i, {u \in X \cup {t} : Day(u) = e.day})
    BY <1>5, <2>7, <2>8, <2>10
  <2>12. DailyOf(Append(Front(cs), e), i, X \cup {t})
    BY <1>5, <2>10, <2>11, DailyExchanged
  <2> QED
    BY <2>3, <2>9, <2>12
<1>6. CASE ~(cs # <<>> /\ Last(cs).day = Day(t))
  <2>1. PICK e : e = [day |-> Day(t), c |-> Tape[i][t]]
    OBVIOUS
  <2>2. Merged(cs, r) = Append(cs, e)
    BY <1>4, <1>6, <2>1 DEF Merged
  <2>3. e \in Item /\ e.day = Day(t) /\ e.c = Tape[i][t]
    BY <1>2, <2>1 DEF Item
  <2>4. CandleOf(e.c, i, {t})
    BY <1>1, <2>3, CandleOfOne
  <2>5. ASSUME NEW u \in X PROVE Day(u) < e.day
    <3>1. cs # <<>>
      BY EmptySeq DEF DailyOf
    <3>2. PICK v \in X : Day(v) = Last(cs).day
      BY <3>1, LastIsLatest
    <3>3. Day(u) <= Last(cs).day
      BY <3>1, LastIsLatest
    <3>4. Day(v) <= Day(t) /\ Day(v) # Day(t) /\ Day(v) \in Int /\ Day(u) \in Int /\ Day(t) \in Int
      BY <1>2, <1>3, <1>6, <3>1, <3>2
    <3> QED
      BY <2>3, <3>2, <3>3, <3>4
  <2>6. DailyOf(Append(cs, e), i, X \cup {t})
    BY <2>3, <2>4, <2>5, DailyAppended
  <2> QED
    BY <2>2, <2>6
<1> QED
  BY <1>5, <1>6

\* The first k of a sequence of times.
Upto(s, k) == {s[j] : j \in 1..k}

\* rows are those of the times S, which s has in their order.
InRows(i, S, n, s, rows) ==
    /\ n \in Nat /\ rows = Rows(i, S) /\ DOMAIN rows = 1..n /\ Len(rows) = n
    /\ \A k \in 1..n : rows[k] = [c |-> Tape[i][s[k]], day |-> Day(s[k])]
    /\ \A k \in 1..n : s[k] \in S
    /\ Upto(s, 0) = {} /\ Upto(s, n) = S
    /\ \A k \in 0..n : k # n =>
          /\ Upto(s, k + 1) = Upto(s, k) \cup {s[k + 1]}
          /\ RowSet(i, Upto(s, k + 1)) /\ s[k + 1] \notin Upto(s, k)
          /\ \A u \in Upto(s, k) : u < s[k + 1]

\* The rows of a row set, one by one.
LEMMA RowsInOrder ==
  ASSUME NEW i, NEW S, RowSet(i, S)
  PROVE  \E n, s, rows : InRows(i, S, n, s, rows)
<1>1. PICK n, s, rows : n = Cardinality(S) /\ s = InOrder(S) /\ rows = Rows(i, S)
  OBVIOUS
<1>2. IsFiniteSet(S) /\ \A x \in S : x \in Int
  BY RowSetHas DEF RowSet
<1>3. n \in Nat
  BY <1>1, <1>2, FS_CardinalityType
<1>4. /\ s \in [1..n -> S] /\ Len(s) = n
      /\ \A j, k \in DOMAIN s : j < k => s[j] < s[k]
      /\ ToSet(s) = S
  BY <1>1, <1>2, InOrderAscends
<1>5. DOMAIN s = 1..n
  BY <1>4
<1>6. rows = [k \in 1..n |-> [c |-> Tape[i][s[k]], day |-> Day(s[k])]]
  BY <1>1, <1>5 DEF Rows
<1>7. DOMAIN rows = 1..n /\ \A k \in 1..n : rows[k] = [c |-> Tape[i][s[k]], day |-> Day(s[k])]
  BY <1>6
<1>8. Len(rows) = n
  <2> DEFINE R == {rows[k] : k \in 1..n}
  <2>1. rows \in [1..n -> R]
    BY <1>6
  <2> HIDE DEF R
  <2>2. rows \in Seq(R)
    BY <1>3, <2>1, SeqDef
  <2> QED
    BY <1>3, <1>7, <2>2, LenProperties
<1>9. \A k \in 1..n : s[k] \in S
  BY <1>4
<1>10. Upto(s, 0) = {} /\ Upto(s, n) = S
  BY <1>4, <1>5 DEF Upto, ToSet
<1>11. ASSUME NEW k \in 0..n, k # n
       PROVE  /\ Upto(s, k + 1) = Upto(s, k) \cup {s[k + 1]}
              /\ RowSet(i, Upto(s, k + 1)) /\ s[k + 1] \notin Upto(s, k)
              /\ \A u \in Upto(s, k) : u < s[k + 1]
  <2>1. /\ k + 1 \in 1..n
        /\ \A j \in 1..(k + 1) : j \in 1..n /\ (j \in 1..k \/ j = k + 1)
        /\ \A j \in 1..k : j \in 1..n /\ j \in 1..(k + 1) /\ j < k + 1
        /\ k + 1 \in 1..(k + 1)
    BY <1>3, <1>11
  <2>2. Upto(s, k + 1) = Upto(s, k) \cup {s[k + 1]}
    BY <2>1 DEF Upto
  <2>3. \A u \in Upto(s, k) : u < s[k + 1]
    BY <1>4, <1>5, <2>1 DEF Upto
  <2>4. Upto(s, k + 1) \in SUBSET S
    BY <1>9, <2>1 DEF Upto
  <2>5. RowSet(i, Upto(s, k + 1))
    <3>1. IsFiniteSet(Upto(s, k + 1))
      BY <1>2, <2>4, FS_Subset
    <3> QED
      BY <2>4, <3>1 DEF RowSet
  <2>6. s[k + 1] \in Int
    BY <1>2, <1>9, <2>1
  <2>7. s[k + 1] \notin Upto(s, k)
    <3> SUFFICES ASSUME s[k + 1] \in Upto(s, k) PROVE FALSE
      OBVIOUS
    <3>1. s[k + 1] < s[k + 1]
      BY <2>3
    <3> QED
      BY <2>6, <3>1
  <2> QED
    BY <2>2, <2>3, <2>5, <2>7
<1>12. InRows(i, S, n, s, rows)
  BY <1>1, <1>3, <1>7, <1>8, <1>9, <1>10, <1>11 DEF InRows
<1> QED
  BY <1>12

\* _aggregate_daily makes the candles of the days.
LEMMA AggregateIsDaily ==
  ASSUME NEW i, NEW S, RowSet(i, S)
  PROVE  DailyOf(Aggregate(Rows(i, S)), i, S)
<1>0. PICK n, s, rows : InRows(i, S, n, s, rows)
  BY RowsInOrder
<1>1. /\ n \in Nat /\ rows = Rows(i, S) /\ DOMAIN rows = 1..n
      /\ \A k \in 1..n : rows[k] = [c |-> Tape[i][s[k]], day |-> Day(s[k])]
      /\ Upto(s, 0) = {} /\ Upto(s, n) = S
      /\ \A k \in 0..n : k # n =>
            /\ Upto(s, k + 1) = Upto(s, k) \cup {s[k + 1]}
            /\ RowSet(i, Upto(s, k + 1))
            /\ \A u \in Upto(s, k) : u < s[k + 1]
  BY <1>0 DEF InRows
<1>2. PICK h : /\ h[0] = <<>>
               /\ \A k \in 0..n : k # n => h[k + 1] = Merged(h[k], rows[k + 1])
               /\ Aggregate(rows) = h[n]
  BY <1>1, AggregateSteps
<1> DEFINE T == {k \in 0..n : DailyOf(h[k], i, Upto(s, k))}
<1>3. 0 \in T
  <2>1. <<>> \in Seq(Item) /\ DOMAIN <<>> = {}
    BY EmptySeq
  <2>2. DailyOf(<<>>, i, {})
    BY <2>1 DEF DailyOf
  <2>3. 0 \in 0..n /\ Upto(s, 0) = {} /\ h[0] = <<>>
    BY <1>1, <1>2
  <2> QED
    BY <2>2, <2>3
<1>4. ASSUME NEW k \in 0..n, k \in T, k # n PROVE k + 1 \in T
  <2>1. DailyOf(h[k], i, Upto(s, k))
    BY <1>4
  <2>2. k + 1 \in 1..n /\ k + 1 \in 0..n
    BY <1>1, <1>4
  <2>3. PICK t, X, r : t = s[k + 1] /\ X = Upto(s, k) /\ r = rows[k + 1]
    OBVIOUS
  <2>4. /\ Upto(s, k + 1) = X \cup {t} /\ RowSet(i, X \cup {t})
        /\ \A u \in X : u < t
    BY <1>1, <1>4, <2>3
  <2>5. r = [c |-> Tape[i][t], day |-> Day(t)]
    BY <1>1, <2>2, <2>3
  <2>6. DailyOf(Merged(h[k], r), i, X \cup {t})
    BY <2>1, <2>3, <2>4, <2>5, DailyOfMore
  <2>7. h[k + 1] = Merged(h[k], r)
    BY <1>2, <1>4, <2>3
  <2> QED
    BY <2>2, <2>4, <2>6, <2>7
<1> HIDE DEF T
<1>5. \A k \in 0..n : k \in T
  BY <1>1, <1>3, <1>4, Climb
<1>6. n \in T
  BY <1>1, <1>5
<1> QED
  BY <1>1, <1>2, <1>6 DEF T

\* The candle that get_prices makes of the last day's rows is that of the day.
LEMMA PartialIsCandle ==
  ASSUME NEW i, NEW X, RowSet(i, X), X # {}
  PROVE  CandleOf(Partial(Rows(i, X)), i, X)
<1>0. PICK n, s, rows : InRows(i, X, n, s, rows)
  BY RowsInOrder
<1>1. /\ n \in Nat /\ rows = Rows(i, X) /\ DOMAIN rows = 1..n /\ Len(rows) = n
      /\ \A k \in 1..n : rows[k] = [c |-> Tape[i][s[k]], day |-> Day(s[k])]
      /\ \A k \in 1..n : s[k] \in X
      /\ Upto(s, 0) = {} /\ Upto(s, n) = X
      /\ \A k \in 0..n : k # n =>
            /\ Upto(s, k + 1) = Upto(s, k) \cup {s[k + 1]}
            /\ RowSet(i, Upto(s, k + 1)) /\ s[k + 1] \notin Upto(s, k)
            /\ \A u \in Upto(s, k) : u < s[k + 1]
  BY <1>0 DEF InRows
<1>2. n # 0 /\ 1 \in 1..n /\ n \in 1..n
  <2>1. n # 0
    BY <1>1
  <2> QED
    BY <1>1, <2>1
<1>3. IsFiniteSet(X) /\ \A t \in X : t \in Int
  BY RowSetHas DEF RowSet
<1>4. s[n] = Max(X)
  <2>1. PICK m \in 0..n : m # n /\ m + 1 = n
    <3>1. n - 1 \in 0..n /\ n - 1 # n /\ (n - 1) + 1 = n
      BY <1>1, <1>2
    <3> QED
      BY <3>1
  <2>2. X = Upto(s, m) \cup {s[n]} /\ \A u \in Upto(s, m) : u < s[n]
    BY <1>1, <2>1
  <2>3. Max(X) \in X /\ s[n] <= Max(X) /\ s[n] \in X
    BY <1>1, <1>2, <1>3, MaxProperties
  <2>4. Max(X) \notin Upto(s, m)
    BY <1>3, <2>2, <2>3
  <2> QED
    BY <2>2, <2>3, <2>4
<1>5. s[1] = Min(X)
  <2>1. Min(X) \in X /\ \A u \in X : Min(X) <= u
    BY <1>2, <1>1, <1>3, MinProperties
  <2>2. PICK j \in 1..n : s[j] = Min(X)
    BY <1>1, <2>1 DEF Upto
  <2>3. CASE j = 1
    BY <2>2, <2>3
  <2>4. CASE j # 1
    <3>1. PICK m \in 0..n : m # n /\ m + 1 = j /\ 1 \in 1..m
      <4>1. j - 1 \in 0..n /\ j - 1 # n /\ (j - 1) + 1 = j /\ 1 \in 1..(j - 1)
        BY <1>1, <2>2, <2>4
      <4> QED
        BY <4>1
    <3>2. s[1] < s[j]
      BY <1>1, <3>1 DEF Upto
    <3>3. s[1] \in X
      BY <1>1, <1>2
    <3> QED
      BY <1>3, <2>1, <2>2, <3>2, <3>3
  <2> QED
    BY <2>3, <2>4
<1>6. /\ rows[1].c = Tape[i][Min(X)] /\ Last(rows).c = Tape[i][Max(X)]
  BY <1>1, <1>2, <1>4, <1>5 DEF Last
<1>7. /\ {rows[k].c.high : k \in DOMAIN rows} = {Tape[i][t].high : t \in X}
      /\ {rows[k].c.low : k \in DOMAIN rows} = {Tape[i][t].low : t \in X}
  <2>1. \A k \in 1..n : rows[k].c = Tape[i][s[k]] /\ s[k] \in X
    BY <1>1
  <2>2. \A t \in X : \E k \in 1..n : t = s[k]
    BY <1>1 DEF Upto
  <2>3. DOMAIN rows = 1..n
    BY <1>1
  <2>4. {rows[k].c.high : k \in 1..n} = {Tape[i][t].high : t \in X}
    BY <2>1, <2>2
  <2>5. {rows[k].c.low : k \in 1..n} = {Tape[i][t].low : t \in X}
    BY <2>1, <2>2
  <2> QED
    BY <2>3, <2>4, <2>5
<1>8. PICK total : total = FoldLeft(LAMBDA sum, r : sum + r.c.volume, 0, rows)
  OBVIOUS
<1>9. PICK h : /\ h[0] = 0
               /\ \A k \in 0..n : k # n => h[k + 1] = h[k] + rows[k + 1].c.volume
               /\ total = h[n]
  <2>1. n \in Nat /\ DOMAIN rows = 1..n
    BY <1>1
  <2>2. \E h : /\ h[0] = 0
               /\ \A k \in 0..n : k # n => h[k + 1] = h[k] + rows[k + 1].c.volume
               /\ FoldLeft(LAMBDA sum, r : sum + r.c.volume, 0, rows) = h[n]
    BY <2>1, VolumeSteps
  <2> QED
    BY <1>8, <2>2
<1>10. total = SumOf(Volumes(i), X)
  <2> DEFINE T == {k \in 0..n : h[k] = SumOf(Volumes(i), Upto(s, k)) /\ h[k] \in Int}
  <2>1. 0 \in T
    <3>1. SumOf(Volumes(i), {}) = 0
      BY SumEmpty
    <3>2. Upto(s, 0) = {} /\ h[0] = 0 /\ 0 \in 0..n
      BY <1>1, <1>9
    <3> QED
      BY <3>1, <3>2
  <2>2. ASSUME NEW k \in 0..n, k \in T, k # n PROVE k + 1 \in T
    <3>1. k + 1 \in 1..n /\ k + 1 \in 0..n /\ h[k] = SumOf(Volumes(i), Upto(s, k)) /\ h[k] \in Int
      BY <1>1, <2>2
    <3>2. PICK t, Y : t = s[k + 1] /\ Y = Upto(s, k)
      OBVIOUS
    <3>3. Upto(s, k + 1) = Y \cup {t} /\ RowSet(i, Y \cup {t}) /\ t \notin Y
      BY <1>1, <2>2, <3>2
    <3>4. \A u \in Y \cup {t} : Volumes(i)[u] = Tape[i][u].volume /\ Volumes(i)[u] \in Int
      BY <3>3, RowSetHas
    <3>5. IsFiniteSet(Y)
      <4>1. IsFiniteSet(Y \cup {t}) /\ Y \in SUBSET (Y \cup {t})
        BY <3>3 DEF RowSet
      <4> QED
        BY <4>1, FS_Subset
    <3>6. SumOf(Volumes(i), Y \cup {t}) = Volumes(i)[t] + SumOf(Volumes(i), Y)
      <4>1. \A u \in Y \cup {t} : Volumes(i)[u] \in Int
        BY <3>4
      <4> QED
        BY <3>3, <3>5, <4>1, SumAdd
    <3>7. rows[k + 1].c.volume = Volumes(i)[t]
      BY <1>1, <3>1, <3>2, <3>4
    <3>8. h[k + 1] = h[k] + Volumes(i)[t]
      BY <1>9, <2>2, <3>7
    <3>9. PICK a, b : a = Volumes(i)[t] /\ b = SumOf(Volumes(i), Y)
      OBVIOUS
    <3>10. a \in Int /\ b \in Int /\ h[k + 1] = b + a
      BY <3>1, <3>2, <3>4, <3>8, <3>9
    <3>11. SumOf(Volumes(i), Upto(s, k + 1)) = a + b
      BY <3>3, <3>6, <3>9
    <3>12. a + b = b + a /\ b + a \in Int
      BY <3>10
    <3> QED
      BY <3>1, <3>10, <3>11, <3>12
  <2> HIDE DEF T
  <2>3. \A k \in 0..n : k \in T
    BY <1>1, <2>1, <2>2, Climb
  <2>4. n \in T
    BY <1>1, <2>3
  <2> QED
    BY <1>1, <1>9, <2>4 DEF T
<1>11. PICK c : c = Partial(rows)
  OBVIOUS
<1>12. c = [open |-> Tape[i][Min(X)].open,
            high |-> Max({Tape[i][t].high : t \in X}),
            low  |-> Min({Tape[i][t].low : t \in X}),
            close |-> Tape[i][Max(X)].close, volume |-> total]
  BY <1>6, <1>7, <1>8, <1>11 DEF Partial
<1>13. c \in Candle
  <2> DEFINE H == {Tape[i][t].high : t \in X}
             L == {Tape[i][t].low : t \in X}
  <2>1. \A t \in X : /\ Tape[i][t].open \in Int /\ Tape[i][t].close \in Int
                      /\ Tape[i][t].high \in Int /\ Tape[i][t].low \in Int
                      /\ Volumes(i)[t] \in Int
    BY RowSetHas
  <2>2. Min(X) \in X /\ Max(X) \in X
    BY <1>1, <1>2, <1>4, <1>5
  <2>3. Max(H) \in Int
    <3> DEFINE f == [t \in X |-> Tape[i][t].high]
    <3>1. \A t \in X : f[t] \in Int
      BY <2>1
    <3>2. {f[t] : t \in X} = H /\ H # {}
      BY <2>2
    <3> HIDE DEF f
    <3>3. IsFiniteSet({f[t] : t \in X}) /\ \A v \in {f[t] : t \in X} : v \in Int
      BY <1>3, <3>1, ValuesOf
    <3>4. IsFiniteSet(H) /\ H # {} /\ \A v \in H : v \in Int
      BY <3>2, <3>3
    <3> HIDE DEF H
    <3> QED
      BY <3>4, MaxProperties
  <2>4. Min(L) \in Int
    <3> DEFINE f == [t \in X |-> Tape[i][t].low]
    <3>1. \A t \in X : f[t] \in Int
      BY <2>1
    <3>2. {f[t] : t \in X} = L /\ L # {}
      BY <2>2
    <3> HIDE DEF f
    <3>3. IsFiniteSet({f[t] : t \in X}) /\ \A v \in {f[t] : t \in X} : v \in Int
      BY <1>3, <3>1, ValuesOf
    <3>4. IsFiniteSet(L) /\ L # {} /\ \A v \in L : v \in Int
      BY <3>2, <3>3
    <3> HIDE DEF L
    <3> QED
      BY <3>4, MinProperties
  <2>5. total \in Int
    BY <1>3, <1>10, <2>1, SumIsInteger
  <2> HIDE DEF H, L
  <2>6. c = [open |-> Tape[i][Min(X)].open, high |-> Max(H), low |-> Min(L),
             close |-> Tape[i][Max(X)].close, volume |-> total]
    BY <1>12 DEF H, L
  <2> QED
    BY <2>1, <2>2, <2>3, <2>4, <2>5, <2>6 DEF Candle
<1>14. CandleOf(c, i, X)
  BY <1>10, <1>12, <1>13 DEF CandleOf
<1> QED
  BY <1>1, <1>11, <1>14

\* get_prices makes the candles of the days, its last one from the rows of the
\* reference day, when that is the day of the last row.
LEMMA DailyIsOfTheDays ==
  ASSUME NEW i, NEW S, RowSet(i, S), S # {}, NEW ref, ref = Day(Max(S))
  PROVE  DailyOf(Daily(i, S, ref), i, S)
<1>1. PICK cs : cs = Aggregate(Rows(i, S))
  OBVIOUS
<1>2. DailyOf(cs, i, S)
  BY <1>1, AggregateIsDaily
<1>3. /\ \A t \in S : t \in Nat /\ t \in Int /\ Day(t) \in Int
      /\ IsFiniteSet(S)
  BY RowSetHas DEF RowSet
<1>4. Max(S) \in S /\ \A t \in S : t <= Max(S)
  BY <1>3, MaxProperties
<1>5. ref \in Int /\ \A t \in S : Day(t) <= ref
  BY <1>3, <1>4, DayGrows
<1>6. cs # <<>>
  <2>1. PICK k \in DOMAIN cs : cs[k].day = Day(Max(S))
    BY <1>2, <1>4 DEF DailyOf
  <2>2. DOMAIN <<>> = {}
    BY EmptySeq
  <2> QED
    BY <2>1, <2>2
<1>7. Last(cs).day = ref /\ Last(cs) \in Item
  <2>1. /\ Last(cs) \in Item
        /\ \E t \in S : Day(t) = Last(cs).day
        /\ \A t \in S : Day(t) <= Last(cs).day
    BY <1>2, <1>6, LastIsLatest
  <2>2. Last(cs).day <= ref /\ ref <= Last(cs).day /\ Last(cs).day \in Int
    BY <1>3, <1>4, <1>5, <2>1
  <2> QED
    BY <1>5, <2>1, <2>2
<1>8. PICK X : X = {t \in S : Day(t) = ref}
  OBVIOUS
<1>9. {t \in S : Day(t) >= ref} = X
  BY <1>3, <1>5, <1>8
<1>10. RowSet(i, X) /\ X # {}
  BY <1>4, <1>8, FS_Subset DEF RowSet
<1>11. CandleOf(Partial(Rows(i, X)), i, X)
  BY <1>10, PartialIsCandle
<1>12. PICK e : e = [day |-> ref, c |-> Partial(Rows(i, X))]
  OBVIOUS
<1>13. e \in Item /\ e.day = ref /\ CandleOf(e.c, i, X)
  BY <1>5, <1>11, <1>12 DEF Item, CandleOf
<1>14. DailyOf(Append(Front(cs), e), i, S)
  <2>1. CandleOf(e.c, i, {t \in S : Day(t) = e.day}) /\ e.day = Last(cs).day
    BY <1>7, <1>8, <1>13
  <2>2. S \subseteq S /\ \A t \in S \ S : Day(t) = e.day
    OBVIOUS
  <2> QED
    BY <1>2, <1>6, <1>13, <2>1, <2>2, DailyExchanged
<1>15. Daily(i, S, ref) = Append(Front(cs), e)
  BY <1>1, <1>9, <1>12 DEF Daily
<1> QED
  BY <1>14, <1>15

\* The volume of some rows, as the property takes it.
LEMMA VolumeIsSum ==
  ASSUME NEW i, NEW X, RowSet(i, X)
  PROVE  MapThenSumSet(LAMBDA t : Tape[i][t].volume, X) = SumOf(Volumes(i), X)
<1> DEFINE volumeSum(g) ==
             g = [s \in SUBSET X |-> IF s = {} THEN 0
                    ELSE Tape[i][Some(s)].volume + g[s \ {Some(s)}]]
<1>1. IsFiniteSet(X) /\ \A s \in SUBSET X : s # {} =>
         Volumes(i)[Some(s)] = Tape[i][Some(s)].volume
  BY SomeIsMember, RowSetHas DEF RowSet
<1>2. \A g : volumeSum(g) <=> IsSum(g, Volumes(i), X)
  BY <1>1 DEF IsSum
<1>3. PICK c : volumeSum(c)
  BY <1>1, <1>2, SumExists
<1>4. \E g : /\ volumeSum(g)
             /\ MapThenSumSet(LAMBDA t : Tape[i][t].volume, X) = g[X]
  BY <1>3 DEF MapThenSumSet, MapThenFoldSet, Some
<1>5. PICK k : IsSum(k, Volumes(i), X) /\ \A V \in SUBSET X : SumOf(Volumes(i), V) = k[V]
  BY <1>1, SumDefined
<1> HIDE DEF volumeSum
<1> QED
  BY <1>1, <1>2, <1>4, <1>5, SumUnique

-----------------------------------------------------------------------------
(* What a chart has read, and what it shows. *)

\* The day of a chart is that of a row it shows, and stays so while the tables
\* grow; what is served are rows up to its clock, as candles of their days.
ChartOK(h) ==
    LET c == handler[h] IN
    /\ c.at \in {"clock", "day", "served"} => c.on \in Instruments /\ c.days \in Nat
    /\ c.at = "day" => \E t \in Shown(h) : c.ref = Day(t)
    /\ c.at = "served" =>
          /\ RowSet(c.on, c.rows)
          /\ Withheld(c.rows, c.clock) = {}
          /\ (c.days # 0 /\ c.ref = Day(Max(c.rows))) => DailyOf(c.candles, c.on, c.rows)

ChartInv == \A h \in Handlers : ChartOK(h)

\* What is served so is what the property asks for.
LEMMA ChartsImplied == ChartInv => ChartsAreTheTape
<1> SUFFICES ASSUME ChartInv PROVE ChartsAreTheTape
  OBVIOUS
<1> SUFFICES ASSUME NEW h \in Handlers, handler[h].at = "served"
             PROVE  LET chart == handler[h]
                        of(d) == {t \in chart.rows : Day(t) = d}
                        bar(t) == Tape[chart.on][t]
                    IN  /\ Withheld(chart.rows, chart.clock) = {}
                        /\ (chart.days # 0 /\ chart.ref = Day(Max(chart.rows))) =>
                             /\ {chart.candles[k].day : k \in DOMAIN chart.candles}
                                   = {Day(t) : t \in chart.rows}
                             /\ \A j, k \in DOMAIN chart.candles :
                                   j < k => chart.candles[j].day < chart.candles[k].day
                             /\ \A k \in DOMAIN chart.candles :
                                   LET d == chart.candles[k].day  c == chart.candles[k].c IN
                                   /\ c.open  = bar(Min(of(d))).open
                                   /\ c.close = bar(Max(of(d))).close
                                   /\ c.high  = Max({bar(t).high : t \in of(d)})
                                   /\ c.low   = Min({bar(t).low : t \in of(d)})
                                   /\ c.volume = MapThenSumSet(LAMBDA t : bar(t).volume, of(d))
  BY DEF ChartsAreTheTape
<1> DEFINE i    == handler[h].on
           rows == handler[h].rows
           cs   == handler[h].candles
<1>2. /\ RowSet(i, rows) /\ Withheld(rows, handler[h].clock) = {}
      /\ (handler[h].days # 0 /\ handler[h].ref = Day(Max(rows))) => DailyOf(cs, i, rows)
  BY DEF ChartInv, ChartOK
<1>3. ASSUME DailyOf(cs, i, rows)
      PROVE  {cs[k].day : k \in DOMAIN cs} = {Day(t) : t \in rows}
  BY <1>3 DEF DailyOf
<1>4. ASSUME DailyOf(cs, i, rows), NEW k \in DOMAIN cs
      PROVE  LET X == {t \in rows : Day(t) = cs[k].day} IN
             /\ CandleOf(cs[k].c, i, X)
             /\ MapThenSumSet(LAMBDA t : Tape[i][t].volume, X) = SumOf(Volumes(i), X)
  <2> DEFINE X == {t \in rows : Day(t) = cs[k].day}
  <2>1. RowSet(i, X)
    BY <1>2, FS_Subset DEF RowSet
  <2>2. CandleOf(cs[k].c, i, X)
    BY <1>4 DEF DailyOf
  <2> HIDE DEF X
  <2>3. MapThenSumSet(LAMBDA t : Tape[i][t].volume, X) = SumOf(Volumes(i), X)
    BY <2>1, VolumeIsSum
  <2> QED
    BY <2>2, <2>3 DEF X
<1>5. ASSUME DailyOf(cs, i, rows), NEW k \in DOMAIN cs
      PROVE  LET X == {t \in rows : Day(t) = cs[k].day}
                 c == cs[k].c
             IN  /\ c.open  = Tape[i][Min(X)].open
                 /\ c.close = Tape[i][Max(X)].close
                 /\ c.high  = Max({Tape[i][t].high : t \in X})
                 /\ c.low   = Min({Tape[i][t].low : t \in X})
                 /\ c.volume = MapThenSumSet(LAMBDA t : Tape[i][t].volume, X)
  BY <1>4, <1>5 DEF CandleOf
<1>6. DailyOf(cs, i, rows) => \A j, k \in DOMAIN cs : j < k => cs[j].day < cs[k].day
  BY DEF DailyOf
<1> QED
  BY <1>2, <1>3, <1>5, <1>6

\* The rows that a request sees stay, while the tables grow.
LEMMA ShownStays ==
  ASSUME NEW h, handler[h].on \in Instruments,
         handler'[h].on = handler[h].on, handler'[h].clock = handler[h].clock,
         \A table \in Tables : stored[table] \subseteq stored'[table]
  PROVE  Shown(h) \subseteq Shown(h)'
BY DEF Shown, Withheld, Tables

\* Who is not at a chart shows none.
LEMMA ChartNone ==
  ASSUME NEW h, handler'[h].at \notin {"clock", "day", "served"}
  PROVE  ChartOK(h)'
BY DEF ChartOK

\* A request that takes no step keeps what it has read.
LEMMA ChartKept ==
  ASSUME NEW h, ChartOK(h), handler'[h] = handler[h],
         \A table \in Tables : stored[table] \subseteq stored'[table]
  PROVE  ChartOK(h)'
<1>1. CASE handler[h].at = "day"
  <2>1. Shown(h) \subseteq Shown(h)'
    BY <1>1, ShownStays DEF ChartOK
  <2> QED
    BY <1>1, <2>1 DEF ChartOK
<1>2. CASE handler[h].at # "day"
  BY <1>2 DEF ChartOK
<1> QED
  BY <1>1, <1>2

\* The rows of a request for a chart are finitely many, on the tape, and not
\* beyond its clock.
LEMMA ShownIsRowSet ==
  ASSUME LoadTypes, NEW h, handler[h].on \in Instruments
  PROVE  /\ RowSet(handler[h].on, Shown(h)) /\ Withheld(Shown(h), handler[h].clock) = {}
         /\ \A t \in Shown(h) : t \in Int /\ Day(t) \in Int
<1>1. RowSet(handler[h].on, Shown(h))
  <2>1. Shown(h) \subseteq stored[handler[h].on] /\ handler[h].on \in Tables
    BY DEF Shown, Tables
  <2>2. IsFiniteSet(stored[handler[h].on]) /\ stored[handler[h].on] \subseteq Recorded
    BY <2>1 DEF LoadTypes
  <2> QED
    BY <2>1, <2>2, FS_Subset DEF RowSet
<1>2. Withheld(Shown(h), handler[h].clock) = {}
  BY DEF Shown, Withheld
<1> QED
  BY <1>1, <1>2, RowSetHas

\* A request reads the clock.
LEMMA ChartClocks ==
  ASSUME FeedTypes, NEW h \in Handlers, NEW i \in Charted, NEW days \in Timeframes,
         ChartClock(h, i, days)
  PROVE  ChartOK(h)'
<1>1. handler'[h] = Chart("clock", i, days, simNow, Nothing, {}, <<>>)
  BY DEF ChartClock, FeedTypes, Workers
<1>2. handler'[h].at = "clock" /\ handler'[h].on = i /\ handler'[h].days = days
  BY <1>1 DEF Chart
<1> QED
  BY <1>2, FeedAssumption DEF ChartOK

\* It reads the day of the last row.
LEMMA ChartDays ==
  ASSUME LoadTypes, FeedTypes, NEW h \in Handlers, ChartOK(h), ChartDay(h)
  PROVE  ChartOK(h)'
<1>1. h \in DOMAIN handler /\ h \in Workers /\ stored' = stored
  BY DEF FeedTypes, Workers, ChartDay, loaderVars
<1>2. CASE Shown(h) = {}
  <2>1. handler'[h] = Idle
    BY <1>1, <1>2 DEF ChartDay
  <2> QED
    BY <2>1, ChartNone DEF Idle
<1>3. CASE Shown(h) # {}
  <2>1. PICK last, ref : last = Max(Shown(h)) /\ ref = Day(last)
    OBVIOUS
  <2>2. handler[h].at = "clock" /\ handler[h].on \in Instruments /\ handler[h].days \in Nat
    BY DEF ChartDay, ChartOK
  <2>3. handler[h] \in ChartState(handler[h])
    BY <1>1, <2>2, AtChart
  <2>4. handler' = [handler EXCEPT ![h].at = "day", ![h].ref = ref]
    BY <1>3, <2>1 DEF ChartDay
  <2>5. /\ handler'[h].at = "day" /\ handler'[h].ref = ref
        /\ handler'[h].on = handler[h].on /\ handler'[h].days = handler[h].days
        /\ handler'[h].clock = handler[h].clock
    BY <1>1, <2>3, <2>4 DEF ChartState
  <2>6. last \in Shown(h)
    <3>1. /\ IsFiniteSet(Shown(h)) /\ Shown(h) # {}
          /\ \A t \in Shown(h) : t \in Int
      BY <1>3, <2>2, ShownIsRowSet DEF RowSet
    <3> QED
      BY <2>1, <3>1, MaxProperties
  <2>7. last \in Shown(h)'
    BY <1>1, <2>2, <2>5, <2>6, ShownStays
  <2> QED
    BY <2>1, <2>2, <2>5, <2>7 DEF ChartOK
<1> QED
  BY <1>2, <1>3

\* It reads the rows, makes the candles and is served.
LEMMA ChartServes ==
  ASSUME LoadTypes, FeedTypes, NEW h \in Handlers, ChartOK(h), ChartRows(h)
  PROVE  ChartOK(h)'
<1>1. h \in DOMAIN handler /\ h \in Workers
  BY DEF FeedTypes, Workers
<1>2. PICK c, i, ref, seen : c = handler[h] /\ i = c.on /\ ref = c.ref /\ seen = Shown(h)
  OBVIOUS
<1>3. /\ i \in Instruments /\ c.days \in Nat
      /\ \E t \in seen : ref = Day(t)
  BY <1>2 DEF ChartOK, ChartRows
<1>4. /\ RowSet(i, seen) /\ Withheld(seen, c.clock) = {}
      /\ \A t \in seen : t \in Int /\ Day(t) \in Int
  BY <1>2, <1>3, ShownIsRowSet
<1>5. PICK R : R = {t \in seen : IF c.days = 0 THEN Day(t) >= ref ELSE Day(t) >= ref - c.days}
  OBVIOUS
<1>6. R # {}
  BY <1>3, <1>4, <1>5
<1>7. RowSet(i, R) /\ Withheld(R, c.clock) = {}
  BY <1>4, <1>5, FS_Subset DEF RowSet, Withheld
<1>8. PICK candles : candles = IF c.days = 0 THEN Rows(i, R) ELSE Daily(i, R, ref)
  OBVIOUS
<1>9. handler' = [handler EXCEPT ![h] = Chart("served", i, c.days, c.clock, ref, R, candles)]
  BY <1>2, <1>5, <1>8 DEF ChartRows
<1>10. handler'[h] = Chart("served", i, c.days, c.clock, ref, R, candles)
  BY <1>1, <1>9
<1>11. (c.days # 0 /\ ref = Day(Max(R))) => DailyOf(candles, i, R)
  BY <1>6, <1>7, <1>8, DailyIsOfTheDays
<1>12. /\ handler'[h].at = "served" /\ handler'[h].on = i /\ handler'[h].days = c.days
       /\ handler'[h].clock = c.clock /\ handler'[h].ref = ref
       /\ handler'[h].rows = R /\ handler'[h].candles = candles
  BY <1>10 DEF Chart
<1> QED
  BY <1>3, <1>7, <1>11, <1>12 DEF ChartOK

\* No step takes a row from a table.
LEMMA TablesGrow ==
  ASSUME FeedInv, [Next]_vars
  PROVE  \A table \in Tables : stored[table] \subseteq stored'[table]
<1>1. CASE Load \/ LoadFault
  BY <1>1, LoaderTypes DEF FeedInv
<1> QED
  BY <1>1, LoaderStep DEF loaderVars, Restart

\* Every step keeps the charts right.
LEMMA ChartNext ==
  ASSUME FeedInv, ChartInv, [Next]_vars
  PROVE  ChartInv'
<1>1. /\ \A table \in Tables : stored[table] \subseteq stored'[table]
      /\ LoadTypes /\ FeedTypes /\ DOMAIN handler = Workers /\ Handlers \subseteq Workers
  BY TablesGrow DEF FeedInv, FeedTypes, Workers
<1>2. ASSUME NEW g \in Workers, \A h \in Workers : h # g => handler'[h] = handler[h],
             g \in Handlers => ChartOK(g)'
      PROVE  ChartInv'
  <2>1. ASSUME NEW h \in Handlers, h # g PROVE ChartOK(h)'
    <3>1. handler'[h] = handler[h] /\ ChartOK(h)
      BY <1>1, <1>2, <2>1 DEF ChartInv
    <3> QED
      BY <1>1, <3>1, ChartKept
  <2> QED
    BY <1>2, <2>1 DEF ChartInv
<1>3. CASE handler' = handler
  BY <1>1, <1>3, ChartKept DEF ChartInv
<1>4. ASSUME NEW h \in Workers, Warming(h)
      PROVE  ChartInv'
  <2>1. handler[h].at = "warm" => handler[h] \in WarmState
    BY <1>1, <1>4, AtWarm
  <2>2. /\ handler'[h].at \in {"warm", "idle"}
        /\ \A g \in Workers : g # h => handler'[g] = handler[g]
    <3>1. CASE \E i \in Instruments : WarmRead(h, i)
      <4>1. PICK i \in Instruments : WarmRead(h, i)
        BY <3>1
      <4>2. PICK row : handler' = [handler EXCEPT ![h].on = i, ![h].missing = @ \ {i},
                                                 ![h].row = row]
        BY <4>1 DEF WarmRead
      <4>3. handler[h] \in WarmState
        BY <2>1, <4>1 DEF WarmRead
      <4> QED
        BY <1>1, <4>2, <4>3 DEF WarmState
    <3>2. CASE WarmWrite(h)
      <4>1. handler' = [handler EXCEPT ![h].on = Nothing, ![h].row = Nothing]
        BY <3>2 DEF WarmWrite
      <4>2. handler[h] \in WarmState
        BY <2>1, <3>2 DEF WarmWrite
      <4> QED
        BY <1>1, <4>1, <4>2 DEF WarmState
    <3>3. CASE WarmEnd(h)
      BY <1>1, <3>3 DEF WarmEnd, Idle
    <3> QED
      BY <1>4, <3>1, <3>2, <3>3 DEF Warming
  <2>4. ChartOK(h)'
    BY <2>2, ChartNone
  <2> QED
    BY <1>2, <2>2, <2>4
<1>5. CASE Bootstrap \/ LoadBars
  <2>1. Boot \in Workers /\ Boot \notin Handlers
    BY FeedAssumption DEF Workers
  <2>2. \A g \in Workers : g # Boot => handler'[g] = handler[g]
    BY <1>1, <1>5 DEF Bootstrap, LoadBars
  <2> QED
    BY <1>2, <2>1, <2>2
<1>6. ASSUME NEW h \in Handlers, WarmBegin(h) \/ Charting(h)
      PROVE  ChartInv'
  <2>1. h \in Workers /\ ChartOK(h)
    BY <1>1 DEF ChartInv
  <2>2. \A g \in Workers : g # h => handler'[g] = handler[g]
    <3>1. CASE WarmBegin(h) \/ ChartEnd(h)
      BY <1>1, <3>1 DEF WarmBegin, ChartEnd
    <3>2. CASE \E i \in Charted, days \in Timeframes : ChartClock(h, i, days)
      BY <1>1, <3>2 DEF ChartClock
    <3>3. CASE ChartDay(h)
      <4>1. PICK ref : handler' \in {[handler EXCEPT ![h] = Idle],
                                    [handler EXCEPT ![h].at = "day", ![h].ref = ref]}
        BY <3>3 DEF ChartDay
      <4> QED
        BY <1>1, <4>1
    <3>4. CASE ChartRows(h)
      <4>1. PICK e : handler' = [handler EXCEPT ![h] = e]
        BY <3>4 DEF ChartRows
      <4> QED
        BY <1>1, <4>1
    <3> QED
      BY <1>6, <3>1, <3>2, <3>3, <3>4 DEF Charting
  <2>3. CASE WarmBegin(h) \/ ChartEnd(h)
    <3>1. handler'[h].at \in {"warm", "idle"}
      BY <1>1, <2>1, <2>3 DEF WarmBegin, ChartEnd, Warm, Idle
    <3>2. ChartOK(h)'
      BY <3>1, ChartNone
    <3> QED
      BY <1>2, <2>1, <2>2, <3>2
  <2>4. CASE (\E i \in Charted, days \in Timeframes : ChartClock(h, i, days))
               \/ ChartDay(h) \/ ChartRows(h)
    <3>1. ChartOK(h)'
      BY <1>1, <2>1, <2>4, ChartClocks, ChartDays, ChartServes
    <3> QED
      BY <1>2, <2>1, <2>2, <3>1
  <2> QED
    BY <1>6, <2>3, <2>4 DEF Charting
<1>7. CASE Restart
  <2>1. \A h \in Handlers : handler'[h].at = "idle"
    BY <1>1, <1>7 DEF Restart, Idle
  <2> QED
    BY <2>1, ChartNone DEF ChartInv
<1>8. CASE (Load \/ LoadFault) /\ Feed
  BY <1>3, <1>8 DEF Feed
<1>9. CASE Replay
  BY <1>3, <1>9 DEF Replay, StartPass, NextBars, PlayOn
<1>10. CASE UNCHANGED vars
  BY <1>3, <1>10 DEF vars
<1>11. CASE Boots
  <2>1. Boot \in Workers
    BY DEF Workers
  <2> QED
    BY <1>4, <1>5, <1>11, <2>1 DEF Boots
<1>12. CASE \E h \in Handlers : WarmBegin(h) \/ Warming(h) \/ Charting(h)
  BY <1>1, <1>4, <1>6, <1>12
<1> QED
  BY <1>7, <1>8, <1>9, <1>10, <1>11, <1>12 DEF Next

\* A chart shows nothing beyond the clock its request has read, whatever is
\* stored, warmed or replayed while the request is served; and, when its last
\* row is of the day the request has read, each day once and in order, and each
\* day as its bars make it (get_prices, _aggregate_daily).
THEOREM ChartsHold == Spec => []ChartsAreTheTape
<1>1. Init => ChartInv
  <2> SUFFICES ASSUME Init PROVE ChartInv
    OBVIOUS
  <2>1. \A h \in Handlers : handler[h].at = "idle"
    BY DEF Init, Workers, Idle
  <2> QED
    BY <2>1 DEF ChartInv, ChartOK
<1>2. FeedInv /\ ChartInv /\ [Next]_vars => ChartInv'
  BY ChartNext
<1>3. ChartInv => ChartsAreTheTape
  BY ChartsImplied
<1> QED
  BY <1>1, <1>2, <1>3, FeedHolds, PTL DEF Spec
=============================================================================

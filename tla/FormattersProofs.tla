--------------------------- MODULE FormattersProofs ---------------------------
(****************************************************************************)
(* Proofs about the formatters and about %SGR(mode=strip)%, for texts,      *)
(* tables and templates of any length.  The theorems are at the end.        *)
(*                                                                          *)
(* What remains of a text is described by a rising function from the        *)
(* positions of the one to those of the other: such a function is extended  *)
(* when a piece is moved or appended, and two of them with the same range   *)
(* are the same.                                                            *)
(****************************************************************************)
EXTENDS Formatters, FiniteSetTheorems, SequenceTheorems,
        WellFoundedInduction, TLAPS

------------------------------------------------------------------------------
(* Rising functions.                                                        *)

\* f numbers the elements of K from 1 to n, in their order.
Embedding(f, n, K) ==
    /\ f \in [1 .. n -> K]
    /\ \A i, j \in 1 .. n : i < j => f[i] < f[j]
    /\ \A k \in K : \E i \in 1 .. n : f[i] = k

\* Any set of naturals that is not empty has a least element.
LEMMA LeastNat ==
    ASSUME NEW S \in SUBSET Nat, S # {}
    PROVE  \E m \in S : \A n \in S : m <= n
<1> DEFINE R == {ss \in Nat \X Nat : ss[1] < ss[2]}
<1>1. IsWellFoundedOn(R, Nat)
  BY NatLessThanWellFounded, Zenon DEF OpToRel
<1>2. \A n, k \in Nat : n < k => <<n, k>> \in R
  OBVIOUS
<1> HIDE DEF R
<1>3. PICK m \in S : \A n \in S : ~ <<n, m>> \in R
  BY <1>1, WFMin
<1>4. ASSUME NEW n \in S PROVE m <= n
  <2>1. ~ (n < m)
    BY <1>2, <1>3, Zenon
  <2>2. QED
    BY <2>1
<1>5. QED
  BY <1>4

LEMMA Rises ==
    ASSUME NEW n \in Nat, NEW K \in SUBSET Int, NEW f, Embedding(f, n, K),
           NEW i \in 1 .. n, NEW j \in 1 .. n
    PROVE  /\ f[i] \in K /\ f[i] \in Int
           /\ f[i] < f[j] <=> i < j
           /\ f[i] <= f[j] <=> i <= j
           /\ f[i] = f[j] <=> i = j
<1>1. f[i] \in K /\ f[j] \in K /\ f[i] \in Int /\ f[j] \in Int
  BY DEF Embedding
<1>2. CASE i < j
  BY <1>1, <1>2 DEF Embedding
<1>3. CASE j < i
  BY <1>1, <1>3 DEF Embedding
<1>4. CASE i = j
  BY <1>1, <1>4
<1>5. QED
  BY <1>2, <1>3, <1>4

\* An interval appended to the range.
LEMMA Extended ==
    ASSUME NEW n \in Nat, NEW K \in SUBSET Int, NEW f, Embedding(f, n, K),
           NEW a \in Int, NEW m \in Nat, \A k \in K : k < a
    PROVE  Embedding([i \in 1 .. n + m |->
                         IF i <= n THEN f[i] ELSE a + (i - n - 1)],
                     n + m, K \cup (a .. a + m - 1))
<1> DEFINE g == [i \in 1 .. n + m |-> IF i <= n THEN f[i] ELSE a + (i - n - 1)]
           L == K \cup (a .. a + m - 1)
<1>0. \A i \in 1 .. n : f[i] \in K /\ f[i] \in Int /\ f[i] < a
  BY DEF Embedding
<1>1. \A i \in 1 .. n + m : g[i] \in L
  BY <1>0
<1>2. ASSUME NEW i \in 1 .. n + m, NEW j \in 1 .. n + m, i < j
      PROVE  g[i] < g[j]
  <2>1. CASE j <= n
    <3>1. i \in 1 .. n /\ j \in 1 .. n
      BY <1>2, <2>1
    <3>2. f[i] < f[j]
      BY <1>2, <3>1 DEF Embedding
    <3>3. QED
      BY <3>1, <3>2
  <2>2. CASE i <= n /\ j > n
    BY <1>0, <2>2
  <2>3. CASE i > n
    BY <1>2, <2>3
  <2>4. QED
    BY <2>1, <2>2, <2>3
<1>3. ASSUME NEW k \in L PROVE \E i \in 1 .. n + m : g[i] = k
  <2>1. CASE k \in K
    <3>1. PICK i \in 1 .. n : f[i] = k
      BY <2>1 DEF Embedding
    <3>2. i \in 1 .. n + m /\ g[i] = k
      BY <3>1
    <3>3. QED
      BY <3>2
  <2>2. CASE k \in a .. a + m - 1
    <3>1. n + (k - a) + 1 \in 1 .. n + m
      BY <2>2
    <3>2. g[n + (k - a) + 1] = k
      BY <2>2, <3>1
    <3>3. QED
      BY <3>1, <3>2
  <2>3. QED
    BY <2>1, <2>2
<1>4. g \in [1 .. n + m -> L]
  BY <1>1
<1>5. QED
  BY <1>2, <1>3, <1>4 DEF Embedding

\* The integers from a to a + l are in K.
HasRun(K, a, l) == \A k \in 0 .. l : a + k \in K

\* Where the range has an interval, the function counts it through.
LEMMA Contiguous ==
    ASSUME NEW n \in Nat, NEW K \in SUBSET Int, NEW f, Embedding(f, n, K),
           NEW a \in Int, NEW l \in Nat, HasRun(K, a, l),
           NEW j \in 1 .. n, f[j] = a
    PROVE  \A k \in 0 .. l : j + k \in 1 .. n /\ f[j + k] = a + k
<1> DEFINE S == {k \in 0 .. l : ~ (j + k \in 1 .. n /\ f[j + k] = a + k)}
<1>1. SUFFICES ASSUME S # {} PROVE FALSE
  OBVIOUS
<1>2. PICK m \in S : \A k \in S : m <= k
  <2>1. S \in SUBSET Nat
    OBVIOUS
  <2> HIDE DEF S
  <2>2. QED
    BY <1>1, <2>1, LeastNat
<1>3. m \in 0 .. l /\ ~ (j + m \in 1 .. n /\ f[j + m] = a + m)
  OBVIOUS
<1>4. m > 0
  BY <1>3
<1>5. m - 1 \in 0 .. l /\ m - 1 \notin S
  BY <1>2, <1>3, <1>4
<1>6. j + (m - 1) \in 1 .. n /\ f[j + (m - 1)] = a + (m - 1)
  BY <1>5
<1> HIDE DEF S
<1>7. a + m \in K
  BY <1>3 DEF HasRun
<1>8. PICK i \in 1 .. n : f[i] = a + m
  BY <1>7 DEF Embedding
<1>9. i > j + (m - 1)
  <2>1. f[i] > f[j + (m - 1)]
    BY <1>3, <1>6, <1>8
  <2>2. QED
    BY <1>6, <2>1, Rises
<1>10. j + m \in 1 .. n /\ i > j + m
  BY <1>3, <1>8, <1>9
<1>11. f[j + m] \in Int /\ f[j + m] < a + m /\ f[j + m] > a + (m - 1)
  <2>1. f[j + (m - 1)] < f[j + m] /\ f[j + m] < f[i] /\ f[j + m] \in Int
    <3>1. j + (m - 1) < j + m
      BY <1>3
    <3>2. QED
      BY <1>6, <1>10, <3>1, Rises
  <2>2. QED
    BY <1>6, <1>8, <2>1
<1>12. QED
  BY <1>3, <1>11

\* Such a function says how many elements there are and ranks them.
LEMMA RankOf ==
    ASSUME NEW n \in Nat, NEW K \in SUBSET Int, NEW f, Embedding(f, n, K)
    PROVE  /\ Cardinality(K) = n
           /\ \A i \in 1 .. n : Rank(f[i], K) = i
<1>1. ASSUME NEW i \in 0 .. n, NEW T, T \subseteq K,
             \A k \in 1 .. n : f[k] \in T <=> k <= i
      PROVE  Cardinality(T) = i
  <2> DEFINE g == [k \in 1 .. i |-> f[k]]
  <2>1. g \in [1 .. i -> T]
    BY <1>1
  <2>2. \A k, l \in 1 .. i : g[k] = g[l] => k = l
    <3>1. \A k, l \in 1 .. n : f[k] = f[l] => k = l
      BY Rises
    <3>2. QED
      BY <3>1
  <2>3. \A t \in T : \E k \in 1 .. i : g[k] = t
    BY <1>1 DEF Embedding
  <2> HIDE DEF g
  <2>4. g \in Bijection(1 .. i, T)
    BY <2>1, <2>2, <2>3 DEF Bijection, Injection, Surjection, IsInjective
  <2>5. ExistsBijection(1 .. i, T)
    BY <2>4 DEF ExistsBijection
  <2>6. IsFiniteSet(1 .. i) /\ Cardinality(1 .. i) = i
    BY FS_Interval
  <2>7. QED
    BY <2>5, <2>6, FS_Bijection
<1>2. Cardinality(K) = n
  <2>1. \A k \in 1 .. n : f[k] \in K <=> k <= n
    BY DEF Embedding
  <2>2. QED
    BY <1>1, <2>1
<1>3. ASSUME NEW i \in 1 .. n PROVE Rank(f[i], K) = i
  <2> DEFINE T == {q \in K : q <= f[i]}
  <2>1. \A k \in 1 .. n : f[k] \in T <=> k <= i
    BY Rises
  <2>2. T \subseteq K /\ i \in 0 .. n
    OBVIOUS
  <2> HIDE DEF T
  <2>3. Cardinality(T) = i
    BY <1>1, <2>1, <2>2
  <2>4. QED
    BY <2>3 DEF T, Rank
<1>4. QED
  BY <1>2, <1>3

\* Two of them with the same range are the same.
LEMMA Unique ==
    ASSUME NEW n \in Nat, NEW m \in Nat, NEW K \in SUBSET Int,
           NEW f, Embedding(f, n, K), NEW g, Embedding(g, m, K)
    PROVE  n = m /\ \A i \in 1 .. n : f[i] = g[i]
<1>1. n = m /\ \A i \in 1 .. n : Rank(f[i], K) = i /\ Rank(g[i], K) = i
  BY RankOf
<1>2. ASSUME NEW i \in 1 .. n PROVE f[i] = g[i]
  <2>1. f[i] \in K
    BY DEF Embedding
  <2>2. PICK j \in 1 .. n : g[j] = f[i]
    BY <1>1, <2>1 DEF Embedding
  <2>3. j = i
    BY <1>1, <2>2
  <2>4. QED
    BY <2>2, <2>3
<1>3. QED
  BY <1>1, <1>2
------------------------------------------------------------------------------
(* Colours of a text.                                                       *)

\* t is what stands in s at the positions K, as f finds it there.
Lifts(f, t, s, K) ==
    /\ Embedding(f, Len(t), K)
    /\ \A i \in 1 .. Len(t) : t[i] = s[f[i]]

LEMMA LiftsPicks ==
    ASSUME NEW t \in Seq(Chars), NEW s \in Seq(Chars),
           NEW K \in SUBSET Int, NEW f, Lifts(f, t, s, K)
    PROVE  Picks(t, s, K)
<1>1. Len(t) \in Nat
  OBVIOUS
<1>2. Embedding(f, Len(t), K)
  BY DEF Lifts
<1>3. Cardinality(K) = Len(t) /\ \A i \in 1 .. Len(t) : Rank(f[i], K) = i
  BY <1>1, <1>2, RankOf
<1>4. ASSUME NEW p \in K PROVE t[Rank(p, K)] = s[p]
  <2>1. PICK i \in 1 .. Len(t) : f[i] = p
    BY <1>2 DEF Embedding
  <2>2. t[i] = s[p] /\ Rank(p, K) = i
    BY <1>3, <2>1 DEF Lifts
  <2>3. QED
    BY <2>2
<1>5. QED
  BY <1>3, <1>4 DEF Picks

LEMMA ColourDef ==
    ASSUME NEW s \in Seq(Chars)
    PROVE  /\ \A c \in ColoursOf(s) :
                /\ c = <<c[1], c[2]>>
                /\ c[1] \in 1 .. Len(s) /\ c[2] \in 1 .. Len(s)
                /\ c[1] + 2 <= c[2]
                /\ s[c[1]] = "esc" /\ s[c[1] + 1] = "[" /\ s[c[2]] = "m"
                /\ \A i \in c[1] + 2 .. c[2] - 1 : s[i] = "d"
           /\ \A p, q \in 1 .. Len(s) :
                (/\ p + 2 <= q
                 /\ s[p] = "esc" /\ s[p + 1] = "[" /\ s[q] = "m"
                 /\ \A i \in p + 2 .. q - 1 : s[i] = "d")
                => <<p, q>> \in ColoursOf(s)
BY DEF ColoursOf

\* Two colours that overlap are the same.
LEMMA Disjoint ==
    ASSUME NEW s \in Seq(Chars), NEW c \in ColoursOf(s), NEW d \in ColoursOf(s),
           NEW i \in c[1] .. c[2], i \in d[1] .. d[2]
    PROVE  c = d
<1>1. ASSUME NEW a \in ColoursOf(s), NEW b \in ColoursOf(s), a[1] < b[1],
             b[1] <= a[2]
      PROVE  FALSE
  <2>1. s[b[1]] = "esc" /\ b[1] \in Int
    BY ColourDef
  <2>2. /\ s[a[1] + 1] = "[" /\ s[a[2]] = "m"
        /\ \A k \in a[1] + 2 .. a[2] - 1 : s[k] = "d"
        /\ a[1] \in Int /\ a[2] \in Int
    BY ColourDef
  <2>3. b[1] = a[1] + 1 \/ b[1] = a[2] \/ b[1] \in a[1] + 2 .. a[2] - 1
    BY <1>1, <2>1, <2>2
  <2>4. QED
    BY <2>1, <2>2, <2>3
<1>2. ASSUME NEW a \in ColoursOf(s), NEW b \in ColoursOf(s), a[1] = b[1],
             a[2] < b[2]
      PROVE  FALSE
  <2>1. a[1] + 2 <= a[2] /\ s[a[2]] = "m" /\ a[2] \in Int
    BY ColourDef
  <2>2. /\ \A k \in b[1] + 2 .. b[2] - 1 : s[k] = "d"
        /\ b[1] \in Int /\ b[2] \in Int
    BY ColourDef
  <2>3. a[2] \in b[1] + 2 .. b[2] - 1
    BY <1>2, <2>1, <2>2
  <2>4. QED
    BY <2>1, <2>2, <2>3
<1>3. /\ c = <<c[1], c[2]>> /\ c[1] \in Int /\ c[2] \in Int
      /\ d = <<d[1], d[2]>> /\ d[1] \in Int /\ d[2] \in Int
  BY ColourDef
<1>4. c[1] <= i /\ i <= c[2] /\ d[1] <= i /\ i <= d[2]
  BY <1>3
<1>5. ~ (c[1] < d[1]) /\ ~ (d[1] < c[1])
  BY <1>1, <1>3, <1>4
<1>6. c[1] = d[1]
  BY <1>3, <1>5
<1>7. ~ (c[2] < d[2]) /\ ~ (d[2] < c[2])
  BY <1>2, <1>6
<1>8. QED
  BY <1>3, <1>6, <1>7

LEMMA InPositions ==
    ASSUME NEW colours, NEW i
    PROVE  i \in Positions(colours) <=> \E c \in colours : i \in c[1] .. c[2]
BY DEF Positions

LEMMA InWithout ==
    ASSUME NEW s \in Seq(Chars), NEW colours
    PROVE  /\ Without(s, colours) \subseteq 1 .. Len(s)
           /\ Without(s, colours) \in SUBSET Int
           /\ \A i \in 1 .. Len(s) :
                i \in Without(s, colours) <=> i \notin Positions(colours)
BY DEF Without

\* A colour that is not among those taken out stays whole.
LEMMA StaysWhole ==
    ASSUME NEW s \in Seq(Chars), NEW colours \in SUBSET ColoursOf(s),
           NEW c \in ColoursOf(s), c \notin colours
    PROVE  c[1] .. c[2] \subseteq Without(s, colours)
<1>1. ASSUME NEW i \in c[1] .. c[2] PROVE i \in Without(s, colours)
  <2>1. i \in 1 .. Len(s)
    BY ColourDef
  <2>2. \A d \in colours : i \notin d[1] .. d[2]
    BY Disjoint
  <2>3. i \notin Positions(colours)
    BY <2>2, InPositions
  <2>4. QED
    BY <2>1, <2>3, InWithout
<1>2. QED
  BY <1>1

\* If a colour of s is wholly in what remains, it is a colour of that.
LEMMA ColourRemains ==
    ASSUME NEW t \in Seq(Chars), NEW s \in Seq(Chars),
           NEW K \in SUBSET Int, NEW f, Lifts(f, t, s, K),
           NEW c \in ColoursOf(s), c[1] .. c[2] \subseteq K
    PROVE  \E e \in ColoursOf(t) :
               /\ e[1] \in 1 .. Len(t) /\ e[2] \in 1 .. Len(t)
               /\ f[e[1]] = c[1] /\ f[e[2]] = c[2]
<1> DEFINE a == c[1]
           m == c[2] - c[1]
<1>1. /\ a \in Int /\ m \in Nat /\ 2 <= m
      /\ s[a] = "esc" /\ s[a + 1] = "[" /\ s[a + m] = "m"
      /\ \A k \in 2 .. m - 1 : s[a + k] = "d"
      /\ c[2] = a + m
      /\ a .. a + m \subseteq K
  <2>1. /\ c[1] \in Int /\ c[2] \in Int /\ c[1] + 2 <= c[2]
        /\ s[c[1]] = "esc" /\ s[c[1] + 1] = "[" /\ s[c[2]] = "m"
        /\ \A i \in c[1] + 2 .. c[2] - 1 : s[i] = "d"
    BY ColourDef
  <2>2. c[2] = a + m
    BY <2>1
  <2>3. ASSUME NEW k \in 2 .. m - 1
        PROVE  a + k \in c[1] + 2 .. c[2] - 1
    <3>1. k \in Int /\ 2 <= k /\ k <= m - 1 /\ a \in Int /\ m \in Int
      BY <2>1
    <3>2. c[1] + 2 = a + 2 /\ c[2] - 1 = a + m - 1
      BY <2>1
    <3> HIDE DEF a, m
    <3>3. a + k \in a + 2 .. a + m - 1
      BY <3>1
    <3>4. QED
      BY <3>2, <3>3
  <2>4. \A k \in 2 .. m - 1 : s[a + k] = "d"
    BY <2>1, <2>3
  <2>5. a \in Int /\ m \in Nat /\ 2 <= m
    BY <2>1
  <2>6. s[a] = "esc" /\ s[a + 1] = "[" /\ s[a + m] = "m"
    BY <2>1, <2>2
  <2>7. a .. a + m \subseteq K
    BY <2>2
  <2> HIDE DEF a, m
  <2>8. QED
    BY <2>2, <2>4, <2>5, <2>6, <2>7
<1>2. Embedding(f, Len(t), K)
  BY DEF Lifts
<1>3. Len(t) \in Nat
  OBVIOUS
<1> HIDE DEF a, m
<1>4. a \in K
  BY <1>1
<1>5. PICK j \in 1 .. Len(t) : f[j] = a
  BY <1>2, <1>4 DEF Embedding
<1>6. \A k \in 0 .. m : j + k \in 1 .. Len(t) /\ f[j + k] = a + k
  <2>1. HasRun(K, a, m)
    BY <1>1 DEF HasRun
  <2>2. a \in Int /\ m \in Nat
    BY <1>1
  <2>3. QED
    BY <1>2, <1>3, <1>5, <2>1, <2>2, Contiguous
<1>7. \A k \in 0 .. m : t[j + k] = s[a + k]
  BY <1>6 DEF Lifts
<1>8. j \in Int /\ j + 0 = j /\ a + 0 = a
  BY <1>1, <1>3
<1>9. /\ j + m \in 1 .. Len(t) /\ f[j + m] = a + m
      /\ t[j] = "esc" /\ t[j + 1] = "[" /\ t[j + m] = "m"
  <2>1. 0 \in 0 .. m /\ 1 \in 0 .. m /\ m \in 0 .. m
    BY <1>1
  <2>2. t[j + 0] = s[a + 0] /\ t[j + 1] = s[a + 1] /\ t[j + m] = s[a + m]
    BY <1>7, <2>1
  <2>3. QED
    BY <1>1, <1>6, <1>8, <2>1, <2>2
<1>10. ASSUME NEW i \in j + 2 .. (j + m) - 1 PROVE t[i] = "d"
  <2>1. i - j \in 2 .. m - 1 /\ i - j \in 0 .. m /\ j + (i - j) = i
    BY <1>1, <1>8
  <2>2. t[j + (i - j)] = s[a + (i - j)]
    BY <1>7, <2>1
  <2>3. QED
    BY <1>1, <2>1, <2>2
<1>11. j + 2 <= j + m
  BY <1>1, <1>8
<1>12. <<j, j + m>> \in ColoursOf(t)
  BY <1>9, <1>10, <1>11, ColourDef
<1>13. f[j] = c[1]
  BY <1>5 DEF a
<1>14. QED
  BY <1>1, <1>9, <1>12, <1>13

\* The colours of a text are those of every text it begins.
LEMMA ColoursOfPrefix ==
    ASSUME NEW t \in Seq(Chars), NEW u \in Seq(Chars)
    PROVE  ColoursOf(t) \subseteq ColoursOf(t \o u)
<1>1. /\ t \o u \in Seq(Chars) /\ Len(t \o u) = Len(t) + Len(u)
      /\ Len(t) \in Nat /\ Len(u) \in Nat
      /\ \A i \in 1 .. Len(t) : (t \o u)[i] = t[i]
  OBVIOUS
<1>2. ASSUME NEW c \in ColoursOf(t) PROVE c \in ColoursOf(t \o u)
  <2>1. /\ c = <<c[1], c[2]>>
        /\ c[1] \in 1 .. Len(t) /\ c[2] \in 1 .. Len(t) /\ c[1] + 2 <= c[2]
        /\ t[c[1]] = "esc" /\ t[c[1] + 1] = "[" /\ t[c[2]] = "m"
        /\ \A i \in c[1] + 2 .. c[2] - 1 : t[i] = "d"
    BY ColourDef
  <2>2. /\ c[1] \in 1 .. Len(t \o u) /\ c[2] \in 1 .. Len(t \o u)
        /\ c[1] + 1 \in 1 .. Len(t)
        /\ \A i \in c[1] + 2 .. c[2] - 1 : i \in 1 .. Len(t)
    BY <1>1, <2>1
  <2> DEFINE w == t \o u
  <2>3. /\ w[c[1]] = "esc" /\ w[c[1] + 1] = "[" /\ w[c[2]] = "m"
        /\ \A i \in c[1] + 2 .. c[2] - 1 : w[i] = "d"
    BY <1>1, <2>1, <2>2
  <2>4. w \in Seq(Chars) /\ c[1] \in 1 .. Len(w) /\ c[2] \in 1 .. Len(w)
    BY <1>1, <2>2
  <2> HIDE DEF w
  <2>5. <<c[1], c[2]>> \in ColoursOf(w)
    BY <2>1, <2>3, <2>4, ColourDef
  <2>6. QED
    BY <2>1, <2>5 DEF w
<1>3. QED
  BY <1>2
------------------------------------------------------------------------------
(* Texts that come from others by taking out colours.                       *)

\* t is s without some of its colours.
Comes(t, s) ==
    \E ins \in SUBSET ColoursOf(s) : \E f : Lifts(f, t, s, Without(s, ins))

LEMMA SameText ==
    ASSUME NEW t \in Seq(Chars), NEW u \in Seq(Chars), NEW s \in Seq(Chars),
           NEW K \in SUBSET Int, NEW f, Lifts(f, t, s, K),
           NEW g, Lifts(g, u, s, K)
    PROVE  t = u
<1>1. Embedding(f, Len(t), K) /\ Embedding(g, Len(u), K)
  BY DEF Lifts
<1>2. Len(t) \in Nat /\ Len(u) \in Nat
  OBVIOUS
<1>3. Len(t) = Len(u) /\ \A i \in 1 .. Len(t) : f[i] = g[i]
  BY <1>1, <1>2, Unique
<1>4. \A i \in 1 .. Len(t) : t[i] = u[i]
  BY <1>3 DEF Lifts
<1>5. QED
  BY <1>3, <1>4

LEMMA ComesFromItself ==
    ASSUME NEW t \in Seq(Chars)
    PROVE  Lifts([i \in 1 .. Len(t) |-> i], t, t, Without(t, {}))
<1>1. Without(t, {}) = 1 .. Len(t)
  BY DEF Without, Positions
<1>2. QED
  BY <1>1 DEF Lifts, Embedding

LEMMA PositionsInText ==
    ASSUME NEW s \in Seq(Chars), NEW colours \in SUBSET ColoursOf(s)
    PROVE  Positions(colours) \subseteq 1 .. Len(s)
<1>1. ASSUME NEW i \in Positions(colours) PROVE i \in 1 .. Len(s)
  <2>1. PICK c \in colours : i \in c[1] .. c[2]
    BY InPositions
  <2>2. QED
    BY <2>1, ColourDef
<1>2. QED
  BY <1>1

LEMMA Concatenation ==
    ASSUME NEW s \in Seq(Chars), NEW u \in Seq(Chars)
    PROVE  /\ s \o u \in Seq(Chars)
           /\ Len(s \o u) = Len(s) + Len(u) /\ Len(s) \in Nat /\ Len(u) \in Nat
           /\ \A i \in 1 .. Len(s) : (s \o u)[i] = s[i]
           /\ \A i \in 1 .. Len(u) : (s \o u)[Len(s) + i] = u[i]
           /\ \A i \in Len(s) + 1 .. Len(s) + Len(u) :
                  (s \o u)[i] = u[i - Len(s)]
OBVIOUS

\* The same appended to both.
LEMMA AppendLifts ==
    ASSUME NEW t \in Seq(Chars), NEW s \in Seq(Chars), NEW u \in Seq(Chars),
           NEW K \in SUBSET (1 .. Len(s)), NEW f, Lifts(f, t, s, K)
    PROVE  \E g : Lifts(g, t \o u, s \o u,
                       K \cup (Len(s) + 1 .. Len(s) + Len(u)))
<1> DEFINE n == Len(t)
           m == Len(u)
           a == Len(s) + 1
           g == [i \in 1 .. n + m |-> IF i <= n THEN f[i] ELSE a + (i - n - 1)]
<1>2. n \in Nat /\ m \in Nat /\ a \in Int
  OBVIOUS
<1>3. Embedding(f, n, K) /\ \A i \in 1 .. n : t[i] = s[f[i]]
  BY DEF Lifts
<1>4. K \in SUBSET Int /\ \A k \in K : k \in 1 .. Len(s) /\ k < a
  OBVIOUS
<1>5. a .. a + m - 1 = Len(s) + 1 .. Len(s) + Len(u)
  OBVIOUS
<1>6. Embedding(g, n + m, K \cup (a .. a + m - 1))
  <2> HIDE DEF n, m, a
  <2>1. QED
    BY <1>2, <1>3, <1>4, Extended
<1>7. ASSUME NEW i \in 1 .. n + m PROVE (t \o u)[i] = (s \o u)[g[i]]
  <2>1. CASE i <= n
    <3>1. i \in 1 .. n /\ g[i] = f[i] /\ f[i] \in K
      BY <1>2, <1>3, <2>1 DEF Embedding
    <3>2. (t \o u)[i] = t[i] /\ (s \o u)[f[i]] = s[f[i]]
      <4>1. f[i] \in 1 .. Len(s)
        BY <1>4, <3>1
      <4>2. \A k \in 1 .. Len(t) : (t \o u)[k] = t[k]
        BY Concatenation
      <4>3. \A k \in 1 .. Len(s) : (s \o u)[k] = s[k]
        BY Concatenation
      <4>4. QED
        BY <3>1, <4>1, <4>2, <4>3
    <3>3. QED
      BY <1>3, <3>1, <3>2
  <2>2. CASE i > n
    <3>1. i \in Len(t) + 1 .. Len(t) + Len(u) /\ g[i] = Len(s) + (i - n)
          /\ i - n \in 1 .. Len(u)
      BY <1>2, <2>2
    <3>2. (t \o u)[i] = u[i - n] /\ (s \o u)[Len(s) + (i - n)] = u[i - n]
      BY <3>1, Concatenation
    <3>3. QED
      BY <3>1, <3>2
  <2>3. i <= n \/ i > n
    BY <1>2
  <2>4. QED
    BY <2>1, <2>2, <2>3
<1>8. Len(t \o u) = n + m
  BY Concatenation
<1> HIDE DEF g
<1>9. Lifts(g, t \o u, s \o u, K \cup (a .. a + m - 1))
  BY <1>6, <1>7, <1>8 DEF Lifts
<1>10. QED
  BY <1>5, <1>9

LEMMA BothAppended ==
    ASSUME NEW t \in Seq(Chars), NEW s \in Seq(Chars), NEW u \in Seq(Chars),
           Comes(t, s)
    PROVE  Comes(t \o u, s \o u)
<1>1. PICK ins \in SUBSET ColoursOf(s) : \E f : Lifts(f, t, s, Without(s, ins))
  BY DEF Comes
<1> DEFINE L == Len(s) + 1 .. Len(s) + Len(u)
<1>2. Without(s, ins) \cup L = Without(s \o u, ins)
  <2>1. Positions(ins) \subseteq 1 .. Len(s)
    BY PositionsInText
  <2>2. DOMAIN s = 1 .. Len(s) /\ DOMAIN (s \o u) = 1 .. Len(s) + Len(u)
    OBVIOUS
  <2>3. QED
    BY <2>1, <2>2 DEF Without
<1>3. Without(s, ins) \in SUBSET (1 .. Len(s))
  BY InWithout
<1>4. \E g : Lifts(g, t \o u, s \o u, Without(s, ins) \cup L)
  BY <1>1, <1>3, AppendLifts
<1>5. ins \in SUBSET ColoursOf(s \o u)
  BY ColoursOfPrefix
<1>6. QED
  BY <1>2, <1>4, <1>5 DEF Comes

\* A colour appended to one.
LEMMA ColourAppended ==
    ASSUME NEW t \in Seq(Chars), NEW s \in Seq(Chars), NEW u \in Seq(Chars),
           <<1, Len(u)>> \in ColoursOf(u), Comes(t, s)
    PROVE  Comes(t, s \o u)
<1>0. PICK ins \in SUBSET ColoursOf(s) : \E f : Lifts(f, t, s, Without(s, ins))
  BY DEF Comes
<1>1. PICK f : Lifts(f, t, s, Without(s, ins))
  BY <1>0
<1> DEFINE w == s \o u
           p == Len(s) + 1
           q == Len(s) + Len(u)
           c == <<p, q>>
<1>2. /\ w \in Seq(Chars) /\ Len(w) = q /\ p \in Nat /\ q \in Nat
      /\ Len(s) \in Nat /\ Len(u) \in Nat
      /\ \A i \in 1 .. Len(s) : w[i] = s[i]
      /\ \A i \in 1 .. Len(u) : w[Len(s) + i] = u[i]
  BY Concatenation
<1>3. p = Len(s) + 1 /\ q = Len(s) + Len(u) /\ c[1] = p /\ c[2] = q
  OBVIOUS
<1>4. /\ 3 <= Len(u) /\ u[1] = "esc" /\ u[2] = "[" /\ u[Len(u)] = "m"
      /\ \A i \in 3 .. Len(u) - 1 : u[i] = "d"
  <2> DEFINE e == <<1, Len(u)>>
  <2>1. e \in ColoursOf(u) /\ e[1] = 1 /\ e[2] = Len(u)
    OBVIOUS
  <2> HIDE DEF e
  <2>2. /\ e[1] + 2 <= e[2]
        /\ u[e[1]] = "esc" /\ u[e[1] + 1] = "[" /\ u[e[2]] = "m"
        /\ \A i \in e[1] + 2 .. e[2] - 1 : u[i] = "d"
    BY <2>1, ColourDef, ZenonT(30)
  <2>3. e[1] + 1 = 2 /\ e[1] + 2 = 3
    BY <2>1
  <2>4. QED
    BY <2>1, <2>2, <2>3
<1> HIDE DEF w, p, q
<1>5. <<p, q>> \in ColoursOf(w)
  <2>1. w[Len(s) + 1] = "esc" /\ w[Len(s) + 2] = "[" /\ w[Len(s) + Len(u)] = "m"
    <3>1. 1 \in 1 .. Len(u) /\ 2 \in 1 .. Len(u) /\ Len(u) \in 1 .. Len(u)
      BY <1>2, <1>4
    <3>2. QED
      BY <1>2, <1>4, <3>1
  <2>2. ASSUME NEW i \in p + 2 .. q - 1 PROVE w[i] = "d"
    <3>1. /\ i - Len(s) \in 3 .. Len(u) - 1 /\ i - Len(s) \in 1 .. Len(u)
          /\ Len(s) + (i - Len(s)) = i
      BY <1>2, <1>3
    <3>2. QED
      BY <1>2, <1>4, <3>1
  <2>3. p \in 1 .. Len(w) /\ q \in 1 .. Len(w) /\ p + 2 <= q
    BY <1>2, <1>3, <1>4
  <2>4. p + 1 = Len(s) + 2
    BY <1>2, <1>3
  <2>5. w[p] = "esc" /\ w[p + 1] = "[" /\ w[q] = "m"
    BY <1>3, <2>1, <2>4
  <2>6. QED
    BY <1>2, <2>2, <2>3, <2>5, ColourDef
<1>6. Without(w, ins \cup {c}) = Without(s, ins)
  <2>1. Positions(ins) \subseteq 1 .. Len(s)
    BY PositionsInText
  <2>2. ASSUME NEW i
        PROVE  i \in Positions(ins \cup {c})
                   <=> i \in Positions(ins) \/ i \in p .. q
    <3> HIDE DEF c
    <3>1. QED
      BY <1>3, InPositions
  <2>3. DOMAIN s = 1 .. Len(s) /\ DOMAIN w = 1 .. q
    BY <1>2
  <2> HIDE DEF c
  <2>4. ASSUME NEW i
        PROVE  i \in Without(w, ins \cup {c}) <=> i \in Without(s, ins)
    <3>1. i \in 1 .. q /\ i \notin p .. q <=> i \in 1 .. Len(s)
      BY <1>2, <1>3
    <3>2. i \in Without(w, ins \cup {c})
              <=> i \in 1 .. q /\ i \notin Positions(ins) /\ i \notin p .. q
      BY <2>2, <2>3 DEF Without
    <3>3. i \in Without(s, ins) <=> i \in 1 .. Len(s) /\ i \notin Positions(ins)
      BY <2>3 DEF Without
    <3>4. QED
      BY <3>1, <3>2, <3>3
  <2>5. QED
    BY <2>4
<1>7. ins \cup {c} \in SUBSET ColoursOf(w)
  BY <1>5, ColoursOfPrefix DEF w
<1>8. Lifts(f, t, w, Without(s, ins))
  <2>1. /\ Embedding(f, Len(t), Without(s, ins))
        /\ \A i \in 1 .. Len(t) : t[i] = s[f[i]]
    BY <1>1 DEF Lifts
  <2>2. \A i \in 1 .. Len(t) : f[i] \in 1 .. Len(s)
    BY <2>1, InWithout DEF Embedding
  <2>3. QED
    BY <1>2, <2>1, <2>2 DEF Lifts
<1> HIDE DEF c
<1>9. QED
  BY <1>6, <1>7, <1>8 DEF Comes, w

\* If t has no colour left, all colours of s have been taken out.
LEMMA AllTakenOut ==
    ASSUME NEW t \in Seq(Chars), NEW s \in Seq(Chars),
           NEW ins \in SUBSET ColoursOf(s), NEW f,
           Lifts(f, t, s, Without(s, ins)), ColoursOf(t) = {}
    PROVE  ins = ColoursOf(s)
<1>1. ASSUME NEW c \in ColoursOf(s), c \notin ins PROVE FALSE
  <2>1. c[1] .. c[2] \subseteq Without(s, ins)
    BY <1>1, StaysWhole
  <2>2. Without(s, ins) \in SUBSET Int
    BY InWithout
  <2>3. \E e \in ColoursOf(t) : TRUE
    BY <2>1, <2>2, ColourRemains
  <2>4. QED
    BY <2>3
<1>2. QED
  BY <1>1

\* If less has been taken out of s to get u than to get t, then t can be got
\* from u.
LEMMA FromTheRest ==
    ASSUME NEW t \in Seq(Chars), NEW u \in Seq(Chars), NEW s \in Seq(Chars),
           NEW ins \in SUBSET ColoursOf(s), NEW lost \in SUBSET ins,
           NEW f, Lifts(f, t, s, Without(s, ins)),
           NEW g, Lifts(g, u, s, Without(s, lost))
    PROVE  Comes(t, u)
<1> DEFINE K == Without(s, ins)
           L == Without(s, lost)
           n == Len(t)
           m == Len(u)
           rest == {c \in ColoursOf(u) :
                       \E d \in ins : g[c[1]] = d[1] /\ g[c[2]] = d[2]}
<1>1. /\ n \in Nat /\ m \in Nat
      /\ K \in SUBSET Int /\ L \in SUBSET Int
      /\ Embedding(f, n, K) /\ Embedding(g, m, L)
      /\ \A i \in 1 .. n : t[i] = s[f[i]]
      /\ \A i \in 1 .. m : u[i] = s[g[i]]
  BY InWithout DEF Lifts
<1>2. /\ \A k \in K : k \in L
      /\ \A k \in L : k \in K <=> k \notin Positions(ins)
      /\ \A k \in L : k \in 1 .. Len(s) /\ k \notin Positions(lost)
  BY InWithout, SMTT(20) DEF Positions
<1> HIDE DEF K, L
<1>3. \A i \in 1 .. n : \E j \in 1 .. m : g[j] = f[i]
  BY <1>1, <1>2 DEF Embedding
<1>4. PICK h \in [1 .. n -> 1 .. m] : \A i \in 1 .. n : g[h[i]] = f[i]
  <2> DEFINE hh == [i \in 1 .. n |-> CHOOSE j \in 1 .. m : g[j] = f[i]]
  <2>1. hh \in [1 .. n -> 1 .. m] /\ \A i \in 1 .. n : g[hh[i]] = f[i]
    BY <1>3
  <2> HIDE DEF hh
  <2>2. QED
    BY <2>1
<1>5. \A c \in ColoursOf(u) : c[1] \in 1 .. m /\ c[2] \in 1 .. m
  BY ColourDef
<1>6. \A c \in ColoursOf(s) : c[1] \in Int /\ c[2] \in Int
  BY ColourDef
<1>7. ASSUME NEW j \in 1 .. m PROVE g[j] \in K <=> j \notin Positions(rest)
  <2>1. g[j] \in L /\ g[j] \in Int
    BY <1>1, Rises
  <2>2. ASSUME NEW c \in rest, j \in c[1] .. c[2]
        PROVE  g[j] \notin K
    <3>1. PICK d \in ins : g[c[1]] = d[1] /\ g[c[2]] = d[2]
      OBVIOUS
    <3>2. c[1] \in 1 .. m /\ c[2] \in 1 .. m /\ c[1] <= j /\ j <= c[2]
      BY <1>1, <1>5, <2>2
    <3>3. g[c[1]] <= g[j] /\ g[j] <= g[c[2]]
      BY <1>1, <3>2, Rises
    <3>4. g[j] \in d[1] .. d[2]
      BY <1>6, <2>1, <3>1, <3>3
    <3>5. g[j] \in Positions(ins)
      BY <3>4, InPositions
    <3>6. QED
      BY <1>2, <2>1, <3>5
  <2>3. ASSUME g[j] \notin K
        PROVE  \E c \in rest : j \in c[1] .. c[2]
    <3>1. g[j] \in Positions(ins)
      BY <1>2, <2>1, <2>3
    <3>2. PICK d \in ins : g[j] \in d[1] .. d[2]
      BY <3>1, InPositions
    <3>3. d \notin lost
      BY <1>2, <2>1, <3>2, InPositions
    <3>4. d[1] .. d[2] \subseteq L
      BY <3>3, StaysWhole DEF L
    <3>5. PICK c \in ColoursOf(u) :
              /\ c[1] \in 1 .. m /\ c[2] \in 1 .. m
              /\ g[c[1]] = d[1] /\ g[c[2]] = d[2]
      <4>1. d \in ColoursOf(s) /\ Lifts(g, u, s, L) /\ L \in SUBSET Int
        BY <1>1 DEF L
      <4>2. QED
        BY <3>4, <4>1, ColourRemains, SMTT(20)
    <3>6. c \in rest
      BY <3>5
    <3>7. g[c[1]] <= g[j] /\ g[j] <= g[c[2]]
      BY <1>6, <2>1, <3>2, <3>5
    <3>8. c[1] <= j /\ j <= c[2]
      BY <1>1, <3>5, <3>7, Rises
    <3>9. j \in c[1] .. c[2]
      BY <1>1, <3>5, <3>8
    <3>10. QED
      BY <3>6, <3>9
  <2> HIDE DEF rest
  <2>4. QED
    BY <2>2, <2>3, InPositions
<1>8. rest \in SUBSET ColoursOf(u)
  OBVIOUS
<1> HIDE DEF rest
<1>9. Embedding(h, n, Without(u, rest))
  <2>1. ASSUME NEW i \in 1 .. n PROVE h[i] \in Without(u, rest)
    <3>1. h[i] \in 1 .. m /\ g[h[i]] \in K
      BY <1>1, <1>4 DEF Embedding
    <3>2. QED
      BY <1>7, <3>1, InWithout
  <2>2. ASSUME NEW i \in 1 .. n, NEW j \in 1 .. n, i < j PROVE h[i] < h[j]
    <3>1. f[i] < f[j]
      BY <1>1, <2>2 DEF Embedding
    <3>2. h[i] \in 1 .. m /\ h[j] \in 1 .. m /\ g[h[i]] < g[h[j]]
      BY <1>4, <3>1
    <3>3. QED
      BY <1>1, <3>2, Rises
  <2>3. ASSUME NEW k \in Without(u, rest) PROVE \E i \in 1 .. n : h[i] = k
    <3>1. k \in 1 .. m /\ g[k] \in K
      BY <1>7, InWithout
    <3>2. PICK i \in 1 .. n : f[i] = g[k]
      BY <1>1, <3>1 DEF Embedding
    <3>3. h[i] \in 1 .. m /\ g[h[i]] = g[k]
      BY <1>4, <3>2
    <3>4. h[i] = k
      BY <1>1, <3>1, <3>3, Rises
    <3>5. QED
      BY <3>4
  <2>4. QED
    BY <2>1, <2>2, <2>3, <1>4 DEF Embedding
<1>10. \A i \in 1 .. n : t[i] = u[h[i]]
  BY <1>1, <1>4
<1>11. Lifts(h, t, u, Without(u, rest))
  BY <1>9, <1>10 DEF Lifts
<1>12. QED
  BY <1>8, <1>11 DEF Comes
------------------------------------------------------------------------------
(* A turn of find.                                                          *)

LEMMA EndOfParamsIs ==
    ASSUME text \in Seq(Chars), NEW p \in 1 .. Len(text) + 1
    PROVE  /\ EndOfParams(p) \in p .. Len(text) + 1
           /\ At(EndOfParams(p)) # "d"
           /\ \A i \in p .. EndOfParams(p) - 1 : At(i) = "d"
<1> DEFINE S == {q \in p .. Len(text) + 1 : At(q) # "d"}
           Ends(q) == At(q) # "d" /\ \A i \in p .. q - 1 : At(i) = "d"
<1>1. Len(text) \in Nat /\ p \in Nat
  OBVIOUS
<1>2. Len(text) + 1 \in S
  BY <1>1 DEF At
<1>3. S \in SUBSET Nat
  BY <1>1
<1>4. PICK q \in S : \A n \in S : q <= n
  <2> HIDE DEF S
  <2>1. QED
    BY <1>2, <1>3, LeastNat
<1>5. q \in p .. Len(text) + 1 /\ Ends(q)
  <2>1. ASSUME NEW i \in p .. q - 1 PROVE At(i) = "d"
    <3>1. i \in p .. Len(text) + 1 /\ ~ (q <= i)
      BY <1>1
    <3>2. QED
      BY <1>4, <3>1
  <2>2. QED
    BY <2>1
<1> HIDE DEF Ends
<1>6. Ends(CHOOSE r \in p .. Len(text) + 1 : Ends(r))
      /\ (CHOOSE r \in p .. Len(text) + 1 : Ends(r)) \in p .. Len(text) + 1
  BY <1>5
<1>7. EndOfParams(p) = CHOOSE r \in p .. Len(text) + 1 : Ends(r)
  BY DEF EndOfParams, Ends
<1>8. QED
  BY <1>6, <1>7 DEF Ends

\* Where a turn goes, and that what it takes for a colour is one.
LEMMA TurnForward ==
    ASSUME text \in Seq(Chars), NEW p \in 1 .. Len(text)
    PROVE  /\ After(p) \in p + 1 .. Len(text) + 2
           /\ After(p) = Len(text) + 2 => text[Len(text)] = "esc"
           /\ ColourAt(p) => /\ After(p) \in 1 .. Len(text)
                             /\ <<p, After(p)>> \in ColoursOf(text)
<1>1. Len(text) \in Nat /\ p \in Nat /\ At(p) = text[p]
  BY DEF At
<1>2. CASE At(p) # "esc"
  BY <1>1, <1>2 DEF After, ColourAt
<1>3. CASE At(p) = "esc" /\ At(p + 1) # "["
  <2>1. After(p) = p + 2 /\ ~ ColourAt(p)
    BY <1>3 DEF After, ColourAt
  <2>2. /\ p + 2 \in p + 1 .. Len(text) + 2
        /\ p + 2 = Len(text) + 2 => p = Len(text)
    BY <1>1
  <2>3. After(p) = Len(text) + 2 => text[Len(text)] = "esc"
    BY <1>1, <1>3, <2>1, <2>2
  <2>4. QED
    BY <2>1, <2>2, <2>3
<1>4. CASE At(p) = "esc" /\ At(p + 1) = "["
  <2> DEFINE q == EndOfParams(p + 2)
  <2>1. p + 1 \in 1 .. Len(text) /\ text[p + 1] = "["
    BY <1>1, <1>4 DEF At
  <2>2. After(p) = q
    BY <1>4 DEF After
  <2>3. /\ q \in p + 2 .. Len(text) + 1
        /\ \A i \in p + 2 .. q - 1 : At(i) = "d"
    BY <1>1, <2>1, EndOfParamsIs
  <2>4. ColourAt(p) => At(q) = "m"
    BY DEF ColourAt
  <2> HIDE DEF q
  <2>5. \A i \in p + 2 .. q - 1 : text[i] = "d"
    BY <1>1, <2>3 DEF At
  <2>6. ASSUME ColourAt(p)
        PROVE  q \in 1 .. Len(text) /\ <<p, q>> \in ColoursOf(text)
    <3>1. q \in 1 .. Len(text) /\ text[q] = "m"
      BY <1>1, <2>3, <2>4, <2>6 DEF At
    <3>2. p + 2 <= q
      BY <1>1, <2>3
    <3>3. QED
      <4>1. /\ p \in 1 .. Len(text)
            /\ text[p] = "esc" /\ text[p + 1] = "["
        BY <1>1, <1>4, <2>1 DEF At
      <4>2. <<p, q>> \in ColoursOf(text)
        BY <2>5, <3>1, <3>2, <4>1, ColourDef
      <4>3. QED
        BY <3>1, <4>2
  <2>7. q \in p + 1 .. Len(text) + 2 /\ q # Len(text) + 2
    BY <1>1, <2>3
  <2>8. QED
    BY <2>2, <2>6, <2>7
<1>5. QED
  BY <1>2, <1>3, <1>4

\* A turn from an ESC that begins something passes no colour without finding it.
LEMMA TurnFinds ==
    ASSUME text \in Seq(Chars), NEW p \in 1 .. Len(text),
           text[p] = "esc" => p < Len(text) /\ text[p + 1] # "esc",
           NEW c \in ColoursOf(text), p <= c[1], c[1] < After(p)
    PROVE  ColourAt(p) /\ c[1] = p
<1>1. /\ Len(text) \in Nat /\ p \in Nat
      /\ \A i \in 1 .. Len(text) : At(i) = text[i]
  BY DEF At
<1>2. /\ c[1] \in 1 .. Len(text) /\ c[2] \in 1 .. Len(text)
      /\ c[1] + 2 <= c[2]
      /\ text[c[1]] = "esc" /\ text[c[1] + 1] = "[" /\ text[c[2]] = "m"
      /\ \A i \in c[1] + 2 .. c[2] - 1 : text[i] = "d"
  BY ColourDef
<1>3. CASE At(p) # "esc"
  <2>1. After(p) = p + 1
    BY <1>3 DEF After
  <2>2. c[1] = p
    BY <1>1, <1>2, <2>1
  <2>3. QED
    BY <1>1, <1>2, <1>3, <2>2
<1>4. CASE At(p) = "esc" /\ At(p + 1) # "["
  <2>1. After(p) = p + 2
    BY <1>4 DEF After
  <2>2. c[1] = p \/ c[1] = p + 1
    BY <1>1, <1>2, <2>1
  <2>3. p + 1 \in 1 .. Len(text) /\ text[p + 1] # "esc" /\ text[p + 1] # "["
    BY <1>1, <1>4
  <2>4. QED
    BY <1>2, <2>2, <2>3
<1>5. CASE At(p) = "esc" /\ At(p + 1) = "["
  <2> DEFINE q == EndOfParams(p + 2)
  <2>1. p + 1 \in 1 .. Len(text) /\ text[p + 1] = "["
    BY <1>1, <1>5 DEF At
  <2>2. After(p) = q
    BY <1>5 DEF After
  <2>3. /\ q \in p + 2 .. Len(text) + 1
        /\ At(q) # "d"
        /\ \A i \in p + 2 .. q - 1 : At(i) = "d"
    BY <1>1, <2>1, EndOfParamsIs
  <2> HIDE DEF q
  <2>4. c[1] = p
    <3>1. c[1] = p \/ c[1] = p + 1 \/ c[1] \in p + 2 .. q - 1
      BY <1>1, <1>2, <2>2, <2>3, SMTT(20)
    <3>2. c[1] \in p + 2 .. q - 1 => text[c[1]] = "d"
      BY <1>1, <1>2, <2>3
    <3>3. QED
      BY <1>2, <2>1, <3>1, <3>2
  <2>5. q = c[2]
    <3>1. ~ (q < c[2])
      <4>1. ASSUME q < c[2] PROVE FALSE
        <5>1. q \in c[1] + 2 .. c[2] - 1 /\ q \in 1 .. Len(text)
          BY <1>1, <1>2, <2>3, <2>4, <4>1
        <5>2. QED
          BY <1>1, <1>2, <2>3, <5>1
      <4>2. QED
        BY <4>1
    <3>2. ~ (c[2] < q)
      <4>1. ASSUME c[2] < q PROVE FALSE
        <5>1. c[2] \in p + 2 .. q - 1
          BY <1>1, <1>2, <2>3, <2>4, <4>1
        <5>2. QED
          BY <1>1, <1>2, <2>3, <5>1
      <4>2. QED
        BY <4>1
    <3>3. QED
      BY <1>1, <1>2, <2>3, <3>1, <3>2
  <2>6. At(q) = "m"
    BY <1>1, <1>2, <2>5
  <2>7. QED
    BY <1>5, <2>4, <2>6 DEF ColourAt, q
<1>6. QED
  BY <1>3, <1>4, <1>5

\* Texts that agree from k on have the same colours there.
LEMMA SameColours ==
    ASSUME NEW s \in Seq(Chars), NEW t \in Seq(Chars), Len(s) = Len(t),
           NEW k \in Nat, \A i \in k .. Len(s) : s[i] = t[i],
           NEW c \in ColoursOf(s), k <= c[1]
    PROVE  c \in ColoursOf(t)
<1>1. Len(s) \in Nat
  OBVIOUS
<1>2. /\ c = <<c[1], c[2]>>
      /\ c[1] \in 1 .. Len(s) /\ c[2] \in 1 .. Len(s)
      /\ c[1] + 2 <= c[2]
      /\ s[c[1]] = "esc" /\ s[c[1] + 1] = "[" /\ s[c[2]] = "m"
      /\ \A i \in c[1] + 2 .. c[2] - 1 : s[i] = "d"
  BY ColourDef
<1>3. /\ c[1] \in k .. Len(s) /\ c[1] + 1 \in k .. Len(s)
      /\ c[2] \in k .. Len(s)
      /\ \A i \in c[1] + 2 .. c[2] - 1 : i \in k .. Len(s)
  BY <1>1, <1>2
<1>4. /\ t[c[1]] = "esc" /\ t[c[1] + 1] = "[" /\ t[c[2]] = "m"
      /\ \A i \in c[1] + 2 .. c[2] - 1 : t[i] = "d"
  BY <1>2, <1>3
<1>5. <<c[1], c[2]>> \in ColoursOf(t)
  BY <1>2, <1>4, ColourDef
<1>6. QED
  BY <1>2, <1>5

------------------------------------------------------------------------------
(* What has been copied.                                                    *)

\* The first n characters of t are those of s before k without the colours
\* lost, as f finds them there.
Copied(t, s, n, k, lost, f) ==
    /\ Embedding(f, n, (1 .. k - 1) \ Positions(lost))
    /\ \A i \in 1 .. n : t[i] = s[f[i]]

\* What stands from k to l in s is copied behind.
LEMMA CopiedOn ==
    ASSUME NEW t \in Seq(Chars), NEW s \in Seq(Chars), NEW u \in Seq(Chars),
           NEW lost \in SUBSET ColoursOf(s), NEW f,
           NEW n \in Nat, NEW k \in Nat, 1 <= k, Copied(t, s, n, k, lost, f),
           \A c \in lost : c[2] < k,
           NEW m \in Nat,
           \A i \in 1 .. n : u[i] = t[i],
           \A i \in n + 1 .. n + m : u[i] = s[k + (i - n - 1)]
    PROVE  \E g : Copied(u, s, n + m, k + m, lost, g)
<1> DEFINE K == (1 .. k - 1) \ Positions(lost)
           g == [i \in 1 .. n + m |-> IF i <= n THEN f[i] ELSE k + (i - n - 1)]
<1>1. K \in SUBSET Int /\ \A j \in K : j < k
  OBVIOUS
<1>2. Embedding(f, n, K) /\ \A i \in 1 .. n : t[i] = s[f[i]]
  BY DEF Copied
<1>3. K \cup (k .. k + m - 1) = (1 .. (k + m) - 1) \ Positions(lost)
  <2>1. ASSUME NEW i \in Positions(lost) PROVE i \in Int /\ i < k
    <3>1. PICK c \in lost : i \in c[1] .. c[2]
      BY InPositions
    <3>2. c[1] \in Int /\ c[2] \in Int /\ c[2] < k
      BY ColourDef
    <3>3. QED
      BY <3>1, <3>2
  <2>2. QED
    BY <2>1
<1> HIDE DEF K
<1>4. Embedding(g, n + m, K \cup (k .. k + m - 1))
  <2>1. k \in Int /\ K \in SUBSET Int /\ \A j \in K : j < k
    BY <1>1
  <2>2. Embedding(f, n, K)
    BY <1>2
  <2>3. QED
    BY <2>1, <2>2, Extended
<1>5. ASSUME NEW i \in 1 .. n + m PROVE u[i] = s[g[i]]
  <2>1. CASE i <= n
    <3>1. i \in 1 .. n /\ g[i] = f[i]
      BY <2>1
    <3>2. QED
      BY <1>2, <3>1
  <2>2. CASE i > n
    <3>1. i \in n + 1 .. n + m /\ g[i] = k + (i - n - 1)
      BY <2>2
    <3>2. QED
      BY <3>1
  <2>3. i <= n \/ i > n
    OBVIOUS
  <2>4. QED
    BY <2>1, <2>2, <2>3
<1> HIDE DEF g
<1>6. Copied(u, s, n + m, k + m, lost, g)
  BY <1>3, <1>4, <1>5 DEF Copied
<1>7. QED
  BY <1>6, Zenon

\* The colours end before k.
EndBefore(colours, k) == \A c \in colours : c[2] < k

\* A colour is left out.
LEMMA ColourLeftOut ==
    ASSUME NEW t, NEW s \in Seq(Chars), NEW lost \in SUBSET ColoursOf(s),
           NEW f, NEW n, NEW e \in ColoursOf(s), EndBefore(lost, e[1]),
           Copied(t, s, n, e[1], lost, f)
    PROVE  /\ Copied(t, s, n, e[2] + 1, lost \cup {e}, f)
           /\ EndBefore(lost \cup {e}, e[2] + 1)
<1>1. e[1] \in Int /\ e[2] \in Int /\ e[1] + 2 <= e[2] /\ 1 <= e[1]
  BY ColourDef
<1>2. \A c \in lost : c[1] \in Int /\ c[2] \in Int
  BY ColourDef
<1>3. (1 .. e[1] - 1) \ Positions(lost)
        = (1 .. (e[2] + 1) - 1) \ Positions(lost \cup {e})
  <2>1. ASSUME NEW i
        PROVE  i \in Positions(lost \cup {e})
                   <=> i \in Positions(lost) \/ i \in e[1] .. e[2]
    BY InPositions
  <2>2. ASSUME NEW i
        PROVE  i \in 1 .. (e[2] + 1) - 1 /\ i \notin e[1] .. e[2]
                   <=> i \in 1 .. e[1] - 1
    BY <1>1
  <2>3. QED
    BY <2>1, <2>2
<1>4. Copied(t, s, n, e[2] + 1, lost \cup {e}, f)
  BY <1>3 DEF Copied
<1>5. ASSUME NEW c \in lost \cup {e} PROVE c[2] < e[2] + 1
  <2>1. CASE c \in lost
    <3>1. c[2] < e[1]
      BY <2>1 DEF EndBefore
    <3>2. QED
      BY <1>1, <1>2, <2>1, <3>1
  <2>2. CASE c = e
    BY <1>1, <2>2
  <2>3. QED
    BY <2>1, <2>2
<1>6. QED
  BY <1>4, <1>5 DEF EndBefore

\* When all has been copied.
LEMMA CopiedAll ==
    ASSUME NEW t \in Seq(Chars), NEW s \in Seq(Chars), NEW lost, NEW f,
           Copied(t, s, Len(t), Len(s) + 1, lost, f)
    PROVE  Lifts(f, t, s, Without(s, lost))
<1>1. (1 .. (Len(s) + 1) - 1) \ Positions(lost) = Without(s, lost)
  BY DEF Without
<1>2. QED
  BY <1>1 DEF Copied, Lifts
------------------------------------------------------------------------------
(* The invariant of stripping.                                              *)

StripTypes ==
    /\ text \in Seq(Chars) /\ original \in Seq(Chars)
    /\ first \in Nat /\ second \in Nat /\ scan \in Nat

\* From second on the text is as it was.
Pointers ==
    /\ Len(text) = Len(original)
    /\ 1 <= first /\ first <= second /\ second <= scan
    /\ second <= Len(text) + 1 /\ scan <= Len(text) + 2
    /\ pc = "first" => second = 1
    /\ \A i \in second .. Len(text) : text[i] = original[i]
    /\ scan = Len(text) + 2 => /\ Len(text) > 0
                               /\ original[Len(text)] = "esc"

\* Before first it is the original before second without the colours lost; a
\* regular text has lost all that the scan has passed.
Scanned(lost) ==
    /\ \A c \in lost : c[2] < second
    /\ Regular => \A c \in Colours : c[1] < scan => c \in lost
    /\ \E f : Copied(text, original, first - 1, second, lost, f)

\* While a text is scanned: where the pointers are and what is in front of them.
StripInv ==
    pc \in {"first", "next"} =>
        Pointers /\ \E lost \in SUBSET Colours : Scanned(lost)

\* When it has been scanned: the text is the original one without some colours,
\* without all of them if it was regular.
DoneInv ==
    pc = "done" =>
        \E lost \in SUBSET Colours :
            /\ Regular => lost = Colours
            /\ \E f : Lifts(f, text, original, Without(original, lost))

LEMMA CallStrips ==
    ASSUME StripTypes, Call
    PROVE  StripInv'
<1>1. /\ original' = text /\ text' = text /\ text \in Seq(Chars)
      /\ first' = 1 /\ second' = 1 /\ scan' = 1 /\ pc' = "first"
  BY DEF StripTypes, Call
<1>2. Pointers'
  BY <1>1 DEF Pointers
<1>3. Colours' = ColoursOf(text)
  BY <1>1 DEF Colours
<1>4. \A c \in ColoursOf(text) : 1 <= c[1] /\ c[1] \in Int
  BY <1>1, ColourDef
<1>5. Copied(text, text, 0, 1, {}, <<>>)
  BY DEF Copied, Embedding, Positions
<1>6. Scanned({})'
  <2>1. Copied(text', original', first' - 1, second', {}, <<>>)
    BY <1>1, <1>5
  <2>2. (\E f : Copied(text, original, first - 1, second, {}, f))'
    BY <2>1
  <2>3. (Regular => \A c \in Colours : c[1] < scan => c \in {})'
    BY <1>1, <1>3, <1>4
  <2>4. QED
    BY <2>2, <2>3 DEF Scanned
<1>7. QED
  BY <1>2, <1>6 DEF StripInv

LEMMA SkipKeeps ==
    ASSUME StripTypes, StripInv, Skip
    PROVE  StripInv'
<1>1. /\ pc \in {"first", "next"} /\ pc' = pc
      /\ scan \in 1 .. Len(text) /\ ~ ColourAt(scan)
      /\ scan' = After(scan)
      /\ original' = original /\ text' = text
      /\ first' = first /\ second' = second
      /\ text \in Seq(Chars) /\ original \in Seq(Chars) /\ scan \in Nat
      /\ second \in Nat /\ Len(text) \in Nat
  BY DEF Skip, More, StripTypes
<1>2. Pointers
  BY <1>1 DEF StripInv
<1>3. PICK lost \in SUBSET Colours : Scanned(lost)
  BY <1>1 DEF StripInv
<1>4. /\ After(scan) \in scan + 1 .. Len(text) + 2
      /\ After(scan) = Len(text) + 2 => text[Len(text)] = "esc"
  BY <1>1, TurnForward
<1>5. /\ Len(text) = Len(original) /\ second <= scan
      /\ \A i \in second .. Len(text) : text[i] = original[i]
  BY <1>2 DEF Pointers
<1>6. Pointers'
  <2>1. After(scan) = Len(text) + 2 =>
            Len(text) > 0 /\ original[Len(text)] = "esc"
    <3>1. Len(text) > 0 /\ Len(text) \in second .. Len(text)
      BY <1>1, <1>5
    <3>2. QED
      BY <1>4, <1>5, <3>1
  <2>2. second <= After(scan) /\ After(scan) <= Len(text) + 2
    BY <1>1, <1>4, <1>5
  <2>3. QED
    BY <1>1, <1>2, <2>1, <2>2 DEF Pointers
<1>7. (Regular' <=> Regular) /\ Colours' = Colours
  BY <1>1 DEF Regular, Colours
<1>8. ASSUME Regular, NEW c \in Colours, c[1] < After(scan)
      PROVE  c \in lost
  <2>1. c \in ColoursOf(original) /\ c[1] \in Int
    BY <1>1, ColourDef DEF Colours
  <2>2. CASE c[1] < scan
    BY <1>3, <1>8, <2>2 DEF Scanned
  <2>3. CASE scan <= c[1]
    <3>1. c \in ColoursOf(text)
      <4>1. second <= c[1]
        BY <1>1, <1>5, <2>1, <2>3
      <4>2. \A i \in second .. Len(original) : original[i] = text[i]
        BY <1>5
      <4>3. QED
        BY <1>1, <1>5, <2>1, <4>1, <4>2, SameColours
    <3>2. text[scan] = "esc" => scan < Len(text) /\ text[scan + 1] # "esc"
      <4>1. text[scan] = original[scan]
        BY <1>1, <1>5
      <4>2. scan < Len(text) => text[scan + 1] = original[scan + 1]
        BY <1>1, <1>5
      <4>3. scan \in DOMAIN original
        BY <1>1, <1>5
      <4>4. QED
        BY <1>5, <1>8, <4>1, <4>2, <4>3 DEF Regular
    <3>3. ColourAt(scan)
      BY <1>1, <1>8, <2>3, <3>1, <3>2, TurnFinds
    <3>4. QED
      BY <1>1, <3>3
  <2>4. QED
    BY <1>1, <2>1, <2>2, <2>3
<1>9. Scanned(lost)'
  <2>1. (\E f : Copied(text, original, first - 1, second, lost, f))'
    BY <1>1, <1>3 DEF Scanned
  <2>2. \A c \in lost : c[2] < second'
    BY <1>1, <1>3 DEF Scanned
  <2>3. Regular' => \A c \in Colours' : c[1] < scan' => c \in lost
    BY <1>1, <1>7, <1>8
  <2>4. QED
    BY <2>1, <2>2, <2>3 DEF Scanned
<1>10. QED
  BY <1>6, <1>7, <1>9 DEF StripInv

\* What a step that finds a colour does to the text: the characters between the
\* last colour and this one are copied behind what has been kept.
LEMMA FoundCopies ==
    ASSUME StripTypes, StripInv, FindFirst \/ Move
    PROVE  /\ text' \in Seq(Chars) /\ Len(text') = Len(text)
           /\ first' = first + (scan - second)
           /\ \A i \in 1 .. first - 1 : text'[i] = text[i]
           /\ \A i \in first .. first' - 1 :
                  text'[i] = original[second + (i - first)]
           /\ \A i \in first' .. Len(text) : text'[i] = text[i]
<1>1. /\ pc \in {"first", "next"}
      /\ scan \in 1 .. Len(text)
      /\ text \in Seq(Chars)
      /\ first \in Nat /\ second \in Nat /\ scan \in Nat /\ Len(text) \in Nat
  BY DEF FindFirst, Move, More, StripTypes
<1>2. /\ 1 <= first /\ first <= second /\ second <= scan
      /\ pc = "first" => second = 1
      /\ \A i \in second .. Len(text) : text[i] = original[i]
  BY <1>1 DEF StripInv, Pointers
<1>3. CASE FindFirst
  <2>1. text' = text /\ first = 1 /\ second = 1 /\ first' = scan
    BY <1>1, <1>2, <1>3 DEF FindFirst
  <2>2. QED
    BY <1>1, <1>2, <2>1
<1>4. CASE Move
  <2> DEFINE n == scan - second
  <2>1. /\ text' = [i \in DOMAIN text |-> IF i \in first .. first + n - 1
                                          THEN text[second + (i - first)]
                                          ELSE text[i]]
        /\ first' = first + n
    BY <1>4 DEF Move
  <2>2. n \in Nat /\ first + n <= scan /\ DOMAIN text = 1 .. Len(text)
    BY <1>1, <1>2
  <2>3. \A i \in first .. first + n - 1 :
            /\ second + (i - first) \in second .. Len(text)
            /\ second + (i - first) \in 1 .. Len(text)
    BY <1>1, <1>2, <2>2
  <2> HIDE DEF n
  <2>4. ASSUME NEW i \in 1 .. Len(text)
        PROVE  /\ text'[i] \in Chars
               /\ i <= first - 1 => text'[i] = text[i]
               /\ i \in first .. first + n - 1 =>
                      text'[i] = original[second + (i - first)]
               /\ first + n <= i => text'[i] = text[i]
    <3>1. \A k \in 1 .. Len(text) : text[k] \in Chars
      BY <1>1
    <3>2. CASE i \in first .. first + n - 1
      <4>1. text'[i] = text[second + (i - first)]
        BY <2>1, <2>2, <3>2
      <4>2. ~ (i <= first - 1) /\ ~ (first + n <= i)
        BY <1>1, <2>2, <3>2
      <4>3. QED
        BY <1>2, <2>3, <3>1, <3>2, <4>1, <4>2
    <3>3. CASE i \notin first .. first + n - 1
      BY <2>1, <2>2, <3>1, <3>3
    <3>4. QED
      BY <3>2, <3>3
  <2>5. text' \in [1 .. Len(text) -> Chars]
    BY <2>1, <2>2, <2>4
  <2>6. text' \in Seq(Chars) /\ Len(text') = Len(text)
    BY <1>1, <2>5
  <2>7. \A i \in 1 .. first - 1 : text'[i] = text[i]
    BY <1>1, <1>2, <2>2, <2>4
  <2>8. \A i \in first .. first + n - 1 :
            text'[i] = original[second + (i - first)]
    BY <1>1, <1>2, <2>2, <2>4
  <2>9. \A i \in first + n .. Len(text) : text'[i] = text[i]
    BY <1>1, <1>2, <2>2, <2>4
  <2>10. first' = first + n
    BY <2>1
  <2>a. n = scan - second
    BY DEF n
  <2>11. QED
    <3>1. \A i \in first .. first' - 1 : text'[i] = original[second + (i - first)]
      BY <1>1, <2>2, <2>8, <2>10
    <3>2. \A i \in first' .. Len(text) : text'[i] = text[i]
      BY <1>1, <2>2, <2>9, <2>10
    <3>3. QED
      BY <2>6, <2>7, <2>10, <2>a, <3>1, <3>2
<1>5. QED
  BY <1>3, <1>4

LEMMA FoundKeeps ==
    ASSUME StripTypes, StripInv, FindFirst \/ Move
    PROVE  StripInv'
<1>a. PICK q : q = After(scan)
  OBVIOUS
<1>b. PICK e : e = <<scan, q>>
  OBVIOUS
<1>1. /\ pc \in {"first", "next"} /\ pc' = "next"
      /\ scan \in 1 .. Len(text) /\ ColourAt(scan)
      /\ second' = q + 1 /\ scan' = q + 1
      /\ original' = original
      /\ text \in Seq(Chars) /\ original \in Seq(Chars)
      /\ first \in Nat /\ second \in Nat /\ scan \in Nat /\ Len(text) \in Nat
  BY <1>a DEF FindFirst, Move, More, StripTypes
<1>2. /\ text' \in Seq(Chars) /\ Len(text') = Len(text)
      /\ first' = first + (scan - second)
      /\ \A i \in 1 .. first - 1 : text'[i] = text[i]
      /\ \A i \in first .. first' - 1 :
             text'[i] = original[second + (i - first)]
      /\ \A i \in first' .. Len(text) : text'[i] = text[i]
  BY FoundCopies
<1>3. Pointers
  BY <1>1 DEF StripInv
<1>4. PICK lost \in SUBSET Colours : Scanned(lost)
  BY <1>1 DEF StripInv
<1>5. /\ Len(text) = Len(original)
      /\ 1 <= first /\ first <= second /\ second <= scan
      /\ \A i \in second .. Len(text) : text[i] = original[i]
  BY <1>3 DEF Pointers
<1>6. /\ q \in scan + 1 .. Len(text) + 2
      /\ q \in 1 .. Len(text) /\ e \in ColoursOf(text)
  BY <1>1, <1>a, <1>b, TurnForward
<1>7. e[1] = scan /\ e[2] = q
  BY <1>b
<1>8. e \in ColoursOf(original) /\ Colours = ColoursOf(original)
  BY <1>1, <1>5, <1>6, <1>7, SameColours DEF Colours
<1>9. first' \in Nat /\ 1 <= first' /\ first' <= scan
  BY <1>1, <1>2, <1>5
<1>10. q \in Nat /\ scan < q
  BY <1>1, <1>6
<1>11. Pointers'
  <2>1. \A i \in q + 1 .. Len(text) : text'[i] = original[i]
    <3>1. \A i \in q + 1 .. Len(text) :
              i \in first' .. Len(text) /\ i \in second .. Len(text)
      BY <1>1, <1>5, <1>9, <1>10
    <3>2. QED
      BY <1>2, <1>5, <3>1
  <2>2. /\ Len(text') = Len(original')
        /\ 1 <= first' /\ first' <= second' /\ second' <= scan'
        /\ second' <= Len(text') + 1 /\ scan' <= Len(text') + 2
        /\ scan' # Len(text') + 2
        /\ pc' # "first"
    BY <1>1, <1>2, <1>5, <1>6, <1>9, <1>10
  <2>3. \A i \in second' .. Len(text') : text'[i] = original'[i]
    BY <1>1, <1>2, <2>1
  <2>4. QED
    BY <2>2, <2>3 DEF Pointers
<1>12. PICK g : Copied(text', original, first' - 1, scan, lost, g)
  <2> DEFINE n == first - 1
             m == scan - second
  <2>1. PICK f : Copied(text, original, n, second, lost, f)
    BY <1>4 DEF Scanned
  <2>2. /\ n \in Nat /\ m \in Nat /\ 1 <= second
        /\ n + m = first' - 1 /\ second + m = scan
    BY <1>1, <1>2, <1>5
  <2>3. \A c \in lost : c[2] < second
    BY <1>4 DEF Scanned
  <2>4. \A i \in 1 .. n : text'[i] = text[i]
    BY <1>2
  <2>5. \A i \in n + 1 .. n + m : text'[i] = original[second + (i - n - 1)]
    <3>1. \A i \in n + 1 .. n + m :
              i \in first .. first' - 1 /\ i - first = i - n - 1
      BY <1>1, <1>2, <1>9
    <3>2. QED
      BY <1>2, <3>1
  <2>6. lost \in SUBSET ColoursOf(original)
    BY <1>8
  <2> HIDE DEF n, m
  <2>7. \E g : Copied(text', original, n + m, second + m, lost, g)
    BY <1>1, <1>2, <2>1, <2>2, <2>3, <2>4, <2>5, <2>6, CopiedOn
  <2>8. QED
    BY <2>2, <2>7
<1>13. /\ Copied(text', original, first' - 1, q + 1, lost \cup {e}, g)
       /\ \A c \in lost \cup {e} : c[2] < q + 1
  <2>1. EndBefore(lost, e[1])
    <3>1. \A c \in lost : c[2] < second /\ c[2] \in Int
      BY <1>1, <1>4, <1>8, ColourDef DEF Scanned
    <3>2. QED
      BY <1>1, <1>5, <1>7, <3>1 DEF EndBefore
  <2>2. Copied(text', original, first' - 1, e[1], lost, g)
    BY <1>7, <1>12, Zenon
  <2>3. lost \in SUBSET ColoursOf(original) /\ original \in Seq(Chars)
    BY <1>1, <1>8
  <2>4. /\ Copied(text', original, first' - 1, e[2] + 1, lost \cup {e}, g)
        /\ EndBefore(lost \cup {e}, e[2] + 1)
    BY <1>8, <2>1, <2>2, <2>3, ColourLeftOut
  <2>5. QED
    BY <1>7, <2>4, Zenon DEF EndBefore
<1>14. (Regular' <=> Regular) /\ Colours' = Colours
  BY <1>1 DEF Regular, Colours
<1>15. ASSUME Regular, NEW c \in Colours, c[1] < q + 1
       PROVE  c \in lost \cup {e}
  <2>1. c \in ColoursOf(original) /\ c[1] \in Int /\ c[2] \in Int /\ c[1] <= c[2]
    BY <1>1, ColourDef DEF Colours
  <2>2. CASE c[1] < scan
    BY <1>4, <1>15, <2>2 DEF Scanned
  <2>3. CASE scan <= c[1]
    <3>1. c[1] \in c[1] .. c[2] /\ c[1] \in e[1] .. e[2]
      BY <1>1, <1>7, <1>10, <1>15, <2>1, <2>3
    <3>2. c = e
      BY <1>1, <1>8, <2>1, <3>1, Disjoint
    <3>3. QED
      BY <3>2
  <2>4. QED
    BY <1>1, <2>1, <2>2, <2>3
<1>16. Scanned(lost \cup {e})'
  <2>1. (\E f : Copied(text, original, first - 1, second, lost \cup {e}, f))'
    BY <1>1, <1>13
  <2>2. \A c \in lost \cup {e} : c[2] < second'
    BY <1>1, <1>13
  <2>3. Regular' => \A c \in Colours' : c[1] < scan' => c \in lost \cup {e}
    BY <1>1, <1>14, <1>15
  <2>4. QED
    BY <2>1, <2>2, <2>3 DEF Scanned
<1>17. lost \cup {e} \in SUBSET Colours'
  BY <1>8, <1>14
<1>18. QED
  BY <1>11, <1>16, <1>17 DEF StripInv

\* When find ends, the gap is erased.
LEMMA EndErases ==
    ASSUME StripTypes, StripInv, FindNone \/ Erase
    PROVE  /\ text' \in Seq(Chars) /\ original' = original /\ pc' = "done"
           /\ DoneInv'
<1>1. /\ pc \in {"first", "next"} /\ pc' = "done"
      /\ scan \in 1 .. Len(text) + 1 /\ At(scan) = "nul"
      /\ original' = original
      /\ text \in Seq(Chars) /\ original \in Seq(Chars)
      /\ first \in Nat /\ second \in Nat /\ scan \in Nat /\ Len(text) \in Nat
  <2>1. text \in Seq(Chars) /\ Len(text) \in Nat
    BY DEF StripTypes
  <2>2. AtEnd /\ pc \in {"first", "next"} /\ pc' = "done" /\ original' = original
    BY DEF FindNone, Erase
  <2>3. QED
    BY <2>1, <2>2 DEF AtEnd, StripTypes
<1>2. Pointers
  BY <1>1 DEF StripInv
<1>3. PICK lost \in SUBSET Colours : Scanned(lost)
  BY <1>1 DEF StripInv
<1>4. /\ Len(text) = Len(original)
      /\ 1 <= first /\ first <= second /\ second <= scan
      /\ second <= Len(text) + 1
      /\ pc = "first" => second = 1
      /\ \A i \in second .. Len(text) : text[i] = original[i]
  BY <1>2 DEF Pointers
<1> DEFINE n == first - 1
           m == Len(text) + 1 - second
<1>5. n \in Nat /\ m \in Nat /\ second + m = Len(text) + 1
  BY <1>1, <1>4
<1>6. /\ text' \in Seq(Chars) /\ Len(text') = n + m
      /\ \A i \in 1 .. n : text'[i] = text[i]
      /\ \A i \in n + 1 .. n + m : text'[i] = text[second + (i - n - 1)]
  <2>1. CASE FindNone
    <3>1. text' = text /\ second = 1 /\ first = 1
      BY <1>1, <1>4, <2>1 DEF FindNone
    <3>2. QED
      BY <1>1, <3>1
  <2>2. CASE Erase
    <3> DEFINE a == SubSeq(text, 1, first - 1)
               b == SubSeq(text, second, Len(text))
    <3>1. text' = a \o b
      BY <2>2 DEF Erase
    <3>2. /\ a \in Seq(Chars) /\ Len(a) = n
          /\ \A i \in 1 .. n : a[i] = text[i]
      BY <1>1, <1>4
    <3>3. /\ b \in Seq(Chars) /\ Len(b) = m
          /\ \A i \in 1 .. m : b[i] = text[second + i - 1]
      BY <1>1, <1>4
    <3> HIDE DEF a, b, n, m
    <3>4. /\ a \o b \in Seq(Chars) /\ Len(a \o b) = n + m
          /\ \A i \in 1 .. n : (a \o b)[i] = text[i]
          /\ \A i \in n + 1 .. n + m : (a \o b)[i] = b[i - n]
      BY <3>2, <3>3, Concatenation
    <3>5. \A i \in n + 1 .. n + m : b[i - n] = text[second + (i - n - 1)]
      <4>1. \A i \in n + 1 .. n + m :
                i - n \in 1 .. m /\ second + (i - n) - 1 = second + (i - n - 1)
        BY <1>1, <1>5
      <4>2. QED
        BY <3>3, <4>1
    <3>6. QED
      BY <3>1, <3>4, <3>5
  <2>3. QED
    BY <2>1, <2>2
<1>7. \A i \in n + 1 .. n + m : text'[i] = original[second + (i - n - 1)]
  <2>1. \A i \in n + 1 .. n + m : second + (i - n - 1) \in second .. Len(text)
    BY <1>1, <1>4, <1>5
  <2>2. QED
    BY <1>4, <1>6, <2>1
<1>8. lost \in SUBSET ColoursOf(original)
  BY DEF Colours
<1>9. PICK g : Lifts(g, text', original, Without(original, lost))
  <2>1. PICK f : Copied(text, original, n, second, lost, f)
    BY <1>3 DEF Scanned
  <2>2. \A c \in lost : c[2] < second
    BY <1>3 DEF Scanned
  <2> HIDE DEF n, m
  <2>3. 1 <= second
    BY <1>1, <1>4
  <2>4. \E g : Copied(text', original, n + m, second + m, lost, g)
    BY <1>1, <1>5, <1>6, <1>7, <1>8, <2>1, <2>2, <2>3, CopiedOn
  <2>5. \E g : Copied(text', original, Len(text'), Len(original) + 1, lost, g)
    BY <1>4, <1>5, <1>6, <2>4
  <2>6. QED
    BY <1>1, <1>6, <2>5, CopiedAll
<1>10. ASSUME Regular PROVE lost = Colours
  <2>1. scan = Len(original) + 1
    <3>1. CASE scan \in 1 .. Len(text)
      <4>1. text[scan] = original[scan] /\ At(scan) = text[scan]
        BY <1>1, <1>4, <3>1 DEF At
      <4>2. scan \in DOMAIN original
        BY <1>1, <1>4, <3>1
      <4>3. QED
        BY <1>1, <1>10, <4>1, <4>2 DEF Regular
    <3>2. QED
      BY <1>1, <1>4, <3>1
  <2>2. \A c \in Colours : c[1] < scan
    BY <1>1, <2>1, ColourDef DEF Colours
  <2>3. QED
    BY <1>3, <1>10, <2>2 DEF Scanned
<1>11. (Regular' <=> Regular) /\ Colours' = Colours
  BY <1>1 DEF Regular, Colours
<1>12. DoneInv'
  <2>1. (\E f : Lifts(f, text, original, Without(original, lost)))'
    BY <1>1, <1>9
  <2>2. lost \in SUBSET Colours' /\ (Regular' => lost = Colours')
    BY <1>10, <1>11
  <2>3. QED
    BY <2>1, <2>2 DEF DoneInv
<1>13. QED
  BY <1>1, <1>6, <1>12
------------------------------------------------------------------------------
(* Formatters.                                                              *)

LEMMA CaseTypes ==
    ASSUME case \in Cases
    PROVE  /\ case.sgr # NoSection =>
                  case.sgr \in Seq([name : STRING, colour : Seq(Chars)])
           /\ case.template \in Seq([name : Names, arg : STRING])
           /\ case.header \in Seq(Chars) /\ case.message \in Seq(Chars)
           /\ case.scopes \in Seq(Chars)
BY CasesAssumption

LEMMA CreateType ==
    ASSUME NEW item, item.name \in Names
    PROVE  create_formatter(item) \in Formatters \cup {Invalid}
<1>1. CASE item.name = "Default"
  BY <1>1 DEF create_formatter, Formatters, Chains
<1>2. CASE item.name \in {"TimeStamp", "LineID", "Severity"}
  BY <1>2 DEF create_formatter, Formatters, Chains
<1>3. CASE item.name = "Message"
  BY <1>3 DEF create_formatter, Formatters, Chains
<1>4. CASE item.name = "Scope"
  BY <1>4 DEF create_formatter, Formatters, Chains
<1>5. CASE item.name = "SGR"
  BY <1>5 DEF create_formatter, Formatters, Chains
<1>6. QED
  BY <1>1, <1>2, <1>3, <1>4, <1>5 DEF Names

\* s is one colour.
IsColour(s) ==
    /\ 3 <= Len(s)
    /\ s[1] = "esc" /\ s[2] = "[" /\ s[Len(s)] = "m"
    /\ \A i \in 3 .. Len(s) - 1 : s[i] = "d"

LEMMA WholeColour ==
    ASSUME NEW s \in Seq(Chars), IsColour(s)
    PROVE  <<1, Len(s)>> \in ColoursOf(s)
<1>1. 1 \in 1 .. Len(s) /\ Len(s) \in 1 .. Len(s) /\ 1 + 2 <= Len(s)
  BY DEF IsColour
<1>2. /\ s[1] = "esc" /\ s[1 + 1] = "[" /\ s[Len(s)] = "m"
      /\ \A i \in 1 + 2 .. Len(s) - 1 : s[i] = "d"
  BY DEF IsColour
<1>3. QED
  BY <1>1, <1>2, ColourDef

LEMMA ResetIsColour ==
    /\ reset_sgr \in Seq(Chars)
    /\ <<1, Len(reset_sgr)>> \in ColoursOf(reset_sgr)
<1>1. reset_sgr \in Seq(Chars)
  BY DEF reset_sgr, Chars
<1>2. /\ Len(reset_sgr) = 5 /\ reset_sgr[1] = "esc" /\ reset_sgr[2] = "["
      /\ reset_sgr[3] = "d" /\ reset_sgr[4] = "d" /\ reset_sgr[5] = "m"
  BY DEF reset_sgr
<1>3. \A i \in 3 .. 5 - 1 : reset_sgr[i] = "d"
  BY <1>2
<1>4. IsColour(reset_sgr)
  BY <1>2, <1>3 DEF IsColour
<1>5. QED
  BY <1>1, <1>4, WholeColour

\* The configured colours are lists of numbers.
PlainTable == \A i \in Ordinals : \A j \in DOMAIN table[i] : table[i][j] = "d"

LEMMA SgrType ==
    ASSUME table \in [Ordinals -> Seq(Chars)], NEW level
    PROVE  sgr(level) \in Seq(Chars)
<1>1. CASE level \in Ordinals /\ table[level] # <<>>
  <2>1. /\ <<"esc", "[">> \in Seq(Chars) /\ table[level] \in Seq(Chars)
        /\ <<"m">> \in Seq(Chars)
    BY <1>1 DEF Chars
  <2>2. sgr(level) = (<<"esc", "[">> \o table[level]) \o <<"m">>
    BY <1>1 DEF sgr
  <2>3. QED
    BY <2>1, <2>2
<1>2. CASE ~ (level \in Ordinals /\ table[level] # <<>>)
  BY <1>2 DEF sgr
<1>3. QED
  BY <1>1, <1>2

LEMMA SgrIsColour ==
    ASSUME table \in [Ordinals -> Seq(Chars)], PlainTable, NEW level,
           sgr(level) # <<>>
    PROVE  <<1, Len(sgr(level))>> \in ColoursOf(sgr(level))
<1> DEFINE c == table[level]
           u == sgr(level)
           l == Len(c)
<1>1. level \in Ordinals /\ u = (<<"esc", "[">> \o c) \o <<"m">>
  BY DEF sgr
<1>2. c \in Seq(Chars) /\ l \in Nat /\ \A j \in 1 .. l : c[j] = "d"
  BY <1>1 DEF PlainTable
<1> HIDE DEF c, l
<1> DEFINE a == <<"esc", "[">>
           b == <<"m">>
<1>3. /\ a \in Seq(Chars) /\ Len(a) = 2 /\ a[1] = "esc" /\ a[2] = "["
      /\ b \in Seq(Chars) /\ Len(b) = 1 /\ b[1] = "m"
  BY DEF Chars
<1>4. u = (a \o c) \o b
  BY <1>1
<1> HIDE DEF a, b, u
<1>5. /\ a \o c \in Seq(Chars) /\ Len(a \o c) = 2 + l
      /\ (a \o c)[1] = "esc" /\ (a \o c)[2] = "["
      /\ \A i \in 3 .. 2 + l : (a \o c)[i] = "d"
  <2>1. /\ a \o c \in Seq(Chars) /\ Len(a \o c) = 2 + l
        /\ \A i \in 1 .. 2 : (a \o c)[i] = a[i]
        /\ \A i \in 3 .. 2 + l : (a \o c)[i] = c[i - 2]
    <3>1. Len(a) = 2 /\ Len(c) = l
      BY <1>3 DEF l
    <3>2. /\ a \o c \in Seq(Chars) /\ Len(a \o c) = Len(a) + Len(c)
          /\ \A i \in 1 .. Len(a) : (a \o c)[i] = a[i]
          /\ \A i \in Len(a) + 1 .. Len(a) + Len(c) :
                 (a \o c)[i] = c[i - Len(a)]
      BY <1>2, <1>3, Concatenation
    <3>3. QED
      BY <3>1, <3>2
  <2>2. \A i \in 3 .. 2 + l : i - 2 \in 1 .. l
    BY <1>2
  <2>3. ASSUME NEW i \in 3 .. 2 + l PROVE (a \o c)[i] = "d"
    <3>1. (a \o c)[i] = c[i - 2] /\ i - 2 \in 1 .. l
      BY <2>1, <2>2
    <3>2. QED
      BY <1>2, <3>1
  <2>4. (a \o c)[1] = "esc" /\ (a \o c)[2] = "["
    <3>1. 1 \in 1 .. 2 /\ 2 \in 1 .. 2
      OBVIOUS
    <3>2. (a \o c)[1] = a[1] /\ (a \o c)[2] = a[2]
      BY <2>1, <3>1
    <3>3. QED
      BY <1>3, <3>2
  <2>5. QED
    BY <2>1, <2>3, <2>4
<1> DEFINE ac == a \o c
<1>6. /\ ac \in Seq(Chars) /\ Len(ac) = 2 + l
      /\ ac[1] = "esc" /\ ac[2] = "["
      /\ \A i \in 3 .. 2 + l : ac[i] = "d"
      /\ u = ac \o b
  BY <1>4, <1>5
<1> HIDE DEF ac
<1>7. /\ u \in Seq(Chars) /\ Len(u) = Len(ac) + Len(b)
      /\ \A i \in 1 .. Len(ac) : u[i] = ac[i]
      /\ \A i \in 1 .. Len(b) : u[Len(ac) + i] = b[i]
  <2>1. ac \in Seq(Chars) /\ b \in Seq(Chars) /\ u = ac \o b
    BY <1>3, <1>6
  <2>2. /\ ac \o b \in Seq(Chars) /\ Len(ac \o b) = Len(ac) + Len(b)
        /\ \A i \in 1 .. Len(ac) : (ac \o b)[i] = ac[i]
        /\ \A i \in 1 .. Len(b) : (ac \o b)[Len(ac) + i] = b[i]
    BY <2>1, Concatenation
  <2>3. QED
    BY <2>1, <2>2, Zenon
<1>8. /\ Len(u) = 3 + l
      /\ u[1] = "esc" /\ u[2] = "["
      /\ \A i \in 3 .. 2 + l : u[i] = "d"
      /\ u[3 + l] = "m"
  <2>1. /\ 1 \in 1 .. Len(ac) /\ 2 \in 1 .. Len(ac) /\ 1 \in 1 .. Len(b)
        /\ \A i \in 3 .. 2 + l : i \in 1 .. Len(ac)
        /\ Len(ac) + 1 = 3 + l
    BY <1>2, <1>3, <1>6
  <2>2. u[Len(ac) + 1] = b[1] /\ Len(u) = 3 + l
    BY <1>3, <1>7, <2>1
  <2>3. \A i \in 3 .. 2 + l : u[i] = "d"
    BY <1>6, <1>7, <2>1
  <2>4. QED
    BY <1>3, <1>6, <1>7, <2>1, <2>2, <2>3
<1>9. <<1, Len(u)>> \in ColoursOf(u)
  <2>1. 3 <= 3 + l /\ (3 + l) - 1 = 2 + l
    BY <1>2
  <2>2. IsColour(u)
    BY <1>8, <2>1 DEF IsColour
  <2>3. QED
    BY <1>7, <2>2, WholeColour
<1>10. QED
  BY <1>9 DEF u

\* The formatters that append to the text.
Writers == {"sgr", "reset", "header", "message", "newline", "scope"}

LEMMA WritersAre ==
    /\ \A f \in Formatters \ Chains : f # "strip" => f \in Writers
    /\ \A f \in Chains : Chain(f) \in Seq(Formatters)
<1>1. \A f \in Formatters \ Chains : f # "strip" => f \in Writers
  BY DEF Formatters, Chains, Writers
<1>2. /\ <<"newline", "scope">> \in Seq(Formatters)
      /\ <<"sgr", "header", "message", "newline", "scope", "reset">>
             \in Seq(Formatters)
  BY DEF Formatters, Chains
<1>3. \A f \in Chains : Chain(f) \in Seq(Formatters)
  BY <1>2 DEF Chain, Chains
<1>4. QED
  BY <1>1, <1>3

LEMMA OutputTypes ==
    ASSUME TypeOK, NEW f \in Writers, NEW s
    PROVE  Uncoloured(f, s) \in Seq(Chars) /\ Output(f) \in Seq(Chars)
<1>1. /\ case.header \in Seq(Chars) /\ case.message \in Seq(Chars)
      /\ case.scopes \in Seq(Chars)
      /\ <<>> \in Seq(Chars) /\ <<"nl">> \in Seq(Chars)
  BY CaseTypes DEF TypeOK, Chars
<1>2. \A r : Uncoloured(f, r) \in Seq(Chars)
  BY <1>1 DEF Uncoloured, Writers
<1>3. reset_sgr \in Seq(Chars) /\ sgr(case.level) \in Seq(Chars)
  BY SgrType, ResetIsColour DEF TypeOK
<1>4. Output(f) \in Seq(Chars)
  <2>1. Output(f) \in {sgr(case.level), reset_sgr, Uncoloured(f, text)}
    BY DEF Output, Writers
  <2>2. QED
    BY <1>2, <1>3, <2>1
<1>5. QED
  BY <1>2, <1>4

\* What a formatter writes is what it would write without colours, and colours.
LEMMA OutputComes ==
    ASSUME TypeOK, PlainTable, NEW f \in Writers, Comes(bare, text)
    PROVE  Comes(bare \o Uncoloured(f, text), text \o Output(f))
<1>1. bare \in Seq(Chars) /\ text \in Seq(Chars)
  BY DEF TypeOK
<1>2. CASE f \in {"sgr", "reset"}
  <2> DEFINE c == Output(f)
  <2>1. c \in Seq(Chars)
    BY OutputTypes
  <2>2. Uncoloured(f, text) = <<>> /\ bare \o <<>> = bare
    BY <1>1, <1>2 DEF Uncoloured
  <2>3. CASE c = <<>>
    BY <1>1, <2>2, <2>3
  <2>4. CASE c # <<>>
    <3>1. c = sgr(case.level) \/ c = reset_sgr
      BY <1>2 DEF Output
    <3>2. <<1, Len(c)>> \in ColoursOf(c)
      BY <2>4, <3>1, SgrIsColour, ResetIsColour DEF TypeOK
    <3> HIDE DEF c
    <3>3. Comes(bare, text \o c)
      BY <1>1, <2>1, <3>2, ColourAppended
    <3>4. QED
      BY <2>2, <3>3 DEF c
  <2>5. QED
    BY <2>3, <2>4
<1>3. CASE f \notin {"sgr", "reset"}
  <2> DEFINE u == Uncoloured(f, text)
  <2>1. Output(f) = u /\ u \in Seq(Chars)
    BY <1>3, OutputTypes DEF Output
  <2> HIDE DEF u
  <2>2. Comes(bare \o u, text \o u)
    BY <1>1, <2>1, BothAppended
  <2>3. QED
    BY <2>1, <2>2 DEF u
<1>4. QED
  BY <1>2, <1>3
------------------------------------------------------------------------------
(* Newlines: those of the text, which may follow a colour, against those    *)
(* the template would write without colours.                                *)

\* p is b without some of the newlines that end an empty line.
Spaced(p, b) ==
    \E extra \in SUBSET BlankNewlines(b) :
        \E f : Lifts(f, p, b, (DOMAIN b) \ extra)

EndsLine(s) == s = <<>> \/ s[Len(s)] = "nl"

\* Either both are at the beginning of a line or neither.
SameEnd(p, b) ==
    /\ EndsLine(p) <=> EndsLine(b)
    /\ NewlineIfEmpty => (p = <<>> <=> b = <<>>)

LEMMA EmptySpaced == Spaced(<<>>, <<>>) /\ SameEnd(<<>>, <<>>)
<1>1. Lifts([i \in 1 .. 0 |-> i], <<>>, <<>>, (DOMAIN <<>>) \ {})
  BY DEF Lifts, Embedding
<1>2. {} \in SUBSET BlankNewlines(<<>>)
  OBVIOUS
<1>3. QED
  BY <1>1, <1>2 DEF Spaced, SameEnd

LEMMA BlankDef ==
    ASSUME NEW s \in Seq(Chars)
    PROVE  /\ BlankNewlines(s) \subseteq 1 .. Len(s)
           /\ \A i \in 1 .. Len(s) :
                i \in BlankNewlines(s)
                    <=> s[i] = "nl" /\ (i > 1 => s[i - 1] = "nl")
BY DEF BlankNewlines

LEMMA BlankOfPrefix ==
    ASSUME NEW s \in Seq(Chars), NEW u \in Seq(Chars)
    PROVE  BlankNewlines(s) \subseteq BlankNewlines(s \o u)
<1> DEFINE w == s \o u
<1>1. /\ w \in Seq(Chars) /\ Len(w) = Len(s) + Len(u)
      /\ Len(s) \in Nat /\ Len(u) \in Nat
      /\ \A i \in 1 .. Len(s) : w[i] = s[i]
  BY Concatenation
<1> HIDE DEF w
<1>2. ASSUME NEW i \in BlankNewlines(s) PROVE i \in BlankNewlines(w)
  <2>1. /\ i \in 1 .. Len(s) /\ s[i] = "nl"
        /\ i > 1 => i - 1 \in 1 .. Len(s) /\ s[i - 1] = "nl"
    BY <1>1, BlankDef
  <2>2. /\ i \in 1 .. Len(w) /\ w[i] = "nl"
        /\ i > 1 => w[i - 1] = "nl"
    BY <1>1, <2>1
  <2>3. QED
    BY <1>1, <2>2, BlankDef
<1>3. QED
  BY <1>2 DEF w

LEMMA BothSpaced ==
    ASSUME NEW p \in Seq(Chars), NEW b \in Seq(Chars), NEW u \in Seq(Chars),
           Spaced(p, b)
    PROVE  Spaced(p \o u, b \o u)
<1>1. PICK extra \in SUBSET BlankNewlines(b) :
          \E f : Lifts(f, p, b, (DOMAIN b) \ extra)
  BY DEF Spaced
<1> DEFINE K == (DOMAIN b) \ extra
           L == Len(b) + 1 .. Len(b) + Len(u)
<1>2. K \cup L = (DOMAIN (b \o u)) \ extra
  <2>1. extra \subseteq 1 .. Len(b)
    BY BlankDef
  <2>2. DOMAIN b = 1 .. Len(b) /\ DOMAIN (b \o u) = 1 .. Len(b) + Len(u)
        /\ Len(b) \in Nat /\ Len(u) \in Nat
    OBVIOUS
  <2>3. QED
    BY <2>1, <2>2
<1>3. K \in SUBSET (1 .. Len(b))
  OBVIOUS
<1>4. \E g : Lifts(g, p \o u, b \o u, K \cup L)
  BY <1>1, <1>3, AppendLifts
<1>5. extra \in SUBSET BlankNewlines(b \o u)
  BY BlankOfPrefix
<1>6. QED
  BY <1>2, <1>4, <1>5 DEF Spaced

LEMMA NewlineSpaced ==
    ASSUME NEW p \in Seq(Chars), NEW b \in Seq(Chars), Spaced(p, b),
           EndsLine(b)
    PROVE  Spaced(p, b \o <<"nl">>)
<1> DEFINE u == <<"nl">>
           w == b \o u
           a == Len(b) + 1
<1>0. u \in Seq(Chars) /\ Len(u) = 1 /\ u[1] = "nl"
  BY DEF Chars
<1> HIDE DEF u
<1>1. /\ w \in Seq(Chars) /\ Len(w) = a /\ Len(b) \in Nat /\ a \in Nat
      /\ \A i \in 1 .. Len(b) : w[i] = b[i]
      /\ w[a] = "nl"
  BY <1>0, Concatenation
<1>2. PICK extra \in SUBSET BlankNewlines(b) :
          \E f : Lifts(f, p, b, (DOMAIN b) \ extra)
  BY DEF Spaced
<1>3. PICK f : Lifts(f, p, b, (DOMAIN b) \ extra)
  BY <1>2
<1> DEFINE more == extra \cup {a}
<1>4. more \in SUBSET BlankNewlines(w)
  <2>1. extra \subseteq BlankNewlines(w)
    BY <1>0, BlankOfPrefix
  <2>2. a > 1 => w[a - 1] = "nl"
    <3>1. ASSUME a > 1 PROVE w[a - 1] = "nl"
      <4>1. a - 1 = Len(b) /\ Len(b) \in 1 .. Len(b) /\ b # <<>>
        BY <1>1, <3>1
      <4>2. b[Len(b)] = "nl"
        BY <4>1 DEF EndsLine
      <4>3. QED
        BY <1>1, <4>1, <4>2
    <3>2. QED
      BY <3>1
  <2>3. a \in 1 .. Len(w)
    BY <1>1
  <2> HIDE DEF w, a
  <2>4. a \in BlankNewlines(w)
    BY <1>1, <2>2, <2>3, BlankDef
  <2>5. QED
    BY <2>1, <2>4
<1>5. (DOMAIN w) \ more = (DOMAIN b) \ extra
  <2>1. DOMAIN w = 1 .. a /\ DOMAIN b = 1 .. Len(b)
    BY <1>1
  <2> HIDE DEF w
  <2>2. QED
    BY <1>1, <2>1
<1>6. Lifts(f, p, w, (DOMAIN b) \ extra)
  <2>1. /\ Embedding(f, Len(p), (DOMAIN b) \ extra)
        /\ \A i \in 1 .. Len(p) : p[i] = b[f[i]]
    BY <1>3 DEF Lifts
  <2>2. \A i \in 1 .. Len(p) : f[i] \in 1 .. Len(b)
    BY <2>1 DEF Embedding
  <2> HIDE DEF w
  <2>3. QED
    BY <1>1, <2>1, <2>2 DEF Lifts
<1> HIDE DEF w, more
<1>7. Spaced(p, w)
  BY <1>4, <1>5, <1>6 DEF Spaced
<1>8. QED
  BY <1>7 DEF w, u

LEMMA EndAppended ==
    ASSUME NEW s \in Seq(Chars), NEW u \in Seq(Chars), u # <<>>
    PROVE  s \o u # <<>> /\ (EndsLine(s \o u) <=> u[Len(u)] = "nl")
<1> DEFINE w == s \o u
<1>1. /\ Len(w) = Len(s) + Len(u) /\ Len(s) \in Nat /\ Len(u) \in Nat
      /\ \A i \in 1 .. Len(u) : w[Len(s) + i] = u[i]
  BY Concatenation
<1>2. Len(u) \in 1 .. Len(u)
  OBVIOUS
<1>3. w[Len(w)] = u[Len(u)] /\ Len(w) # 0
  BY <1>1, <1>2
<1>4. w # <<>>
  BY <1>3
<1> HIDE DEF w
<1>5. EndsLine(w) <=> u[Len(u)] = "nl"
  BY <1>3, <1>4 DEF EndsLine
<1>6. QED
  BY <1>4, <1>5 DEF w

LEMMA SameEndAppended ==
    ASSUME NEW p \in Seq(Chars), NEW b \in Seq(Chars), NEW u \in Seq(Chars),
           SameEnd(p, b)
    PROVE  SameEnd(p \o u, b \o u)
<1>1. CASE u = <<>>
  <2>1. p \o <<>> = p /\ b \o <<>> = b
    OBVIOUS
  <2>2. QED
    BY <1>1, <2>1
<1>2. CASE u # <<>>
  <2>1. /\ p \o u # <<>> /\ b \o u # <<>>
        /\ EndsLine(p \o u) <=> u[Len(u)] = "nl"
        /\ EndsLine(b \o u) <=> u[Len(u)] = "nl"
    BY <1>2, EndAppended
  <2>2. QED
    BY <2>1 DEF SameEnd
<1>3. QED
  BY <1>1, <1>2

\* A newline at the end of the text is one at the end of what remains without
\* colours.
LEMMA EndRemains ==
    ASSUME NEW t \in Seq(Chars), NEW s \in Seq(Chars), Comes(t, s),
           EndsLine(s)
    PROVE  EndsLine(t) /\ (s # <<>> => t # <<>>)
<1>1. PICK ins \in SUBSET ColoursOf(s) : \E f : Lifts(f, t, s, Without(s, ins))
  BY DEF Comes
<1>2. PICK f : Lifts(f, t, s, Without(s, ins))
  BY <1>1
<1> DEFINE K == Without(s, ins)
<1>3. Embedding(f, Len(t), K) /\ \A i \in 1 .. Len(t) : t[i] = s[f[i]]
  BY <1>2 DEF Lifts
<1>4. Len(t) \in Nat /\ Len(s) \in Nat /\ K \subseteq 1 .. Len(s)
  BY InWithout
<1>5. CASE s = <<>>
  <2>1. K = {}
    BY <1>4, <1>5
  <2>2. \A i \in 1 .. Len(t) : f[i] \in K
    BY <1>3 DEF Embedding
  <2> HIDE DEF K
  <2>3. Len(t) = 0
    BY <1>4, <2>1, <2>2
  <2>4. t = <<>>
    BY <2>3
  <2>5. QED
    BY <1>5, <2>4 DEF EndsLine
<1>6. CASE s # <<>>
  <2> DEFINE N == Len(s)
  <2>1. N \in 1 .. Len(s) /\ s[N] = "nl"
    BY <1>6 DEF EndsLine
  <2>2. \A c \in ins : N \notin c[1] .. c[2]
    <3>1. ASSUME NEW c \in ins, N \in c[1] .. c[2] PROVE FALSE
      <4>1. c[2] \in 1 .. Len(s) /\ c[1] \in 1 .. Len(s) /\ s[c[2]] = "m"
        BY ColourDef
      <4>2. c[2] = N
        BY <1>4, <3>1, <4>1
      <4>3. QED
        BY <2>1, <4>1, <4>2
    <3>2. QED
      BY <3>1
  <2>3. N \in K
    BY <2>1, <2>2, InPositions, InWithout
  <2>4. PICK i \in 1 .. Len(t) : f[i] = N
    BY <1>3, <2>3 DEF Embedding
  <2>5. Len(t) \in 1 .. Len(t)
    BY <1>4, <2>4
  <2>6. f[Len(t)] \in K /\ f[Len(t)] \in 1 .. N
    BY <1>3, <1>4, <2>5 DEF Embedding
  <2>7. ~ i < Len(t)
    <3>1. i < Len(t) => f[i] < f[Len(t)]
      BY <1>3, <2>5 DEF Embedding
    <3>2. QED
      BY <1>4, <2>4, <2>6, <3>1
  <2>8. i = Len(t)
    BY <1>4, <2>4, <2>7
  <2>9. t[Len(t)] = "nl"
    BY <1>3, <2>1, <2>4, <2>8
  <2>10. t # <<>>
    BY <1>4, <2>4
  <2>11. QED
    BY <2>9, <2>10 DEF EndsLine
<1>7. QED
  BY <1>5, <1>6

LEMMA AtLineStartIs ==
    ASSUME NEW s
    PROVE  AtLineStart(s) <=> EndsLine(s) /\ (NewlineIfEmpty => s # <<>>)
BY DEF AtLineStart, EndsLine

\* Whatever the formatter decides, the two texts differ by empty lines only.
LEMMA WriteKeepsSpaced ==
    ASSUME TypeOK, NEW f \in Writers, Comes(bare, text),
           Spaced(plain, bare), SameEnd(plain, bare)
    PROVE  LET p == plain \o Uncoloured(f, plain)
               b == bare \o Uncoloured(f, text)
           IN  Spaced(p, b) /\ SameEnd(p, b)
<1> DEFINE u == Uncoloured(f, text)
           v == Uncoloured(f, plain)
<1>1. /\ bare \in Seq(Chars) /\ plain \in Seq(Chars) /\ text \in Seq(Chars)
      /\ u \in Seq(Chars) /\ v \in Seq(Chars)
  BY OutputTypes DEF TypeOK
<1>2. CASE u = v
  <2> HIDE DEF u, v
  <2>1. Spaced(plain \o u, bare \o u) /\ SameEnd(plain \o u, bare \o u)
    BY <1>1, BothSpaced, SameEndAppended
  <2>2. QED
    BY <1>2, <2>1 DEF u, v
<1>3. CASE u # v
  <2>1. f = "newline" /\ ScopeShown
    BY <1>3 DEF Uncoloured, Writers
  <2>2. /\ u = IF AtLineStart(text) THEN <<>> ELSE <<"nl">>
        /\ v = IF AtLineStart(plain) THEN <<>> ELSE <<"nl">>
    BY <2>1 DEF Uncoloured
  <2>3. AtLineStart(text) => AtLineStart(plain)
    <3>1. ASSUME AtLineStart(text) PROVE AtLineStart(plain)
      <4>1. EndsLine(text) /\ (NewlineIfEmpty => text # <<>>)
        BY <3>1, AtLineStartIs
      <4>2. EndsLine(bare)
        BY <1>1, <4>1, EndRemains
      <4>3. EndsLine(plain)
        BY <4>2 DEF SameEnd
      <4>4. NewlineIfEmpty => plain # <<>>
        <5>1. ASSUME NewlineIfEmpty, plain = <<>> PROVE FALSE
          <6>1. bare = <<>>
            BY <5>1 DEF SameEnd
          <6>2. bare # <<>>
            BY <1>1, <4>1, <5>1, EndRemains
          <6>3. QED
            BY <6>1, <6>2
        <5>2. QED
          BY <5>1
      <4>5. QED
        BY <4>3, <4>4, AtLineStartIs
    <3>2. QED
      BY <3>1
  <2>4. u = <<"nl">> /\ v = <<>> /\ AtLineStart(plain)
    BY <1>3, <2>2, <2>3
  <2>5. EndsLine(plain) /\ (NewlineIfEmpty => plain # <<>>)
    BY <2>4, AtLineStartIs
  <2>6. EndsLine(bare)
    BY <2>5 DEF SameEnd
  <2>7. Spaced(plain, bare \o <<"nl">>)
    BY <1>1, <2>6, NewlineSpaced
  <2>8. bare \o <<"nl">> # <<>> /\ EndsLine(bare \o <<"nl">>)
    <3>1. <<"nl">> \in Seq(Chars) /\ <<"nl">> # <<>>
          /\ <<"nl">>[Len(<<"nl">>)] = "nl"
      BY DEF Chars
    <3>2. QED
      BY <1>1, <3>1, EndAppended
  <2>9. SameEnd(plain, bare \o <<"nl">>)
    BY <2>5, <2>8 DEF SameEnd
  <2>10. plain \o <<>> = plain
    BY <1>1
  <2>11. QED
    BY <2>4, <2>7, <2>9, <2>10
<1>4. QED
  BY <1>2, <1>3

\* The empty lines hide no colour and make none.
LEMMA NoColourBetween ==
    ASSUME NEW p \in Seq(Chars), NEW b \in Seq(Chars), Spaced(p, b),
           ColoursOf(p) = {}
    PROVE  ColoursOf(b) = {}
<1>1. PICK extra \in SUBSET BlankNewlines(b) :
          \E f : Lifts(f, p, b, (DOMAIN b) \ extra)
  BY DEF Spaced
<1>2. PICK f : Lifts(f, p, b, (DOMAIN b) \ extra)
  BY <1>1
<1> DEFINE K == (DOMAIN b) \ extra
<1>3. ASSUME NEW c \in ColoursOf(b) PROVE FALSE
  <2>1. /\ c[1] \in 1 .. Len(b) /\ c[2] \in 1 .. Len(b)
        /\ b[c[1]] = "esc" /\ b[c[1] + 1] = "[" /\ b[c[2]] = "m"
        /\ \A i \in c[1] + 2 .. c[2] - 1 : b[i] = "d"
    BY ColourDef
  <2>2. ASSUME NEW i \in c[1] .. c[2] PROVE i \in K
    <3>1. \/ i = c[1] \/ i = c[1] + 1 \/ i = c[2]
          \/ i \in c[1] + 2 .. c[2] - 1
      BY <2>1
    <3>2. b[i] # "nl"
      BY <2>1, <3>1
    <3>3. i \in 1 .. Len(b) /\ i \notin BlankNewlines(b)
      BY <2>1, <3>2, BlankDef
    <3>4. QED
      BY <3>3
  <2>3. K \in SUBSET Int /\ c[1] .. c[2] \subseteq K
    BY <2>2
  <2> HIDE DEF K
  <2>4. Lifts(f, p, b, K)
    BY <1>2 DEF K
  <2>5. \E e \in ColoursOf(p) : TRUE
    BY <2>3, <2>4, ColourRemains
  <2>6. QED
    BY <2>5
<1>4. QED
  BY <1>3
------------------------------------------------------------------------------
(* The invariant.                                                           *)

\* The text of which %SGR(mode=strip)% makes the next one.
Whole == IF pc \in {"first", "next"} THEN original ELSE text

\* The text is the uncoloured one with colours put in, and that is the one
\* without any %SGR% with empty lines put in.
PlainInv ==
    (PlainTable /\ ColoursOf(plain) = {}) =>
        Comes(bare, Whole) /\ Spaced(plain, bare) /\ SameEnd(plain, bare)

\* Only scopes begin on a line of their own.
ScopeInv == ~ScopeShown => plain = bare

\* Nothing is written before the formatters are made.
StartInv ==
    pc \in {"configure", "thrown"} =>
        bare = <<>> /\ plain = <<>> /\ text = <<>>

\* Of the entries assigned so far, the last with the name of o has its colour.
Assigned(o) ==
    \/ /\ table[o] = <<>>
       /\ \A j \in 1 .. assigned : case.sgr[j].name # to_string(o)
    \/ \E j \in 1 .. assigned :
          /\ case.sgr[j].name = to_string(o)
          /\ table[o] = case.sgr[j].colour
          /\ \A k \in j + 1 .. assigned : case.sgr[k].name # to_string(o)

\* The part of the section that has been read is in the table.
TableInv ==
    (case.sgr # NoSection /\ pc # "thrown") =>
        /\ assigned \in 0 .. Len(case.sgr)
        /\ pc # "configure" => assigned = Len(case.sgr)
        /\ \A o \in Ordinals : Assigned(o)

IInv ==
    /\ TypeOK
    /\ StripInv
    /\ DoneInv
    /\ PlainInv
    /\ ScopeInv
    /\ StrippedIsPlain
    /\ StartInv
    /\ TableInv

LEMMA FromString ==
    ASSUME NEW str, NEW o \in Ordinals
    PROVE  o \in from_string(str) <=> str = to_string(o)
<1>1. o \in 0 .. 5 /\ o + 1 \in 1 .. 6
  BY DEF Ordinals
<1>2. DOMAIN level_str = 1 .. 6
  BY DEF level_str
<1>3. o \in from_string(str)
          <=> \E i \in 1 .. 6 : level_str[i] = str /\ o = i - 1
  BY <1>2 DEF from_string
<1>4. \A i \in 1 .. 6 : o = i - 1 <=> i = o + 1
  BY <1>1
<1>5. QED
  BY <1>1, <1>3, <1>4 DEF to_string

LEMMA AssignKeepsTable ==
    ASSUME TypeOK, TableInv, Assign
    PROVE  TableInv' /\ table' \in [Ordinals -> Seq(Chars)] /\ assigned' \in Nat
<1>1. /\ pc = "configure" /\ case.sgr # NoSection /\ assigned < Len(case.sgr)
      /\ case' = case /\ assigned \in Nat
      /\ table \in [Ordinals -> Seq(Chars)]
  BY DEF Assign, TypeOK
<1> DEFINE sgrs == case.sgr
           entry == sgrs[assigned + 1]
<1>2. /\ sgrs \in Seq([name : STRING, colour : Seq(Chars)])
      /\ Len(sgrs) \in Nat
  BY <1>1, CaseTypes DEF TypeOK
<1>3. assigned + 1 \in 1 .. Len(sgrs) /\ entry.colour \in Seq(Chars)
  <2>1. assigned + 1 \in 1 .. Len(sgrs)
    BY <1>1, <1>2
  <2> HIDE DEF sgrs
  <2>2. entry \in [name : STRING, colour : Seq(Chars)]
    BY <1>2, <2>1, ElementOfSeq
  <2>3. QED
    BY <2>1, <2>2
<1>4. CASE from_string(entry.name) = {}
  <2>1. pc' = "thrown" /\ table' = table /\ assigned' = assigned
    BY <1>4 DEF Assign
  <2>2. QED
    BY <1>1, <2>1 DEF TableInv
<1>5. CASE from_string(entry.name) # {}
  <2>1. /\ table' = [i \in Ordinals |-> IF i \in from_string(entry.name)
                                        THEN entry.colour ELSE table[i]]
        /\ assigned' = assigned + 1 /\ pc' = pc
    BY <1>5 DEF Assign
  <2>2. table' \in [Ordinals -> Seq(Chars)] /\ assigned' \in Nat
    BY <1>1, <1>3, <2>1
  <2>3. ASSUME NEW o \in Ordinals PROVE Assigned(o)'
    <3> DEFINE named(j) == sgrs[j].name = to_string(o)
    <3>1. Assigned(o)' <=>
            \/ table'[o] = <<>> /\ \A j \in 1 .. assigned + 1 : ~ named(j)
            \/ \E j \in 1 .. assigned + 1 :
                  /\ named(j) /\ table'[o] = sgrs[j].colour
                  /\ \A k \in j + 1 .. assigned + 1 : ~ named(k)
      BY <1>1, <2>1 DEF Assigned, to_string
    <3>2. \/ table[o] = <<>> /\ \A j \in 1 .. assigned : ~ named(j)
          \/ \E j \in 1 .. assigned :
                /\ named(j) /\ table[o] = sgrs[j].colour
                /\ \A k \in j + 1 .. assigned : ~ named(k)
      BY <1>1 DEF TableInv, Assigned
    <3>3. CASE named(assigned + 1)
      <4>1. table'[o] = entry.colour
        BY <2>1, <3>3, FromString
      <4>2. /\ assigned + 1 \in 1 .. assigned + 1
            /\ \A k \in (assigned + 1) + 1 .. assigned + 1 : FALSE
        BY <1>1
      <4> HIDE DEF named, sgrs
      <4>3. QED
        BY <3>1, <3>3, <4>1, <4>2
    <3>4. CASE ~ named(assigned + 1)
      <4>1. table'[o] = table[o]
        BY <2>1, <3>4, FromString
      <4>2. \A j \in 1 .. assigned + 1 :
                j \in 1 .. assigned \/ j = assigned + 1
        BY <1>1
      <4>3. \A j \in 1 .. assigned : j \in 1 .. assigned + 1
        BY <1>1
      <4>4. \A j \in 1 .. assigned : \A k \in j + 1 .. assigned + 1 :
                k \in j + 1 .. assigned \/ k = assigned + 1
        BY <1>1
      <4> HIDE DEF named, sgrs
      <4>5. QED
        BY <3>1, <3>2, <3>4, <4>1, <4>2, <4>3, <4>4
    <3>5. QED
      BY <3>3, <3>4
  <2>4. assigned + 1 \in 0 .. Len(sgrs)
    BY <1>1, <1>2
  <2>5. QED
    BY <1>1, <2>1, <2>2, <2>3, <2>4 DEF TableInv
<1>6. QED
  BY <1>4, <1>5

\* Before there is a text nothing has been coloured.
LEMMA EmptyComes == Comes(<<>>, <<>>)
<1>1. <<>> \in Seq(Chars)
  OBVIOUS
<1>2. Lifts([i \in 1 .. Len(<<>>) |-> i], <<>>, <<>>, Without(<<>>, {}))
  BY <1>1, ComesFromItself
<1>3. {} \in SUBSET ColoursOf(<<>>)
  OBVIOUS
<1>4. QED
  BY <1>2, <1>3 DEF Comes

LEMMA AssignKeeps ==
    ASSUME IInv, Assign
    PROVE  IInv'
<1>1. /\ pc = "configure" /\ pc' \in {"configure", "thrown"}
      /\ case' = case /\ todo' = todo /\ bare' = bare /\ plain' = plain
      /\ original' = original /\ text' = text
      /\ first' = first /\ second' = second /\ scan' = scan
  BY DEF Assign
<1>2. /\ TableInv' /\ table' \in [Ordinals -> Seq(Chars)] /\ assigned' \in Nat
  BY AssignKeepsTable DEF IInv
<1>3. TypeOK'
  BY <1>1, <1>2 DEF IInv, TypeOK
<1>4. bare = <<>> /\ plain = <<>> /\ text = <<>>
  BY <1>1 DEF IInv, StartInv
<1>5. StartInv'
  BY <1>1, <1>4 DEF StartInv
<1>6. PlainInv'
  <2>1. Whole' = <<>> /\ bare' = <<>> /\ plain' = <<>>
    BY <1>1, <1>4 DEF Whole
  <2>2. Comes(<<>>, <<>>) /\ Spaced(<<>>, <<>>) /\ SameEnd(<<>>, <<>>)
    BY EmptyComes, EmptySpaced
  <2>3. QED
    BY <2>1, <2>2, Zenon DEF PlainInv
<1>7. StripInv' /\ DoneInv' /\ StrippedIsPlain' /\ ScopeInv'
  BY <1>1, <1>4 DEF StripInv, DoneInv, StrippedIsPlain, ScopeInv
<1>8. QED
  BY <1>2, <1>3, <1>5, <1>6, <1>7 DEF IInv

LEMMA ConfigureKeeps ==
    ASSUME IInv, Configure
    PROVE  IInv'
<1> DEFINE made == [i \in DOMAIN case.template |->
                       create_formatter(case.template[i])]
<1>1. /\ pc = "configure" /\ pc' \in {"format", "thrown"}
      /\ case.sgr # NoSection => assigned = Len(case.sgr)
      /\ table' = IF case.sgr = NoSection
                  THEN [i \in Ordinals |-> DefaultColour] ELSE table
      /\ case' = case /\ assigned' = assigned
      /\ bare' = bare /\ plain' = plain
      /\ original' = original /\ text' = text
      /\ first' = first /\ second' = second /\ scan' = scan
  BY DEF Configure
<1>2. TypeOK
  BY DEF IInv
<1>3. table' \in [Ordinals -> Seq(Chars)]
  BY <1>1, <1>2 DEF TypeOK, DefaultColour, Chars
<1>4. todo' \in Seq(Formatters)
  <2>1. /\ case.template \in Seq([name : Names, arg : STRING])
        /\ Len(case.template) \in Nat
        /\ DOMAIN case.template = 1 .. Len(case.template)
    BY <1>2, CaseTypes DEF TypeOK
  <2>2. \A i \in 1 .. Len(case.template) : case.template[i].name \in Names
    <3> DEFINE items == case.template
    <3>1. items \in Seq([name : Names, arg : STRING])
      BY <2>1
    <3> HIDE DEF items
    <3>2. \A i \in 1 .. Len(items) : items[i] \in [name : Names, arg : STRING]
      BY <3>1, ElementOfSeq
    <3>3. \A i \in 1 .. Len(items) : items[i].name \in Names
      BY <3>2
    <3>4. QED
      BY <3>3 DEF items
  <2>3. \A i \in 1 .. Len(case.template) :
            made[i] \in Formatters \cup {Invalid}
    BY <2>1, <2>2, CreateType
  <2>4. CASE \E i \in DOMAIN made : made[i] = Invalid
    <3>1. todo' = <<>>
      BY <2>4 DEF Configure
    <3>2. QED
      BY <3>1
  <2>5. CASE ~ \E i \in DOMAIN made : made[i] = Invalid
    <3>1. todo' = made
      BY <2>5 DEF Configure
    <3>2. DOMAIN made = 1 .. Len(case.template)
      BY <2>1
    <3>3. \A i \in 1 .. Len(case.template) : made[i] \in Formatters
      BY <2>3, <2>5, <3>2
    <3>4. made \in [1 .. Len(case.template) -> Formatters]
      BY <3>2, <3>3
    <3> HIDE DEF made
    <3>5. QED
      BY <2>1, <3>1, <3>4
  <2>6. QED
    BY <2>4, <2>5
<1>5. TypeOK'
  BY <1>1, <1>2, <1>3, <1>4 DEF TypeOK
<1>6. bare = <<>> /\ plain = <<>> /\ text = <<>>
  BY <1>1 DEF IInv, StartInv
<1>7. StartInv'
  BY <1>1, <1>6 DEF StartInv
<1>8. PlainInv'
  <2>1. Whole' = <<>> /\ bare' = <<>> /\ plain' = <<>>
    BY <1>1, <1>6 DEF Whole
  <2>2. Comes(<<>>, <<>>) /\ Spaced(<<>>, <<>>) /\ SameEnd(<<>>, <<>>)
    BY EmptyComes, EmptySpaced
  <2>3. QED
    BY <2>1, <2>2, Zenon DEF PlainInv
<1>9. StripInv' /\ DoneInv' /\ StrippedIsPlain' /\ ScopeInv'
  BY <1>1, <1>6 DEF StripInv, DoneInv, StrippedIsPlain, ScopeInv
<1>10. TableInv'
  <2>1. CASE case.sgr = NoSection
    BY <1>1, <2>1 DEF TableInv
  <2>2. CASE case.sgr # NoSection
    <3>1. table' = table
      BY <1>1, <2>2
    <3>2. /\ assigned \in 0 .. Len(case.sgr)
          /\ \A o \in Ordinals : Assigned(o)
      BY <1>1, <2>2 DEF IInv, TableInv
    <3>3. \A o \in Ordinals : Assigned(o)'
      BY <1>1, <3>1, <3>2 DEF Assigned, to_string
    <3>4. QED
      BY <1>1, <3>2, <3>3 DEF TableInv
  <2>3. QED
    BY <2>1, <2>2
<1>11. QED
  BY <1>5, <1>7, <1>8, <1>9, <1>10 DEF IInv

LEMMA TableKept ==
    ASSUME TableInv, UNCHANGED <<case, table, assigned>>,
           pc \notin {"configure", "thrown"}, pc' \notin {"configure", "thrown"}
    PROVE  TableInv'
BY DEF TableInv, Assigned, to_string

LEMMA ChainKeeps ==
    ASSUME IInv, CallChain
    PROVE  IInv'
<1>1. /\ pc \in {"format", "done"} /\ todo # <<>> /\ Head(todo) \in Chains
      /\ todo' = Chain(Head(todo)) \o Tail(todo) /\ todo \in Seq(Formatters)
      /\ case' = case /\ table' = table /\ assigned' = assigned
      /\ bare' = bare /\ plain' = plain /\ original' = original
      /\ text' = text /\ first' = first /\ second' = second
      /\ scan' = scan /\ pc' = pc
  BY DEF CallChain, stripVars, IInv, TypeOK
<1>2. todo' \in Seq(Formatters)
  <2>1. Tail(todo) \in Seq(Formatters)
    BY <1>1
  <2>2. Chain(Head(todo)) \in Seq(Formatters)
    BY <1>1, WritersAre
  <2>3. QED
    BY <1>1, <2>1, <2>2
<1>3. TypeOK'
  BY <1>1, <1>2 DEF IInv, TypeOK
<1>4. StripInv' /\ DoneInv'
  BY <1>1 DEF IInv, StripInv, DoneInv, Regular, Colours
<1>5. PlainInv' /\ ScopeInv' /\ StrippedIsPlain' /\ StartInv'
  BY <1>1 DEF IInv, PlainInv, PlainTable, Whole, ScopeInv, ScopeShown,
              StrippedIsPlain, Regular, StartInv
<1>6. TableInv'
  BY <1>1, TableKept DEF IInv
<1>7. QED
  BY <1>3, <1>4, <1>5, <1>6 DEF IInv

LEMMA CallKeeps ==
    ASSUME IInv, CallFormatter
    PROVE  IInv'
<1> DEFINE f == Head(todo)
<1>1. /\ pc \in {"format", "done"} /\ todo # <<>> /\ todo' = Tail(todo)
      /\ f \notin Chains
      /\ case' = case /\ table' = table /\ assigned' = assigned
      /\ TypeOK /\ TableInv /\ PlainInv /\ ScopeInv
  BY DEF CallFormatter, IInv
<1>2. f \in Formatters /\ todo' \in Seq(Formatters)
  <2>1. todo \in Seq(Formatters)
    BY <1>1 DEF TypeOK
  <2>2. QED
    BY <1>1, <2>1
<1>3. (PlainTable' <=> PlainTable) /\ (ScopeShown' <=> ScopeShown)
  BY <1>1 DEF PlainTable, ScopeShown
<1>4. Whole = text
  BY <1>1 DEF Whole
<1>5. CASE f = "strip"
  <2>1. Call /\ bare' = bare /\ plain' = plain
    BY <1>5 DEF CallFormatter
  <2>2. /\ original' = text /\ text' = text /\ pc' = "first"
        /\ first' = 1 /\ second' = 1 /\ scan' = 1
    BY <2>1 DEF Call
  <2>3. TypeOK'
    BY <1>1, <1>2, <2>1, <2>2 DEF TypeOK
  <2>4. StripInv'
    BY <1>1, <2>1, CallStrips DEF TypeOK, StripTypes
  <2>5. PlainInv' /\ ScopeInv'
    <3>1. Whole' = Whole
      BY <1>4, <2>2 DEF Whole
    <3>2. QED
      BY <1>1, <1>3, <2>1, <3>1 DEF PlainInv, ScopeInv
  <2>6. DoneInv' /\ StrippedIsPlain' /\ StartInv'
    BY <2>2 DEF DoneInv, StrippedIsPlain, StartInv
  <2>7. TableInv'
    BY <1>1, <2>2, TableKept
  <2>8. QED
    BY <2>3, <2>4, <2>5, <2>6, <2>7 DEF IInv
<1>6. CASE f # "strip"
  <2>1. Write(f)
    BY <1>6 DEF CallFormatter
  <2>2. /\ text' = text \o Output(f)
        /\ bare' = bare \o Uncoloured(f, text)
        /\ plain' = plain \o Uncoloured(f, plain)
        /\ pc' = "format" /\ original' = original
        /\ first' = first /\ second' = second /\ scan' = scan
    BY <2>1 DEF Write
  <2>3. f \in Writers
    BY <1>1, <1>2, <1>6, WritersAre
  <2> HIDE DEF f
  <2>4. /\ Output(f) \in Seq(Chars) /\ Uncoloured(f, text) \in Seq(Chars)
        /\ Uncoloured(f, plain) \in Seq(Chars)
    BY <1>1, <2>3, OutputTypes
  <2>5. text \in Seq(Chars) /\ bare \in Seq(Chars) /\ plain \in Seq(Chars)
    BY <1>1 DEF TypeOK
  <2>6. text' \in Seq(Chars) /\ bare' \in Seq(Chars) /\ plain' \in Seq(Chars)
    BY <2>2, <2>4, <2>5
  <2>7. TypeOK'
    BY <1>1, <1>2, <2>2, <2>6 DEF TypeOK
  <2>8. PlainInv'
    <3>1. ASSUME PlainTable, ColoursOf(plain') = {}
          PROVE  /\ Comes(bare', text')
                 /\ Spaced(plain', bare') /\ SameEnd(plain', bare')
      <4>1. ColoursOf(plain) = {}
        BY <2>2, <2>4, <2>5, <3>1, ColoursOfPrefix
      <4>2. /\ Comes(bare, text)
            /\ Spaced(plain, bare) /\ SameEnd(plain, bare)
        BY <1>1, <1>4, <3>1, <4>1 DEF PlainInv
      <4>3. Comes(bare', text')
        BY <1>1, <2>2, <2>3, <3>1, <4>2, OutputComes
      <4>4. Spaced(plain', bare') /\ SameEnd(plain', bare')
        BY <1>1, <2>2, <2>3, <4>2, WriteKeepsSpaced
      <4>5. QED
        BY <4>3, <4>4
    <3>2. Whole' = text'
      BY <2>2 DEF Whole
    <3>3. QED
      BY <1>3, <3>1, <3>2 DEF PlainInv
  <2>9. ScopeInv'
    <3>1. ASSUME ~ScopeShown PROVE Uncoloured(f, text) = Uncoloured(f, plain)
      BY <2>3, <3>1 DEF Uncoloured, Writers
    <3>2. QED
      BY <1>1, <1>3, <2>2, <3>1 DEF ScopeInv
  <2>10. StripInv' /\ DoneInv' /\ StrippedIsPlain' /\ StartInv'
    BY <2>2 DEF StripInv, DoneInv, StrippedIsPlain, StartInv
  <2>11. TableInv'
    BY <1>1, <2>2, TableKept
  <2>12. QED
    BY <2>7, <2>8, <2>9, <2>10, <2>11 DEF IInv
<1>7. QED
  BY <1>5, <1>6

\* What the last step of stripping makes of the text.
LEMMA DonePlain ==
    ASSUME IInv, FindNone \/ Erase, UNCHANGED <<case, table, bare, plain>>
    PROVE  PlainInv' /\ StrippedIsPlain'
<1>1. /\ pc \in {"first", "next"}
      /\ StripTypes /\ StripInv /\ PlainInv /\ ScopeInv
      /\ original \in Seq(Chars)
      /\ bare \in Seq(Chars) /\ plain \in Seq(Chars)
      /\ bare' = bare /\ plain' = plain /\ table' = table
      /\ case' = case
  BY DEF FindNone, Erase, IInv, TypeOK, StripTypes
<1>2. /\ text' \in Seq(Chars) /\ original' = original /\ pc' = "done"
      /\ DoneInv'
  BY <1>1, EndErases
<1>3. /\ (Regular' <=> Regular) /\ Colours' = Colours
      /\ (PlainTable' <=> PlainTable) /\ (ScopeShown' <=> ScopeShown)
      /\ Colours = ColoursOf(original)
  BY <1>1, <1>2 DEF Regular, Colours, PlainTable, ScopeShown
<1>4. PICK lost \in SUBSET Colours :
          /\ Regular => lost = Colours
          /\ \E g : Lifts(g, text', original, Without(original, lost))
  BY <1>2, <1>3 DEF DoneInv
<1>5. PICK g : Lifts(g, text', original, Without(original, lost))
  BY <1>4
<1>6. ASSUME PlainTable, ColoursOf(plain) = {}
      PROVE  /\ Comes(bare, text') /\ Spaced(plain, bare)
             /\ SameEnd(plain, bare)
             /\ Regular => text' = bare
  <2>1. Whole = original
    BY <1>1 DEF Whole
  <2>2. /\ Comes(bare, original) /\ Spaced(plain, bare)
        /\ SameEnd(plain, bare)
    BY <1>1, <1>6, <2>1 DEF PlainInv
  <2>3. ColoursOf(bare) = {}
    BY <1>1, <1>6, <2>2, NoColourBetween
  <2>4. PICK ins \in SUBSET ColoursOf(original) :
            \E f : Lifts(f, bare, original, Without(original, ins))
    BY <2>2 DEF Comes
  <2>5. PICK f : Lifts(f, bare, original, Without(original, ins))
    BY <2>4
  <2>6. ins = ColoursOf(original)
    BY <1>1, <2>3, <2>5, AllTakenOut
  <2>7. lost \in SUBSET ins
    BY <1>3, <2>6
  <2>8. Comes(bare, text')
    BY <1>1, <1>2, <1>5, <2>5, <2>7, FromTheRest
  <2>9. ASSUME Regular PROVE text' = bare
    <3>1. lost = ins
      BY <1>3, <1>4, <2>6, <2>9
    <3>2. Without(original, ins) \in SUBSET Int
      BY <1>1, InWithout
    <3>3. Lifts(g, text', original, Without(original, ins))
      BY <1>5, <3>1
    <3>4. QED
      BY <1>1, <1>2, <2>5, <3>2, <3>3, SameText
  <2>10. QED
    BY <2>2, <2>8, <2>9
<1>7. Whole' = text'
  BY <1>2 DEF Whole
<1>8. PlainInv'
  BY <1>1, <1>3, <1>6, <1>7 DEF PlainInv
<1>9. ASSUME pc' = "done", Regular', ColoursOf(plain') = {}, PlainTable'
      PROVE  /\ \E extra \in SUBSET BlankNewlines(text') :
                    Picks(plain', text', (DOMAIN text') \ extra)
             /\ ~ScopeShown' => text' = plain'
  <2>1. text' = bare /\ Spaced(plain, bare) /\ plain' = plain
    BY <1>1, <1>3, <1>6, <1>9
  <2>2. PICK extra \in SUBSET BlankNewlines(bare) :
            \E f : Lifts(f, plain, bare, (DOMAIN bare) \ extra)
    BY <2>1 DEF Spaced
  <2>3. (DOMAIN bare) \ extra \in SUBSET Int
    BY <1>1
  <2>4. Picks(plain, bare, (DOMAIN bare) \ extra)
    BY <1>1, <2>2, <2>3, LiftsPicks
  <2>5. ~ScopeShown' => bare = plain
    BY <1>1, <1>3 DEF ScopeInv
  <2>6. QED
    BY <2>1, <2>4, <2>5
<1>10. StrippedIsPlain'
  BY <1>9 DEF StrippedIsPlain, PlainTable
<1>11. QED
  BY <1>8, <1>10

LEMMA StripKeeps ==
    ASSUME IInv, StripStep
    PROVE  IInv'
<1>1. /\ case' = case /\ table' = table /\ assigned' = assigned
      /\ todo' = todo /\ bare' = bare /\ plain' = plain /\ ScopeInv
      /\ TypeOK /\ StripTypes /\ StripInv /\ TableInv /\ PlainInv
  BY DEF StripStep, IInv, TypeOK, StripTypes
<1>2. /\ pc \in {"first", "next"} /\ pc' \in {"first", "next", "done"}
      /\ original' = original
  BY DEF StripStep, Strip, Skip, FindFirst, FindNone, Move, Erase
<1>3. StartInv' /\ TableInv' /\ ScopeInv'
  BY <1>1, <1>2, TableKept DEF StartInv, ScopeInv, ScopeShown
<1>4. PlainTable' <=> PlainTable
  BY <1>1 DEF PlainTable
<1>5. ASSUME Skip \/ FindFirst \/ Move
      PROVE  IInv'
  <2>1. pc' \in {"first", "next"}
    BY <1>5 DEF Skip, FindFirst, Move
  <2>2. StripInv'
    BY <1>1, <1>5, SkipKeeps, FoundKeeps
  <2>3. DoneInv' /\ StrippedIsPlain'
    BY <2>1 DEF DoneInv, StrippedIsPlain
  <2>4. PlainInv'
    <3>1. Whole' = Whole
      BY <1>2, <2>1 DEF Whole
    <3>2. QED
      BY <1>1, <1>4, <3>1 DEF PlainInv
  <2>5. /\ scan \in 1 .. Len(text) /\ scan \in Nat /\ Len(text) \in Nat
        /\ text \in Seq(Chars) /\ first \in Nat /\ second \in Nat
    BY <1>1, <1>5 DEF Skip, FindFirst, Move, More, StripTypes
  <2>6. After(scan) \in scan + 1 .. Len(text) + 2
    BY <2>5, TurnForward
  <2>7. After(scan) \in Nat /\ After(scan) + 1 \in Nat
    BY <2>5, <2>6
  <2>8. /\ text' \in Seq(Chars)
        /\ first' \in Nat /\ second' \in Nat /\ scan' \in Nat
    <3>1. CASE Skip
      BY <2>5, <2>7, <3>1 DEF Skip
    <3>2. CASE FindFirst
      BY <2>5, <2>7, <3>2 DEF FindFirst
    <3>3. CASE Move
      <4>1. text' \in Seq(Chars) /\ first' = first + (scan - second)
        BY <1>1, <3>3, FoundCopies
      <4>2. second <= scan
        BY <1>1, <1>2 DEF StripInv, Pointers
      <4>3. first' \in Nat
        BY <2>5, <4>1, <4>2
      <4>4. QED
        BY <2>7, <3>3, <4>1, <4>3 DEF Move
    <3>4. QED
      BY <1>5, <3>1, <3>2, <3>3
  <2>9. TypeOK'
    BY <1>1, <1>2, <2>1, <2>8 DEF TypeOK
  <2>10. QED
    BY <1>3, <2>2, <2>3, <2>4, <2>9 DEF IInv
<1>6. ASSUME FindNone \/ Erase
      PROVE  IInv'
  <2>1. /\ text' \in Seq(Chars) /\ pc' = "done"
        /\ DoneInv'
    BY <1>1, <1>6, EndErases
  <2>2. first' = first /\ second' = second /\ scan' = scan
    BY <1>6 DEF FindNone, Erase
  <2>3. TypeOK'
    BY <1>1, <1>2, <2>1, <2>2 DEF TypeOK
  <2>4. StripInv'
    BY <2>1 DEF StripInv
  <2>5. PlainInv' /\ StrippedIsPlain'
    BY <1>1, <1>6, DonePlain
  <2>6. QED
    BY <1>3, <2>1, <2>3, <2>4, <2>5 DEF IInv
<1>7. QED
  BY <1>5, <1>6 DEF StripStep, Strip

------------------------------------------------------------------------------
(* The theorems.                                                            *)

LEMMA InitHolds == Init => IInv
<1> SUFFICES ASSUME Init PROVE IInv
  OBVIOUS
<1>1. /\ pc = "configure" /\ bare = <<>> /\ plain = <<>> /\ text = <<>> /\ original = <<>>
      /\ table = [i \in Ordinals |-> <<>>] /\ assigned = 0 /\ todo = <<>>
      /\ case \in Cases /\ first = 1 /\ second = 1 /\ scan = 1
  BY DEF Init
<1>2. TypeOK
  BY <1>1 DEF TypeOK
<1>3. StripInv /\ DoneInv /\ StrippedIsPlain /\ StartInv /\ ScopeInv
  BY <1>1 DEF StripInv, DoneInv, StrippedIsPlain, StartInv, ScopeInv
<1>4. PlainInv
  <2>1. Whole = <<>>
    BY <1>1 DEF Whole
  <2>2. QED
    BY <1>1, <2>1, EmptyComes, EmptySpaced DEF PlainInv
<1>5. TableInv
  <2>1. case.sgr # NoSection => Len(case.sgr) \in Nat
    BY <1>1, CaseTypes
  <2>2. \A o \in Ordinals : Assigned(o)
    BY <1>1 DEF Assigned
  <2>3. QED
    BY <1>1, <2>1, <2>2 DEF TableInv
<1>6. QED
  BY <1>2, <1>3, <1>4, <1>5 DEF IInv

\* The invariant holds throughout: what find has passed has been copied without
\* colours, and the text is what the template would have written without
\* colours, with colours put in and empty lines in front of scopes.
THEOREM Inductive == Spec => []IInv
<1>1. IInv /\ [Next]_vars => IInv'
  <2> SUFFICES ASSUME IInv, [Next]_vars PROVE IInv'
    OBVIOUS
  <2>1. CASE Assign
    BY <2>1, AssignKeeps
  <2>2. CASE Configure
    BY <2>2, ConfigureKeeps
  <2>3. CASE CallChain
    BY <2>3, ChainKeeps
  <2>4. CASE CallFormatter
    BY <2>4, CallKeeps
  <2>5. CASE StripStep
    BY <2>5, StripKeeps
  <2>6. CASE UNCHANGED vars
    <3>1. /\ case' = case /\ table' = table /\ assigned' = assigned
          /\ todo' = todo /\ bare' = bare /\ plain' = plain
          /\ original' = original
          /\ text' = text /\ first' = first /\ second' = second
          /\ scan' = scan /\ pc' = pc
      BY <2>6 DEF vars, stripVars
    <3>2. TypeOK' /\ StartInv' /\ TableInv'
      BY <3>1 DEF IInv, TypeOK, StartInv, TableInv, Assigned, to_string
    <3>3. StripInv'
      BY <3>1 DEF IInv, StripInv, Pointers, Scanned, Regular, Colours
    <3>4. DoneInv'
      BY <3>1 DEF IInv, DoneInv, Regular, Colours
    <3>5. PlainInv' /\ ScopeInv' /\ StrippedIsPlain'
      BY <3>1 DEF IInv, PlainInv, PlainTable, Whole, ScopeInv, ScopeShown,
                  StrippedIsPlain, Regular
    <3>6. QED
      BY <3>2, <3>3, <3>4, <3>5 DEF IInv
  <2>7. QED
    BY <2>1, <2>2, <2>3, <2>4, <2>5, <2>6 DEF Next
<1>2. QED
  BY <1>1, InitHolds, PTL DEF Spec

\* The variables keep their types: no text has a character that is none.
THEOREM TypeCorrect == Spec => []TypeOK
<1>1. IInv => TypeOK
  BY DEF IInv
<1>2. QED
  BY <1>1, Inductive, PTL

\* find leaves the text only behind an ESC that is its last character: the code
\* reads behind the terminator in no other case.
THEOREM ScanStaysInside == Spec => []StaysInText
<1>1. IInv => StaysInText
  <2> SUFFICES ASSUME IInv, pc \in {"first", "next"}, scan > Len(text) + 1
               PROVE  Len(original) > 0 /\ original[Len(original)] = "esc"
    BY DEF StaysInText
  <2>1. Pointers /\ scan \in Nat /\ Len(text) \in Nat
    BY DEF IInv, StripInv, TypeOK
  <2>2. scan = Len(text) + 2
    BY <2>1 DEF Pointers
  <2>3. QED
    BY <2>1, <2>2 DEF Pointers
<1>2. QED
  BY <1>1, Inductive, PTL

\* Whatever the text, %SGR(mode=strip)% takes out colour sequences only, and
\* the rest stays in its order.
THEOREM OnlyColoursAreLost == Spec => []OnlyColoursLost
<1>1. IInv => OnlyColoursLost
  <2> SUFFICES ASSUME IInv, pc = "done"
               PROVE  \E lost \in SUBSET Colours :
                          Picks(text, original, Without(original, lost))
    BY DEF OnlyColoursLost
  <2>1. text \in Seq(Chars) /\ original \in Seq(Chars)
    BY DEF IInv, TypeOK
  <2>2. PICK lost \in SUBSET Colours :
            \E f : Lifts(f, text, original, Without(original, lost))
    BY DEF IInv, DoneInv
  <2>3. Without(original, lost) \in SUBSET Int
    BY <2>1, InWithout
  <2>4. Picks(text, original, Without(original, lost))
    BY <2>1, <2>2, <2>3, LiftsPicks
  <2>5. QED
    BY <2>4
<1>2. QED
  BY <1>1, Inductive, PTL

\* Of a text in which an ESC begins something it takes out all of them.
THEOREM AllColoursAreLost == Spec => []StripsExactly
<1>1. IInv => StripsExactly
  <2> SUFFICES ASSUME IInv, Regular, pc = "done"
               PROVE  Picks(text, original, Without(original, Colours))
    BY DEF StripsExactly
  <2>1. text \in Seq(Chars) /\ original \in Seq(Chars)
    BY DEF IInv, TypeOK
  <2>2. \E f : Lifts(f, text, original, Without(original, Colours))
    BY DEF IInv, DoneInv
  <2>3. Without(original, Colours) \in SUBSET Int
    BY <2>1, InWithout
  <2>4. QED
    BY <2>1, <2>2, <2>3, LiftsPicks
<1>2. QED
  BY <1>1, Inductive, PTL

\* What is stripped is what the template would have written without colours, but
\* for empty lines in front of scopes, wherever in it %SGR(mode=strip)% stands and
\* however often.
THEOREM StrippingIsComplete == Spec => []StrippedIsPlain
<1>1. IInv => StrippedIsPlain
  BY DEF IInv
<1>2. QED
  BY <1>1, Inductive, PTL

\* A severity has the colour of the last entry of the section with its name,
\* and none without such an entry.
THEOREM ColoursAreConfigured == Spec => []ColouredAsConfigured
<1>1. IInv => ColouredAsConfigured
  <2> SUFFICES ASSUME IInv, pc = "format", case.sgr # NoSection,
                      case.level \in Ordinals
               PROVE  ColouredAsConfigured
    BY DEF ColouredAsConfigured
  <2> DEFINE o == case.level
             mine == {j \in DOMAIN case.sgr : case.sgr[j].name = to_string(o)}
             last == CHOOSE j \in mine : \A k \in mine : k <= j
             colour == IF mine = {} THEN <<>> ELSE case.sgr[last].colour
  <2>1. assigned = Len(case.sgr) /\ Assigned(o)
    BY DEF IInv, TableInv
  <2>2. Len(case.sgr) \in Nat /\ DOMAIN case.sgr = 1 .. Len(case.sgr)
    BY CaseTypes DEF IInv, TypeOK
  <2>3. table[o] = colour
    <3>1. CASE \A j \in 1 .. assigned : case.sgr[j].name # to_string(o)
      <4>1. mine = {}
        BY <2>1, <2>2, <3>1
      <4>2. table[o] = <<>>
        BY <2>1, <3>1 DEF Assigned
      <4>3. QED
        BY <4>1, <4>2
    <3>2. CASE ~ \A j \in 1 .. assigned : case.sgr[j].name # to_string(o)
      <4>1. PICK j \in 1 .. assigned :
                /\ case.sgr[j].name = to_string(o)
                /\ table[o] = case.sgr[j].colour
                /\ \A k \in j + 1 .. assigned :
                       case.sgr[k].name # to_string(o)
        BY <2>1, <3>2 DEF Assigned
      <4>2. j \in mine /\ mine \subseteq 1 .. assigned
        BY <2>1, <2>2, <4>1
      <4>3. ASSUME NEW k \in mine PROVE k <= j
        <5>1. k \in 1 .. assigned /\ case.sgr[k].name = to_string(o)
          BY <4>2
        <5>2. ~ (k \in j + 1 .. assigned)
          BY <4>1, <5>1
        <5>3. QED
          BY <2>1, <2>2, <5>1, <5>2
      <4>4. \A k \in mine : k \in Int
        BY <2>1, <2>2, <4>2
      <4> HIDE DEF mine
      <4>5. last \in mine /\ \A k \in mine : k <= last
        BY <4>2, <4>3
      <4> HIDE DEF last
      <4>6. last = j
        BY <4>2, <4>3, <4>4, <4>5
      <4>7. QED
        BY <4>1, <4>2, <4>6
    <3>3. QED
      BY <3>1, <3>2
  <2>4. sgr(o) = IF colour = <<>> THEN <<>>
                 ELSE <<"esc", "[">> \o colour \o <<"m">>
    <3> HIDE DEF colour
    <3>1. QED
      BY <2>3 DEF sgr
  <2>5. QED
    BY <2>4 DEF ColouredAsConfigured
<1>2. QED
  BY <1>1, Inductive, PTL

=============================================================================

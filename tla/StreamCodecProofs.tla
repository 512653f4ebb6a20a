-------------------------- MODULE StreamCodecProofs --------------------------
(***************************************************************************)
(* What the writers of StreamCodec write, its readers read back, for all   *)
(* strings, lists, sets and maps, whatever follows in the input, and so    *)
(* for task ids, which requests of both sides start with.                  *)
(*                                                                         *)
(* Inductions are over the least number for which a statement fails.       *)
(***************************************************************************)
EXTENDS Payloads, SequenceTheorems, FiniteSetTheorems, WellFoundedInduction, TLAPS

-----------------------------------------------------------------------------
(* Induction. *)

\* A set of numbers that is not empty has a least one.
LEMMA Least == ASSUME NEW T, T \subseteq Nat, T # {} PROVE \E m \in T : \A n \in T : m <= n
<1> DEFINE below == OpToRel(<, Nat)
<1>1. \A x, y \in Nat : <<x, y>> \in below <=> x < y
  BY DEF OpToRel
<1>2. IsWellFoundedOn(below, Nat)
  BY NatLessThanWellFounded
<1> HIDE DEF below
<1>3. PICK m \in T : \A n \in T : ~(<<n, m>> \in below)
  BY <1>2, WFMin
<1>4. ASSUME NEW n \in T PROVE m <= n
  <2>1. m \in Nat /\ n \in Nat /\ ~(n < m)
    BY <1>1, <1>3
  <2> QED
    BY <2>1
<1> QED
  BY <1>3, <1>4

\* The set of the numbers for which something holds has all numbers.
LEMMA UpTo ==
    ASSUME NEW n \in Nat, NEW Good, 0 \in Good, \A i \in 0..(n - 1) : i \in Good => i + 1 \in Good
    PROVE  \A i \in 0..n : i \in Good
<1> DEFINE Bad == (0..n) \ Good
<1>1. SUFFICES ASSUME Bad # {} PROVE FALSE
  OBVIOUS
<1>2. PICK m \in Bad : \A i \in Bad : m <= i
  <2>1. Bad \subseteq Nat
    OBVIOUS
  <2> QED
    BY <1>1, <2>1, Least
<1>3. m - 1 \in 0..(n - 1) /\ (m - 1) + 1 = m /\ m - 1 < m
  OBVIOUS
<1>4. m - 1 \in Good
  BY <1>2, <1>3
<1> QED
  BY <1>3, <1>4

\* What holds at 0 and goes on holding holds of every number.
LEMMA Forever ==
    ASSUME NEW Good, 0 \in Good, \A i \in Nat : i \in Good => i + 1 \in Good
    PROVE  \A n \in Nat : n \in Good
<1> SUFFICES ASSUME NEW n \in Nat PROVE n \in Good
  OBVIOUS
<1>1. \A i \in 0..(n - 1) : i \in Good => i + 1 \in Good
  OBVIOUS
<1> QED
  BY <1>1, UpTo

\* Two functions that start alike and go on alike are alike.
LEMMA Alike ==
    ASSUME NEW n \in Nat, NEW f, NEW g, f[0] = g[0],
           \A i \in 0..(n - 1) : f[i] = g[i] => f[i + 1] = g[i + 1]
    PROVE  f[n] = g[n]
<1> DEFINE Good == {i \in 0..n : f[i] = g[i]}
<1>1. 0 \in Good /\ \A i \in 0..(n - 1) : i \in Good => i + 1 \in Good
  OBVIOUS
<1> HIDE DEF Good
<1>2. n \in Good
  BY <1>1, UpTo
<1> QED
  BY <1>2 DEF Good

-----------------------------------------------------------------------------
(* The order of strings. *)

LessAt(a, b, n) ==
    /\ n < Len(b) /\ n <= Len(a)
    /\ \A i \in 1..n : a[i] = b[i]
    /\ n = Len(a) \/ a[n + 1] < b[n + 1]

\* Less(a, b) says where the two strings part.
LEMMA LessIsLessAt ==
    ASSUME NEW a \in Seq(Nat), NEW b \in Seq(Nat)
    PROVE  Less(a, b) <=> \E n \in Nat : LessAt(a, b, n)
<1>1. ASSUME NEW n \in Nat, n < Len(b), n <= Len(a)
      PROVE  SubSeq(a, 1, n) = SubSeq(b, 1, n) <=> \A i \in 1..n : a[i] = b[i]
  <2> DEFINE u == SubSeq(a, 1, n)
             v == SubSeq(b, 1, n)
  <2>1. /\ u \in Seq(Nat) /\ Len(u) = n /\ \A i \in 1..n : u[i] = a[i]
        /\ v \in Seq(Nat) /\ Len(v) = n /\ \A i \in 1..n : v[i] = b[i]
    BY <1>1
  <2> HIDE DEF u, v
  <2>2. (\A i \in 1..n : u[i] = v[i]) => u = v
    BY <2>1, SeqEqual
  <2>3. u = v <=> \A i \in 1..n : a[i] = b[i]
    BY <2>1, <2>2
  <2> QED
    BY <2>3 DEF u, v
<1>2. \A n : n \in 0..(Len(b) - 1) <=> n \in Nat /\ n < Len(b)
  OBVIOUS
<1> QED
  BY <1>1, <1>2 DEF Less, LessAt

\* No string is less than itself.
LEMMA LessIrreflexive == ASSUME NEW a \in Seq(Nat) PROVE ~Less(a, a)
<1>1. ASSUME NEW n \in Nat, LessAt(a, a, n) PROVE FALSE
  <2>1. n + 1 \in 1..Len(a) /\ n # Len(a)
    BY <1>1 DEF LessAt
  <2>2. a[n + 1] \in Nat
    BY <2>1
  <2> QED
    BY <1>1, <2>1, <2>2 DEF LessAt
<1> QED
  BY <1>1, LessIsLessAt

\* The order of strings is transitive.
LEMMA LessTransitive ==
    ASSUME NEW a \in Seq(Nat), NEW b \in Seq(Nat), NEW c \in Seq(Nat), Less(a, b), Less(b, c)
    PROVE  Less(a, c)
<1>1. PICK n \in Nat : LessAt(a, b, n)
  BY LessIsLessAt
<1>2. PICK m \in Nat : LessAt(b, c, m)
  BY LessIsLessAt
<1>3. CASE n < m
  <2>1. n + 1 \in 1..m /\ \A i \in 1..n : i \in 1..m
    BY <1>3
  <2>2. LessAt(a, c, n)
    BY <1>1, <1>2, <1>3, <2>1 DEF LessAt
  <2> QED
    BY <2>2, LessIsLessAt
<1>4. CASE m < n
  <2>1. m + 1 \in 1..n /\ (\A i \in 1..m : i \in 1..n) /\ m # Len(b)
    BY <1>1, <1>4 DEF LessAt
  <2>2. LessAt(a, c, m)
    BY <1>1, <1>2, <1>4, <2>1 DEF LessAt
  <2> QED
    BY <2>2, LessIsLessAt
<1>5. CASE m = n
  <2>1. n # Len(b) /\ n + 1 \in 1..Len(b) /\ n + 1 \in 1..Len(c)
    BY <1>1, <1>2, <1>5 DEF LessAt
  <2>2. b[n + 1] \in Nat /\ c[n + 1] \in Nat /\ b[n + 1] < c[n + 1]
    BY <1>2, <1>5, <2>1 DEF LessAt
  <2>3. n # Len(a) => a[n + 1] \in Nat /\ a[n + 1] < b[n + 1]
    BY <1>1 DEF LessAt
  <2>4. n = Len(a) \/ a[n + 1] < c[n + 1]
    BY <2>2, <2>3
  <2>5. LessAt(a, c, n)
    BY <1>1, <1>2, <1>5, <2>4 DEF LessAt
  <2> QED
    BY <2>5, LessIsLessAt
<1> QED
  BY <1>3, <1>4, <1>5

\* Of two different strings one is less.
LEMMA LessTotal ==
    ASSUME NEW a \in Seq(Nat), NEW b \in Seq(Nat), a # b
    PROVE  Less(a, b) \/ Less(b, a)
<1> DEFINE Apart == {i \in Nat : i \in 1..Len(a) /\ i \in 1..Len(b) /\ a[i] # b[i]}
<1>1. CASE Apart = {}
  <2>1. \A i \in Nat : i \in 1..Len(a) /\ i \in 1..Len(b) => a[i] = b[i]
    BY <1>1
  <2>2. Len(a) # Len(b)
    BY <2>1, SeqEqual
  <2>3. CASE Len(a) < Len(b)
    <3>1. LessAt(a, b, Len(a))
      BY <2>1, <2>3 DEF LessAt
    <3> QED
      BY <3>1, LessIsLessAt
  <2>4. CASE Len(b) < Len(a)
    <3>1. LessAt(b, a, Len(b))
      BY <2>1, <2>4 DEF LessAt
    <3> QED
      BY <3>1, LessIsLessAt
  <2> QED
    BY <2>2, <2>3, <2>4
<1>2. CASE Apart # {}
  <2>1. PICK m \in Apart : \A i \in Apart : m <= i
    BY <1>2, Least
  <2>2. PICK n \in Nat : m = n + 1
    <3>1. m - 1 \in Nat /\ m = (m - 1) + 1
      OBVIOUS
    <3> QED
      BY <3>1
  <2>3. n < Len(a) /\ n < Len(b) /\ a[n + 1] # b[n + 1]
    BY <2>2
  <2>4. \A i \in 1..n : a[i] = b[i]
    <3> SUFFICES ASSUME NEW i \in 1..n, a[i] # b[i] PROVE FALSE
      OBVIOUS
    <3>1. i \in Apart /\ i < m
      BY <2>2, <2>3
    <3> QED
      BY <2>1, <3>1
  <2>5. a[n + 1] \in Nat /\ b[n + 1] \in Nat
    BY <2>3
  <2>6. LessAt(a, b, n) \/ LessAt(b, a, n)
    BY <2>3, <2>4, <2>5, SMTT(30) DEF LessAt
  <2> QED
    BY <2>6, LessIsLessAt
<1> QED
  BY <1>1, <1>2

HasGreatest(T) == \E x \in T : \A y \in T : y # x => Less(y, x)

\* A finite set of strings has a greatest.
LEMMA GreatestString ==
    ASSUME NEW S, IsFiniteSet(S), S \subseteq Seq(Nat), S # {}
    PROVE  HasGreatest(S)
<1> DEFINE Good == {n \in Nat : \A T \in SUBSET S : T # {} /\ Cardinality(T) = n => HasGreatest(T)}
<1>1. \A T \in SUBSET S : IsFiniteSet(T) /\ Cardinality(T) \in Nat
  BY FS_Subset, FS_CardinalityType
<1>2. 0 \in Good
  BY <1>1, FS_EmptySet
<1>3. ASSUME NEW n \in Nat, n \in Good PROVE n + 1 \in Good
  <2> SUFFICES ASSUME NEW T \in SUBSET S, T # {}, Cardinality(T) = n + 1 PROVE HasGreatest(T)
    OBVIOUS
  <2>1. PICK z \in T : TRUE
    OBVIOUS
  <2> DEFINE U == T \ {z}
  <2>2. U \in SUBSET S /\ Cardinality(U) = n
    <3>1. Cardinality(U) = Cardinality(T) - 1
      BY <1>1, FS_RemoveElement
    <3> QED
      BY <3>1
  <2>3. CASE U = {}
    <3>1. \A y \in T : y = z
      BY <2>3
    <3> QED
      BY <2>1, <3>1 DEF HasGreatest
  <2>4. CASE U # {}
    <3>1. PICK x \in U : \A y \in U : y # x => Less(y, x)
      BY <1>3, <2>2, <2>4 DEF HasGreatest
    <3>2. x \in T /\ x # z /\ x \in Seq(Nat) /\ z \in Seq(Nat)
      OBVIOUS
    <3>3. CASE Less(z, x)
      BY <3>1, <3>2, <3>3 DEF HasGreatest
    <3>4. CASE Less(x, z)
      <4>1. ASSUME NEW y \in T, y # z PROVE Less(y, z)
        <5>1. y \in U /\ y \in Seq(Nat)
          BY <4>1
        <5>2. y = x \/ Less(y, x)
          BY <3>1, <5>1
        <5> QED
          BY <3>2, <3>4, <5>1, <5>2, LessTransitive
      <4> QED
        BY <2>1, <4>1 DEF HasGreatest
    <3> QED
      BY <3>2, <3>3, <3>4, LessTotal
  <2> QED
    BY <2>3, <2>4
<1> HIDE DEF Good
<1>4. PICK m \in Nat : m = Cardinality(S)
  BY FS_CardinalityType
<1>5. m \in Good
  BY <1>2, <1>3, Forever
<1> QED
  BY <1>4, <1>5 DEF Good

Increasing(s, n) == \A i, j \in 1..n : i < j => Less(s[i], s[j])

\* The strings of a finite set can be put in order.
LEMMA OrderExists ==
    ASSUME NEW S, IsFiniteSet(S), S \subseteq Seq(Nat)
    PROVE  \E s \in [1..Cardinality(S) -> S] : Increasing(s, Cardinality(S))
<1> DEFINE Has(T, n) == \E s \in [1..n -> T] : Increasing(s, n)
           Good == {n \in Nat : \A T \in SUBSET S : Cardinality(T) = n => Has(T, n)}
<1>1. \A T \in SUBSET S : IsFiniteSet(T) /\ Cardinality(T) \in Nat
  BY FS_Subset, FS_CardinalityType
<1>2. 0 \in Good
  <2> SUFFICES ASSUME NEW T \in SUBSET S PROVE Has(T, 0)
    OBVIOUS
  <2>1. 1..0 = {}
    OBVIOUS
  <2>2. [i \in 1..0 |-> i] \in [1..0 -> T] /\ Increasing([i \in 1..0 |-> i], 0)
    BY <2>1 DEF Increasing
  <2> QED
    BY <2>2
<1>3. ASSUME NEW n \in Nat, n \in Good PROVE n + 1 \in Good
  <2> SUFFICES ASSUME NEW T \in SUBSET S, Cardinality(T) = n + 1 PROVE Has(T, n + 1)
    OBVIOUS
  <2>1. T # {}
    <3>1. n + 1 # 0
      OBVIOUS
    <3> QED
      BY <3>1, FS_EmptySet
  <2>2. PICK x \in T : \A y \in T : y # x => Less(y, x)
    BY <1>1, <2>1, GreatestString DEF HasGreatest
  <2>3. T \ {x} \in SUBSET S /\ Cardinality(T \ {x}) = n
    <3>1. Cardinality(T \ {x}) = Cardinality(T) - 1
      BY <1>1, FS_RemoveElement
    <3> QED
      BY <3>1
  <2>4. PICK s \in [1..n -> T \ {x}] : Increasing(s, n)
    BY <1>3, <2>3
  <2> DEFINE t == [i \in 1..(n + 1) |-> IF i = n + 1 THEN x ELSE s[i]]
  <2>5. t \in [1..(n + 1) -> T]
    OBVIOUS
  <2>6. ASSUME NEW i \in 1..(n + 1), NEW j \in 1..(n + 1), i < j PROVE Less(t[i], t[j])
    <3>1. i \in 1..n /\ t[i] = s[i] /\ s[i] \in T \ {x}
      BY <2>6
    <3>2. CASE j = n + 1
      BY <2>2, <3>1, <3>2
    <3>3. CASE j # n + 1
      <4>1. j \in 1..n /\ t[j] = s[j]
        BY <3>3
      <4> QED
        BY <2>4, <2>6, <3>1, <4>1 DEF Increasing
    <3> QED
      BY <3>2, <3>3
  <2> HIDE DEF t
  <2>7. Increasing(t, n + 1)
    BY <2>6 DEF Increasing
  <2> QED
    BY <2>5, <2>7
<1> HIDE DEF Good
<1>4. PICK m \in Nat : m = Cardinality(S)
  BY FS_CardinalityType
<1>5. m \in Good
  BY <1>2, <1>3, Forever
<1> QED
  BY <1>4, <1>5 DEF Good

\* Ordered lists every string of the set once.
LEMMA OrderedLists ==
    ASSUME NEW S, IsFiniteSet(S), S \subseteq Seq(Nat)
    PROVE  /\ Ordered(S) \in Seq(S)
           /\ Len(Ordered(S)) = Cardinality(S)
           /\ \A i, j \in 1..Len(Ordered(S)) : Ordered(S)[i] = Ordered(S)[j] => i = j
           /\ \A x \in S : \E i \in 1..Len(Ordered(S)) : Ordered(S)[i] = x
<1>1. PICK n \in Nat : n = Cardinality(S)
  BY FS_CardinalityType
<1> DEFINE s == Ordered(S)
<1>2. s \in [1..n -> S] /\ Increasing(s, n)
  <2>1. \E z \in [1..n -> S] : \A i, j \in 1..n : i < j => Less(z[i], z[j])
    BY <1>1, OrderExists DEF Increasing
  <2> QED
    BY <1>1, <2>1 DEF Ordered, Increasing
<1> HIDE DEF s
<1>3. \A i, j \in 1..n : s[i] = s[j] => i = j
  <2> SUFFICES ASSUME NEW i \in 1..n, NEW j \in 1..n, i < j PROVE s[i] # s[j]
    OBVIOUS
  <2>1. Less(s[i], s[j]) /\ s[i] \in Seq(Nat)
    BY <1>2 DEF Increasing
  <2> QED
    BY <2>1, LessIrreflexive
<1>4. s \in Injection(1..n, S)
  BY <1>2, <1>3 DEF Injection, IsInjective
<1>5. IsFiniteSet(1..n) /\ Cardinality(1..n) = n
  BY FS_Interval
<1>6. s \in Surjection(1..n, S)
  BY <1>1, <1>4, <1>5, FS_Injection
<1>7. \A x \in S : \E i \in 1..n : s[i] = x
  BY <1>6 DEF Surjection
<1>8. s \in Seq(S) /\ Len(s) = n
  BY <1>2
<1> QED
  BY <1>1, <1>3, <1>7, <1>8 DEF s

-----------------------------------------------------------------------------
(* Cells one behind the other. *)

Cells == Seq(Nat)

\* Cells one behind the other are cells; their lengths add up.
LEMMA Concat ==
    ASSUME NEW a \in Cells, NEW b \in Cells, NEW c \in Cells
    PROVE  /\ a \o b \in Cells
           /\ Len(a \o b) = Len(a) + Len(b)
           /\ (a \o b) \o c = a \o (b \o c)
           /\ <<>> \o a = a /\ a \o <<>> = a
           /\ <<>> \in Cells
BY ConcatProperties, ConcatAssociative, ConcatEmptySeq, SMTT(30) DEF Cells

\* Three pieces of cells may be grouped either way.
LEMMA ConcatRegroup == \A a, b, c \in Cells : (a \o b) \o c = a \o (b \o c)
BY ConcatAssociative DEF Cells

\* The cells of two pieces, one by one.
LEMMA ConcatCells ==
    ASSUME NEW a \in Cells, NEW b \in Cells
    PROVE  /\ a \o b \in Cells /\ Len(a \o b) = Len(a) + Len(b)
           /\ \A i \in 1..Len(a) : (a \o b)[i] = a[i]
           /\ \A i \in 1..Len(b) : (a \o b)[Len(a) + i] = b[i]
<1>1. PICK n \in Nat, m \in Nat : n = Len(a) /\ m = Len(b)
  BY DEF Cells
<1>2. PICK c : c = a \o b
  OBVIOUS
<1>3. /\ c \in Cells /\ Len(c) = n + m
      /\ \A i \in 1..(n + m) : c[i] = IF i <= n THEN a[i] ELSE b[i - n]
  BY <1>1, <1>2, ConcatProperties DEF Cells
<1>4. ASSUME NEW i \in 1..m PROVE c[n + i] = b[i]
  <2>1. PICK k \in 1..(n + m) : k = n + i /\ ~(k <= n) /\ k - n = i
    OBVIOUS
  <2> QED
    BY <1>3, <2>1
<1>5. \A i \in 1..n : c[i] = a[i]
  BY <1>3
<1> QED
  BY <1>1, <1>2, <1>3, <1>4, <1>5

\* Cells of one length that are alike one by one are alike.
LEMMA SameCells ==
    ASSUME NEW a \in Cells, NEW b \in Cells, NEW n \in Nat, Len(a) = n, Len(b) = n,
           \A i \in 1..n : a[i] = b[i]
    PROVE  a = b
BY DEF Cells

\* The first n cells of a, and the others.
Split(a, n, p, q) ==
    p = SubSeq(a, 1, n) /\ q = SubSeq(a, n + 1, Len(a)) /\ Len(p) = n /\ a = p \o q

\* The first n cells of a can be cut off.
LEMMA CellsSplit ==
    ASSUME NEW a \in Cells, NEW n \in 0..Len(a) PROVE \E p, q \in Cells : Split(a, n, p, q)
<1>1. PICK m \in Nat : m = Len(a) /\ n \in 0..m
  BY DEF Cells
<1>2. PICK p, q : p = SubSeq(a, 1, n) /\ q = SubSeq(a, n + 1, m)
  OBVIOUS
<1>3. p \in Cells /\ Len(p) = n /\ \A i \in 1..n : p[i] = a[i]
  BY <1>1, <1>2 DEF Cells
<1>4. q \in Cells /\ Len(q) = m - n /\ \A i \in 1..(m - n) : q[i] = a[n + i]
  BY <1>1, <1>2 DEF Cells
<1>5. PICK s : s = p \o q
  OBVIOUS
<1>6. /\ s \in Cells /\ Len(s) = n + (m - n)
      /\ \A i \in 1..n : s[i] = p[i]
      /\ \A i \in 1..(m - n) : s[n + i] = q[i]
  BY <1>3, <1>4, <1>5, ConcatCells
<1>7. ASSUME NEW i \in 1..m PROVE s[i] = a[i]
  <2>1. CASE i <= n
    BY <1>1, <1>3, <1>6, <2>1
  <2>2. CASE i > n
    <3>1. PICK k \in 1..(m - n) : k = i - n /\ n + k = i
      BY <1>1, <2>2
    <3> QED
      BY <1>4, <1>6, <3>1
  <2> QED
    BY <1>1, <2>1, <2>2
<1>8. s = a
  BY <1>1, <1>6, <1>7, SameCells
<1> QED
  BY <1>1, <1>2, <1>3, <1>4, <1>5, <1>8 DEF Split

\* When cells are taken apart in two ways, the first parts of one length are alike.
LEMMA CellsAlign ==
    ASSUME NEW a \in Cells, NEW b \in Cells, NEW x \in Cells, NEW y \in Cells,
           a \o x = b \o y, Len(a) = Len(b)
    PROVE  a = b /\ x = y
<1>1. PICK n \in Nat : n = Len(a) /\ n = Len(b)
  BY DEF Cells
<1>2. PICK m \in Nat, k \in Nat : m = Len(x) /\ k = Len(y)
  BY DEF Cells
<1> DEFINE s == a \o x
<1>3. /\ Len(s) = n + m
      /\ \A i \in 1..n : s[i] = a[i]
      /\ \A i \in 1..m : s[n + i] = x[i]
  <2>1. /\ Len(s) = Len(a) + Len(x)
        /\ \A i \in 1..Len(a) : s[i] = a[i]
        /\ \A i \in 1..Len(x) : s[Len(a) + i] = x[i]
    BY ConcatCells
  <2> HIDE DEF s
  <2> QED
    BY <1>1, <1>2, <2>1
<1>4. /\ Len(s) = n + k
      /\ \A i \in 1..n : s[i] = b[i]
      /\ \A i \in 1..k : s[n + i] = y[i]
  BY <1>1, <1>2, ConcatCells
<1> HIDE DEF s
<1>5. m = k
  BY <1>3, <1>4
<1>6. x = y
  <2>1. \A i \in 1..m : x[i] = y[i]
    BY <1>3, <1>4, <1>5
  <2> QED
    BY <1>2, <1>5, <2>1, SameCells
<1>7. a = b
  <2>1. \A i \in 1..n : a[i] = b[i]
    BY <1>3, <1>4
  <2> QED
    BY <1>1, <2>1, SameCells
<1> QED
  BY <1>6, <1>7

\* The first cell alone.
LEMMA OneCell ==
    ASSUME NEW w \in Cells, Len(w) > 0 PROVE \E n \in Nat : SubSeq(w, 1, 1) = <<n>>
<1>1. PICK p : p = SubSeq(w, 1, 1)
  OBVIOUS
<1>2. PICK n \in Nat : n = w[1]
  BY DEF Cells
<1>3. p \in Cells /\ Len(p) = 1 /\ p[1] = n
  BY <1>1, <1>2 DEF Cells
<1>4. <<n>> \in Cells /\ Len(<<n>>) = 1 /\ <<n>>[1] = n
  BY DEF Cells
<1>5. p = <<n>>
  BY <1>3, <1>4 DEF Cells
<1> QED
  BY <1>1, <1>5

\* A first part of known length is cut off.
LEMMA CellsParts ==
    ASSUME NEW a \in Cells, NEW x \in Cells, NEW s, s = a \o x,
           NEW n \in Nat, n = Len(a), NEW m \in Nat, m = Len(s)
    PROVE  SubSeq(s, 1, n) = a /\ SubSeq(s, n + 1, m) = x
<1>1. n = Len(a)
  OBVIOUS
<1>2. s \in Cells /\ n \in 0..Len(s)
  <2>1. s \in Cells /\ Len(s) = n + Len(x) /\ Len(x) \in Nat
    BY <1>1, Concat DEF Cells
  <2> QED
    BY <1>1, <2>1
<1>3. PICK p \in Cells, q \in Cells :
         p = SubSeq(s, 1, n) /\ q = SubSeq(s, n + 1, Len(s)) /\ Len(p) = n /\ p \o q = s
  <2>1. PICK p \in Cells, q \in Cells : Split(s, n, p, q)
    BY <1>2, CellsSplit
  <2> QED
    BY <2>1 DEF Split
<1>4. p \o q = a \o x /\ Len(p) = Len(a)
  BY <1>1, <1>3
<1>5. p = a /\ q = x
  BY <1>4, CellsAlign
<1> QED
  BY <1>1, <1>3, <1>5

\* The first cell of the first part comes first.
LEMMA FirstCell ==
    ASSUME NEW f \in Cells, NEW x \in Cells, f # <<>>
    PROVE  f \o x # <<>> /\ (f \o x)[1] = f[1] /\ Head(f) = f[1]
<1>1. PICK n \in Nat, m \in Nat : n = Len(f) /\ m = Len(x) /\ n > 0
  BY DEF Cells
<1>2. PICK s \in Cells : s = f \o x /\ Len(s) = n + m
  BY <1>1, Concat
<1>3. s[1] = f[1]
  BY <1>1, <1>2, ConcatCells
<1>4. s # <<>>
  BY <1>1, <1>2
<1>5. Head(f) = f[1]
  BY <1>1 DEF Cells
<1> QED
  BY <1>2, <1>3, <1>4, <1>5

\* The cells s are f, a and x.
InThree(s, f, a, x) == s = f \o (a \o x)

\* The first cell of a is moved to the end of f.
LEMMA CellMoves ==
    ASSUME NEW f \in Cells, NEW a \in Cells, NEW x \in Cells, a # <<>>, NEW s, InThree(s, f, a, x)
    PROVE  /\ Append(f, Head(a)) \in Cells /\ Tail(a) \in Cells
           /\ InThree(s, Append(f, Head(a)), Tail(a), x)
<1>1. Head(a) \in Nat /\ Tail(a) \in Cells /\ <<Head(a)>> \in Cells
  BY HeadTailProperties DEF Cells
<1>2. a = <<Head(a)>> \o Tail(a)
  BY HeadTailProperties, HeadTailAppend DEF Cells
<1>3. Append(f, Head(a)) = f \o <<Head(a)>>
  BY <1>1, AppendIsConcat DEF Cells
<1>4. PICK h \in Cells, t \in Cells, g \in Cells : 
          h = <<Head(a)>> /\ t = Tail(a) /\ a = h \o t /\ Append(f, Head(a)) = g /\ g = f \o h
  BY <1>1, <1>2, <1>3, Concat
<1>5. PICK y \in Cells : y = t \o x
  BY Concat
<1>6. g \o y = f \o (h \o y)
  BY <1>4, ConcatRegroup
<1>7. h \o y = a \o x
  <2>1. (h \o t) \o x = h \o (t \o x)
    BY ConcatRegroup, SMTT(30)
  <2> QED
    BY <1>4, <1>5, <2>1
<1>8. s = g \o y
  BY <1>6, <1>7 DEF InThree
<1> QED
  BY <1>1, <1>4, <1>5, <1>8 DEF InThree

\* Cells added at the end come last.
LEMMA CellsSent ==
    ASSUME NEW f \in Cells, NEW a \in Cells, NEW x \in Cells, NEW c \in Cells,
           NEW s, InThree(s, f, a, x), NEW t, t = s \o c, NEW y, y = x \o c
    PROVE  InThree(t, f, a, y)
<1>1. PICK z \in Cells : z = a \o x
  BY Concat
<1>2. (f \o z) \o c = f \o (z \o c)
  BY ConcatRegroup, ZenonT(60)
<1>3. (a \o x) \o c = a \o (x \o c)
  BY ConcatRegroup, ZenonT(60)
<1>4. s = f \o z
  BY <1>1 DEF InThree
<1>5. z \o c = a \o y
  BY <1>1, <1>3
<1>6. t = f \o (z \o c)
  BY <1>2, <1>4
<1> QED
  BY <1>5, <1>6 DEF InThree

\* The cells s are a and then x.
Parts(s, a, x) == s = a \o x

\* A first part in two parts: the second goes over to the rest.
LEMMA PartsRegroup ==
    ASSUME NEW s, NEW a, NEW x \in Cells, NEW p \in Cells, NEW q \in Cells,
           Parts(s, a, x), Parts(a, p, q)
    PROVE  \E z \in Cells : Parts(z, q, x) /\ Parts(s, p, z)
<1>1. PICK z \in Cells : z = q \o x
  BY Concat
<1>2. (p \o q) \o x = p \o (q \o x)
  BY ConcatRegroup, ZenonT(60)
<1>3. s = p \o z
  BY <1>1, <1>2 DEF Parts
<1> QED
  BY <1>1, <1>3 DEF Parts

\* First parts of one length are alike.
LEMMA PartsAlign ==
    ASSUME NEW s, NEW a \in Cells, NEW x \in Cells, NEW b \in Cells, NEW y \in Cells,
           Parts(s, a, x), Parts(s, b, y), Len(a) = Len(b)
    PROVE  a = b /\ x = y
BY CellsAlign DEF Parts

\* Behind six cells of c comes w.
Ends(c, w, n) == Len(w) = n /\ Len(c) = 6 + n /\ \A i \in 1..n : c[6 + i] = w[i]

\* A header in front is that of the first item.
LEMMA HeadCells ==
    ASSUME NEW s, NEW f \in Cells, NEW y \in Cells, NEW c \in Cells, NEW l \in Cells, NEW w \in Cells,
           Parts(s, f, y), Parts(s, c, l), Len(f) = 6, NEW n \in Nat, Ends(c, w, n)
    PROVE  (\A i \in 1..6 : f[i] = c[i]) /\ Parts(y, w, l)
<1>1. n = Len(w) /\ Len(c) = 6 + n /\ \A i \in 1..n : c[6 + i] = w[i]
  BY DEF Ends
<1>2. PICK g \in Cells, v \in Cells :
         g = SubSeq(c, 1, 6) /\ v = SubSeq(c, 6 + 1, Len(c)) /\ Len(g) = 6 /\ g \o v = c
  <2>1. 6 \in 0..Len(c)
    BY <1>1
  <2> QED
    <3>1. PICK g \in Cells, v \in Cells : Split(c, 6, g, v)
      BY <2>1, CellsSplit
    <3> QED
      BY <3>1 DEF Split
<1>3. Len(v) = n /\ \A i \in 1..n : v[i] = w[i]
  <2>1. Len(v) \in Nat /\ Len(c) = 6 + Len(v)
    <3>1. Len(g \o v) = Len(g) + Len(v)
      BY Concat
    <3>2. Len(v) \in Nat
      BY DEF Cells
    <3> QED
      BY <1>2, <3>1, <3>2
  <2>2. Len(v) = n
    BY <1>1, <2>1
  <2>3. \A i \in 1..n : c[6 + i] = v[i]
    <3>1. \A i \in 1..Len(v) : (g \o v)[Len(g) + i] = v[i]
      BY ConcatCells
    <3> QED
      BY <1>2, <2>2, <3>1
  <2> QED
    BY <1>1, <2>2, <2>3
<1>4. v = w
  BY <1>1, <1>3, SameCells
<1>5. PICK z \in Cells : Parts(z, w, l) /\ Parts(s, g, z)
  <2>1. Parts(c, g, w)
    BY <1>2, <1>4 DEF Parts
  <2> QED
    BY <2>1, PartsRegroup
<1>6. f = g /\ y = z
  <2>1. Len(f) = Len(g)
    BY <1>2
  <2> QED
    BY <1>5, <2>1, PartsAlign
<1>7. \A i \in 1..6 : g[i] = c[i]
  BY <1>2, ConcatCells
<1> QED
  BY <1>5, <1>6, <1>7 DEF Parts

\* What comes first in full is cut off whole.
LEMMA FrontCells ==
    ASSUME NEW s, NEW a \in Cells, NEW x \in Cells, NEW w \in Cells, NEW l \in Cells,
           Parts(s, a, x), Parts(s, w, l), NEW p \in Cells, NEW q \in Cells, Parts(a, p, q),
           Len(p) = Len(w)
    PROVE  p = w /\ Parts(l, q, x)
<1>1. PICK z \in Cells : Parts(z, q, x) /\ Parts(s, p, z)
  BY PartsRegroup
<1>2. p = w /\ z = l
  BY <1>1, PartsAlign
<1> QED
  BY <1>1, <1>2 DEF Parts

\* Sums of the first chunks.
IsFlat(g, chunks, n) ==
    g \in [0..n -> Cells] /\ g[0] = <<>> /\ \A i \in 0..(n - 1) : g[i + 1] = g[i] \o chunks[i + 1]

\* The sums of the first chunks exist.
LEMMA FlatExists ==
    ASSUME NEW chunks \in Seq(Cells) PROVE \E g : IsFlat(g, chunks, Len(chunks))
<1> DEFINE n == Len(chunks)
           Good == {i \in 0..n : \E g : IsFlat(g, chunks, i)}
<1>1. 0 \in Good
  <2> DEFINE g == [i \in 0..0 |-> <<>>]
  <2>1. IsFlat(g, chunks, 0)
    <3>1. 0..(0 - 1) = {} /\ <<>> \in Cells
      BY EmptySeq DEF Cells
    <3> QED
      BY <3>1 DEF IsFlat
  <2> QED
    BY <2>1
<1>2. ASSUME NEW i \in 0..(n - 1), i \in Good PROVE i + 1 \in Good
  <2>1. PICK g : IsFlat(g, chunks, i)
    BY <1>2
  <2> DEFINE h == [k \in 0..(i + 1) |-> IF k = i + 1 THEN g[i] \o chunks[i + 1] ELSE g[k]]
  <2>2. i \in Nat /\ i + 1 \in 1..n /\ i \in 0..i
    OBVIOUS
  <2>3. g[i] \o chunks[i + 1] \in Cells
    BY <2>1, <2>2, Concat DEF IsFlat
  <2>4. h \in [0..(i + 1) -> Cells] /\ h[0] = <<>>
    BY <2>1, <2>2, <2>3 DEF IsFlat
  <2>5. ASSUME NEW k \in 0..((i + 1) - 1) PROVE h[k + 1] = h[k] \o chunks[k + 1]
    <3>1. k \in 0..i /\ k # i + 1 /\ h[k] = g[k]
      BY <2>2
    <3>2. CASE k = i
      BY <2>2, <3>1, <3>2
    <3>3. CASE k # i
      <4>1. k \in 0..(i - 1) /\ k + 1 # i + 1 /\ k + 1 \in 0..(i + 1)
        BY <2>2, <3>1, <3>3
      <4> QED
        BY <2>1, <3>1, <4>1 DEF IsFlat
    <3> QED
      BY <3>2, <3>3
  <2> HIDE DEF h
  <2>6. IsFlat(h, chunks, i + 1)
    BY <2>4, <2>5 DEF IsFlat
  <2> QED
    BY <2>2, <2>6
<1> HIDE DEF Good
<1>3. n \in Nat /\ n \in 0..n
  OBVIOUS
<1> HIDE DEF n
<1>4. n \in Good
  BY <1>1, <1>2, <1>3, UpTo
<1> QED
  BY <1>4 DEF Good, n

\* FlattenSeq is the last of those sums.
LEMMA FlatIsFlatten ==
    ASSUME NEW chunks \in Seq(Cells), NEW g, IsFlat(g, chunks, Len(chunks))
    PROVE  FlattenSeq(chunks) = g[Len(chunks)] /\ FlattenSeq(chunks) \in Cells
<1>1. PICK n \in Nat : n = Len(chunks)
  OBVIOUS
<1>2. g[n] \in Cells
  BY <1>1 DEF IsFlat
<1>3. CASE n = 0
  <2>1. chunks = <<>>
    BY <1>1, <1>3, EmptySeq
  <2> QED
    BY <1>1, <1>2, <1>3, <2>1 DEF FlattenSeq, IsFlat
<1>4. CASE n > 0
  <2> DEFINE Step(f) == [i \in 1..n |-> IF i = 1 THEN chunks[i] ELSE f[i - 1] \o chunks[i]]
             flatten == CHOOSE f : f = Step(f)
             e == [i \in 1..n |-> g[i]]
  <2>1. e = Step(e)
    <3>1. ASSUME NEW i \in 1..n PROVE e[i] = Step(e)[i]
      <4>1. CASE i = 1
        <5>1. g[1] = g[0] \o chunks[1] /\ g[0] = <<>> /\ chunks[1] \in Cells
          BY <1>1, <4>1 DEF IsFlat
        <5> QED
          BY <4>1, <5>1, Concat
      <4>2. CASE i # 1
        <5>1. i - 1 \in 1..n /\ i - 1 \in 0..(n - 1) /\ (i - 1) + 1 = i
          BY <4>2
        <5>2. g[(i - 1) + 1] = g[i - 1] \o chunks[(i - 1) + 1]
          BY <1>1, <5>1 DEF IsFlat
        <5> QED
          BY <4>2, <5>1, <5>2
      <4> QED
        BY <4>1, <4>2
    <3> QED
      BY <3>1
  <2>2. flatten = Step(flatten)
    BY <2>1
  <2>3. FlattenSeq(chunks) = flatten[n]
    BY <1>1, <1>4 DEF FlattenSeq
  <2> DEFINE Good == {i \in Nat : i \in 1..n => flatten[i] = g[i]}
  <2> HIDE DEF flatten
  <2>4. ASSUME NEW i \in Nat, i \in Good PROVE i + 1 \in Good
    <3> SUFFICES ASSUME i + 1 \in 1..n PROVE flatten[i + 1] = g[i + 1]
      OBVIOUS
    <3>1. g[i + 1] = g[i] \o chunks[i + 1]
      <4>1. i \in 0..(n - 1)
        OBVIOUS
      <4> QED
        BY <1>1, <4>1 DEF IsFlat
    <3>2. CASE i = 0
      <4>1. chunks[1] \in Cells /\ g[0] = <<>>
        BY <1>1, <1>4 DEF IsFlat
      <4> QED
        BY <2>2, <3>1, <3>2, <4>1, Concat
    <3>3. CASE i # 0
      <4>1. i \in 1..n /\ i + 1 # 1 /\ (i + 1) - 1 = i
        BY <3>3
      <4> QED
        BY <2>2, <2>4, <3>1, <4>1
    <3> QED
      BY <3>2, <3>3
  <2>5. 0 \in Good
    OBVIOUS
  <2> HIDE DEF Good
  <2>6. n \in Good
    BY <2>4, <2>5, Forever
  <2> QED
    BY <1>1, <1>2, <1>4, <2>3, <2>6 DEF Good
<1> QED
  BY <1>1, <1>3, <1>4

\* What is left of the chunks and of what follows them, after each chunk.
IsRest(left, chunks, n, rest) ==
    /\ left \in [0..n -> Cells] /\ left[n] = rest
    /\ \A i \in 0..(n - 1) : left[i] = chunks[i + 1] \o left[i + 1]

\* What is left to read after each chunk exists.
LEMMA RestExists ==
    ASSUME NEW chunks \in Seq(Cells), NEW rest \in Cells
    PROVE  /\ FlattenSeq(chunks) \in Cells
           /\ \E left : /\ IsRest(left, chunks, Len(chunks), rest)
                        /\ left[0] = FlattenSeq(chunks) \o rest
<1>1. PICK n \in Nat : n = Len(chunks)
  OBVIOUS
<1>2. PICK g : IsFlat(g, chunks, n)
  BY <1>1, FlatExists
<1>3. FlattenSeq(chunks) = g[n] /\ FlattenSeq(chunks) \in Cells
  BY <1>1, <1>2, FlatIsFlatten
<1> DEFINE Has(i, r) == \E left : IsRest(left, chunks, i, r) /\ left[0] = g[i] \o r
           Good == {i \in 0..n : \A r \in Cells : Has(i, r)}
<1>4. 0 \in Good
  <2> SUFFICES ASSUME NEW r \in Cells PROVE Has(0, r)
    OBVIOUS
  <2> DEFINE left == [i \in 0..0 |-> r]
  <2>1. 0..(0 - 1) = {} /\ g[0] = <<>> /\ <<>> \o r = r
    BY <1>2, Concat DEF IsFlat
  <2>2. IsRest(left, chunks, 0, r) /\ left[0] = g[0] \o r
    BY <2>1 DEF IsRest
  <2> QED
    BY <2>2
<1>5. ASSUME NEW i \in 0..(n - 1), i \in Good PROVE i + 1 \in Good
  <2> SUFFICES ASSUME NEW r \in Cells PROVE Has(i + 1, r)
    BY SMTT(30)
  <2>1. /\ i \in Nat /\ i + 1 \in 1..n /\ chunks[i + 1] \in Cells
        /\ g[i] \in Cells /\ g[i + 1] = g[i] \o chunks[i + 1]
    BY <1>1, <1>2 DEF IsFlat
  <2>2. PICK q \in Cells : q = chunks[i + 1] \o r
    BY <2>1, Concat
  <2>3. PICK left : IsRest(left, chunks, i, q) /\ left[0] = g[i] \o q
    BY <1>5
  <2> DEFINE more == [k \in 0..(i + 1) |-> IF k = i + 1 THEN r ELSE left[k]]
  <2>4. left \in [0..i -> Cells] /\ left[i] = q
        /\ \A k \in 0..(i - 1) : left[k] = chunks[k + 1] \o left[k + 1]
    BY <2>3 DEF IsRest
  <2>5. more \in [0..(i + 1) -> Cells] /\ more[i + 1] = r /\ more[0] = left[0]
    BY <2>1, <2>4
  <2>6. ASSUME NEW k \in 0..((i + 1) - 1) PROVE more[k] = chunks[k + 1] \o more[k + 1]
    <3>1. k \in 0..i /\ k # i + 1 /\ more[k] = left[k]
      BY <2>1
    <3>2. CASE k = i
      BY <2>2, <2>4, <2>5, <3>1, <3>2
    <3>3. CASE k # i
      <4>1. k \in 0..(i - 1) /\ k + 1 # i + 1 /\ k + 1 \in 0..(i + 1)
        BY <2>1, <3>1, <3>3
      <4> QED
        BY <2>4, <3>1, <4>1
    <3> QED
      BY <3>2, <3>3
  <2>7. left[0] = g[i + 1] \o r
    <3>1. PICK x \in Cells, y \in Cells : x = g[i] /\ y = chunks[i + 1]
      BY <2>1
    <3>2. (x \o y) \o r = x \o (y \o r)
      BY ConcatRegroup, ZenonT(60)
    <3> QED
      BY <2>1, <2>2, <2>3, <3>1, <3>2
  <2> HIDE DEF more
  <2>8. IsRest(more, chunks, i + 1, r)
    BY <2>5, <2>6 DEF IsRest
  <2> QED
    BY <2>5, <2>7, <2>8
<1> HIDE DEF Good
<1>6. n \in Good
  <2>1. n \in 0..n
    OBVIOUS
  <2> QED
    BY <1>4, <1>5, <2>1, UpTo
<1> QED
  BY <1>1, <1>3, <1>6 DEF Good

-----------------------------------------------------------------------------
(* Numbers and strings. *)

\* What a reader that has not failed returns.
LEMMA ReadsFields ==
    ASSUME NEW value, NEW rest
    PROVE  /\ Reads(value, rest).error = "none"
           /\ Reads(value, rest).value = value
           /\ Reads(value, rest).rest = rest
BY DEF Reads

\* A cell is read back, whatever follows it.
LEMMA CellReads ==
    ASSUME NEW n \in Nat, NEW rest \in Cells
    PROVE  ReadCell(<<n>> \o rest) = Reads(n, rest) /\ <<n>> \o rest \in Cells
<1>1. /\ <<n>> \o rest # <<>> /\ Head(<<n>> \o rest) = n /\ Tail(<<n>> \o rest) = rest
      /\ <<n>> \o rest \in Seq(Nat)
  BY DEF Cells
<1> QED
  BY <1>1 DEF ReadCell, Cells

\* Bytes written behind their length are read back, whatever follows.
LEMMA ByteArrayReads ==
    ASSUME NEW s \in Cells, NEW rest \in Cells
    PROVE  /\ ReadByteArray(WriteByteArray(s) \o rest) = Reads(s, rest)
           /\ WriteByteArray(s) \in Cells
<1>1. Len(s) \in Nat /\ s \o rest \in Cells
  BY Concat DEF Cells
<1>2. WriteByteArray(s) \o rest = <<Len(s)>> \o (s \o rest) /\ WriteByteArray(s) \in Cells
  BY DEF WriteByteArray, Cells
<1>3. ReadCell(WriteByteArray(s) \o rest) = Reads(Len(s), s \o rest)
  BY <1>1, <1>2, CellReads
<1>4. ReadBytes(Len(s), s \o rest) = Reads(s, rest)
  <2>1. SubSeq(s \o rest, 1, Len(s)) = s
    BY DEF Cells
  <2>2. SubSeq(s \o rest, Len(s) + 1, Len(s \o rest)) = rest
    BY DEF Cells
  <2>3. ~(Len(s) > Len(s \o rest))
    BY DEF Cells
  <2> QED
    BY <2>1, <2>2, <2>3 DEF ReadBytes
<1>5. ReadByteArray(WriteByteArray(s) \o rest) = ReadBytes(Len(s), s \o rest)
  BY <1>3, ReadsFields DEF ReadByteArray, Then
<1> QED
  BY <1>2, <1>4, <1>5

\* A string that was written is read back, whatever follows.
LEMMA StringReads ==
    ASSUME NEW s \in Strings, NEW rest \in Cells
    PROVE  ReadString(WriteString(s) \o rest) = Reads(s, rest) /\ WriteString(s) \in Cells
<1>1. s \in Cells /\ IsUtf8(s) /\ WriteString(s) = WriteByteArray(s)
  BY DEF Strings, Cells, WriteString, WriteByteArray
<1>2. ReadByteArray(WriteString(s) \o rest) = Reads(s, rest)
  BY <1>1, ByteArrayReads
<1> QED
  BY <1>1, <1>2, ByteArrayReads, ReadsFields DEF ReadString, Then

\* A flag that was written is read back, whatever follows.
LEMMA BoolReads ==
    ASSUME NEW flag \in BOOLEAN, NEW rest \in Cells
    PROVE  ReadBool(WriteBool(flag) \o rest) = Reads(flag, rest) /\ WriteBool(flag) \in Cells
<1> DEFINE n == IF flag THEN 1 ELSE 0
<1>1. n \in {0, 1} /\ WriteBool(flag) = <<n>> /\ (n = 1) = flag
  BY DEF WriteBool
<1>2. ReadCell(<<n>> \o rest) = Reads(n, rest)
  BY <1>1, CellReads
<1>3. <<n>> \in Cells
  BY <1>1 DEF Cells
<1> HIDE DEF n
<1> QED
  BY <1>1, <1>2, <1>3, ReadsFields DEF ReadBool, Then

-----------------------------------------------------------------------------
(***************************************************************************)
(* Lists.  A list is read back if each of its items is, whatever follows.  *)
(***************************************************************************)

\* Whatever follows them, these cells read as this value.
ReadsAs(item, cells, value) == \A rest \in Cells : item[cells \o rest] = Reads(value, rest)

EachReadsAs(item, chunks, values) ==
    Len(values) = Len(chunks) /\ \A i \in 1..Len(chunks) : ReadsAs(item, chunks[i], values[i])

\* The length in front of a list, and the cells left after each item.
LEMMA ManyCells ==
    ASSUME NEW chunks \in Seq(Cells), NEW rest \in Cells
    PROVE  /\ WriteMany(chunks) \in Cells
           /\ \E left : /\ IsRest(left, chunks, Len(chunks), rest)
                        /\ ReadCell(WriteMany(chunks) \o rest) = Reads(Len(chunks), left[0])
<1>1. PICK n \in Nat : n = Len(chunks)
  OBVIOUS
<1>2. PICK flat \in Cells : flat = FlattenSeq(chunks)
  BY RestExists
<1>3. PICK left : IsRest(left, chunks, Len(chunks), rest) /\ left[0] = flat \o rest
  BY <1>2, RestExists
<1>4. PICK one \in Cells : one = <<n>>
  <2>1. <<n>> \in Cells
    BY <1>1 DEF Cells
  <2> QED
    BY <2>1
<1>5. WriteMany(chunks) = one \o flat /\ one \o flat \in Cells
  BY <1>1, <1>2, <1>4, Concat DEF WriteMany
<1>6. (one \o flat) \o rest = one \o (flat \o rest)
  BY ConcatRegroup, ZenonT(60)
<1>7. flat \o rest \in Cells
  BY Concat
<1>8. WriteMany(chunks) \o rest = <<n>> \o left[0] /\ left[0] \in Cells
  BY <1>3, <1>4, <1>5, <1>6, <1>7
<1>9. ReadCell(WriteMany(chunks) \o rest) = Reads(n, left[0])
  BY <1>1, <1>8, CellReads
<1> QED
  BY <1>1, <1>3, <1>5, <1>9

\* The first items of a list.
LEMMA FirstItems ==
    ASSUME NEW S, NEW values \in Seq(S)
    PROVE  /\ SubSeq(values, 1, 0) = <<>>
           /\ SubSeq(values, 1, Len(values)) = values
           /\ \A i \in 0..(Len(values) - 1) :
                 Append(SubSeq(values, 1, i), values[i + 1]) = SubSeq(values, 1, i + 1)
<1>1. SubSeq(values, 1, 0) = <<>> /\ SubSeq(values, 1, Len(values)) = values
  BY SubSeqEmpty, SubSeqFull
<1>2. ASSUME NEW i \in 0..(Len(values) - 1)
      PROVE  Append(SubSeq(values, 1, i), values[i + 1]) = SubSeq(values, 1, i + 1)
  <2> DEFINE u == Append(SubSeq(values, 1, i), values[i + 1])
             v == SubSeq(values, 1, i + 1)
  <2>1. u \in Seq(S) /\ Len(u) = i + 1 /\ \A k \in 1..(i + 1) : u[k] = values[k]
    OBVIOUS
  <2>2. v \in Seq(S) /\ Len(v) = i + 1 /\ \A k \in 1..(i + 1) : v[k] = values[k]
    OBVIOUS
  <2> HIDE DEF u, v
  <2>3. u = v
    BY <2>1, <2>2, SeqEqual
  <2> QED
    BY <2>3 DEF u, v
<1> QED
  BY <1>1, <1>2

\* One item behind those of read.
ItemAfter(item, read) ==
    Then(read, LAMBDA items, left :
        Then(item[left], LAMBDA value, rest : Reads(Append(items, value), rest)))

\* The state of reading after each field, found by any function that goes on so.
LEMMA FieldsAre ==
    ASSUME NEW n \in Nat, NEW readers, Len(readers) = n, NEW input, NEW e, e[0] = Reads(<<>>, input),
           \A i \in 0..(n - 1) : ItemAfter(readers[i + 1], e[i]) = e[i + 1]
    PROVE  ReadFields(readers, input) = e[n]
<1> DEFINE Step(f) == [i \in 0..n |-> IF i = 0 THEN Reads(<<>>, input) ELSE ItemAfter(readers[i], f[i - 1])]
           read == CHOOSE f : f = Step(f)
           g == [i \in 0..n |-> e[i]]
<1>1. g = Step(g)
  <2>1. ASSUME NEW i \in 0..n PROVE g[i] = Step(g)[i]
    <3>1. CASE i = 0
      BY <3>1
    <3>2. CASE i # 0
      <4>1. i - 1 \in 0..(n - 1) /\ (i - 1) + 1 = i /\ i - 1 \in 0..n
        BY <3>2
      <4>2. ItemAfter(readers[i], e[i - 1]) = e[i]
        BY <4>1
      <4>3. g[i - 1] = e[i - 1] /\ g[i] = e[i]
        BY <4>1
      <4> QED
        BY <3>2, <4>2, <4>3
    <3> QED
      BY <3>1, <3>2
  <2> QED
    BY <2>1
<1>2. read = Step(read)
  BY <1>1
<1>3. ReadFields(readers, input) = read[n]
  BY DEF ReadFields, ItemAfter
<1> HIDE DEF read
<1>4. read[0] = e[0]
  BY <1>2
<1>5. ASSUME NEW i \in 0..(n - 1), read[i] = e[i] PROVE read[i + 1] = e[i + 1]
  <2>1. i + 1 \in 0..n /\ i + 1 # 0 /\ (i + 1) - 1 = i
    OBVIOUS
  <2>2. read[i + 1] = ItemAfter(readers[i + 1], read[i])
    BY <1>2, <2>1
  <2> QED
    BY <1>5, <2>2
<1>6. read[n] = e[n]
  BY <1>4, <1>5, Alike
<1> QED
  BY <1>3, <1>6

\* The same for items, which have one reader.
LEMMA ItemsAre ==
    ASSUME NEW n \in Nat, NEW item, NEW input, NEW e, e[0] = Reads(<<>>, input),
           \A i \in 0..(n - 1) : ItemAfter(item, e[i]) = e[i + 1]
    PROVE  ReadItems(item, n, input) = e[n]
<1>1. PICK readers : readers = [i \in 1..n |-> item]
  OBVIOUS
<1>2. Len(readers) = n
  BY <1>1
<1>3. ASSUME NEW i \in 0..(n - 1) PROVE ItemAfter(readers[i + 1], e[i]) = e[i + 1]
  <2>1. i + 1 \in 1..n /\ readers[i + 1] = item
    BY <1>1
  <2> QED
    BY <2>1
<1>4. ReadFields(readers, input) = e[n]
  BY <1>2, <1>3, FieldsAre
<1> QED
  BY <1>1, <1>4 DEF ReadItems

\* Each chunk starts an input that reads as its value and leaves the rest.
LEMMA ItemsRead ==
    ASSUME NEW item, NEW chunks \in Seq(Cells), NEW S, NEW values \in Seq(S),
           EachReadsAs(item, chunks, values),
           NEW rest \in Cells, NEW left, IsRest(left, chunks, Len(chunks), rest)
    PROVE  ReadItems(item, Len(chunks), left[0]) = Reads(values, rest)
<1>1. PICK n \in Nat : n = Len(chunks) /\ n = Len(values)
  BY DEF EachReadsAs
<1> DEFINE e == [i \in 0..n |-> Reads(SubSeq(values, 1, i), left[i])]
<1>2. ASSUME NEW i \in 0..(n - 1) PROVE ItemAfter(item, e[i]) = e[i + 1]
  <2>1. i \in 0..n /\ i + 1 \in 0..n /\ i + 1 \in 1..n
    OBVIOUS
  <2>2. left[i] = chunks[i + 1] \o left[i + 1] /\ left[i + 1] \in Cells
    BY <1>1, <2>1 DEF IsRest
  <2>3. item[left[i]] = Reads(values[i + 1], left[i + 1])
    BY <1>1, <2>1, <2>2 DEF ReadsAs, EachReadsAs
  <2>4. e[i] = Reads(SubSeq(values, 1, i), left[i])
    BY <2>1
  <2>5. e[i + 1] = Reads(Append(SubSeq(values, 1, i), values[i + 1]), left[i + 1])
    BY <1>1, <2>1, FirstItems
  <2> HIDE DEF e
  <2>6. ItemAfter(item, e[i]) = Reads(Append(SubSeq(values, 1, i), values[i + 1]), left[i + 1])
    BY <2>3, <2>4, ReadsFields DEF ItemAfter, Then
  <2> QED
    BY <2>5, <2>6
<1>3. e[0] = Reads(<<>>, left[0])
  <2>1. 0 \in 0..n /\ SubSeq(values, 1, 0) = <<>>
    BY FirstItems
  <2> QED
    BY <2>1
<1>4. e[n] = Reads(values, rest)
  <2>1. n \in 0..n /\ SubSeq(values, 1, n) = values
    BY <1>1, FirstItems
  <2>2. left[n] = rest
    BY <1>1 DEF IsRest
  <2> QED
    BY <2>1, <2>2
<1> HIDE DEF e
<1>5. ReadItems(item, n, left[0]) = e[n]
  BY <1>2, <1>3, ItemsAre
<1> QED
  BY <1>1, <1>4, <1>5

\* Items that each read back do so when written behind their number.
LEMMA ManyReads ==
    ASSUME NEW item, NEW chunks \in Seq(Cells), NEW S, NEW values \in Seq(S),
           EachReadsAs(item, chunks, values),
           NEW rest \in Cells
    PROVE  ReadMany(item, WriteMany(chunks) \o rest) = Reads(values, rest)
<1>1. PICK left : /\ IsRest(left, chunks, Len(chunks), rest)
                  /\ ReadCell(WriteMany(chunks) \o rest) = Reads(Len(chunks), left[0])
  BY ManyCells
<1>2. ReadItems(item, Len(chunks), left[0]) = Reads(values, rest)
  BY <1>1, ItemsRead
<1>3. ReadMany(item, WriteMany(chunks) \o rest) = ReadItems(item, Len(chunks), left[0])
  BY <1>1, ReadsFields DEF ReadMany, Then
<1> QED
  BY <1>2, <1>3

-----------------------------------------------------------------------------
(* Maps and sets. *)

\* An entry of a map reads back if its value does.
LEMMA EntryReads ==
    ASSUME NEW value, NEW k \in Strings, NEW v, NEW cells \in Cells, ReadsAs(value, cells, v),
           NEW rest \in Cells
    PROVE  /\ ReadEntry(value, (WriteString(k) \o cells) \o rest) = Reads(<<k, v>>, rest)
           /\ WriteString(k) \o cells \in Cells
<1>1. WriteString(k) \in Cells /\ cells \o rest \in Cells /\ WriteString(k) \o cells \in Cells
  BY StringReads, Concat
<1>2. (WriteString(k) \o cells) \o rest = WriteString(k) \o (cells \o rest)
  <2>1. PICK s \in Cells : s = WriteString(k)
    BY <1>1
  <2>2. (s \o cells) \o rest = s \o (cells \o rest)
    BY ConcatRegroup, Zenon
  <2> QED
    BY <2>1, <2>2, Zenon
<1>3. ReadString(WriteString(k) \o (cells \o rest)) = Reads(k, cells \o rest)
  BY <1>1, StringReads
<1>4. ReadEntry(value, WriteString(k) \o (cells \o rest)) = Reads(<<k, v>>, rest)
  BY <1>3, ReadsFields DEF ReadEntry, Then, ReadsAs
<1> QED
  BY <1>1, <1>2, <1>4

\* The list has each element of K once.
Enumerates(keys, K) ==
    /\ keys \in Seq(K)
    /\ \A i, j \in 1..Len(keys) : keys[i] = keys[j] => i = j
    /\ \A k \in K : \E i \in 1..Len(keys) : keys[i] = k

Entries(keys, map) == [i \in DOMAIN keys |-> <<keys[i], map[keys[i]]>>]

\* Entries with different keys make the map they come from.
LEMMA MapOfEntries ==
    ASSUME NEW K, NEW V, NEW keys, Enumerates(keys, K), NEW map \in [K -> V]
    PROVE  MapOf(Entries(keys, map)) = map
<1> USE DEF Enumerates
<1> DEFINE entries == Entries(keys, map)
           D == {entries[i][1] : i \in DOMAIN entries}
           Final(k, i) == entries[i][1] = k /\ \A j \in (i + 1)..Len(entries) : entries[j][1] # k
<1>1. /\ DOMAIN entries = 1..Len(keys) /\ Len(entries) = Len(keys)
      /\ \A i \in 1..Len(keys) : entries[i][1] = keys[i] /\ entries[i][2] = map[keys[i]] /\ keys[i] \in K
  BY DEF Entries
<1> HIDE DEF entries
<1>2. D = K
  BY <1>1
<1>3. ASSUME NEW k \in K
      PROVE  entries[CHOOSE i \in DOMAIN entries : Final(k, i)][2] = map[k]
  <2>1. PICK i \in 1..Len(keys) : keys[i] = k
    OBVIOUS
  <2>2. i \in DOMAIN entries /\ Final(k, i)
    BY <1>1, <2>1
  <2>3. PICK h : h = CHOOSE j \in DOMAIN entries : Final(k, j)
    OBVIOUS
  <2>4. h \in DOMAIN entries /\ Final(k, h)
    BY <2>2, <2>3
  <2>5. entries[h][2] = map[k]
    BY <1>1, <2>4
  <2> QED
    BY <2>3, <2>5
<1> DEFINE value(k) == entries[CHOOSE i \in DOMAIN entries : Final(k, i)][2]
<1>4. MapOf(entries) = [k \in D |-> value(k)]
  BY DEF MapOf
<1>5. D = K /\ \A k \in K : value(k) = map[k]
  BY <1>2, <1>3
<1> HIDE DEF D, value
<1>6. [k \in D |-> value(k)] = [k \in K |-> map[k]]
  BY <1>5
<1> QED
  BY <1>4, <1>6 DEF entries

\* A map is read back if its values are.
LEMMA MapReads ==
    ASSUME NEW value, NEW K, IsFiniteSet(K), K \subseteq Strings,
           NEW V, NEW map \in [K -> V], NEW cells \in [K -> Cells],
           \A k \in K : ReadsAs(value, cells[k], map[k]),
           NEW rest \in Cells
    PROVE  /\ ReadMap(value, WriteMap(cells) \o rest) = Reads(map, rest)
           /\ WriteMap(cells) \in Cells
<1>1. PICK keys : keys = Ordered(K)
  OBVIOUS
<1>2. Enumerates(keys, K)
  <2>1. K \subseteq Seq(Nat)
    BY DEF Strings, Cells
  <2> QED
    BY <1>1, <2>1, OrderedLists DEF Enumerates
<1> DEFINE chunks == [i \in DOMAIN keys |-> WriteString(keys[i]) \o cells[keys[i]]]
           entries == Entries(keys, map)
           Entry == {<<k, map[k]>> : k \in K}
           item == [left \in Seq(Nat) |-> ReadEntry(value, left)]
<1>3. DOMAIN keys = 1..Len(keys) /\ Len(keys) \in Nat /\ keys \in Seq(K)
  BY <1>2 DEF Enumerates
<1>4. ASSUME NEW i \in 1..Len(keys)
      PROVE  /\ chunks[i] \in Cells
             /\ \A r \in Cells : ReadEntry(value, chunks[i] \o r) = Reads(entries[i], r)
  <2>1. keys[i] \in K /\ keys[i] \in Strings /\ cells[keys[i]] \in Cells
    BY <1>3
  <2>2. chunks[i] = WriteString(keys[i]) \o cells[keys[i]] /\ entries[i] = <<keys[i], map[keys[i]]>>
    BY <1>3 DEF Entries
  <2>3. ReadsAs(value, cells[keys[i]], map[keys[i]])
    BY <2>1
  <2>4. WriteString(keys[i]) \o cells[keys[i]] \in Cells
    BY <2>1, StringReads, Concat
  <2> HIDE DEF chunks, entries
  <2>5. ASSUME NEW r \in Cells
        PROVE  ReadEntry(value, (WriteString(keys[i]) \o cells[keys[i]]) \o r)
                  = Reads(<<keys[i], map[keys[i]]>>, r)
    BY <2>1, <2>3, EntryReads
  <2> QED
    BY <2>2, <2>4, <2>5
<1>5. chunks \in Seq(Cells) /\ Len(chunks) = Len(keys)
  <2>1. chunks = [i \in 1..Len(keys) |-> chunks[i]]
    BY <1>3
  <2>2. \A i \in 1..Len(keys) : chunks[i] \in Cells
    BY <1>4
  <2> HIDE DEF chunks
  <2> QED
    BY <1>3, <2>1, <2>2
<1>6. entries \in Seq(Entry) /\ Len(entries) = Len(keys)
  BY <1>3 DEF Entries
<1>7. WriteMap(cells) = WriteMany(chunks)
  BY <1>1 DEF WriteMap
<1>8. MapOf(entries) = map
  BY <1>2, MapOfEntries
<1> HIDE DEF chunks, entries, Entry
<1>9. ASSUME NEW i \in 1..Len(chunks) PROVE ReadsAs(item, chunks[i], entries[i])
  <2> SUFFICES ASSUME NEW r \in Cells PROVE item[chunks[i] \o r] = Reads(entries[i], r)
    BY DEF ReadsAs
  <2>1. chunks[i] \in Cells /\ chunks[i] \o r \in Cells
    BY <1>4, <1>5, <1>9, Concat
  <2>2. item[chunks[i] \o r] = ReadEntry(value, chunks[i] \o r)
    BY <2>1 DEF Cells
  <2> QED
    BY <1>4, <1>5, <2>2
<1> HIDE DEF item
<1>10. ReadMany(item, WriteMany(chunks) \o rest) = Reads(entries, rest)
  BY <1>5, <1>6, <1>9, ManyReads DEF EachReadsAs
<1>11. ReadMap(value, WriteMany(chunks) \o rest) = Reads(MapOf(entries), rest)
  BY <1>10, ReadsFields DEF ReadMap, Then, item
<1> QED
  BY <1>5, <1>7, <1>8, <1>11, ManyCells

\* A string as an item: it is cells and reads back.
LEMMA StringIs ==
    ASSUME NEW s \in Strings PROVE ReadsAs(Reader(ReadString), WriteString(s), s)
<1> SUFFICES ASSUME NEW rest \in Cells
             PROVE  Reader(ReadString)[WriteString(s) \o rest] = Reads(s, rest)
  BY DEF ReadsAs
<1>1. WriteString(s) \o rest \in Seq(Nat)
  BY StringReads, Concat DEF Cells
<1>2. Reader(ReadString)[WriteString(s) \o rest] = ReadString(WriteString(s) \o rest)
  BY <1>1 DEF Reader
<1> QED
  BY <1>2, StringReads

\* A map of strings that was written is read back, whatever follows.
LEMMA StringMapReads ==
    ASSUME NEW map, IsMap(map, Strings), NEW rest \in Cells
    PROVE  /\ ReadStringMap(WriteStringMap(map) \o rest) = Reads(map, rest)
           /\ WriteStringMap(map) \in Cells
<1>1. PICK K \in SUBSET Strings : map \in [K -> Strings] /\ IsFiniteSet(K) /\ K = DOMAIN map
  BY DEF IsMap, StringSets
<1> DEFINE cells == [k \in DOMAIN map |-> WriteString(map[k])]
<1>2. cells \in [K -> Cells] /\ \A k \in K : cells[k] = WriteString(map[k]) /\ map[k] \in Strings
  BY <1>1, StringReads
<1>3. WriteStringMap(map) = WriteMap(cells)
  BY DEF WriteStringMap
<1> HIDE DEF cells
<1>4. ASSUME NEW k \in K PROVE ReadsAs(Reader(ReadString), cells[k], map[k])
  BY <1>2, StringIs
<1>5. ReadMap(Reader(ReadString), WriteMap(cells) \o rest) = Reads(map, rest) /\ WriteMap(cells) \in Cells
  BY <1>1, <1>2, <1>4, MapReads
<1> QED
  BY <1>3, <1>5 DEF ReadStringMap

\* Strings that were written are read back in order, whatever follows.
LEMMA StringArrayReads ==
    ASSUME NEW values \in Seq(Strings), NEW rest \in Cells
    PROVE  /\ ReadStringArray(WriteStringArray(values) \o rest) = Reads(values, rest)
           /\ WriteStringArray(values) \in Cells
<1> DEFINE chunks == [i \in DOMAIN values |-> WriteString(values[i])]
<1>1. \A i \in 1..Len(values) : chunks[i] = WriteString(values[i]) /\ values[i] \in Strings
  OBVIOUS
<1>2. chunks \in Seq(Cells) /\ Len(chunks) = Len(values)
  <2>1. \A i \in 1..Len(values) : WriteString(values[i]) \in Cells
    BY <1>1, StringReads
  <2> QED
    BY <2>1
<1>3. WriteStringArray(values) = WriteMany(chunks)
  BY DEF WriteStringArray
<1> HIDE DEF chunks
<1>4. EachReadsAs(Reader(ReadString), chunks, values)
  BY <1>1, <1>2, StringIs DEF EachReadsAs
<1>5. ReadMany(Reader(ReadString), WriteMany(chunks) \o rest) = Reads(values, rest)
  BY <1>2, <1>4, ManyReads
<1> QED
  BY <1>2, <1>3, <1>5, ManyCells DEF ReadStringArray

\* A list of strings as an item: it is cells and reads back.
LEMMA StringArrayIs ==
    ASSUME NEW values \in Seq(Strings)
    PROVE  ReadsAs(Reader(ReadStringArray), WriteStringArray(values), values)
<1> SUFFICES ASSUME NEW rest \in Cells
             PROVE  Reader(ReadStringArray)[WriteStringArray(values) \o rest] = Reads(values, rest)
  BY DEF ReadsAs
<1>1. WriteStringArray(values) \o rest \in Seq(Nat)
  BY StringArrayReads, Concat DEF Cells
<1>2. Reader(ReadStringArray)[WriteStringArray(values) \o rest]
         = ReadStringArray(WriteStringArray(values) \o rest)
  BY <1>1 DEF Reader
<1> QED
  BY <1>2, StringArrayReads

\* A map of lists that was written is read back, whatever follows.
LEMMA StringListMapReads ==
    ASSUME NEW map, IsMap(map, Seq(Strings)), NEW rest \in Cells
    PROVE  /\ ReadStringListMap(WriteStringListMap(map) \o rest) = Reads(map, rest)
           /\ WriteStringListMap(map) \in Cells
<1>1. PICK K \in SUBSET Strings : map \in [K -> Seq(Strings)] /\ IsFiniteSet(K) /\ K = DOMAIN map
  BY DEF IsMap, StringSets
<1> DEFINE cells == [k \in DOMAIN map |-> WriteStringArray(map[k])]
<1>2. /\ cells \in [K -> Cells]
      /\ \A k \in K : cells[k] = WriteStringArray(map[k]) /\ map[k] \in Seq(Strings)
  BY <1>1, StringArrayReads
<1>3. WriteStringListMap(map) = WriteMap(cells)
  BY DEF WriteStringListMap
<1> HIDE DEF cells
<1>4. ASSUME NEW k \in K PROVE ReadsAs(Reader(ReadStringArray), cells[k], map[k])
  BY <1>2, StringArrayIs
<1>5. /\ ReadMap(Reader(ReadStringArray), WriteMap(cells) \o rest) = Reads(map, rest)
      /\ WriteMap(cells) \in Cells
  BY <1>1, <1>2, <1>4, MapReads
<1> QED
  BY <1>3, <1>5 DEF ReadStringListMap

\* A set that was written in its order is read back, whatever follows.
LEMMA StringSetReads ==
    ASSUME NEW items \in StringSets, NEW rest \in Cells
    PROVE  /\ ReadStringSet(WriteStringSet(items) \o rest) = Reads(items, rest)
           /\ WriteStringSet(items) \in Cells
<1>1. PICK values : values = Ordered(items)
  OBVIOUS
<1>2. Enumerates(values, items)
  <2>1. items \subseteq Seq(Nat) /\ IsFiniteSet(items)
    BY DEF StringSets, Strings, Cells
  <2> QED
    BY <1>1, <2>1, OrderedLists DEF Enumerates
<1>3. values \in Seq(Strings)
  BY <1>2 DEF Enumerates, StringSets
<1>4. ToSet(values) = items
  BY <1>2 DEF Enumerates, ToSet
<1>5. /\ ReadStringArray(WriteStringSet(items) \o rest) = Reads(values, rest)
      /\ WriteStringSet(items) \in Cells
  BY <1>1, <1>3, StringArrayReads DEF WriteStringSet
<1> QED
  BY <1>4, <1>5, ReadsFields DEF ReadStringSet, Then

\* A set of strings as an item: it is cells and reads back.
LEMMA StringSetIs ==
    ASSUME NEW items \in StringSets
    PROVE  ReadsAs(Reader(ReadStringSet), WriteStringSet(items), items)
<1> SUFFICES ASSUME NEW rest \in Cells
             PROVE  Reader(ReadStringSet)[WriteStringSet(items) \o rest] = Reads(items, rest)
  BY DEF ReadsAs
<1>1. WriteStringSet(items) \o rest \in Seq(Nat)
  BY StringSetReads, Concat DEF Cells
<1>2. Reader(ReadStringSet)[WriteStringSet(items) \o rest]
         = ReadStringSet(WriteStringSet(items) \o rest)
  BY <1>1 DEF Reader
<1> QED
  BY <1>2, StringSetReads

\* A map of sets that was written is read back, whatever follows.
LEMMA StringSetMapReads ==
    ASSUME NEW map, IsMap(map, StringSets), NEW rest \in Cells
    PROVE  /\ ReadStringSetMap(WriteStringSetMap(map) \o rest) = Reads(map, rest)
           /\ WriteStringSetMap(map) \in Cells
<1>1. PICK K \in SUBSET Strings : map \in [K -> StringSets] /\ IsFiniteSet(K) /\ K = DOMAIN map
  BY DEF IsMap, StringSets
<1> DEFINE cells == [k \in DOMAIN map |-> WriteStringSet(map[k])]
<1>2. /\ cells \in [K -> Cells]
      /\ \A k \in K : cells[k] = WriteStringSet(map[k]) /\ map[k] \in StringSets
  BY <1>1, StringSetReads
<1>3. WriteStringSetMap(map) = WriteMap(cells)
  BY DEF WriteStringSetMap
<1> HIDE DEF cells
<1>4. ASSUME NEW k \in K PROVE ReadsAs(Reader(ReadStringSet), cells[k], map[k])
  BY <1>2, StringSetIs
<1>5. /\ ReadMap(Reader(ReadStringSet), WriteMap(cells) \o rest) = Reads(map, rest)
      /\ WriteMap(cells) \in Cells
  BY <1>1, <1>2, <1>4, MapReads
<1> QED
  BY <1>3, <1>5 DEF ReadStringSetMap

\* Without input every reader ends early.
LEMMA NothingToRead ==
    /\ Fails("eof").error = "eof"
    /\ ReadCell(<<>>) = Fails("eof") /\ ReadString(<<>>) = Fails("eof")
    /\ \A item : ReadMany(item, <<>>) = Fails("eof") /\ ReadMap(item, <<>>) = Fails("eof")
<1>1. ReadCell(<<>>) = Fails("eof") /\ Fails("eof").error = "eof"
  BY DEF ReadCell, Fails
<1>2. ReadString(<<>>) = Fails("eof")
  BY <1>1 DEF ReadString, ReadByteArray, Then
<1>3. \A item : ReadMany(item, <<>>) = Fails("eof")
  BY <1>1 DEF ReadMany, Then
<1>4. ASSUME NEW item PROVE ReadMap(item, <<>>) = Fails("eof")
  BY <1>1, <1>3 DEF ReadMap, Then
<1> QED
  BY <1>1, <1>2, <1>3, <1>4

-----------------------------------------------------------------------------
(***************************************************************************)
(* Fields.  They are read back one behind the other if each is; they are   *)
(* refused if one is.                                                      *)
(***************************************************************************)

FirstFieldsRead(readers, chunks, values, n) ==
    \A i \in 1..n : ReadsAs(readers[i], chunks[i], values[i])

\* A field behind others that were read.
LEMMA FieldBehind ==
    ASSUME NEW item, NEW v, NEW r, NEW w, NEW q, item[r] = Reads(w, q)
    PROVE  ItemAfter(item, Reads(v, r)) = Reads(Append(v, w), q)
BY ReadsFields DEF ItemAfter, Then

\* Nothing is read behind an error.
LEMMA ErrorStays ==
    ASSUME NEW item
    PROVE  /\ \A read : read.error # "none" => ItemAfter(item, read) = read
           /\ \A v, r : item[r].error # "none" => ItemAfter(item, Reads(v, r)) = item[r]
<1>1. ASSUME NEW read, read.error # "none" PROVE ItemAfter(item, read) = read
  BY <1>1 DEF ItemAfter, Then
<1>2. ASSUME NEW v, NEW r, item[r].error # "none" PROVE ItemAfter(item, Reads(v, r)) = item[r]
  BY <1>2, ReadsFields DEF ItemAfter, Then
<1> QED
  BY <1>1, <1>2

\* Fields that each read back do so when written one behind the other.
LEMMA FieldsRead ==
    ASSUME NEW n \in Nat, NEW readers, Len(readers) = n, NEW chunks \in Seq(Cells), Len(chunks) = n,
           NEW S, NEW values \in Seq(S), Len(values) = n,
           FirstFieldsRead(readers, chunks, values, n), NEW rest \in Cells,
           NEW input, Parts(input, FlattenSeq(chunks), rest)
    PROVE  ReadFields(readers, input) = Reads(values, rest)
<1>1. PICK left : IsRest(left, chunks, n, rest) /\ left[0] = input
  BY RestExists DEF Parts
<1> DEFINE e == [i \in 0..n |-> Reads(SubSeq(values, 1, i), left[i])]
<1>2. ASSUME NEW i \in 0..(n - 1) PROVE ItemAfter(readers[i + 1], e[i]) = e[i + 1]
  <2>1. i \in 0..n /\ i + 1 \in 0..n /\ i + 1 \in 1..n
    OBVIOUS
  <2>2. left[i] = chunks[i + 1] \o left[i + 1] /\ left[i + 1] \in Cells
    BY <1>1, <2>1 DEF IsRest
  <2>3. readers[i + 1][left[i]] = Reads(values[i + 1], left[i + 1])
    BY <2>1, <2>2 DEF ReadsAs, FirstFieldsRead
  <2>4. e[i] = Reads(SubSeq(values, 1, i), left[i])
    BY <2>1
  <2>5. e[i + 1] = Reads(Append(SubSeq(values, 1, i), values[i + 1]), left[i + 1])
    BY <2>1, FirstItems
  <2> HIDE DEF e
  <2> QED
    BY <2>3, <2>4, <2>5, FieldBehind
<1>3. e[0] = Reads(<<>>, left[0])
  <2>1. 0 \in 0..n /\ SubSeq(values, 1, 0) = <<>>
    BY FirstItems
  <2> QED
    BY <2>1
<1>4. e[n] = Reads(values, rest)
  <2>1. n \in 0..n /\ SubSeq(values, 1, n) = values
    BY FirstItems
  <2>2. left[n] = rest
    BY <1>1 DEF IsRest
  <2> QED
    BY <2>1, <2>2
<1> HIDE DEF e
<1>5. ReadFields(readers, input) = e[n]
  BY <1>1, <1>2, <1>3, FieldsAre
<1> QED
  BY <1>4, <1>5

\* Fields are refused if one of them is, behind others that read back.
LEMMA FieldRefused ==
    ASSUME NEW n \in Nat, NEW readers, Len(readers) = n, NEW chunks \in Seq(Cells), Len(chunks) = n,
           NEW S, NEW values \in Seq(S), Len(values) = n,
           NEW k \in 1..n, FirstFieldsRead(readers, chunks, values, k - 1),
           NEW error, error # "none",
           \A rest \in Cells : readers[k][chunks[k] \o rest] = Fails(error), NEW rest \in Cells,
           NEW input, Parts(input, FlattenSeq(chunks), rest)
    PROVE  ReadFields(readers, input) = Fails(error)
<1>1. PICK left : IsRest(left, chunks, n, rest) /\ left[0] = input
  BY RestExists DEF Parts
<1>2. Fails(error).error # "none"
  BY DEF Fails
<1> DEFINE e == [i \in 0..n |-> IF i < k THEN Reads(SubSeq(values, 1, i), left[i]) ELSE Fails(error)]
<1>3. ASSUME NEW i \in 0..(n - 1) PROVE ItemAfter(readers[i + 1], e[i]) = e[i + 1]
  <2>1. i \in 0..n /\ i + 1 \in 0..n /\ i + 1 \in 1..n
    OBVIOUS
  <2>2. left[i] = chunks[i + 1] \o left[i + 1] /\ left[i + 1] \in Cells
    BY <1>1, <2>1 DEF IsRest
  <2>3. CASE i + 1 < k
    <3>1. i < k /\ i + 1 \in 1..(k - 1)
      BY <2>1, <2>3
    <3>2. readers[i + 1][left[i]] = Reads(values[i + 1], left[i + 1])
      BY <2>2, <3>1 DEF ReadsAs, FirstFieldsRead
    <3>3. e[i] = Reads(SubSeq(values, 1, i), left[i])
      BY <2>1, <3>1
    <3>4. e[i + 1] = Reads(Append(SubSeq(values, 1, i), values[i + 1]), left[i + 1])
      BY <2>1, <2>3, FirstItems
    <3> HIDE DEF e
    <3> QED
      BY <3>2, <3>3, <3>4, FieldBehind
  <2>4. CASE i + 1 = k
    <3>1. readers[i + 1][left[i]] = Fails(error)
      BY <2>2, <2>4
    <3>2. e[i] = Reads(SubSeq(values, 1, i), left[i]) /\ e[i + 1] = Fails(error)
      BY <2>1, <2>4
    <3> HIDE DEF e
    <3> QED
      BY <1>2, <3>1, <3>2, ErrorStays
  <2>5. CASE i + 1 > k
    <3>1. e[i] = Fails(error) /\ e[i + 1] = Fails(error)
      BY <2>1, <2>5
    <3> HIDE DEF e
    <3> QED
      BY <1>2, <3>1, ErrorStays
  <2> QED
    BY <2>1, <2>3, <2>4, <2>5
<1>4. e[0] = Reads(<<>>, left[0])
  <2>1. 0 \in 0..n /\ 0 < k /\ SubSeq(values, 1, 0) = <<>>
    BY FirstItems
  <2> QED
    BY <2>1
<1>5. e[n] = Fails(error)
  OBVIOUS
<1> HIDE DEF e
<1>6. ReadFields(readers, input) = e[n]
  BY <1>1, <1>3, <1>4, FieldsAre
<1> QED
  BY <1>5, <1>6

-----------------------------------------------------------------------------
(***************************************************************************)
(* More input.  What a reader has read without error it reads as well when *)
(* more cells follow, and leaves them.  So a reader that takes all of some *)
(* cells refuses the first part of them.                                   *)
(***************************************************************************)

\* a is what was read, b what is read when y follows.
Further(a, b, y) ==
    a.error = "none" =>
        \E v : \E r, q \in Cells : a = Reads(v, r) /\ b = Reads(v, q) /\ Parts(q, r, y)

GoesOn(item) == \A p, y, s \in Cells : Parts(s, p, y) => Further(item[p], item[s], y)

\* What was read without error, and what is read of more input.
LEMMA FurtherReads ==
    ASSUME NEW a, NEW b, NEW y, Further(a, b, y), a.error = "none"
    PROVE  \E v : \E r, q \in Cells : a = Reads(v, r) /\ b = Reads(v, q) /\ Parts(q, r, y)
BY DEF Further

\* A reader that goes on takes no first part for the whole.
LEMMA CutRefused ==
    ASSUME NEW a, NEW b, NEW y \in Cells, Further(a, b, y), NEW v, b = Reads(v, <<>>), y # <<>>
    PROVE  a.error # "none"
<1> SUFFICES ASSUME a.error = "none" PROVE FALSE
  OBVIOUS
<1>1. PICK w, r, q :
         /\ r \in Cells /\ q \in Cells
         /\ a = Reads(w, r) /\ b = Reads(w, q) /\ Parts(q, r, y)
  BY FurtherReads
<1>2. q = <<>>
  BY <1>1, ReadsFields
<1>3. PICK n \in Nat, m \in Nat : n = Len(r) /\ m = Len(y) /\ m # 0
  BY <1>1 DEF Cells
<1>4. Len(q) = n + m
  BY <1>1, <1>3, Concat DEF Parts
<1>5. Len(q) = 0
  BY <1>2
<1> QED
  BY <1>3, <1>4, <1>5

\* The states of reading fields one after the other.
IsReading(e, readers, input, n) ==
    e[0] = Reads(<<>>, input) /\ \A i \in 0..(n - 1) : ItemAfter(readers[i + 1], e[i]) = e[i + 1]

\* These states exist.
LEMMA ReadingExists ==
    ASSUME NEW n \in Nat, NEW readers, NEW input PROVE \E e : IsReading(e, readers, input, n)
<1> DEFINE Good == {i \in 0..n : \E e : IsReading(e, readers, input, i)}
<1>1. 0 \in Good
  <2> DEFINE e == [i \in {0} |-> Reads(<<>>, input)]
  <2>1. e[0] = Reads(<<>>, input) /\ 0..(0 - 1) = {}
    OBVIOUS
  <2> HIDE DEF e
  <2>2. IsReading(e, readers, input, 0)
    BY <2>1 DEF IsReading
  <2> QED
    BY <2>2
<1>2. ASSUME NEW i \in 0..(n - 1), i \in Good PROVE i + 1 \in Good
  <2>1. PICK e : IsReading(e, readers, input, i)
    BY <1>2
  <2> DEFINE f == [k \in 0..(i + 1) |-> IF k = i + 1 THEN ItemAfter(readers[i + 1], e[i]) ELSE e[k]]
  <2>2. f[0] = Reads(<<>>, input)
    BY <2>1 DEF IsReading
  <2>3. ASSUME NEW k \in 0..((i + 1) - 1) PROVE ItemAfter(readers[k + 1], f[k]) = f[k + 1]
    <3>1. k \in 0..i /\ k # i + 1 /\ f[k] = e[k]
      OBVIOUS
    <3>2. CASE k = i
      <4>1. f[k + 1] = ItemAfter(readers[i + 1], e[i])
        BY <3>2
      <4> QED
        BY <3>1, <3>2, <4>1
    <3>3. CASE k # i
      <4>1. k \in 0..(i - 1) /\ f[k + 1] = e[k + 1]
        BY <3>1, <3>3
      <4>2. ItemAfter(readers[k + 1], e[k]) = e[k + 1]
        BY <2>1, <4>1 DEF IsReading
      <4> QED
        BY <3>1, <4>1, <4>2
    <3> QED
      BY <3>2, <3>3
  <2> HIDE DEF f
  <2>4. IsReading(f, readers, input, i + 1)
    BY <2>2, <2>3 DEF IsReading
  <2>5. i + 1 \in 0..n
    OBVIOUS
  <2> QED
    BY <2>4, <2>5
<1> HIDE DEF Good
<1>3. n \in Good
  <2>1. n \in 0..n
    OBVIOUS
  <2> QED
    BY <1>1, <1>2, <2>1, UpTo
<1> QED
  BY <1>3 DEF Good

\* One field more.
LEMMA FieldGoesOn ==
    ASSUME NEW item, GoesOn(item), NEW a, NEW b, NEW y \in Cells, Further(a, b, y)
    PROVE  Further(ItemAfter(item, a), ItemAfter(item, b), y)
<1> SUFFICES ASSUME ItemAfter(item, a).error = "none"
             PROVE  Further(ItemAfter(item, a), ItemAfter(item, b), y)
  BY DEF Further
<1>1. a.error = "none"
  BY ErrorStays
<1>2. PICK v, r, q :
         /\ r \in Cells /\ q \in Cells
         /\ a = Reads(v, r) /\ b = Reads(v, q) /\ Parts(q, r, y)
  BY <1>1, FurtherReads
<1>3. item[r].error = "none"
  BY <1>2, ErrorStays
<1>4. Further(item[r], item[q], y)
  BY <1>2 DEF GoesOn
<1>5. PICK w, t, u :
         /\ t \in Cells /\ u \in Cells
         /\ item[r] = Reads(w, t) /\ item[q] = Reads(w, u) /\ Parts(u, t, y)
  BY <1>3, <1>4, FurtherReads
<1>6. ItemAfter(item, a) = Reads(Append(v, w), t)
  BY <1>2, <1>5, FieldBehind
<1>7. ItemAfter(item, b) = Reads(Append(v, w), u)
  BY <1>2, <1>5, FieldBehind
<1> QED
  BY <1>5, <1>6, <1>7 DEF Further

\* Fields go on if each does.
LEMMA FieldsGoOn ==
    ASSUME NEW n \in Nat, NEW readers, Len(readers) = n, \A i \in 1..n : GoesOn(readers[i]),
           NEW p \in Cells, NEW y \in Cells, NEW s \in Cells, Parts(s, p, y)
    PROVE  Further(ReadFields(readers, p), ReadFields(readers, s), y)
<1>1. PICK e : IsReading(e, readers, p, n)
  BY ReadingExists
<1>2. PICK d : IsReading(d, readers, s, n)
  BY ReadingExists
<1>3. ReadFields(readers, p) = e[n]
  BY <1>1, FieldsAre DEF IsReading
<1>4. ReadFields(readers, s) = d[n]
  BY <1>2, FieldsAre DEF IsReading
<1> DEFINE Good == {i \in Nat : Further(e[i], d[i], y)}
<1>5. 0 \in Good
  <2>1. e[0] = Reads(<<>>, p) /\ d[0] = Reads(<<>>, s)
    BY <1>1, <1>2 DEF IsReading
  <2>2. Further(e[0], d[0], y)
    BY <2>1 DEF Further
  <2> QED
    BY <2>2
<1>6. ASSUME NEW i \in 0..(n - 1), i \in Good PROVE i + 1 \in Good
  <2>1. Further(e[i], d[i], y) /\ GoesOn(readers[i + 1])
    BY <1>6
  <2>2. ItemAfter(readers[i + 1], e[i]) = e[i + 1] /\ ItemAfter(readers[i + 1], d[i]) = d[i + 1]
    BY <1>1, <1>2 DEF IsReading
  <2>3. Further(e[i + 1], d[i + 1], y)
    BY <2>1, <2>2, FieldGoesOn
  <2> QED
    BY <2>3
<1> HIDE DEF Good
<1>7. n \in Good
  <2>1. n \in 0..n
    OBVIOUS
  <2> QED
    BY <1>5, <1>6, <2>1, UpTo
<1> QED
  BY <1>3, <1>4, <1>7 DEF Good

\* A cell.
LEMMA CellGoesOn ==
    ASSUME NEW p \in Cells, NEW y \in Cells, NEW s \in Cells, Parts(s, p, y),
           ReadCell(p).error = "none"
    PROVE  \E n \in Nat : \E r, q \in Cells :
              ReadCell(p) = Reads(n, r) /\ ReadCell(s) = Reads(n, q) /\ Parts(q, r, y)
<1>1. p # <<>>
  BY DEF ReadCell, Fails
<1>2. PICK n \in Nat, r \in Cells : p = <<n>> \o r
  <2>1. Head(p) \in Nat /\ Tail(p) \in Cells /\ p = <<Head(p)>> \o Tail(p)
    BY <1>1, HeadTailProperties, HeadTailAppend DEF Cells
  <2> QED
    BY <2>1
<1>3. PICK h \in Cells : h = <<n>>
  <2>1. <<n>> \in Cells
    BY DEF Cells
  <2> QED
    BY <2>1
<1>4. PICK q \in Cells : Parts(q, r, y) /\ Parts(s, h, q)
  <2>1. Parts(p, h, r)
    BY <1>2, <1>3 DEF Parts
  <2> QED
    BY <2>1, PartsRegroup
<1>5. ReadCell(p) = Reads(n, r)
  BY <1>2, CellReads
<1>6. ReadCell(s) = Reads(n, q)
  BY <1>3, <1>4, CellReads DEF Parts
<1> QED
  BY <1>4, <1>5, <1>6

\* Bytes of a known number are the first part of the input.
LEMMA BytesAre ==
    ASSUME NEW a \in Cells, NEW x \in Cells, NEW s \in Cells, Parts(s, a, x),
           NEW len \in Nat, len = Len(a)
    PROVE  ReadBytes(len, s) = Reads(a, x)
<1>1. PICK m \in Nat : m = Len(s)
  BY DEF Cells
<1>2. PICK n \in Nat : n = Len(x)
  BY DEF Cells
<1>3. m = len + n
  BY <1>1, <1>2, Concat DEF Parts
<1>4. PICK p \in Cells, q \in Cells : Split(s, len, p, q)
  <2>1. len \in 0..Len(s)
    BY <1>1, <1>3
  <2> QED
    BY <2>1, CellsSplit
<1>5. p = SubSeq(s, 1, len) /\ q = SubSeq(s, len + 1, m) /\ Parts(s, p, q) /\ Len(p) = Len(a)
  BY <1>1, <1>4 DEF Split, Parts
<1>6. p = a /\ q = x
  BY <1>5, PartsAlign, ZenonT(60)
<1>7. ReadBytes(len, s) = Reads(p, q)
  BY <1>1, <1>3, <1>5 DEF ReadBytes
<1> QED
  BY <1>6, <1>7

\* Bytes of a known number.
LEMMA BytesGoOn ==
    ASSUME NEW len \in Nat, NEW p \in Cells, NEW y \in Cells, NEW s \in Cells, Parts(s, p, y)
    PROVE  Further(ReadBytes(len, p), ReadBytes(len, s), y)
<1> SUFFICES ASSUME ReadBytes(len, p).error = "none"
             PROVE  Further(ReadBytes(len, p), ReadBytes(len, s), y)
  BY DEF Further
<1>1. len \in 0..Len(p)
  <2>1. ~(len > Len(p)) /\ Len(p) \in Nat
    BY DEF ReadBytes, Fails, Cells
  <2> QED
    BY <2>1
<1>2. PICK a \in Cells, b \in Cells : Parts(p, a, b) /\ len = Len(a)
  <2>1. PICK a \in Cells, b \in Cells : Split(p, len, a, b)
    BY <1>1, CellsSplit
  <2> QED
    BY <2>1 DEF Split, Parts
<1>3. PICK x \in Cells : Parts(x, b, y) /\ Parts(s, a, x)
  BY <1>2, PartsRegroup
<1>4. ReadBytes(len, p) = Reads(a, b)
  BY <1>2, BytesAre
<1>5. ReadBytes(len, s) = Reads(a, x)
  BY <1>2, <1>3, BytesAre
<1> QED
  BY <1>3, <1>4, <1>5 DEF Further

\* Bytes behind their length.
LEMMA ByteArrayGoesOn ==
    ASSUME NEW p \in Cells, NEW y \in Cells, NEW s \in Cells, Parts(s, p, y)
    PROVE  Further(ReadByteArray(p), ReadByteArray(s), y)
<1> SUFFICES ASSUME ReadByteArray(p).error = "none"
             PROVE  Further(ReadByteArray(p), ReadByteArray(s), y)
  BY DEF Further
<1>1. ReadCell(p).error = "none"
  BY DEF ReadByteArray, Then
<1>2. PICK n \in Nat, r \in Cells, q \in Cells :
         ReadCell(p) = Reads(n, r) /\ ReadCell(s) = Reads(n, q) /\ Parts(q, r, y)
  BY <1>1, CellGoesOn
<1>3. ReadByteArray(p) = ReadBytes(n, r) /\ ReadByteArray(s) = ReadBytes(n, q)
  BY <1>2, ReadsFields DEF ReadByteArray, Then
<1> QED
  BY <1>2, <1>3, BytesGoOn

\* A string.
LEMMA StringGoesOn ==
    ASSUME NEW p \in Cells, NEW y \in Cells, NEW s \in Cells, Parts(s, p, y)
    PROVE  Further(ReadString(p), ReadString(s), y)
<1> SUFFICES ASSUME ReadString(p).error = "none" PROVE Further(ReadString(p), ReadString(s), y)
  BY DEF Further
<1>1. ReadByteArray(p).error = "none"
  BY DEF ReadString, Then
<1>2. Further(ReadByteArray(p), ReadByteArray(s), y)
  BY ByteArrayGoesOn
<1>3. PICK v, r, q :
         /\ r \in Cells /\ q \in Cells
         /\ ReadByteArray(p) = Reads(v, r) /\ ReadByteArray(s) = Reads(v, q) /\ Parts(q, r, y)
  BY <1>1, <1>2, FurtherReads
<1>4. ReadString(p) = IF IsUtf8(v) THEN Reads(v, r) ELSE Fails("data")
  BY <1>3, ReadsFields DEF ReadString, Then
<1>5. ReadString(s) = IF IsUtf8(v) THEN Reads(v, q) ELSE Fails("data")
  BY <1>3, ReadsFields DEF ReadString, Then
<1>6. IsUtf8(v)
  <2>1. Fails("data").error # "none"
    BY DEF Fails
  <2> QED
    BY <1>4, <2>1
<1> QED
  BY <1>3, <1>4, <1>5, <1>6 DEF Further

\* A flag.
LEMMA BoolGoesOn ==
    ASSUME NEW p \in Cells, NEW y \in Cells, NEW s \in Cells, Parts(s, p, y),
           ReadBool(p).error = "none"
    PROVE  \E flag \in BOOLEAN : \E r, q \in Cells :
              ReadBool(p) = Reads(flag, r) /\ ReadBool(s) = Reads(flag, q) /\ Parts(q, r, y)
<1>1. ReadCell(p).error = "none"
  BY DEF ReadBool, Then
<1>2. PICK n \in Nat, r \in Cells, q \in Cells :
         ReadCell(p) = Reads(n, r) /\ ReadCell(s) = Reads(n, q) /\ Parts(q, r, y)
  BY <1>1, CellGoesOn
<1>3. ReadBool(p) = IF n \in {0, 1} THEN Reads(n = 1, r) ELSE Fails("data")
  BY <1>2, ReadsFields DEF ReadBool, Then
<1>4. ReadBool(s) = IF n \in {0, 1} THEN Reads(n = 1, q) ELSE Fails("data")
  BY <1>2, ReadsFields DEF ReadBool, Then
<1>5. n \in {0, 1}
  <2>1. Fails("data").error # "none"
    BY DEF Fails
  <2> QED
    BY <1>3, <2>1
<1>6. PICK flag \in BOOLEAN : flag = (n = 1)
  OBVIOUS
<1> QED
  BY <1>2, <1>3, <1>4, <1>5, <1>6

\* Flags and cells as items.
LEMMA BoolGoesOnAsItem == GoesOn(Reader(ReadBool))
<1>1. \A p, y, s \in Cells : Parts(s, p, y) => Further(ReadBool(p), ReadBool(s), y)
  BY BoolGoesOn DEF Further
<1> QED
  BY <1>1 DEF GoesOn, Reader, Cells

LEMMA CellGoesOnAsItem == GoesOn(Reader(ReadCell))
<1>1. \A p, y, s \in Cells : Parts(s, p, y) => Further(ReadCell(p), ReadCell(s), y)
  BY CellGoesOn DEF Further
<1> QED
  BY <1>1 DEF GoesOn, Reader, Cells

LEMMA BytesGoOnAsItem == GoesOn(Reader(ReadByteArray))
BY ByteArrayGoesOn DEF GoesOn, Reader, Cells

\* Items behind their number go on if an item does.
LEMMA ManyGoOn ==
    ASSUME NEW item, GoesOn(item), NEW p \in Cells, NEW y \in Cells, NEW s \in Cells, Parts(s, p, y)
    PROVE  Further(ReadMany(item, p), ReadMany(item, s), y)
<1> SUFFICES ASSUME ReadMany(item, p).error = "none"
             PROVE  Further(ReadMany(item, p), ReadMany(item, s), y)
  BY DEF Further
<1>1. ReadCell(p).error = "none"
  BY DEF ReadMany, Then
<1>2. PICK n \in Nat, r \in Cells, q \in Cells :
         ReadCell(p) = Reads(n, r) /\ ReadCell(s) = Reads(n, q) /\ Parts(q, r, y)
  BY <1>1, CellGoesOn
<1>3. ReadMany(item, p) = ReadItems(item, n, r) /\ ReadMany(item, s) = ReadItems(item, n, q)
  BY <1>2, ReadsFields DEF ReadMany, Then
<1>4. PICK readers : readers = [i \in 1..n |-> item]
  OBVIOUS
<1>5. Len(readers) = n /\ \A i \in 1..n : GoesOn(readers[i])
  BY <1>4
<1>6. Further(ReadFields(readers, r), ReadFields(readers, q), y)
  BY <1>2, <1>5, FieldsGoOn
<1> QED
  BY <1>3, <1>4, <1>6 DEF ReadItems

\* A string as an item.
LEMMA StringGoesOnAsItem == GoesOn(Reader(ReadString))
BY StringGoesOn DEF GoesOn, Reader, Cells

\* Strings behind their number, also as an item.
LEMMA StringArrayGoesOn ==
    /\ \A p, y, s \in Cells : Parts(s, p, y) => Further(ReadStringArray(p), ReadStringArray(s), y)
    /\ GoesOn(Reader(ReadStringArray))
<1>1. \A p, y, s \in Cells : Parts(s, p, y) => Further(ReadStringArray(p), ReadStringArray(s), y)
  BY StringGoesOnAsItem, ManyGoOn DEF ReadStringArray
<1> QED
  BY <1>1 DEF GoesOn, Reader, Cells

\* An entry of a map goes on if its value does.
LEMMA EntryGoesOn ==
    ASSUME NEW value, GoesOn(value), NEW p \in Cells, NEW y \in Cells, NEW s \in Cells, Parts(s, p, y)
    PROVE  Further(ReadEntry(value, p), ReadEntry(value, s), y)
<1> SUFFICES ASSUME ReadEntry(value, p).error = "none"
             PROVE  Further(ReadEntry(value, p), ReadEntry(value, s), y)
  BY DEF Further
<1>1. ReadString(p).error = "none" /\ Further(ReadString(p), ReadString(s), y)
  BY StringGoesOn DEF ReadEntry, Then
<1>2. PICK k, r, q :
         /\ r \in Cells /\ q \in Cells
         /\ ReadString(p) = Reads(k, r) /\ ReadString(s) = Reads(k, q) /\ Parts(q, r, y)
  BY <1>1, FurtherReads
<1>3. value[r].error = "none"
  BY <1>2, ReadsFields DEF ReadEntry, Then
<1>4. Further(value[r], value[q], y)
  BY <1>2 DEF GoesOn
<1>5. PICK v, t, u :
         /\ t \in Cells /\ u \in Cells
         /\ value[r] = Reads(v, t) /\ value[q] = Reads(v, u) /\ Parts(u, t, y)
  BY <1>3, <1>4, FurtherReads
<1>6. ReadEntry(value, p) = Reads(<<k, v>>, t)
  BY <1>2, <1>5, ReadsFields DEF ReadEntry, Then
<1>7. ReadEntry(value, s) = Reads(<<k, v>>, u)
  BY <1>2, <1>5, ReadsFields DEF ReadEntry, Then
<1> QED
  BY <1>5, <1>6, <1>7 DEF Further

\* A map goes on if its values do.
LEMMA MapGoesOn ==
    ASSUME NEW value, GoesOn(value), NEW p \in Cells, NEW y \in Cells, NEW s \in Cells, Parts(s, p, y)
    PROVE  Further(ReadMap(value, p), ReadMap(value, s), y)
<1> SUFFICES ASSUME ReadMap(value, p).error = "none"
             PROVE  Further(ReadMap(value, p), ReadMap(value, s), y)
  BY DEF Further
<1> DEFINE item == [rest \in Seq(Nat) |-> ReadEntry(value, rest)]
<1>1. GoesOn(item)
  BY EntryGoesOn DEF GoesOn, Cells
<1>2. ReadMany(item, p).error = "none"
  BY DEF ReadMap, Then
<1>3. Further(ReadMany(item, p), ReadMany(item, s), y)
  BY <1>1, ManyGoOn
<1>4. PICK entries, r, q :
         /\ r \in Cells /\ q \in Cells
         /\ ReadMany(item, p) = Reads(entries, r)
         /\ ReadMany(item, s) = Reads(entries, q) /\ Parts(q, r, y)
  BY <1>2, <1>3, FurtherReads
<1>5. ReadMap(value, p) = Reads(MapOf(entries), r)
  BY <1>4, ReadsFields DEF ReadMap, Then
<1>6. ReadMap(value, s) = Reads(MapOf(entries), q)
  BY <1>4, ReadsFields DEF ReadMap, Then
<1> QED
  BY <1>4, <1>5, <1>6 DEF Further

-----------------------------------------------------------------------------
(***************************************************************************)
(* What each writer writes fits its reader: it is cells, and they read     *)
(* back as the value.                                                      *)
(***************************************************************************)

\* The chunk is cells and reads back as the value.
Fits(reader, chunk, value) == chunk \in Cells /\ ReadsAs(reader, chunk, value)

\* No cells are cells too.
LEMMA NoCells == <<>> \in Cells
BY DEF Cells

\* A string fits.
LEMMA StringFits ==
    ASSUME NEW s \in Strings
    PROVE  Fits(Reader(ReadString), WriteString(s), s)
<1>1. \A rest \in Cells : ReadString(WriteString(s) \o rest) = Reads(s, rest) /\ WriteString(s) \in Cells
  BY StringReads
<1>2. PICK chunk \in Cells : chunk = WriteString(s)
  BY <1>1, NoCells
<1>3. \A x \in Cells : Reader(ReadString)[x] = ReadString(x)
  BY DEF Reader, Cells
<1>4. \A rest \in Cells : chunk \o rest \in Cells
  BY Concat
<1> QED
  BY <1>1, <1>2, <1>3, <1>4 DEF Fits, ReadsAs

\* Bytes fit.
LEMMA BytesFit ==
    ASSUME NEW s \in Cells
    PROVE  Fits(Reader(ReadByteArray), WriteByteArray(s), s)
<1>1. \A rest \in Cells : ReadByteArray(WriteByteArray(s) \o rest) = Reads(s, rest) /\ WriteByteArray(s) \in Cells
  BY ByteArrayReads
<1>2. PICK chunk \in Cells : chunk = WriteByteArray(s)
  BY <1>1, NoCells
<1>3. \A x \in Cells : Reader(ReadByteArray)[x] = ReadByteArray(x)
  BY DEF Reader, Cells
<1>4. \A rest \in Cells : chunk \o rest \in Cells
  BY Concat
<1> QED
  BY <1>1, <1>2, <1>3, <1>4 DEF Fits, ReadsAs

\* A flag fits.
LEMMA BoolFits ==
    ASSUME NEW flag \in BOOLEAN
    PROVE  Fits(Reader(ReadBool), WriteBool(flag), flag)
<1>1. \A rest \in Cells : ReadBool(WriteBool(flag) \o rest) = Reads(flag, rest) /\ WriteBool(flag) \in Cells
  BY BoolReads
<1>2. PICK chunk \in Cells : chunk = WriteBool(flag)
  BY <1>1, NoCells
<1>3. \A x \in Cells : Reader(ReadBool)[x] = ReadBool(x)
  BY DEF Reader, Cells
<1>4. \A rest \in Cells : chunk \o rest \in Cells
  BY Concat
<1> QED
  BY <1>1, <1>2, <1>3, <1>4 DEF Fits, ReadsAs

\* A map of strings fits.
LEMMA StringMapFits ==
    ASSUME NEW map, IsMap(map, Strings)
    PROVE  Fits(Reader(ReadStringMap), WriteStringMap(map), map)
<1>1. \A rest \in Cells : ReadStringMap(WriteStringMap(map) \o rest) = Reads(map, rest) /\ WriteStringMap(map) \in Cells
  BY StringMapReads
<1>2. PICK chunk \in Cells : chunk = WriteStringMap(map)
  BY <1>1, NoCells
<1>3. \A x \in Cells : Reader(ReadStringMap)[x] = ReadStringMap(x)
  BY DEF Reader, Cells
<1>4. \A rest \in Cells : chunk \o rest \in Cells
  BY Concat
<1> QED
  BY <1>1, <1>2, <1>3, <1>4 DEF Fits, ReadsAs

\* A map of lists fits.
LEMMA StringListMapFits ==
    ASSUME NEW map, IsMap(map, Seq(Strings))
    PROVE  Fits(Reader(ReadStringListMap), WriteStringListMap(map), map)
<1>1. \A rest \in Cells : ReadStringListMap(WriteStringListMap(map) \o rest) = Reads(map, rest) /\ WriteStringListMap(map) \in Cells
  BY StringListMapReads
<1>2. PICK chunk \in Cells : chunk = WriteStringListMap(map)
  BY <1>1, NoCells
<1>3. \A x \in Cells : Reader(ReadStringListMap)[x] = ReadStringListMap(x)
  BY DEF Reader, Cells
<1>4. \A rest \in Cells : chunk \o rest \in Cells
  BY Concat
<1> QED
  BY <1>1, <1>2, <1>3, <1>4 DEF Fits, ReadsAs

\* A set of strings fits.
LEMMA StringSetFits ==
    ASSUME NEW items \in StringSets
    PROVE  Fits(Reader(ReadStringSet), WriteStringSet(items), items)
<1>1. \A rest \in Cells : ReadStringSet(WriteStringSet(items) \o rest) = Reads(items, rest) /\ WriteStringSet(items) \in Cells
  BY StringSetReads
<1>2. PICK chunk \in Cells : chunk = WriteStringSet(items)
  BY <1>1, NoCells
<1>3. \A x \in Cells : Reader(ReadStringSet)[x] = ReadStringSet(x)
  BY DEF Reader, Cells
<1>4. \A rest \in Cells : chunk \o rest \in Cells
  BY Concat
<1> QED
  BY <1>1, <1>2, <1>3, <1>4 DEF Fits, ReadsAs

\* A cell fits.
LEMMA CellFits == ASSUME NEW n \in Nat PROVE Fits(Reader(ReadCell), <<n>>, n)
<1>1. \A rest \in Cells : ReadCell(<<n>> \o rest) = Reads(n, rest) /\ <<n>> \o rest \in Cells
  BY CellReads
<1>2. \A x \in Cells : Reader(ReadCell)[x] = ReadCell(x)
  BY DEF Reader, Cells
<1>3. <<n>> \in Cells
  BY DEF Cells
<1> QED
  BY <1>1, <1>2, <1>3 DEF Fits, ReadsAs

\* Chunks with their values, as many as there are readers.
AllFit(n, readers, chunks, values) ==
    /\ Len(readers) = n
    /\ chunks = [i \in 1..n |-> chunks[i]] /\ values = [i \in 1..n |-> values[i]]
    /\ \A i \in 1..n : Fits(readers[i], chunks[i], values[i])

\* Chunks that fit do so one behind the other.
LEMMA FieldsFit ==
    ASSUME NEW n \in Nat, NEW readers, NEW chunks, NEW values, AllFit(n, readers, chunks, values)
    PROVE  /\ FlattenSeq(chunks) \in Cells
           /\ \A rest \in Cells : ReadFields(readers, FlattenSeq(chunks) \o rest) = Reads(values, rest)
<1>1. chunks \in Seq(Cells) /\ values \in Seq({values[i] : i \in 1..n})
  BY DEF AllFit, Fits
<1>2. Len(chunks) = n /\ Len(values) = n
  BY DEF AllFit
<1>3. PICK S : values \in Seq(S)
  BY <1>1
<1>4. FirstFieldsRead(readers, chunks, values, n)
  BY DEF AllFit, Fits, FirstFieldsRead
<1>5. PICK flat \in Cells : flat = FlattenSeq(chunks)
  BY <1>1, NoCells, RestExists
<1>6. ASSUME NEW rest \in Cells
      PROVE  ReadFields(readers, FlattenSeq(chunks) \o rest) = Reads(values, rest)
  <2>1. PICK input : input = flat \o rest /\ Parts(input, flat, rest)
    BY Concat DEF Parts
  <2>2. ReadFields(readers, input) = Reads(values, rest)
    BY <1>1, <1>2, <1>3, <1>4, <1>5, <2>1, FieldsRead DEF AllFit
  <2> QED
    BY <1>5, <2>1, <2>2
<1> QED
  BY <1>5, <1>6

-----------------------------------------------------------------------------
(* Messages: a reader that makes a value of the fields it has read. *)

\* What the reader makes of the fields f.
MakesOf(reader, readers, f, value) ==
    \A x, rest \in Cells : ReadFields(readers, x) = Reads(f, rest) => reader[x] = Reads(value, rest)

\* Chunks of a message fit its reader if they fit those of its fields.
LEMMA MessageFits ==
    ASSUME NEW n \in Nat, NEW readers, NEW chunks, NEW values, AllFit(n, readers, chunks, values),
           NEW reader, NEW value, MakesOf(reader, readers, values, value)
    PROVE  Fits(reader, FlattenSeq(chunks), value)
<1>1. PICK flat \in Cells : flat = FlattenSeq(chunks)
  BY FieldsFit
<1>2. ASSUME NEW rest \in Cells PROVE reader[flat \o rest] = Reads(value, rest)
  <2>1. PICK x \in Cells : x = flat \o rest
    BY Concat
  <2>2. ReadFields(readers, x) = Reads(values, rest)
    BY <1>1, <2>1, FieldsFit
  <2> QED
    BY <2>1, <2>2 DEF MakesOf
<1> QED
  BY <1>1, <1>2 DEF Fits, ReadsAs

Refuses(reader, readers, f) ==
    \A x, rest \in Cells : ReadFields(readers, x) = Reads(f, rest) => reader[x].error # "none"

\* What the reader makes depends on the fields alone, and it refuses what they do.
Makes(reader, readers) ==
    /\ \A x \in Cells : ReadFields(readers, x).error # "none" => reader[x].error # "none"
    /\ \A f : Refuses(reader, readers, f) \/ \E value : MakesOf(reader, readers, f, value)

\* Such a reader goes on with more input if those of the fields do.
LEMMA MessageGoesOn ==
    ASSUME NEW n \in Nat, NEW readers, Len(readers) = n, \A i \in 1..n : GoesOn(readers[i]),
           NEW reader, Makes(reader, readers)
    PROVE  GoesOn(reader)
<1> SUFFICES ASSUME NEW p \in Cells, NEW y \in Cells, NEW s \in Cells, Parts(s, p, y),
                    reader[p].error = "none"
             PROVE  Further(reader[p], reader[s], y)
  BY DEF GoesOn, Further
<1>1. Further(ReadFields(readers, p), ReadFields(readers, s), y)
  BY FieldsGoOn
<1>2. ReadFields(readers, p).error = "none"
  BY DEF Makes
<1>3. PICK f, r, q :
         /\ r \in Cells /\ q \in Cells
         /\ ReadFields(readers, p) = Reads(f, r) /\ ReadFields(readers, s) = Reads(f, q)
         /\ Parts(q, r, y)
  BY <1>1, <1>2, FurtherReads
<1>4. PICK value : MakesOf(reader, readers, f, value)
  BY <1>3 DEF Makes, Refuses
<1>5. reader[p] = Reads(value, r) /\ reader[s] = Reads(value, q)
  BY <1>3, <1>4 DEF MakesOf
<1> QED
  BY <1>3, <1>5 DEF Further

\* Items that fit do so behind their number.
LEMMA ListFits ==
    ASSUME NEW item, NEW n \in Nat, NEW chunks, chunks = [i \in 1..n |-> chunks[i]],
           NEW values, values = [i \in 1..n |-> values[i]],
           \A i \in 1..n : Fits(item, chunks[i], values[i]),
           NEW reader, \A x \in Cells : reader[x] = ReadMany(item, x)
    PROVE  Fits(reader, WriteMany(chunks), values)
<1>1. chunks \in Seq(Cells) /\ values \in Seq({values[i] : i \in 1..n})
  <2>1. \A i \in 1..n : chunks[i] \in Cells
    BY DEF Fits
  <2> QED
    BY <2>1
<1>2. Len(chunks) = n /\ Len(values) = n
  OBVIOUS
<1>3. PICK S : values \in Seq(S)
  BY <1>1
<1>4. EachReadsAs(item, chunks, values)
  BY <1>2 DEF EachReadsAs, Fits
<1>5. PICK all \in Cells : all = WriteMany(chunks)
  BY <1>1, NoCells, ManyCells
<1>6. \A rest \in Cells : ReadMany(item, all \o rest) = Reads(values, rest) /\ all \o rest \in Cells
  BY <1>1, <1>3, <1>4, <1>5, ManyReads, Concat
<1> QED
  BY <1>5, <1>6 DEF Fits, ReadsAs

-----------------------------------------------------------------------------
(* Task ids. *)

\* The task as the peer holds it.
TaskOf(task) == [node_id |-> task.node_id, id |-> task.id]

\* A task id is read back, whatever follows.
LEMMA TaskIdReads ==
    ASSUME NEW task, IsTask(task), NEW rest \in Cells
    PROVE  /\ ReadTaskId(WriteTaskId(task) \o rest) = Reads(TaskOf(task), rest)
           /\ WriteTaskId(task) \in Cells
<1>1. PICK name \in Cells, id \in Cells : name = WriteString(task.node_id) /\ id = task.id
  BY StringReads DEF IsTask, Cells
<1>2. PICK x \in Cells : x = id \o rest
  BY Concat
<1>3. WriteTaskId(task) \in Cells /\ WriteTaskId(task) \o rest = name \o x
  <2>1. PICK all \in Cells : all = name \o id
    BY Concat
  <2>2. WriteTaskId(task) = all
    BY <1>1, <2>1 DEF WriteTaskId
  <2>3. (name \o id) \o rest = name \o (id \o rest)
    BY ConcatRegroup, ZenonT(60)
  <2>4. all \o rest = name \o x
    BY <1>2, <2>1, <2>3, Zenon
  <2> QED
    BY <2>1, <2>2, <2>4, Zenon
<1>4. ReadString(name \o x) = Reads(task.node_id, x)
  BY <1>1, StringReads DEF IsTask
<1>5. CASE task.node_id = <<>>
  <2>1. id = <<>> /\ TaskOf(task) = [node_id |-> <<>>, id |-> <<>>]
    BY <1>1, <1>5, EmptySeq DEF IsTask, TaskOf
  <2>2. x = rest
    BY <1>2, <2>1, Concat
  <2> QED
    BY <1>3, <1>4, <1>5, <2>1, <2>2, ReadsFields DEF ReadTaskId, Then
<1>6. CASE task.node_id # <<>>
  <2>1. PICK n \in Nat : id = <<n>>
    <3>1. id[1] \in Nat /\ id = <<id[1]>>
      BY <1>1, <1>6 DEF IsTask
    <3> QED
      BY <3>1
  <2>2. ReadCell(x) = Reads(n, rest)
    BY <1>2, <2>1, CellReads
  <2>3. TaskOf(task) = [node_id |-> task.node_id, id |-> <<n>>]
    BY <1>1, <2>1 DEF TaskOf
  <2> QED
    BY <1>3, <1>4, <1>6, <2>2, <2>3, ReadsFields DEF ReadTaskId, Then
<1> QED
  BY <1>5, <1>6

\* A task id fits.
LEMMA TaskFits ==
    ASSUME NEW task, IsTask(task)
    PROVE  Fits(Reader(ReadTaskId), WriteTaskId(task), TaskOf(task))
<1>1. \A rest \in Cells : ReadTaskId(WriteTaskId(task) \o rest) = Reads(TaskOf(task), rest) /\ WriteTaskId(task) \in Cells
  BY TaskIdReads
<1>2. PICK chunk \in Cells : chunk = WriteTaskId(task)
  BY <1>1, NoCells
<1>3. \A x \in Cells : Reader(ReadTaskId)[x] = ReadTaskId(x)
  BY DEF Reader, Cells
<1>4. \A rest \in Cells : chunk \o rest \in Cells
  BY Concat
<1> QED
  BY <1>1, <1>2, <1>3, <1>4 DEF Fits, ReadsAs

\* A task id goes on with more input.
LEMMA TaskIdGoesOn ==
    ASSUME NEW p \in Cells, NEW y \in Cells, NEW s \in Cells, Parts(s, p, y)
    PROVE  Further(ReadTaskId(p), ReadTaskId(s), y)
<1> SUFFICES ASSUME ReadTaskId(p).error = "none" PROVE Further(ReadTaskId(p), ReadTaskId(s), y)
  BY DEF Further
<1>1. ReadString(p).error = "none" /\ Further(ReadString(p), ReadString(s), y)
  BY StringGoesOn DEF ReadTaskId, Then
<1>2. PICK name, r, q :
         /\ r \in Cells /\ q \in Cells
         /\ ReadString(p) = Reads(name, r) /\ ReadString(s) = Reads(name, q) /\ Parts(q, r, y)
  BY <1>1, FurtherReads
<1>3. CASE name = <<>>
  <2>1. ReadTaskId(p) = Reads([node_id |-> <<>>, id |-> <<>>], r)
    BY <1>2, <1>3, ReadsFields DEF ReadTaskId, Then
  <2>2. ReadTaskId(s) = Reads([node_id |-> <<>>, id |-> <<>>], q)
    BY <1>2, <1>3, ReadsFields DEF ReadTaskId, Then
  <2> QED
    BY <1>2, <2>1, <2>2 DEF Further
<1>4. CASE name # <<>>
  <2>1. ReadCell(r).error = "none"
    BY <1>2, <1>4, ReadsFields DEF ReadTaskId, Then
  <2>2. PICK n \in Nat, t \in Cells, u \in Cells :
           ReadCell(r) = Reads(n, t) /\ ReadCell(q) = Reads(n, u) /\ Parts(u, t, y)
    BY <1>2, <2>1, CellGoesOn
  <2>3. ReadTaskId(p) = Reads([node_id |-> name, id |-> <<n>>], t)
    BY <1>2, <1>4, <2>2, ReadsFields DEF ReadTaskId, Then
  <2>4. ReadTaskId(s) = Reads([node_id |-> name, id |-> <<n>>], u)
    BY <1>2, <1>4, <2>2, ReadsFields DEF ReadTaskId, Then
  <2> QED
    BY <2>2, <2>3, <2>4 DEF Further
<1> QED
  BY <1>3, <1>4

=============================================================================

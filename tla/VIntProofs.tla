------------------------------ MODULE VIntProofs ------------------------------
(***************************************************************************)
(* VInt's loops, for groups and words of any width: what write_vint writes *)
(* is read back by read_vint, and read_vint never reads past the group that *)
(* reaches the end of a word and refuses exactly the input that goes on     *)
(* there.  Whatever the input, the number read is the one its groups stand  *)
(* for, cut to a word.                                                      *)
(***************************************************************************)
EXTENDS VInt, FiniteSetTheorems, WellFoundedInduction, TLAPS

-----------------------------------------------------------------------------
(* Numbers. *)

\* Division with remainder.
LEMMA DivMod == ASSUME NEW n \in Nat, NEW d \in Nat, d > 0
  PROVE n \div d \in Nat /\ n % d \in Nat /\ n % d < d /\ n = (d * (n \div d)) + (n % d)
OBVIOUS

LEMMA Times == ASSUME NEW d \in Nat, NEW x \in Nat, NEW y \in Nat, x < y PROVE d*x + d <= d*y
<1>1. PICK z \in Nat : y = x + 1 + z
  <2>1. y - x - 1 \in Nat /\ y = x + 1 + (y - x - 1)
    OBVIOUS
  <2> QED BY <2>1
<1>2. d * (x + 1 + z) = d*x + d + d*z
  OBVIOUS
<1>3. d*z \in Nat
  OBVIOUS
<1> QED BY <1>1, <1>2, <1>3

\* Quotient and remainder are determined by their equation.
LEMMA DivUnique == ASSUME NEW d \in Nat, NEW a \in Nat, NEW c \in Nat, NEW n \in Nat, c < d, n = d*a + c
  PROVE n \div d = a /\ n % d = c
<1> DEFINE q == n \div d
           r == n % d
<1>1. q \in Nat /\ r \in Nat /\ r < d /\ n = d*q + r
  BY DivMod
<1>2. d*q \in Nat /\ d*a \in Nat /\ d*a + c = d*q + r
  BY <1>1
<1> HIDE DEF q, r
<1>3. ~(q < a)
  <2>1. q < a => d*q + d <= d*a
    BY <1>1, Times
  <2> QED BY <2>1, <1>1, <1>2
<1>4. ~(a < q)
  <2>1. a < q => d*a + d <= d*q
    BY <1>1, Times
  <2> QED BY <2>1, <1>1, <1>2
<1>5. q = a
  BY <1>1, <1>3, <1>4
<1>6. r = c
  BY <1>1, <1>2, <1>5
<1> QED BY <1>5, <1>6 DEF q, r

\* Dividing by a product is dividing by one factor after the other.
LEMMA DivTwice == ASSUME NEW v \in Nat, NEW p \in Nat, NEW g \in Nat, p > 0, g > 0
  PROVE /\ v \div (p * g) = (v \div p) \div g
        /\ v % (p * g) = (v % p) + (p * ((v \div p) % g))
<1> DEFINE q == v \div p
           r == v % p
           a == q \div g
           b == q % g
<1>1. q \in Nat /\ r \in Nat /\ r < p /\ v = p*q + r
  BY DivMod
<1>2. a \in Nat /\ b \in Nat /\ b < g /\ q = g*a + b
  BY <1>1, DivMod
<1> HIDE DEF q, r, a, b
<1>3. p * (g*a + b) = (p*g)*a + p*b
  BY <1>2
<1>4. p*b + p <= p*g
  BY <1>2, Times
<1>5. p*b \in Nat /\ p*g \in Nat /\ (p*g)*a \in Nat
  BY <1>2
<1>6. v = (p*g)*a + (p*b + r) /\ p*b + r < p*g
  BY <1>1, <1>2, <1>3, <1>4, <1>5
<1>7. PICK m \in Nat, c \in Nat : m = p*g /\ c = p*b + r
  BY <1>1, <1>5
<1>8. v = m*a + c /\ c < m /\ a \in Nat
  BY <1>2, <1>6, <1>7
<1>9. v \div m = a /\ v % m = c
  BY <1>8, DivUnique
<1> QED BY <1>1, <1>5, <1>7, <1>9 DEF q, r, a, b

\* The powers of two count subsets, and a subset of two intervals side by side
\* is a subset of either.
LEMMA PowerAdds == ASSUME NEW a \in Nat, NEW b \in Nat PROVE 2 ^ (a + b) = 2 ^ a * 2 ^ b
<1> DEFINE low == 1..a
           high == (a + 1)..(a + b)
           all == 1..(a + b)
           f == [X \in SUBSET all |-> <<X \cap low, X \cap high>>]
<1>1. /\ IsFiniteSet(low) /\ Cardinality(low) = a
      /\ IsFiniteSet(high) /\ Cardinality(high) = b
      /\ IsFiniteSet(all) /\ Cardinality(all) = a + b
  <2>1. \A m, n \in Int : IsFiniteSet(m..n) /\ Cardinality(m..n) = IF m > n THEN 0 ELSE n - m + 1
    BY FS_Interval
  <2>2. IsFiniteSet(low) /\ Cardinality(low) = a
    BY <2>1
  <2>3. IsFiniteSet(high) /\ Cardinality(high) = b
    BY <2>1
  <2>4. IsFiniteSet(all) /\ Cardinality(all) = a + b
    <3>1. PICK s \in Nat : s = a + b
      OBVIOUS
    <3>2. IsFiniteSet(1..s) /\ Cardinality(1..s) = s
      BY <2>1
    <3> QED BY <3>1, <3>2
  <2> QED BY <2>2, <2>3, <2>4
<1>2. /\ IsFiniteSet(SUBSET low) /\ Cardinality(SUBSET low) = 2 ^ a
      /\ IsFiniteSet(SUBSET high) /\ Cardinality(SUBSET high) = 2 ^ b
      /\ IsFiniteSet(SUBSET all) /\ Cardinality(SUBSET all) = 2 ^ (a + b)
  BY <1>1, FS_SUBSET
<1>3. Cardinality((SUBSET low) \X (SUBSET high)) = 2 ^ a * 2 ^ b
  BY <1>2, FS_Product
<1>4. low \cup high = all /\ low \cap high = {}
  OBVIOUS
<1> HIDE DEF low, high, all
<1>5. f \in [SUBSET all -> (SUBSET low) \X (SUBSET high)]
  OBVIOUS
<1>6. \A X, Y \in SUBSET all : f[X] = f[Y] => X = Y
  <2> SUFFICES ASSUME NEW X \in SUBSET all, NEW Y \in SUBSET all, f[X] = f[Y] PROVE X = Y
    OBVIOUS
  <2>1. X \cap low = Y \cap low /\ X \cap high = Y \cap high
    BY f[X] = f[Y]
  <2>2. X = (X \cap low) \cup (X \cap high) /\ Y = (Y \cap low) \cup (Y \cap high)
    BY <1>4
  <2> QED BY <2>1, <2>2
<1>7. ASSUME NEW A \in SUBSET low, NEW B \in SUBSET high
      PROVE \E X \in SUBSET all : f[X] = <<A, B>>
  <2>1. A \cup B \in SUBSET all
    BY <1>4
  <2>2. (A \cup B) \cap low = A /\ (A \cup B) \cap high = B
    BY <1>4
  <2>3. f[A \cup B] = <<A, B>>
    BY <2>1, <2>2
  <2> QED BY <2>1, <2>3
<1> DEFINE pairs == (SUBSET low) \X (SUBSET high)
<1>11. \A t \in pairs : \E A \in SUBSET low, B \in SUBSET high : t = <<A, B>>
  OBVIOUS
<1> HIDE DEF f
<1>12. f \in [SUBSET all -> pairs] /\ \A t \in pairs : \E X \in SUBSET all : f[X] = t
  <2>1. f \in [SUBSET all -> pairs]
    BY <1>5
  <2>2. ASSUME NEW t \in pairs PROVE \E X \in SUBSET all : f[X] = t
    <3>1. PICK A \in SUBSET low, B \in SUBSET high : t = <<A, B>>
      BY <2>2, <1>11
    <3> QED BY <3>1, <1>7
  <2> QED BY <2>1, <2>2
<1>13. DOMAIN f = SUBSET all
  BY <1>5
<1> HIDE DEF pairs
<1>8. f \in Bijection(SUBSET all, pairs)
  <2>1. IsInjective(f)
    BY <1>6, <1>13 DEF IsInjective
  <2> QED BY <2>1, <1>12 DEF Bijection, Injection, Surjection
<1>9. ExistsBijection(SUBSET all, pairs)
  BY <1>8 DEF ExistsBijection
<1> QED BY <1>2, <1>3, <1>9, FS_Bijection DEF pairs

-----------------------------------------------------------------------------
(* Widths. *)

\* Powers of two are positive numbers: they count the subsets of a set.
LEMMA PowerOfTwo == ASSUME NEW n \in Nat PROVE 2 ^ n \in Nat /\ 2 ^ n > 0
<1>1. IsFiniteSet(1..n) /\ Cardinality(1..n) = n
  BY FS_Interval
<1>2. IsFiniteSet(SUBSET (1..n)) /\ Cardinality(SUBSET (1..n)) = 2 ^ n
  BY <1>1, FS_SUBSET
<1>3. 2 ^ n \in Nat
  BY <1>2, FS_CardinalityType
<1>4. 2 ^ n # 0
  BY <1>2, FS_EmptySet
<1> QED
  BY <1>3, <1>4

LEMMA GroupType == Group \in Nat /\ Group > 0 /\ Word \in Nat /\ Word > 0
BY PowerOfTwo, WidthsAssumption DEF Group, Word

LEMMA MaxGroupsType == MaxGroups \in Nat /\ MaxGroups > 0
BY WidthsAssumption DEF MaxGroups

\* After n groups the next is the last exactly if the shift is MaxShift.
LEMMA LastShift ==
    ASSUME NEW n \in Nat
    PROVE  /\ n * GroupBits + GroupBits = (n + 1) * GroupBits
           /\ n * GroupBits + GroupBits > MaxShift <=> n + 1 >= MaxGroups
<1>1. (MaxShift \div GroupBits) * GroupBits = MaxShift
  BY WidthsAssumption
<1>2. (n + 1) * GroupBits > (MaxShift \div GroupBits) * GroupBits
        <=> n + 1 > MaxShift \div GroupBits
  BY WidthsAssumption
<1>3. n * GroupBits + GroupBits = (n + 1) * GroupBits
  BY WidthsAssumption
<1> QED
  BY <1>1, <1>2, <1>3, WidthsAssumption DEF MaxGroups

-----------------------------------------------------------------------------
(* The invariant. *)

TypeInv ==
    /\ stage \in {"writing", "reading", "read", "eof", "invalid"}
    /\ value \in Nat
    /\ bytes \in Seq(Nat)
    /\ position \in 0..Len(bytes)
    /\ shift \in Nat

\* While a number is read, every byte so far was continued and moved the shift
\* by one group; each way to stop is at the byte that gave the reason.
Progress ==
    /\ stage = "writing" => position = 0 /\ shift = 0
    /\ stage \in {"reading", "eof"} =>
          /\ shift = position * GroupBits
          /\ position < MaxGroups
          /\ \A i \in 1..position : Continued(bytes[i])
    /\ stage = "read" => position <= MaxGroups /\ position > 0 /\ ~Continued(bytes[position])
    /\ stage = "eof" => position = Len(bytes)
    /\ stage = "invalid" => position = MaxGroups /\ Continued(bytes[MaxGroups])

Inv == TypeInv /\ Progress

LEMMA InitInv == Init => Inv
<1> SUFFICES ASSUME Init PROVE Inv
  OBVIOUS
<1>1. position = 0 /\ shift = 0
  BY DEF Init
<1>2. CASE stage = "writing"
  <2>1. PICK v \in 0..(Word - 1) : value = v /\ bytes = <<>>
    BY <1>2 DEF Init
  <2> QED
    BY <1>1, <1>2, <2>1, GroupType DEF Inv, TypeInv, Progress
<1>3. CASE stage = "reading"
  <2>1. PICK input \in BoundedSeq(0..(2 * Group - 1), MaxLength) : value = 0 /\ bytes = input
    BY <1>3 DEF Init
  <2>2. PICK m \in 0..MaxLength : input \in [1..m -> 0..(2 * Group - 1)]
    BY <2>1 DEF BoundedSeq, SeqOf
  <2>3. bytes \in Seq(Nat)
    BY <2>1, <2>2, GroupType, WidthsAssumption
  <2> QED
    BY <1>1, <1>3, <2>1, <2>3, MaxGroupsType, WidthsAssumption DEF Inv, TypeInv, Progress
<1> QED
  BY <1>2, <1>3 DEF Init

LEMMA WriteGroupInv == ASSUME Inv, WriteGroup PROVE Inv'
<1>1. value % Group \in Nat /\ value \div Group \in Nat
  BY GroupType DEF Inv, TypeInv, WriteGroup
<1>2. bytes' \in Seq(Nat) /\ position' \in 0..Len(bytes')
  BY <1>1, GroupType DEF Inv, TypeInv, Progress, WriteGroup
<1> QED
  BY <1>1, <1>2 DEF Inv, TypeInv, Progress, WriteGroup

LEMMA WriteLastInv == ASSUME Inv, WriteLast PROVE Inv'
<1>1. bytes' \in Seq(Nat) /\ position' \in 0..Len(bytes')
  BY DEF Inv, TypeInv, Progress, WriteLast
<1> QED
  BY <1>1, MaxGroupsType, WidthsAssumption DEF Inv, TypeInv, Progress, WriteLast

LEMMA ReadGroupInv == ASSUME Inv, ReadGroup PROVE Inv'
<1> DEFINE byte == bytes[position + 1]
<1>1. /\ position \in Nat /\ position' = position + 1 /\ position' \in 0..Len(bytes)
      /\ bytes' = bytes /\ byte \in Nat
      /\ stage = "reading"
      /\ shift = position * GroupBits /\ position < MaxGroups
  BY DEF Inv, TypeInv, Progress, ReadGroup
<1>2. value' \in Nat
  <2>1. byte % Group \in Nat /\ 2 ^ shift \in Nat
    BY <1>1, GroupType, PowerOfTwo DEF Inv, TypeInv
  <2>2. Placed(byte) \in Nat
    BY <2>1, GroupType DEF Placed
  <2> QED
    BY <2>2 DEF Inv, TypeInv, ReadGroup
<1>3. CASE ~Continued(byte)
  <2>1. stage' = "read" /\ shift' = shift
    BY <1>3 DEF ReadGroup
  <2> QED
    BY <1>1, <1>2, <1>3, <2>1, MaxGroupsType DEF Inv, TypeInv, Progress, Continued
<1>4. CASE Continued(byte)
  <2>1. /\ shift' = shift + GroupBits
        /\ stage' = IF ShiftExceeds THEN "invalid" ELSE "reading"
    BY <1>1, <1>4 DEF ReadGroup
  <2>2. shift' = position' * GroupBits /\ (ShiftExceeds <=> position' >= MaxGroups)
    BY <1>1, <2>1, LastShift DEF ShiftExceeds
  <2>3. \A i \in 1..position' : Continued(bytes'[i])
    BY <1>1, <1>4 DEF Inv, Progress, Continued
  <2>4. CASE ShiftExceeds
    BY <1>1, <1>2, <2>1, <2>2, <2>3, <2>4, MaxGroupsType, WidthsAssumption
       DEF Inv, TypeInv, Progress
  <2>5. CASE ~ShiftExceeds
    BY <1>1, <1>2, <2>1, <2>2, <2>3, <2>5, MaxGroupsType, WidthsAssumption
       DEF Inv, TypeInv, Progress
  <2> QED
    BY <2>4, <2>5
<1> QED
  BY <1>3, <1>4

LEMMA ReadEndsInv == ASSUME Inv, ReadEnds PROVE Inv'
BY DEF Inv, TypeInv, Progress, ReadEnds, Continued

LEMMA InvInvariant == Spec => []Inv
<1>1. Inv /\ [Next]_vars => Inv'
  <2> SUFFICES ASSUME Inv, [Next]_vars PROVE Inv'
    OBVIOUS
  <2>1. CASE UNCHANGED vars
    BY <2>1 DEF vars, Inv, TypeInv, Progress, Continued
  <2> QED
    BY <2>1, WriteGroupInv, WriteLastInv, ReadGroupInv, ReadEndsInv DEF Next
<1> QED
  BY InitInv, <1>1, PTL DEF Spec

-----------------------------------------------------------------------------

\* read_vint refuses input exactly if all the groups a word has room for are
\* continued, and reads no byte beyond them, whatever the widths are.
THEOREM EndlessInputRefused == Spec => []RefusesEndlessInput
<1>1. Inv => RefusesEndlessInput
  <2> SUFFICES ASSUME Inv PROVE RefusesEndlessInput
    OBVIOUS
  <2>1. position \in Nat /\ MaxGroups \in Nat
    BY MaxGroupsType DEF Inv, TypeInv
  <2>2. position <= MaxGroups
    BY <2>1, MaxGroupsType DEF Inv, TypeInv, Progress
  <2>3. stage = "invalid" <=>
          stage # "writing" /\ position = MaxGroups /\ Continued(bytes[MaxGroups])
    BY <2>1 DEF Inv, TypeInv, Progress
  <2>4. stage = "eof" => \A i \in DOMAIN bytes : Continued(bytes[i])
    BY DEF Inv, TypeInv, Progress
  <2> QED
    BY <2>2, <2>3, <2>4 DEF RefusesEndlessInput
<1> QED
  BY InvInvariant, <1>1, PTL


-----------------------------------------------------------------------------
(***************************************************************************)
(* What write_vint writes is read back.  The sum of the groups is never    *)
(* needed: each group is known from the number written, and what has been  *)
(* read of it is its remainder.                                            *)
(***************************************************************************)

\* The weight of the group behind k others.
Power(k) == 2 ^ (k * GroupBits)

\* The group behind k others in v.
Digit(v, k) == (v \div Power(k)) % Group

\* The first n bytes are groups of v that are continued.
Begins(v, n) == \A i \in 1..n : bytes[i] = Group + Digit(v, i - 1)

WrittenSoFar(v) ==
    /\ Len(bytes) < MaxGroups
    /\ Begins(v, Len(bytes))
    /\ value = v \div Power(Len(bytes))

Written(v) ==
    /\ Len(bytes) \in 1..MaxGroups
    /\ Begins(v, Len(bytes) - 1)
    /\ bytes[Len(bytes)] = v \div Power(Len(bytes) - 1)
    /\ bytes[Len(bytes)] < Group

\* The groups read make up the remainder of the number, and in the end all of it.
Trip ==
    origin # <<>> =>
        \E v \in 0..(Word - 1) :
            /\ origin = <<v>>
            /\ stage = "writing" => WrittenSoFar(v)
            /\ stage # "writing" => Written(v)
            /\ stage = "reading" => position < Len(bytes) /\ value = v % Power(position)
            /\ stage \notin {"writing", "reading"} =>
                  stage = "read" /\ value = v /\ position = Len(bytes)

LEMMA PowerType == ASSUME NEW k \in Nat PROVE Power(k) \in Nat /\ Power(k) > 0
<1>1. k * GroupBits \in Nat
  BY WidthsAssumption
<1> QED
  BY <1>1, PowerOfTwo DEF Power

LEMMA PowerNext == ASSUME NEW k \in Nat PROVE Power(k + 1) = Power(k) * Group
<1>1. k * GroupBits \in Nat /\ (k + 1) * GroupBits = k * GroupBits + GroupBits
  BY WidthsAssumption
<1> QED
  BY <1>1, PowerAdds, WidthsAssumption DEF Power, Group

LEMMA PowerZero == Power(0) = 1
<1>1. 0 * GroupBits = 0
  BY WidthsAssumption
<1>2. Cardinality(SUBSET {}) = 2 ^ 0
  BY FS_EmptySet, FS_SUBSET
<1>3. Cardinality(SUBSET {}) = 1
  <2>1. SUBSET {} = {{}}
    OBVIOUS
  <2> QED
    BY <2>1, FS_Singleton
<1> QED
  BY <1>1, <1>2, <1>3 DEF Power

\* So many groups are more than a word.
LEMMA PowerExceeds == ASSUME NEW k \in Nat, k >= MaxGroups PROVE Power(k) >= Word
<1>1. MaxGroups * GroupBits = MaxShift + GroupBits
  <2>1. (MaxShift \div GroupBits) * GroupBits = MaxShift /\ MaxShift \div GroupBits \in Nat
    BY WidthsAssumption
  <2> QED
    BY <2>1, WidthsAssumption DEF MaxGroups
<1>2. k * GroupBits >= MaxGroups * GroupBits /\ k * GroupBits \in Nat
  BY MaxGroupsType, WidthsAssumption
<1>3. k * GroupBits >= WordBits
  BY <1>1, <1>2, WidthsAssumption
<1>4. PICK d \in Nat : k * GroupBits = WordBits + d
  <2>1. k * GroupBits - WordBits \in Nat
    BY <1>2, <1>3, WidthsAssumption
  <2> QED
    BY <1>2, <2>1, WidthsAssumption
<1>5. Power(k) = Word * 2 ^ d
  <2>1. Power(k) = 2 ^ (WordBits + d)
    BY <1>4 DEF Power
  <2>2. 2 ^ (WordBits + d) = 2 ^ WordBits * 2 ^ d
    BY PowerAdds, WidthsAssumption
  <2> QED
    BY <2>1, <2>2 DEF Word
<1>6. PICK e \in Nat : 2 ^ d = e + 1
  <2>1. 2 ^ d - 1 \in Nat
    BY PowerOfTwo
  <2> QED
    BY <2>1, PowerOfTwo
<1>7. Word * (e + 1) = Word * e + Word /\ Word * e \in Nat
  BY GroupType
<1> QED
  BY <1>5, <1>6, <1>7, GroupType

\* One group more.
LEMMA DigitNext ==
    ASSUME NEW v \in Nat, NEW k \in Nat
    PROVE  /\ Digit(v, k) \in Nat /\ Digit(v, k) < Group
           /\ v \div Power(k + 1) = (v \div Power(k)) \div Group
           /\ v % Power(k + 1) = (v % Power(k)) + (Power(k) * Digit(v, k))
<1>1. v \div Power(k) \in Nat
  BY PowerType, DivMod
<1>2. Digit(v, k) \in Nat /\ Digit(v, k) < Group
  BY <1>1, GroupType, DivMod DEF Digit
<1>3. PICK p \in Nat, g \in Nat : p = Power(k) /\ p > 0 /\ g = Group /\ g > 0
  BY PowerType, GroupType
<1>4. Power(k + 1) = p * g
  BY <1>3, PowerNext
<1>5. /\ v \div (p * g) = (v \div p) \div g
      /\ v % (p * g) = (v % p) + (p * ((v \div p) % g))
  BY <1>3, DivTwice
<1>6. Digit(v, k) = (v \div p) % g
  BY <1>3 DEF Digit
<1>7. v \div Power(k + 1) = (v \div Power(k)) \div Group
  BY <1>3, <1>4, <1>5
<1>8. v % Power(k + 1) = (v % Power(k)) + (Power(k) * Digit(v, k))
  BY <1>3, <1>4, <1>5, <1>6
<1> QED
  BY <1>2, <1>7, <1>8

\* A group is placed without loss where the number fits the word.
LEMMA PlacedWhole ==
    ASSUME NEW d \in Nat, NEW k \in Nat, d * Power(k) < Word, shift = k * GroupBits,
           NEW byte \in Nat, byte % Group = d
    PROVE  Placed(byte) = d * Power(k)
<1>1. d * Power(k) \in Nat
  BY PowerType
<1>2. (d * Power(k)) % Word = d * Power(k)
  BY <1>1, GroupType
<1> QED
  BY <1>2 DEF Placed, Power

LEMMA InitTrip == Init => Trip
<1> SUFFICES ASSUME Init, origin # <<>> PROVE Trip
  BY DEF Trip
<1>1. PICK v \in 0..(Word - 1) : stage = "writing" /\ origin = <<v>> /\ value = v /\ bytes = <<>>
  BY DEF Init
<1>2. v \in Nat
  BY GroupType
<1>3. v \div Power(0) = v
  BY <1>2, PowerZero
<1>4. WrittenSoFar(v)
  BY <1>1, <1>3, MaxGroupsType DEF WrittenSoFar, Begins
<1> QED
  BY <1>1, <1>4 DEF Trip

LEMMA WriteGroupTrip == ASSUME Inv, Trip, WriteGroup PROVE Trip'
<1> SUFFICES ASSUME origin # <<>> PROVE Trip'
  BY DEF Trip, WriteGroup
<1>1. PICK v \in 0..(Word - 1) : origin = <<v>> /\ (stage = "writing" => WrittenSoFar(v))
  BY DEF Trip
<1>2. PICK n \in Nat : n = Len(bytes)
  BY DEF Inv, TypeInv
<1>3. v \in Nat /\ v < Word /\ Group \in Nat /\ Group > 0
  BY GroupType
<1>4. /\ stage = "writing" /\ stage' = "writing" /\ origin' = origin
      /\ n < MaxGroups /\ Begins(v, n) /\ value = v \div Power(n)
      /\ value >= Group
      /\ bytes' = Append(bytes, Group + (value % Group))
      /\ value' = value \div Group
  BY <1>1, <1>2 DEF WriteGroup, WrittenSoFar
<1>5. value % Group = Digit(v, n) /\ value' = v \div Power(n + 1)
  BY <1>2, <1>3, <1>4, DigitNext DEF Digit
<1>6. bytes \in Seq(Nat) /\ Group + Digit(v, n) \in Nat
  <2>1. Digit(v, n) \in Nat
    BY <1>2, <1>3, DigitNext
  <2>2. Group + Digit(v, n) \in Nat
    BY <1>3, <2>1
  <2> QED
    BY <2>2 DEF Inv, TypeInv
<1>7. /\ Len(bytes') = n + 1
      /\ bytes'[n + 1] = Group + Digit(v, n)
      /\ \A i \in 1..n : bytes'[i] = bytes[i]
  BY <1>2, <1>4, <1>5, <1>6
<1>8. \A i \in 1..(n + 1) : bytes'[i] = Group + Digit(v, i - 1)
  <2> SUFFICES ASSUME NEW i \in 1..(n + 1) PROVE bytes'[i] = Group + Digit(v, i - 1)
    OBVIOUS
  <2>1. CASE i = n + 1
    <3>1. i - 1 = n
      BY <1>2, <2>1
    <3> QED
      BY <1>7, <2>1, <3>1
  <2>2. CASE i \in 1..n
    BY <1>4, <1>7, <2>2 DEF Begins
  <2> QED
    BY <1>2, <2>1, <2>2
<1>9. n + 1 < MaxGroups
  <2> SUFFICES ASSUME n + 1 >= MaxGroups PROVE FALSE
    BY <1>2, MaxGroupsType
  <2>1. PICK p \in Nat : p = Power(n + 1)
    BY <1>2, PowerType
  <2>2. v < p
    BY <1>2, <1>3, <2>1, PowerExceeds, GroupType
  <2>3. v \div p = 0
    BY <1>3, <2>2
  <2>4. value \in Nat /\ value = (Group * (value \div Group)) + (value % Group) /\ value % Group < Group
    BY <1>3, DivMod DEF Inv, TypeInv
  <2>5. value \div Group = 0
    BY <1>4, <1>5, <2>1, <2>3
  <2> QED
    BY <1>3, <1>4, <2>4, <2>5
<1>10. WrittenSoFar(v)'
  BY <1>5, <1>7, <1>8, <1>9 DEF WrittenSoFar, Begins, Digit, Power, MaxGroups
<1> QED
  BY <1>1, <1>4, <1>10 DEF Trip

LEMMA WriteLastTrip == ASSUME Inv, Trip, WriteLast PROVE Trip'
<1> SUFFICES ASSUME origin # <<>> PROVE Trip'
  BY DEF Trip, WriteLast
<1>1. PICK v \in 0..(Word - 1) : origin = <<v>> /\ (stage = "writing" => WrittenSoFar(v))
  BY DEF Trip
<1>2. PICK n \in Nat : n = Len(bytes)
  BY DEF Inv, TypeInv
<1>3. v \in Nat /\ bytes \in Seq(Nat) /\ value \in Nat /\ position = 0
  BY GroupType DEF Inv, TypeInv, Progress, WriteLast
<1>4. /\ stage' = "reading" /\ origin' = origin /\ position' = 0 /\ value' = 0
      /\ n < MaxGroups /\ Begins(v, n) /\ value = v \div Power(n)
      /\ value < Group
      /\ bytes' = Append(bytes, value)
  BY <1>1, <1>2, <1>3 DEF WriteLast, WrittenSoFar
<1>5. /\ Len(bytes') = n + 1
      /\ bytes'[n + 1] = value
      /\ \A i \in 1..n : bytes'[i] = bytes[i]
  BY <1>2, <1>3, <1>4
<1>6. n + 1 - 1 = n /\ n + 1 \in 1..MaxGroups
  BY <1>2, <1>4, MaxGroupsType
<1>7. Written(v)'
  BY <1>4, <1>5, <1>6 DEF Written, Begins, Digit, Power, MaxGroups, Group
<1>8. value' = v % Power(position')
  BY <1>3, <1>4, PowerZero
<1>9. position' < Len(bytes')
  BY <1>4, <1>5
<1> QED
  BY <1>1, <1>4, <1>7, <1>8, <1>9 DEF Trip, Power

LEMMA ReadGroupTrip == ASSUME Inv, Trip, ReadGroup PROVE Trip'
<1> SUFFICES ASSUME origin # <<>> PROVE Trip'
  BY DEF Trip, ReadGroup
<1>1. PICK v \in 0..(Word - 1) :
         /\ origin = <<v>>
         /\ Written(v) /\ position < Len(bytes) /\ value = v % Power(position)
  BY DEF Trip, ReadGroup
<1>2. PICK n \in Nat, p \in Nat : n = Len(bytes) /\ p = position
  BY DEF Inv, TypeInv
<1>3. /\ v \in Nat /\ v < Word /\ Group \in Nat /\ Group > 0
      /\ bytes \in Seq(Nat)
      /\ shift = p * GroupBits
  BY <1>2, GroupType DEF Inv, TypeInv, Progress, ReadGroup
<1> DEFINE byte == bytes[p + 1]
<1>4. /\ UNCHANGED <<origin, bytes>> /\ position' = p + 1
      /\ value' = value + Placed(byte)
      /\ IF ~Continued(byte) THEN stage' = "read" /\ UNCHANGED shift
         ELSE /\ shift' = shift + GroupBits
              /\ stage' = IF ShiftExceeds THEN "invalid" ELSE stage
      /\ stage = "reading"
  BY <1>2 DEF ReadGroup
<1>5. p + 1 \in 1..n /\ p + 1 <= MaxGroups /\ n <= MaxGroups /\ byte \in Nat
  BY <1>1, <1>2, <1>3, MaxGroupsType DEF Written
<1>6. Written(v)'
  BY <1>1, <1>4 DEF Written, Begins, Digit, Power, MaxGroups, Group
<1>7. Power(p) \in Nat /\ Power(p) > 0
  BY <1>2, PowerType
<1>8. CASE p + 1 < n
  <2> DEFINE d == Digit(v, p)
  <2>1. d \in Nat /\ d < Group /\ v % Power(p + 1) = (v % Power(p)) + (Power(p) * d)
    BY <1>2, <1>3, DigitNext
  <2>2. byte = Group + d
    <3>1. p + 1 \in 1..(n - 1) /\ (p + 1) - 1 = p
      BY <1>2, <1>8
    <3> QED
      BY <1>1, <1>2, <3>1 DEF Written, Begins
  <2> HIDE DEF d, byte
  <2>3. Continued(byte) /\ byte % Group = d
    <3>1. byte = Group * 1 + d
      BY <1>3, <2>1, <2>2
    <3>2. byte % Group = d
      BY <1>3, <1>5, <2>1, <3>1, DivUnique
    <3> QED
      BY <1>3, <2>1, <2>2, <3>2 DEF Continued
  <2>4. v % Power(p + 1) \in Nat /\ v % Power(p + 1) <= v
    <3>1. PICK m \in Nat : m = Power(p + 1) /\ m > 0
      BY <1>2, PowerType
    <3>2. /\ v \div m \in Nat /\ v % m \in Nat
          /\ v = (m * (v \div m)) + (v % m)
      BY <1>3, <3>1, DivMod
    <3>3. m * (v \div m) \in Nat
      BY <3>2
    <3> QED
      BY <1>3, <3>1, <3>2, <3>3
  <2>5. v % Power(p) \in Nat /\ Power(p) * d = d * Power(p) /\ d * Power(p) \in Nat
    BY <1>3, <1>7, <2>1, DivMod
  <2>6. d * Power(p) < Word
    BY <1>3, <2>1, <2>4, <2>5, GroupType
  <2>7. Placed(byte) = d * Power(p)
    BY <1>2, <1>3, <1>5, <2>1, <2>3, <2>6, PlacedWhole
  <2>8. value' = v % Power(p + 1)
    BY <1>1, <1>2, <1>4, <2>1, <2>5, <2>7
  <2>9. ~ShiftExceeds
    <3>1. p * GroupBits + GroupBits > MaxShift <=> p + 1 >= MaxGroups
      BY <1>2, LastShift
    <3>2. p + 1 < MaxGroups
      BY <1>2, <1>5, <1>8, MaxGroupsType
    <3> QED
      BY <1>2, <1>3, <3>1, <3>2, MaxGroupsType DEF ShiftExceeds
  <2>10. stage' = "reading"
    BY <1>4, <2>3, <2>9 DEF byte
  <2>11. position' < Len(bytes')
    BY <1>2, <1>4, <1>8
  <2>12. value' = v % Power(position')
    BY <1>4, <2>8
  <2> QED
    BY <1>1, <1>4, <1>6, <2>10, <2>11, <2>12 DEF Trip, Power
<1>9. CASE p + 1 = n
  <2>1. n - 1 = p
    BY <1>2, <1>9
  <2>2. byte = v \div Power(p) /\ byte < Group
    BY <1>1, <1>2, <1>9, <2>1 DEF Written
  <2> HIDE DEF byte
  <2>3. ~Continued(byte) /\ byte % Group = byte
    <3>1. byte \in Nat /\ byte < Group
      BY <1>5, <2>2 DEF byte
    <3>2. byte = Group * 0 + byte
      BY <1>3, <3>1
    <3>3. byte % Group = byte
      BY <1>3, <3>1, <3>2, DivUnique
    <3>4. ~Continued(byte)
      BY <1>3, <3>1 DEF Continued
    <3> QED
      BY <3>3, <3>4
  <2>4. v % Power(p) \in Nat /\ v = (Power(p) * byte) + (v % Power(p))
    BY <1>3, <1>7, <2>2, DivMod
  <2>5. Power(p) * byte = byte * Power(p) /\ byte * Power(p) \in Nat
    BY <1>5, <1>7
  <2>6. byte * Power(p) < Word
    BY <1>3, <2>4, <2>5, GroupType
  <2>7. Placed(byte) = byte * Power(p)
    BY <1>2, <1>3, <1>5, <2>3, <2>6, PlacedWhole
  <2>8. value' = v
    BY <1>1, <1>2, <1>4, <2>4, <2>5, <2>7
  <2>9. stage' = "read" /\ position' = Len(bytes')
    BY <1>2, <1>4, <1>9, <2>3 DEF byte
  <2> QED
    BY <1>1, <1>4, <1>6, <2>8, <2>9 DEF Trip
<1> QED
  BY <1>2, <1>5, <1>8, <1>9

LEMMA NextTrip == ASSUME Inv, Trip, [Next]_vars PROVE Trip'
<1>1. CASE ReadEnds
  BY <1>1 DEF ReadEnds, Trip
<1>2. CASE UNCHANGED vars
  BY <1>2 DEF vars, Trip, WrittenSoFar, Written, Begins, Digit, Power, MaxGroups, Group
<1> QED
  BY <1>1, <1>2, WriteGroupTrip, WriteLastTrip, ReadGroupTrip DEF Next

\* Whatever the widths are, read_vint reads back every word that write_vint
\* wrote, and takes exactly the bytes that were written for it.
THEOREM WordsReturn == Spec => []RoundTrip
<1>1. Trip => RoundTrip
  BY DEF Trip, RoundTrip
<1> QED
  BY <1>1, InitTrip, NextTrip, InvInvariant, PTL DEF Spec

-----------------------------------------------------------------------------
(***************************************************************************)
(* What bytes of any origin denote.  As long as more groups may follow,    *)
(* the value is the sum of the groups so far, below the weight of the next *)
(* one; only the last group a word has room for can lose bits.             *)
(***************************************************************************)

\* Every set of numbers has a least one: the ground of all inductions here.
LEMMA Least == ASSUME NEW T, T \subseteq Nat, T # {} PROVE \E m \in T : \A n \in T : m <= n
<1> DEFINE below == OpToRel(<, Nat)
<1>1. \A x, y \in Nat : <<x, y>> \in below <=> x < y
  BY DEF OpToRel
<1>2. IsWellFoundedOn(below, Nat)
  BY NatLessThanWellFounded
<1> HIDE DEF below
<1>3. PICK m \in T : \A n \in T : ~(<<n, m>> \in below)
  BY <1>2, WFMin
<1>4. ASSUME NEW n \in T PROVE m <= n
  <2>1. m \in Nat /\ n \in Nat /\ ~(n < m)
    BY <1>1, <1>3
  <2> QED
    BY <2>1
<1> QED
  BY <1>3, <1>4

\* The n-th byte's share of the number.
Share(input, n) == (input[n] % Group) * Power(n - 1)

\* The sums of the first shares.
IsSum(s, input, len) ==
    s \in [0..len -> Nat] /\ s[0] = 0 /\ \A n \in 1..len : s[n] = s[n - 1] + Share(input, n)

LEMMA SumUnique ==
    ASSUME NEW input, NEW len \in Nat, NEW s, NEW t,
           IsSum(s, input, len), t[0] = 0,
           \A n \in 1..len : t[n] = t[n - 1] + Share(input, n)
    PROVE  \A n \in 0..len : t[n] = s[n]
<1> DEFINE Wrong == {n \in 0..len : t[n] # s[n]}
<1>1. SUFFICES ASSUME Wrong # {} PROVE FALSE
  OBVIOUS
<1>2. PICK m \in Wrong : \A n \in Wrong : m <= n
  <2>1. Wrong \subseteq Nat
    OBVIOUS
  <2> QED
    BY <1>1, <2>1, Least
<1>3. m \in 1..len
  BY DEF IsSum
<1>4. m - 1 \in 0..len /\ m - 1 < m
  BY <1>3
<1>5. t[m - 1] = s[m - 1]
  BY <1>2, <1>3, <1>4
<1>6. t[m] = s[m]
  BY <1>3, <1>5 DEF IsSum
<1> QED
  BY <1>6

LEMMA DenotedSum ==
    ASSUME NEW input, NEW s, Len(input) \in Nat, IsSum(s, input, Len(input))
    PROVE  Denoted(input) = s[Len(input)] % Word
<1> DEFINE len == Len(input)
           Step(g) == [n \in 0..len |-> IF n = 0 THEN 0
                          ELSE g[n - 1] + (input[n] % Group) * 2 ^ ((n - 1) * GroupBits)]
           sum == CHOOSE g : g = Step(g)
<1>1. s = Step(s)
  BY DEF IsSum, Share, Power
<1>2. sum = Step(sum)
  BY <1>1
<1>3. Denoted(input) = sum[len] % Word
  BY DEF Denoted
<1> HIDE DEF sum
<1>4. sum[0] = 0 /\ \A n \in 1..len : sum[n] = sum[n - 1] + Share(input, n)
  BY <1>2 DEF Share, Power
<1>5. sum[len] = s[len]
  BY <1>4, SumUnique
<1> QED
  BY <1>3, <1>5

\* The numbers the loops hold stay words; the bytes read add up to the value,
\* exactly while more may come and cut to a word when the number is complete.
Summed ==
    /\ value < Word
    /\ stage # "writing" =>
          \E s : /\ IsSum(s, bytes, position)
                 /\ stage = "reading" => value = s[position] /\ value < Power(position)
                 /\ stage = "read" => value = s[position] % Word

\* The weights of all groups of a word divide it.
LEMMA WeightDivides ==
    ASSUME NEW k \in Nat, k < MaxGroups
    PROVE  \E e \in Nat : e > 0 /\ Word = Power(k) * e
<1>1. k * GroupBits <= MaxShift /\ k * GroupBits \in Nat
  <2>1. (MaxShift \div GroupBits) * GroupBits = MaxShift /\ MaxShift \div GroupBits \in Nat
    BY WidthsAssumption
  <2>2. k <= MaxShift \div GroupBits
    BY <2>1 DEF MaxGroups
  <2> QED
    BY <2>1, <2>2, WidthsAssumption
<1>2. PICK d \in Nat : WordBits = k * GroupBits + d
  <2>1. WordBits - k * GroupBits \in Nat
    BY <1>1, WidthsAssumption
  <2> QED
    BY <1>1, <2>1, WidthsAssumption
<1>3. Word = 2 ^ (k * GroupBits + d)
  BY <1>2 DEF Word
<1>4. Word = Power(k) * 2 ^ d
  BY <1>1, <1>3, PowerAdds DEF Power
<1> QED
  BY <1>4, PowerOfTwo

\* A remainder is not changed by what is added below it.
LEMMA RemainderPlus ==
    ASSUME NEW word \in Nat, NEW q \in Nat, NEW r \in Nat, NEW x \in Nat, x + r < word
    PROVE  (x + ((word * q) + r)) % word = x + r
<1>1. PICK wq \in Nat : wq = word * q
  OBVIOUS
<1>2. PICK n \in Nat, c \in Nat : c = x + r /\ n = x + (wq + r)
  OBVIOUS
<1>3. n = word * q + c /\ c < word
  BY <1>1, <1>2
<1>4. n % word = c
  BY <1>3, DivUnique
<1> QED
  BY <1>1, <1>2, <1>4

\* A group is added to a sum below its weight: what leaves the word is lost,
\* and what stays is the sum cut to a word.
LEMMA AddsGroup ==
    ASSUME NEW x \in Nat, NEW p \in Nat, NEW d \in Nat, NEW e \in Nat, NEW word \in Nat,
           e > 0, x < p
    PROVE  word = p * e =>
              /\ x + ((d * p) % word) < word
              /\ x + ((d * p) % word) = (x + (d * p)) % word
<1>a. SUFFICES ASSUME word = p * e
               PROVE  /\ x + ((d * p) % word) < word
                      /\ x + ((d * p) % word) = (x + (d * p)) % word
  OBVIOUS
<1> DEFINE q == d \div e
           r == d % e
<1>1. q \in Nat /\ r \in Nat /\ r < e /\ d = (e * q) + r
  BY DivMod
<1> HIDE DEF q, r
<1>2. p * r + p <= p * e /\ p * r \in Nat
  BY <1>1, Times
<1>3. d * p = (word * q) + (p * r)
  <2>1. ((e * q) + r) * p = ((p * e) * q) + (p * r)
    BY <1>1
  <2> QED
    BY <1>1, <1>a, <2>1
<1>4. PICK dp \in Nat, pr \in Nat : dp = d * p /\ pr = p * r /\ pr < word /\ x + pr < word
  BY <1>2, <1>a
<1>5. dp = (word * q) + pr
  BY <1>3, <1>4
<1>6. dp % word = pr
  <2>1. (0 + ((word * q) + pr)) % word = 0 + pr
    BY <1>1, <1>4, RemainderPlus
  <2>2. 0 + dp = dp /\ 0 + pr = pr
    BY <1>4
  <2> QED
    BY <1>5, <2>1, <2>2
<1>7. (x + dp) % word = x + pr
  <2>1. (x + ((word * q) + pr)) % word = x + pr
    BY <1>1, <1>4, RemainderPlus
  <2> QED
    BY <1>5, <2>1
<1> QED
  BY <1>4, <1>6, <1>7

LEMMA InitSummed == Init => Summed
<1> SUFFICES ASSUME Init PROVE Summed
  OBVIOUS
<1>1. value < Word /\ value \in Nat
  BY GroupType DEF Init
<1>2. ASSUME stage # "writing" PROVE stage = "reading" /\ value = 0 /\ position = 0
  BY <1>2 DEF Init
<1> DEFINE s == [n \in 0..0 |-> 0]
<1>3. IsSum(s, bytes, 0) /\ s[0] = 0
  <2>1. 1..0 = {}
    OBVIOUS
  <2> QED
    BY <2>1 DEF IsSum
<1>4. 0 < Power(0)
  BY PowerType
<1> QED
  BY <1>1, <1>2, <1>3, <1>4 DEF Summed

LEMMA WriteSummed == ASSUME Inv, Summed, WriteGroup \/ WriteLast PROVE Summed'
<1>1. CASE WriteGroup
  <2>1. value' <= value /\ value' \in Nat
    <3>1. value \in Nat /\ value \div Group \in Nat /\ value % Group \in Nat
          /\ value = (Group * (value \div Group)) + (value % Group)
      BY GroupType, DivMod DEF Inv, TypeInv
    <3>2. Group * (value \div Group) >= value \div Group
      BY <3>1, GroupType
    <3> QED
      BY <1>1, <3>1, <3>2, GroupType DEF WriteGroup
  <2> QED
    BY <1>1, <2>1, GroupType DEF WriteGroup, Summed, Word, Inv, TypeInv
<1>2. CASE WriteLast
  <2> DEFINE s == [n \in 0..0 |-> 0]
  <2>1. IsSum(s, bytes', 0) /\ s[0] = 0
    <3>1. 1..0 = {}
      OBVIOUS
    <3> QED
      BY <3>1 DEF IsSum
  <2>2. 0 < Power(0) /\ value' = 0 /\ position' = 0 /\ stage' = "reading"
    BY <1>2, PowerType DEF WriteLast, Inv, Progress
  <2> HIDE DEF s
  <2>3. IsSum(s, bytes', position') /\ value' = s[position'] /\ value' < Power(position')
    BY <2>1, <2>2
  <2> QED
    BY <2>2, <2>3, GroupType DEF Summed, Word, IsSum, Share, Power, Group
<1> QED
  BY <1>1, <1>2

LEMMA ReadGroupSummed == ASSUME Inv, Summed, ReadGroup PROVE Summed'
<1>1. PICK p \in Nat : p = position
  BY DEF Inv, TypeInv
<1> DEFINE byte == bytes[p + 1]
           d == byte % Group
<1>2. /\ stage = "reading" /\ p < Len(bytes) /\ p < MaxGroups /\ shift = p * GroupBits
      /\ UNCHANGED bytes /\ position' = p + 1
      /\ value' = value + Placed(byte)
      /\ stage' \in {"reading", "read", "invalid"}
      /\ stage' = "reading" => ~ShiftExceeds
  BY <1>1 DEF Inv, Progress, ReadGroup
<1>3. byte \in Nat /\ d \in Nat /\ d < Group
  <2>1. byte \in Nat
    BY <1>1, <1>2 DEF Inv, TypeInv
  <2> QED
    BY <2>1, GroupType, DivMod
<1>4. PICK s : IsSum(s, bytes, p) /\ value = s[p] /\ value < Power(p)
  BY <1>1, <1>2 DEF Summed
<1>5. Placed(byte) = (d * Power(p)) % Word
  BY <1>2 DEF Placed, Power
<1> HIDE DEF byte, d
<1>6. value \in Nat /\ Power(p) \in Nat /\ Word \in Nat
  BY <1>1, PowerType, GroupType DEF Inv, TypeInv
<1>7. value' < Word /\ value' = (value + (d * Power(p))) % Word
  <2>1. PICK e \in Nat : e > 0 /\ Word = Power(p) * e
    BY <1>1, <1>2, WeightDivides
  <2> QED
    BY <1>2, <1>3, <1>4, <1>5, <1>6, <2>1, AddsGroup
<1> DEFINE t == [n \in 0..(p + 1) |-> IF n = p + 1 THEN s[p] + (d * Power(p)) ELSE s[n]]
<1>8. IsSum(t, bytes, p + 1) /\ t[p + 1] = value + (d * Power(p))
  <2>1. d * Power(p) \in Nat /\ Share(bytes, p + 1) = d * Power(p)
    <3>1. (p + 1) - 1 = p
      BY <1>1
    <3> QED
      BY <1>3, <1>6, <3>1 DEF Share, byte, d
  <2>2. t \in [0..(p + 1) -> Nat]
    BY <1>1, <1>4, <1>6, <2>1 DEF IsSum
  <2>3. t[0] = 0 /\ t[p + 1] = value + (d * Power(p))
    BY <1>1, <1>4 DEF IsSum
  <2>4. ASSUME NEW n \in 1..(p + 1) PROVE t[n] = t[n - 1] + Share(bytes, n)
    <3>1. CASE n = p + 1
      <4>1. n - 1 = p /\ p \in 0..(p + 1) /\ p # p + 1
        BY <1>1, <3>1
      <4> QED
        BY <1>1, <2>1, <3>1, <4>1
    <3>2. CASE n \in 1..p
      <4>1. n # p + 1 /\ n - 1 # p + 1 /\ n - 1 \in 0..(p + 1)
        BY <1>1, <3>2
      <4> QED
        BY <1>4, <3>2, <4>1 DEF IsSum
    <3> QED
      BY <1>1, <3>1, <3>2
  <2> QED
    BY <2>2, <2>3, <2>4 DEF IsSum
<1> HIDE DEF t
<1>9. ASSUME stage' = "reading" PROVE value' = t[p + 1] /\ value' < Power(p + 1)
  <2>1. p + 1 < MaxGroups
    BY <1>1, <1>2, <1>9, LastShift, MaxGroupsType DEF ShiftExceeds
  <2>2. PICK g \in Nat, e \in Nat : g = Power(p + 1) /\ Word = g * e /\ e > 0
    BY <1>1, <2>1, WeightDivides, PowerType
  <2>3. value + (d * Power(p)) < Power(p + 1)
    <3>1. Power(p) * d + Power(p) <= Power(p) * Group
      BY <1>3, <1>6, GroupType, Times
    <3>2. Power(p + 1) = Power(p) * Group /\ Power(p) * d = d * Power(p) /\ d * Power(p) \in Nat
      BY <1>1, <1>3, <1>6, PowerNext
    <3>3. PICK dp \in Nat : dp = d * Power(p) /\ dp + Power(p) <= Power(p + 1)
      BY <3>1, <3>2
    <3>4. Power(p + 1) \in Nat
      BY <1>1, PowerType
    <3> QED
      BY <1>4, <1>6, <3>3, <3>4
  <2>4. g <= Word
    BY <1>6, <2>2
  <2>5. value + (d * Power(p)) \in Nat /\ value + (d * Power(p)) < Word
    BY <1>3, <1>6, <2>2, <2>3, <2>4
  <2>6. value' = value + (d * Power(p))
    BY <1>6, <1>7, <2>5
  <2> QED
    BY <1>8, <2>3, <2>6
<1> QED
  BY <1>2, <1>7, <1>8, <1>9 DEF Summed, IsSum, Share, Power, Group, Word

LEMMA NextSummed == ASSUME Inv, Summed, [Next]_vars PROVE Summed'
<1>1. CASE ReadEnds
  BY <1>1 DEF ReadEnds, Summed, IsSum, Share, Power, Group, Word
<1>2. CASE UNCHANGED vars
  BY <1>2 DEF vars, Summed, IsSum, Share, Power, Group, Word
<1> QED
  BY <1>1, <1>2, WriteSummed, ReadGroupSummed DEF Next

\* Whatever the input and the widths, the value stays a word, and a number that
\* was read is the one its bytes stand for, cut to a word.
THEOREM NumbersAreDenoted == Spec => []ReadsDenotedValue
<1>1. Inv /\ Summed => ReadsDenotedValue
  <2> SUFFICES ASSUME Inv, Summed, stage = "read"
               PROVE  value = Denoted(SubSeq(bytes, 1, position))
    BY DEF Summed, ReadsDenotedValue
  <2> DEFINE input == SubSeq(bytes, 1, position)
  <2>1. PICK s : IsSum(s, bytes, position) /\ value = s[position] % Word
    BY DEF Summed
  <2>2. Len(input) = position /\ position \in Nat
        /\ \A n \in 1..position : input[n] = bytes[n]
    BY DEF Inv, TypeInv
  <2> HIDE DEF input
  <2>3. IsSum(s, input, Len(input))
    BY <2>1, <2>2 DEF IsSum, Share
  <2> QED
    BY <2>1, <2>2, <2>3, DenotedSum DEF input
<1> QED
  BY <1>1, InvInvariant, InitSummed, NextSummed, PTL DEF Spec

=============================================================================

---------------------------- MODULE MerkleProofs -----------------------------
(***************************************************************************)
(* What inclusion and consistency proofs prove, for trees of every size.   *)
(***************************************************************************)
EXTENDS MerkleTree, Selection, SequenceTheorems

-----------------------------------------------------------------------------
(* Lowest bits and powers of two *)

\* A set that holds each number if it holds those below it holds every number.
LEMMA EveryNumberFromBelow ==
  ASSUME NEW S, \A n \in Nat : (\A m \in 0..(n - 1) : m \in S) => n \in S
  PROVE  Nat \subseteq S
<1> DEFINE T == {n \in Nat : \A m \in 0..n : m \in S}
<1>1. 0 \in T
  OBVIOUS
<1>2. ASSUME NEW n \in Nat, n \in T PROVE n + 1 \in T
  <2>1. n + 1 \in S
    BY <1>2
  <2>2. \A m \in 0..(n + 1) : m \in 0..n \/ m = n + 1
    OBVIOUS
  <2> QED
    BY <1>2, <2>1, <2>2
<1> HIDE DEF T
<1>3. Nat \subseteq T
  BY <1>1, <1>2, EveryNumber
<1> QED
  BY <1>3 DEF T

\* f gives the lowest bits of the numbers up to n.
LowBits(n, f) == f = [m \in 0..n |-> IF m = 0 \/ m % 2 = 1 THEN 1 ELSE 2 * f[m \div 2]]

LEMMA LowBitsExist == \A n \in Nat : \E f : LowBits(n, f)
<1> DEFINE S == {n \in Nat : \E f : LowBits(n, f)}
<1>1. 0 \in S
  <2>1. LowBits(0, [m \in 0..0 |-> 1])
    BY DEF LowBits
  <2> QED
    BY <2>1
<1>2. ASSUME NEW n \in Nat, n \in S PROVE n + 1 \in S
  <2>1. PICK f : LowBits(n, f)
    BY <1>2
  <2>2. PICK x : x = IF (n + 1) % 2 = 1 THEN 1 ELSE 2 * f[(n + 1) \div 2]
    OBVIOUS
  <2>3. PICK g : g = [m \in 0..(n + 1) |-> IF m = n + 1 THEN x ELSE f[m]]
    OBVIOUS
  <2>4. LowBits(n + 1, g)
    <3>1. ASSUME NEW m \in 0..(n + 1)
          PROVE  g[m] = IF m = 0 \/ m % 2 = 1 THEN 1 ELSE 2 * g[m \div 2]
      <4>1. m # 0 => m \div 2 \in 0..n
        OBVIOUS
      <4>2. m # 0 => g[m \div 2] = f[m \div 2]
        BY <2>3, <4>1
      <4>3. CASE m = n + 1
        BY <2>2, <2>3, <4>2, <4>3
      <4>4. CASE m \in 0..n
        <5>1. g[m] = f[m]
          BY <2>3, <4>4
        <5> QED
          BY <2>1, <4>2, <4>4, <5>1 DEF LowBits
      <4> QED
        BY <4>3, <4>4
    <3> QED
      BY <2>3, <3>1 DEF LowBits
  <2> QED
    BY <2>4
<1> HIDE DEF S
<1>3. Nat \subseteq S
  BY <1>1, <1>2, EveryNumber
<1> QED
  BY <1>3 DEF S

LEMMA LowBitsAgree ==
  ASSUME NEW i \in Nat, NEW j \in Nat, NEW f, NEW g, LowBits(i, f), LowBits(j, g)
  PROVE  \A m \in Nat : m <= i /\ m <= j => f[m] = g[m]
<1> DEFINE S == {m \in Nat : m <= i /\ m <= j => f[m] = g[m]}
<1>1. ASSUME NEW m \in Nat, \A l \in 0..(m - 1) : l \in S PROVE m \in S
  <2>1. SUFFICES ASSUME m <= i, m <= j PROVE f[m] = g[m]
    OBVIOUS
  <2>2. /\ f[m] = IF m = 0 \/ m % 2 = 1 THEN 1 ELSE 2 * f[m \div 2]
        /\ g[m] = IF m = 0 \/ m % 2 = 1 THEN 1 ELSE 2 * g[m \div 2]
    BY <2>1 DEF LowBits
  <2>3. m # 0 => m \div 2 \in 0..(m - 1)
    OBVIOUS
  <2>4. m # 0 => f[m \div 2] = g[m \div 2]
    BY <1>1, <2>1, <2>3
  <2> QED
    BY <2>2, <2>4
<1> HIDE DEF S
<1>2. Nat \subseteq S
  BY <1>1, EveryNumberFromBelow
<1> QED
  BY <1>2 DEF S

LEMMA LowestBitFrom ==
  ASSUME NEW n \in Nat
  PROVE  \E f : LowBits(n, f) /\ LowestBit(n) = f[n]
<1> DEFINE low == CHOOSE f : f = [m \in 0..n |-> IF m = 0 \/ m % 2 = 1 THEN 1 ELSE 2 * f[m \div 2]]
<1>1. PICK f : LowBits(n, f)
  BY LowBitsExist
<1>2. LowBits(n, low)
  BY <1>1 DEF LowBits
<1>3. LowestBit(n) = low[n]
  BY DEF LowestBit
<1> QED
  BY <1>2, <1>3

\* The bit of an odd number and of 0 is 1, of an even one twice that of its half.
LEMMA LowestBitIs ==
  ASSUME NEW n \in Nat
  PROVE  LowestBit(n) = IF n = 0 \/ n % 2 = 1 THEN 1 ELSE 2 * LowestBit(n \div 2)
<1>1. PICK f : LowBits(n, f) /\ LowestBit(n) = f[n]
  BY LowestBitFrom
<1>2. f[n] = IF n = 0 \/ n % 2 = 1 THEN 1 ELSE 2 * f[n \div 2]
  BY <1>1 DEF LowBits
<1>3. n \div 2 \in Nat /\ n \div 2 <= n
  OBVIOUS
<1>4. PICK g : LowBits(n \div 2, g) /\ LowestBit(n \div 2) = g[n \div 2]
  BY <1>3, LowestBitFrom
<1>5. f[n \div 2] = g[n \div 2]
  BY <1>1, <1>3, <1>4, LowBitsAgree
<1> QED
  BY <1>1, <1>2, <1>4, <1>5

LEMMA LowestBitPositive == \A n \in Nat : LowestBit(n) \in Nat \ {0}
<1> DEFINE S == {n \in Nat : LowestBit(n) \in Nat \ {0}}
<1>1. ASSUME NEW n \in Nat, \A m \in 0..(n - 1) : m \in S PROVE n \in S
  <2>1. n # 0 => n \div 2 \in 0..(n - 1)
    OBVIOUS
  <2>2. n # 0 => LowestBit(n \div 2) \in Nat \ {0}
    BY <1>1, <2>1
  <2> QED
    BY <2>2, LowestBitIs
<1> HIDE DEF S
<1>2. Nat \subseteq S
  BY <1>1, EveryNumberFromBelow
<1> QED
  BY <1>2 DEF S

Powers == {k \in Nat : IsPowerOfTwo(k)}

LEMMA PowerOne == 1 \in Powers
BY LowestBitIs DEF Powers, IsPowerOfTwo

LEMMA PowerDouble == \A k \in Powers : 2 * k \in Powers
<1>1. SUFFICES ASSUME NEW k \in Nat, k > 0, LowestBit(k) = k PROVE LowestBit(2 * k) = 2 * k
  BY DEF Powers, IsPowerOfTwo
<1>2. 2 * k \in Nat /\ 2 * k # 0 /\ (2 * k) % 2 # 1 /\ (2 * k) \div 2 = k
  BY <1>1
<1> QED
  BY <1>1, <1>2, LowestBitIs

LEMMA PowerHalf ==
  ASSUME NEW k \in Powers
  PROVE  k = 1 \/ \E h \in Powers : k = 2 * h
<1>1. k \in Nat /\ k > 0 /\ LowestBit(k) = k
  BY DEF Powers, IsPowerOfTwo
<1>2. CASE k % 2 = 1
  BY <1>1, <1>2, LowestBitIs
<1>3. CASE k % 2 # 1
  <2>1. PICK h \in Nat : k = 2 * h
    <3>1. k \div 2 \in Nat /\ k = 2 * (k \div 2)
      BY <1>1, <1>3
    <3> QED
      BY <3>1
  <2>2. k \div 2 = h
    BY <2>1
  <2>3. k = 2 * LowestBit(h)
    BY <1>1, <1>3, <2>2, LowestBitIs
  <2>4. LowestBit(h) \in Nat
    BY LowestBitPositive
  <2>5. h > 0 /\ LowestBit(h) = h
    BY <1>1, <2>1, <2>3, <2>4
  <2>6. h \in Powers
    BY <2>5 DEF Powers, IsPowerOfTwo
  <2> QED
    BY <2>1, <2>6
<1> QED
  BY <1>2, <1>3

\* Between a power of two and its double lies no other.
LEMMA PowersApart == \A j, k \in Powers : k < j => 2 * k <= j
<1> DEFINE S == {j \in Nat : j \in Powers => \A k \in Powers : k < j => 2 * k <= j}
<1>1. ASSUME NEW j \in Nat, \A i \in 0..(j - 1) : i \in S PROVE j \in S
  <2>1. SUFFICES ASSUME j \in Powers, NEW k \in Powers, k < j PROVE 2 * k <= j
    OBVIOUS
  <2>2. k \in Nat /\ k > 0 /\ \A h \in Powers : h \in Nat /\ h > 0
    BY DEF Powers, IsPowerOfTwo
  <2>3. PICK h \in Powers : j = 2 * h
    BY <2>1, <2>2, PowerHalf
  <2>4. CASE k = 1
    BY <2>1, <2>4
  <2>5. ASSUME NEW l \in Powers, k = 2 * l PROVE 2 * k <= j
    <3>1. l \in Nat /\ h \in Nat /\ l < h /\ h \in 0..(j - 1)
      BY <2>1, <2>2, <2>3, <2>5
    <3>2. 2 * l <= h
      BY <1>1, <3>1
    <3> QED
      BY <2>3, <2>5, <3>1, <3>2
  <2> QED
    BY <2>4, <2>5, PowerHalf
<1> HIDE DEF S
<1>2. Nat \subseteq S
  BY <1>1, EveryNumberFromBelow
<1>3. Powers \subseteq Nat
  BY DEF Powers
<1> QED
  BY <1>2, <1>3 DEF S

\* k is the power of two at which a range of n leaves is split.
Splits(k, n) == k \in Powers /\ k < n /\ n <= 2 * k

LEMMA SplitUnique ==
  ASSUME NEW n \in Nat, NEW j, NEW k, Splits(j, n), Splits(k, n)
  PROVE  j = k
<1>1. j \in Nat /\ k \in Nat
  BY DEF Splits, Powers
<1>2. (j < k => 2 * j <= k) /\ (k < j => 2 * k <= j)
  BY PowersApart DEF Splits
<1> QED
  BY <1>1, <1>2 DEF Splits

LEMMA SplitExists == \A n \in Nat : n > 1 => \E k \in 1..n : Splits(k, n)
<1> DEFINE S == {n \in Nat : n > 1 => \E k \in 1..n : Splits(k, n)}
<1>1. ASSUME NEW n \in Nat, \A m \in 0..(n - 1) : m \in S PROVE n \in S
  <2>1. SUFFICES ASSUME n > 1 PROVE \E k \in 1..n : Splits(k, n)
    OBVIOUS
  <2>2. CASE n = 2
    BY <2>2, PowerOne DEF Splits
  <2>3. CASE n > 2
    <3>1. PICK h \in Nat : h = (n + 1) \div 2
      OBVIOUS
    <3>2. h > 1 /\ h <= n - 1 /\ n <= 2 * h /\ 2 * h <= n + 1
      BY <2>3, <3>1
    <3>3. PICK k \in 1..h : Splits(k, h)
      BY <1>1, <3>2
    <3>4. 2 * k \in Powers /\ 2 * k < n /\ n <= 2 * (2 * k)
      BY <3>2, <3>3, PowerDouble DEF Splits
    <3>5. 2 * k \in 1..n
      BY <3>4
    <3> QED
      BY <3>4, <3>5 DEF Splits
  <2> QED
    BY <2>1, <2>2, <2>3
<1> HIDE DEF S
<1>2. Nat \subseteq S
  BY <1>1, EveryNumberFromBelow
<1> QED
  BY <1>2 DEF S

LEMMA SplitIs ==
  ASSUME NEW n \in Nat, n > 1
  PROVE  Splits(LargestPowerOfTwoBelow(n), n)
<1>1. PICK k \in 1..n : Splits(k, n)
  BY SplitExists
<1>2. k < n /\ n <= 2 * k /\ IsPowerOfTwo(k)
  BY <1>1 DEF Splits, Powers
<1>3. PICK j : j = LargestPowerOfTwoBelow(n)
  OBVIOUS
<1>4. j \in 1..n /\ j < n /\ n <= 2 * j /\ IsPowerOfTwo(j)
  BY <1>2, <1>3 DEF LargestPowerOfTwoBelow
<1> QED
  BY <1>3, <1>4 DEF Splits, Powers

\* A full range is split in two full ones.
LEMMA SplitFull ==
  ASSUME NEW h \in Powers
  PROVE  LargestPowerOfTwoBelow(2 * h) = h
<1>1. h \in Nat /\ h > 0
  BY DEF Powers, IsPowerOfTwo
<1>2. Splits(h, 2 * h)
  BY <1>1 DEF Splits
<1>3. Splits(LargestPowerOfTwoBelow(2 * h), 2 * h)
  BY <1>1, SplitIs
<1> QED
  BY <1>1, <1>2, <1>3, SplitUnique

\* Where a range of n leaves is split, a power of two that has room for it is
\* split as well, a power of two times over.
LEMMA SplitDivides ==
  ASSUME NEW n \in Nat, NEW k, Splits(k, n)
  PROVE  \A D \in Powers : n <= D => \E r \in Powers : D = r * (2 * k)
<1> DEFINE S == {D \in Nat : D \in Powers /\ n <= D => \E r \in Powers : D = r * (2 * k)}
<1>1. k \in Nat /\ k > 0
  BY DEF Splits, Powers, IsPowerOfTwo
<1>2. ASSUME NEW D \in Nat, \A i \in 0..(D - 1) : i \in S PROVE D \in S
  <2>1. SUFFICES ASSUME D \in Powers, n <= D PROVE \E r \in Powers : D = r * (2 * k)
    OBVIOUS
  <2>2. PICK h \in Powers : D = 2 * h
    BY <1>1, <2>1, PowerHalf DEF Splits
  <2>3. h \in Nat /\ h > 0 /\ h \in 0..(D - 1)
    BY <2>2 DEF Powers, IsPowerOfTwo
  <2>4. CASE n <= h
    <3>1. PICK r \in Powers : h = r * (2 * k)
      BY <1>2, <2>3, <2>4
    <3>2. 2 * r \in Powers /\ r \in Nat
      BY PowerDouble DEF Powers
    <3>3. D = (2 * r) * (2 * k)
      BY <1>1, <2>2, <3>1, <3>2
    <3> QED
      BY <3>2, <3>3
  <2>5. CASE h < n
    <3>1. Splits(h, n)
      BY <2>1, <2>2, <2>5 DEF Splits
    <3>2. h = k
      BY <3>1, SplitUnique
    <3>3. D = 1 * (2 * k)
      BY <1>1, <2>2, <3>2
    <3> QED
      BY <3>3, PowerOne
  <2> QED
    BY <2>3, <2>4, <2>5
<1> HIDE DEF S
<1>3. Nat \subseteq S
  BY <1>2, EveryNumberFromBelow
<1>4. Powers \subseteq Nat
  BY DEF Powers
<1> QED
  BY <1>3, <1>4 DEF S

LEMMA RoomFor == \A n \in Nat : \E D \in Powers : n <= D
<1>1. SUFFICES ASSUME NEW n \in Nat PROVE \E D \in Powers : n <= D
  OBVIOUS
<1>2. CASE n <= 1
  BY <1>2, PowerOne
<1>3. CASE n > 1
  BY <1>3, SplitIs, PowerDouble DEF Splits
<1> QED
  BY <1>2, <1>3

\* An odd number of times a power of two has that power as its lowest bit.
LEMMA OddTimesPower ==
  ASSUME NEW o \in Nat, o % 2 = 1
  PROVE  \A j \in Powers : LowestBit(o * j) = j
<1> DEFINE S == {j \in Nat : j \in Powers => LowestBit(o * j) = j}
<1>1. ASSUME NEW j \in Nat, \A i \in 0..(j - 1) : i \in S PROVE j \in S
  <2>1. SUFFICES ASSUME j \in Powers PROVE LowestBit(o * j) = j
    OBVIOUS
  <2>2. CASE j = 1
    <3>1. o * j = o
      BY <2>2
    <3> QED
      BY <2>2, <3>1, LowestBitIs
  <2>3. ASSUME NEW h \in Powers, j = 2 * h PROVE LowestBit(o * j) = j
    <3>1. h \in Nat /\ h > 0 /\ h \in 0..(j - 1)
      BY <2>3 DEF Powers, IsPowerOfTwo
    <3>2. PICK x \in Nat : x = o * h
      BY <3>1
    <3>3. o * j = 2 * x
      BY <2>3, <3>1, <3>2
    <3>4. x # 0
      <4>1. o > 0
        OBVIOUS
      <4> QED
        BY <3>1, <3>2, <4>1
    <3>5. 2 * x \in Nat /\ 2 * x # 0 /\ (2 * x) % 2 # 1 /\ (2 * x) \div 2 = x
      BY <3>4
    <3>6. LowestBit(2 * x) = 2 * LowestBit(x)
      BY <3>5, LowestBitIs
    <3>7. LowestBit(x) = h
      BY <1>1, <3>1, <3>2
    <3> QED
      BY <2>3, <3>3, <3>6, <3>7
  <2> QED
    BY <2>1, <2>2, <2>3, PowerHalf
<1> HIDE DEF S
<1>2. Nat \subseteq S
  BY <1>1, EveryNumberFromBelow
<1>3. Powers \subseteq Nat
  BY DEF Powers
<1> QED
  BY <1>2, <1>3 DEF S

-----------------------------------------------------------------------------
(* Roots *)

\* f gives the roots of the ranges of at most n leaves, by where they start and their size.
Roots(leaves, n, f) ==
  f = [range \in Nat \X (0..n) |->
         CASE range[2] = 0 -> Sha(<<>>)
           [] range[2] = 1 -> leaves[range[1] + 1]
           [] OTHER -> HashNode(
                f[<<range[1], LargestPowerOfTwoBelow(range[2])>>],
                f[<<range[1] + LargestPowerOfTwoBelow(range[2]),
                    range[2] - LargestPowerOfTwoBelow(range[2])>>])]

\* Both halves of a range are smaller, and neither is empty.
LEMMA SplitBounds ==
  ASSUME NEW n \in Nat, n > 1
  PROVE  /\ LargestPowerOfTwoBelow(n) \in 1..(n - 1)
         /\ n - LargestPowerOfTwoBelow(n) \in 1..(n - 1)
         /\ n - LargestPowerOfTwoBelow(n) <= LargestPowerOfTwoBelow(n)
BY SplitIs DEF Splits, Powers, IsPowerOfTwo

LEMMA RootsExist ==
  ASSUME NEW leaves
  PROVE  \A n \in Nat : \E f : Roots(leaves, n, f)
<1> DEFINE S == {n \in Nat : \E f : Roots(leaves, n, f)}
           Value(f, a, n) ==
             CASE n = 0 -> Sha(<<>>)
               [] n = 1 -> leaves[a + 1]
               [] OTHER -> HashNode(f[<<a, LargestPowerOfTwoBelow(n)>>],
                                    f[<<a + LargestPowerOfTwoBelow(n),
                                        n - LargestPowerOfTwoBelow(n)>>])
<1>1. ASSUME NEW n \in Nat, NEW f, NEW g, NEW a \in Nat,
             \A b \in Nat, m \in 0..(n - 1) : f[<<b, m>>] = g[<<b, m>>]
      PROVE  Value(f, a, n) = Value(g, a, n)
  <2>1. CASE n <= 1
    BY <2>1
  <2>2. CASE n > 1
    <3>1. PICK k : k = LargestPowerOfTwoBelow(n)
      OBVIOUS
    <3>2. k \in 0..(n - 1) /\ n - k \in 0..(n - 1) /\ a + k \in Nat
      BY <2>2, <3>1, SplitBounds
    <3>3. f[<<a, k>>] = g[<<a, k>>] /\ f[<<a + k, n - k>>] = g[<<a + k, n - k>>]
      BY <1>1, <3>2
    <3> QED
      BY <2>2, <3>1, <3>3
  <2> QED
    BY <2>1, <2>2
<1>2. \A n, f : Roots(leaves, n, f) <=> f = [range \in Nat \X (0..n) |-> Value(f, range[1], range[2])]
  BY DEF Roots
<1> HIDE DEF Value
<1>3. ASSUME NEW n \in Nat, \A m \in 0..(n - 1) : m \in S PROVE n \in S
  <2>1. PICK f : n > 0 => Roots(leaves, n - 1, f)
    BY <1>3
  <2>2. PICK g : g = [range \in Nat \X (0..n) |->
                        IF range[2] = n THEN Value(f, range[1], n) ELSE f[range]]
    OBVIOUS
  <2>3. \A b \in Nat, m \in 0..(n - 1) : f[<<b, m>>] = g[<<b, m>>]
    BY <2>2
  <2>4. ASSUME NEW range \in Nat \X (0..n) PROVE g[range] = Value(g, range[1], range[2])
    <3>1. PICK a \in Nat, m \in 0..n : range = <<a, m>>
      OBVIOUS
    <3>2. \A b \in Nat, l \in 0..(m - 1) : f[<<b, l>>] = g[<<b, l>>]
      <4>1. \A l \in 0..(m - 1) : l \in 0..(n - 1)
        OBVIOUS
      <4> QED
        BY <2>3, <4>1
    <3>3. Value(f, a, m) = Value(g, a, m)
      BY <1>1, <3>2
    <3>4. CASE m = n
      BY <2>2, <3>1, <3>3, <3>4
    <3>5. CASE m # n
      <4>1. n > 0 /\ m \in 0..(n - 1)
        BY <3>1, <3>5
      <4>2. f[<<a, m>>] = Value(f, a, m)
        <5>1. f = [place \in Nat \X (0..(n - 1)) |-> Value(f, place[1], place[2])]
          BY <1>2, <2>1, <4>1
        <5>2. range \in Nat \X (0..(n - 1)) /\ range[1] = a /\ range[2] = m
          BY <3>1, <4>1
        <5>3. f[range] = Value(f, range[1], range[2])
          BY <5>1, <5>2
        <5> QED
          BY <3>1, <5>2, <5>3
      <4> QED
        BY <2>2, <3>1, <3>3, <3>5, <4>2
    <3> QED
      BY <3>4, <3>5
  <2>5. PICK h : h = [range \in Nat \X (0..n) |-> Value(g, range[1], range[2])]
    OBVIOUS
  <2>6. \A range \in Nat \X (0..n) : g[range] = h[range]
    BY <2>4, <2>5
  <2>7. g = h
    BY <2>2, <2>5, <2>6
  <2>8. Roots(leaves, n, g)
    BY <1>2, <2>5, <2>7
  <2> QED
    BY <2>8
<1> HIDE DEF S
<1>4. Nat \subseteq S
  BY <1>3, EveryNumberFromBelow
<1> QED
  BY <1>4 DEF S

LEMMA MthFrom ==
  ASSUME NEW leaves, Len(leaves) \in Nat
  PROVE  \E f : /\ Roots(leaves, Len(leaves), f)
                /\ \A a \in Nat, n \in Nat : Mth(leaves, a, a + n) = f[<<a, n>>]
<1> DEFINE mth ==
      CHOOSE f : f = [range \in Nat \X (0..Len(leaves)) |->
        CASE range[2] = 0 -> Sha(<<>>)
          [] range[2] = 1 -> leaves[range[1] + 1]
          [] OTHER -> HashNode(
               f[<<range[1], LargestPowerOfTwoBelow(range[2])>>],
               f[<<range[1] + LargestPowerOfTwoBelow(range[2]),
                   range[2] - LargestPowerOfTwoBelow(range[2])>>])]
<1>1. PICK f : Roots(leaves, Len(leaves), f)
  BY RootsExist
<1>2. Roots(leaves, Len(leaves), mth)
  BY <1>1 DEF Roots
<1>3. \A a, n : Mth(leaves, a, n) = mth[<<a, n - a>>]
  BY DEF Mth
<1> HIDE DEF mth
<1>4. \A a \in Nat, n \in Nat : Mth(leaves, a, a + n) = mth[<<a, n>>]
  BY <1>3
<1> QED
  BY <1>2, <1>4

\* The root of no leaf, of one leaf, and of a range that is split.
LEMMA MthIs ==
  ASSUME NEW leaves, Len(leaves) \in Nat, NEW a \in Nat, NEW n \in 0..Len(leaves)
  PROVE  /\ n = 0 => Mth(leaves, a, a + n) = Sha(<<>>)
         /\ n = 1 => Mth(leaves, a, a + n) = leaves[a + 1]
         /\ n > 1 => LET k == LargestPowerOfTwoBelow(n)
                     IN  Mth(leaves, a, a + n)
                           = HashNode(Mth(leaves, a, a + k), Mth(leaves, a + k, a + n))
<1>1. PICK f : /\ Roots(leaves, Len(leaves), f)
               /\ \A b \in Nat, m \in Nat : Mth(leaves, b, b + m) = f[<<b, m>>]
  BY MthFrom
<1>2. Mth(leaves, a, a + n) = f[<<a, n>>]
  BY <1>1
<1>3. f[<<a, n>>] = CASE n = 0 -> Sha(<<>>)
                      [] n = 1 -> leaves[a + 1]
                      [] OTHER -> HashNode(f[<<a, LargestPowerOfTwoBelow(n)>>],
                                           f[<<a + LargestPowerOfTwoBelow(n),
                                               n - LargestPowerOfTwoBelow(n)>>])
  BY <1>1 DEF Roots
<1>4. ASSUME n > 1
      PROVE  LET k == LargestPowerOfTwoBelow(n)
             IN  Mth(leaves, a, a + n)
                   = HashNode(Mth(leaves, a, a + k), Mth(leaves, a + k, a + n))
  <2>1. PICK k : k = LargestPowerOfTwoBelow(n)
    OBVIOUS
  <2>2. k \in Nat /\ n - k \in Nat /\ a + k \in Nat /\ (a + k) + (n - k) = a + n
    BY <1>4, <2>1, SplitBounds
  <2>3. Mth(leaves, a, a + k) = f[<<a, k>>] /\ Mth(leaves, a + k, a + n) = f[<<a + k, n - k>>]
    BY <1>1, <2>2
  <2> QED
    BY <1>2, <1>3, <1>4, <2>1, <2>3
<1> QED
  BY <1>2, <1>3, <1>4

-----------------------------------------------------------------------------
(* Paths *)

\* f gives the path from leaf m of a range of at most n leaves, by m, where the
\* range starts and its size.
Paths(leaves, n, f) ==
  f = [place \in Nat \X Nat \X (0..n) |->
         CASE place[3] <= 1 -> <<>>
           [] place[3] > 1 /\ place[1] < LargestPowerOfTwoBelow(place[3]) ->
                Append(f[<<place[1], place[2], LargestPowerOfTwoBelow(place[3])>>],
                       Mth(leaves, place[2] + LargestPowerOfTwoBelow(place[3]),
                           place[2] + place[3]))
           [] OTHER ->
                Append(f[<<place[1] - LargestPowerOfTwoBelow(place[3]),
                           place[2] + LargestPowerOfTwoBelow(place[3]),
                           place[3] - LargestPowerOfTwoBelow(place[3])>>],
                       Mth(leaves, place[2], place[2] + LargestPowerOfTwoBelow(place[3])))]

LEMMA PathsExist ==
  ASSUME NEW leaves
  PROVE  \A n \in Nat : \E f : Paths(leaves, n, f)
<1> DEFINE S == {n \in Nat : \E f : Paths(leaves, n, f)}
           Value(f, m, a, n) ==
             CASE n <= 1 -> <<>>
               [] n > 1 /\ m < LargestPowerOfTwoBelow(n) ->
                    Append(f[<<m, a, LargestPowerOfTwoBelow(n)>>],
                           Mth(leaves, a + LargestPowerOfTwoBelow(n), a + n))
               [] OTHER ->
                    Append(f[<<m - LargestPowerOfTwoBelow(n), a + LargestPowerOfTwoBelow(n),
                               n - LargestPowerOfTwoBelow(n)>>],
                           Mth(leaves, a, a + LargestPowerOfTwoBelow(n)))
<1>1. ASSUME NEW n \in Nat, NEW f, NEW g, NEW m \in Nat, NEW a \in Nat,
             \A i \in Nat, b \in Nat, l \in 0..(n - 1) : f[<<i, b, l>>] = g[<<i, b, l>>]
      PROVE  Value(f, m, a, n) = Value(g, m, a, n)
  <2>1. CASE n <= 1
    BY <2>1
  <2>2. CASE n > 1
    <3>1. PICK k : k = LargestPowerOfTwoBelow(n)
      OBVIOUS
    <3>2. k \in 0..(n - 1) /\ n - k \in 0..(n - 1) /\ a + k \in Nat
      BY <2>2, <3>1, SplitBounds
    <3>3. CASE m < k
      <4>1. f[<<m, a, k>>] = g[<<m, a, k>>]
        BY <1>1, <3>2
      <4> QED
        BY <2>2, <3>1, <3>3, <4>1
    <3>4. CASE ~(m < k)
      <4>1. m - k \in Nat
        BY <3>2, <3>4
      <4>2. f[<<m - k, a + k, n - k>>] = g[<<m - k, a + k, n - k>>]
        BY <1>1, <3>2, <4>1
      <4> QED
        BY <2>2, <3>1, <3>4, <4>2
    <3> QED
      BY <3>3, <3>4
  <2> QED
    BY <2>1, <2>2
<1>2. \A n, f : Paths(leaves, n, f)
                  <=> f = [place \in Nat \X Nat \X (0..n) |-> Value(f, place[1], place[2], place[3])]
  BY DEF Paths
<1> HIDE DEF Value
<1>3. ASSUME NEW n \in Nat, \A m \in 0..(n - 1) : m \in S PROVE n \in S
  <2>1. PICK f : n > 0 => Paths(leaves, n - 1, f)
    BY <1>3
  <2>2. PICK g : g = [place \in Nat \X Nat \X (0..n) |->
                        IF place[3] = n THEN Value(f, place[1], place[2], n) ELSE f[place]]
    OBVIOUS
  <2>3. \A i \in Nat, b \in Nat, l \in 0..(n - 1) : f[<<i, b, l>>] = g[<<i, b, l>>]
    BY <2>2
  <2>4. ASSUME NEW place \in Nat \X Nat \X (0..n)
        PROVE  g[place] = Value(g, place[1], place[2], place[3])
    <3>1. PICK m \in Nat, a \in Nat, r \in 0..n : place = <<m, a, r>>
      OBVIOUS
    <3>2. \A i \in Nat, b \in Nat, l \in 0..(r - 1) : f[<<i, b, l>>] = g[<<i, b, l>>]
      <4>1. \A l \in 0..(r - 1) : l \in 0..(n - 1)
        OBVIOUS
      <4> QED
        BY <2>3, <4>1
    <3>3. Value(f, m, a, r) = Value(g, m, a, r)
      <4>1. r \in Nat
        OBVIOUS
      <4> QED
        BY <1>1, <3>2, <4>1, ZenonT(60)
    <3>4. CASE r = n
      BY <2>2, <3>1, <3>3, <3>4
    <3>5. CASE r # n
      <4>1. n > 0 /\ r \in 0..(n - 1)
        BY <3>1, <3>5
      <4>2. f[<<m, a, r>>] = Value(f, m, a, r)
        <5>1. f = [at \in Nat \X Nat \X (0..(n - 1)) |-> Value(f, at[1], at[2], at[3])]
          BY <1>2, <2>1, <4>1
        <5>2. place \in Nat \X Nat \X (0..(n - 1)) /\ place[1] = m /\ place[2] = a /\ place[3] = r
          BY <3>1, <4>1
        <5>3. f[place] = Value(f, place[1], place[2], place[3])
          BY <5>1, <5>2
        <5> QED
          BY <3>1, <5>2, <5>3
      <4> QED
        BY <2>2, <3>1, <3>3, <3>5, <4>2
    <3> QED
      BY <3>4, <3>5
  <2>5. PICK h : h = [place \in Nat \X Nat \X (0..n) |-> Value(g, place[1], place[2], place[3])]
    OBVIOUS
  <2>6. \A place \in Nat \X Nat \X (0..n) : g[place] = h[place]
    BY <2>4, <2>5
  <2>7. g = h
    BY <2>2, <2>5, <2>6
  <2>8. Paths(leaves, n, g)
    BY <1>2, <2>5, <2>7
  <2> QED
    BY <2>8
<1> HIDE DEF S
<1>4. Nat \subseteq S
  BY <1>3, EveryNumberFromBelow
<1> QED
  BY <1>4 DEF S

LEMMA InclusionPathFrom ==
  ASSUME NEW leaves, Len(leaves) \in Nat
  PROVE  \E f : /\ Paths(leaves, Len(leaves), f)
                /\ \A m : InclusionPath(leaves, m) = f[<<m, 0, Len(leaves)>>]
<1> DEFINE path ==
      CHOOSE f : f = [place \in Nat \X Nat \X (0..Len(leaves)) |->
         CASE place[3] <= 1 -> <<>>
           [] place[3] > 1 /\ place[1] < LargestPowerOfTwoBelow(place[3]) ->
                Append(f[<<place[1], place[2], LargestPowerOfTwoBelow(place[3])>>],
                       Mth(leaves, place[2] + LargestPowerOfTwoBelow(place[3]),
                           place[2] + place[3]))
           [] OTHER ->
                Append(f[<<place[1] - LargestPowerOfTwoBelow(place[3]),
                           place[2] + LargestPowerOfTwoBelow(place[3]),
                           place[3] - LargestPowerOfTwoBelow(place[3])>>],
                       Mth(leaves, place[2], place[2] + LargestPowerOfTwoBelow(place[3])))]
<1>1. PICK f : Paths(leaves, Len(leaves), f)
  BY PathsExist
<1>2. Paths(leaves, Len(leaves), path)
  BY <1>1 DEF Paths
<1>3. \A m : InclusionPath(leaves, m) = path[<<m, 0, Len(leaves)>>]
  BY DEF InclusionPath
<1> QED
  BY <1>2, <1>3

\* The path from leaf m of the range of n leaves that starts at a.
PathTo(f, m, a, n) == f[<<m, a, n>>]

\* What it is for a leaf in the first k of them, and in the rest.
PathInFirst(leaves, f, m, a, n, k) ==
  Append(PathTo(f, m, a, k), Mth(leaves, a + k, a + n))

PathInRest(leaves, f, m, a, n, k) ==
  Append(PathTo(f, m - k, a + k, n - k), Mth(leaves, a, a + k))

\* The path from the leaf of a range of one is empty; that from a leaf of a range
\* that is split is the one in its half, and the root of the other half.
LEMMA PathIs ==
  ASSUME NEW leaves, Len(leaves) \in Nat, NEW f, Paths(leaves, Len(leaves), f),
         NEW m \in Nat, NEW a \in Nat, NEW n \in 0..Len(leaves)
  PROVE  /\ n <= 1 => PathTo(f, m, a, n) = <<>>
         /\ n > 1 => PathTo(f, m, a, n)
              = IF m < LargestPowerOfTwoBelow(n)
                THEN PathInFirst(leaves, f, m, a, n, LargestPowerOfTwoBelow(n))
                ELSE PathInRest(leaves, f, m, a, n, LargestPowerOfTwoBelow(n))
<1>2. PICK place : place = <<m, a, n>>
  OBVIOUS
<1>3. /\ place \in Nat \X Nat \X (0..Len(leaves))
      /\ place[1] = m /\ place[2] = a /\ place[3] = n
  BY <1>2
<1>4. f[place] =
        CASE n <= 1 -> <<>>
          [] n > 1 /\ m < LargestPowerOfTwoBelow(n) ->
               Append(f[<<m, a, LargestPowerOfTwoBelow(n)>>],
                      Mth(leaves, a + LargestPowerOfTwoBelow(n), a + n))
          [] OTHER ->
               Append(f[<<m - LargestPowerOfTwoBelow(n), a + LargestPowerOfTwoBelow(n),
                          n - LargestPowerOfTwoBelow(n)>>],
                      Mth(leaves, a, a + LargestPowerOfTwoBelow(n)))
  BY <1>3 DEF Paths
<1>5. CASE n <= 1
  BY <1>2, <1>4, <1>5 DEF PathTo
<1>6. CASE n > 1
  BY <1>2, <1>4, <1>6 DEF PathTo, PathInFirst, PathInRest
<1> QED
  BY <1>5, <1>6

IsSeq(s) == \E S : s \in Seq(S)

LEMMA AppendIsSeq ==
  ASSUME NEW s, IsSeq(s), NEW x
  PROVE  /\ IsSeq(Append(s, x))
         /\ Len(s) \in Nat /\ Len(Append(s, x)) = Len(s) + 1
         /\ Append(s, x)[Len(s) + 1] = x
         /\ \A i \in 1..Len(s) : Append(s, x)[i] = s[i]
<1>1. PICK S : s \in Seq(S)
  BY DEF IsSeq
<1>2. s \in Seq(S \cup {x})
  BY <1>1
<1>3. Append(s, x) \in Seq(S \cup {x})
  BY <1>2
<1> QED
  BY <1>2, <1>3 DEF IsSeq

LEMMA PathIsSeq ==
  ASSUME NEW leaves, Len(leaves) \in Nat, NEW f, Paths(leaves, Len(leaves), f)
  PROVE  \A n \in 0..Len(leaves), m \in Nat, a \in Nat : IsSeq(PathTo(f, m, a, n))
<1> DEFINE S == {n \in Nat : n <= Len(leaves) => \A m \in Nat, a \in Nat : IsSeq(PathTo(f, m, a, n))}
<1>1. ASSUME NEW n \in Nat, \A l \in 0..(n - 1) : l \in S PROVE n \in S
  <2>1. SUFFICES ASSUME n <= Len(leaves), NEW m \in Nat, NEW a \in Nat
                 PROVE  IsSeq(PathTo(f, m, a, n))
    OBVIOUS
  <2> n \in 0..Len(leaves)
    BY <2>1
  <2>2. CASE n <= 1
    <3>1. PathTo(f, m, a, n) = <<>>
      BY <2>2, PathIs
    <3>2. <<>> \in Seq({})
      OBVIOUS
    <3> QED
      BY <3>1, <3>2 DEF IsSeq
  <2>3. CASE n > 1
    <3>1. PICK k : k = LargestPowerOfTwoBelow(n)
      OBVIOUS
    <3>2. k \in 0..(n - 1) /\ n - k \in 0..(n - 1) /\ a + k \in Nat
      BY <2>3, <3>1, SplitBounds
    <3>3. CASE m < k
      <4>1. IsSeq(PathTo(f, m, a, k))
        BY <1>1, <2>1, <3>2
      <4>2. PathTo(f, m, a, n) = Append(PathTo(f, m, a, k), Mth(leaves, a + k, a + n))
        BY <2>3, <3>1, <3>3, PathIs DEF PathInFirst
      <4> QED
        BY <4>1, <4>2, AppendIsSeq
    <3>4. CASE ~(m < k)
      <4>1. m - k \in Nat
        BY <3>2, <3>4
      <4>2. n - k \in S /\ n - k <= Len(leaves)
        <5>1. n - k \in S
          BY <1>1, <3>2, Zenon
        <5>2. n - k <= Len(leaves)
          BY <2>1, <3>2
        <5> QED
          BY <5>1, <5>2
      <4>3. IsSeq(PathTo(f, m - k, a + k, n - k))
        BY <3>2, <4>1, <4>2
      <4>4. PathTo(f, m, a, n) = Append(PathTo(f, m - k, a + k, n - k), Mth(leaves, a, a + k))
        BY <2>3, <3>1, <3>4, PathIs DEF PathInRest
      <4> QED
        BY <4>3, <4>4, AppendIsSeq
    <3> QED
      BY <3>3, <3>4
  <2> QED
    BY <2>2, <2>3
<1> HIDE DEF S
<1>2. Nat \subseteq S
  BY <1>1, EveryNumberFromBelow
<1>3. \A n \in 0..Len(leaves) : n \in Nat /\ n <= Len(leaves)
  OBVIOUS
<1> QED
  BY <1>2, <1>3 DEF S

-----------------------------------------------------------------------------
(* Walks *)

\* f gives where a walk is after each of its first n siblings.
Steps(start, path, n, f) ==
  f = [i \in 0..n |-> IF i = 0 THEN start ELSE Absorb(f[i - 1], path[i])]

LEMMA StepsExist ==
  ASSUME NEW start, NEW path
  PROVE  \A n \in Nat : \E f : Steps(start, path, n, f)
<1> DEFINE S == {n \in Nat : \E f : Steps(start, path, n, f)}
<1>1. 0 \in S
  <2>1. Steps(start, path, 0, [i \in 0..0 |-> start])
    BY DEF Steps
  <2> QED
    BY <2>1
<1>2. ASSUME NEW n \in Nat, n \in S PROVE n + 1 \in S
  <2>1. PICK f : Steps(start, path, n, f)
    BY <1>2
  <2>2. PICK g : g = [i \in 0..(n + 1) |->
                        IF i = n + 1 THEN Absorb(f[n], path[n + 1]) ELSE f[i]]
    OBVIOUS
  <2>3. ASSUME NEW i \in 0..(n + 1)
        PROVE  g[i] = IF i = 0 THEN start ELSE Absorb(g[i - 1], path[i])
    <3>1. i # 0 => g[i - 1] = f[i - 1]
      BY <2>2
    <3>2. CASE i = n + 1
      <4>1. i # 0 /\ i - 1 = n
        BY <3>2
      <4> QED
        BY <2>2, <3>1, <3>2, <4>1
    <3>3. CASE i # n + 1
      <4>1. i \in 0..n /\ g[i] = f[i]
        BY <2>2, <3>3
      <4>2. f[i] = IF i = 0 THEN start ELSE Absorb(f[i - 1], path[i])
        BY <2>1, <4>1 DEF Steps
      <4> QED
        BY <3>1, <4>1, <4>2
    <3> QED
      BY <3>2, <3>3
  <2>4. Steps(start, path, n + 1, g)
    BY <2>2, <2>3 DEF Steps
  <2> QED
    BY <2>4
<1> HIDE DEF S
<1>3. Nat \subseteq S
  BY <1>1, <1>2, EveryNumber
<1> QED
  BY <1>3 DEF S

LEMMA StepIs ==
  ASSUME NEW start, NEW path, NEW n \in Nat, NEW f, Steps(start, path, n, f)
  PROVE  /\ f[0] = start
         /\ \A i \in 0..(n - 1) : f[i + 1] = Absorb(f[i], path[i + 1])
<1>1. f[0] = start
  BY DEF Steps
<1>2. ASSUME NEW i \in 0..(n - 1) PROVE f[i + 1] = Absorb(f[i], path[i + 1])
  <2>1. PICK j : j = i + 1
    OBVIOUS
  <2>2. j \in 0..n /\ j # 0 /\ j - 1 = i
    BY <2>1
  <2>3. f[j] = IF j = 0 THEN start ELSE Absorb(f[j - 1], path[j])
    BY <2>2 DEF Steps
  <2> QED
    BY <2>1, <2>2, <2>3
<1> QED
  BY <1>1, <1>2

LEMMA NextSteps ==
  \A start, path, f : \A n \in Nat :
    Steps(start, path, n, f) =>
      f[0] = start /\ \A i \in 0..(n - 1) : f[i + 1] = Absorb(f[i], path[i + 1])
BY StepIs

\* The first l elements are the same.
SameUpTo(p, q, l) == \A i \in 1..l : p[i] = q[i]

\* Walks from one place along paths that are alike are alike.
LEMMA StepsAgree ==
  ASSUME NEW start, NEW p, NEW q, NEW m \in Nat, NEW n \in Nat, NEW f, NEW g,
         Steps(start, p, m, f), Steps(start, q, n, g),
         NEW l \in Nat, l <= m, l <= n, SameUpTo(p, q, l)
  PROVE  f[l] = g[l]
<1> DEFINE S == {i \in Nat : i <= l => f[i] = g[i]}
<1>1. f[0] = start /\ \A i \in 0..(m - 1) : f[i + 1] = Absorb(f[i], p[i + 1])
  BY StepIs
<1>2. g[0] = start /\ \A i \in 0..(n - 1) : g[i + 1] = Absorb(g[i], q[i + 1])
  BY StepIs
<1>3. 0 \in S
  BY <1>1, <1>2
<1>4. ASSUME NEW i \in Nat, i \in S PROVE i + 1 \in S
  <2>1. SUFFICES ASSUME i + 1 <= l PROVE f[i + 1] = g[i + 1]
    OBVIOUS
  <2>2. i \in 0..(m - 1) /\ i \in 0..(n - 1) /\ i + 1 \in 1..l
    BY <2>1
  <2>3. f[i + 1] = Absorb(f[i], p[i + 1]) /\ g[i + 1] = Absorb(g[i], q[i + 1])
    BY <1>1, <1>2, <2>2
  <2>4. f[i] = g[i] /\ p[i + 1] = q[i + 1]
    BY <1>4, <2>1, <2>2 DEF SameUpTo
  <2> QED
    BY <2>3, <2>4
<1> HIDE DEF S
<1>5. Nat \subseteq S
  BY <1>3, <1>4, EveryNumber
<1> QED
  BY <1>5 DEF S

LEMMA WalkFrom ==
  ASSUME NEW start, NEW path, Len(path) \in Nat
  PROVE  \E f : Steps(start, path, Len(path), f) /\ Walk(start, path) = f[Len(path)]
<1> DEFINE after == CHOOSE f : f = [i \in 0..Len(path) |->
                      IF i = 0 THEN start ELSE Absorb(f[i - 1], path[i])]
<1>1. PICK f : Steps(start, path, Len(path), f)
  BY StepsExist
<1>2. Steps(start, path, Len(path), after)
  BY <1>1 DEF Steps
<1>3. Walk(start, path) = after[Len(path)]
  BY DEF Walk
<1> QED
  BY <1>2, <1>3

LEMMA WalkIs ==
  ASSUME NEW start, NEW path, Len(path) \in Nat, NEW f, Steps(start, path, Len(path), f)
  PROVE  Walk(start, path) = f[Len(path)]
<1>1. PICK g : Steps(start, path, Len(path), g) /\ Walk(start, path) = g[Len(path)]
  BY WalkFrom
<1>2. f[Len(path)] = g[Len(path)]
  BY <1>1, StepsAgree DEF SameUpTo
<1> QED
  BY <1>1, <1>2

LEMMA WalkEmpty == \A start : Walk(start, <<>>) = start
<1>1. SUFFICES ASSUME NEW start PROVE Walk(start, <<>>) = start
  OBVIOUS
<1>2. PICK path : path = <<>>
  OBVIOUS
<1>3. Len(path) = 0
  BY <1>2
<1>4. PICK f : Steps(start, path, Len(path), f) /\ Walk(start, path) = f[Len(path)]
  BY <1>3, WalkFrom
<1>5. f[0] = start
  BY <1>3, <1>4, StepIs
<1> QED
  BY <1>2, <1>3, <1>4, <1>5

LEMMA WalkAppend ==
  ASSUME NEW start, NEW path, IsSeq(path), NEW sibling
  PROVE  Walk(start, Append(path, sibling)) = Absorb(Walk(start, path), sibling)
<1>1. PICK longer : longer = Append(path, sibling)
  OBVIOUS
<1>2. PICK n \in Nat : n = Len(path)
  BY AppendIsSeq
<1>3. Len(longer) = n + 1 /\ longer[n + 1] = sibling /\ \A i \in 1..n : longer[i] = path[i]
  BY <1>1, <1>2, AppendIsSeq
<1>4. PICK f : Steps(start, path, n, f) /\ Walk(start, path) = f[n]
  BY <1>2, WalkFrom
<1>5. PICK g : Steps(start, longer, n + 1, g) /\ Walk(start, longer) = g[n + 1]
  BY <1>3, WalkFrom
<1>6. g[n] = f[n]
  <2>1. n <= n /\ n <= n + 1 /\ n + 1 \in Nat /\ SameUpTo(path, longer, n)
    BY <1>3 DEF SameUpTo
  <2>2. f[n] = g[n]
    BY <1>4, <1>5, <2>1, StepsAgree
  <2> QED
    BY <2>2
<1>7. n \in 0..((n + 1) - 1) /\ n + 1 \in Nat
  OBVIOUS
<1>8. g[n + 1] = Absorb(g[n], longer[n + 1])
  BY <1>5, <1>7, StepIs
<1> QED
  BY <1>1, <1>3, <1>4, <1>5, <1>6, <1>8

-----------------------------------------------------------------------------
(* One step of a walk *)

LEMMA QuotientIs ==
  ASSUME NEW x \in Nat, NEW d \in Nat, d > 0, NEW y \in 0..(d - 1)
  PROVE  (x * d + y) \div d = x
<1>1. PICK n \in Nat : n = x * d + y
  OBVIOUS
<1>2. PICK q \in Nat : q = n \div d
  OBVIOUS
<1>3. q * d <= n /\ n < q * d + d
  BY <1>1, <1>2
<1>4. CASE q > x
  <2>1. PICK z \in Nat : q = x + 1 + z
    <3>1. q - x - 1 \in Nat
      BY <1>4
    <3> QED
      BY <3>1
  <2>2. q * d = x * d + d + z * d
    BY <2>1
  <2>3. z * d \in Nat
    OBVIOUS
  <2> QED
    BY <1>1, <1>3, <2>2, <2>3
<1>5. CASE x > q
  <2>1. PICK z \in Nat : x = q + 1 + z
    <3>1. x - q - 1 \in Nat
      BY <1>5
    <3> QED
      BY <3>1
  <2>2. x * d = q * d + d + z * d
    BY <2>1
  <2>3. z * d \in Nat
    OBVIOUS
  <2> QED
    BY <1>1, <1>3, <2>2, <2>3
<1> QED
  BY <1>1, <1>2, <1>4, <1>5

\* A walk's state; it goes on while it is not too long.
Climbing(at) ==
  /\ at = [fn |-> at.fn, sn |-> at.sn, hash |-> at.hash, old |-> at.old, tooLong |-> at.tooLong]
  /\ at.fn \in Nat /\ at.sn \in Nat /\ at.tooLong \in BOOLEAN

LEMMA QuotientNat ==
  ASSUME NEW x \in Nat, NEW d \in Nat, d > 0
  PROVE  x \div d \in Nat
OBVIOUS

LEMMA AbsorbIs ==
  ASSUME NEW at, Climbing(at), NEW sibling
  PROVE  LET to == Absorb(at, sibling)
             d  == 2 * LowestBit(at.fn)
         IN  /\ Climbing(to)
             /\ to.tooLong <=> (at.tooLong \/ at.sn = 0)
             /\ at.tooLong \/ at.sn = 0 => to.sn = at.sn
             /\ ~at.tooLong /\ at.sn # 0 /\ OnTheRight(at) =>
                  /\ to.fn = at.fn \div d /\ to.sn = at.sn \div d
                  /\ to.hash = HashNode(sibling, at.hash)
                  /\ to.old = HashNode(sibling, at.old)
             /\ ~at.tooLong /\ at.sn # 0 /\ ~OnTheRight(at) =>
                  /\ to.fn = at.fn \div 2 /\ to.sn = at.sn \div 2
                  /\ to.hash = HashNode(at.hash, sibling)
                  /\ to.old = at.old
<1>1. PICK to : to = Absorb(at, sibling)
  OBVIOUS
<1>2. PICK d : d = 2 * LowestBit(at.fn)
  OBVIOUS
<1>3. d \in Nat /\ d > 0 /\ 2 \in Nat /\ 2 > 0
  BY <1>2, LowestBitPositive DEF Climbing
<1>4. CASE at.tooLong \/ at.sn = 0
  <2>1. to = [at EXCEPT !.tooLong = TRUE]
    BY <1>1, <1>4 DEF Absorb
  <2> QED
    BY <1>1, <1>4, <2>1 DEF Climbing
<1>5. CASE ~at.tooLong /\ at.sn # 0 /\ OnTheRight(at)
  <2>1. to = [fn |-> at.fn \div d, sn |-> at.sn \div d, hash |-> HashNode(sibling, at.hash),
              old |-> HashNode(sibling, at.old), tooLong |-> at.tooLong]
    BY <1>1, <1>2, <1>5 DEF Absorb, Climb, Climbing
  <2>2. at.fn \div d \in Nat /\ at.sn \div d \in Nat
    BY <1>3, QuotientNat DEF Climbing
  <2> QED
    BY <1>1, <1>2, <1>5, <2>1, <2>2 DEF Climbing
<1>6. CASE ~at.tooLong /\ at.sn # 0 /\ ~OnTheRight(at)
  <2>1. to = [fn |-> at.fn \div 2, sn |-> at.sn \div 2, hash |-> HashNode(at.hash, sibling),
              old |-> at.old, tooLong |-> at.tooLong]
    <3>1. PICK up : up = Climb(at)
      OBVIOUS
    <3>2. at.fn \div (2 * 1) = at.fn \div 2 /\ at.sn \div (2 * 1) = at.sn \div 2
      OBVIOUS
    <3>3. up = [at EXCEPT !.fn = at.fn \div 2, !.sn = at.sn \div 2]
      BY <1>6, <3>1, <3>2 DEF Climb
    <3>4. to = [up EXCEPT !.hash = HashNode(at.hash, sibling)]
      BY <1>1, <1>6, <3>1, <3>3 DEF Absorb, Climbing
    <3> QED
      BY <3>3, <3>4 DEF Climbing
  <2>2. at.fn \div 2 \in Nat /\ at.sn \div 2 \in Nat
    BY <1>3, QuotientNat DEF Climbing
  <2> QED
    BY <1>1, <1>6, <2>1, <2>2 DEF Climbing
<1> QED
  BY <1>4, <1>5, <1>6

\* Where a walk is, with what it has hashed on both sides and on the left only.
Stands(at, fn, sn, hash, old) ==
  /\ Climbing(at) /\ ~at.tooLong /\ at.fn = fn /\ at.sn = sn
  /\ at.hash = hash /\ at.old = old

\* A left child that is not the last node takes its sibling on the right.
LEMMA StepLeft ==
  ASSUME NEW at, NEW q \in Nat, NEW s \in Nat, NEW t \in 0..1, NEW hash, NEW old, NEW sibling,
         Stands(at, 2 * q, 2 * s + t, hash, old), 2 * s + t # 2 * q, 2 * s + t # 0
  PROVE  Stands(Absorb(at, sibling), q, s, HashNode(hash, sibling), old)
<1>1. ~OnTheRight(at)
  BY DEF Stands, OnTheRight
<1>2. (2 * q) \div 2 = q /\ (2 * s + t) \div 2 = s
  OBVIOUS
<1> QED
  BY <1>1, <1>2, AbsorbIs DEF Stands

\* A right child takes it on the left.
LEMMA StepRight ==
  ASSUME NEW at, NEW q \in Nat, NEW s \in Nat, NEW t \in 0..1, NEW hash, NEW old, NEW sibling,
         Stands(at, 2 * q + 1, 2 * s + t, hash, old), 2 * s + t # 0
  PROVE  Stands(Absorb(at, sibling), q, s, HashNode(sibling, hash),
                 HashNode(sibling, old))
<1>1. OnTheRight(at)
  BY DEF Stands, OnTheRight
<1>2. LowestBit(2 * q + 1) = 1
  BY LowestBitIs
<1>3. PICK d : d = 2 * LowestBit(at.fn)
  OBVIOUS
<1>4. d = 2
  BY <1>2, <1>3 DEF Stands
<1>5. (2 * q + 1) \div 2 = q /\ (2 * s + t) \div 2 = s
  OBVIOUS
<1> QED
  BY <1>1, <1>3, <1>4, <1>5, AbsorbIs DEF Stands

\* The last node takes it on the left as well, and leaves the levels at which it
\* has no sibling behind.
LEMMA StepEdge ==
  ASSUME NEW at, NEW b \in Nat, NEW j \in Powers, NEW hash, NEW old, NEW sibling,
         Stands(at, (2 * b + 1) * j, (2 * b + 1) * j, hash, old)
  PROVE  Stands(Absorb(at, sibling), b, b, HashNode(sibling, hash),
                 HashNode(sibling, old))
<1>1. PICK c \in Nat : c = (2 * b + 1) * j
  BY DEF Powers
<1>2. OnTheRight(at)
  BY DEF Stands, OnTheRight
<1>3. j \in Nat /\ j > 0
  BY DEF Powers, IsPowerOfTwo
<1>4. LowestBit(c) = j
  <2>1. 2 * b + 1 \in Nat /\ (2 * b + 1) % 2 = 1
    OBVIOUS
  <2> QED
    BY <1>1, <2>1, OddTimesPower
<1>5. c \div (2 * j) = b
  <2>1. c = b * (2 * j) + j
    BY <1>1, <1>3
  <2>2. 2 * j \in Nat /\ 2 * j > 0 /\ j \in 0..(2 * j - 1)
    BY <1>3
  <2> QED
    BY <2>1, <2>2, QuotientIs
<1>6. c # 0
  <2>1. c = (2 * b) * j + j /\ (2 * b) * j \in Nat
    BY <1>1, <1>3
  <2> QED
    BY <1>3, <2>1
<1>7. at.fn = c /\ at.sn = c /\ at.hash = hash /\ at.old = old /\ ~at.tooLong /\ Climbing(at)
  BY <1>1 DEF Stands
<1> QED
  BY <1>2, <1>4, <1>5, <1>6, <1>7, AbsorbIs DEF Stands

-----------------------------------------------------------------------------
(* Walks along honest paths *)

\* A range's root is the hash of the roots of its two parts.
LEMMA MthJoins ==
  ASSUME NEW leaves, Len(leaves) \in Nat, NEW a \in Nat, NEW n \in 0..Len(leaves),
         NEW k, Splits(k, n)
  PROVE  Mth(leaves, a, a + n) = HashNode(Mth(leaves, a, a + k), Mth(leaves, a + k, a + n))
<1>1. n \in Nat /\ n > 1
  BY DEF Splits, Powers, IsPowerOfTwo
<1>2. LargestPowerOfTwoBelow(n) = k
  BY <1>1, SplitIs, SplitUnique
<1> QED
  BY <1>1, <1>2, MthIs

\* From any leaf of a full range of D leaves that is wholly in the tree, the path leads to
\* the range's root, D leaves a node: the node's place is q, that of the last node s.
\* What it has hashed on the left is the root of the leaves up to the one it began at.
WalksFull(leaves, f, D) ==
  \A m, a, q, s, t \in Nat : \A at :
    /\ m < D /\ t < D /\ q <= s /\ (q = s => t = D - 1)
    /\ Stands(at, q * D + m, s * D + t, leaves[a + m + 1], leaves[a + m + 1])
    => Stands(Walk(at, PathTo(f, m, a, D)), q, s, Mth(leaves, a, a + D),
              Mth(leaves, a, a + m + 1))

LEMMA FullRangeOfOne ==
  ASSUME NEW leaves, Len(leaves) \in Nat, NEW f, Paths(leaves, Len(leaves), f),
         Len(leaves) >= 1
  PROVE  WalksFull(leaves, f, 1)
<1>1. SUFFICES ASSUME NEW a \in Nat, NEW q \in Nat, NEW s \in Nat, NEW at,
                      Stands(at, q * 1 + 0, s * 1 + 0, leaves[a + 0 + 1], leaves[a + 0 + 1])
               PROVE  Stands(Walk(at, PathTo(f, 0, a, 1)), q, s, Mth(leaves, a, a + 1),
                             Mth(leaves, a, a + 0 + 1))
  <2>1. \A m \in Nat : m < 1 => m = 0
    OBVIOUS
  <2> QED
    BY <2>1 DEF WalksFull
<1>2. 1 \in 0..Len(leaves)
  OBVIOUS
<1>3. PathTo(f, 0, a, 1) = <<>>
  BY <1>2, PathIs
<1>4. Mth(leaves, a, a + 1) = leaves[a + 1]
  BY <1>2, MthIs
<1>5. q * 1 + 0 = q /\ s * 1 + 0 = s /\ a + 0 + 1 = a + 1
  OBVIOUS
<1> QED
  BY <1>1, <1>3, <1>4, <1>5, WalkEmpty

LEMMA FullRangeOfTwo ==
  ASSUME NEW leaves, Len(leaves) \in Nat, NEW f, Paths(leaves, Len(leaves), f),
         NEW h \in Powers, 2 * h <= Len(leaves), WalksFull(leaves, f, h)
  PROVE  WalksFull(leaves, f, 2 * h)
<1>1. PICK D \in Nat : D = 2 * h
  BY DEF Powers
<1>2. h \in Nat /\ h > 0 /\ D \in 0..Len(leaves) /\ D > 1 /\ h \in 0..Len(leaves)
  BY <1>1 DEF Powers, IsPowerOfTwo
<1>3. LargestPowerOfTwoBelow(D) = h
  BY <1>1, SplitFull
<1>4. SUFFICES ASSUME NEW m \in Nat, NEW a \in Nat, NEW q \in Nat, NEW s \in Nat, NEW t \in Nat,
                      NEW at, m < D, t < D, q <= s, q = s => t = D - 1,
                      Stands(at, q * D + m, s * D + t, leaves[a + m + 1], leaves[a + m + 1])
               PROVE  Stands(Walk(at, PathTo(f, m, a, D)), q, s, Mth(leaves, a, a + D),
                             Mth(leaves, a, a + m + 1))
  <2>1. SUFFICES WalksFull(leaves, f, D)
    BY <1>1
  <2> QED
    BY SMTT(60) DEF WalksFull
<1>5. PICK u \in 0..1, v \in 0..(h - 1) : t = u * h + v
  <2>1. CASE t < h
    <3>1. t = 0 * h + t /\ t \in 0..(h - 1)
      BY <1>2, <2>1
    <3> QED
      BY <3>1
  <2>2. CASE ~(t < h)
    <3>1. t = 1 * h + (t - h) /\ t - h \in 0..(h - 1)
      BY <1>1, <1>2, <1>4, <2>2
    <3> QED
      BY <3>1
  <2> QED
    BY <2>1, <2>2
<1>6. s * D + t = (2 * s + u) * h + v
  BY <1>1, <1>2, <1>5
<1>7. q = s => u = 1 /\ v = h - 1
  BY <1>1, <1>2, <1>4, <1>5
<1>8. 2 * s + u \in Nat /\ v \in Nat /\ v < h
  BY <1>2
<1>9. Mth(leaves, a, a + D) = HashNode(Mth(leaves, a, a + h), Mth(leaves, a + h, a + D))
  BY <1>2, <1>3, MthIs
<1>10. CASE m < h
  <2>1. q * D + m = (2 * q) * h + m
    BY <1>1, <1>2
  <2>2. PICK w : w = Walk(at, PathTo(f, m, a, h))
    OBVIOUS
  <2>3. Stands(w, 2 * q, 2 * s + u, Mth(leaves, a, a + h), Mth(leaves, a, a + m + 1))
    <3>1. 2 * q \in Nat /\ 2 * q <= 2 * s + u /\ (2 * q = 2 * s + u => v = h - 1)
      BY <1>4, <1>7
    <3>2. Stands(at, (2 * q) * h + m, (2 * s + u) * h + v, leaves[a + m + 1],
                 leaves[a + m + 1])
      BY <1>4, <1>6, <2>1
    <3> QED
      BY <1>8, <1>10, <2>2, <3>1, <3>2 DEF WalksFull
  <2>4. 2 * s + u # 2 * q /\ 2 * s + u # 0
    BY <1>4, <1>7
  <2>5. Stands(Absorb(w, Mth(leaves, a + h, a + D)), q, s, Mth(leaves, a, a + D),
               Mth(leaves, a, a + m + 1))
    BY <1>9, <2>3, <2>4, StepLeft
  <2>6. IsSeq(PathTo(f, m, a, h))
    BY <1>2, PathIsSeq
  <2>7. PathTo(f, m, a, D) = Append(PathTo(f, m, a, h), Mth(leaves, a + h, a + D))
    <3>1. PathTo(f, m, a, D) = PathInFirst(leaves, f, m, a, D, h)
      BY <1>2, <1>3, <1>10, PathIs
    <3> QED
      BY <3>1 DEF PathInFirst
  <2> QED
    BY <2>2, <2>5, <2>6, <2>7, WalkAppend
<1>11. CASE ~(m < h)
  <2>1. m - h \in Nat /\ m - h < h /\ a + h \in Nat /\ D - h = h
    BY <1>1, <1>2, <1>4, <1>11
  <2>2. q * D + m = (2 * q + 1) * h + (m - h)
    BY <1>1, <1>2
  <2>3. PICK w : w = Walk(at, PathTo(f, m - h, a + h, h))
    OBVIOUS
  <2>4. Stands(w, 2 * q + 1, 2 * s + u, Mth(leaves, a + h, a + D),
               Mth(leaves, a + h, a + m + 1))
    <3>1. 2 * q + 1 \in Nat /\ 2 * q + 1 <= 2 * s + u /\ (2 * q + 1 = 2 * s + u => v = h - 1)
      BY <1>4, <1>7
    <3>2. (a + h) + (m - h) + 1 = a + m + 1 /\ (a + h) + h = a + D
      BY <1>1, <1>2
    <3>3. Stands(at, (2 * q + 1) * h + (m - h), (2 * s + u) * h + v,
                 leaves[(a + h) + (m - h) + 1], leaves[(a + h) + (m - h) + 1])
      BY <1>4, <1>6, <2>2, <3>2
    <3>4. Stands(Walk(at, PathTo(f, m - h, a + h, h)), 2 * q + 1, 2 * s + u,
                 Mth(leaves, a + h, (a + h) + h), Mth(leaves, a + h, (a + h) + (m - h) + 1))
      BY <1>8, <2>1, <3>1, <3>3 DEF WalksFull
    <3> QED
      BY <2>3, <3>2, <3>4
  <2>5. 2 * s + u # 0
    BY <1>4, <1>7
  <2>9. Mth(leaves, a, a + m + 1)
          = HashNode(Mth(leaves, a, a + h), Mth(leaves, a + h, a + m + 1))
    <3>1. Splits(h, m + 1) /\ m + 1 \in 0..Len(leaves) /\ a + (m + 1) = a + m + 1
      BY <1>1, <1>2, <1>4, <1>11 DEF Splits
    <3> QED
      BY <3>1, MthJoins
  <2>6. Stands(Absorb(w, Mth(leaves, a, a + h)), q, s, Mth(leaves, a, a + D),
               Mth(leaves, a, a + m + 1))
    BY <1>9, <2>4, <2>5, <2>9, StepRight
  <2>7. IsSeq(PathTo(f, m - h, a + h, h))
    BY <1>2, <2>1, PathIsSeq
  <2>8. PathTo(f, m, a, D) = Append(PathTo(f, m - h, a + h, h), Mth(leaves, a, a + h))
    <3>1. PathTo(f, m, a, D) = PathInRest(leaves, f, m, a, D, h)
      BY <1>2, <1>3, <1>11, PathIs
    <3> QED
      BY <2>1, <3>1 DEF PathInRest
  <2> QED
    BY <2>3, <2>6, <2>7, <2>8, WalkAppend
<1> QED
  BY <1>10, <1>11

LEMMA FullRangeWalk ==
  ASSUME NEW leaves, Len(leaves) \in Nat, NEW f, Paths(leaves, Len(leaves), f)
  PROVE  \A D \in Powers : D <= Len(leaves) => WalksFull(leaves, f, D)
<1> DEFINE S == {D \in Nat : D \in Powers /\ D <= Len(leaves) => WalksFull(leaves, f, D)}
<1>1. ASSUME NEW D \in Nat, \A i \in 0..(D - 1) : i \in S PROVE D \in S
  <2>1. SUFFICES ASSUME D \in Powers, D <= Len(leaves) PROVE WalksFull(leaves, f, D)
    OBVIOUS
  <2>2. CASE D = 1
    BY <2>1, <2>2, FullRangeOfOne
  <2>3. ASSUME NEW h \in Powers, D = 2 * h PROVE WalksFull(leaves, f, D)
    <3>1. h \in Nat /\ h \in 0..(D - 1) /\ h <= Len(leaves)
      BY <2>1, <2>3 DEF Powers, IsPowerOfTwo
    <3>2. WalksFull(leaves, f, h)
      BY <1>1, <3>1
    <3> QED
      BY <2>1, <2>3, <3>2, FullRangeOfTwo
  <2> QED
    BY <2>1, <2>2, <2>3, PowerHalf
<1> HIDE DEF S
<1>2. Nat \subseteq S
  BY <1>1, EveryNumberFromBelow
<1>3. Powers \subseteq Nat
  BY DEF Powers
<1> QED
  BY <1>2, <1>3 DEF S

\* From any leaf of a range of n leaves at the right edge of the tree, which starts at a
\* multiple of a power of two that has room for it, the path leads to the
\* range's root: the walk is then at the last node of a level.
WalksRagged(leaves, f, n) ==
  \A m, a, Q \in Nat, D \in Powers : \A at :
    /\ m < n /\ n <= D
    /\ Stands(at, Q * D + m, Q * D + (n - 1), leaves[a + m + 1], leaves[a + m + 1])
    => \E j \in Powers :
         Stands(Walk(at, PathTo(f, m, a, n)), Q * j, Q * j, Mth(leaves, a, a + n),
                Mth(leaves, a, a + m + 1))

LEMMA RaggedRangeOfOne ==
  ASSUME NEW leaves, Len(leaves) \in Nat, NEW f, Paths(leaves, Len(leaves), f),
         Len(leaves) >= 1
  PROVE  WalksRagged(leaves, f, 1)
<1>1. SUFFICES ASSUME NEW a \in Nat, NEW Q \in Nat, NEW D \in Powers, NEW at,
                      Stands(at, Q * D + 0, Q * D + (1 - 1), leaves[a + 0 + 1],
                             leaves[a + 0 + 1])
               PROVE  Stands(Walk(at, PathTo(f, 0, a, 1)), Q * D, Q * D, Mth(leaves, a, a + 1),
                             Mth(leaves, a, a + 0 + 1))
  <2>1. \A m \in Nat : m < 1 => m = 0
    OBVIOUS
  <2> QED
    BY <2>1 DEF WalksRagged
<1>2. 1 \in 0..Len(leaves) /\ D \in Nat
  BY DEF Powers
<1>3. PathTo(f, 0, a, 1) = <<>>
  BY <1>2, PathIs
<1>4. Mth(leaves, a, a + 1) = leaves[a + 1]
  BY <1>2, MthIs
<1>5. PICK c \in Nat : c = Q * D
  BY <1>2
<1>6. Q * D + 0 = c /\ Q * D + (1 - 1) = c /\ a + 0 + 1 = a + 1
  BY <1>5
<1> QED
  BY <1>1, <1>3, <1>4, <1>5, <1>6, WalkEmpty

LEMMA RaggedRangeSplit ==
  ASSUME NEW leaves, Len(leaves) \in Nat, NEW f, Paths(leaves, Len(leaves), f),
         NEW n \in 0..Len(leaves), n > 1, NEW k \in Nat, k = LargestPowerOfTwoBelow(n),
         WalksRagged(leaves, f, n - k)
  PROVE  WalksRagged(leaves, f, n)
<1>1. /\ k \in Nat /\ k > 0 /\ k \in Powers /\ k < n /\ n <= 2 * k /\ k \in 0..Len(leaves)
      /\ n \in Nat /\ n - k \in 0..Len(leaves) /\ n - k <= k /\ Splits(k, n)
  <2>1. n \in Nat /\ Splits(k, n)
    BY SplitIs
  <2>2. k \in Powers /\ k > 0 /\ k < n /\ n <= 2 * k
    BY <2>1 DEF Splits, Powers, IsPowerOfTwo
  <2> QED
    BY <2>1, <2>2
<1>2. SUFFICES ASSUME NEW m \in Nat, NEW a \in Nat, NEW Q \in Nat, NEW D \in Powers, NEW at,
                      m < n, n <= D,
                      Stands(at, Q * D + m, Q * D + (n - 1), leaves[a + m + 1],
                             leaves[a + m + 1])
               PROVE  \E j \in Powers : Stands(Walk(at, PathTo(f, m, a, n)), Q * j, Q * j,
                                               Mth(leaves, a, a + n), Mth(leaves, a, a + m + 1))
  BY DEF WalksRagged
<1>3. PICK r \in Powers : D = r * (2 * k)
  BY <1>1, <1>2, SplitDivides
<1>4. r \in Nat /\ D \in Nat
  BY DEF Powers
<1>5. PICK b \in Nat : b = Q * r
  BY <1>4
<1>6. Q * D = (2 * b) * k
  BY <1>1, <1>3, <1>4, <1>5
<1>20. (2 * b + 1) * k = (2 * b) * k + k
  BY <1>1
<1>21. PICK x \in Nat : x = (2 * b) * k
  BY <1>1
<1>22. /\ Q * D + m = (2 * b + 1) * k + (m - k)
       /\ Q * D + (n - 1) = (2 * b + 1) * k + ((n - k) - 1)
       /\ Q * D + (n - 1) = (2 * b + 1) * k + (n - 1 - k)
  <2>1. Q * D = x /\ (2 * b + 1) * k = x + k
    BY <1>6, <1>20, <1>21
  <2>2. x + m = (x + k) + (m - k) /\ x + (n - 1) = (x + k) + ((n - k) - 1)
        /\ x + (n - 1) = (x + k) + (n - 1 - k)
    BY <1>1, SMTT(60)
  <2> QED
    BY <2>1, <2>2, Zenon
<1>7. Mth(leaves, a, a + n) = HashNode(Mth(leaves, a, a + k), Mth(leaves, a + k, a + n))
  BY <1>1, MthIs
<1>8. SUFFICES Stands(Walk(at, PathTo(f, m, a, n)), b, b, Mth(leaves, a, a + n),
                      Mth(leaves, a, a + m + 1))
  BY <1>4, <1>5
<1>9. CASE m < k
  <2>1. n - 1 - k \in Nat /\ n - 1 - k < k
    BY <1>1
  <2>2. Stands(at, (2 * b) * k + m, (2 * b + 1) * k + (n - 1 - k), leaves[a + m + 1],
               leaves[a + m + 1])
    BY <1>2, <1>6, <1>22
  <2>3. PICK w : w = Walk(at, PathTo(f, m, a, k))
    OBVIOUS
  <2>4. Stands(w, 2 * b, 2 * b + 1, Mth(leaves, a, a + k), Mth(leaves, a, a + m + 1))
    <3>1. WalksFull(leaves, f, k)
      BY <1>1, FullRangeWalk
    <3>2. 2 * b \in Nat /\ 2 * b + 1 \in Nat /\ 2 * b <= 2 * b + 1 /\ 2 * b # 2 * b + 1
      OBVIOUS
    <3> QED
      BY <1>9, <2>1, <2>2, <2>3, <3>1, <3>2 DEF WalksFull
  <2>5. Stands(Absorb(w, Mth(leaves, a + k, a + n)), b, b, Mth(leaves, a, a + n),
               Mth(leaves, a, a + m + 1))
    BY <1>7, <2>4, StepLeft
  <2>6. IsSeq(PathTo(f, m, a, k))
    BY <1>1, PathIsSeq
  <2>7. PathTo(f, m, a, n) = Append(PathTo(f, m, a, k), Mth(leaves, a + k, a + n))
    <3>1. PathTo(f, m, a, n) = PathInFirst(leaves, f, m, a, n, k)
      BY <1>9, PathIs
    <3> QED
      BY <3>1 DEF PathInFirst
  <2> QED
    BY <2>3, <2>5, <2>6, <2>7, WalkAppend
<1>10. CASE ~(m < k)
  <2>1. m - k \in Nat /\ m - k < n - k /\ a + k \in Nat
    BY <1>1, <1>2, <1>10, SMTT(60)
  <2>2. PICK w : w = Walk(at, PathTo(f, m - k, a + k, n - k))
    OBVIOUS
  <2>3. PICK j \in Powers :
          Stands(w, (2 * b + 1) * j, (2 * b + 1) * j, Mth(leaves, a + k, a + n),
                 Mth(leaves, a + k, a + m + 1))
    <3>2. (a + k) + (m - k) + 1 = a + m + 1 /\ (a + k) + (n - k) = a + n
      BY <1>1, SMTT(60)
    <3>3. Stands(at, (2 * b + 1) * k + (m - k), (2 * b + 1) * k + ((n - k) - 1),
                 leaves[(a + k) + (m - k) + 1], leaves[(a + k) + (m - k) + 1])
      BY <1>2, <1>22, <3>2
    <3>4. 2 * b + 1 \in Nat
      OBVIOUS
    <3>5. \E j \in Powers :
            Stands(Walk(at, PathTo(f, m - k, a + k, n - k)), (2 * b + 1) * j, (2 * b + 1) * j,
                   Mth(leaves, a + k, (a + k) + (n - k)),
                   Mth(leaves, a + k, (a + k) + (m - k) + 1))
      BY <1>1, <2>1, <3>3, <3>4 DEF WalksRagged
    <3> QED
      BY <2>2, <3>2, <3>5
  <2>7. Mth(leaves, a, a + m + 1)
          = HashNode(Mth(leaves, a, a + k), Mth(leaves, a + k, a + m + 1))
    <3>1. Splits(k, m + 1) /\ m + 1 \in 0..Len(leaves) /\ a + (m + 1) = a + m + 1
      BY <1>1, <1>2, <1>10, SMTT(60) DEF Splits
    <3> QED
      BY <3>1, MthJoins
  <2>4. Stands(Absorb(w, Mth(leaves, a, a + k)), b, b, Mth(leaves, a, a + n),
               Mth(leaves, a, a + m + 1))
    BY <1>7, <2>3, <2>7, StepEdge
  <2>5. IsSeq(PathTo(f, m - k, a + k, n - k))
    BY <1>1, <2>1, PathIsSeq
  <2>6. PathTo(f, m, a, n) = Append(PathTo(f, m - k, a + k, n - k), Mth(leaves, a, a + k))
    <3>1. PathTo(f, m, a, n) = PathInRest(leaves, f, m, a, n, k)
      BY <1>10, PathIs
    <3> QED
      BY <3>1 DEF PathInRest
  <2> QED
    BY <2>2, <2>4, <2>5, <2>6, WalkAppend
<1> QED
  BY <1>9, <1>10

LEMMA RaggedRangeWalk ==
  ASSUME NEW leaves, Len(leaves) \in Nat, NEW f, Paths(leaves, Len(leaves), f)
  PROVE  \A n \in 1..Len(leaves) : WalksRagged(leaves, f, n)
<1> DEFINE S == {n \in Nat : n >= 1 /\ n <= Len(leaves) => WalksRagged(leaves, f, n)}
<1>1. ASSUME NEW n \in Nat, \A i \in 0..(n - 1) : i \in S PROVE n \in S
  <2>1. SUFFICES ASSUME n >= 1, n <= Len(leaves) PROVE WalksRagged(leaves, f, n)
    OBVIOUS
  <2>2. CASE n = 1
    BY <2>1, <2>2, RaggedRangeOfOne
  <2>3. CASE n > 1
    <3>1. PICK k \in Nat : k = LargestPowerOfTwoBelow(n)
      BY <2>3, SplitBounds
    <3>2. k \in 1..(n - 1) /\ n - k \in 1..(n - 1)
      BY <2>3, <3>1, SplitBounds
    <3>3. n - k \in 0..(n - 1) /\ n - k >= 1 /\ n - k <= Len(leaves)
      BY <2>1, <3>2
    <3>4. n - k \in S
      BY <1>1, <3>3, Zenon
    <3>5. WalksRagged(leaves, f, n - k)
      BY <3>3, <3>4
    <3>6. n \in 0..Len(leaves)
      BY <2>1
    <3> QED
      BY <2>3, <3>1, <3>5, <3>6, RaggedRangeSplit
  <2> QED
    BY <2>1, <2>2, <2>3
<1> HIDE DEF S
<1>2. Nat \subseteq S
  BY <1>1, EveryNumberFromBelow
<1>3. \A n \in 1..Len(leaves) : n \in Nat /\ n >= 1 /\ n <= Len(leaves)
  OBVIOUS
<1> QED
  BY <1>2, <1>3 DEF S

\* From a leaf of the tree the path leads to its root, and not beyond.
LEMMA HonestWalk ==
  ASSUME NEW leaves, Len(leaves) \in Nat, NEW i \in 0..(Len(leaves) - 1),
         NEW at, Stands(at, i, Len(leaves) - 1, leaves[i + 1], leaves[i + 1])
  PROVE  /\ Stands(Walk(at, InclusionPath(leaves, i)), 0, 0, Root(leaves), Mth(leaves, 0, i + 1))
         /\ IsSeq(InclusionPath(leaves, i))
<1>1. PICK f : /\ Paths(leaves, Len(leaves), f)
               /\ \A m : InclusionPath(leaves, m) = f[<<m, 0, Len(leaves)>>]
  BY InclusionPathFrom
<1>2. PICK n \in Nat : n = Len(leaves)
  OBVIOUS
<1>3. InclusionPath(leaves, i) = PathTo(f, i, 0, n)
  BY <1>1, <1>2 DEF PathTo
<1>4. PICK D \in Powers : n <= D
  BY RoomFor
<1>5. WalksRagged(leaves, f, n)
  BY <1>1, <1>2, RaggedRangeWalk
<1>6. Stands(at, 0 * D + i, 0 * D + (n - 1), leaves[0 + i + 1], leaves[0 + i + 1])
  <2>1. 0 * D + i = i /\ 0 * D + (n - 1) = n - 1 /\ 0 + i + 1 = i + 1
    BY <1>2 DEF Powers
  <2> QED
    BY <1>2, <2>1
<1>7. i \in Nat /\ i < n /\ 0 \in Nat
  BY <1>2
<1>8. PICK j \in Powers :
        Stands(Walk(at, PathTo(f, i, 0, n)), 0 * j, 0 * j, Mth(leaves, 0, 0 + n),
               Mth(leaves, 0, 0 + i + 1))
  BY <1>4, <1>5, <1>6, <1>7 DEF WalksRagged
<1>9. 0 * j = 0 /\ Mth(leaves, 0, 0 + n) = Root(leaves) /\ 0 + i + 1 = i + 1
  BY <1>2 DEF Root, Powers
<1>10. IsSeq(PathTo(f, i, 0, n))
  BY <1>1, <1>2, <1>7, PathIsSeq
<1> QED
  BY <1>3, <1>8, <1>9, <1>10

LEMMA InclusionPathIsSeq ==
  ASSUME NEW leaves, Len(leaves) \in Nat, NEW i \in 0..(Len(leaves) - 1)
  PROVE  IsSeq(InclusionPath(leaves, i)) /\ Len(InclusionPath(leaves, i)) \in Nat
<1>1. PICK f : /\ Paths(leaves, Len(leaves), f)
               /\ \A m : InclusionPath(leaves, m) = f[<<m, 0, Len(leaves)>>]
  BY InclusionPathFrom
<1>2. IsSeq(PathTo(f, i, 0, Len(leaves)))
  BY <1>1, PathIsSeq
<1>3. InclusionPath(leaves, i) = PathTo(f, i, 0, Len(leaves))
  BY <1>1 DEF PathTo
<1>4. IsSeq(InclusionPath(leaves, i))
  BY <1>2, <1>3
<1> QED
  BY <1>4 DEF IsSeq

-----------------------------------------------------------------------------
(* What a walk binds *)

LEMMA NodeInjective ==
  \A a, b, c, d : HashNode(a, b) = HashNode(c, d) => a = c /\ b = d
<1>1. SUFFICES ASSUME NEW a, NEW b, NEW c, NEW d, HashNode(a, b) = HashNode(c, d)
               PROVE  a = c /\ b = d
  OBVIOUS
<1>2. PICK x, y : x = <<Byte(1), a, b>> /\ y = <<Byte(1), c, d>>
  OBVIOUS
<1>3. x = y
  BY <1>1, <1>2 DEF HashNode, Sha
<1> QED
  BY <1>2, <1>3

SamePlace(at, to) == at.fn = to.fn /\ at.sn = to.sn /\ at.tooLong = to.tooLong

\* Where a step leads does not depend on what is hashed.
LEMMA AbsorbSamePlace ==
  ASSUME NEW at, NEW to, Climbing(at), Climbing(to), SamePlace(at, to), NEW x, NEW y
  PROVE  SamePlace(Absorb(at, x), Absorb(to, y))
<1>1. PICK a, b : a = Absorb(at, x) /\ b = Absorb(to, y)
  OBVIOUS
<1>2. Climbing(a) /\ Climbing(b) /\ a.tooLong = b.tooLong
  <2>1. /\ Climbing(a) /\ (a.tooLong <=> (at.tooLong \/ at.sn = 0))
        /\ Climbing(b) /\ (b.tooLong <=> (to.tooLong \/ to.sn = 0))
    BY <1>1, AbsorbIs
  <2>2. a.tooLong \in BOOLEAN /\ b.tooLong \in BOOLEAN
    BY <2>1 DEF Climbing
  <2> QED
    BY <2>1, <2>2 DEF SamePlace
<1>3. CASE at.tooLong \/ at.sn = 0
  <2>1. a = [at EXCEPT !.tooLong = TRUE] /\ b = [to EXCEPT !.tooLong = TRUE]
    BY <1>1, <1>3 DEF Absorb, SamePlace
  <2> QED
    BY <1>1, <2>1 DEF Climbing, SamePlace
<1>4. CASE ~at.tooLong /\ at.sn # 0 /\ OnTheRight(at)
  <2>1. ~to.tooLong /\ to.sn # 0 /\ OnTheRight(to)
    BY <1>4 DEF SamePlace, OnTheRight
  <2>2. PICK d : d = 2 * LowestBit(at.fn)
    OBVIOUS
  <2>3. d = 2 * LowestBit(to.fn)
    BY <2>2 DEF SamePlace
  <2>4. a.fn = at.fn \div d /\ a.sn = at.sn \div d
    BY <1>1, <1>4, <2>2, AbsorbIs
  <2>5. b.fn = to.fn \div d /\ b.sn = to.sn \div d
    BY <1>1, <2>1, <2>3, AbsorbIs
  <2> QED
    BY <1>1, <1>2, <2>4, <2>5 DEF SamePlace
<1>5. CASE ~at.tooLong /\ at.sn # 0 /\ ~OnTheRight(at)
  <2>1. ~to.tooLong /\ to.sn # 0 /\ ~OnTheRight(to)
    BY <1>5 DEF SamePlace, OnTheRight
  <2>2. a.fn = at.fn \div 2 /\ a.sn = at.sn \div 2
    BY <1>1, <1>5, AbsorbIs
  <2>3. b.fn = to.fn \div 2 /\ b.sn = to.sn \div 2
    BY <1>1, <2>1, AbsorbIs
  <2> QED
    BY <1>1, <1>2, <2>2, <2>3 DEF SamePlace
<1> QED
  BY <1>3, <1>4, <1>5

LEMMA StepsClimb ==
  ASSUME NEW start, Climbing(start), NEW path, NEW n \in Nat, NEW f, Steps(start, path, n, f)
  PROVE  \A i \in 0..n : Climbing(f[i])
<1> DEFINE S == {i \in Nat : i <= n => Climbing(f[i])}
<1>1. f[0] = start /\ \A i \in 0..(n - 1) : f[i + 1] = Absorb(f[i], path[i + 1])
  BY NextSteps
<1>2. 0 \in S
  BY <1>1
<1>3. ASSUME NEW i \in Nat, i \in S PROVE i + 1 \in S
  <2>1. SUFFICES ASSUME i + 1 <= n PROVE Climbing(f[i + 1])
    OBVIOUS
  <2>2. Climbing(f[i]) /\ f[i + 1] = Absorb(f[i], path[i + 1])
    BY <1>1, <1>3, <2>1
  <2> QED
    BY <2>2, AbsorbIs
<1> HIDE DEF S
<1>4. Nat \subseteq S
  BY <1>2, <1>3, EveryNumber
<1> QED
  BY <1>4 DEF S

LEMMA StepsSamePlace ==
  ASSUME NEW start, NEW begin, Climbing(start), Climbing(begin), SamePlace(start, begin),
         NEW p, NEW q, NEW m \in Nat, NEW n \in Nat, NEW f, NEW g,
         Steps(start, p, m, f), Steps(begin, q, n, g)
  PROVE  \A i \in Nat : i <= m /\ i <= n => SamePlace(f[i], g[i])
<1> DEFINE S == {i \in Nat : i <= m /\ i <= n => SamePlace(f[i], g[i])}
<1>1. f[0] = start /\ \A i \in 0..(m - 1) : f[i + 1] = Absorb(f[i], p[i + 1])
  BY NextSteps
<1>2. g[0] = begin /\ \A i \in 0..(n - 1) : g[i + 1] = Absorb(g[i], q[i + 1])
  BY StepIs
<1>3. (\A i \in 0..m : Climbing(f[i])) /\ \A i \in 0..n : Climbing(g[i])
  BY StepsClimb
<1>4. 0 \in S
  BY <1>1, <1>2
<1>5. ASSUME NEW i \in Nat, i \in S PROVE i + 1 \in S
  <2>1. SUFFICES ASSUME i + 1 <= m, i + 1 <= n PROVE SamePlace(f[i + 1], g[i + 1])
    OBVIOUS
  <2>2. i \in 0..(m - 1) /\ i \in 0..(n - 1) /\ i \in 0..m /\ i \in 0..n
    BY <2>1
  <2>3. f[i + 1] = Absorb(f[i], p[i + 1]) /\ g[i + 1] = Absorb(g[i], q[i + 1])
    BY <1>1, <1>2, <2>2
  <2>4. SamePlace(f[i], g[i]) /\ Climbing(f[i]) /\ Climbing(g[i])
    BY <1>3, <1>5, <2>1, <2>2
  <2> QED
    BY <2>3, <2>4, AbsorbSamePlace
<1> HIDE DEF S
<1>6. Nat \subseteq S
  BY <1>4, <1>5, EveryNumber
<1> QED
  BY <1>6 DEF S

\* At the root: no level is left, and none was missing.
AtRoot(at) == ~at.tooLong /\ at.sn = 0

\* A walk that is not too long had a level left before each of its steps.
LEMMA StepsBelow ==
  ASSUME NEW start, Climbing(start), NEW path, NEW n \in Nat, NEW f, Steps(start, path, n, f),
         ~f[n].tooLong
  PROVE  \A i \in Nat : i < n => ~f[i].tooLong /\ f[i].sn # 0
<1> DEFINE S == {d \in Nat : d <= n => /\ ~f[n - d].tooLong
                                       /\ d # 0 => f[n - d].sn # 0}
<1>1. f[0] = start /\ \A i \in 0..(n - 1) : f[i + 1] = Absorb(f[i], path[i + 1])
  BY StepIs
<1>2. \A i \in 0..n : Climbing(f[i])
  BY StepsClimb
<1>3. 0 \in S
  BY n - 0 = n
<1>4. ASSUME NEW d \in Nat, d \in S PROVE d + 1 \in S
  <2>1. SUFFICES ASSUME d + 1 <= n
                 PROVE  ~f[n - (d + 1)].tooLong /\ f[n - (d + 1)].sn # 0
    OBVIOUS
  <2>2. PICK i : i = n - (d + 1)
    OBVIOUS
  <2>3. i \in 0..(n - 1) /\ i \in 0..n /\ i + 1 = n - d
    BY <2>1, <2>2
  <2>4. f[i + 1] = Absorb(f[i], path[i + 1]) /\ Climbing(f[i]) /\ ~f[i + 1].tooLong
    BY <1>1, <1>2, <1>4, <2>1, <2>3
  <2>5. ~f[i].tooLong /\ f[i].sn # 0
    BY <2>4, AbsorbIs
  <2> QED
    BY <2>2, <2>5
<1> HIDE DEF S
<1>5. Nat \subseteq S
  BY <1>3, <1>4, EveryNumber
<1>6. ASSUME NEW i \in Nat, i < n PROVE ~f[i].tooLong /\ f[i].sn # 0
  <2>1. n - i \in Nat /\ n - i <= n /\ n - i # 0 /\ n - (n - i) = i
    BY <1>6
  <2>2. n - i \in S
    BY <1>5, <2>1
  <2> QED
    BY <2>1, <2>2 DEF S
<1> QED
  BY <1>6

\* Walks from one place end at the root after as many steps.
LEMMA SameHeight ==
  ASSUME NEW start, NEW begin, Climbing(start), Climbing(begin), SamePlace(start, begin),
         NEW p, NEW q, NEW m \in Nat, NEW n \in Nat, NEW f, NEW g,
         Steps(start, p, m, f), Steps(begin, q, n, g), AtRoot(f[m]), AtRoot(g[n])
  PROVE  m = n
<1>1. \A i \in Nat : i <= m /\ i <= n => SamePlace(f[i], g[i])
  BY StepsSamePlace
<1>2. \A i \in Nat : i < m => f[i].sn # 0
  BY StepsBelow DEF AtRoot
<1>3. \A i \in Nat : i < n => g[i].sn # 0
  BY StepsBelow DEF AtRoot
<1>4. f[m].sn = 0 /\ g[n].sn = 0
  BY DEF AtRoot
<1>5. CASE m < n
  BY <1>1, <1>3, <1>4, <1>5 DEF SamePlace
<1>6. CASE n < m
  BY <1>1, <1>2, <1>4, <1>6 DEF SamePlace
<1> QED
  BY <1>5, <1>6

\* One step binds what it hashes.
LEMMA AbsorbBinds ==
  ASSUME NEW at, NEW to, Climbing(at), Climbing(to), SamePlace(at, to),
         ~at.tooLong, at.sn # 0, NEW x, NEW y, Absorb(at, x).hash = Absorb(to, y).hash
  PROVE  at.hash = to.hash /\ x = y
<1>1. ~to.tooLong /\ to.sn # 0 /\ (OnTheRight(to) <=> OnTheRight(at))
  BY DEF OnTheRight, SamePlace
<1>2. CASE OnTheRight(at)
  <2>1. Absorb(at, x).hash = HashNode(x, at.hash)
    BY <1>2, AbsorbIs
  <2>2. Absorb(to, y).hash = HashNode(y, to.hash)
    BY <1>1, <1>2, AbsorbIs
  <2>3. HashNode(x, at.hash) = HashNode(y, to.hash)
    BY <2>1, <2>2
  <2> QED
    BY <2>3, NodeInjective
<1>3. CASE ~OnTheRight(at)
  <2>1. Absorb(at, x).hash = HashNode(at.hash, x)
    BY <1>3, AbsorbIs
  <2>2. Absorb(to, y).hash = HashNode(to.hash, y)
    BY <1>1, <1>3, AbsorbIs
  <2>3. HashNode(at.hash, x) = HashNode(to.hash, y)
    BY <2>1, <2>2
  <2> QED
    BY <2>3, NodeInjective
<1> QED
  BY <1>2, <1>3

SameBetween(p, q, k, l) == \A i \in k..l : p[i] = q[i]

\* Walks from one place that end at one root took the same siblings to it.
LEMMA StepsBind ==
  ASSUME NEW start, NEW begin, Climbing(start), Climbing(begin), SamePlace(start, begin),
         NEW p, NEW q, NEW m \in Nat, NEW n \in Nat, NEW f, NEW g,
         Steps(start, p, m, f), Steps(begin, q, n, g), AtRoot(f[m]), AtRoot(g[n]),
         f[m].hash = g[n].hash
  PROVE  m = n /\ start.hash = begin.hash /\ SameUpTo(p, q, m)
<1>1. m = n
  BY SameHeight
<1>2. \A i \in 0..m : Climbing(f[i]) /\ Climbing(g[i]) /\ SamePlace(f[i], g[i])
  <2>1. \A i \in 0..m : Climbing(f[i])
    BY StepsClimb
  <2>2. \A i \in 0..n : Climbing(g[i])
    BY StepsClimb
  <2>3. \A i \in Nat : i <= m /\ i <= n => SamePlace(f[i], g[i])
    BY StepsSamePlace
  <2> QED
    BY <1>1, <2>1, <2>2, <2>3
<1>3. \A i \in Nat : i < m => ~f[i].tooLong /\ f[i].sn # 0
  BY StepsBelow DEF AtRoot
<1>4. f[0] = start /\ \A i \in 0..(m - 1) : f[i + 1] = Absorb(f[i], p[i + 1])
  BY NextSteps
<1>5. g[0] = begin /\ \A i \in 0..(m - 1) : g[i + 1] = Absorb(g[i], q[i + 1])
  BY <1>1, NextSteps
<1> DEFINE S == {d \in Nat : d <= m => /\ f[m - d].hash = g[m - d].hash
                                       /\ SameBetween(p, q, m - d + 1, m)}
<1>6. 0 \in S
  <2>1. m - 0 = m /\ (m - 0 + 1)..m = {}
    OBVIOUS
  <2> QED
    BY <1>1, <2>1 DEF SameBetween
<1>7. ASSUME NEW d \in Nat, d \in S PROVE d + 1 \in S
  <2>1. SUFFICES ASSUME d + 1 <= m
                 PROVE  /\ f[m - (d + 1)].hash = g[m - (d + 1)].hash
                        /\ SameBetween(p, q, m - (d + 1) + 1, m)
    OBVIOUS
  <2>2. PICK i \in Nat : i = m - (d + 1)
    BY <2>1
  <2>3. i \in 0..(m - 1) /\ i \in 0..m /\ i < m /\ i + 1 = m - d
    BY <2>1, <2>2
  <2>4. f[i + 1].hash = g[i + 1].hash /\ SameBetween(p, q, i + 2, m)
    BY <1>7, <2>1, <2>3
  <2>5. f[i + 1] = Absorb(f[i], p[i + 1]) /\ g[i + 1] = Absorb(g[i], q[i + 1])
    BY <1>4, <1>5, <2>3
  <2>6. f[i].hash = g[i].hash /\ p[i + 1] = q[i + 1]
    BY <1>2, <1>3, <2>3, <2>4, <2>5, AbsorbBinds
  <2>7. SameBetween(p, q, i + 1, m)
    BY <2>4, <2>6 DEF SameBetween
  <2> QED
    BY <2>2, <2>6, <2>7
<1> HIDE DEF S
<1>8. Nat \subseteq S
  BY <1>6, <1>7, EveryNumber
<1>9. m - m = 0 /\ m - m + 1 = 1 /\ m <= m
  OBVIOUS
<1>10. f[m - m].hash = g[m - m].hash /\ SameBetween(p, q, m - m + 1, m)
  BY <1>8, <1>9 DEF S
<1> QED
  BY <1>1, <1>4, <1>5, <1>9, <1>10 DEF SameUpTo, SameBetween

LEMMA WalkBinds ==
  ASSUME NEW start, NEW begin, Climbing(start), Climbing(begin), SamePlace(start, begin),
         NEW p, NEW q, Len(p) \in Nat, Len(q) \in Nat,
         AtRoot(Walk(start, p)), AtRoot(Walk(begin, q))
  PROVE  /\ Len(p) = Len(q)
         /\ Walk(start, p).hash = Walk(begin, q).hash =>
              start.hash = begin.hash /\ SameUpTo(p, q, Len(p))
<1>1. PICK f : Steps(start, p, Len(p), f) /\ Walk(start, p) = f[Len(p)]
  BY WalkFrom
<1>2. PICK g : Steps(begin, q, Len(q), g) /\ Walk(begin, q) = g[Len(q)]
  BY WalkFrom
<1>3. Len(p) = Len(q)
  BY <1>1, <1>2, SameHeight
<1>4. ASSUME Walk(start, p).hash = Walk(begin, q).hash
      PROVE  start.hash = begin.hash /\ SameUpTo(p, q, Len(p))
  BY <1>1, <1>2, <1>4, StepsBind
<1> QED
  BY <1>3, <1>4

AsLong(p, q) == Len(p) = Len(q)

LEMMA WalksAsLong ==
  ASSUME NEW start, NEW begin, Climbing(start), Climbing(begin), SamePlace(start, begin),
         NEW p, NEW q, IsSeq(p), IsSeq(q), AtRoot(Walk(start, p)), AtRoot(Walk(begin, q))
  PROVE  AsLong(p, q)
<1>1. Len(p) \in Nat /\ Len(q) \in Nat
  BY DEF IsSeq
<1> QED
  BY <1>1, WalkBinds DEF AsLong

LEMMA WalksFromOne ==
  ASSUME NEW start, NEW begin, Climbing(start), Climbing(begin), SamePlace(start, begin),
         NEW p, IsSeq(p), AtRoot(Walk(start, p)), AtRoot(Walk(begin, p)),
         Walk(start, p).hash = Walk(begin, p).hash
  PROVE  start.hash = begin.hash
<1>1. PICK n \in Nat : n = Len(p)
  BY DEF IsSeq
<1>2. PICK f : Steps(start, p, n, f) /\ Walk(start, p) = f[n]
  BY <1>1, WalkFrom
<1>3. PICK g : Steps(begin, p, n, g) /\ Walk(begin, p) = g[n]
  BY <1>1, WalkFrom
<1>4. AtRoot(f[n]) /\ AtRoot(g[n]) /\ f[n].hash = g[n].hash
  BY <1>2, <1>3
<1>5. Steps(start, p, n, f) /\ Steps(begin, p, n, g)
  BY <1>2, <1>3
<1> QED
  BY <1>4, <1>5, StepsBind

\* A walk is its first step, and a walk from there.
LEMMA WalkFirst ==
  ASSUME NEW start, NEW path, IsSeq(path), path # <<>>
  PROVE  /\ Walk(start, path) = Walk(Absorb(start, path[1]), Tail(path))
         /\ Len(path) \in Nat /\ Len(Tail(path)) = Len(path) - 1 /\ Len(Tail(path)) \in Nat
         /\ IsSeq(Tail(path))
<1>0. PICK rest : rest = Tail(path)
  OBVIOUS
<1>1. PICK n \in Nat : /\ n + 1 = Len(path) /\ n = Len(rest)
                       /\ \A i \in 1..n : rest[i] = path[i + 1]
                       /\ IsSeq(rest)
  <2>1. PICK S : path \in Seq(S)
    BY DEF IsSeq
  <2>2. Len(path) \in Nat /\ Len(path) # 0
    BY <2>1
  <2>3. /\ rest \in Seq(S) /\ Len(rest) = Len(path) - 1
        /\ \A i \in 1..(Len(path) - 1) : rest[i] = path[i + 1]
    BY <1>0, <2>1
  <2>4. Len(path) - 1 \in Nat /\ (Len(path) - 1) + 1 = Len(path)
    BY <2>2
  <2> QED
    BY <2>3, <2>4 DEF IsSeq
<1>2. PICK f : Steps(start, path, n + 1, f) /\ Walk(start, path) = f[n + 1]
  BY <1>1, WalkFrom
<1>3. PICK g : g = [i \in 0..n |-> f[i + 1]]
  OBVIOUS
<1>4. f[0] = start /\ \A i \in 0..n : f[i + 1] = Absorb(f[i], path[i + 1])
  <2>1. n + 1 \in Nat /\ (n + 1) - 1 = n
    OBVIOUS
  <2> QED
    BY <1>2, <2>1, NextSteps
<1>5. PICK next : next = Absorb(start, path[1])
  OBVIOUS
<1>6. ASSUME NEW i \in 0..n
      PROVE  g[i] = IF i = 0 THEN next ELSE Absorb(g[i - 1], rest[i])
  <2>1. g[i] = f[i + 1] /\ f[i + 1] = Absorb(f[i], path[i + 1])
    BY <1>3, <1>4
  <2>2. CASE i = 0
    <3>1. i + 1 = 1
      BY <2>2
    <3> QED
      BY <1>4, <1>5, <2>1, <2>2, <3>1
  <2>3. CASE i # 0
    <3>1. i \in 1..n /\ i - 1 \in 0..n /\ (i - 1) + 1 = i
      BY <2>3
    <3>2. g[i - 1] = f[i] /\ rest[i] = path[i + 1]
      BY <1>1, <1>3, <3>1
    <3> QED
      BY <2>1, <2>3, <3>2
  <2> QED
    BY <2>2, <2>3
<1>7. Steps(next, rest, n, g)
  BY <1>3, <1>6 DEF Steps
<1>8. Walk(next, rest) = g[n]
  BY <1>1, <1>7, WalkIs
<1>9. g[n] = f[n + 1]
  BY <1>3
<1> QED
  BY <1>0, <1>1, <1>2, <1>5, <1>8, <1>9

-----------------------------------------------------------------------------
(* What an inclusion proof shows *)

LEMMA AtIs ==
  ASSUME NEW fn \in Nat, NEW sn \in Nat, NEW hash
  PROVE  Stands(At(fn, sn, hash), fn, sn, hash, hash)
BY DEF At, Stands, Climbing

\* Where the climb of a proof ends.
InclusionEnd(proof, data) ==
  Walk(At(proof.leafIndex, proof.treeSize - 1, HashLeaf(data)), proof.path)

\* The verdict is that the climb ends at the root that is expected.
LEMMA VerifyIs ==
  ASSUME NEW proof, NEW data, NEW root
  PROVE  VerifyInclusion(proof, data, root) = "valid" <=>
           /\ proof.treeSize # 0 /\ ~(proof.leafIndex >= proof.treeSize)
           /\ AtRoot(InclusionEnd(proof, data)) /\ InclusionEnd(proof, data).hash = root
<1>1. PICK end : end = InclusionEnd(proof, data)
  OBVIOUS
<1>2. VerifyInclusion(proof, data, root)
        = CASE proof.treeSize = 0                -> "empty tree"
            [] proof.treeSize # 0 /\ proof.leafIndex >= proof.treeSize -> "outside tree"
            [] OTHER -> CASE end.tooLong              -> "proof too long"
                          [] ~end.tooLong /\ end.sn # 0 -> "proof too short"
                          [] ~end.tooLong /\ end.sn = 0 ->
                               IF end.hash = root THEN "valid" ELSE "other root"
  BY <1>1 DEF VerifyInclusion, InclusionEnd
<1> QED
  BY <1>1, <1>2 DEF AtRoot

Claims(leaves, i, p) == [leafIndex |-> i, treeSize |-> Len(leaves), path |-> p]

\* The proof of a leaf is accepted for the root of its tree, and for no other.
LEMMA InclusionComplete ==
  ASSUME NEW leaves, Len(leaves) \in Nat, NEW i \in 0..(Len(leaves) - 1),
         NEW data, HashLeaf(data) = leaves[i + 1], NEW root
  PROVE  VerifyInclusion(InclusionProof(leaves, i), data, root) = "valid" <=> root = Root(leaves)
<1>1. PICK n \in Nat : n = Len(leaves)
  OBVIOUS
<1>2. i \in Nat /\ n - 1 \in Nat /\ n # 0 /\ ~(i >= n)
  BY <1>1
<1>3. PICK start : start = At(i, n - 1, HashLeaf(data))
  OBVIOUS
<1>4. Stands(start, i, Len(leaves) - 1, leaves[i + 1], leaves[i + 1])
  BY <1>1, <1>2, <1>3, AtIs
<1>5. PICK proof : proof = InclusionProof(leaves, i)
  OBVIOUS
<1>6. proof.leafIndex = i /\ proof.treeSize = n /\ proof.path = InclusionPath(leaves, i)
  BY <1>1, <1>5 DEF InclusionProof
<1>7. PICK end : end = InclusionEnd(proof, data)
  OBVIOUS
<1>8. end = Walk(start, InclusionPath(leaves, i))
  BY <1>3, <1>6, <1>7 DEF InclusionEnd
<1>9. Stands(end, 0, 0, Root(leaves), Mth(leaves, 0, i + 1))
  BY <1>4, <1>8, HonestWalk
<1>10. AtRoot(end) /\ end.hash = Root(leaves)
  BY <1>9 DEF Stands, AtRoot
<1> QED
  BY <1>2, <1>5, <1>6, <1>7, <1>10, VerifyIs

\* And what is accepted for that root is that proof, of that leaf.
LEMMA InclusionSound ==
  ASSUME NEW leaves, Len(leaves) \in Nat, NEW i \in 0..(Len(leaves) - 1),
         NEW data, NEW p, Len(p) \in Nat,
         VerifyInclusion(Claims(leaves, i, p), data, Root(leaves)) = "valid"
  PROVE  /\ HashLeaf(data) = leaves[i + 1]
         /\ Len(p) = Len(InclusionPath(leaves, i))
         /\ SameUpTo(p, InclusionPath(leaves, i), Len(p))
<1>1. PICK n \in Nat : n = Len(leaves)
  OBVIOUS
<1>2. i \in Nat /\ n - 1 \in Nat
  BY <1>1
<1>3. PICK start : start = At(i, n - 1, HashLeaf(data))
  OBVIOUS
<1>4. PICK begin : begin = At(i, n - 1, leaves[i + 1])
  OBVIOUS
<1>5. /\ Stands(start, i, n - 1, HashLeaf(data), HashLeaf(data))
      /\ Stands(begin, i, n - 1, leaves[i + 1], leaves[i + 1])
  BY <1>2, <1>3, <1>4, AtIs
<1>6. PICK q : q = InclusionPath(leaves, i)
  OBVIOUS
<1>7. Stands(Walk(begin, q), 0, 0, Root(leaves), Mth(leaves, 0, i + 1)) /\ IsSeq(q)
  BY <1>1, <1>5, <1>6, HonestWalk
<1>8. Len(q) \in Nat
  BY <1>7 DEF IsSeq
<1>9. PICK claim : claim = Claims(leaves, i, p)
  OBVIOUS
<1>10. claim.leafIndex = i /\ claim.treeSize = n /\ claim.path = p
  BY <1>1, <1>9 DEF Claims
<1>11. InclusionEnd(claim, data) = Walk(start, p)
  BY <1>3, <1>10 DEF InclusionEnd
<1>12. AtRoot(Walk(start, p)) /\ Walk(start, p).hash = Root(leaves)
  BY <1>9, <1>11, VerifyIs
<1>13. AtRoot(Walk(begin, q)) /\ Walk(begin, q).hash = Root(leaves)
  BY <1>7 DEF Stands, AtRoot
<1>14. Climbing(start) /\ Climbing(begin) /\ SamePlace(start, begin)
  BY <1>5 DEF Stands, SamePlace, Climbing
<1>15. Len(p) = Len(q) /\ start.hash = begin.hash /\ SameUpTo(p, q, Len(p))
  BY <1>8, <1>12, <1>13, <1>14, WalkBinds
<1> QED
  BY <1>5, <1>6, <1>15 DEF Stands

-----------------------------------------------------------------------------
(* What a root binds *)

\* Leaves are hashes of single parts, as those of an audit log are.
OfLeaves(leaves) == \A i \in 1..Len(leaves) : \E part : leaves[i] = HashLeaf(<<part>>)

\* "The 0x00 / 0x01 prefixes": a leaf is no node, and neither is the empty root.
LEMMA LeafApart ==
  \A x, y, a, b : /\ HashLeaf(<<x>>) # HashNode(a, b) /\ HashLeaf(<<x, y>>) # HashNode(a, b)
                  /\ HashLeaf(<<x>>) # Sha(<<>>) /\ HashNode(a, b) # Sha(<<>>)
<1>1. SUFFICES ASSUME NEW x, NEW y, NEW a, NEW b
               PROVE  /\ HashLeaf(<<x>>) # HashNode(a, b) /\ HashLeaf(<<x, y>>) # HashNode(a, b)
                      /\ HashLeaf(<<x>>) # Sha(<<>>) /\ HashNode(a, b) # Sha(<<>>)
  OBVIOUS
<1>2. PICK prefix, single, pair : prefix = <<Byte(0)>> /\ single = <<x>> /\ pair = <<x, y>>
  OBVIOUS
<1>3. PICK one, two, node, none : /\ one = prefix \o single /\ two = prefix \o pair
                                  /\ node = <<Byte(1), a, b>> /\ none = <<>>
  OBVIOUS
<1>4. Byte(0) # Byte(1)
  BY DEF Byte
<1>5. Len(one) = 2 /\ one[1] = Byte(0) /\ two[1] = Byte(0)
  <2>1. PICK S : S = {Byte(0), x, y}
    OBVIOUS
  <2>2. prefix \in Seq(S) /\ single \in Seq(S) /\ pair \in Seq(S)
    BY <1>2, <2>1
  <2>3. Len(prefix) = 1 /\ Len(single) = 1 /\ Len(pair) = 2 /\ prefix[1] = Byte(0)
    BY <1>2
  <2>4. Len(one) = 2 /\ one[1] = prefix[1]
    BY <1>3, <2>2, <2>3, ConcatProperties, SMTT(60)
  <2>5. Len(two) = 3 /\ two[1] = prefix[1]
    BY <1>3, <2>2, <2>3, ConcatProperties
  <2> QED
    BY <2>3, <2>4, <2>5
<1>6. one # node /\ two # node /\ one # none /\ node # none
  <2>1. Len(node) = 3 /\ node[1] = Byte(1) /\ Len(none) = 0
    BY <1>3
  <2> QED
    BY <1>4, <1>5, <2>1
<1>7. Sha(one) # Sha(node) /\ Sha(two) # Sha(node) /\ Sha(one) # Sha(none) /\ Sha(node) # Sha(none)
  BY <1>6 DEF Sha
<1> QED
  BY <1>2, <1>3, <1>7 DEF HashLeaf, HashNode

LEMMA LeafInjective == \A x, y : HashLeaf(<<x>>) = HashLeaf(<<y>>) => x = y
<1>1. SUFFICES ASSUME NEW x, NEW y, HashLeaf(<<x>>) = HashLeaf(<<y>>) PROVE x = y
  OBVIOUS
<1>2. PICK prefix, one, other : prefix = <<Byte(0)>> /\ one = <<x>> /\ other = <<y>>
  OBVIOUS
<1>3. PICK p, q : p = prefix \o one /\ q = prefix \o other
  OBVIOUS
<1>4. p[2] = x /\ q[2] = y
  <2>1. PICK S : S = {Byte(0), x, y}
    OBVIOUS
  <2>2. prefix \in Seq(S) /\ one \in Seq(S) /\ other \in Seq(S)
    BY <1>2, <2>1
  <2>3. /\ Len(prefix) = 1 /\ Len(one) = 1 /\ Len(other) = 1
        /\ one[1] = x /\ other[1] = y
    BY <1>2
  <2>4. p[2] = one[1]
    BY <1>3, <2>2, <2>3, ConcatProperties
  <2>5. q[2] = other[1]
    BY <1>3, <2>2, <2>3, ConcatProperties
  <2> QED
    BY <2>3, <2>4, <2>5
<1>5. Sha(p) = Sha(q)
  BY <1>1, <1>2, <1>3 DEF HashLeaf
<1>6. p = q
  BY <1>5 DEF Sha
<1> QED
  BY <1>4, <1>6

\* What the root of a range is made of.
LEMMA MthKinds ==
  ASSUME NEW leaves, Len(leaves) \in Nat, OfLeaves(leaves),
         NEW a \in Nat, NEW n \in 0..Len(leaves), a + n <= Len(leaves)
  PROVE  /\ n = 0 => Mth(leaves, a, a + n) = Sha(<<>>)
         /\ n = 1 => \E x : Mth(leaves, a, a + n) = HashLeaf(<<x>>)
         /\ n > 1 => \E x, y : Mth(leaves, a, a + n) = HashNode(x, y)
<1>1. PICK root : root = Mth(leaves, a, a + n)
  OBVIOUS
<1>2. n = 0 => root = Sha(<<>>)
  BY <1>1, MthIs
<1>3. ASSUME n = 1 PROVE \E x : root = HashLeaf(<<x>>)
  <2>1. a + 1 \in 1..Len(leaves) /\ root = leaves[a + 1]
    BY <1>1, <1>3, MthIs
  <2> QED
    BY <2>1 DEF OfLeaves
<1>4. ASSUME n > 1 PROVE \E x, y : root = HashNode(x, y)
  <2>1. PICK k : k = LargestPowerOfTwoBelow(n)
    OBVIOUS
  <2>2. root = HashNode(Mth(leaves, a, a + k), Mth(leaves, a + k, a + n))
    BY <1>1, <1>4, <2>1, MthIs
  <2> QED
    BY <2>2
<1> QED
  BY <1>1, <1>2, <1>3, <1>4

\* A range of n leaves is told by its root from every range of other trees.
Told(leaves, others, n) ==
  \A m \in 0..Len(others), a \in Nat, b \in Nat :
    a + n <= Len(leaves) /\ b + m <= Len(others) /\ Mth(leaves, a, a + n) = Mth(others, b, b + m) =>
      n = m /\ \A i \in 1..n : leaves[a + i] = others[b + i]

Within(leaves, a, n) == a + n <= Len(leaves)

RangeRoot(leaves, a, n) == Mth(leaves, a, a + n)

SameLeaves(leaves, a, others, b, n) == \A i \in 1..n : leaves[a + i] = others[b + i]

LEMMA ToldIs ==
  ASSUME NEW leaves, NEW others, NEW n \in Nat, Told(leaves, others, n), Len(others) \in Nat,
         NEW m \in Nat, NEW a \in Nat, NEW b \in Nat, Within(leaves, a, n), Within(others, b, m),
         RangeRoot(leaves, a, n) = RangeRoot(others, b, m)
  PROVE  n = m /\ SameLeaves(leaves, a, others, b, n)
<1>1. m \in 0..Len(others)
  BY DEF Within
<1> QED
  BY <1>1 DEF Told, Within, RangeRoot, SameLeaves

LEMMA RootsTell ==
  ASSUME NEW leaves, Len(leaves) \in Nat, OfLeaves(leaves),
         NEW others, Len(others) \in Nat, OfLeaves(others)
  PROVE  \A n \in 0..Len(leaves) : Told(leaves, others, n)
<1> DEFINE S == {n \in Nat : n <= Len(leaves) => Told(leaves, others, n)}
<1>1. ASSUME NEW n \in Nat, \A l \in 0..(n - 1) : l \in S PROVE n \in S
  <2>1. SUFFICES ASSUME n <= Len(leaves), NEW m \in 0..Len(others), NEW a \in Nat, NEW b \in Nat,
                        a + n <= Len(leaves), b + m <= Len(others),
                        Mth(leaves, a, a + n) = Mth(others, b, b + m)
                 PROVE  n = m /\ \A i \in 1..n : leaves[a + i] = others[b + i]
    BY DEF Told
  <2>2. /\ n = 0 => Mth(leaves, a, a + n) = Sha(<<>>)
        /\ n = 1 => \E x : Mth(leaves, a, a + n) = HashLeaf(<<x>>)
        /\ n > 1 => \E x, y : Mth(leaves, a, a + n) = HashNode(x, y)
    <3>1. n \in 0..Len(leaves)
      BY <2>1
    <3> QED
      BY <2>1, <3>1, MthKinds
  <2>3. /\ m = 0 => Mth(others, b, b + m) = Sha(<<>>)
        /\ m = 1 => \E x : Mth(others, b, b + m) = HashLeaf(<<x>>)
        /\ m > 1 => \E x, y : Mth(others, b, b + m) = HashNode(x, y)
    BY <2>1, MthKinds
  <2>4. CASE n = 0
    <3>1. m = 0
      <4>1. ~(m = 1) /\ ~(m > 1)
        BY <2>1, <2>2, <2>3, <2>4, LeafApart
      <4> QED
        BY <4>1
    <3> QED
      BY <2>4, <3>1
  <2>5. CASE n = 1
    <3>1. m = 1
      <4>1. ~(m = 0) /\ ~(m > 1)
        BY <2>1, <2>2, <2>3, <2>5, LeafApart
      <4> QED
        BY <4>1
    <3>2. Mth(leaves, a, a + n) = leaves[a + 1] /\ Mth(others, b, b + m) = others[b + 1]
      <4>1. n \in 0..Len(leaves)
        BY <2>1
      <4> QED
        BY <2>5, <3>1, <4>1, MthIs
    <3> QED
      BY <2>1, <2>5, <3>1, <3>2
  <2>6. CASE n > 1
    <3>1. m > 1
      <4>1. ~(m = 0) /\ ~(m = 1)
        BY <2>1, <2>2, <2>3, <2>6, LeafApart
      <4> QED
        BY <4>1
    <3>2. PICK k \in Nat : k = LargestPowerOfTwoBelow(n)
      BY <2>6, SplitBounds
    <3>3. PICK j \in Nat : j = LargestPowerOfTwoBelow(m)
      BY <3>1, SplitBounds
    <3>4. k \in 1..(n - 1) /\ j \in 1..(m - 1)
      BY <2>6, <3>1, <3>2, <3>3, SplitBounds
    <3>5. Mth(leaves, a, a + n) = HashNode(Mth(leaves, a, a + k), Mth(leaves, a + k, a + n))
      <4>1. n \in 0..Len(leaves)
        BY <2>1
      <4> QED
        BY <2>6, <3>2, <4>1, MthIs
    <3>6. Mth(others, b, b + m) = HashNode(Mth(others, b, b + j), Mth(others, b + j, b + m))
      BY <3>1, <3>3, MthIs
    <3>7. /\ Mth(leaves, a, a + k) = Mth(others, b, b + j)
          /\ Mth(leaves, a + k, a + n) = Mth(others, b + j, b + m)
      <4>1. HashNode(Mth(leaves, a, a + k), Mth(leaves, a + k, a + n))
              = HashNode(Mth(others, b, b + j), Mth(others, b + j, b + m))
        BY <2>1, <3>5, <3>6
      <4> QED
        BY <4>1, NodeInjective
    <3>8. k = j /\ \A i \in 1..k : leaves[a + i] = others[b + i]
      <4>1. k \in 0..(n - 1) /\ k <= Len(leaves) /\ j \in 0..Len(others)
            /\ a + k <= Len(leaves) /\ b + j <= Len(others)
        BY <2>1, <3>4
      <4>2. Told(leaves, others, k)
        BY <1>1, <4>1
      <4> QED
        BY <3>7, <4>1, <4>2, ZenonT(60) DEF Told
    <3>9. n - k = m - j /\ \A i \in 1..(n - k) : leaves[a + k + i] = others[b + j + i]
      <4>1. PICK l \in Nat, h \in Nat, c \in Nat, d \in Nat :
              l = n - k /\ h = m - j /\ c = a + k /\ d = b + j
        BY <2>1, <3>4
      <4>2. /\ l \in 0..(n - 1) /\ l <= Len(leaves) /\ h \in 0..Len(others)
            /\ c + l = a + n /\ d + h = b + m
        BY <2>1, <3>4, <4>1
      <4>3. Told(leaves, others, l)
        BY <1>1, <4>2
      <4>4. RangeRoot(leaves, c, l) = RangeRoot(others, d, h)
        BY <3>7, <4>1, <4>2 DEF RangeRoot
      <4>5. l = h /\ SameLeaves(leaves, c, others, d, l)
        <5>1. Within(leaves, c, l) /\ Within(others, d, h)
          BY <2>1, <4>2 DEF Within
        <5> QED
          BY <4>3, <4>4, <5>1, ToldIs
      <4> QED
        BY <4>1, <4>5 DEF SameLeaves
    <3>10. n = m
      BY <3>4, <3>8, <3>9
    <3>11. ASSUME NEW i \in 1..n PROVE leaves[a + i] = others[b + i]
      <4>1. CASE i <= k
        BY <3>8, <4>1
      <4>2. CASE i > k
        <5>1. i - k \in 1..(n - k) /\ a + k + (i - k) = a + i /\ b + j + (i - k) = b + i
          BY <3>4, <3>8, <4>2
        <5> QED
          BY <3>9, <5>1
      <4> QED
        BY <4>1, <4>2
    <3> QED
      BY <3>10, <3>11
  <2> QED
    BY <2>4, <2>5, <2>6
<1> HIDE DEF S
<1>2. Nat \subseteq S
  BY <1>1, EveryNumberFromBelow
<1> QED
  BY <1>2 DEF S

\* Trees with one root have the same leaves.
LEMMA RootBinds ==
  ASSUME NEW leaves, Len(leaves) \in Nat, OfLeaves(leaves),
         NEW others, Len(others) \in Nat, OfLeaves(others), Root(leaves) = Root(others)
  PROVE  Len(leaves) = Len(others) /\ SameUpTo(leaves, others, Len(leaves))
<1>1. PICK n \in Nat, m \in Nat : n = Len(leaves) /\ m = Len(others)
  OBVIOUS
<1>2. Told(leaves, others, n)
  BY <1>1, RootsTell
<1>3. Mth(leaves, 0, 0 + n) = Mth(others, 0, 0 + m)
  BY <1>1 DEF Root
<1>4. n = m /\ \A i \in 1..n : leaves[0 + i] = others[0 + i]
  <2>1. m \in 0..Len(others) /\ 0 \in Nat /\ 0 + n <= Len(leaves) /\ 0 + m <= Len(others)
    BY <1>1
  <2> QED
    BY <1>2, <1>3, <2>1 DEF Told
<1> QED
  BY <1>1, <1>4 DEF SameUpTo

-----------------------------------------------------------------------------
(* A proof that is cut short *)

LEMMA HalfOfBoth ==
  ASSUME NEW h \in Nat, NEW d \in Nat, d > 0
  PROVE  (2 * h) \div (2 * d) = h \div d
<1>1. PICK q \in Nat : q = h \div d
  OBVIOUS
<1>2. q * d <= h /\ h < q * d + d
  BY <1>1
<1>3. PICK r \in 0..(d - 1) : h = q * d + r
  <2>1. q * d \in Nat
    OBVIOUS
  <2>2. h - q * d \in 0..(d - 1) /\ h = q * d + (h - q * d)
    BY <1>2, <2>1
  <2> QED
    BY <2>2
<1>4. PICK c \in Nat : c = 2 * d
  OBVIOUS
<1>5. c > 0 /\ 2 * r \in 0..(c - 1) /\ 2 * h = q * c + 2 * r
  <2>1. q * c = 2 * (q * d)
    BY <1>4
  <2> QED
    BY <1>3, <1>4, <2>1
<1>6. (q * c + 2 * r) \div c = q
  BY <1>5, QuotientIs
<1> QED
  BY <1>1, <1>4, <1>5, <1>6

\* The proof for leaf i, taken from the level above for the pair of hashes below.
Upper(leaves, i) ==
  [leafIndex |-> i \div 2, treeSize |-> (Len(leaves) + 1) \div 2,
   path |-> Tail(InclusionPath(leaves, i))]

\* It is refused: where the first step climbs one level, a node would have to be a
\* leaf; where it climbs more, the pair arrives a step early.
LEMMA CutShort ==
  ASSUME NEW leaves, Len(leaves) \in Nat, Len(leaves) > 1, NEW i \in 0..(Len(leaves) - 1),
         NEW x, NEW y
  PROVE  VerifyInclusion(Upper(leaves, i), <<x, y>>, Root(leaves)) # "valid"
<1>1. PICK n \in Nat : n = Len(leaves)
  OBVIOUS
<1>2. i \in Nat /\ n - 1 \in Nat /\ n - 1 # 0 /\ i <= n - 1
  BY <1>1
<1>3. PICK at : at = At(i, n - 1, leaves[i + 1])
  OBVIOUS
<1>4. Stands(at, i, n - 1, leaves[i + 1], leaves[i + 1])
  BY <1>2, <1>3, AtIs
<1>5. PICK p : p = InclusionPath(leaves, i)
  OBVIOUS
<1>6. IsSeq(p) /\ Stands(Walk(at, p), 0, 0, Root(leaves), Mth(leaves, 0, i + 1))
  BY <1>1, <1>4, <1>5, HonestWalk
<1>7. p # <<>>
  <2>1. SUFFICES ASSUME p = <<>> PROVE FALSE
    OBVIOUS
  <2>2. Walk(at, p) = at
    BY <2>1, WalkEmpty
  <2> QED
    BY <1>2, <1>4, <1>6, <2>2 DEF Stands
<1>8. PICK first, rest : first = Absorb(at, p[1]) /\ rest = Tail(p)
  OBVIOUS
<1>9. Walk(at, p) = Walk(first, rest) /\ Len(rest) \in Nat /\ IsSeq(rest)
  BY <1>6, <1>7, <1>8, WalkFirst
<1>10. AtRoot(Walk(first, rest)) /\ Walk(first, rest).hash = Root(leaves)
  BY <1>6, <1>9 DEF Stands, AtRoot
<1>11. Climbing(at) /\ ~at.tooLong /\ at.sn # 0 /\ at.fn = i /\ at.sn = n - 1
  BY <1>2, <1>4 DEF Stands
<1>12. Climbing(first) /\ ~first.tooLong
  BY <1>8, <1>11, AbsorbIs
<1>13. PICK low : low = At(i \div 2, (n - 1) \div 2, HashLeaf(<<x, y>>))
  OBVIOUS
<1>14. Stands(low, i \div 2, (n - 1) \div 2, HashLeaf(<<x, y>>), HashLeaf(<<x, y>>))
  <2>1. i \div 2 \in Nat /\ (n - 1) \div 2 \in Nat
    BY <1>2
  <2> QED
    BY <1>13, <2>1, AtIs
<1>15. SUFFICES ASSUME VerifyInclusion(Upper(leaves, i), <<x, y>>, Root(leaves)) = "valid"
                PROVE  FALSE
  OBVIOUS
<1>16. AtRoot(Walk(low, rest)) /\ Walk(low, rest).hash = Root(leaves)
  <2>1. PICK upper : upper = Upper(leaves, i)
    OBVIOUS
  <2>2. upper.leafIndex = i \div 2 /\ upper.treeSize = (n + 1) \div 2 /\ upper.path = rest
    BY <1>1, <1>5, <1>8, <2>1 DEF Upper
  <2>3. (n + 1) \div 2 - 1 = (n - 1) \div 2
    BY <1>2
  <2>4. InclusionEnd(upper, <<x, y>>) = Walk(low, rest)
    BY <1>13, <2>2, <2>3 DEF InclusionEnd
  <2> QED
    BY <1>15, <2>1, <2>4, VerifyIs
<1>17. CASE OnTheRight(at) => LowestBit(i) = 1
  <2>1. first.fn = i \div 2 /\ first.sn = (n - 1) \div 2 /\ \E a, b : first.hash = HashNode(a, b)
    <3>1. CASE OnTheRight(at)
      <4>1. PICK d : d = 2 * LowestBit(at.fn)
        OBVIOUS
      <4>2. d = 2
        BY <1>11, <1>17, <3>1, <4>1
      <4>3. /\ first.fn = at.fn \div d /\ first.sn = at.sn \div d
            /\ first.hash = HashNode(p[1], at.hash)
        BY <1>8, <1>11, <3>1, <4>1, AbsorbIs
      <4> QED
        BY <1>11, <4>2, <4>3
    <3>2. CASE ~OnTheRight(at)
      <4>1. /\ first.fn = at.fn \div 2 /\ first.sn = at.sn \div 2
            /\ first.hash = HashNode(at.hash, p[1])
        BY <1>8, <1>11, <3>2, AbsorbIs
      <4> QED
        BY <1>11, <4>1
    <3> QED
      BY <3>1, <3>2
  <2>2. Climbing(low) /\ SamePlace(low, first)
    BY <1>12, <1>14, <2>1 DEF Stands, SamePlace, Climbing
  <2>3. low.hash = first.hash
    BY <1>9, <1>10, <1>12, <1>16, <2>2, WalksFromOne
  <2>4. low.hash = HashLeaf(<<x, y>>)
    BY <1>14 DEF Stands
  <2> QED
    BY <2>1, <2>3, <2>4, LeafApart
<1>18. CASE OnTheRight(at) /\ LowestBit(i) # 1
  <2>1. i # 0 /\ i % 2 = 0
    BY <1>2, <1>18, LowestBitIs
  <2>2. i = n - 1
    BY <1>2, <1>11, <1>18, <2>1 DEF OnTheRight
  <2>3. PICK h \in Nat : h = i \div 2
    BY <1>2
  <2>4. i = 2 * h /\ h # 0 /\ (n - 1) \div 2 = h
    BY <1>2, <2>1, <2>2, <2>3
  <2>5. PICK l \in Nat : l = LowestBit(h) /\ l > 0
    BY LowestBitPositive
  <2>6. LowestBit(i) = 2 * l
    BY <1>2, <2>1, <2>3, <2>5, LowestBitIs
  <2>7. PICK d \in Nat : d = 2 * l /\ d > 0
    BY <2>5
  <2>8. first.fn = h \div d /\ first.sn = h \div d
    <3>1. PICK c : c = 2 * LowestBit(at.fn)
      OBVIOUS
    <3>2. c = 2 * d
      BY <1>11, <2>6, <2>7, <3>1
    <3>3. first.fn = at.fn \div c /\ first.sn = at.sn \div c
      BY <1>8, <1>11, <1>18, <3>1, AbsorbIs
    <3>4. (2 * h) \div (2 * d) = h \div d
      BY <2>7, HalfOfBoth
    <3> QED
      BY <1>11, <2>2, <2>4, <3>2, <3>3, <3>4
  <2>9. Climbing(low) /\ ~low.tooLong /\ low.fn = h /\ low.sn = h
    BY <1>14, <2>3, <2>4 DEF Stands
  <2>10. rest # <<>>
    <3>1. SUFFICES ASSUME rest = <<>> PROVE FALSE
      OBVIOUS
    <3>2. Walk(low, rest) = low
      BY <3>1, WalkEmpty
    <3> QED
      BY <1>16, <2>4, <2>9, <3>2 DEF AtRoot
  <2>11. PICK next : next = Absorb(low, rest[1])
    OBVIOUS
  <2>12. Climbing(next) /\ ~next.tooLong /\ next.fn = h \div d /\ next.sn = h \div d
    <3>1. OnTheRight(low)
      BY <2>9 DEF OnTheRight
    <3>2. PICK c : c = 2 * LowestBit(low.fn)
      OBVIOUS
    <3>3. c = d
      BY <2>5, <2>7, <2>9, <3>2
    <3>4. Climbing(next) /\ ~next.tooLong /\ next.fn = low.fn \div c /\ next.sn = low.sn \div c
      BY <2>4, <2>9, <2>11, <3>1, <3>2, AbsorbIs
    <3> QED
      BY <2>9, <3>3, <3>4
  <2>13. /\ Walk(low, rest) = Walk(next, Tail(rest))
         /\ Len(Tail(rest)) = Len(rest) - 1 /\ Len(Tail(rest)) \in Nat
    BY <1>9, <2>10, <2>11, WalkFirst
  <2>14. SamePlace(first, next)
    BY <1>12, <2>8, <2>12 DEF SamePlace, Climbing
  <2>15. Len(rest) = Len(Tail(rest))
    <3>1. AtRoot(Walk(next, Tail(rest)))
      BY <1>16, <2>13
    <3>2. IsSeq(Tail(rest))
      BY <1>9, <2>10, WalkFirst
    <3>3. AsLong(rest, Tail(rest))
      BY <1>9, <1>10, <1>12, <2>12, <2>14, <3>1, <3>2, WalksAsLong
    <3> QED
      BY <3>3 DEF AsLong
  <2> QED
    BY <1>9, <2>13, <2>15
<1> QED
  BY <1>17, <1>18

-----------------------------------------------------------------------------
(* What a path proves of its start *)

\* The root of some range of the tree.
RootOfSome(tree, hash) ==
  \E a \in Nat : \E n \in 0..Len(tree) : a + n <= Len(tree) /\ hash = Mth(tree, a, a + n)

\* A leaf under such a root is the only one there is.
LEMMA LeafOfRange ==
  ASSUME NEW tree, Len(tree) \in Nat, OfLeaves(tree),
         NEW x, RootOfSome(tree, HashLeaf(<<x>>))
  PROVE  \E i \in 1..Len(tree) : tree[i] = HashLeaf(<<x>>)
<1>1. PICK a \in Nat, n \in 0..Len(tree) :
        a + n <= Len(tree) /\ HashLeaf(<<x>>) = Mth(tree, a, a + n)
  BY DEF RootOfSome
<1>2. n = 1
  <2>1. n # 0
    BY <1>1, MthKinds, LeafApart
  <2>2. ~(n > 1)
    <3>1. SUFFICES ASSUME n > 1 PROVE FALSE
      OBVIOUS
    <3>2. \E y, z : Mth(tree, a, a + n) = HashNode(y, z)
      BY <1>1, <3>1, MthKinds
    <3> QED
      BY <1>1, <3>2, LeafApart
  <2> QED
    BY <2>1, <2>2
<1>3. Mth(tree, a, a + n) = tree[a + 1] /\ a + 1 \in 1..Len(tree)
  BY <1>1, <1>2, MthIs
<1> QED
  BY <1>1, <1>3

\* Both halves of a root are roots.
LEMMA HalvesOfRange ==
  ASSUME NEW tree, Len(tree) \in Nat, OfLeaves(tree),
         NEW x, NEW y, RootOfSome(tree, HashNode(x, y))
  PROVE  RootOfSome(tree, x) /\ RootOfSome(tree, y)
<1>1. PICK a \in Nat, n \in 0..Len(tree) :
        a + n <= Len(tree) /\ HashNode(x, y) = Mth(tree, a, a + n)
  BY DEF RootOfSome
<1>2. n > 1
  <2>1. n # 0
    BY <1>1, MthKinds, LeafApart
  <2>2. n # 1
    <3>1. SUFFICES ASSUME n = 1 PROVE FALSE
      OBVIOUS
    <3>2. \E z : Mth(tree, a, a + n) = HashLeaf(<<z>>)
      BY <1>1, <3>1, MthKinds
    <3> QED
      BY <1>1, <3>2, LeafApart
  <2> QED
    BY <2>1, <2>2
<1>3. PICK k : k = LargestPowerOfTwoBelow(n)
  OBVIOUS
<1>4. k \in 1..(n - 1)
  BY <1>2, <1>3, SplitBounds
<1>5. Mth(tree, a, a + n) = HashNode(Mth(tree, a, a + k), Mth(tree, a + k, a + n))
  BY <1>1, <1>2, <1>3, MthIs
<1>6. x = Mth(tree, a, a + k) /\ y = Mth(tree, a + k, a + n)
  BY <1>1, <1>5, NodeInjective
<1>7. RootOfSome(tree, x)
  <2>1. k \in 0..Len(tree) /\ a + k <= Len(tree)
    BY <1>1, <1>4
  <2> QED
    BY <1>6, <2>1 DEF RootOfSome
<1>8. RootOfSome(tree, y)
  <2>1. PICK b, m : b = a + k /\ m = n - k
    OBVIOUS
  <2>2. b \in Nat /\ m \in 0..Len(tree) /\ b + m = a + n /\ b + m <= Len(tree)
    BY <1>1, <1>4, <2>1
  <2>3. y = Mth(tree, b, b + m)
    BY <1>6, <2>1, <2>2
  <2> QED
    BY <2>2, <2>3 DEF RootOfSome
<1> QED
  BY <1>7, <1>8

\* A walk that ends at a root came through roots, whatever the siblings it was given.
LEMMA WalkFromWithin ==
  ASSUME NEW tree, Len(tree) \in Nat, OfLeaves(tree), NEW start, Climbing(start),
         NEW path, Len(path) \in Nat, ~Walk(start, path).tooLong,
         RootOfSome(tree, Walk(start, path).hash)
  PROVE  RootOfSome(tree, start.hash)
<1>1. PICK n \in Nat : n = Len(path)
  OBVIOUS
<1>2. PICK f : Steps(start, path, n, f) /\ Walk(start, path) = f[n]
  BY <1>1, WalkFrom
<1>3. f[0] = start /\ \A i \in 0..(n - 1) : f[i + 1] = Absorb(f[i], path[i + 1])
  BY <1>2, StepIs
<1> DEFINE S == {i \in Nat : i <= n =>
                   /\ Climbing(f[i])
                   /\ ~f[i].tooLong /\ RootOfSome(tree, f[i].hash)
                        => RootOfSome(tree, start.hash)}
<1>4. 0 \in S
  BY <1>3
<1>5. ASSUME NEW i \in Nat, i \in S PROVE i + 1 \in S
  <2>1. SUFFICES ASSUME i + 1 <= n
                 PROVE  /\ Climbing(f[i + 1])
                        /\ ~f[i + 1].tooLong /\ RootOfSome(tree, f[i + 1].hash)
                             => RootOfSome(tree, start.hash)
    OBVIOUS
  <2>2. PICK at, to, x : at = f[i] /\ to = f[i + 1] /\ x = path[i + 1]
    OBVIOUS
  <2>3. i <= n /\ i \in 0..(n - 1)
    BY <2>1
  <2>4. /\ to = Absorb(at, x) /\ Climbing(at)
        /\ ~at.tooLong /\ RootOfSome(tree, at.hash) => RootOfSome(tree, start.hash)
    BY <1>3, <1>5, <2>2, <2>3
  <2>5. Climbing(to) /\ (to.tooLong <=> (at.tooLong \/ at.sn = 0))
    BY <2>4, AbsorbIs
  <2>6. ASSUME ~to.tooLong, RootOfSome(tree, to.hash) PROVE RootOfSome(tree, start.hash)
    <3>1. ~at.tooLong /\ at.sn # 0
      BY <2>5, <2>6
    <3>2. to.hash = HashNode(x, at.hash) \/ to.hash = HashNode(at.hash, x)
      BY <2>4, <3>1, AbsorbIs
    <3>3. RootOfSome(tree, at.hash)
      BY <2>6, <3>2, HalvesOfRange
    <3> QED
      BY <2>4, <3>1, <3>3
  <2> QED
    BY <2>2, <2>5, <2>6
<1>6. Nat \subseteq S
  <2> HIDE DEF S
  <2> QED
    BY <1>4, <1>5, EveryNumber
<1>7. n \in S
  BY <1>6
<1> QED
  BY <1>2, <1>7

-----------------------------------------------------------------------------
(* Where a subproof begins *)

\* An odd number ends in a one.
LEMMA LowestBitOdd ==
  ASSUME NEW n \in Nat, n % 2 = 1
  PROVE  LowestBit(n) = 1
BY LowestBitIs

\* Twice a number has its lowest one bit a place higher.
LEMMA LowestBitEven ==
  ASSUME NEW x \in Nat, x # 0
  PROVE  LowestBit(2 * x) = 2 * LowestBit(x)
<1>1. 2 * x \in Nat /\ 2 * x # 0 /\ (2 * x) % 2 # 1 /\ (2 * x) \div 2 = x
  OBVIOUS
<1> QED
  BY <1>1, LowestBitIs

\* A number is odd, or twice a smaller one.
LEMMA OddOrDouble ==
  ASSUME NEW n \in Nat, n # 0
  PROVE  n % 2 = 1 \/ \E x \in 1..(n - 1) : n = 2 * x
<1>1. CASE n % 2 # 1
  <2>1. n \div 2 \in 1..(n - 1) /\ n = 2 * (n \div 2)
    BY <1>1
  <2> QED
    BY <2>1
<1> QED
  BY <1>1

\* m is a multiple of c.
Blocks(m, c) == \E q \in Nat : m = q * c + c

\* The lowest bit of a number is a power of two that divides it.
LEMMA LowestBitDivides ==
  \A m \in Nat : m # 0 => LowestBit(m) \in Powers /\ Blocks(m, LowestBit(m))
<1> DEFINE S == {m \in Nat : m # 0 => LowestBit(m) \in Powers /\ Blocks(m, LowestBit(m))}
<1>1. ASSUME NEW m \in Nat, \A i \in 0..(m - 1) : i \in S PROVE m \in S
  <2>1. SUFFICES ASSUME m # 0 PROVE LowestBit(m) \in Powers /\ Blocks(m, LowestBit(m))
    OBVIOUS
  <2>2. CASE m % 2 = 1
    <3>1. m - 1 \in Nat /\ m = (m - 1) * 1 + 1
      BY <2>1
    <3>2. LowestBit(m) = 1
      BY <2>2, LowestBitOdd
    <3> QED
      BY <3>1, <3>2, PowerOne DEF Blocks
  <2>3. ASSUME NEW x \in 1..(m - 1), m = 2 * x
        PROVE  LowestBit(m) \in Powers /\ Blocks(m, LowestBit(m))
    <3>1. x \in 0..(m - 1) /\ x \in Nat /\ x # 0
      OBVIOUS
    <3>2. PICK c : c = LowestBit(x)
      OBVIOUS
    <3>3. c \in Powers /\ Blocks(x, c)
      BY <1>1, <3>1, <3>2
    <3>4. PICK q \in Nat : x = q * c + c
      BY <3>3 DEF Blocks
    <3>5. c \in Nat /\ LowestBit(m) = 2 * c
      BY <2>3, <3>1, <3>2, <3>3, LowestBitEven DEF Powers
    <3>6. m = q * (2 * c) + 2 * c
      <4>1. PICK y \in Nat : y = q * c
        BY <3>5
      <4>2. q * (2 * c) = 2 * y
        BY <3>5, <4>1
      <4> QED
        BY <2>3, <3>4, <3>5, <4>1, <4>2
    <3> QED
      BY <3>3, <3>5, <3>6, PowerDouble DEF Blocks
  <2> QED
    BY <2>1, <2>2, <2>3, OddOrDouble
<1> HIDE DEF S
<1>2. Nat \subseteq S
  BY <1>1, EveryNumberFromBelow
<1> QED
  BY <1>2 DEF S

\* Above a power of two and below its double the lowest bit is that of the rest.
LEMMA LowestBitBeside ==
  \A k \in Powers : \A m \in 1..(k - 1) : LowestBit(k + m) = LowestBit(m)
<1> DEFINE S == {k \in Nat : k \in Powers => \A m \in 1..(k - 1) : LowestBit(k + m) = LowestBit(m)}
<1>1. ASSUME NEW k \in Nat, \A i \in 0..(k - 1) : i \in S PROVE k \in S
  <2>1. SUFFICES ASSUME k \in Powers, NEW m \in 1..(k - 1) PROVE LowestBit(k + m) = LowestBit(m)
    OBVIOUS
  <2>2. PICK h \in Powers : k = 2 * h
    BY <2>1, PowerHalf
  <2>3. h \in Nat /\ h \in 0..(k - 1) /\ m \in Nat /\ m # 0
    BY <2>2 DEF Powers, IsPowerOfTwo
  <2>4. CASE m % 2 = 1
    <3>1. (k + m) % 2 = 1 /\ k + m \in Nat
      BY <2>2, <2>3, <2>4
    <3> QED
      BY <2>3, <2>4, <3>1, LowestBitOdd
  <2>5. ASSUME NEW x \in 1..(m - 1), m = 2 * x PROVE LowestBit(k + m) = LowestBit(m)
    <3>1. x \in 1..(h - 1) /\ k + m = 2 * (h + x)
      BY <2>2, <2>3, <2>5
    <3>2. LowestBit(h + x) = LowestBit(x)
      BY <1>1, <2>3, <3>1
    <3>3. x \in Nat /\ x # 0 /\ h + x \in Nat /\ h + x # 0
      BY <2>3, <3>1
    <3> QED
      BY <2>5, <3>1, <3>2, <3>3, LowestBitEven
  <2> QED
    BY <2>3, <2>4, <2>5, OddOrDouble
<1> HIDE DEF S
<1>2. Nat \subseteq S
  BY <1>1, EveryNumberFromBelow
<1>3. Powers \subseteq Nat
  BY DEF Powers
<1> QED
  BY <1>2, <1>3 DEF S

\* f gives the subproof for each beginning of a range of at most n leaves.
Subs(leaves, n, f) ==
  f = [place \in Subtrees(n) |->
         CASE place[1] = place[3] ->
                IF place[4] THEN <<>> ELSE <<Mth(leaves, place[2], place[2] + place[3])>>
           [] place[1] < place[3] /\ place[1] <= LargestPowerOfTwoBelow(place[3]) ->
                Append(f[<<place[1], place[2], LargestPowerOfTwoBelow(place[3]), place[4]>>],
                       Mth(leaves, place[2] + LargestPowerOfTwoBelow(place[3]),
                           place[2] + place[3]))
           [] OTHER ->
                Append(f[<<place[1] - LargestPowerOfTwoBelow(place[3]),
                           place[2] + LargestPowerOfTwoBelow(place[3]),
                           place[3] - LargestPowerOfTwoBelow(place[3]), FALSE>>],
                       Mth(leaves, place[2], place[2] + LargestPowerOfTwoBelow(place[3])))]

\* A beginning of a range, by its parts.
LEMMA SubtreeIs ==
  ASSUME NEW size \in Nat
  PROVE  /\ \A n \in 0..size, m \in Nat, a \in Nat, whole \in BOOLEAN :
              m \in 1..n => <<m, a, n, whole>> \in Subtrees(size)
         /\ \A place \in Subtrees(size) :
              \E n \in 0..size, m \in Nat, a \in Nat, whole \in BOOLEAN :
                m \in 1..n /\ place = <<m, a, n, whole>>
<1>1. ASSUME NEW n \in 0..size, NEW m \in Nat, NEW a \in Nat, NEW whole \in BOOLEAN, m \in 1..n
      PROVE  <<m, a, n, whole>> \in Subtrees(size)
  <2>1. PICK place : place = <<m, a, n, whole>>
    OBVIOUS
  <2>2. place \in Nat \X Nat \X (0..size) \X BOOLEAN /\ place[1] = m /\ place[3] = n
    BY <2>1
  <2>3. place \in Subtrees(size)
    BY <1>1, <2>2 DEF Subtrees
  <2> QED
    BY <2>1, <2>3
<1>2. ASSUME NEW place \in Subtrees(size)
      PROVE  \E n \in 0..size, m \in Nat, a \in Nat, whole \in BOOLEAN :
               m \in 1..n /\ place = <<m, a, n, whole>>
  <2>1. place \in Nat \X Nat \X (0..size) \X BOOLEAN /\ place[1] \in 1..place[3]
    BY DEF Subtrees
  <2>2. PICK m \in Nat, a \in Nat, n \in 0..size, whole \in BOOLEAN : place = <<m, a, n, whole>>
    BY <2>1
  <2>3. place[1] = m /\ place[3] = n
    BY <2>2
  <2> QED
    BY <2>1, <2>2, <2>3
<1> QED
  BY <1>1, <1>2

\* There are such subproofs for ranges of every size.
LEMMA SubsExist ==
  ASSUME NEW leaves
  PROVE  \A n \in Nat : \E f : Subs(leaves, n, f)
<1> DEFINE S == {n \in Nat : \E f : Subs(leaves, n, f)}
           Value(f, m, a, n, whole) ==
             CASE m = n -> IF whole THEN <<>> ELSE <<Mth(leaves, a, a + n)>>
               [] m < n /\ m <= LargestPowerOfTwoBelow(n) ->
                    Append(f[<<m, a, LargestPowerOfTwoBelow(n), whole>>],
                           Mth(leaves, a + LargestPowerOfTwoBelow(n), a + n))
               [] OTHER ->
                    Append(f[<<m - LargestPowerOfTwoBelow(n), a + LargestPowerOfTwoBelow(n),
                               n - LargestPowerOfTwoBelow(n), FALSE>>],
                           Mth(leaves, a, a + LargestPowerOfTwoBelow(n)))
           SameBelow(f, g, n) ==
             \A l \in 0..(n - 1), i \in Nat, b \in Nat, w \in BOOLEAN :
               i \in 1..l => f[<<i, b, l, w>>] = g[<<i, b, l, w>>]
<1>1. ASSUME NEW n \in Nat, NEW f, NEW g, NEW m \in 1..n, NEW a \in Nat, NEW whole \in BOOLEAN,
             SameBelow(f, g, n)
      PROVE  Value(f, m, a, n, whole) = Value(g, m, a, n, whole)
  <2>1. CASE m = n
    BY <2>1
  <2>2. CASE m # n
    <3>1. PICK k : k = LargestPowerOfTwoBelow(n)
      OBVIOUS
    <3>2. /\ m \in Nat /\ m < n /\ n > 1 /\ k \in Nat /\ n - k \in Nat
          /\ k \in 0..(n - 1) /\ n - k \in 0..(n - 1) /\ a + k \in Nat
      BY <2>2, <3>1, SplitBounds
    <3>3. CASE m <= k
      <4>1. m \in 1..k
        BY <3>2, <3>3
      <4>2. f[<<m, a, k, whole>>] = g[<<m, a, k, whole>>]
        BY <1>1, <3>2, <4>1
      <4> QED
        BY <2>2, <3>1, <3>2, <3>3, <4>2
    <3>4. CASE ~(m <= k)
      <4>1. m - k \in Nat /\ m - k \in 1..(n - k)
        BY <3>2, <3>4
      <4>2. f[<<m - k, a + k, n - k, FALSE>>] = g[<<m - k, a + k, n - k, FALSE>>]
        BY <1>1, <3>2, <4>1
      <4> QED
        BY <2>2, <3>1, <3>4, <4>2
    <3> QED
      BY <3>3, <3>4
  <2> QED
    BY <2>1, <2>2
<1>2. \A n, f : Subs(leaves, n, f)
                  <=> f = [place \in Subtrees(n) |-> Value(f, place[1], place[2], place[3], place[4])]
  BY DEF Subs
<1> HIDE DEF Value
<1>3. ASSUME NEW n \in Nat, \A m \in 0..(n - 1) : m \in S PROVE n \in S
  <2>1. PICK f : n > 0 => Subs(leaves, n - 1, f)
    BY <1>3
  <2>2. PICK g : g = [place \in Subtrees(n) |->
                        IF place[3] = n THEN Value(f, place[1], place[2], n, place[4])
                        ELSE f[place]]
    OBVIOUS
  <2>3. SameBelow(f, g, n)
    <3>1. SUFFICES ASSUME NEW l \in 0..(n - 1), NEW i \in Nat, NEW b \in Nat, NEW w \in BOOLEAN,
                          i \in 1..l
                   PROVE  f[<<i, b, l, w>>] = g[<<i, b, l, w>>]
      OBVIOUS
    <3>2. PICK place : place = <<i, b, l, w>>
      OBVIOUS
    <3>3. place \in Subtrees(n) /\ place[3] = l /\ l # n
      BY <3>1, <3>2, SubtreeIs
    <3> QED
      BY <2>2, <3>2, <3>3
  <2>4. ASSUME NEW place \in Subtrees(n)
        PROVE  g[place] = Value(g, place[1], place[2], place[3], place[4])
    <3>1. PICK r \in 0..n, m \in Nat, a \in Nat, whole \in BOOLEAN :
            m \in 1..r /\ place = <<m, a, r, whole>>
      BY SubtreeIs
    <3>2. place[1] = m /\ place[2] = a /\ place[3] = r /\ place[4] = whole /\ r \in Nat
      BY <3>1
    <3>3. SameBelow(f, g, r)
      <4>1. \A l \in 0..(r - 1) : l \in 0..(n - 1)
        BY <3>1
      <4> QED
        BY <2>3, <4>1
    <3>4. Value(f, m, a, r, whole) = Value(g, m, a, r, whole)
      <4> HIDE DEF SameBelow
      <4>1. r \in Nat /\ m \in 1..r
        BY <3>1, <3>2
      <4> QED
        BY <1>1, <3>3, <4>1, SMT
    <3>5. CASE r = n
      BY <2>2, <3>2, <3>4, <3>5
    <3>6. CASE r # n
      <4>1. n > 0 /\ r \in 0..(n - 1) /\ n - 1 \in Nat
        BY <3>1, <3>6
      <4>2. f[place] = Value(f, m, a, r, whole)
        <5>1. f = [at \in Subtrees(n - 1) |-> Value(f, at[1], at[2], at[3], at[4])]
          BY <1>2, <2>1, <4>1
        <5>2. place \in Subtrees(n - 1)
          BY <3>1, <4>1, SubtreeIs
        <5>3. f[place] = Value(f, place[1], place[2], place[3], place[4])
          BY <5>1, <5>2
        <5> QED
          BY <3>2, <5>3
      <4> QED
        BY <2>2, <3>2, <3>4, <3>6, <4>2
    <3> QED
      BY <3>5, <3>6
  <2>5. PICK h : h = [place \in Subtrees(n) |-> Value(g, place[1], place[2], place[3], place[4])]
    OBVIOUS
  <2>6. \A place \in Subtrees(n) : g[place] = h[place]
    BY <2>4, <2>5
  <2>7. g = h
    BY <2>2, <2>5, <2>6
  <2>8. Subs(leaves, n, g)
    BY <1>2, <2>5, <2>7
  <2> QED
    BY <2>8
<1> HIDE DEF S
<1>4. Nat \subseteq S
  BY <1>3, EveryNumberFromBelow
<1> QED
  BY <1>4 DEF S

\* Subproof is what they say of the whole tree.
LEMMA SubproofFrom ==
  ASSUME NEW leaves, Len(leaves) \in Nat
  PROVE  \E f : /\ Subs(leaves, Len(leaves), f)
                /\ \A m : Subproof(leaves, m) = f[<<m, 0, Len(leaves), TRUE>>]
<1> DEFINE sub ==
      CHOOSE f : f = [place \in Subtrees(Len(leaves)) |->
         CASE place[1] = place[3] ->
                IF place[4] THEN <<>> ELSE <<Mth(leaves, place[2], place[2] + place[3])>>
           [] place[1] < place[3] /\ place[1] <= LargestPowerOfTwoBelow(place[3]) ->
                Append(f[<<place[1], place[2], LargestPowerOfTwoBelow(place[3]), place[4]>>],
                       Mth(leaves, place[2] + LargestPowerOfTwoBelow(place[3]),
                           place[2] + place[3]))
           [] OTHER ->
                Append(f[<<place[1] - LargestPowerOfTwoBelow(place[3]),
                           place[2] + LargestPowerOfTwoBelow(place[3]),
                           place[3] - LargestPowerOfTwoBelow(place[3]), FALSE>>],
                       Mth(leaves, place[2], place[2] + LargestPowerOfTwoBelow(place[3])))]
<1>1. PICK f : Subs(leaves, Len(leaves), f)
  BY SubsExist
<1>2. Subs(leaves, Len(leaves), sub)
  BY <1>1 DEF Subs
<1>3. \A m : Subproof(leaves, m) = sub[<<m, 0, Len(leaves), TRUE>>]
  BY DEF Subproof
<1> QED
  BY <1>2, <1>3

\* The subproof for the first m of the range of n leaves that starts at a.
SubTo(f, m, a, n, whole) == f[<<m, a, n, whole>>]

\* What it is when they are all of the range, within its first k, and when they reach
\* into the rest.
SubAll(leaves, a, n, whole) == IF whole THEN <<>> ELSE <<Mth(leaves, a, a + n)>>

SubInFirst(leaves, f, m, a, n, k, whole) ==
  Append(SubTo(f, m, a, k, whole), Mth(leaves, a + k, a + n))

SubInRest(leaves, f, m, a, n, k) ==
  Append(SubTo(f, m - k, a + k, n - k, FALSE), Mth(leaves, a, a + k))

\* The three cases of a subproof.
LEMMA SubIs ==
  ASSUME NEW leaves, Len(leaves) \in Nat, NEW f, Subs(leaves, Len(leaves), f),
         NEW n \in 0..Len(leaves), NEW m \in 1..n, NEW a \in Nat, NEW whole \in BOOLEAN,
         NEW k, k = LargestPowerOfTwoBelow(n)
  PROVE  /\ m = n => SubTo(f, m, a, n, whole) = SubAll(leaves, a, n, whole)
         /\ m # n /\ m <= k => SubTo(f, m, a, n, whole) = SubInFirst(leaves, f, m, a, n, k, whole)
         /\ m # n /\ ~(m <= k) => SubTo(f, m, a, n, whole) = SubInRest(leaves, f, m, a, n, k)
<1>1. PICK place : place = <<m, a, n, whole>>
  OBVIOUS
<1>2. /\ place \in Subtrees(Len(leaves)) /\ m \in Nat /\ (m # n => m < n)
      /\ place[1] = m /\ place[2] = a /\ place[3] = n /\ place[4] = whole
  BY <1>1, SubtreeIs
<1>3. f[place] =
        CASE m = n -> IF whole THEN <<>> ELSE <<Mth(leaves, a, a + n)>>
          [] m < n /\ m <= k -> Append(f[<<m, a, k, whole>>], Mth(leaves, a + k, a + n))
          [] OTHER -> Append(f[<<m - k, a + k, n - k, FALSE>>], Mth(leaves, a, a + k))
  BY <1>2 DEF Subs
<1>4. CASE m = n
  BY <1>1, <1>3, <1>4 DEF SubTo, SubAll
<1>5. CASE m # n /\ m <= k
  <2>1. f[place] = Append(f[<<m, a, k, whole>>], Mth(leaves, a + k, a + n))
    BY <1>2, <1>3, <1>5
  <2> QED
    BY <1>1, <1>5, <2>1 DEF SubTo, SubInFirst
<1>6. CASE m # n /\ ~(m <= k)
  <2>1. f[place] = Append(f[<<m - k, a + k, n - k, FALSE>>], Mth(leaves, a, a + k))
    BY <1>3, <1>6
  <2> QED
    BY <1>1, <1>6, <2>1 DEF SubTo, SubInRest
<1> QED
  BY <1>4, <1>5, <1>6

\* What is left of a subproof after the node it may begin with.
AfterFirst(sub, own) == IF own THEN sub ELSE Tail(sub)

\* What is left after the first of a longer path.
LEMMA AppendTail ==
  ASSUME NEW s, IsSeq(s), s # <<>>, NEW x
  PROVE  /\ Tail(Append(s, x)) = Append(Tail(s), x)
         /\ IsSeq(Tail(s)) /\ Append(s, x) # <<>> /\ Append(s, x)[1] = s[1]
<1>1. PICK S : s \in Seq(S)
  BY DEF IsSeq
<1>2. PICK T : T = S \cup {x}
  OBVIOUS
<1>3. s \in Seq(T) /\ x \in T
  BY <1>1, <1>2
<1>4. PICK l \in Nat : l + 1 = Len(s)
  <2>1. Len(s) \in Nat /\ Len(s) # 0
    BY <1>3
  <2>2. Len(s) - 1 \in Nat /\ (Len(s) - 1) + 1 = Len(s)
    BY <2>1
  <2> QED
    BY <2>2
<1>5. PICK more, rest, left, right :
        /\ more = Append(s, x) /\ rest = Tail(s) /\ left = Tail(more) /\ right = Append(rest, x)
  OBVIOUS
<1>6. /\ more \in Seq(T) /\ Len(more) = l + 2 /\ more[l + 2] = x
      /\ \A i \in 1..(l + 1) : more[i] = s[i]
  BY <1>3, <1>4, <1>5
<1>7. rest \in Seq(T) /\ Len(rest) = l /\ \A i \in 1..l : rest[i] = s[i + 1]
  BY <1>3, <1>4, <1>5
<1>8. left \in Seq(T) /\ Len(left) = l + 1 /\ \A i \in 1..(l + 1) : left[i] = more[i + 1]
  BY <1>5, <1>6
<1>9. /\ right \in Seq(T) /\ Len(right) = l + 1 /\ right[l + 1] = x
      /\ \A i \in 1..l : right[i] = rest[i]
  BY <1>3, <1>5, <1>7
<1>10. ASSUME NEW i \in 1..(l + 1) PROVE left[i] = right[i]
  <2>1. CASE i = l + 1
    BY <1>6, <1>8, <1>9, <2>1
  <2>2. CASE i # l + 1
    <3>1. i \in 1..l /\ i + 1 \in 1..(l + 1)
      BY <2>2
    <3> QED
      BY <1>6, <1>7, <1>8, <1>9, <3>1
  <2> QED
    BY <2>1, <2>2
<1>11. left = right
  BY <1>8, <1>9, <1>10
<1>12. more # <<>> /\ more[1] = s[1]
  BY <1>6
<1> QED
  BY <1>5, <1>7, <1>11, <1>12 DEF IsSeq

\* The verifier holds the root of the first m itself.
Own(m, whole) == whole /\ IsPowerOfTwo(m)

\* A subproof is the end of the path from the last leaf asked about: what that leaf's
\* own block, as large as a power of two divides their number, has a root for comes
\* before it, and unless the verifier holds that root the subproof begins with it.
SubWalks(leaves, f, g, m, a, n, whole, at) ==
  LET c   == LowestBit(m)
      own == Own(m, whole)
      sub == SubTo(g, m, a, n, whole)
  IN  /\ IsSeq(sub)
      /\ ~own => sub # <<>> /\ sub[1] = Mth(leaves, a + m - c, a + m)
      /\ Walk(at, PathTo(f, m - 1, a, n))
           = Walk(Walk(at, PathTo(f, c - 1, a + m - c, c)), AfterFirst(sub, own))

\* A subproof of all the leaves of a range.
LEMMA SubWalksAll ==
  ASSUME NEW leaves, Len(leaves) \in Nat, NEW f, NEW g, Subs(leaves, Len(leaves), g),
         NEW m \in Powers, m \in 0..Len(leaves), NEW a \in Nat, NEW whole \in BOOLEAN, NEW at
  PROVE  SubWalks(leaves, f, g, m, a, m, whole, at)
<1>1. m \in Nat /\ m \in 1..m /\ LowestBit(m) = m /\ IsPowerOfTwo(m) /\ a + m - m = a
  BY DEF Powers, IsPowerOfTwo
<1>2. PICK sub : sub = SubTo(g, m, a, m, whole)
  OBVIOUS
<1>3. sub = IF whole THEN <<>> ELSE <<Mth(leaves, a, a + m)>>
  BY <1>1, <1>2, SubIs DEF SubAll
<1>4. PICK x : x = Mth(leaves, a, a + m)
  OBVIOUS
<1>5. IsSeq(sub) /\ AfterFirst(sub, whole) = <<>>
  <2>1. <<>> \in Seq({x}) /\ <<x>> \in Seq({x}) /\ Tail(<<x>>) = <<>>
    OBVIOUS
  <2> QED
    BY <1>3, <1>4, <2>1 DEF IsSeq, AfterFirst
<1>6. ~whole => sub # <<>> /\ sub[1] = x
  BY <1>3, <1>4
<1>7. PICK w : w = Walk(at, PathTo(f, m - 1, a, m))
  OBVIOUS
<1>8. Walk(w, AfterFirst(sub, whole)) = w
  BY <1>5, WalkEmpty
<1> QED
  BY <1>1, <1>2, <1>4, <1>5, <1>6, <1>7, <1>8 DEF SubWalks, Own

\* Beginnings that end within the first half, and within the second.
LEMMA SubWalksFirst ==
  ASSUME NEW leaves, Len(leaves) \in Nat, NEW f, Paths(leaves, Len(leaves), f),
         NEW g, Subs(leaves, Len(leaves), g),
         NEW n \in 0..Len(leaves), NEW m \in 1..(n - 1), NEW a \in Nat, NEW whole \in BOOLEAN,
         NEW at, NEW k \in Nat, k = LargestPowerOfTwoBelow(n), m <= k,
         SubWalks(leaves, f, g, m, a, k, whole, at)
  PROVE  SubWalks(leaves, f, g, m, a, n, whole, at)
<1>1. /\ m - 1 \in Nat /\ m - 1 < k /\ m \in 1..n /\ m # n /\ n > 1 /\ n \in Nat
      /\ k \in 0..Len(leaves)
  <2>1. n \in Nat /\ n > 1
    OBVIOUS
  <2>2. k \in 1..(n - 1)
    BY <2>1, SplitBounds
  <2> QED
    BY <2>1, <2>2
<1>2. PICK x, p, s, own, block :
        /\ x = Mth(leaves, a + k, a + n) /\ p = PathTo(f, m - 1, a, k)
        /\ s = SubTo(g, m, a, k, whole) /\ own = Own(m, whole)
        /\ block = Walk(at, PathTo(f, LowestBit(m) - 1, a + m - LowestBit(m), LowestBit(m)))
  OBVIOUS
<1>3. PathTo(f, m - 1, a, n) = Append(p, x) /\ IsSeq(p)
  <2>1. PathTo(f, m - 1, a, n) = PathInFirst(leaves, f, m - 1, a, n, k)
    BY <1>1, PathIs
  <2>2. IsSeq(PathTo(f, m - 1, a, k))
    BY <1>1, PathIsSeq
  <2> QED
    BY <1>2, <2>1, <2>2 DEF PathInFirst
<1>4. SubTo(g, m, a, n, whole) = Append(s, x)
  <2>1. SubTo(g, m, a, n, whole) = SubInFirst(leaves, g, m, a, n, k, whole)
    BY <1>1, SubIs
  <2> QED
    BY <1>2, <2>1 DEF SubInFirst
<1>5. /\ IsSeq(s) /\ (~own => s # <<>> /\ s[1] = Mth(leaves, a + m - LowestBit(m), a + m))
      /\ Walk(at, p) = Walk(block, AfterFirst(s, own))
  BY <1>2, SMT DEF SubWalks
<1>6. IsSeq(Append(s, x))
  BY <1>5, AppendIsSeq
<1>7. /\ AfterFirst(Append(s, x), own) = Append(AfterFirst(s, own), x)
      /\ IsSeq(AfterFirst(s, own))
      /\ ~own => Append(s, x) # <<>> /\ Append(s, x)[1] = s[1]
  BY <1>5, AppendTail DEF AfterFirst
<1>8. Walk(at, Append(p, x)) = Walk(block, AfterFirst(Append(s, x), own))
  <2>1. Walk(at, Append(p, x)) = Absorb(Walk(at, p), x)
    BY <1>3, WalkAppend
  <2>2. Walk(block, Append(AfterFirst(s, own), x)) = Absorb(Walk(block, AfterFirst(s, own)), x)
    BY <1>7, WalkAppend
  <2> QED
    BY <1>5, <1>7, <2>1, <2>2
<1>9. ~own => Append(s, x)[1] = Mth(leaves, a + m - LowestBit(m), a + m)
  BY <1>5, <1>7
<1> QED
  BY <1>2, <1>3, <1>4, <1>6, <1>7, <1>8, <1>9, Zenon DEF SubWalks

\* Numbers that go past the first k of a range that k splits.
LEMMA RestOfRange ==
  ASSUME NEW n \in Nat, NEW m \in Nat, NEW k \in Nat, NEW a \in Nat, k < m, m < n, n <= 2 * k
  PROVE  /\ m - k \in 1..(k - 1) /\ (m - k) - 1 = (m - 1) - k /\ (m - 1) - k \in Nat
         /\ (a + k) + (m - k) = a + m /\ k + (m - k) = m /\ m < 2 * k
OBVIOUS

\* The walk along a subproof whose leaves end in the second part of a range.
LEMMA SubWalksRest ==
  ASSUME NEW leaves, Len(leaves) \in Nat, NEW f, Paths(leaves, Len(leaves), f),
         NEW g, Subs(leaves, Len(leaves), g),
         NEW n \in 0..Len(leaves), NEW m \in 1..(n - 1), NEW a \in Nat, NEW whole \in BOOLEAN,
         NEW at, NEW k \in Nat, k = LargestPowerOfTwoBelow(n), ~(m <= k),
         SubWalks(leaves, f, g, m - k, a + k, n - k, FALSE, at)
  PROVE  SubWalks(leaves, f, g, m, a, n, whole, at)
<1>1. n \in Nat /\ n > 1 /\ m \in Nat /\ m \in 1..n /\ m # n /\ m - 1 \in Nat /\ ~(m - 1 < k)
  OBVIOUS
<1>2. k \in 1..(n - 1) /\ n - k <= k /\ k \in Powers
  BY <1>1, SplitBounds, SplitIs DEF Splits
<1>3. PICK i \in Nat, b \in Nat, l \in Nat, h \in Nat :
        i = m - k /\ b = a + k /\ l = n - k /\ h = m - 1
  BY <1>1, <1>2
<1>4. /\ i \in 1..(k - 1) /\ l \in 0..Len(leaves) /\ i - 1 = h - k /\ h - k \in Nat
      /\ b + i = a + m /\ k + i = m /\ k < m /\ m < 2 * k
  <2>1. k < m /\ m < n /\ n <= 2 * k
    BY <1>1, <1>2
  <2>2. n \in Nat /\ m \in Nat
    BY <1>1
  <2>3. /\ m - k \in 1..(k - 1) /\ (m - k) - 1 = (m - 1) - k /\ (m - 1) - k \in Nat
        /\ (a + k) + (m - k) = a + m /\ k + (m - k) = m /\ m < 2 * k
    BY <2>1, <2>2, RestOfRange
  <2>4. l \in 0..Len(leaves)
    BY <1>3, <2>1
  <2> QED
    BY <1>3, <2>1, <2>3, <2>4
<1>5. PICK c \in Nat : c = LowestBit(m)
  BY <1>1, LowestBitPositive
<1>6. LowestBit(i) = c
  BY <1>2, <1>4, <1>5, LowestBitBeside
<1>7. ~IsPowerOfTwo(m)
  <2>1. m \notin Powers
    <3>1. m \in Powers => 2 * k <= m
      BY <1>2, <1>4, PowersApart
    <3> QED
      BY <1>1, <1>4, <3>1
  <2> QED
    BY <1>1, <2>1 DEF Powers
<1>8. PICK x, p, s, block :
        /\ x = Mth(leaves, a, a + k) /\ p = PathTo(f, h - k, b, l)
        /\ s = SubTo(g, i, b, l, FALSE)
        /\ block = Walk(at, PathTo(f, c - 1, a + m - c, c))
  OBVIOUS
<1>9. PathTo(f, h, a, n) = Append(p, x) /\ IsSeq(p)
  <2>1. PathTo(f, h, a, n) = PathInRest(leaves, f, h, a, n, k)
    BY <1>1, <1>3, PathIs
  <2>2. IsSeq(PathTo(f, h - k, b, l))
    BY <1>4, PathIsSeq
  <2> QED
    BY <1>3, <1>8, <2>1, <2>2 DEF PathInRest
<1>10. SubTo(g, m, a, n, whole) = Append(s, x)
  <2>1. SubTo(g, m, a, n, whole) = SubInRest(leaves, g, m, a, n, k)
    BY <1>1, SubIs
  <2> QED
    BY <1>3, <1>8, <2>1 DEF SubInRest
<1>16. PICK rest : rest = AfterFirst(s, FALSE)
  OBVIOUS
<1>11. /\ IsSeq(s) /\ s # <<>> /\ s[1] = Mth(leaves, a + m - c, a + m)
       /\ Walk(at, p) = Walk(block, rest)
  <2>1. ~Own(i, FALSE) /\ AfterFirst(s, Own(i, FALSE)) = rest
    BY <1>16 DEF Own, AfterFirst
  <2>2. SubWalks(leaves, f, g, i, b, l, FALSE, at)
    BY <1>3
  <2>3. /\ IsSeq(s) /\ s # <<>> /\ s[1] = Mth(leaves, b + i - c, b + i)
        /\ Walk(at, PathTo(f, i - 1, b, l))
             = Walk(Walk(at, PathTo(f, c - 1, b + i - c, c)), rest)
    BY <1>6, <1>8, <2>1, <2>2, Zenon DEF SubWalks
  <2>4. b + i - c = a + m - c
    BY <1>4
  <2> QED
    BY <1>4, <1>8, <2>3, <2>4
<1>12. IsSeq(Append(s, x))
  BY <1>11, AppendIsSeq
<1>13. /\ AfterFirst(Append(s, x), FALSE) = Append(rest, x)
       /\ IsSeq(rest)
       /\ Append(s, x) # <<>> /\ Append(s, x)[1] = s[1]
  BY <1>11, <1>16, AppendTail DEF AfterFirst
<1>14. Walk(at, Append(p, x)) = Walk(block, AfterFirst(Append(s, x), FALSE))
  <2>1. Walk(at, Append(p, x)) = Absorb(Walk(at, p), x)
    BY <1>9, WalkAppend
  <2>2. Walk(block, Append(rest, x)) = Absorb(Walk(block, rest), x)
    BY <1>13, WalkAppend
  <2> QED
    BY <1>11, <1>13, <2>1, <2>2
<1>15. /\ ~Own(m, whole)
       /\ AfterFirst(Append(s, x), Own(m, whole)) = AfterFirst(Append(s, x), FALSE)
  BY <1>7 DEF Own, AfterFirst
<1> QED
  BY <1>3, <1>5, <1>8, <1>9, <1>10, <1>11, <1>12, <1>13, <1>14, <1>15, Zenon DEF SubWalks

\* Wherever the beginning ends: one that is all of its range has a power of two of leaves.
LEMMA SubWalksEverywhere ==
  ASSUME NEW leaves, Len(leaves) \in Nat, NEW f, Paths(leaves, Len(leaves), f),
         NEW g, Subs(leaves, Len(leaves), g)
  PROVE  \A n \in 0..Len(leaves), m \in Nat, a \in Nat, whole \in BOOLEAN : \A at :
           m \in 1..n /\ (m = n => m \in Powers) => SubWalks(leaves, f, g, m, a, n, whole, at)
<1> DEFINE S == {n \in Nat : n <= Len(leaves) =>
                   \A m \in Nat, a \in Nat, whole \in BOOLEAN : \A at :
                     m \in 1..n /\ (m = n => m \in Powers)
                       => SubWalks(leaves, f, g, m, a, n, whole, at)}
<1>1. ASSUME NEW n \in Nat, \A l \in 0..(n - 1) : l \in S PROVE n \in S
  <2>1. SUFFICES ASSUME n <= Len(leaves), NEW m \in Nat, NEW a \in Nat, NEW whole \in BOOLEAN,
                        NEW at, m \in 1..n, m = n => m \in Powers
                 PROVE  SubWalks(leaves, f, g, m, a, n, whole, at)
    OBVIOUS
  <2>2. n \in 0..Len(leaves)
    BY <2>1
  <2>3. CASE m = n
    BY <2>1, <2>2, <2>3, SubWalksAll
  <2>4. CASE m # n
    <3>1. m \in 1..(n - 1) /\ n > 1
      BY <2>1, <2>4
    <3>2. PICK k \in Nat : k = LargestPowerOfTwoBelow(n)
      BY <3>1, SplitBounds
    <3>3. k \in 1..(n - 1) /\ n - k \in 1..(n - 1) /\ k \in Powers
      BY <3>1, <3>2, SplitBounds, SplitIs DEF Splits
    <3>4. CASE m <= k
      <4>1. k \in 0..(n - 1) /\ k <= Len(leaves) /\ m \in 1..k
        BY <2>1, <3>1, <3>3, <3>4
      <4>2. SubWalks(leaves, f, g, m, a, k, whole, at)
        BY <1>1, <3>3, <4>1
      <4> QED
        BY <2>2, <3>1, <3>2, <3>4, <4>2, SubWalksFirst
    <3>5. CASE ~(m <= k)
      <4>1. PICK l \in Nat, i \in Nat, b \in Nat : l = n - k /\ i = m - k /\ b = a + k
        BY <3>1, <3>3, <3>5
      <4>2. l \in 0..(n - 1) /\ l <= Len(leaves) /\ i \in 1..l /\ i # l
        BY <2>1, <3>1, <3>3, <3>5, <4>1
      <4>3. SubWalks(leaves, f, g, i, b, l, FALSE, at)
        BY <1>1, <4>2
      <4> QED
        BY <2>2, <3>1, <3>2, <3>5, <4>1, <4>3, SubWalksRest
    <3> QED
      BY <3>4, <3>5
  <2> QED
    BY <2>3, <2>4
<1> HIDE DEF S
<1>2. Nat \subseteq S
  BY <1>1, EveryNumberFromBelow
<1>3. \A n \in 0..Len(leaves) : n \in Nat /\ n <= Len(leaves)
  OBVIOUS
<1> QED
  BY <1>2, <1>3 DEF S

-----------------------------------------------------------------------------
(* What a consistency proof shows *)

\* l comes in a block of c numbers after the one that q such blocks precede.
InLaterBlock(l, c, q) ==
  \E s \in Nat, t \in 0..(c - 1) : l = s * c + t /\ q < s /\ l \div c = s

\* Numbers in blocks of c: the last of a block, and a later number.
LEMMA BlocksBelow ==
  ASSUME NEW c \in Nat, c > 0, NEW q \in Nat, NEW b \in Nat, b = q * c,
         NEW l \in Nat, l >= b + c
  PROVE  /\ (b + (c - 1)) \div c = q
         /\ InLaterBlock(l, c, q)
<1>1. c - 1 \in 0..(c - 1)
  OBVIOUS
<1>2. (q * c + (c - 1)) \div c = q
  BY <1>1, QuotientIs
<1>3. PICK s \in Nat : s = l \div c
  BY QuotientNat
<1>4. s * c <= l /\ l < s * c + c
  BY <1>3
<1>5. s * c \in Nat /\ q * c \in Nat
  OBVIOUS
<1>6. l - s * c \in 0..(c - 1) /\ l = s * c + (l - s * c)
  BY <1>4, <1>5
<1>7. q < s
  <2>1. SUFFICES ASSUME ~(q < s) PROVE FALSE
    OBVIOUS
  <2>2. PICK z \in Nat : q = s + z
    <3>1. q - s \in Nat
      BY <2>1
    <3> QED
      BY <3>1
  <2>3. q * c = s * c + z * c /\ z * c \in Nat
    BY <2>2
  <2> QED
    BY <1>4, <1>5, <2>3
<1> QED
  BY <1>2, <1>3, <1>6, <1>7 DEF InLaterBlock

\* A place in the tree with one hash on both sides is where a walk may start.
LEMMA StandsIsAt ==
  ASSUME NEW at, NEW fn, NEW sn, NEW hash, Stands(at, fn, sn, hash, hash)
  PROVE  at = At(fn, sn, hash)
<1>1. at.tooLong = FALSE
  BY DEF Stands, Climbing
<1> QED
  BY <1>1 DEF Stands, Climbing, At

\* The climb along the end of the path, from the block that the first m leaves end with,
\* comes to the root, and on its left to the root of the first m.
LEMMA ConsistencyWalk ==
  ASSUME NEW leaves, Len(leaves) \in Nat, NEW m \in 1..(Len(leaves) - 1),
         NEW c, c = LowestBit(m), NEW p, p = Subproof(leaves, m),
         NEW own, own = IsPowerOfTwo(m)
  PROVE  /\ (m - 1) \div c \in Nat /\ (Len(leaves) - 1) \div c \in Nat
         /\ IsSeq(p)
         /\ ~own => p # <<>> /\ p[1] = Mth(leaves, m - c, m)
         /\ own => m = c
         /\ Stands(Walk(At((m - 1) \div c, (Len(leaves) - 1) \div c, Mth(leaves, m - c, m)),
                        AfterFirst(p, own)),
                   0, 0, Root(leaves), Mth(leaves, 0, m))
<1>1. PICK f : /\ Paths(leaves, Len(leaves), f)
               /\ \A i : InclusionPath(leaves, i) = f[<<i, 0, Len(leaves)>>]
  BY InclusionPathFrom
<1>2. PICK g : /\ Subs(leaves, Len(leaves), g)
               /\ \A i : Subproof(leaves, i) = g[<<i, 0, Len(leaves), TRUE>>]
  BY SubproofFrom
<1>3. PICK n \in Nat, l \in Nat, h \in Nat : n = Len(leaves) /\ l = n - 1 /\ h = m - 1
  <2>1. Len(leaves) - 1 \in Nat /\ m - 1 \in Nat
    OBVIOUS
  <2> QED
    BY <2>1
<1>4. m \in Nat /\ m # 0 /\ m \in 1..n /\ m # n /\ l >= m /\ h \in 0..l /\ h + 1 = m /\ h # l
  BY <1>3
<1>5. c \in Powers /\ Blocks(m, c)
  BY <1>4, LowestBitDivides
<1>6. c \in Nat /\ c > 0
  BY <1>5 DEF Powers, IsPowerOfTwo
<1>7. PICK q \in Nat, b \in Nat : b = q * c /\ m = b + c
  BY <1>5, <1>6 DEF Blocks
<1>8. l >= b + c
  BY <1>4, <1>7
<1>9. m - c = b /\ h = b + (c - 1) /\ c - 1 \in Nat /\ b + (c - 1) + 1 = m /\ c - 1 < c
  <2>1. m = b + c /\ h + 1 = m
    BY <1>4, <1>7
  <2> QED
    BY <1>6, <2>1
<1>10. PICK s \in Nat, t \in 0..(c - 1) : l = s * c + t /\ q < s /\ l \div c = s
  <2>1. b = q * c
    BY <1>7
  <2>2. InLaterBlock(l, c, q)
    BY <1>6, <1>8, <2>1, BlocksBelow
  <2> QED
    BY <2>2 DEF InLaterBlock
<1>11. h \div c = q
  <2>1. b = q * c
    BY <1>7
  <2>2. (b + (c - 1)) \div c = q
    BY <1>6, <1>8, <2>1, BlocksBelow
  <2> QED
    BY <1>9, <2>2
<1>12. PICK at : at = At(h, l, leaves[m])
  OBVIOUS
<1>13. Stands(at, h, l, leaves[m], leaves[m])
  BY <1>12, AtIs
<1>14. PICK w : w = Walk(at, PathTo(f, c - 1, b, c))
  OBVIOUS
<1>15. Stands(w, q, s, Mth(leaves, b, m), Mth(leaves, b, m))
  <2>1. c <= Len(leaves)
    BY <1>3, <1>4, <1>6, <1>9
  <2>2. WalksFull(leaves, f, c)
    BY <1>1, <1>5, <2>1, FullRangeWalk
  <2>3. b + (c - 1) + 1 = m /\ b + c = m /\ h = q * c + (c - 1) /\ l = s * c + t
    BY <1>7, <1>9, <1>10, Zenon
  <2>4. Stands(at, q * c + (c - 1), s * c + t, leaves[b + (c - 1) + 1], leaves[b + (c - 1) + 1])
    BY <1>13, <2>3
  <2>7. t \in 0..(c - 1) /\ q < s
    BY <1>10
  <2>5. c - 1 < c /\ t \in Nat /\ t < c /\ q <= s /\ q # s
    BY <1>6, <2>7
  <2>6. Stands(Walk(at, PathTo(f, c - 1, b, c)), q, s, Mth(leaves, b, b + c),
               Mth(leaves, b, b + (c - 1) + 1))
    BY <1>9, <2>2, <2>4, <2>5 DEF WalksFull
  <2> QED
    BY <1>9, <1>14, <2>3, <2>6
<1>16. w = At(q, s, Mth(leaves, b, m))
  BY <1>15, StandsIsAt
<1>17. p = SubTo(g, m, 0, n, TRUE) /\ InclusionPath(leaves, h) = PathTo(f, h, 0, n)
  BY <1>1, <1>2, <1>3 DEF SubTo, PathTo
<1>18. SubWalks(leaves, f, g, m, 0, n, TRUE, at)
  <2>1. n \in 0..Len(leaves) /\ 0 \in Nat /\ TRUE \in BOOLEAN
    BY <1>3
  <2> QED
    BY <1>1, <1>2, <1>4, <2>1, SubWalksEverywhere
<1>19. /\ IsSeq(p) /\ (~own => p # <<>> /\ p[1] = Mth(leaves, 0 + m - c, 0 + m))
       /\ Walk(at, PathTo(f, m - 1, 0, n))
            = Walk(Walk(at, PathTo(f, c - 1, 0 + m - c, c)), AfterFirst(p, own))
  <2>1. /\ own <=> Own(m, TRUE)
        /\ AfterFirst(p, own) = AfterFirst(p, Own(m, TRUE))
    BY DEF Own, AfterFirst
  <2>2. /\ IsSeq(p) /\ (~own => p # <<>> /\ p[1] = Mth(leaves, 0 + m - c, 0 + m))
        /\ Walk(at, PathTo(f, m - 1, 0, n))
            = Walk(Walk(at, PathTo(f, c - 1, 0 + m - c, c)), AfterFirst(p, Own(m, TRUE)))
    BY <1>17, <1>18, <2>1, Zenon DEF SubWalks
  <2> QED
    BY <2>1, <2>2
<1>20. 0 + m - c = b /\ 0 + m = m /\ m - 1 = h
  BY <1>3, <1>9
<1>21. Walk(at, InclusionPath(leaves, h)) = Walk(w, AfterFirst(p, own))
  BY <1>14, <1>17, <1>19, <1>20
<1>22. Stands(Walk(at, InclusionPath(leaves, h)), 0, 0, Root(leaves), Mth(leaves, 0, m))
  <2>1. h \in 0..(Len(leaves) - 1) /\ Len(leaves) - 1 = l
    BY <1>3, <1>4
  <2>2. Stands(at, h, Len(leaves) - 1, leaves[h + 1], leaves[h + 1])
    BY <1>4, <1>13, <2>1
  <2> QED
    BY <1>4, <2>1, <2>2, HonestWalk
<1>23. own => m = c
  BY DEF IsPowerOfTwo
<1>24. (m - 1) \div c = q /\ (Len(leaves) - 1) \div c = s /\ m - c = b
  BY <1>3, <1>9, <1>10, <1>11
<1>25. ~own => p # <<>> /\ p[1] = Mth(leaves, m - c, m)
  BY <1>19, <1>20, <1>24
<1> QED
  BY <1>16, <1>19, <1>21, <1>22, <1>23, <1>24, <1>25

\* The verdict on an extension is that the climb ends at both roots.
LEMMA ExtensionIs ==
  ASSUME NEW proof, NEW first, NEW second
  PROVE  VerifyExtension(proof, first, second) = "valid" <=>
           /\ IsPowerOfTwo(proof.firstSize) \/ proof.path # <<>>
           /\ AtRoot(Reconstructed(proof, first))
           /\ Reconstructed(proof, first).old = first
           /\ Reconstructed(proof, first).hash = second
<1>1. PICK end : end = Reconstructed(proof, first)
  OBVIOUS
<1>2. PICK own : own = IsPowerOfTwo(proof.firstSize)
  OBVIOUS
<1>3. VerifyExtension(proof, first, second)
        = IF ~own /\ proof.path = <<>> THEN "proof empty"
          ELSE CASE end.tooLong              -> "proof too long"
                 [] ~end.tooLong /\ end.sn # 0 -> "proof too short"
                 [] ~end.tooLong /\ end.sn = 0 ->
                      IF end.old # first THEN "other first root"
                      ELSE IF end.hash # second THEN "other second root" ELSE "valid"
  BY <1>1, <1>2 DEF VerifyExtension, Reconstructed
<1>4. own <=> IsPowerOfTwo(proof.firstSize)
  BY <1>2
<1>5. CASE ~own /\ proof.path = <<>>
  BY <1>3, <1>4, <1>5
<1>6. CASE own \/ proof.path # <<>>
  <2>1. VerifyExtension(proof, first, second)
        = CASE end.tooLong              -> "proof too long"
            [] ~end.tooLong /\ end.sn # 0 -> "proof too short"
            [] ~end.tooLong /\ end.sn = 0 ->
                 IF end.old # first THEN "other first root"
                 ELSE IF end.hash # second THEN "other second root" ELSE "valid"
    BY <1>3, <1>6
  <2>2. VerifyExtension(proof, first, second) = "valid"
          <=> ~end.tooLong /\ end.sn = 0 /\ end.old = first /\ end.hash = second
    BY <2>1
  <2> QED
    BY <1>1, <1>4, <1>6, <2>2 DEF AtRoot
<1> QED
  BY <1>5, <1>6

\* Between two sizes of one tree the verdict is that of an extension.
LEMMA BetweenSizes ==
  ASSUME NEW leaves, Len(leaves) \in Nat, NEW m \in 1..(Len(leaves) - 1),
         NEW first, NEW second
  PROVE  LET proof == ConsistencyProof(leaves, m)
         IN  /\ proof.firstSize = m /\ proof.secondSize = Len(leaves)
             /\ proof.path = Subproof(leaves, m)
             /\ VerifyConsistency(proof, first, second) = VerifyExtension(proof, first, second)
<1>1. PICK proof : proof = ConsistencyProof(leaves, m)
  OBVIOUS
<1>2. PICK n \in Nat : n = Len(leaves)
  OBVIOUS
<1>3. m \in Nat /\ 0 < m /\ m < n
  BY <1>2
<1>4. proof.firstSize = m /\ proof.secondSize = n /\ proof.path = Subproof(leaves, m)
  BY <1>1, <1>2, <1>3 DEF ConsistencyProof
<1>5. ~(m > n) /\ m # n /\ m # 0
  BY <1>3
<1>6. VerifyConsistency(proof, first, second) = VerifyExtension(proof, first, second)
  BY <1>4, <1>5 DEF VerifyConsistency
<1> QED
  BY <1>1, <1>2, <1>4, <1>6

\* The proof from the first m leaves to all is accepted between their roots, from the
\* first for no other second, and to the second for no other first.
LEMMA ConsistencyJudged ==
  ASSUME NEW leaves, Len(leaves) \in Nat, NEW m \in 1..(Len(leaves) - 1)
  PROVE  /\ \A second : VerifyConsistency(ConsistencyProof(leaves, m), Mth(leaves, 0, m), second)
                          = "valid" <=> second = Root(leaves)
         /\ \A first : VerifyConsistency(ConsistencyProof(leaves, m), first, Root(leaves))
                         = "valid" => first = Mth(leaves, 0, m)
<1>1. PICK proof : proof = ConsistencyProof(leaves, m)
  OBVIOUS
<1>2. PICK c, p : c = LowestBit(m) /\ p = Subproof(leaves, m)
  OBVIOUS
<1>3. PICK own : own = IsPowerOfTwo(m)
  OBVIOUS
<1>4. PICK q \in Nat, s \in Nat : q = (m - 1) \div c /\ s = (Len(leaves) - 1) \div c
  BY <1>2, <1>3, ConsistencyWalk
<1>5. PICK block, mine : block = Mth(leaves, m - c, m) /\ mine = Mth(leaves, 0, m)
  OBVIOUS
<1>6. PICK rest : rest = AfterFirst(p, own)
  OBVIOUS
<1>7. /\ IsSeq(p) /\ (~own => p # <<>> /\ p[1] = block) /\ (own => m = c)
      /\ Stands(Walk(At(q, s, block), rest), 0, 0, Root(leaves), mine)
  BY <1>2, <1>3, <1>4, <1>5, <1>6, ConsistencyWalk
<1>8. own => block = mine
  <2>1. m \in Nat
    OBVIOUS
  <2>2. m - m = 0
    BY <2>1
  <2> QED
    BY <1>5, <1>7, <2>2
<1>9. \A first, second :
        VerifyConsistency(proof, first, second) = VerifyExtension(proof, first, second)
  BY <1>1, BetweenSizes
<1>10. proof.firstSize = m /\ proof.secondSize = Len(leaves) /\ proof.path = p
  BY <1>1, <1>2, BetweenSizes
<1>11. ASSUME NEW first
       PROVE  Reconstructed(proof, first) = Walk(At(q, s, IF own THEN first ELSE block), rest)
  <2>1. Reconstructed(proof, first)
          = Walk(At(q, s, IF own THEN first ELSE Head(p)), IF own THEN p ELSE Tail(p))
    BY <1>2, <1>3, <1>4, <1>10, Zenon DEF Reconstructed
  <2>2. ~own => Head(p) = block
    <3>1. ASSUME ~own PROVE Head(p) = p[1]
      <4>1. PICK S : p \in Seq(S)
        BY <1>7 DEF IsSeq
      <4> QED
        BY <1>7, <3>1, <4>1
    <3> QED
      BY <1>7, <3>1
  <2>3. rest = IF own THEN p ELSE Tail(p)
    BY <1>6 DEF AfterFirst
  <2> QED
    BY <2>1, <2>2, <2>3
<1>12. own \/ p # <<>>
  BY <1>7
<1>13. \A first, second : VerifyConsistency(proof, first, second) = "valid" <=>
         /\ AtRoot(Reconstructed(proof, first))
         /\ Reconstructed(proof, first).old = first
         /\ Reconstructed(proof, first).hash = second
  <2>1. SUFFICES ASSUME NEW first, NEW second
                 PROVE  VerifyExtension(proof, first, second) = "valid" <=>
                          /\ AtRoot(Reconstructed(proof, first))
                          /\ Reconstructed(proof, first).old = first
                          /\ Reconstructed(proof, first).hash = second
    BY <1>9
  <2>2. IsPowerOfTwo(proof.firstSize) \/ proof.path # <<>>
    BY <1>3, <1>10, <1>12
  <2> QED
    BY <2>2, ExtensionIs
<1>14. Reconstructed(proof, mine) = Walk(At(q, s, block), rest)
  BY <1>8, <1>11
<1>15. PICK end : end = Walk(At(q, s, block), rest)
  OBVIOUS
<1>16. AtRoot(end) /\ end.old = mine /\ end.hash = Root(leaves)
  BY <1>7, <1>15 DEF Stands, AtRoot
<1>17. \A second : VerifyConsistency(proof, mine, second) = "valid" <=> second = Root(leaves)
  BY <1>13, <1>14, <1>15, <1>16
<1>18. ASSUME NEW first, VerifyConsistency(proof, first, Root(leaves)) = "valid"
       PROVE  first = mine
  <2>1. CASE ~own
    <3>1. Reconstructed(proof, first) = end
      BY <1>11, <1>15, <2>1
    <3> QED
      BY <1>13, <1>16, <1>18, <3>1
  <2>2. CASE own
    <3>1. PICK start, begin : start = At(q, s, first) /\ begin = At(q, s, block)
      OBVIOUS
    <3>2. Stands(start, q, s, first, first) /\ Stands(begin, q, s, block, block)
      BY <3>1, AtIs
    <3>3. Reconstructed(proof, first) = Walk(start, rest)
      BY <1>11, <2>2, <3>1
    <3>4. AtRoot(Walk(start, rest)) /\ Walk(start, rest).hash = Root(leaves)
      BY <1>13, <1>18, <3>3
    <3>5. AtRoot(Walk(begin, rest)) /\ Walk(begin, rest).hash = Root(leaves)
      BY <1>15, <1>16, <3>1
    <3>6. Climbing(start) /\ Climbing(begin) /\ SamePlace(start, begin)
      <4>1. start.tooLong = begin.tooLong
        BY <3>1 DEF At
      <4> QED
        BY <3>2, <4>1 DEF Stands, SamePlace
    <3>7. IsSeq(rest)
      BY <1>6, <1>7, <2>2 DEF AfterFirst
    <3>8. start.hash = begin.hash
      BY <3>4, <3>5, <3>6, <3>7, WalksFromOne
    <3> QED
      BY <1>8, <2>2, <3>2, <3>8 DEF Stands
  <2> QED
    BY <2>1, <2>2
<1> QED
  BY <1>1, <1>5, <1>17, <1>18

\* Ranges with the same leaves have one root, whatever else their trees hold.
LEMMA MthAgrees ==
  ASSUME NEW leaves, Len(leaves) \in Nat, NEW others, Len(others) \in Nat
  PROVE  \A n \in Nat : n <= Len(leaves) /\ n <= Len(others) =>
           \A a \in Nat : SameBetween(leaves, others, a + 1, a + n)
             => Mth(leaves, a, a + n) = Mth(others, a, a + n)
<1> DEFINE S == {n \in Nat : n <= Len(leaves) /\ n <= Len(others) =>
                   \A a \in Nat : SameBetween(leaves, others, a + 1, a + n)
                     => Mth(leaves, a, a + n) = Mth(others, a, a + n)}
<1>1. ASSUME NEW n \in Nat, \A l \in 0..(n - 1) : l \in S PROVE n \in S
  <2>1. SUFFICES ASSUME n <= Len(leaves), n <= Len(others), NEW a \in Nat,
                        SameBetween(leaves, others, a + 1, a + n)
                 PROVE  Mth(leaves, a, a + n) = Mth(others, a, a + n)
    OBVIOUS
  <2>2. n \in 0..Len(leaves) /\ n \in 0..Len(others)
    BY <2>1
  <2>3. CASE n = 0
    BY <2>2, <2>3, MthIs
  <2>4. CASE n = 1
    <3>1. leaves[a + 1] = others[a + 1]
      BY <2>1, <2>4 DEF SameBetween
    <3> QED
      BY <2>2, <2>4, <3>1, MthIs
  <2>5. CASE n > 1
    <3>1. PICK k \in Nat : k = LargestPowerOfTwoBelow(n)
      BY <2>5, SplitBounds
    <3>2. k \in 1..(n - 1) /\ Splits(k, n)
      BY <2>5, <3>1, SplitBounds, SplitIs
    <3>3. PICK b \in Nat, l \in Nat : b = a + k /\ l = n - k
      BY <3>2
    <3>4. /\ k \in 0..(n - 1) /\ l \in 0..(n - 1) /\ b + l = a + n
          /\ k <= Len(leaves) /\ k <= Len(others) /\ l <= Len(leaves) /\ l <= Len(others)
      BY <2>1, <3>2, <3>3
    <3>5. /\ SameBetween(leaves, others, a + 1, a + k)
          /\ SameBetween(leaves, others, b + 1, b + l)
      BY <2>1, <3>2, <3>3, <3>4 DEF SameBetween
    <3>6. Mth(leaves, a, a + k) = Mth(others, a, a + k)
      <4>1. k \in S
        BY <1>1, <3>4
      <4> QED
        BY <3>4, <3>5, <4>1
    <3>7. Mth(leaves, b, b + l) = Mth(others, b, b + l)
      <4>1. l \in S
        BY <1>1, <3>4
      <4> QED
        BY <3>4, <3>5, <4>1
    <3>8. Mth(leaves, a, a + n) = HashNode(Mth(leaves, a, a + k), Mth(leaves, b, b + l))
      BY <2>2, <3>2, <3>3, <3>4, MthJoins
    <3>9. Mth(others, a, a + n) = HashNode(Mth(others, a, a + k), Mth(others, b, b + l))
      BY <2>2, <3>2, <3>3, <3>4, MthJoins
    <3> QED
      BY <3>6, <3>7, <3>8, <3>9
  <2> QED
    BY <2>3, <2>4, <2>5
<1> HIDE DEF S
<1>2. Nat \subseteq S
  BY <1>1, EveryNumberFromBelow
<1> QED
  BY <1>2 DEF S

\* The root of the first leaves of a tree is that of the tree they make.
LEMMA RootOfFirst ==
  ASSUME NEW leaves, Len(leaves) \in Nat, NEW m \in 0..Len(leaves),
         NEW others, Len(others) = m, SameUpTo(leaves, others, m)
  PROVE  Root(others) = Mth(leaves, 0, m)
<1>1. m \in Nat /\ 0 \in Nat /\ m <= Len(leaves) /\ m <= Len(others) /\ 0 + m = m /\ 0 + 1 = 1
      /\ Len(others) \in Nat
  OBVIOUS
<1>2. SameBetween(leaves, others, 0 + 1, 0 + m)
  BY <1>1 DEF SameUpTo, SameBetween
<1>3. Mth(leaves, 0, 0 + m) = Mth(others, 0, 0 + m)
  BY <1>1, <1>2, MthAgrees
<1> QED
  BY <1>1, <1>3 DEF Root

=============================================================================

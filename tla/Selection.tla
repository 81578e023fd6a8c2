------------------------------ MODULE Selection ------------------------------
(***************************************************************************)
(* Array.prototype.filter, as the stores and their readers use it: what a  *)
(* sequence holds at the positions that qualify, in order.  And what holds *)
(* of it for sequences of every length.                                    *)
(***************************************************************************)
EXTENDS Integers, Sequences, WellFoundedInduction, TLAPS

\* The elements of s at the positions in I, in the order of s.
Chosen(s, I) ==
  LET upTo[n \in 0..Len(s)] ==
        IF n = 0 THEN <<>>
        ELSE IF n \in I THEN Append(upTo[n - 1], s[n]) ELSE upTo[n - 1]
  IN  upTo[Len(s)]

-----------------------------------------------------------------------------
(* Induction over the natural numbers, for sets *)

\* A set that holds 0 and with each number the next holds every number: what has no
\* least counterexample has none.
LEMMA EveryNumber ==
  ASSUME NEW S, 0 \in S, \A n \in Nat : n \in S => n + 1 \in S
  PROVE  Nat \subseteq S
<1> DEFINE Rest == Nat \ S
           Less == {pair \in Nat \X Nat : pair[1] < pair[2]}
<1>1. SUFFICES ASSUME Rest # {} PROVE FALSE
  OBVIOUS
<1>2. IsWellFoundedOn(Less, Nat)
  BY NatLessThanWellFounded DEF OpToRel
<1>3. PICK x \in Rest : \A y \in Rest : <<y, x>> \notin Less
  <2> HIDE DEF Less
  <2> QED
    BY <1>1, <1>2, WFMin
<1>4. x \in Nat /\ x # 0 /\ x - 1 \in Nat /\ x - 1 + 1 = x
  OBVIOUS
<1>5. <<x - 1, x>> \in Less
  BY <1>4
<1> QED
  BY <1>3, <1>4, <1>5

-----------------------------------------------------------------------------
(* The prefixes of a choice *)

\* f gives the choice from each prefix of s that is no longer than n.
Choosing(s, I, n, f) ==
  /\ DOMAIN f = 0..n
  /\ \A k \in 0..n :
       f[k] = IF k = 0 THEN <<>> ELSE IF k \in I THEN Append(f[k - 1], s[k]) ELSE f[k - 1]

\* Such a function exists for every length.
LEMMA ChoosingExists ==
  ASSUME NEW s, NEW I
  PROVE  \A n \in Nat : \E f : Choosing(s, I, n, f)
<1> DEFINE S == {n \in Nat : \E f : Choosing(s, I, n, f)}
<1>1. 0 \in S
  <2>1. Choosing(s, I, 0, [k \in 0..0 |-> <<>>])
    BY DEF Choosing
  <2> QED
    BY <2>1
<1>2. ASSUME NEW n \in Nat, n \in S PROVE n + 1 \in S
  <2>1. PICK f : Choosing(s, I, n, f)
    BY <1>2
  <2> DEFINE g == [k \in 0..(n + 1) |->
                     IF k <= n THEN f[k]
                     ELSE IF k \in I THEN Append(f[n], s[k]) ELSE f[n]]
  <2>2. Choosing(s, I, n + 1, g)
    <3>1. ASSUME NEW k \in 0..n
          PROVE  g[k] = IF k = 0 THEN <<>>
                        ELSE IF k \in I THEN Append(g[k - 1], s[k]) ELSE g[k - 1]
      <4>1. g[k] = f[k] /\ (k # 0 => g[k - 1] = f[k - 1])
        OBVIOUS
      <4> QED
        BY <2>1, <4>1 DEF Choosing
    <3>2. g[n + 1] = IF n + 1 \in I THEN Append(g[n], s[n + 1]) ELSE g[n]
      OBVIOUS
    <3>3. \A k \in 0..(n + 1) : k \in 0..n \/ (k = n + 1 /\ k # 0 /\ k - 1 = n)
      OBVIOUS
    <3> HIDE DEF g
    <3>4. DOMAIN g = 0..(n + 1)
      BY DEF g
    <3> QED
      BY <3>1, <3>2, <3>3, <3>4 DEF Choosing
  <2> QED
    BY <2>2
<1> HIDE DEF S
<1>3. Nat \subseteq S
  BY <1>1, <1>2, EveryNumber
<1> QED
  BY <1>3 DEF S

\* The choice from a sequence is the value at its length of any such function.
LEMMA ChosenExists ==
  ASSUME NEW s, NEW I, Len(s) \in Nat
  PROVE  \E f : Choosing(s, I, Len(s), f) /\ Chosen(s, I) = f[Len(s)]
<1> DEFINE upTo == CHOOSE f : f = [n \in 0..Len(s) |->
                     IF n = 0 THEN <<>>
                     ELSE IF n \in I THEN Append(f[n - 1], s[n]) ELSE f[n - 1]]
<1>1. PICK f : Choosing(s, I, Len(s), f)
  BY ChoosingExists
<1>2. \E g : g = [n \in 0..Len(s) |->
                    IF n = 0 THEN <<>>
                    ELSE IF n \in I THEN Append(g[n - 1], s[n]) ELSE g[n - 1]]
  <2>1. PICK g : g = [k \in 0..Len(s) |-> f[k]]
    OBVIOUS
  <2>2. \A k \in 0..Len(s) :
          g[k] = IF k = 0 THEN <<>> ELSE IF k \in I THEN Append(g[k - 1], s[k]) ELSE g[k - 1]
    <3>1. \A k \in 0..Len(s) : g[k] = f[k] /\ (k # 0 => g[k - 1] = f[k - 1])
      BY <2>1
    <3> QED
      BY <1>1, <3>1 DEF Choosing
  <2> QED
    BY <2>1, <2>2
<1>3. upTo = [n \in 0..Len(s) |->
                IF n = 0 THEN <<>>
                ELSE IF n \in I THEN Append(upTo[n - 1], s[n]) ELSE upTo[n - 1]]
  BY <1>2
<1>4. Chosen(s, I) = upTo[Len(s)]
  BY DEF Chosen
<1> HIDE DEF upTo
<1>5. Choosing(s, I, Len(s), upTo)
  BY <1>3 DEF Choosing
<1> QED
  BY <1>4, <1>5

\* What one more element adds.
LEMMA ChoosingNext ==
  ASSUME NEW s, NEW I, NEW n \in Nat, NEW f, NEW k \in Nat, Choosing(s, I, n, f), k + 1 <= n
  PROVE  f[k + 1] = IF k + 1 \in I THEN Append(f[k], s[k + 1]) ELSE f[k]
<1>1. PICK next : next = k + 1
  OBVIOUS
<1>2. next \in 0..n /\ next # 0 /\ next - 1 = k
  BY <1>1
<1>3. f[next] = IF next \in I THEN Append(f[next - 1], s[next]) ELSE f[next - 1]
  BY <1>2 DEF Choosing
<1> QED
  BY <1>1, <1>2, <1>3

\* The first n places hold the same in both, and the same of them qualify.
Alike(s, I, t, J, n) == \A k \in 1..n : s[k] = t[k] /\ (k \in I <=> k \in J)

\* Two choices agree as far as what they choose from does.
LEMMA ChoosingAgrees ==
  ASSUME NEW s, NEW t, NEW I, NEW J, NEW n \in Nat, NEW m \in Nat, NEW last \in Nat,
         NEW f, NEW g, Choosing(s, I, n, f), Choosing(t, J, m, g), last <= n, last <= m,
         Alike(s, I, t, J, last)
  PROVE  \A k \in 0..last : f[k] = g[k]
<1> DEFINE S == {k \in Nat : k <= last => f[k] = g[k]}
<1>1. 0 \in S
  BY DEF Choosing
<1>2. ASSUME NEW k \in Nat, k \in S PROVE k + 1 \in S
  <2>1. SUFFICES ASSUME k + 1 <= last PROVE f[k + 1] = g[k + 1]
    OBVIOUS
  <2>2. f[k] = g[k] /\ s[k + 1] = t[k + 1] /\ (k + 1 \in I <=> k + 1 \in J)
    BY <1>2, <2>1 DEF Alike
  <2>3. /\ f[k + 1] = IF k + 1 \in I THEN Append(f[k], s[k + 1]) ELSE f[k]
        /\ g[k + 1] = IF k + 1 \in J THEN Append(g[k], t[k + 1]) ELSE g[k]
    <3>1. k + 1 <= n /\ k + 1 <= m
      BY <2>1
    <3>2. Choosing(s, I, n, f) /\ Choosing(t, J, m, g)
      OBVIOUS
    <3>3. f[k + 1] = IF k + 1 \in I THEN Append(f[k], s[k + 1]) ELSE f[k]
      BY <3>1, <3>2, ChoosingNext
    <3>4. g[k + 1] = IF k + 1 \in J THEN Append(g[k], t[k + 1]) ELSE g[k]
      BY <3>1, <3>2, ChoosingNext
    <3> QED
      BY <3>3, <3>4
  <2> QED
    BY <2>2, <2>3
<1>3. Nat \subseteq S
  <2> HIDE DEF S
  <2> QED
    BY <1>1, <1>2, EveryNumber
<1> QED
  BY <1>3

\* What is chosen from a sequence that grew: the new element comes last, if it qualifies.
LEMMA ChosenAppend ==
  ASSUME NEW T, NEW s \in Seq(T), NEW e \in T, NEW I, NEW J,
         \A k \in 1..Len(s) : k \in I <=> k \in J
  PROVE  Chosen(Append(s, e), J)
           = IF Len(s) + 1 \in J THEN Append(Chosen(s, I), e) ELSE Chosen(s, I)
<1> DEFINE t == Append(s, e)
           n == Len(s)
<1>1. /\ n \in Nat /\ Len(t) = n + 1 /\ t[n + 1] = e
      /\ \A k \in 1..n : s[k] = t[k]
  OBVIOUS
<1> HIDE DEF t, n
<1>2. PICK f : Choosing(s, I, n, f) /\ Chosen(s, I) = f[n]
  BY <1>1, ChosenExists DEF n
<1>3. PICK g : Choosing(t, J, n + 1, g) /\ Chosen(t, J) = g[n + 1]
  BY <1>1, ChosenExists
<1>4. f[n] = g[n]
  <2>1. Alike(s, I, t, J, n)
    BY <1>1 DEF n, Alike
  <2>2. n + 1 \in Nat /\ n <= n /\ n <= n + 1 /\ n \in 0..n
    BY <1>1
  <2> QED
    BY <1>2, <1>3, <2>1, <2>2, <1>1, ChoosingAgrees
<1>5. g[n + 1] = IF n + 1 \in J THEN Append(g[n], t[n + 1]) ELSE g[n]
  <2>1. n + 1 \in Nat /\ n \in Nat /\ n + 1 <= n + 1
    BY <1>1
  <2> QED
    BY <1>3, <2>1, ChoosingNext
<1> QED
  BY <1>1, <1>2, <1>3, <1>4, <1>5 DEF t, n

\* The same places of the same sequence hold the same.
LEMMA ChosenSame ==
  ASSUME NEW s, NEW I, NEW J, Len(s) \in Nat, \A k \in 1..Len(s) : k \in I <=> k \in J
  PROVE  Chosen(s, I) = Chosen(s, J)
<1>1. PICK f : Choosing(s, I, Len(s), f) /\ Chosen(s, I) = f[Len(s)]
  BY ChosenExists
<1>2. PICK g : Choosing(s, J, Len(s), g) /\ Chosen(s, J) = g[Len(s)]
  BY ChosenExists
<1>3. PICK n \in Nat : n = Len(s) /\ n <= n
  OBVIOUS
<1>4. \A k \in 0..n : f[k] = g[k]
  <2>1. Choosing(s, I, n, f) /\ Choosing(s, J, n, g) /\ Alike(s, I, s, J, n)
    BY <1>1, <1>2, <1>3 DEF Alike
  <2> QED
    BY <1>3, <2>1, ChoosingAgrees
<1> QED
  BY <1>1, <1>2, <1>3, <1>4

-----------------------------------------------------------------------------
(* Where what is chosen comes from *)

\* at gives the position in s of each element of c: they rise, and every position of I
\* up to n is among them.
Places(s, I, n, c, at) ==
  /\ at \in [1..Len(c) -> 1..n]
  /\ \A k \in 1..Len(c) : at[k] \in I /\ c[k] = s[at[k]]
  /\ \A j, k \in 1..Len(c) : j < k => at[j] < at[k]
  /\ \A i \in 1..n : i \in I => \E k \in 1..Len(c) : at[k] = i

\* One more element.
LEMMA PlacesNext ==
  ASSUME NEW T, NEW s \in Seq(T), NEW I, NEW n \in Nat, n + 1 <= Len(s),
         NEW c \in Seq(T), NEW at, Places(s, I, n, c, at),
         NEW d, d = IF n + 1 \in I THEN Append(c, s[n + 1]) ELSE c
  PROVE  d \in Seq(T) /\ \E more : Places(s, I, n + 1, d, more)
<1>1. CASE n + 1 \notin I
  <2>1. d = c
    BY <1>1
  <2>2. Places(s, I, n + 1, c, at)
    <3>1. at \in [1..Len(c) -> 1..(n + 1)]
      BY DEF Places
    <3>2. \A i \in 1..(n + 1) : i \in I => i \in 1..n
      BY <1>1
    <3> QED
      BY <3>1, <3>2 DEF Places
  <2> QED
    BY <2>1, <2>2
<1>2. CASE n + 1 \in I
  <2> DEFINE last == Len(c) + 1
             more == [k \in 1..last |-> IF k = last THEN n + 1 ELSE at[k]]
  <2>1. /\ Len(c) \in Nat /\ n + 1 \in 1..Len(s) /\ s[n + 1] \in T
    OBVIOUS
  <2>2. /\ d \in Seq(T) /\ Len(d) = last /\ d[last] = s[n + 1]
        /\ \A k \in 1..Len(c) : d[k] = c[k]
    BY <1>2, <2>1
  <2>3. /\ more[last] = n + 1
        /\ \A k \in 1..Len(c) : more[k] = at[k] /\ at[k] \in 1..n
    BY <2>1 DEF Places
  <2>4. /\ \A k \in 1..last : k = last \/ k \in 1..Len(c)
        /\ last \in 1..last
        /\ \A k \in 1..Len(c) : k \in 1..last /\ k < last
    BY <2>1
  <2>8. more \in [1..last -> 1..(n + 1)]
    <3>1. \A k \in 1..last : more[k] \in 1..(n + 1)
      <4>1. 1..n \subseteq 1..(n + 1) /\ n + 1 \in 1..(n + 1)
        OBVIOUS
      <4> QED
        BY <2>3, <2>4, <4>1
    <3> QED
      BY <3>1
  <2> HIDE DEF more, last
  <2>5. \A k \in 1..last : more[k] \in I /\ d[k] = s[more[k]]
    BY <1>2, <2>2, <2>3, <2>4 DEF Places
  <2>6. \A j, k \in 1..last : j < k => more[j] < more[k]
    <3> SUFFICES ASSUME NEW j \in 1..last, NEW k \in 1..last, j < k
                 PROVE  more[j] < more[k]
      OBVIOUS
    <3>1. j \in 1..Len(c)
      BY <2>1, <2>4 DEF last
    <3>2. CASE k = last
      BY <2>3, <3>1, <3>2
    <3>3. CASE k \in 1..Len(c)
      BY <2>3, <3>1, <3>3 DEF Places
    <3> QED
      BY <2>4, <3>2, <3>3
  <2>7. \A i \in 1..(n + 1) : i \in I => \E k \in 1..last : more[k] = i
    <3> SUFFICES ASSUME NEW i \in 1..(n + 1), i \in I PROVE \E k \in 1..last : more[k] = i
      OBVIOUS
    <3>1. CASE i = n + 1
      BY <2>3, <2>4, <3>1
    <3>2. CASE i \in 1..n
      <4>1. PICK k \in 1..Len(c) : at[k] = i
        BY <3>2 DEF Places
      <4> QED
        BY <2>3, <2>4, <4>1
    <3> QED
      BY <3>1, <3>2
  <2> QED
    <3>1. Places(s, I, n + 1, d, more)
      BY <2>2, <2>8, <2>5, <2>6, <2>7 DEF Places
    <3> QED
      BY <2>2, <3>1
<1> QED
  BY <1>1, <1>2

\* What filter() returns is a sequence of elements of s, each from a qualifying place and
\* every qualifying place among them, in the order of s.
LEMMA ChosenPlaces ==
  ASSUME NEW T, NEW s \in Seq(T), NEW I
  PROVE  /\ Chosen(s, I) \in Seq(T)
         /\ \E at : Places(s, I, Len(s), Chosen(s, I), at)
<1>1. PICK f : Choosing(s, I, Len(s), f) /\ Chosen(s, I) = f[Len(s)]
  BY ChosenExists
<1> DEFINE S == {n \in Nat : n <= Len(s) =>
                   f[n] \in Seq(T) /\ \E at : Places(s, I, n, f[n], at)}
<1>2. 0 \in S
  <2>1. f[0] = <<>>
    BY <1>1 DEF Choosing
  <2>2. Places(s, I, 0, <<>>, <<>>)
    BY DEF Places
  <2>3. f[0] \in Seq(T) /\ Places(s, I, 0, f[0], <<>>)
    BY <2>1, <2>2
  <2> QED
    BY <2>3
<1>3. ASSUME NEW n \in Nat, n \in S PROVE n + 1 \in S
  <2>1. SUFFICES ASSUME n + 1 <= Len(s)
                 PROVE  f[n + 1] \in Seq(T) /\ \E at : Places(s, I, n + 1, f[n + 1], at)
    OBVIOUS
  <2>2. f[n] \in Seq(T) /\ \E at : Places(s, I, n, f[n], at)
    BY <1>3, <2>1
  <2>3. f[n + 1] = IF n + 1 \in I THEN Append(f[n], s[n + 1]) ELSE f[n]
    BY <1>1, <2>1, ChoosingNext
  <2> QED
    BY <2>1, <2>2, <2>3, PlacesNext
<1>4. Nat \subseteq S
  <2> HIDE DEF S
  <2> QED
    BY <1>2, <1>3, EveryNumber
<1> QED
  BY <1>1, <1>4

\* Nothing is chosen from nothing.
LEMMA ChosenEmpty == \A I : Chosen(<<>>, I) = <<>>
<1> SUFFICES ASSUME NEW I PROVE Chosen(<<>>, I) = <<>>
  OBVIOUS
<1>1. PICK s : s = <<>> /\ Len(s) = 0
  OBVIOUS
<1>2. PICK f : Choosing(s, I, Len(s), f) /\ Chosen(s, I) = f[Len(s)]
  BY <1>1, ChosenExists
<1>3. f[0] = <<>>
  BY <1>1, <1>2 DEF Choosing
<1> QED
  BY <1>1, <1>2, <1>3

\* The first places hold a prefix.
LEMMA ChosenFirst ==
  ASSUME NEW T, NEW s \in Seq(T), NEW k \in 0..Len(s)
  PROVE  Chosen(s, 1..k) = SubSeq(s, 1, k)
<1>1. PICK f : Choosing(s, 1..k, Len(s), f) /\ Chosen(s, 1..k) = f[Len(s)]
  BY ChosenExists
<1> DEFINE S == {n \in Nat : n <= Len(s) =>
                   f[n] = SubSeq(s, 1, IF n <= k THEN n ELSE k)}
<1>2. 0 \in S
  <2>1. f[0] = <<>> /\ SubSeq(s, 1, 0) = <<>>
    BY <1>1 DEF Choosing
  <2>2. (IF 0 <= k THEN 0 ELSE k) = 0
    OBVIOUS
  <2> QED
    BY <2>1, <2>2
<1>3. ASSUME NEW n \in Nat, n \in S PROVE n + 1 \in S
  <2>1. SUFFICES ASSUME n + 1 <= Len(s)
                 PROVE  f[n + 1] = SubSeq(s, 1, IF n + 1 <= k THEN n + 1 ELSE k)
    OBVIOUS
  <2>2. f[n + 1] = IF n + 1 \in 1..k THEN Append(f[n], s[n + 1]) ELSE f[n]
    BY <1>1, <2>1, ChoosingNext
  <2>3. f[n] = SubSeq(s, 1, IF n <= k THEN n ELSE k)
    BY <1>3, <2>1
  <2>4. CASE n + 1 <= k
    <3>1. PICK a, b : a = SubSeq(s, 1, n) /\ b = SubSeq(s, 1, n + 1)
      OBVIOUS
    <3>2. a \in Seq(T) /\ Len(a) = n /\ \A i \in 1..n : a[i] = s[i]
      BY <2>1, <3>1
    <3>3. b \in Seq(T) /\ Len(b) = n + 1 /\ \A i \in 1..(n + 1) : b[i] = s[i]
      BY <2>1, <3>1
    <3>4. PICK c : c = Append(a, s[n + 1])
      OBVIOUS
    <3>5. s[n + 1] \in T
      BY <2>1
    <3>6. /\ c \in Seq(T) /\ Len(c) = n + 1
          /\ \A i \in 1..n : c[i] = a[i]
          /\ c[n + 1] = s[n + 1]
      BY <3>2, <3>4, <3>5
    <3>7. \A i \in 1..(n + 1) : c[i] = b[i]
      BY <3>2, <3>3, <3>6
    <3>8. c = b
      BY <3>3, <3>6, <3>7
    <3> QED
      BY <2>2, <2>3, <2>4, <3>1, <3>4, <3>8
  <2>5. CASE ~(n + 1 <= k)
    <3>1. n + 1 \notin 1..k /\ (IF n <= k THEN n ELSE k) = k
      BY <2>5
    <3> QED
      BY <2>2, <2>3, <2>5, <3>1
  <2> QED
    BY <2>4, <2>5
<1>4. Nat \subseteq S
  <2> HIDE DEF S
  <2> QED
    BY <1>2, <1>3, EveryNumber
<1>5. Len(s) \in S /\ Len(s) \in Nat /\ k <= Len(s)
  BY <1>4
<1> QED
  BY <1>1, <1>5

\* The places of a sequence that hold an element of P.
Where(c, P) == {j \in DOMAIN c : c[j] \in P}

\* A choice from a choice is one choice.
LEMMA ChosenTwice ==
  ASSUME NEW T, NEW s \in Seq(T), NEW I, NEW P
  PROVE  Chosen(Chosen(s, I), Where(Chosen(s, I), P)) = Chosen(s, I \intersect Where(s, P))
<1>1. PICK f : Choosing(s, I, Len(s), f) /\ Chosen(s, I) = f[Len(s)]
  BY ChosenExists
<1>2. PICK K : K = I \intersect Where(s, P)
  OBVIOUS
<1>3. PICK g : Choosing(s, K, Len(s), g) /\ Chosen(s, K) = g[Len(s)]
  BY ChosenExists
<1> DEFINE S == {n \in Nat : n <= Len(s) =>
                   f[n] \in Seq(T) /\ Chosen(f[n], Where(f[n], P)) = g[n]}
<1>4. 0 \in S
  <2>1. f[0] = <<>> /\ g[0] = <<>>
    BY <1>1, <1>3 DEF Choosing
  <2>2. f[0] \in Seq(T) /\ Chosen(f[0], Where(f[0], P)) = g[0]
    BY <2>1, ChosenEmpty
  <2> QED
    BY <2>2
<1>5. ASSUME NEW n \in Nat, n \in S PROVE n + 1 \in S
  <2>1. SUFFICES ASSUME n + 1 <= Len(s)
                 PROVE  f[n + 1] \in Seq(T) /\ Chosen(f[n + 1], Where(f[n + 1], P)) = g[n + 1]
    OBVIOUS
  <2>2. f[n + 1] = IF n + 1 \in I THEN Append(f[n], s[n + 1]) ELSE f[n]
    BY <1>1, <2>1, ChoosingNext
  <2>3. g[n + 1] = IF n + 1 \in K THEN Append(g[n], s[n + 1]) ELSE g[n]
    BY <1>3, <2>1, ChoosingNext
  <2>4. f[n] \in Seq(T) /\ Chosen(f[n], Where(f[n], P)) = g[n]
    BY <1>5, <2>1
  <2>5. n + 1 \in DOMAIN s /\ s[n + 1] \in T
    BY <2>1
  <2>6. CASE n + 1 \notin I
    BY <1>2, <2>2, <2>3, <2>4, <2>6
  <2>7. CASE n + 1 \in I
    <3>1. PICK c, x : c = f[n] /\ x = s[n + 1]
      OBVIOUS
    <3>2. PICK d : d = Append(c, x)
      OBVIOUS
    <3>3. /\ c \in Seq(T) /\ x \in T /\ d \in Seq(T)
          /\ Len(c) \in Nat /\ Len(d) = Len(c) + 1 /\ d[Len(c) + 1] = x
          /\ \A k \in 1..Len(c) : d[k] = c[k]
      BY <2>4, <2>5, <3>1, <3>2
    <3>4. \A k \in 1..Len(c) : k \in Where(c, P) <=> k \in Where(d, P)
      BY <3>3 DEF Where
    <3>5. Len(c) + 1 \in Where(d, P) <=> x \in P
      BY <3>3 DEF Where
    <3>6. Chosen(d, Where(d, P))
            = IF Len(c) + 1 \in Where(d, P) THEN Append(Chosen(c, Where(c, P)), x)
              ELSE Chosen(c, Where(c, P))
      BY <3>2, <3>3, <3>4, ChosenAppend
    <3>7. n + 1 \in K <=> x \in P
      BY <1>2, <2>5, <2>7, <3>1 DEF Where
    <3> QED
      BY <2>2, <2>3, <2>4, <2>7, <3>1, <3>2, <3>3, <3>5, <3>6, <3>7
  <2> QED
    BY <2>6, <2>7
<1>6. Nat \subseteq S
  <2> HIDE DEF S
  <2> QED
    BY <1>4, <1>5, EveryNumber
<1>7. Len(s) \in S /\ Len(s) \in Nat
  BY <1>6
<1> QED
  BY <1>1, <1>2, <1>3, <1>7
=============================================================================

----------------------------- MODULE MerkleTree -----------------------------
(***************************************************************************)
(* The RFC 6962 tree of evidence/merkle-tree.ts and the independent        *)
(* verifier of evidence/proof-verifier.ts.                                 *)
(*                                                                         *)
(* SHA-256 is taken to be injective: a hash is a record of the parts that  *)
(* were hashed.  A prefix byte is a part like any other, so the domain     *)
(* separation of leaves and nodes is in the model, not assumed.  Leaf data *)
(* is a sequence of parts; an audit leaf has one, the raw entry hash.      *)
(***************************************************************************)
EXTENDS Naturals, Sequences, SequencesExt

Byte(b)    == [byte |-> b]
Sha(parts) == [sha256 |-> parts]

HashLeaf(data)     == Sha(<<Byte(0)>> \o data)
\* Seeded fault: nodes are hashed under the prefix of leaves.
HashNodeAsLeaf(lhs, rhs) == Sha(<<Byte(0), lhs, rhs>>)

HashNode(lhs, rhs) == Sha(<<Byte(1), lhs, rhs>>)

\* The lowest one bit of n, and 1 for 0: what halving divides by that stops at 0 and
\* at an odd number.
LowestBit(n) ==
  LET low[m \in 0..n] == IF m = 0 \/ m % 2 = 1 THEN 1 ELSE 2 * low[m \div 2]
  IN  low[n]

\* n & (n - 1) is n without that bit.
IsPowerOfTwo(n) == n > 0 /\ LowestBit(n) = n

LargestPowerOfTwoBelow(n) ==
  CHOOSE k \in 1..n : k < n /\ n <= 2 * k /\ IsPowerOfTwo(k)

-----------------------------------------------------------------------------
(* The prover, over the leaf hashes of a log *)

\* MTH(D[a:b]), the root of the half-open range, by where a range starts and its size.
Mth(leaves, first, last) ==
  LET mth[range \in Nat \X (0..Len(leaves))] ==
        LET a == range[1]
            n == range[2]
            k == LargestPowerOfTwoBelow(n)
        IN  CASE n = 0 -> Sha(<<>>)
              [] n = 1 -> leaves[a + 1]
              [] OTHER -> HashNode(mth[<<a, k>>], mth[<<a + k, n - k>>])
  IN  mth[<<first, last - first>>]

Root(leaves) == Mth(leaves, 0, Len(leaves))

\* PATH(m, D[a:b]): the siblings from the leaf up.
InclusionPath(leaves, leafIndex) ==
  LET path[place \in Nat \X Nat \X (0..Len(leaves))] ==
        LET m == place[1]
            a == place[2]
            n == place[3]
            k == LargestPowerOfTwoBelow(n)
        IN  CASE n <= 1 -> <<>>
              [] n > 1 /\ m < k ->
                   Append(path[<<m, a, k>>], Mth(leaves, a + k, a + n))
              [] OTHER ->
                   Append(path[<<m - k, a + k, n - k>>], Mth(leaves, a, a + k))
  IN  path[<<leafIndex, 0, Len(leaves)>>]

InclusionProof(leaves, leafIndex) ==
  [leafIndex |-> leafIndex, treeSize |-> Len(leaves),
   path |-> InclusionPath(leaves, leafIndex)]

\* The nonempty beginnings of the ranges of a tree, by how many leaves are asked
\* about, where the range starts, its size, and whether it began the tree.
Subtrees(size) ==
  {place \in Nat \X Nat \X (0..size) \X BOOLEAN : place[1] \in 1..place[3]}

\* Seeded fault: a subtree on the right is taken for one the verifier holds.
SubproofAllWhole(leaves, firstSize) ==
  LET sub[place \in Subtrees(Len(leaves))] ==
        LET m == place[1]
            a == place[2]
            n == place[3]
            k == LargestPowerOfTwoBelow(n)
        IN  CASE m = n -> <<>>
              [] m < n /\ m <= k -> Append(sub[<<m, a, k, TRUE>>], Mth(leaves, a + k, a + n))
              [] OTHER ->
                   Append(sub[<<m - k, a + k, n - k, TRUE>>], Mth(leaves, a, a + k))
  IN  sub[<<firstSize, 0, Len(leaves), TRUE>>]

\* SUBPROOF(m, D[n], b): whole says that the verifier still holds the m-sized
\* subtree's root, which is then left out.
Subproof(leaves, firstSize) ==
  LET sub[place \in Subtrees(Len(leaves))] ==
        LET m == place[1]
            a == place[2]
            n == place[3]
            whole == place[4]
            k == LargestPowerOfTwoBelow(n)
        IN  CASE m = n -> IF whole THEN <<>> ELSE <<Mth(leaves, a, a + n)>>
              [] m < n /\ m <= k -> Append(sub[<<m, a, k, whole>>], Mth(leaves, a + k, a + n))
              [] OTHER ->
                   Append(sub[<<m - k, a + k, n - k, FALSE>>], Mth(leaves, a, a + k))
  IN  sub[<<firstSize, 0, Len(leaves), TRUE>>]

ConsistencyProof(leaves, firstSize) ==
  [firstSize |-> firstSize, secondSize |-> Len(leaves),
   path |-> IF 0 < firstSize /\ firstSize < Len(leaves)
            THEN Subproof(leaves, firstSize) ELSE <<>>]

-----------------------------------------------------------------------------
(* The verifier.  Both checks climb with fn, the index at this level, and    *)
(* sn, the last index; each names the first reason to refuse.                *)

\* Seeded fault: the ragged right edge is forgotten.
OddOnly(at) == at.fn % 2 = 1

\* A right child, or the last node of a ragged level, has its sibling on the
\* left and then skips the levels where it has none.
OnTheRight(at) == at.fn % 2 = 1 \/ at.fn = at.sn

Climb(at) ==
  LET up == 2 * (IF OnTheRight(at) THEN LowestBit(at.fn) ELSE 1)
  IN  [at EXCEPT !.fn = @ \div up, !.sn = @ \div up]

Absorb(at, sibling) ==
  IF at.tooLong \/ at.sn = 0 THEN [at EXCEPT !.tooLong = TRUE]
  ELSE IF OnTheRight(at)
       THEN [Climb(at) EXCEPT !.hash = HashNode(sibling, @),
                              !.old  = HashNode(sibling, @)]
       ELSE [Climb(at) EXCEPT !.hash = HashNode(@, sibling)]

Walk(start, path) ==
  LET after[i \in 0..Len(path)] ==
        IF i = 0 THEN start ELSE Absorb(after[i - 1], path[i])
  IN  after[Len(path)]

At(fn, sn, hash) == [fn |-> fn, sn |-> sn, hash |-> hash, old |-> hash, tooLong |-> FALSE]

VerifyInclusion(proof, data, expectedRoot) ==
  LET end == Walk(At(proof.leafIndex, proof.treeSize - 1, HashLeaf(data)), proof.path)
  IN  CASE proof.treeSize = 0                -> "empty tree"
        [] proof.treeSize # 0 /\ proof.leafIndex >= proof.treeSize -> "outside tree"
        [] OTHER -> CASE end.tooLong              -> "proof too long"
                      [] ~end.tooLong /\ end.sn # 0 -> "proof too short"
                      [] ~end.tooLong /\ end.sn = 0 ->
                           IF end.hash = expectedRoot THEN "valid" ELSE "other root"

\* Seeded faults: one of the two roots is not compared.
Reconstructed(proof, firstRoot) ==
  LET own  == IsPowerOfTwo(proof.firstSize)
      skip == LowestBit(proof.firstSize)
  IN  Walk(At((proof.firstSize - 1) \div skip, (proof.secondSize - 1) \div skip,
              IF own THEN firstRoot ELSE Head(proof.path)),
           IF own THEN proof.path ELSE Tail(proof.path))

VerifyExtensionLaterRoot(proof, firstRoot, secondRoot) ==
  IF Reconstructed(proof, firstRoot).hash = secondRoot THEN "valid" ELSE "other second root"

VerifyExtensionEarlierRoot(proof, firstRoot, secondRoot) ==
  IF Reconstructed(proof, firstRoot).old = firstRoot THEN "valid" ELSE "other first root"

\* Between unequal, nonempty sizes.  The old root of a full subtree is the
\* caller's; any other starts with the first node of the proof.
VerifyExtension(proof, firstRoot, secondRoot) ==
  LET own  == IsPowerOfTwo(proof.firstSize)
      skip == LowestBit(proof.firstSize)
      end  == Walk(At((proof.firstSize - 1) \div skip, (proof.secondSize - 1) \div skip,
                      IF own THEN firstRoot ELSE Head(proof.path)),
                   IF own THEN proof.path ELSE Tail(proof.path))
  IN  IF ~own /\ proof.path = <<>> THEN "proof empty"
      ELSE CASE end.tooLong              -> "proof too long"
             [] ~end.tooLong /\ end.sn # 0 -> "proof too short"
             [] ~end.tooLong /\ end.sn = 0 ->
                  IF end.old # firstRoot THEN "other first root"
                  ELSE IF end.hash # secondRoot THEN "other second root" ELSE "valid"

VerifyConsistency(proof, firstRoot, secondRoot) ==
  CASE proof.firstSize > proof.secondSize -> "sizes reversed"
    [] proof.firstSize = proof.secondSize ->
         IF proof.path # <<>> THEN "proof not empty"
         ELSE IF firstRoot = secondRoot THEN "valid" ELSE "roots differ"
    [] proof.firstSize = 0 /\ proof.secondSize > 0 ->
         IF proof.path = <<>> THEN "valid" ELSE "proof not empty"
    [] OTHER -> VerifyExtension(proof, firstRoot, secondRoot)

=============================================================================

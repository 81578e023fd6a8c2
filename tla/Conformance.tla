---------------------------- MODULE Conformance -----------------------------
(***************************************************************************)
(* The second implementation of the evidence format, conformance/verify.py *)
(* and the offline verifier of the CLI (cli/src/verify-local.ts), beside   *)
(* the first one (MerkleTree, Canonical).  The vectors they are measured   *)
(* with are those of scripts/generate-conformance-vectors.ts.              *)
(***************************************************************************)
EXTENDS MerkleTree, Canonical, FiniteSets, FiniteSetsExt

-----------------------------------------------------------------------------
(* The tree, level by level *)

\* Seeded fault: the odd node of a level is paired with itself, as in Bitcoin.
PairUpTwice(level) ==
  [i \in 1..((Len(level) + 1) \div 2) |->
     HashNode(level[2 * i - 1], IF 2 * i <= Len(level) THEN level[2 * i] ELSE level[2 * i - 1])]

\* One level up, from the left; the odd node is promoted.
PairUp(level) ==
  [i \in 1..((Len(level) + 1) \div 2) |->
     IF 2 * i <= Len(level) THEN HashNode(level[2 * i - 1], level[2 * i])
     ELSE level[2 * i - 1]]

MerkleRootIterative(leafHashes) ==
  LET level[d \in Nat] == IF d = 0 THEN leafHashes ELSE PairUp(level[d - 1])
  IN  IF leafHashes = <<>> THEN Sha(<<>>) ELSE level[Len(leafHashes)][1]

\* The inner while: both indices lose their trailing zeros of fn, a bit at a time.
Stripped(fn, sn) ==
  LET strip[f \in Nat, s \in Nat] ==
        IF f # 0 /\ f % 2 = 0 THEN strip[f \div 2, s \div 2] ELSE <<f, s>>
  IN  strip[fn, sn]

\* One sibling of a path; old is carried along where the earlier tree had the node.
ClimbOnce(at, sibling) ==
  LET right == at.fn % 2 = 1 \/ at.fn = at.sn
      skipped == IF right THEN Stripped(at.fn, at.sn) ELSE <<at.fn, at.sn>>
  IN  IF at.refused \/ at.sn = 0 THEN [at EXCEPT !.refused = TRUE]
      ELSE [refused |-> FALSE, fn |-> skipped[1] \div 2, sn |-> skipped[2] \div 2,
            hash |-> IF right THEN HashNode(sibling, at.hash) ELSE HashNode(at.hash, sibling),
            old |-> IF right THEN HashNode(sibling, at.old) ELSE at.old]

ClimbAll(fn, sn, hash, path) ==
  FoldLeft(ClimbOnce, [refused |-> FALSE, fn |-> fn, sn |-> sn, hash |-> hash, old |-> hash], path)

\* verify_inclusion: the root that leaf and path lead to, where they lead to one.
InclusionRoots(leafHash, leafIndex, treeSize, path) ==
  LET end == ClimbAll(leafIndex, treeSize - 1, leafHash, path)
  IN  IF leafIndex >= treeSize THEN {}
      ELSE IF end.refused \/ end.sn # 0 THEN {} ELSE {end.hash}

ConsistencyHolds(firstSize, secondSize, firstRoot, secondRoot, path) ==
  LET start == Stripped(firstSize, secondSize)   \* fn + 1 has the trailing ones of fn as zeros
      own == IsPowerOfTwo(firstSize)
      end == ClimbAll(start[1] - 1, (secondSize - 1) \div (firstSize \div start[1]),
                      IF own THEN firstRoot ELSE Head(path), IF own THEN path ELSE Tail(path))
  IN  CASE firstSize > secondSize -> FALSE
        [] firstSize = secondSize -> path = <<>> /\ firstRoot = secondRoot
        [] firstSize = 0 /\ secondSize > 0 -> path = <<>>
        [] OTHER -> /\ own \/ path # <<>>
                    /\ ~end.refused /\ end.sn = 0
                    /\ end.old = firstRoot /\ end.hash = secondRoot

\* The CLI's: hashes the entry hash as a leaf and compares the root itself.
VerifyInclusionLocal(data, leafIndex, treeSize, path, root) ==
  root \in InclusionRoots(HashLeaf(data), leafIndex, treeSize, path)

-----------------------------------------------------------------------------
(* Numbers and keys *)

\* ECMAScript Number::toString, from the digits repr() gives: integer part, fraction and
\* exponent.  The digits are significant ones, and the value is 0.digits x 10^n.
Significant(number) ==
  LET all == number.int \o number.frac
      leading == CHOOSE z \in 0..Len(all) :
                   /\ \A i \in 1..z : all[i] = 0
                   /\ z = Len(all) \/ all[z + 1] # 0
      last == CHOOSE z \in leading..Len(all) :
                /\ \A i \in (z + 1)..Len(all) : all[i] = 0
                /\ z = leading \/ all[z] # 0
  IN  [digits |-> SubSeq(all, leading + 1, last), n |-> Len(number.int) + number.exp - leading]

Zeros(count) == [i \in 1..count |-> 0]

EsNumberToString(number) ==
  LET s == Significant(number)
      k == Len(s.digits)
      Text(int, frac, exp) == [int |-> int, frac |-> frac, exp |-> exp]
  IN  CASE k = 0 -> Text(<<0>>, <<>>, 0)
        [] 0 < k /\ k <= s.n /\ s.n <= 21 -> Text(s.digits \o Zeros(s.n - k), <<>>, 0)
        [] 0 < s.n /\ s.n < k /\ s.n <= 21 ->
             Text(SubSeq(s.digits, 1, s.n), SubSeq(s.digits, s.n + 1, k), 0)
        [] 0 < k /\ -6 < s.n /\ s.n <= 0 -> Text(<<0>>, Zeros(-s.n) \o s.digits, 0)
        [] OTHER -> Text(SubSeq(s.digits, 1, 1), SubSeq(s.digits, 2, k), s.n - 1)

\* The code units of a code point, and the big-endian bytes verify.py sorts by.
CodeUnits(point) ==
  IF point < 65536 THEN <<point>>
  ELSE <<55296 + ((point - 65536) \div 1024), 56320 + ((point - 65536) % 1024)>>

Utf16SortKey(point) ==
  FlattenSeq([i \in DOMAIN CodeUnits(point) |->
               <<CodeUnits(point)[i] \div 256, CodeUnits(point)[i] % 256>>])

Precedes(s, t) ==
  \E i \in 1..(Len(t)) :
    /\ \A j \in 1..(i - 1) : j <= Len(s) /\ s[j] = t[j]
    /\ i > Len(s) \/ s[i] < t[i]

\* The CLI's canonical(): no check of numbers, and a Date has no keys.
RECURSIVE CanonicalLocal(_)
CanonicalLocal(value) ==
  CASE value.type = "atom" -> Written(<<value.json>>)
    [] value.type = "date" -> Written(<<"{", "}">>)
    [] value.type = "unfit" -> Written(<<"null">>)
    [] value.type \in {"undefined", "ancestor"} -> CanonicalizationError
    [] value.type = "array" ->
         LET parts == [i \in DOMAIN value.items |-> CanonicalLocal(value.items[i])]
         IN  IF \E i \in DOMAIN parts : ~parts[i].ok THEN CanonicalizationError
             ELSE Written(<<"[">> \o Join([i \in DOMAIN parts |-> parts[i].text]) \o <<"]">>)
    [] value.type = "object" ->
         LET fields == FieldsSorted(value.fields)
             parts == [i \in DOMAIN fields |-> CanonicalLocal(fields[i].value)]
         IN  IF \E i \in DOMAIN parts : ~parts[i].ok THEN CanonicalizationError
             ELSE Written(<<"{">> \o Join([i \in DOMAIN parts |->
                            <<ToString(fields[i].key), ":">> \o parts[i].text]) \o <<"}">>)

-----------------------------------------------------------------------------
(* The vectors *)

LeafHashes(n) == [i \in 1..n |-> HashLeaf(<<i>>)]

\* merkleVectors: for each size the first, the middle and the last leaf, with the root.
InclusionVectors(n) ==
  {[leafIndex |-> i, treeSize |-> n, path |-> InclusionPath(LeafHashes(n), i),
    root |-> Root(LeafHashes(n))] : i \in {0, n \div 2, n - 1} \intersect 0..(n - 1)}

ConsistencyVector(m, n) ==
  [firstSize |-> m, secondSize |-> n, firstRoot |-> Root(LeafHashes(m)),
   secondRoot |-> Root(LeafHashes(n)), path |-> ConsistencyProof(LeafHashes(n), m).path]

\* check_merkle: the root of this size, its inclusion proofs, and its consistency proof.
CheckMerkle(n, m) ==
  LET vector == ConsistencyVector(m, n)
  IN  /\ MerkleRootIterative(LeafHashes(n)) = Root(LeafHashes(n))
      /\ \A case \in InclusionVectors(n) :
           InclusionRoots(HashLeaf(<<case.leafIndex + 1>>), case.leafIndex, n, case.path)
             = {case.root}
      /\ ConsistencyHolds(m, n, vector.firstRoot, vector.secondRoot, vector.path)

-----------------------------------------------------------------------------
(* What conformance promises *)

\* A path and the ways it may be doctored: cut, lengthened, two siblings swapped, one replaced.
Doctored(path) ==
  LET other == HashLeaf(<<0>>)
  IN  {path, Append(path, other)}
        \union {SubSeq(path, 1, k) : k \in 0..Len(path)}
        \union {[path EXCEPT ![i] = other] : i \in DOMAIN path}
        \union {[path EXCEPT ![i] = path[i + 1], ![i + 1] = path[i]] : i \in 1..(Len(path) - 1)}

\* Pairing level by level gives the root of the recursive split at every size, and the three
\* verifiers accept every vector and agree on every doctored one: whatever path, index or
\* size is put to them, they give one verdict.
VerifiersAgree(n, m) ==
  LET leaves == LeafHashes(n)
      root == Root(leaves)
  IN  /\ CheckMerkle(n, m)
      /\ \A case \in InclusionVectors(n), size \in {n, n + 1} :
           \A path \in Doctored(case.path), index \in {case.leafIndex, m} :
             LET data == <<case.leafIndex + 1>>
                 ours == VerifyInclusion([leafIndex |-> index, treeSize |-> size, path |-> path],
                                         data, root) = "valid"
             IN  /\ root \in InclusionRoots(HashLeaf(data), index, size, path) <=> ours
                 /\ VerifyInclusionLocal(data, index, size, path, root) <=> ours
      /\ LET vector == ConsistencyVector(m, n)
         IN  \A path \in Doctored(vector.path), first \in {m, m + 1},
                firstRoot \in {vector.firstRoot, root} :
               ConsistencyHolds(first, n, firstRoot, root, path) <=>
                 VerifyConsistency([firstSize |-> first, secondSize |-> n, path |-> path],
                                   firstRoot, root) = "valid"

\* A number is written with all its digits at their places, in one way only: without an
\* exponent exactly from 10^-6 up to below 10^21.
NumberLaidOut(number, other) ==
  LET text == EsNumberToString(number)
  IN  /\ Significant(text).digits = Significant(number).digits
      /\ Significant(number).digits # <<>> => Significant(text).n = Significant(number).n
      /\ text.exp = 0 => text.int # <<>> /\ (Len(text.int) = 1 \/ text.int[1] # 0)
      /\ Significant(number).digits # <<>> =>
           /\ (text.exp # 0) <=> (Significant(number).n > 21 \/ Significant(number).n <= -6)
           /\ EsNumberToString(other) = text <=> Significant(other) = Significant(number)

\* Sorting by big-endian bytes is sorting by code units, which is what JavaScript does; and
\* it is not sorting by code point, for a key beyond U+FFFF beside one from U+E000 on.
KeysOrdered(a, b) ==
  /\ Precedes(Utf16SortKey(a), Utf16SortKey(b)) <=> Precedes(CodeUnits(a), CodeUnits(b))
  /\ (Precedes(Utf16SortKey(a), Utf16SortKey(b)) <=> a < b) <=>
       ~(\/ a >= 65536 /\ 57344 <= b /\ b < 65536
         \/ b >= 65536 /\ 57344 <= a /\ a < 65536)

\* The text the server signed is the text the CLI makes of the copy it was sent.
LocalTextAgrees(value) ==
  Canonicalize(value).ok => CanonicalLocal(Transported(value)) = Canonicalize(value)

=============================================================================

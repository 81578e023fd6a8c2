------------------------------ MODULE AuditLog ------------------------------
(***************************************************************************)
(* The hash-chained, Merkle-committed log of evidence/audit-log.ts as      *)
(* InMemoryAuditStore holds it: one log for all tenants, seen by each      *)
(* through a filter.  recordedAt is left out: nothing here tells two       *)
(* clock readings apart.                                                   *)
(***************************************************************************)
EXTENDS MerkleTree, Selection

CONSTANTS Actions, Actors, Tenants, Subjects, Payloads,
          Absent,        \* a field the caller left empty
          Formless,      \* payloads that canonicalize() rejects
          MaxEntries     \* bound on the length of the log

ASSUME FormlessAssumption == Formless \subseteq Payloads
ASSUME MaxEntriesAssumption == MaxEntries \in Nat

VARIABLES
  entries,    \* AuditLog.entries
  leaves,     \* the leaf hashes of AuditLog.tree
  lastHash    \* the head of the chain

logVars == <<entries, leaves, lastHash>>

GenesisHash == [zeros |-> 64]

Inputs ==
  [action: Actions \union {Absent}, actor: Actors \union {Absent},
   tenantId: Tenants \union {Absent}, subject: Subjects \union {Absent},
   payload: Payloads]

EntryDigest(unsealed) == Sha(<<unsealed>>)

Unsealed(entry) ==
  [seq |-> entry.seq, action |-> entry.action, actor |-> entry.actor,
   tenantId |-> entry.tenantId, subject |-> entry.subject,
   payload |-> entry.payload, previousHash |-> entry.previousHash]

Sealed(u) ==
  [seq |-> u.seq, action |-> u.action, actor |-> u.actor, tenantId |-> u.tenantId,
   subject |-> u.subject, payload |-> u.payload, previousHash |-> u.previousHash,
   entryHash |-> EntryDigest(u)]

LogInit ==
  /\ entries = <<>>
  /\ leaves = <<>>
  /\ lastHash = GenesisHash

\* Seeded fault: a payload without canonical form is let in.
AppendableAnyPayload(e) == Absent \notin {e.action, e.actor, e.tenantId}

\* What append() throws on, before it has changed anything.
Appendable(e) ==
  Absent \notin {e.action, e.actor, e.tenantId} /\ e.payload \notin Formless

NextEntry(e) ==
  [seq |-> Len(entries), action |-> e.action, actor |-> e.actor,
   tenantId |-> e.tenantId, subject |-> e.subject, payload |-> e.payload,
   previousHash |-> lastHash]

\* Seeded faults: the head of the chain is not moved; the entry goes in front.
AppendEntryStaleHead(e) ==
  /\ Len(entries) < MaxEntries
  /\ Appendable(e)
  /\ entries' = Append(entries, Sealed(NextEntry(e)))
  /\ leaves' = Append(leaves, HashLeaf(<<EntryDigest(NextEntry(e))>>))
  /\ UNCHANGED lastHash

AppendEntryInFront(e) ==
  /\ Len(entries) < MaxEntries
  /\ Appendable(e)
  /\ entries' = <<Sealed(NextEntry(e))>> \o entries
  /\ leaves' = <<HashLeaf(<<EntryDigest(NextEntry(e))>>)>> \o leaves
  /\ lastHash' = EntryDigest(NextEntry(e))

AppendEntry(e) ==
  /\ Len(entries) < MaxEntries
  /\ Appendable(e)
  /\ entries' = Append(entries, Sealed(NextEntry(e)))
  /\ leaves' = Append(leaves, HashLeaf(<<EntryDigest(NextEntry(e))>>))
  /\ lastHash' = EntryDigest(NextEntry(e))

RefuseEntry(e) ==
  /\ ~Appendable(e)
  /\ UNCHANGED logVars

LogNext == \E e \in Inputs : AppendEntry(e) \/ RefuseEntry(e)

LogSpec == LogInit /\ [][LogNext]_logVars

-----------------------------------------------------------------------------
(* Verification of a log, or of a slice of one, by somebody else *)

\* Seeded fault: the link to the entry before is not followed.
ChainFaultUnlinked(es, i) ==
  IF es[i].seq # i - 1 THEN "reordered"
  ELSE IF EntryDigest(Unsealed(es[i])) # es[i].entryHash THEN "modified" ELSE "none"

\* The first thing wrong with the entry at position i of a whole log.
ChainFault(es, i) ==
  CASE es[i].seq # i - 1 -> "reordered"
    [] es[i].seq = i - 1 /\
       es[i].previousHash # (IF i = 1 THEN GenesisHash ELSE es[i - 1].entryHash)
         -> "not linked"
    [] OTHER ->
         IF es[i].payload \in Formless \/ EntryDigest(Unsealed(es[i])) # es[i].entryHash
         THEN "modified" ELSE "none"

Verification(es, Fault(_, _)) ==
  LET bad == {i \in DOMAIN es : Fault(es, i) # "none"}
  IN  [valid   |-> bad = {},
       checked |-> IF bad = {} THEN Len(es)
                   ELSE (CHOOSE i \in bad : \A j \in bad : i <= j) - 1]

VerifyChain(es) == Verification(es, ChainFault)

\* Seeded fault: a slice is held to the rules of a whole log.
SliceFaultContiguous(es, i) == ChainFault(es, i)

\* A slice has gaps, so only the order and the digests are looked at.
SliceFault(es, i) ==
  CASE i > 1 /\ es[i].seq <= es[i - 1].seq -> "reordered"
    [] OTHER ->
         IF es[i].payload \in Formless \/ EntryDigest(Unsealed(es[i])) # es[i].entryHash
         THEN "modified" ELSE "none"

VerifyEntrySlice(es) == Verification(es, SliceFault)

\* verify.py's check_chain, of a whole log: positions, links and digests.
CheckChain(es) ==
  \A i \in DOMAIN es :
    /\ es[i].seq = i - 1
    /\ es[i].previousHash = IF i = 1 THEN GenesisHash ELSE es[i - 1].entryHash
    /\ EntryDigest(Unsealed(es[i])) = es[i].entryHash

ForTenant(tenant) == Chosen(entries, {i \in DOMAIN entries : entries[i].tenantId = tenant})

\* Seeded fault: the filter on the subject is dropped.
EntriesForTenant(tenant, subject) == ForTenant(tenant)

EntriesForSubject(tenant, subject) ==
  LET mine == ForTenant(tenant)
  IN  Chosen(mine, {i \in DOMAIN mine : mine[i].subject = subject})

\* The leaf a verifier derives from an entry: raw hash bytes, not its text.
LeafFor(entry) == <<entry.entryHash>>

-----------------------------------------------------------------------------
(* What the log promises *)

\* The fields of every entry; the hashes are covered by ChainIntact.
LogTypeOK ==
  /\ Len(entries) \in 0..MaxEntries
  /\ \A i \in DOMAIN entries :
       /\ entries[i].action \in Actions
       /\ entries[i].actor \in Actors
       /\ entries[i].tenantId \in Tenants
       /\ entries[i].subject \in Subjects \union {Absent}
       /\ entries[i].payload \in Payloads \ Formless

\* The chain, its head and the tree are three records of one history and stay
\* in step, a refused event leaving no trace in any of them.
ChainIntact ==
  /\ VerifyChain(entries) = [valid |-> TRUE, checked |-> Len(entries)]
  /\ lastHash = IF entries = <<>> THEN GenesisHash ELSE Last(entries).entryHash
  /\ leaves = [i \in DOMAIN entries |-> HashLeaf(LeafFor(entries[i]))]

\* Nothing that was recorded is ever changed, moved or removed.
AppendOnly ==
  [][IsPrefix(entries, entries') /\ IsPrefix(leaves, leaves')]_logVars

Resealed(entry, payload) == Sealed([Unsealed(entry) EXCEPT !.payload = payload])

Otherwise(payload) == Payloads \ (Formless \union {payload})

WithoutAt(es, i) == RemoveAt(es, i)

\* One edit of a stored log: a payload changed with or without its hash, an
\* entry replaced by its follower's copy, two neighbours swapped, one removed.
\* Each with the position of the first entry that no longer fits.
Edits ==
  UNION { { [log |-> [entries EXCEPT ![i].payload = p], at |-> i] :
              p \in Otherwise(entries[i].payload) }
            \union
          { [log |-> [entries EXCEPT ![i] = Resealed(@, p)], at |-> i + 1] :
              p \in IF i < Len(entries) THEN Otherwise(entries[i].payload) ELSE {} }
            \union
          ( IF i = Len(entries) THEN {}
            ELSE { [log |-> [entries EXCEPT ![i] = entries[i + 1], ![i + 1] = entries[i]],
                    at |-> i],
                   [log |-> WithoutAt(entries, i), at |-> i],
                   [log |-> [WithoutAt(entries, i) EXCEPT ![i].seq = i - 1], at |-> i] } )
          : i \in DOMAIN entries }

\* "It catches an edited payload, a reordered entry, and a deletion alike", and
\* says how many entries precede the damage; the check written independently in
\* verify.py refuses the same logs and accepts the honest one.
ChainJudged ==
  /\ CheckChain(entries)
  /\ \A e \in Edits : /\ VerifyChain(e.log) = [valid |-> FALSE, checked |-> e.at - 1]
                       /\ ~CheckChain(e.log)

\* A filtered view of an intact log is accepted though it has gaps and starts
\* anywhere, and is refused once shuffled, doubled or edited: the check a
\* bundle is signed on.
SlicesJudged ==
  \A t \in Tenants, s \in Subjects :
    LET slice == EntriesForSubject(t, s)
    IN  /\ VerifyEntrySlice(slice) = [valid |-> TRUE, checked |-> Len(slice)]
        /\ Len(slice) > 1 => ~VerifyEntrySlice(Reverse(slice)).valid
        /\ Len(slice) > 0 =>
             /\ ~VerifyEntrySlice(slice \o <<Last(slice)>>).valid
             /\ \A p \in Otherwise(slice[1].payload) :
                  ~VerifyEntrySlice([slice EXCEPT ![1].payload = p]).valid

\* Damage to the log, or to a reader's part of it, does not pass either check, and
\* neither refuses what was not damaged.
TamperEvident == ChainJudged /\ SlicesJudged

\* Why the chain holds, position by position: the inductive invariant behind
\* ChainIntact.  An entry is what its digest says, in its place, after the one
\* before it, and the tree has its hash as the leaf of the same position.
LogInv ==
  /\ entries \in Seq({entries[i] : i \in DOMAIN entries})
  /\ leaves \in Seq({leaves[i] : i \in DOMAIN leaves})
  /\ Len(leaves) = Len(entries)
  /\ \A i \in 1..Len(entries) :
       /\ entries[i] = Sealed(Unsealed(entries[i]))
       /\ entries[i].seq = i - 1
       /\ entries[i].previousHash = IF i = 1 THEN GenesisHash ELSE entries[i - 1].entryHash
       /\ leaves[i] = HashLeaf(LeafFor(entries[i]))
  /\ lastHash = IF Len(entries) = 0 THEN GenesisHash ELSE entries[Len(entries)].entryHash
  /\ LogTypeOK

-----------------------------------------------------------------------------
(* What its proofs prove *)

Before(n) == SubSeq(leaves, 1, n)

\* A proof for position i of a tree whose size the verifier knows is accepted
\* for that entry, position and root and for no other; and "the 0x00 / 0x01 prefixes
\* stop an internal node being presented as a leaf": no proof cut short by a level
\* makes the pair of hashes below a node a leaf.
InclusionExact ==
  \A i \in DOMAIN entries :
    LET proof == InclusionProof(leaves, i - 1)
        Judge(p, j, root) == VerifyInclusion(p, LeafFor(entries[j]), root)
        below == {<<leaves[i], proof.path[1]>>, <<proof.path[1], leaves[i]>>}
        size  == (Len(leaves) + 1) \div 2
        upper == [leafIndex |-> (i - 1) \div 2, treeSize |-> size, path |-> Tail(proof.path)]
    IN  /\ Judge(proof, i, Root(leaves)) = "valid"
        /\ \A j \in DOMAIN entries \ {i} :
             /\ Judge(proof, j, Root(leaves)) # "valid"
             /\ Judge([proof EXCEPT !.leafIndex = j - 1], i, Root(leaves)) # "valid"
        /\ \A n \in 0..(Len(leaves) - 1) : Judge(proof, i, Root(Before(n))) # "valid"
        /\ \A k \in DOMAIN proof.path :
             Judge([proof EXCEPT !.path = RemoveAt(@, k)], i, Root(leaves)) # "valid"
        /\ Len(leaves) > 1 =>
             \A data \in below : VerifyInclusion(upper, data, Root(leaves)) # "valid"

\* The log rewritten from position i on, every later link and hash redone.
Rewritten(i, payload) ==
  LET redo[n \in 0..Len(entries)] ==
        IF n < i THEN SubSeq(entries, 1, n)
        ELSE LET before == redo[n - 1]
             IN  Append(before, Sealed(
                   [Unsealed(entries[n]) EXCEPT
                      !.payload = IF n = i THEN payload ELSE entries[n].payload,
                      !.previousHash = IF n = 1 THEN GenesisHash
                                       ELSE before[n - 1].entryHash]))
  IN  redo[Len(entries)]

\* Every earlier root is provably a prefix of the current one, and the proof
\* of one size serves no other size and no other root.  So an anchored root shows
\* what verifyChain cannot see, "an attacker who can rewrite the whole log": a log
\* rewritten throughout passes verifyChain, and no proof that it or the honest
\* log can produce leads from a root anchored earlier to its own.
ConsistencyExact ==
  /\ \A m \in 0..Len(leaves) :
       LET proof == ConsistencyProof(leaves, m)
           Judge(r, s) == VerifyConsistency(proof, Root(Before(r)), Root(Before(s)))
       IN  /\ Judge(m, Len(leaves)) = "valid"
           /\ m # 0 => /\ \A s \in 0..(Len(leaves) - 1) : Judge(m, s) # "valid"
                       /\ \A r \in 0..Len(leaves) \ {m} : Judge(r, Len(leaves)) # "valid"
  /\ \A i \in DOMAIN entries : \A p \in Otherwise(entries[i].payload) :
       LET forged == Rewritten(i, p)
           tree   == [j \in DOMAIN forged |-> HashLeaf(LeafFor(forged[j]))]
       IN  /\ VerifyChain(forged).valid
           /\ \A m \in i..Len(entries) : \A proof \in
                {ConsistencyProof(tree, m), ConsistencyProof(leaves, m)} :
                  VerifyConsistency(proof, Root(Before(m)), Root(tree)) # "valid"

=============================================================================

--------------------------- MODULE EvidenceProofs ---------------------------
(***************************************************************************)
(* The audit log stays a chain that only grows and names what was damaged, *)
(* for any tenants, actors and payloads; and whatever the evidence         *)
(* handlers interleave, the log they share is an audit log, it names only  *)
(* bundles that exist, and a bundle holds what the log held of its run,    *)
(* which is what both verifiers accept; and what a consistency proof shows *)
(* of the log, of a rewritten one, and of an answer of the audit routes.   *)
(***************************************************************************)
EXTENDS Evidence, MerkleProofs

-----------------------------------------------------------------------------
(* The audit log *)

\* What Append does to a sequence over its own elements.
LEMMA AppendFacts ==
  ASSUME NEW s, s \in Seq({s[i] : i \in DOMAIN s}), NEW e
  PROVE  /\ Append(s, e) \in Seq({Append(s, e)[i] : i \in DOMAIN Append(s, e)})
         /\ Len(Append(s, e)) = Len(s) + 1
         /\ \A i \in 1..Len(s) : Append(s, e)[i] = s[i]
         /\ Append(s, e)[Len(s) + 1] = e
         /\ Len(s) \in Nat
<1> DEFINE S == {s[i] : i \in DOMAIN s} \union {e}
           t == Append(s, e)
<1>1. s \in Seq(S)
  OBVIOUS
<1>2. /\ t \in Seq(S) /\ Len(t) = Len(s) + 1
      /\ \A i \in 1..Len(s) : t[i] = s[i]
      /\ t[Len(s) + 1] = e
      /\ Len(s) \in Nat
  BY <1>1
<1>3. t \in Seq({t[i] : i \in DOMAIN t})
  BY <1>2
<1> QED
  BY <1>2, <1>3

\* Nothing has been recorded yet.
LEMMA LogInvInit == LogInit => LogInv
  BY MaxEntriesAssumption DEF LogInit, LogInv, LogTypeOK

\* An appended entry is sealed behind the last one.
LEMMA LogInvAppend ==
  ASSUME LogInv, NEW e \in Inputs, AppendEntry(e)
  PROVE  LogInv'
<1> DEFINE new == Sealed(NextEntry(e))
           n == Len(entries)
<1>0. /\ n \in Nat
      /\ entries' = Append(entries, new)
      /\ leaves' = Append(leaves, HashLeaf(<<EntryDigest(NextEntry(e))>>))
      /\ lastHash' = EntryDigest(NextEntry(e))
      /\ n < MaxEntries
      /\ Appendable(e)
  BY AppendFacts DEF AppendEntry, LogInv
<1>n. n \in Nat
  BY <1>0
<1>1. /\ new.seq = n /\ new.previousHash = lastHash
      /\ new.entryHash = EntryDigest(NextEntry(e))
      /\ new.action = e.action /\ new.actor = e.actor /\ new.tenantId = e.tenantId
      /\ new.subject = e.subject /\ new.payload = e.payload
      /\ Unsealed(new) = NextEntry(e)
  BY DEF Sealed, NextEntry, Unsealed
<1>2. /\ entries' \in Seq({entries'[i] : i \in DOMAIN entries'})
      /\ Len(entries') = n + 1
      /\ \A i \in 1..n : entries'[i] = entries[i]
      /\ entries'[n + 1] = new
  BY <1>0, AppendFacts, SMTT(60) DEF LogInv
<1>3. /\ leaves' \in Seq({leaves'[i] : i \in DOMAIN leaves'})
      /\ Len(leaves') = n + 1
      /\ \A i \in 1..n : leaves'[i] = leaves[i]
      /\ leaves'[n + 1] = HashLeaf(LeafFor(new))
  <2>1. leaves \in Seq({leaves[i] : i \in DOMAIN leaves}) /\ Len(leaves) = n
    BY DEF LogInv
  <2>2. LeafFor(new) = <<EntryDigest(NextEntry(e))>>
    BY <1>1 DEF LeafFor
  <2>3. leaves' = Append(leaves, HashLeaf(LeafFor(new)))
    BY <2>2, <1>0
  <2> QED
    BY <2>1, <2>3, AppendFacts
<1>4. ASSUME NEW i \in 1..(n + 1)
      PROVE  /\ entries'[i] = Sealed(Unsealed(entries'[i]))
             /\ entries'[i].seq = i - 1
             /\ entries'[i].previousHash
                  = IF i = 1 THEN GenesisHash ELSE entries'[i - 1].entryHash
             /\ leaves'[i] = HashLeaf(LeafFor(entries'[i]))
  <2>1. CASE i \in 1..n
    <3>1. entries'[i] = entries[i] /\ leaves'[i] = leaves[i]
      BY <2>1, <1>2, <1>3
    <3>2. i # 1 => i - 1 \in 1..n /\ entries'[i - 1] = entries[i - 1]
      BY <2>1, <1>2, <1>0
    <3> QED
      BY <2>1, <3>1, <3>2 DEF LogInv
  <2>2. CASE i = n + 1
    <3>1. entries'[i] = new /\ leaves'[i] = HashLeaf(LeafFor(new)) /\ i - 1 = n
      BY <2>2, <1>0, <1>2, <1>3
    <3>2. i # 1 => n \in 1..n /\ entries'[i - 1] = entries[n]
      BY <2>2, <1>2, <1>0
    <3>3. lastHash = IF i = 1 THEN GenesisHash ELSE entries'[i - 1].entryHash
      BY <2>2, <3>1, <3>2, <1>0 DEF LogInv
    <3> QED
      BY <3>1, <3>3, <1>1
  <2> QED
    BY <2>1, <2>2, <1>n
<1>5. lastHash' = IF Len(entries') = 0 THEN GenesisHash
                  ELSE entries'[Len(entries')].entryHash
  BY <1>0, <1>1, <1>2
<1>6. LogTypeOK'
  <2>1. Len(entries') \in 0..MaxEntries
    BY <1>0, <1>2, MaxEntriesAssumption
  <2>2. DOMAIN entries' = 1..(n + 1) /\ DOMAIN entries = 1..n
    BY <1>2, <1>0 DEF LogInv
  <2>3. /\ e.action \in Actions /\ e.actor \in Actors /\ e.tenantId \in Tenants
        /\ e.subject \in Subjects \union {Absent} /\ e.payload \in Payloads \ Formless
    BY <1>0 DEF Inputs, Appendable
  <2>4. ASSUME NEW i \in 1..(n + 1)
        PROVE  /\ entries'[i].action \in Actions
               /\ entries'[i].actor \in Actors
               /\ entries'[i].tenantId \in Tenants
               /\ entries'[i].subject \in Subjects \union {Absent}
               /\ entries'[i].payload \in Payloads \ Formless
    <3>1. CASE i \in 1..n
      BY <3>1, <1>2, <2>2 DEF LogInv, LogTypeOK
    <3>2. CASE i = n + 1
      BY <3>2, <1>1, <1>2, <2>3
    <3> QED
      BY <3>1, <3>2, <1>0
  <2> QED
    BY <2>1, <2>2, <2>4 DEF LogTypeOK
<1> QED
  BY <1>2, <1>3, <1>4, <1>5, <1>6 DEF LogInv

\* Every step keeps the invariant: a refused event changes nothing.
LEMMA LogInvStep == LogInv /\ [LogNext]_logVars => LogInv'
<1> SUFFICES ASSUME LogInv, [LogNext]_logVars PROVE LogInv'
  OBVIOUS
<1>1. CASE UNCHANGED logVars
  BY <1>1 DEF logVars, LogInv, LogTypeOK
<1>2. ASSUME NEW e \in Inputs, AppendEntry(e) PROVE LogInv'
  BY <1>2, LogInvAppend
<1>3. ASSUME NEW e \in Inputs, RefuseEntry(e) PROVE LogInv'
  BY <1>3, <1>1 DEF RefuseEntry
<1> QED
  BY <1>1, <1>2, <1>3 DEF LogNext

\* The inductive invariant of the log, for logs of every length.
THEOREM LogInvariant == LogSpec => []LogInv
  BY LogInvInit, LogInvStep, PTL DEF LogSpec

\* The chain verifies, its head is the last entry's hash, and the tree's leaves
\* are the entry hashes in order.
LEMMA IntactFromInv == LogInv => ChainIntact
<1> SUFFICES ASSUME LogInv PROVE ChainIntact
  OBVIOUS
<1> DEFINE n == Len(entries)
           bad == {i \in DOMAIN entries : ChainFault(entries, i) # "none"}
<1>0. n \in Nat /\ DOMAIN entries = 1..n /\ DOMAIN leaves = 1..n
  BY DEF LogInv
<1>1. ASSUME NEW i \in DOMAIN entries PROVE ChainFault(entries, i) = "none"
  <2>1. /\ entries[i].seq = i - 1
        /\ entries[i].previousHash = IF i = 1 THEN GenesisHash ELSE entries[i - 1].entryHash
        /\ entries[i] = Sealed(Unsealed(entries[i]))
        /\ entries[i].payload \notin Formless
    BY <1>0 DEF LogInv, LogTypeOK
  <2>2. EntryDigest(Unsealed(entries[i])) = entries[i].entryHash
    BY <2>1 DEF Sealed
  <2> QED
    BY <2>1, <2>2 DEF ChainFault
<1>2. bad = {}
  BY <1>1
<1>3. VerifyChain(entries) = [valid |-> TRUE, checked |-> Len(entries)]
  BY <1>2 DEF VerifyChain, Verification
<1>4. lastHash = IF entries = <<>> THEN GenesisHash ELSE Last(entries).entryHash
  <2>1. entries = <<>> <=> n = 0
    BY <1>0 DEF LogInv
  <2> QED
    BY <2>1 DEF LogInv, Last
<1>5. leaves = [i \in DOMAIN entries |-> HashLeaf(LeafFor(entries[i]))]
  BY <1>0 DEF LogInv
<1> QED
  BY <1>3, <1>4, <1>5 DEF ChainIntact

THEOREM ChainAlwaysIntact == LogSpec => []ChainIntact
  BY LogInvariant, IntactFromInv, PTL

\* The fields of every entry are what append() requires.
THEOREM LogTypeCorrect == LogSpec => []LogTypeOK
<1>1. LogInv => LogTypeOK
  BY DEF LogInv
<1> QED
  BY <1>1, LogInvariant, PTL

\* Recorded entries and leaves are never changed, moved or removed.
THEOREM LogAppendOnly == LogSpec => AppendOnly
<1>1. LogInv /\ [LogNext]_logVars
        => [IsPrefix(entries, entries') /\ IsPrefix(leaves, leaves')]_logVars
  <2> SUFFICES ASSUME LogInv, NEW e \in Inputs, AppendEntry(e)
               PROVE  IsPrefix(entries, entries') /\ IsPrefix(leaves, leaves')
    BY DEF LogNext, RefuseEntry
  <2>1. ASSUME NEW s, s \in Seq({s[i] : i \in DOMAIN s}), NEW x
        PROVE  IsPrefix(s, Append(s, x))
    <3>1. /\ Len(s) \in Nat /\ Len(Append(s, x)) = Len(s) + 1
          /\ \A i \in 1..Len(s) : Append(s, x)[i] = s[i]
          /\ DOMAIN s = 1..Len(s) /\ DOMAIN Append(s, x) = 1..(Len(s) + 1)
      BY <2>1, AppendFacts
    <3> QED
      BY <3>1 DEF IsPrefix
  <2> QED
    BY <2>1 DEF LogInv, AppendEntry
<1> QED
  BY <1>1, LogInvariant, PTL DEF LogSpec, AppendOnly

-----------------------------------------------------------------------------
(* Damage *)

\* What both checks look at, of the entry at position i.
Fits(es, i) ==
  /\ es[i].seq = i - 1
  /\ es[i].previousHash = IF i = 1 THEN GenesisHash ELSE es[i - 1].entryHash
  /\ EntryDigest(Unsealed(es[i])) = es[i].entryHash

\* A digest stands for what was hashed.
LEMMA DigestInjective == \A u, v : EntryDigest(u) = EntryDigest(v) => u = v
<1> SUFFICES ASSUME NEW u, NEW v, EntryDigest(u) = EntryDigest(v) PROVE u = v
  OBVIOUS
<1>1. [sha256 |-> <<u>>].sha256 = [sha256 |-> <<v>>].sha256
  BY Zenon DEF EntryDigest, Sha
<1>2. <<u>> = <<v>>
  BY <1>1
<1> QED
  BY <1>2

\* verifyChain finds no fault in an entry exactly when it fits and its payload has a form.
LEMMA FaultIsMisfit ==
  \A es, i : ChainFault(es, i) = "none" <=> Fits(es, i) /\ es[i].payload \notin Formless
BY DEF ChainFault, Fits

\* A log whose entries fit up to a position, and not there, is refused by both checks.
LEMMA FirstFault ==
  ASSUME NEW es, NEW m \in Nat, DOMAIN es = 1..m, NEW at \in 1..m, ~Fits(es, at),
         \A i \in 1..(at - 1) : Fits(es, i) /\ es[i].payload \notin Formless
  PROVE  VerifyChain(es) = [valid |-> FALSE, checked |-> at - 1] /\ ~CheckChain(es)
<1> DEFINE bad == {i \in DOMAIN es : ChainFault(es, i) # "none"}
<1>1. at \in bad /\ \A j \in bad : at <= j
  BY FaultIsMisfit
<1>2. bad \subseteq Nat /\ bad # {}
  BY <1>1
<1>3. (CHOOSE i \in bad : \A j \in bad : i <= j) = at
  <2> HIDE DEF bad
  <2>1. \A i \in bad : (\A j \in bad : i <= j) => i = at
    BY <1>1, <1>2
  <2> QED
    BY <1>1, <2>1
<1>4. VerifyChain(es) = [valid |-> FALSE, checked |-> at - 1]
  BY <1>2, <1>3 DEF VerifyChain, Verification
<1>5. ~CheckChain(es)
  BY DEF CheckChain, Fits
<1> QED
  BY <1>4, <1>5

\* The entries of a log fit, and each is the record of its fields.
LEMMA EntriesFit ==
  ASSUME LogInv
  PROVE  /\ Len(entries) \in Nat /\ DOMAIN entries = 1..Len(entries)
         /\ \A i \in 1..Len(entries) :
              /\ Fits(entries, i) /\ entries[i].payload \notin Formless
              /\ entries[i] = Sealed(Unsealed(entries[i]))
<1>1. Len(entries) \in Nat /\ DOMAIN entries = 1..Len(entries)
  BY DEF LogInv
<1>2. ASSUME NEW i \in 1..Len(entries)
      PROVE  /\ Fits(entries, i) /\ entries[i].payload \notin Formless
             /\ entries[i] = Sealed(Unsealed(entries[i]))
  <2>1. /\ entries[i] = Sealed(Unsealed(entries[i])) /\ entries[i].seq = i - 1
        /\ entries[i].previousHash = IF i = 1 THEN GenesisHash ELSE entries[i - 1].entryHash
        /\ entries[i].payload \notin Formless
    BY <1>1 DEF LogInv, LogTypeOK
  <2>2. EntryDigest(Unsealed(entries[i])) = entries[i].entryHash
    BY <2>1 DEF Sealed
  <2> QED
    BY <2>1, <2>2 DEF Fits
<1> QED
  BY <1>1, <1>2

\* A payload written over in place: its entry no longer hashes to its entryHash.
LEMMA PayloadEdited ==
  ASSUME LogInv, NEW i \in 1..Len(entries), NEW p \in Otherwise(entries[i].payload),
         NEW log, log = [entries EXCEPT ![i].payload = p]
  PROVE  VerifyChain(log) = [valid |-> FALSE, checked |-> i - 1] /\ ~CheckChain(log)
<1>1. PICK e, edited : e = entries[i] /\ edited = [e EXCEPT !.payload = p]
  OBVIOUS
<1>2. /\ DOMAIN log = 1..Len(entries) /\ log[i] = edited
      /\ \A j \in 1..Len(entries) : j # i => log[j] = entries[j]
  BY <1>1, EntriesFit
<1>3. e = Sealed(Unsealed(e)) /\ EntryDigest(Unsealed(e)) = e.entryHash
  BY <1>1, EntriesFit DEF Fits
<1>4. edited.payload = p /\ edited.entryHash = e.entryHash /\ p # e.payload
  BY <1>1, <1>3 DEF Sealed, Otherwise
<1>5. Unsealed(edited).payload = p /\ Unsealed(e).payload = e.payload
  BY <1>4 DEF Unsealed
<1>6. EntryDigest(Unsealed(edited)) # edited.entryHash
  <2>1. SUFFICES ASSUME EntryDigest(Unsealed(edited)) = EntryDigest(Unsealed(e)) PROVE FALSE
    BY <1>3, <1>4
  <2>2. Unsealed(edited) = Unsealed(e)
    BY <2>1, DigestInjective, Zenon
  <2> QED
    BY <1>4, <1>5, <2>2
<1>7. ~Fits(log, i)
  BY <1>2, <1>6 DEF Fits
<1>8. \A j \in 1..(i - 1) : Fits(log, j) /\ log[j].payload \notin Formless
  BY <1>2, EntriesFit DEF Fits
<1> QED
  BY <1>2, <1>7, <1>8, EntriesFit, FirstFault

\* An entry hashed anew over another payload: its follower points at the hash it had.
LEMMA EntryResealed ==
  ASSUME LogInv, NEW i \in 1..Len(entries), i < Len(entries),
         NEW p \in Otherwise(entries[i].payload),
         NEW log, log = [entries EXCEPT ![i] = Resealed(entries[i], p)]
  PROVE  VerifyChain(log) = [valid |-> FALSE, checked |-> i] /\ ~CheckChain(log)
<1>1. PICK e, edited : e = entries[i] /\ edited = Resealed(e, p)
  OBVIOUS
<1>2. /\ DOMAIN log = 1..Len(entries) /\ log[i] = edited
      /\ \A j \in 1..Len(entries) : j # i => log[j] = entries[j]
  BY <1>1, EntriesFit
<1>3. e = Sealed(Unsealed(e)) /\ EntryDigest(Unsealed(e)) = e.entryHash
      /\ e.seq = i - 1 /\ p # e.payload /\ p \notin Formless
  BY <1>1, EntriesFit DEF Fits, Otherwise
<1>4. PICK u : u = [Unsealed(e) EXCEPT !.payload = p]
  OBVIOUS
<1>5. /\ u.seq = e.seq /\ u.previousHash = e.previousHash /\ u.payload = p
      /\ Unsealed(Sealed(u)) = u
  BY <1>4 DEF Unsealed, Sealed
<1>6. /\ edited = Sealed(u) /\ edited.seq = e.seq /\ edited.previousHash = e.previousHash
      /\ edited.payload = p /\ edited.entryHash = EntryDigest(u)
  BY <1>1, <1>4, <1>5 DEF Resealed, Sealed
<1>7. edited.entryHash # e.entryHash
  <2>1. Unsealed(e).payload = e.payload
    BY DEF Unsealed
  <2> QED
    BY <1>3, <1>5, <1>6, <2>1, DigestInjective
<1>8. Fits(log, i) /\ log[i].payload \notin Formless
  BY <1>1, <1>2, <1>3, <1>5, <1>6, EntriesFit DEF Fits
<1>9. \A j \in 1..i : Fits(log, j) /\ log[j].payload \notin Formless
  BY <1>2, <1>8, EntriesFit DEF Fits
<1>10. ~Fits(log, i + 1)
  BY <1>1, <1>2, <1>7, EntriesFit DEF Fits
<1>11. Len(entries) \in Nat /\ i + 1 \in 1..Len(entries) /\ (i + 1) - 1 = i
  BY EntriesFit
<1>12. \A j \in 1..((i + 1) - 1) : Fits(log, j) /\ log[j].payload \notin Formless
  BY <1>9, <1>11
<1>13. VerifyChain(log) = [valid |-> FALSE, checked |-> (i + 1) - 1] /\ ~CheckChain(log)
  BY <1>2, <1>10, <1>11, <1>12, FirstFault
<1> QED
  BY <1>11, <1>13

\* Two neighbours swapped: the first is out of its place.
LEMMA NeighboursSwapped ==
  ASSUME LogInv, NEW i \in 1..Len(entries), i # Len(entries),
         NEW log, log = [entries EXCEPT ![i] = entries[i + 1], ![i + 1] = entries[i]]
  PROVE  VerifyChain(log) = [valid |-> FALSE, checked |-> i - 1] /\ ~CheckChain(log)
<1>1. /\ DOMAIN log = 1..Len(entries) /\ log[i] = entries[i + 1]
      /\ \A j \in 1..(i - 1) : log[j] = entries[j]
  BY EntriesFit
<1>2. ~Fits(log, i)
  BY <1>1, EntriesFit DEF Fits
<1>3. \A j \in 1..(i - 1) : Fits(log, j) /\ log[j].payload \notin Formless
  BY <1>1, EntriesFit, SMTT(60) DEF Fits
<1> QED
  BY <1>1, <1>2, <1>3, EntriesFit, FirstFault

\* An entry removed: its follower has the wrong number, or, renumbered, the wrong hash.
LEMMA EntryRemoved ==
  ASSUME LogInv, NEW i \in 1..Len(entries), i # Len(entries),
         NEW log, log \in {WithoutAt(entries, i), [WithoutAt(entries, i) EXCEPT ![i].seq = i - 1]}
  PROVE  VerifyChain(log) = [valid |-> FALSE, checked |-> i - 1] /\ ~CheckChain(log)
<1>1. PICK rest : rest = WithoutAt(entries, i)
  OBVIOUS
<1>2. /\ DOMAIN rest = 1..(Len(entries) - 1) /\ rest[i] = entries[i + 1]
      /\ \A j \in 1..(i - 1) : rest[j] = entries[j]
  <2>1. PICK S : entries \in Seq(S)
    BY DEF LogInv
  <2>2. Len(entries) \in Nat /\ i + 1 \in 1..Len(entries) /\ i - 1 \in 0..Len(entries)
    BY EntriesFit
  <2>3. PICK front, back : /\ front = SubSeq(entries, 1, i - 1)
                           /\ back = SubSeq(entries, i + 1, Len(entries))
    OBVIOUS
  <2>4. /\ front \in Seq(S) /\ Len(front) = i - 1
        /\ \A j \in 1..(i - 1) : front[j] = entries[j]
    BY <2>1, <2>2, <2>3
  <2>5. /\ back \in Seq(S) /\ Len(back) = Len(entries) - i
        /\ back[1] = entries[i + 1]
    BY <2>1, <2>2, <2>3
  <2>6. rest = front \o back
    BY <1>1, <2>3 DEF WithoutAt, RemoveAt
  <2>7. rest \in Seq(S) /\ Len(rest) = Len(entries) - 1
    BY <2>2, <2>4, <2>5, <2>6
  <2>8. rest[i] = entries[i + 1] /\ \A j \in 1..(i - 1) : rest[j] = entries[j]
    BY <2>2, <2>4, <2>5, <2>6
  <2> QED
    BY <2>2, <2>7, <2>8
<1>3. PICK e : e = entries[i + 1]
  OBVIOUS
<1>4. e = Sealed(Unsealed(e)) /\ EntryDigest(Unsealed(e)) = e.entryHash /\ e.seq = i
  BY <1>3, EntriesFit DEF Fits
<1>5. /\ DOMAIN log = 1..(Len(entries) - 1)
      /\ log[i] = e \/ log[i] = [e EXCEPT !.seq = i - 1]
      /\ \A j \in 1..(i - 1) : log[j] = entries[j]
  BY <1>1, <1>2, <1>3, EntriesFit
<1>6. ~Fits(log, i)
  <2>1. CASE log[i] = e
    BY <1>4, <2>1, EntriesFit DEF Fits
  <2>2. CASE log[i] = [e EXCEPT !.seq = i - 1]
    <3>1. PICK edited : edited = [e EXCEPT !.seq = i - 1]
      OBVIOUS
    <3>2. edited.seq = i - 1 /\ edited.entryHash = e.entryHash
      BY <1>4, <3>1 DEF Sealed
    <3>3. Unsealed(edited).seq = i - 1 /\ Unsealed(e).seq = i
      BY <1>4, <3>2 DEF Unsealed
    <3> QED
      BY <1>4, <2>2, <3>1, <3>2, <3>3, DigestInjective, EntriesFit DEF Fits
  <2> QED
    BY <1>5, <2>1, <2>2
<1>7. \A j \in 1..(i - 1) : Fits(log, j) /\ log[j].payload \notin Formless
  BY <1>5, EntriesFit DEF Fits
<1>8. Len(entries) - 1 \in Nat /\ i \in 1..(Len(entries) - 1)
  BY EntriesFit
<1> QED
  BY <1>5, <1>6, <1>7, <1>8, FirstFault

\* verifyChain of audit-log.ts and check_chain of verify.py accept the log as it was recorded
\* and refuse it with a payload changed, an entry resealed, two neighbours swapped or one
\* removed, renumbered or not, and verifyChain says how many entries precede the damage:
\* the first half of TamperEvident, for logs of every length.
THEOREM DamageFound == LogSpec => []ChainJudged
<1>1. LogInv => ChainJudged
  <2> SUFFICES ASSUME LogInv PROVE ChainJudged
    OBVIOUS
  <2>1. CheckChain(entries)
    BY EntriesFit DEF CheckChain, Fits
  <2>2. ASSUME NEW e \in Edits
        PROVE  VerifyChain(e.log) = [valid |-> FALSE, checked |-> e.at - 1] /\ ~CheckChain(e.log)
    <3>1. PICK i \in 1..Len(entries) :
            \/ \E p \in Otherwise(entries[i].payload) :
                 e = [log |-> [entries EXCEPT ![i].payload = p], at |-> i]
            \/ /\ i < Len(entries)
               /\ \E p \in Otherwise(entries[i].payload) :
                    e = [log |-> [entries EXCEPT ![i] = Resealed(entries[i], p)], at |-> i + 1]
            \/ /\ i # Len(entries)
               /\ e = [log |-> [entries EXCEPT ![i] = entries[i + 1], ![i + 1] = entries[i]],
                       at |-> i]
            \/ /\ i # Len(entries)
               /\ \E log \in {WithoutAt(entries, i), [WithoutAt(entries, i) EXCEPT ![i].seq = i - 1]} :
                    e = [log |-> log, at |-> i]
      BY EntriesFit, ZenonT(90) DEF Edits
    <3>2. CASE \E p \in Otherwise(entries[i].payload) :
                 e = [log |-> [entries EXCEPT ![i].payload = p], at |-> i]
      <4>1. PICK p \in Otherwise(entries[i].payload) :
              e = [log |-> [entries EXCEPT ![i].payload = p], at |-> i]
        BY <3>2
      <4>2. e.log = [entries EXCEPT ![i].payload = p] /\ e.at = i
        BY <4>1
      <4> QED
        BY <4>2, PayloadEdited
    <3>3. CASE /\ i < Len(entries)
               /\ \E p \in Otherwise(entries[i].payload) :
                    e = [log |-> [entries EXCEPT ![i] = Resealed(entries[i], p)], at |-> i + 1]
      <4>1. PICK p \in Otherwise(entries[i].payload) :
              e = [log |-> [entries EXCEPT ![i] = Resealed(entries[i], p)], at |-> i + 1]
        BY <3>3
      <4>2. e.log = [entries EXCEPT ![i] = Resealed(entries[i], p)] /\ e.at - 1 = i
        BY <4>1
      <4> QED
        BY <3>3, <4>2, EntryResealed
    <3>4. CASE /\ i # Len(entries)
               /\ e = [log |-> [entries EXCEPT ![i] = entries[i + 1], ![i + 1] = entries[i]],
                       at |-> i]
      <4>1. /\ e.log = [entries EXCEPT ![i] = entries[i + 1], ![i + 1] = entries[i]]
            /\ e.at = i
        BY <3>4
      <4> QED
        BY <3>4, <4>1, NeighboursSwapped
    <3>5. CASE /\ i # Len(entries)
               /\ \E log \in {WithoutAt(entries, i), [WithoutAt(entries, i) EXCEPT ![i].seq = i - 1]} :
                    e = [log |-> log, at |-> i]
      <4>1. /\ e.log \in {WithoutAt(entries, i), [WithoutAt(entries, i) EXCEPT ![i].seq = i - 1]}
            /\ e.at = i
        BY <3>5
      <4> QED
        BY <3>5, <4>1, EntryRemoved
    <3> QED
      BY <3>1, <3>2, <3>3, <3>4, <3>5
  <2> QED
    BY <2>1, <2>2 DEF ChainJudged
<1> QED
  BY <1>1, LogInvariant, PTL

-----------------------------------------------------------------------------
(* A reader's part of a log *)

\* Entries of a log in their order, each the record of its fields.
Slice(es) ==
  /\ \E S : es \in Seq(S)
  /\ \A i \in DOMAIN es :
       /\ es[i] = Sealed(Unsealed(es[i]))
       /\ es[i].seq \in Nat /\ es[i].payload \notin Formless
  /\ \A i, j \in DOMAIN es : i < j => es[i].seq < es[j].seq

\* What is chosen from a slice is a slice.
LEMMA SliceOfSlice ==
  ASSUME NEW es, Slice(es), NEW I
  PROVE  Slice(Chosen(es, I))
<1>1. PICK S : es \in Seq(S)
  BY DEF Slice
<1>2. PICK c : c = Chosen(es, I)
  OBVIOUS
<1>3. c \in Seq(S) /\ \E at : Places(es, I, Len(es), c, at)
  BY <1>1, <1>2, ChosenPlaces
<1>4. PICK at : Places(es, I, Len(es), c, at)
  BY <1>3
<1>5. DOMAIN es = 1..Len(es) /\ DOMAIN c = 1..Len(c) /\ Len(es) \in Nat /\ Len(c) \in Nat
  BY <1>1, <1>3
<1>6. /\ \A k \in DOMAIN c : at[k] \in DOMAIN es /\ c[k] = es[at[k]]
      /\ \A j, k \in DOMAIN c : j < k => at[j] < at[k]
  BY <1>4, <1>5 DEF Places
<1>7. \A i \in DOMAIN c :
        /\ c[i] = Sealed(Unsealed(c[i]))
        /\ c[i].seq \in Nat /\ c[i].payload \notin Formless
  BY <1>6 DEF Slice
<1>8. \A i, j \in DOMAIN c : i < j => c[i].seq < c[j].seq
  BY <1>6 DEF Slice
<1> QED
  BY <1>2, <1>3, <1>7, <1>8 DEF Slice

\* The log is a slice of itself, and so is what a tenant reads of a subject.
LEMMA SubjectSlice ==
  ASSUME LogInv, NEW t, NEW s
  PROVE  Slice(EntriesForSubject(t, s))
<1>1. Slice(entries)
  <2>1. \E S : entries \in Seq(S)
    BY DEF LogInv
  <2>2. \A i \in 1..Len(entries) : entries[i].seq = i - 1
    BY EntriesFit DEF Fits
  <2> QED
    BY <2>1, <2>2, EntriesFit DEF Slice
<1> QED
  BY <1>1, SliceOfSlice DEF EntriesForSubject, ForTenant

\* verifyEntrySlice finds nothing wrong with a slice.
LEMMA SliceAccepted ==
  ASSUME NEW es, Slice(es)
  PROVE  VerifyEntrySlice(es) = [valid |-> TRUE, checked |-> Len(es)]
<1>1. ASSUME NEW i \in DOMAIN es PROVE SliceFault(es, i) = "none"
  <2>1. PICK S : es \in Seq(S)
    BY DEF Slice
  <2>2. DOMAIN es = 1..Len(es) /\ Len(es) \in Nat
    BY <2>1
  <2>3. ~(i > 1 /\ es[i].seq <= es[i - 1].seq)
    <3>1. SUFFICES ASSUME i > 1 PROVE ~(es[i].seq <= es[i - 1].seq)
      OBVIOUS
    <3>2. i - 1 \in DOMAIN es /\ i - 1 < i
      BY <2>2, <3>1
    <3> QED
      BY <3>2 DEF Slice
  <2>4. EntryDigest(Unsealed(es[i])) = es[i].entryHash /\ es[i].payload \notin Formless
    <3>1. PICK e : e = es[i] /\ e = Sealed(Unsealed(e)) /\ e.payload \notin Formless
      BY DEF Slice
    <3>2. EntryDigest(Unsealed(e)) = e.entryHash
      BY <3>1 DEF Sealed
    <3> QED
      BY <3>1, <3>2
  <2> QED
    BY <2>3, <2>4 DEF SliceFault
<1>2. {i \in DOMAIN es : SliceFault(es, i) # "none"} = {}
  BY <1>1
<1> QED
  BY <1>2 DEF VerifyEntrySlice, Verification

\* One entry in the wrong place, or that its digest does not fit, is enough.
LEMMA SliceRefused ==
  ASSUME NEW es, NEW i \in DOMAIN es,
         \/ i > 1 /\ es[i].seq <= es[i - 1].seq
         \/ EntryDigest(Unsealed(es[i])) # es[i].entryHash
  PROVE  ~VerifyEntrySlice(es).valid
<1>1. SliceFault(es, i) # "none"
  BY DEF SliceFault
<1>2. {j \in DOMAIN es : SliceFault(es, j) # "none"} # {}
  BY <1>1
<1> QED
  BY <1>2 DEF VerifyEntrySlice, Verification

\* What verifyEntrySlice catches.
LEMMA SliceJudged ==
  ASSUME NEW es, Slice(es)
  PROVE  /\ Len(es) > 1 => ~VerifyEntrySlice(Reverse(es)).valid
         /\ Len(es) > 0 =>
              /\ ~VerifyEntrySlice(es \o <<Last(es)>>).valid
              /\ \A p \in Otherwise(es[1].payload) :
                   ~VerifyEntrySlice([es EXCEPT ![1].payload = p]).valid
<1>1. PICK S : es \in Seq(S)
  BY DEF Slice
<1>2. PICK n \in Nat : n = Len(es) /\ DOMAIN es = 1..n
  BY <1>1
<1>3. ASSUME n > 1 PROVE ~VerifyEntrySlice(Reverse(es)).valid
  <2>1. PICK back : back = Reverse(es)
    OBVIOUS
  <2>2. DOMAIN back = 1..n /\ back[1] = es[n] /\ back[2] = es[n - 1]
    BY <1>2, <1>3, <2>1 DEF Reverse
  <2>3. es[n - 1].seq < es[n].seq /\ es[n].seq \in Nat /\ es[n - 1].seq \in Nat
    BY <1>2, <1>3 DEF Slice
  <2>4. PICK i : i = 2
    OBVIOUS
  <2>5. i \in DOMAIN back /\ i > 1 /\ back[i].seq <= back[i - 1].seq
    BY <1>3, <2>2, <2>3, <2>4
  <2> QED
    BY <2>1, <2>5, SliceRefused
<1>4. ASSUME n > 0 PROVE ~VerifyEntrySlice(es \o <<Last(es)>>).valid
  <2>1. PICK twice : twice = es \o <<Last(es)>>
    OBVIOUS
  <2>2. es[n] \in S /\ Last(es) = es[n]
    BY <1>1, <1>2, <1>4 DEF Last
  <2>3. <<es[n]>> \in Seq(S) /\ Len(<<es[n]>>) = 1 /\ <<es[n]>>[1] = es[n]
    BY <2>2
  <2>4. DOMAIN twice = 1..(n + 1) /\ twice[n + 1] = es[n] /\ twice[n] = es[n]
    BY <1>1, <1>2, <1>4, <2>1, <2>2, <2>3
  <2>5. PICK i : i = n + 1
    OBVIOUS
  <2>6. es[n].seq \in Nat
    BY <1>2, <1>4 DEF Slice
  <2>7. i \in DOMAIN twice /\ i > 1 /\ twice[i].seq <= twice[i - 1].seq
    BY <1>4, <2>4, <2>5, <2>6
  <2> QED
    BY <2>1, <2>7, SliceRefused
<1>5. ASSUME n > 0, NEW p \in Otherwise(es[1].payload)
      PROVE  ~VerifyEntrySlice([es EXCEPT ![1].payload = p]).valid
  <2>1. PICK log : log = [es EXCEPT ![1].payload = p]
    OBVIOUS
  <2>2. PICK e, edited : e = es[1] /\ edited = [e EXCEPT !.payload = p]
    OBVIOUS
  <2>3. 1 \in DOMAIN log /\ log[1] = edited
    BY <1>2, <1>5, <2>1, <2>2
  <2>4. e = Sealed(Unsealed(e))
    BY <1>2, <1>5, <2>2 DEF Slice
  <2>5. EntryDigest(Unsealed(e)) = e.entryHash
    BY <2>4 DEF Sealed
  <2>6. edited.payload = p /\ edited.entryHash = e.entryHash /\ p # e.payload
    BY <1>5, <2>2, <2>4 DEF Sealed, Otherwise
  <2>7. Unsealed(edited).payload = p /\ Unsealed(e).payload = e.payload
    BY <2>6 DEF Unsealed
  <2>8. EntryDigest(Unsealed(edited)) # edited.entryHash
    <3>1. SUFFICES ASSUME EntryDigest(Unsealed(edited)) = EntryDigest(Unsealed(e)) PROVE FALSE
      BY <2>5, <2>6
    <3>2. Unsealed(edited) = Unsealed(e)
      BY <3>1, DigestInjective, Zenon
    <3> QED
      BY <2>6, <2>7, <3>2
  <2> QED
    BY <2>1, <2>3, <2>8, SliceRefused
<1> QED
  BY <1>2, <1>3, <1>4, <1>5

\* A tenant's entries for a subject are accepted, and refused once they are in another order,
\* one of them is doubled or its payload is changed: the second half of TamperEvident.
THEOREM SlicesAlwaysJudged == LogSpec => []SlicesJudged
<1>1. LogInv => SlicesJudged
  BY SubjectSlice, SliceAccepted, SliceJudged, Zenon DEF SlicesJudged
<1> QED
  BY <1>1, LogInvariant, PTL

\* Damage to the log, or to a tenant's part of it, is found, and none where there is none.
THEOREM DamageEvident == LogSpec => []TamperEvident
<1>1. ChainJudged /\ SlicesJudged => TamperEvident
  BY DEF TamperEvident
<1> QED
  BY <1>1, DamageFound, SlicesAlwaysJudged, PTL

-----------------------------------------------------------------------------
(* Inclusion proofs *)

\* The leaf of an entry is no other entry's: the two have different numbers.
LEMMA LeavesApart ==
  ASSUME LogInv
  PROVE  /\ Len(leaves) \in Nat /\ Len(leaves) = Len(entries) /\ DOMAIN entries = 1..Len(leaves)
         /\ IsSeq(leaves) /\ OfLeaves(leaves)
         /\ \A i \in 1..Len(leaves) : leaves[i] = HashLeaf(LeafFor(entries[i]))
         /\ \A i, j \in 1..Len(leaves) : i # j => HashLeaf(LeafFor(entries[j])) # leaves[i]
<1>1. /\ Len(leaves) \in Nat /\ Len(leaves) = Len(entries) /\ DOMAIN entries = 1..Len(leaves)
      /\ IsSeq(leaves)
  BY EntriesFit DEF LogInv, IsSeq
<1>2. \A i \in 1..Len(leaves) : leaves[i] = HashLeaf(<<entries[i].entryHash>>)
  BY <1>1 DEF LogInv, LeafFor
<1>3. OfLeaves(leaves)
  BY <1>2 DEF OfLeaves
<1>4. ASSUME NEW i \in 1..Len(leaves), NEW j \in 1..Len(leaves), i # j
      PROVE  HashLeaf(<<entries[j].entryHash>>) # leaves[i]
  <2>1. EntryDigest(Unsealed(entries[i])) = entries[i].entryHash /\ entries[i].seq = i - 1
    BY <1>1, EntriesFit DEF Fits
  <2>2. EntryDigest(Unsealed(entries[j])) = entries[j].entryHash /\ entries[j].seq = j - 1
    BY <1>1, EntriesFit DEF Fits
  <2>3. Unsealed(entries[i]) # Unsealed(entries[j])
    <3>1. Unsealed(entries[i]).seq = i - 1 /\ Unsealed(entries[j]).seq = j - 1
      BY <2>1, <2>2 DEF Unsealed
    <3> QED
      BY <1>1, <1>4, <3>1
  <2>4. entries[i].entryHash # entries[j].entryHash
    BY <2>1, <2>2, <2>3, DigestInjective
  <2> QED
    BY <1>2, <2>4, LeafInjective
<1> QED
  BY <1>1, <1>2, <1>3, <1>4 DEF LeafFor

\* A path from which a sibling was removed is too short.
LEMMA SiblingRemoved ==
  ASSUME NEW p, IsSeq(p), NEW k \in DOMAIN p
  PROVE  Len(RemoveAt(p, k)) \in Nat /\ Len(RemoveAt(p, k)) # Len(p)
<1>1. PICK S : p \in Seq(S)
  BY DEF IsSeq
<1>2. PICK front, back : front = SubSeq(p, 1, k - 1) /\ back = SubSeq(p, k + 1, Len(p))
  OBVIOUS
<1>3. k \in 1..Len(p) /\ Len(p) \in Nat
  BY <1>1
<1>4. front \in Seq(S) /\ Len(front) = k - 1
  BY <1>1, <1>2, <1>3
<1>5. back \in Seq(S) /\ Len(back) = Len(p) - k
  <2>1. CASE k = Len(p)
    <3>1. back = <<>>
      BY <1>1, <1>2, <1>3, <2>1
    <3> QED
      BY <1>3, <2>1, <3>1
  <2>2. CASE k < Len(p)
    BY <1>1, <1>2, <1>3, <2>2
  <2> QED
    BY <1>3, <2>1, <2>2
<1>6. RemoveAt(p, k) = front \o back
  BY <1>2 DEF RemoveAt
<1>7. Len(front \o back) = Len(front) + Len(back)
  BY <1>4, <1>5
<1> QED
  BY <1>3, <1>4, <1>5, <1>6, <1>7, SMTT(60)

\* The log as it was, when it had m entries.
LEMMA LogUpTo ==
  ASSUME LogInv, NEW m \in 0..Len(leaves)
  PROVE  /\ Len(Before(m)) = m /\ OfLeaves(Before(m)) /\ SameUpTo(leaves, Before(m), m)
         /\ IsSeq(Before(m))
<1>1. PICK S : leaves \in Seq(S)
  BY LeavesApart DEF IsSeq
<1>2. Len(Before(m)) = m /\ \A i \in 1..m : Before(m)[i] = leaves[i]
  BY <1>1 DEF Before
<1>3. \A i \in 1..m : i \in 1..Len(leaves)
  BY LeavesApart
<1>4. OfLeaves(Before(m))
  BY <1>2, <1>3, LeavesApart DEF OfLeaves
<1>5. Before(m) \in Seq(S)
  BY <1>1 DEF Before
<1> QED
  BY <1>2, <1>4, <1>5 DEF IsSeq, SameUpTo

\* What a proof of an entry is accepted for: its conjuncts, one by one.
LEMMA ProofJudged ==
  ASSUME LogInv, NEW i \in 1..Len(leaves), NEW proof, proof = InclusionProof(leaves, i - 1)
  PROVE  /\ VerifyInclusion(proof, LeafFor(entries[i]), Root(leaves)) = "valid"
         /\ \A j \in (1..Len(leaves)) \ {i} :
              /\ VerifyInclusion(proof, LeafFor(entries[j]), Root(leaves)) # "valid"
              /\ VerifyInclusion([proof EXCEPT !.leafIndex = j - 1], LeafFor(entries[i]),
                                 Root(leaves)) # "valid"
         /\ \A m \in 0..(Len(leaves) - 1) :
              VerifyInclusion(proof, LeafFor(entries[i]), Root(Before(m))) # "valid"
         /\ \A k \in DOMAIN proof.path :
              VerifyInclusion([proof EXCEPT !.path = RemoveAt(@, k)], LeafFor(entries[i]),
                              Root(leaves)) # "valid"
<1>1. PICK h \in Nat : h = i - 1
  BY LeavesApart
<1>2. h \in 0..(Len(leaves) - 1) /\ h + 1 = i
  BY <1>1, LeavesApart
<1>3. PICK p : p = InclusionPath(leaves, h)
  OBVIOUS
<1>4. proof = Claims(leaves, h, p) /\ proof = InclusionProof(leaves, h) /\ proof.path = p
  BY <1>1, <1>3 DEF InclusionProof, Claims
<1>5. IsSeq(p) /\ Len(p) \in Nat
  BY <1>2, <1>3, LeavesApart, InclusionPathIsSeq
<1>6. \A root : VerifyInclusion(proof, LeafFor(entries[i]), root) = "valid" <=> root = Root(leaves)
  <2>1. HashLeaf(LeafFor(entries[i])) = leaves[h + 1]
    BY <1>2, LeavesApart
  <2> QED
    BY <1>2, <1>4, <2>1, LeavesApart, InclusionComplete
<1>7. ASSUME NEW j \in (1..Len(leaves)) \ {i}
      PROVE  VerifyInclusion(proof, LeafFor(entries[j]), Root(leaves)) # "valid"
  <2>1. SUFFICES ASSUME VerifyInclusion(Claims(leaves, h, p), LeafFor(entries[j]), Root(leaves))
                          = "valid"
                 PROVE  FALSE
    BY <1>4
  <2>2. HashLeaf(LeafFor(entries[j])) = leaves[h + 1]
    BY <1>2, <1>5, <2>1, LeavesApart, InclusionSound
  <2> QED
    BY <1>2, <2>2, LeavesApart
<1>8. ASSUME NEW j \in (1..Len(leaves)) \ {i}
      PROVE  VerifyInclusion([proof EXCEPT !.leafIndex = j - 1], LeafFor(entries[i]), Root(leaves))
               # "valid"
  <2>1. PICK g \in Nat : g = j - 1
    BY LeavesApart
  <2>2. g \in 0..(Len(leaves) - 1) /\ g + 1 = j
    BY <2>1, LeavesApart
  <2>3. [proof EXCEPT !.leafIndex = j - 1] = Claims(leaves, g, p)
    BY <1>4, <2>1 DEF Claims
  <2>4. SUFFICES ASSUME VerifyInclusion(Claims(leaves, g, p), LeafFor(entries[i]), Root(leaves))
                          = "valid"
                 PROVE  FALSE
    BY <2>3
  <2>5. HashLeaf(LeafFor(entries[i])) = leaves[g + 1]
    BY <1>5, <2>2, <2>4, LeavesApart, InclusionSound
  <2> QED
    BY <2>2, <2>5, LeavesApart
<1>9. ASSUME NEW m \in 0..(Len(leaves) - 1) PROVE Root(Before(m)) # Root(leaves)
  <2>1. Len(Before(m)) = m /\ m \in Nat /\ m # Len(leaves) /\ OfLeaves(Before(m))
    BY LogUpTo, LeavesApart
  <2>2. Len(Before(m)) \in Nat /\ Len(Before(m)) # Len(leaves)
    BY <2>1
  <2> QED
    BY <2>1, <2>2, LeavesApart, RootBinds
<1>10. ASSUME NEW k \in DOMAIN p
       PROVE  VerifyInclusion([proof EXCEPT !.path = RemoveAt(@, k)], LeafFor(entries[i]),
                              Root(leaves)) # "valid"
  <2>1. PICK q : q = RemoveAt(p, k)
    OBVIOUS
  <2>2. Len(q) \in Nat /\ Len(q) # Len(p)
    BY <1>5, <2>1, SiblingRemoved
  <2>3. [proof EXCEPT !.path = RemoveAt(@, k)] = Claims(leaves, h, q)
    BY <1>4, <2>1 DEF Claims
  <2>4. SUFFICES ASSUME VerifyInclusion(Claims(leaves, h, q), LeafFor(entries[i]), Root(leaves))
                          = "valid"
                 PROVE  FALSE
    BY <2>3
  <2>5. Len(q) = Len(InclusionPath(leaves, h))
    BY <1>2, <2>2, <2>4, LeavesApart, InclusionSound
  <2> QED
    BY <1>3, <2>2, <2>5
<1> QED
  BY <1>4, <1>6, <1>7, <1>8, <1>9, <1>10

\* An inclusion proof is accepted for its entry, at its position, under the root of its log,
\* and for no other entry, position or earlier root, nor cut short, for logs of every length.
THEOREM InclusionAlwaysExact == LogSpec => []InclusionExact
<1>1. ASSUME LogInv PROVE InclusionExact
  <2>1. SUFFICES
          ASSUME NEW i \in 1..Len(leaves), NEW proof, proof = InclusionProof(leaves, i - 1),
                 NEW upper, upper = [leafIndex |-> (i - 1) \div 2,
                                     treeSize |-> (Len(leaves) + 1) \div 2,
                                     path |-> Tail(proof.path)],
                 Len(leaves) > 1,
                 NEW data, data \in {<<leaves[i], proof.path[1]>>, <<proof.path[1], leaves[i]>>}
          PROVE  VerifyInclusion(upper, data, Root(leaves)) # "valid"
    BY <1>1, LeavesApart, ProofJudged DEF InclusionExact
  <2>2. PICK h \in Nat : h = i - 1
    BY <1>1, LeavesApart
  <2>3. h \in 0..(Len(leaves) - 1) /\ Len(leaves) \in Nat
    BY <1>1, <2>2, LeavesApart
  <2>4. upper = Upper(leaves, h)
    BY <2>1, <2>2 DEF Upper, InclusionProof
  <2> QED
    BY <2>1, <2>3, <2>4, CutShort
<1> QED
  BY <1>1, LogInvariant, PTL

-----------------------------------------------------------------------------
(* The evidence handlers *)

\* An event a handler appends is an input of append().
LEMMA EventIsInput ==
  ASSUME NEW a \in {"event", "evidence.bundled"}, NEW r \in Runs, NEW p \in Payloads,
         owner \in [Runs -> Tenants]
  PROVE  Event(a, r, p) \in Inputs
<1>1. /\ a \in Actions /\ Server \in Actors /\ owner[r] \in Tenants /\ r \in Subjects
  BY ServerAssumption DEF Runs
<1> QED
  BY <1>1 DEF Event, Inputs

\* Replacing one request's locals leaves the others'.
LEMMA PutFacts ==
  ASSUME NEW b \in Bundlings, NEW l, DOMAIN bundling = Bundlings, Put(b, l)
  PROVE  /\ DOMAIN bundling' = Bundlings
         /\ bundling'[b] = l
         /\ \A c \in Bundlings : c # b => bundling'[c] = bundling[c]
  BY DEF Put

\* A request advances without touching log or store, stores, or records.
Advance(b, l) ==
  /\ Put(b, l)
  /\ bundling[b].at \notin {"stored", "done"}
  /\ {"at", "run"} \subseteq DOMAIN l
  /\ l.at # "stored"
  /\ l.at # "done" => l.run \in Runs
  /\ UNCHANGED <<logVars, owner, bundles>>

LEMMA IdleFacts ==
  ASSUME NEW r, NEW t, NEW m
  PROVE  /\ {"at", "run"} \subseteq DOMAIN [Idle EXCEPT !.at = "done"]
         /\ [Idle EXCEPT !.at = "done"].at = "done"
         /\ {"at", "run"} \subseteq
              DOMAIN [Idle EXCEPT !.at = "found", !.run = r, !.tenant = t, !.machine = m]
         /\ [Idle EXCEPT !.at = "found", !.run = r, !.tenant = t, !.machine = m].at = "found"
         /\ [Idle EXCEPT !.at = "found", !.run = r, !.tenant = t, !.machine = m].run = r
  BY DEF Idle

\* The locals of a request after it has noted what it read.
LEMMA LocalsFacts ==
  ASSUME NEW l, {"at", "run"} \subseteq DOMAIN l, NEW at,
         NEW f \in {"entries", "root", "proofs", "size", "tenant"}, NEW x
  PROVE  /\ {"at", "run"} \subseteq DOMAIN [l EXCEPT !.at = at, ![f] = x]
         /\ [l EXCEPT !.at = at, ![f] = x].at = at
         /\ [l EXCEPT !.at = at, ![f] = x].run = l.run
         /\ {"at", "run"} \subseteq DOMAIN [l EXCEPT !.at = at]
         /\ [l EXCEPT !.at = at].at = at
         /\ [l EXCEPT !.at = at].run = l.run
  OBVIOUS

LEMMA BundleStepCases ==
  ASSUME BundlingInv, NEW b \in Bundlings, BundleStep(b)
  PROVE  (\E l : Advance(b, l)) \/ BundleStore(b) \/ BundleRecord(b)
<1> DEFINE now == bundling[b]
           Goal == \E l : Advance(b, l)
<1>0. /\ {"at", "run"} \subseteq DOMAIN now
      /\ now.at \notin {"idle", "done"} => now.run \in Runs
  BY DEF BundlingInv
<1>1. ASSUME NEW r \in Runs, NEW t \in Tenants, BundleUnknown(b, r, t) PROVE Goal
  <2>1. Advance(b, [Idle EXCEPT !.at = "done"])
    BY <1>1, IdleFacts DEF BundleUnknown, Advance
  <2> QED BY <2>1
<1>2. ASSUME NEW r \in Runs, NEW t \in Tenants, BundleFind(b, r, t) PROVE Goal
  <2>1. Advance(b, [Idle EXCEPT !.at = "found", !.run = r, !.tenant = t,
                                !.machine = r \in Probed])
    BY <1>2, IdleFacts DEF BundleFind, Advance
  <2> QED BY <2>1
<1>3. ASSUME BundleRead(b) PROVE Goal
  <2> DEFINE slice == EntriesForSubject(now.tenant, now.run)
  <2>1. CASE slice = <<>>
    <3>1. Advance(b, [Idle EXCEPT !.at = "done"])
      BY <1>3, <2>1, IdleFacts DEF BundleRead, Advance
    <3> QED BY <3>1
  <2>2. CASE slice # <<>>
    <3>1. Advance(b, [now EXCEPT !.at = "read", !.entries = slice])
      BY <1>3, <1>0, <2>2, LocalsFacts DEF BundleRead, Advance
    <3> QED BY <3>1
  <2> QED BY <2>1, <2>2
<1>4. ASSUME BundleRoot(b) PROVE Goal
  <2>1. \/ Advance(b, [Idle EXCEPT !.at = "done"])
        \/ Advance(b, [now EXCEPT !.at = "rooted", !.root = Root(leaves)])
    BY <1>4, <1>0, IdleFacts, LocalsFacts DEF BundleRoot, Advance
  <2> QED BY <2>1
<1>5. ASSUME BundleProve(b) PROVE Goal
  <2> DEFINE proofs == [s \in Seqs(now.entries) |-> InclusionProof(leaves, s)]
  <2>1. Advance(b, [now EXCEPT !.at = "proved", !.proofs = proofs])
    BY <1>5, <1>0, LocalsFacts DEF BundleProve, Advance
  <2> QED BY <2>1
<1>6. ASSUME BundleSize(b) PROVE Goal
  <2>1. Advance(b, [now EXCEPT !.at = "sized", !.size = Len(leaves)])
    BY <1>6, <1>0, LocalsFacts DEF BundleSize, Advance
  <2> QED BY <2>1
<1>7. ASSUME BundleSign(b) PROVE Goal
  <2>1. \/ Advance(b, [Idle EXCEPT !.at = "done"])
        \/ Advance(b, [now EXCEPT !.at = "signed"])
    BY <1>7, <1>0, IdleFacts, LocalsFacts DEF BundleSign, Advance
  <2> QED BY <2>1
<1> QED
  BY <1>1, <1>2, <1>3, <1>4, <1>5, <1>6, <1>7 DEF BundleStep

\* What every step does to the log: an append of an input, or nothing.
LEMMA LogStep ==
  ASSUME BundlingInv, [EvidenceNext]_evidenceVars
  PROVE  [LogNext]_logVars
<1>1. ASSUME NEW r \in Runs, OtherEvent(r) PROVE LogNext
  <2>1. PICK p \in Payloads : AppendEntry(Event("event", r, p))
    BY <1>1 DEF OtherEvent
  <2>2. Event("event", r, p) \in Inputs
    BY EventIsInput DEF BundlingInv
  <2> QED
    BY <2>1, <2>2 DEF LogNext
<1>2. ASSUME NEW b \in Bundlings, BundleStep(b) PROVE [LogNext]_logVars
  <2>1. CASE BundleRecord(b)
    <3>1. bundling[b].run \in Runs /\ b \in Payloads
      BY <2>1, PayloadAssumption DEF BundleRecord, BundlingInv
    <3>2. Event("evidence.bundled", bundling[b].run, b) \in Inputs
      BY <3>1, EventIsInput DEF BundlingInv
    <3> QED
      BY <2>1, <3>2 DEF BundleRecord, LogNext
  <2>2. CASE BundleStore(b)
    BY <2>2 DEF BundleStore
  <2>3. CASE \E l : Advance(b, l)
    BY <2>3 DEF Advance
  <2> QED
    BY <1>2, <2>1, <2>2, <2>3, BundleStepCases
<1>3. ASSUME NEW a \in Auditors, AuditStep(a) PROVE UNCHANGED logVars
  BY <1>3 DEF AuditStep, KeepRoot, ConsistencyRoot, ConsistencyProve
<1>4. ASSUME NEW q \in Readers, ReadStep(q) PROVE UNCHANGED logVars
  BY <1>4 DEF ReadStep, ReadEntry, ProveEntry
<1>5. CASE UNCHANGED evidenceVars
  BY <1>5 DEF evidenceVars
<1> QED
  BY <1>1, <1>2, <1>3, <1>4, <1>5 DEF EvidenceNext

\* The log as positions: what an append, or nothing, changes of it.
LEMMA AppendPositions ==
  ASSUME LogInv, NEW e, AppendEntry(e)
  PROVE  /\ DOMAIN entries = 1..Len(entries) /\ Len(entries) \in Nat
         /\ DOMAIN entries' = 1..(Len(entries) + 1)
         /\ \A i \in DOMAIN entries : entries'[i] = entries[i]
         /\ entries'[Len(entries) + 1].action = e.action
         /\ entries'[Len(entries) + 1].payload = e.payload
<1>1. /\ entries \in Seq({entries[i] : i \in DOMAIN entries})
      /\ entries' = Append(entries, Sealed(NextEntry(e)))
  BY DEF LogInv, AppendEntry
<1>2. Sealed(NextEntry(e)).action = e.action /\ Sealed(NextEntry(e)).payload = e.payload
  BY DEF Sealed, NextEntry
<1>3. /\ Len(entries) \in Nat /\ DOMAIN entries = 1..Len(entries)
      /\ entries' \in Seq({entries'[i] : i \in DOMAIN entries'})
      /\ Len(entries') = Len(entries) + 1
      /\ \A i \in 1..Len(entries) : entries'[i] = entries[i]
      /\ entries'[Len(entries) + 1] = Sealed(NextEntry(e))
  BY <1>1, AppendFacts
<1> QED
  BY <1>2, <1>3

\* A log that gained only an entry about something else names the same bundles.
LEMMA OtherEntry ==
  ASSUME LogInv, BundlingInv, NEW e, AppendEntry(e), e.action # "evidence.bundled",
         UNCHANGED <<owner, bundling, bundles>>
  PROVE  BundlingInv'
<1> DEFINE n == Len(entries)
<1>1. /\ DOMAIN entries = 1..n /\ n \in Nat /\ DOMAIN entries' = 1..(n + 1)
      /\ \A i \in DOMAIN entries : entries'[i] = entries[i]
      /\ entries'[n + 1].action # "evidence.bundled"
  BY AppendPositions
<1>2. ASSUME NEW i \in DOMAIN entries', entries'[i].action = "evidence.bundled"
      PROVE  i \in DOMAIN entries /\ entries'[i] = entries[i]
  BY <1>1, <1>2
<1>3. BundledRecorded'
  BY <1>2 DEF BundlingInv, BundledRecorded, Stored
<1> QED
  BY <1>2, <1>3 DEF BundlingInv, Stored

\* Neither the empty store nor the empty log names a bundle.
LEMMA BundlingInvInit == EvidenceInit => BundlingInv
  BY DEF EvidenceInit, LogInit, BundlingInv, BundledRecorded, Idle

LEMMA AdvanceStep ==
  ASSUME BundlingInv, NEW b \in Bundlings, NEW l, Advance(b, l)
  PROVE  BundlingInv'
<1>1. /\ DOMAIN bundling' = Bundlings /\ bundling'[b] = l
      /\ \A c \in Bundlings : c # b => bundling'[c] = bundling[c]
  BY PutFacts DEF Advance, BundlingInv
<1>2. /\ UNCHANGED <<entries, owner, bundles>>
      /\ bundling[b].at # "done"
  BY DEF Advance, logVars
<1>3. ASSUME NEW i \in DOMAIN entries', entries'[i].action = "evidence.bundled"
      PROVE  /\ entries'[i].payload \in Bundlings
             /\ bundling'[entries'[i].payload].at = "done"
  BY <1>1, <1>2, <1>3 DEF BundlingInv
<1>4. ASSUME NEW c \in Bundlings
      PROVE  /\ {"at", "run"} \subseteq DOMAIN bundling'[c]
             /\ bundling'[c].at \notin {"idle", "done"} => bundling'[c].run \in Runs
             /\ bundling'[c].at = "stored" => c \in Stored'
  BY <1>1, <1>2 DEF BundlingInv, Advance, Stored
<1>5. BundledRecorded'
  BY <1>2 DEF BundlingInv, BundledRecorded, Stored
<1> QED
  BY <1>1, <1>2, <1>3, <1>4, <1>5 DEF BundlingInv

LEMMA StoreBundleStep ==
  ASSUME BundlingInv, NEW b \in Bundlings, BundleStore(b)
  PROVE  BundlingInv'
<1>0. /\ {"at", "run"} \subseteq DOMAIN bundling[b]
      /\ bundling[b].at = "signed" /\ bundling[b].run \in Runs
      /\ UNCHANGED <<entries, owner>>
      /\ DOMAIN bundling = Bundlings
      /\ Put(b, [bundling[b] EXCEPT !.at = "stored"])
  BY DEF BundlingInv, BundleStore, logVars
<1>1. /\ DOMAIN bundling' = Bundlings
      /\ bundling'[b] = [bundling[b] EXCEPT !.at = "stored"]
      /\ \A c \in Bundlings : c # b => bundling'[c] = bundling[c]
  BY <1>0, PutFacts
<1>2. DOMAIN bundles' = DOMAIN bundles \union {b}
  BY DEF BundleStore
<1>3. ASSUME NEW i \in DOMAIN entries', entries'[i].action = "evidence.bundled"
      PROVE  /\ entries'[i].payload \in Bundlings
             /\ bundling'[entries'[i].payload].at = "done"
  BY <1>0, <1>1, <1>3 DEF BundlingInv
<1>4. ASSUME NEW c \in Bundlings
      PROVE  /\ {"at", "run"} \subseteq DOMAIN bundling'[c]
             /\ bundling'[c].at \notin {"idle", "done"} => bundling'[c].run \in Runs
             /\ bundling'[c].at = "stored" => c \in Stored'
  <2>1. CASE c = b
    BY <2>1, <1>0, <1>1, <1>2, LocalsFacts DEF Stored
  <2>2. CASE c # b
    BY <2>2, <1>1, <1>2 DEF BundlingInv, Stored
  <2> QED
    BY <2>1, <2>2
<1>5. BundledRecorded'
  BY <1>0, <1>2 DEF BundlingInv, BundledRecorded, Stored
<1> QED
  BY <1>0, <1>1, <1>3, <1>4, <1>5 DEF BundlingInv

\* The new entry is the only one about this bundle: the request was not done.
LEMMA RecordBundleStep ==
  ASSUME LogInv, BundlingInv, NEW b \in Bundlings, BundleRecord(b)
  PROVE  BundlingInv'
<1> DEFINE n == Len(entries)
           e == Event("evidence.bundled", bundling[b].run, b)
<1>0. /\ {"at", "run"} \subseteq DOMAIN bundling[b]
      /\ bundling[b].at = "stored" /\ b \in Stored
      /\ UNCHANGED <<owner, bundles>>
      /\ DOMAIN bundling = Bundlings
      /\ Put(b, [bundling[b] EXCEPT !.at = "done"])
      /\ AppendEntry(e)
  BY DEF BundlingInv, BundleRecord
<1>1. /\ DOMAIN bundling' = Bundlings
      /\ bundling'[b] = [bundling[b] EXCEPT !.at = "done"]
      /\ \A c \in Bundlings : c # b => bundling'[c] = bundling[c]
  BY <1>0, PutFacts
<1>2. {"at", "run"} \subseteq DOMAIN bundling'[b] /\ bundling'[b].at = "done"
  BY <1>0, <1>1, LocalsFacts
<1>3. e.action = "evidence.bundled" /\ e.payload = b
  BY DEF Event
<1>4. /\ DOMAIN entries = 1..n /\ n \in Nat /\ DOMAIN entries' = 1..(n + 1)
      /\ \A i \in DOMAIN entries : entries'[i] = entries[i]
      /\ entries'[n + 1].payload = b
  BY <1>0, <1>3, AppendPositions
<1>5. ASSUME NEW i \in DOMAIN entries, entries[i].action = "evidence.bundled"
      PROVE  /\ entries[i].payload \in Bundlings \ {b}
             /\ bundling[entries[i].payload].at = "done"
  BY <1>0, <1>5 DEF BundlingInv
<1>6. ASSUME NEW i \in DOMAIN entries', entries'[i].action = "evidence.bundled"
      PROVE  /\ entries'[i].payload \in Bundlings
             /\ bundling'[entries'[i].payload].at = "done"
             /\ entries'[i].payload \in Stored'
             /\ \A j \in DOMAIN entries' :
                  entries'[j].action = "evidence.bundled"
                    /\ entries'[j].payload = entries'[i].payload => i = j
  <2>1. CASE i \in DOMAIN entries
    <3>1. entries'[i] = entries[i] /\ entries[i].payload # b
      BY <2>1, <1>4, <1>5, <1>6
    <3>2. ASSUME NEW j \in DOMAIN entries', entries'[j].action = "evidence.bundled",
                 entries'[j].payload = entries'[i].payload
          PROVE  i = j
      <4>1. j \in DOMAIN entries
        BY <3>1, <3>2, <1>4
      <4> QED
        BY <4>1, <2>1, <3>1, <3>2, <1>4, <1>6 DEF BundlingInv, BundledRecorded
    <3> QED
      BY <2>1, <3>1, <3>2, <1>0, <1>1, <1>5, <1>6 DEF BundlingInv, BundledRecorded, Stored
  <2>2. CASE i = n + 1
    <3>1. entries'[i].payload = b
      BY <2>2, <1>4
    <3>2. ASSUME NEW j \in DOMAIN entries', entries'[j].action = "evidence.bundled",
                 entries'[j].payload = b
          PROVE  i = j
      BY <3>2, <2>2, <1>4, <1>5
    <3> QED
      BY <3>1, <3>2, <1>0, <1>2 DEF Stored
  <2> QED
    BY <2>1, <2>2, <1>4
<1>7. ASSUME NEW c \in Bundlings
      PROVE  /\ {"at", "run"} \subseteq DOMAIN bundling'[c]
             /\ bundling'[c].at \notin {"idle", "done"} => bundling'[c].run \in Runs
             /\ bundling'[c].at = "stored" => c \in Stored'
  <2>1. CASE c = b
    BY <2>1, <1>2
  <2>2. CASE c # b
    BY <2>2, <1>0, <1>1 DEF BundlingInv, Stored
  <2> QED
    BY <2>1, <2>2
<1>8. BundledRecorded'
  BY <1>6 DEF BundledRecorded
<1> QED
  BY <1>0, <1>1, <1>6, <1>7, <1>8 DEF BundlingInv

LEMMA BundlingInvStep ==
  LogInv /\ BundlingInv /\ [EvidenceNext]_evidenceVars => BundlingInv'
<1> SUFFICES ASSUME LogInv, BundlingInv, [EvidenceNext]_evidenceVars
             PROVE  BundlingInv'
  OBVIOUS
<1>0. ASSUME UNCHANGED <<entries, owner, bundling, bundles>> PROVE BundlingInv'
  BY <1>0 DEF BundlingInv, BundledRecorded, Stored
<1>1. ASSUME NEW r \in Runs, OtherEvent(r) PROVE BundlingInv'
  <2>1. PICK p : AppendEntry(Event("event", r, p))
    BY <1>1 DEF OtherEvent
  <2>2. Event("event", r, p).action # "evidence.bundled"
    BY DEF Event
  <2> QED
    BY <2>1, <2>2, <1>1, OtherEntry DEF OtherEvent
<1>2. ASSUME NEW b \in Bundlings, BundleStep(b) PROVE BundlingInv'
  BY <1>2, BundleStepCases, AdvanceStep, StoreBundleStep, RecordBundleStep
<1>3. ASSUME NEW a \in Auditors, AuditStep(a) PROVE BundlingInv'
  BY <1>3, <1>0 DEF AuditStep, KeepRoot, ConsistencyRoot, ConsistencyProve, logVars
<1>4. ASSUME NEW q \in Readers, ReadStep(q) PROVE BundlingInv'
  BY <1>4, <1>0 DEF ReadStep, ReadEntry, ProveEntry, logVars
<1>5. CASE UNCHANGED evidenceVars
  BY <1>5, <1>0 DEF evidenceVars, logVars
<1> QED
  BY <1>1, <1>2, <1>3, <1>4, <1>5 DEF EvidenceNext

\* The two inductive invariants together: each step's log part needs the other's
\* typing of what is appended.
THEOREM EvidenceInvariant == EvidenceSpec => [](LogInv /\ BundlingInv)
<1>1. EvidenceInit => LogInv /\ BundlingInv
  BY LogInvInit, BundlingInvInit DEF EvidenceInit
<1>2. LogInv /\ BundlingInv /\ [EvidenceNext]_evidenceVars => LogInv' /\ BundlingInv'
  BY LogStep, LogInvStep, BundlingInvStep
<1> QED
  BY <1>1, <1>2, PTL DEF EvidenceSpec

\* The handlers implement the audit log: through the log's own variables, every
\* interleaving of them is a history of appends.
THEOREM EvidenceKeepsLog == EvidenceSpec => LogSpec
<1>1. EvidenceInit => LogInit
  BY DEF EvidenceInit
<1>2. BundlingInv /\ [EvidenceNext]_evidenceVars => [LogNext]_logVars
  BY LogStep
<1> QED
  BY <1>1, <1>2, EvidenceInvariant, PTL DEF EvidenceSpec, LogSpec

\* So the chain every bundle and proof rests on is intact under all of them.
THEOREM EvidenceChainIntact == EvidenceSpec => []ChainIntact
  BY EvidenceKeepsLog, ChainAlwaysIntact, PTL

\* The log names only stored bundles, and each once.
THEOREM BundlesRecorded == EvidenceSpec => []BundledRecorded
<1>1. BundlingInv => BundledRecorded
  BY DEF BundlingInv
<1> QED
  BY <1>1, EvidenceInvariant, PTL

-----------------------------------------------------------------------------
(* The log as it grows *)

\* The beginning of a sequence is kept when it grows.
LEMMA BeginningKept ==
  ASSUME NEW s, IsSeq(s), NEW x, NEW m \in 0..Len(s)
  PROVE  SubSeq(Append(s, x), 1, m) = SubSeq(s, 1, m)
<1>1. PICK S : s \in Seq(S)
  BY DEF IsSeq
<1>2. PICK T : T = S \union {x}
  OBVIOUS
<1>3. s \in Seq(T) /\ x \in T
  BY <1>1, <1>2
<1>4. PICK t : t = Append(s, x)
  OBVIOUS
<1>5. t \in Seq(T) /\ Len(t) = Len(s) + 1 /\ Len(s) \in Nat /\ \A i \in 1..Len(s) : t[i] = s[i]
  BY <1>3, <1>4
<1>6. m \in Nat /\ m <= Len(s) /\ m <= Len(t)
  BY <1>5
<1>7. PICK a, b : a = SubSeq(t, 1, m) /\ b = SubSeq(s, 1, m)
  OBVIOUS
<1>8. a \in Seq(T) /\ Len(a) = m /\ \A i \in 1..m : a[i] = t[i]
  BY <1>5, <1>6, <1>7
<1>9. b \in Seq(T) /\ Len(b) = m /\ \A i \in 1..m : b[i] = s[i]
  BY <1>3, <1>5, <1>6, <1>7
<1>10. \A i \in 1..m : a[i] = b[i]
  BY <1>5, <1>6, <1>8, <1>9
<1>11. a = b
  BY <1>8, <1>9, <1>10
<1> QED
  BY <1>4, <1>7, <1>11

\* A log that grew was, when it had n entries, what it is said to have been.
LEMMA EarlierKept ==
  ASSUME LogInv, [LogNext]_logVars
  PROVE  /\ Len(leaves) \in Nat /\ Len(leaves)' \in Nat /\ Len(leaves) <= Len(leaves)'
         /\ \A n \in 0..Len(leaves) : Before(n)' = Before(n)
         /\ \A i \in 1..Len(leaves) : entries'[i] = entries[i]
<1>1. CASE UNCHANGED logVars
  BY <1>1, LeavesApart DEF logVars, Before
<1>2. CASE \E e \in Inputs : AppendEntry(e)
  <2>1. PICK e \in Inputs : AppendEntry(e)
    BY <1>2
  <2>2. PICK x : leaves' = Append(leaves, x)
    BY <2>1 DEF AppendEntry
  <2>3. PICK n \in Nat : n = Len(leaves) /\ n = Len(entries)
    BY LeavesApart
  <2>4. Len(leaves') = n + 1
    <3>1. PICK l : l = leaves /\ IsSeq(l)
      BY LeavesApart
    <3>2. Len(Append(l, x)) = Len(l) + 1
      BY <3>1, AppendIsSeq
    <3> QED
      BY <2>2, <2>3, <3>1, <3>2
  <2>5. \A m \in 0..n : SubSeq(leaves', 1, m) = SubSeq(leaves, 1, m)
    BY <2>2, <2>3, LeavesApart, BeginningKept
  <2>6. \A i \in 1..n : entries'[i] = entries[i]
    BY <2>1, <2>3, AppendPositions
  <2> QED
    BY <2>3, <2>4, <2>5, <2>6 DEF Before
<1> QED
  BY <1>1, <1>2 DEF LogNext, RefuseEntry

\* What a client was told of the log when it had n entries, and what it was later given.
Rooted(n, root) == n \in 0..Len(leaves) /\ root = Root(Before(n))

\* All of the log is the log.
LEMMA AllOfIt ==
  ASSUME LogInv
  PROVE  /\ Before(Len(leaves)) = leaves /\ Len(leaves) \in Nat
         /\ Rooted(Len(leaves), Root(leaves))
<1>1. PICK S : leaves \in Seq(S)
  BY LeavesApart DEF IsSeq
<1>2. SubSeq(leaves, 1, Len(leaves)) = leaves /\ Len(leaves) \in Nat
  BY <1>1
<1>3. Before(Len(leaves)) = leaves
  BY <1>2 DEF Before
<1>4. Len(leaves) \in 0..Len(leaves)
  BY <1>2
<1> QED
  BY <1>2, <1>3, <1>4 DEF Rooted

-----------------------------------------------------------------------------
(* The answers of the audit routes *)

\* An auditor knows the root of some length, and its answer leads from there.
AuditorInv(x) ==
  /\ x.at \in {"anchored", "asked"} => Rooted(x.size, x.root)
  /\ x.at = "asked" => x.size <= x.currentSize /\ Rooted(x.currentSize, x.currentRoot)
  /\ x.at = "answered" =>
       \E m, n \in 0..Len(leaves) :
         /\ m <= x.currentSize /\ x.currentSize <= n
         /\ Rooted(m, x.root) /\ Rooted(x.currentSize, x.currentRoot)
         /\ x.proof = ConsistencyProof(Before(n), m)

\* A reader holds the leaf of an entry of its tenant, and its answer is of one log.
ReaderInv(x) ==
  /\ x.at = "found" =>
       /\ x.seq \in 0..(Len(leaves) - 1)
       /\ x.leaf = LeafFor(entries[x.seq + 1]) /\ entries[x.seq + 1].tenantId = x.tenant
  /\ x.at = "answered" =>
       \E i \in 0..(Len(leaves) - 1) : \E n \in (i + 1)..Len(leaves) :
         /\ x.leaf = LeafFor(entries[i + 1]) /\ entries[i + 1].tenantId = x.tenant
         /\ x.proof = InclusionProof(Before(n), i) /\ x.root = Root(Before(n))

AnswersInv ==
  /\ DOMAIN audit = Auditors /\ DOMAIN reading = Readers
  /\ \A a \in Auditors : AuditorInv(audit[a])
  /\ \A q \in Readers : ReaderInv(reading[q])

\* What was true of a client stays true while the log grows.
LEMMA AnswersKept ==
  ASSUME LogInv, [LogNext]_logVars, NEW x
  PROVE  (AuditorInv(x) => AuditorInv(x)') /\ (ReaderInv(x) => ReaderInv(x)')
<1>1. PICK n \in Nat, m \in Nat : n = Len(leaves) /\ m = Len(leaves)' /\ n <= m
  BY EarlierKept
<1>2. /\ \A k \in 0..n : k \in 0..m /\ Before(k)' = Before(k)
      /\ \A i \in 1..n : entries'[i] = entries[i]
  BY <1>1, EarlierKept
<1>3. \A k, root : Rooted(k, root) => k \in 0..n /\ Rooted(k, root)'
  BY <1>1, <1>2 DEF Rooted
<1>4. ASSUME AuditorInv(x) PROVE AuditorInv(x)'
  <2>1. ASSUME x.at = "answered"
        PROVE  \E k, l \in 0..m :
                 /\ k <= x.currentSize /\ x.currentSize <= l
                 /\ Rooted(k, x.root)' /\ Rooted(x.currentSize, x.currentRoot)'
                 /\ x.proof = ConsistencyProof(Before(l)', k)
    <3>1. PICK k, l \in 0..n :
                 /\ k <= x.currentSize /\ x.currentSize <= l
                 /\ Rooted(k, x.root) /\ Rooted(x.currentSize, x.currentRoot)
                 /\ x.proof = ConsistencyProof(Before(l), k)
      BY <1>1, <1>4, <2>1 DEF AuditorInv
    <3>2. Before(l)' = Before(l) /\ k \in 0..m /\ l \in 0..m
      BY <1>2
    <3> QED
      BY <1>3, <3>1, <3>2
  <2> QED
    BY <1>1, <1>3, <1>4, <2>1 DEF AuditorInv
<1>5. ASSUME ReaderInv(x) PROVE ReaderInv(x)'
  <2>1. ASSUME x.at = "found"
        PROVE  /\ x.seq \in 0..(m - 1)
               /\ x.leaf = LeafFor(entries'[x.seq + 1]) /\ entries'[x.seq + 1].tenantId = x.tenant
    <3>1. /\ x.seq \in 0..(n - 1)
          /\ x.leaf = LeafFor(entries[x.seq + 1]) /\ entries[x.seq + 1].tenantId = x.tenant
      BY <1>1, <1>5, <2>1 DEF ReaderInv
    <3>2. x.seq \in 0..(m - 1) /\ x.seq + 1 \in 1..n
      BY <1>1, <3>1
    <3> QED
      BY <1>2, <3>1, <3>2
  <2>2. ASSUME x.at = "answered"
        PROVE  \E i \in 0..(m - 1) : \E l \in (i + 1)..m :
                 /\ x.leaf = LeafFor(entries'[i + 1]) /\ entries'[i + 1].tenantId = x.tenant
                 /\ x.proof = InclusionProof(Before(l)', i) /\ x.root = Root(Before(l)')
    <3>1. PICK i \in 0..(n - 1) : \E l \in (i + 1)..n :
                 /\ x.leaf = LeafFor(entries[i + 1]) /\ entries[i + 1].tenantId = x.tenant
                 /\ x.proof = InclusionProof(Before(l), i) /\ x.root = Root(Before(l))
      BY <1>1, <1>5, <2>2 DEF ReaderInv
    <3>2. PICK l \in (i + 1)..n :
                 /\ x.leaf = LeafFor(entries[i + 1]) /\ entries[i + 1].tenantId = x.tenant
                 /\ x.proof = InclusionProof(Before(l), i) /\ x.root = Root(Before(l))
      BY <3>1
    <3>3. i \in 0..(m - 1) /\ i + 1 \in 1..n /\ l \in (i + 1)..m /\ l \in 0..n
      BY <1>1
    <3>4. entries'[i + 1] = entries[i + 1] /\ Before(l)' = Before(l)
      BY <1>2, <3>3
    <3> QED
      BY <3>2, <3>3, <3>4
  <2> QED
    BY <1>1, <2>1, <2>2 DEF ReaderInv, LeafFor, InclusionProof, Root
<1> QED
  BY <1>4, <1>5

\* The three steps of an auditor.
LEMMA AuditorSteps ==
  ASSUME LogInv, AnswersInv, NEW a \in Auditors, AuditStep(a)
  PROVE  /\ UNCHANGED <<entries, leaves, reading>>
         /\ \E x : audit' = [audit EXCEPT ![a] = x] /\ AuditorInv(x)
<1>1. PICK n \in Nat : n = Len(leaves)
  BY AllOfIt
<1>2. AuditorInv(audit[a])
  BY DEF AnswersInv
<1>3. CASE KeepRoot(a)
  <2>1. PICK x : x = [at |-> "anchored", size |-> Len(leaves), root |-> Root(leaves)]
    OBVIOUS
  <2>2. x.at = "anchored" /\ Rooted(x.size, x.root)
    BY <2>1, AllOfIt
  <2>3. AuditorInv(x)
    BY <2>2 DEF AuditorInv
  <2> QED
    BY <1>3, <2>1, <2>3 DEF KeepRoot, logVars
<1>4. CASE ConsistencyRoot(a)
  <2>1. CASE audit[a].size > Len(leaves)
    <3>1. PICK x : x = [at |-> "refused"]
      OBVIOUS
    <3>2. x.at = "refused"
      BY <3>1
    <3>3. AuditorInv(x)
      BY <3>2 DEF AuditorInv
    <3> QED
      BY <1>4, <2>1, <3>1, <3>3 DEF ConsistencyRoot, logVars
  <2>2. CASE ~(audit[a].size > Len(leaves))
    <3>1. PICK x : x = [at |-> "asked", size |-> audit[a].size, root |-> audit[a].root,
                        currentRoot |-> Root(leaves), currentSize |-> Len(leaves)]
      OBVIOUS
    <3>2. Rooted(audit[a].size, audit[a].root)
      BY <1>2, <1>4 DEF ConsistencyRoot, AuditorInv
    <3>3. audit[a].size <= Len(leaves)
      BY <1>1, <3>2 DEF Rooted
    <3>4. /\ x.at = "asked" /\ Rooted(x.size, x.root) /\ x.size <= x.currentSize
          /\ Rooted(x.currentSize, x.currentRoot)
      BY <3>1, <3>2, <3>3, AllOfIt
    <3>5. AuditorInv(x)
      BY <3>4 DEF AuditorInv
    <3> QED
      BY <1>4, <2>2, <3>1, <3>5 DEF ConsistencyRoot, logVars
  <2> QED
    BY <2>1, <2>2
<1>5. CASE ConsistencyProve(a)
  <2>1. PICK y : y = audit[a]
    OBVIOUS
  <2>2. PICK x : x = [at |-> "answered", root |-> y.root, currentRoot |-> y.currentRoot,
                      currentSize |-> y.currentSize, proof |-> ConsistencyProof(leaves, y.size)]
    OBVIOUS
  <2>3. y.at = "asked" /\ AuditorInv(y)
    BY <1>2, <1>5, <2>1 DEF ConsistencyProve
  <2>4. /\ Rooted(y.size, y.root) /\ y.size <= y.currentSize
        /\ Rooted(y.currentSize, y.currentRoot)
    BY <2>3 DEF AuditorInv
  <2>5. /\ x.at = "answered" /\ x.root = y.root /\ x.currentRoot = y.currentRoot
        /\ x.currentSize = y.currentSize /\ x.proof = ConsistencyProof(Before(n), y.size)
    BY <1>1, <2>2, AllOfIt
  <2>6. y.size \in 0..n /\ n \in 0..n /\ x.currentSize <= n
    BY <1>1, <2>4, <2>5 DEF Rooted
  <2>7. AuditorInv(x)
    BY <1>1, <2>4, <2>5, <2>6 DEF AuditorInv
  <2> QED
    BY <1>5, <2>1, <2>2, <2>7 DEF ConsistencyProve, logVars
<1> QED
  BY <1>3, <1>4, <1>5 DEF AuditStep

\* The two of a reader.
LEMMA ReaderSteps ==
  ASSUME LogInv, AnswersInv, NEW q \in Readers, ReadStep(q)
  PROVE  /\ UNCHANGED <<entries, leaves, audit>>
         /\ \E x : reading' = [reading EXCEPT ![q] = x] /\ ReaderInv(x)
<1>1. PICK n \in Nat : n = Len(leaves) /\ n = Len(entries)
  BY LeavesApart
<1>2. ReaderInv(reading[q])
  BY DEF AnswersInv
<1>3. ASSUME NEW t \in Tenants, NEW seq \in 0..MaxEntries, ReadEntry(q, t, seq)
      PROVE  \E x : reading' = [reading EXCEPT ![q] = x] /\ ReaderInv(x)
  <2>1. CASE seq < Len(entries) /\ entries[seq + 1].tenantId = t
    <3>1. PICK x : x = [at |-> "found", tenant |-> t, seq |-> seq,
                        leaf |-> LeafFor(entries[seq + 1])]
      OBVIOUS
    <3>2. /\ x.at = "found" /\ x.seq = seq /\ x.tenant = t
          /\ x.leaf = LeafFor(entries[seq + 1])
      BY <3>1
    <3>3. seq \in 0..(n - 1)
      BY <1>1, <2>1, MaxEntriesAssumption
    <3>4. ReaderInv(x)
      BY <1>1, <2>1, <3>2, <3>3 DEF ReaderInv
    <3> QED
      BY <1>3, <2>1, <3>1, <3>4 DEF ReadEntry
  <2>2. CASE ~(seq < Len(entries) /\ entries[seq + 1].tenantId = t)
    <3>1. PICK x : x = [at |-> "refused"]
      OBVIOUS
    <3>2. x.at = "refused"
      BY <3>1
    <3>3. ReaderInv(x)
      BY <3>2 DEF ReaderInv
    <3> QED
      BY <1>3, <2>2, <3>1, <3>3 DEF ReadEntry
  <2> QED
    BY <2>1, <2>2
<1>4. CASE ProveEntry(q)
  <2>1. PICK y : y = reading[q]
    OBVIOUS
  <2>2. PICK x : x = [at |-> "answered", tenant |-> y.tenant, leaf |-> y.leaf,
                      proof |-> InclusionProof(leaves, y.seq), root |-> Root(leaves)]
    OBVIOUS
  <2>3. /\ y.seq \in 0..(n - 1)
        /\ y.leaf = LeafFor(entries[y.seq + 1]) /\ entries[y.seq + 1].tenantId = y.tenant
    BY <1>1, <1>2, <1>4, <2>1 DEF ProveEntry, ReaderInv
  <2>4. /\ x.at = "answered" /\ x.tenant = y.tenant /\ x.leaf = y.leaf
        /\ x.proof = InclusionProof(Before(n), y.seq) /\ x.root = Root(Before(n))
    BY <1>1, <2>2, AllOfIt
  <2>5. n \in (y.seq + 1)..n
    BY <2>3
  <2>6. ReaderInv(x)
    BY <1>1, <2>3, <2>4, <2>5 DEF ReaderInv
  <2> QED
    BY <1>4, <2>1, <2>2, <2>6 DEF ProveEntry, logVars
<1> QED
  BY <1>3, <1>4 DEF ReadStep, ReadEntry, ProveEntry, logVars

\* Every step keeps what was true of the clients, and their own make it true.
LEMMA AnswersStep ==
  LogInv /\ BundlingInv /\ AnswersInv /\ [EvidenceNext]_evidenceVars => AnswersInv'
<1> SUFFICES ASSUME LogInv, BundlingInv, AnswersInv, [EvidenceNext]_evidenceVars
             PROVE  AnswersInv'
  OBVIOUS
<1>1. [LogNext]_logVars
  BY LogStep
<1>2. \A x : (AuditorInv(x) => AuditorInv(x)') /\ (ReaderInv(x) => ReaderInv(x)')
  BY <1>1, AnswersKept
<1>3. CASE UNCHANGED <<audit, reading>>
  <2>1. ASSUME NEW a \in Auditors PROVE AuditorInv(audit[a])'
    <3>1. PICK x : x = audit[a] /\ AuditorInv(x)
      BY DEF AnswersInv
    <3>2. x = audit'[a] /\ AuditorInv(x)'
      BY <1>2, <1>3, <3>1
    <3> QED
      BY <3>2 DEF AuditorInv, Rooted
  <2>2. ASSUME NEW q \in Readers PROVE ReaderInv(reading[q])'
    <3>1. PICK x : x = reading[q] /\ ReaderInv(x)
      BY DEF AnswersInv
    <3>2. x = reading'[q] /\ ReaderInv(x)'
      BY <1>2, <1>3, <3>1
    <3> QED
      BY <3>2 DEF ReaderInv
  <2> QED
    BY <1>3, <2>1, <2>2 DEF AnswersInv
<1>4. ASSUME NEW a \in Auditors, AuditStep(a) PROVE AnswersInv'
  <2>1. PICK x : audit' = [audit EXCEPT ![a] = x] /\ AuditorInv(x) /\ UNCHANGED reading
    BY <1>4, AuditorSteps
  <2>2. ASSUME NEW b \in Auditors PROVE AuditorInv(audit[b])'
    <3>1. PICK y : y = audit'[b] /\ AuditorInv(y)
      BY <2>1 DEF AnswersInv
    <3>2. AuditorInv(y)'
      BY <1>2, <3>1
    <3> QED
      BY <3>1, <3>2 DEF AuditorInv, Rooted
  <2>3. ASSUME NEW q \in Readers PROVE ReaderInv(reading[q])'
    <3>1. PICK y : y = reading'[q] /\ ReaderInv(y)
      BY <2>1 DEF AnswersInv
    <3>2. ReaderInv(y)'
      BY <1>2, <3>1
    <3> QED
      BY <3>1, <3>2 DEF ReaderInv
  <2> QED
    BY <2>1, <2>2, <2>3 DEF AnswersInv
<1>5. ASSUME NEW q \in Readers, ReadStep(q) PROVE AnswersInv'
  <2>1. PICK x : reading' = [reading EXCEPT ![q] = x] /\ ReaderInv(x) /\ UNCHANGED audit
    BY <1>5, ReaderSteps
  <2>2. ASSUME NEW r \in Readers PROVE ReaderInv(reading[r])'
    <3>1. PICK y : y = reading'[r] /\ ReaderInv(y)
      BY <2>1 DEF AnswersInv
    <3>2. ReaderInv(y)'
      BY <1>2, <3>1
    <3> QED
      BY <3>1, <3>2 DEF ReaderInv
  <2>3. ASSUME NEW a \in Auditors PROVE AuditorInv(audit[a])'
    <3>1. PICK y : y = audit'[a] /\ AuditorInv(y)
      BY <2>1 DEF AnswersInv
    <3>2. AuditorInv(y)'
      BY <1>2, <3>1
    <3> QED
      BY <3>1, <3>2 DEF AuditorInv, Rooted
  <2> QED
    BY <2>1, <2>2, <2>3 DEF AnswersInv
<1>6. ASSUME NEW b \in Bundlings, BundleStep(b) PROVE UNCHANGED <<audit, reading>>
  BY <1>6 DEF BundleStep, BundleUnknown, BundleFind, BundleRead, BundleRoot, BundleProve,
              BundleSize, BundleSign, BundleStore, BundleRecord
<1>7. ASSUME NEW r \in Runs, OtherEvent(r) PROVE UNCHANGED <<audit, reading>>
  BY <1>7 DEF OtherEvent
<1>8. CASE UNCHANGED evidenceVars
  BY <1>3, <1>8 DEF evidenceVars
<1> QED
  BY <1>3, <1>4, <1>5, <1>6, <1>7, <1>8 DEF EvidenceNext

LEMMA AnswersInit == EvidenceInit => AnswersInv
  BY DEF EvidenceInit, AnswersInv, AuditorInv, ReaderInv

\* Whatever the routes interleave, an auditor's two roots and its proof, and a reader's
\* proof, root and entry, are of the one growing log, at sizes in the order they were read.
THEOREM AnswersOfTheLog == EvidenceSpec => []AnswersInv
<1>1. LogInv /\ BundlingInv /\ AnswersInv /\ [EvidenceNext]_evidenceVars => AnswersInv'
  BY AnswersStep
<1> QED
  BY <1>1, AnswersInit, EvidenceInvariant, PTL DEF EvidenceSpec

-----------------------------------------------------------------------------
(* What a tenant recorded about a run *)

About(t, r) ==
  Chosen(entries, {i \in DOMAIN entries : entries[i].tenantId = t /\ entries[i].subject = r})

\* The log holds sealed entries, each under its number.
LEMMA EntriesAre ==
  ASSUME LogInv
  PROVE  /\ IsSeq(entries) /\ Len(entries) \in Nat /\ Slice(entries)
         /\ \A i \in 1..Len(entries) : entries[i].seq = i - 1
<1>1. \E S : entries \in Seq(S)
  BY DEF LogInv
<1>2. \A i \in 1..Len(entries) : entries[i].seq = i - 1
  BY EntriesFit DEF Fits
<1> QED
  BY <1>1, <1>2, EntriesFit DEF Slice, IsSeq

\* The two filters of forSubject are one.
LEMMA AboutIs ==
  ASSUME LogInv, NEW t, NEW r
  PROVE  EntriesForSubject(t, r) = About(t, r)
<1>1. PICK S : entries \in Seq(S)
  BY EntriesAre DEF IsSeq
<1>2. PICK I, P : /\ I = {i \in DOMAIN entries : entries[i].tenantId = t}
                  /\ P = {e \in S : e.subject = r}
  OBVIOUS
<1>3. PICK mine : mine = Chosen(entries, I)
  OBVIOUS
<1>4. mine \in Seq(S)
  BY <1>1, <1>3, ChosenPlaces
<1>5. {j \in DOMAIN mine : mine[j].subject = r} = Where(mine, P)
  BY <1>2, <1>4 DEF Where
<1>6. {i \in DOMAIN entries : entries[i].tenantId = t /\ entries[i].subject = r}
        = I \intersect Where(entries, P)
  BY <1>1, <1>2 DEF Where
<1>7. ForTenant(t) = mine
  BY <1>2, <1>3 DEF ForTenant
<1>8. EntriesForSubject(t, r) = Chosen(mine, {j \in DOMAIN mine : mine[j].subject = r})
  BY <1>7 DEF EntriesForSubject
<1>9. About(t, r) = Chosen(entries, I \intersect Where(entries, P))
  BY <1>6, Zenon DEF About
<1>10. Chosen(mine, Where(mine, P)) = Chosen(entries, I \intersect Where(entries, P))
  BY <1>1, <1>3, ChosenTwice
<1> QED
  BY <1>5, <1>8, <1>9, <1>10, Zenon

\* What is about a run is taken from the log, each entry under its number.
LEMMA AboutEntries ==
  ASSUME LogInv, NEW t, NEW r
  PROVE  /\ IsSeq(About(t, r)) /\ Slice(About(t, r)) /\ Len(About(t, r)) \in Nat
         /\ \A j \in 1..Len(About(t, r)) :
              \E i \in 1..Len(entries) : About(t, r)[j] = entries[i] /\ About(t, r)[j].seq = i - 1
<1>1. PICK S : entries \in Seq(S)
  BY EntriesAre DEF IsSeq
<1>2. PICK I, c : /\ I = {i \in DOMAIN entries : entries[i].tenantId = t /\ entries[i].subject = r}
                  /\ c = Chosen(entries, I)
  OBVIOUS
<1>3. c \in Seq(S) /\ \E at : Places(entries, I, Len(entries), c, at)
  BY <1>1, <1>2, ChosenPlaces
<1>4. \A j \in 1..Len(c) : \E i \in 1..Len(entries) : c[j] = entries[i]
  BY <1>3 DEF Places
<1>5. \A j \in 1..Len(c) : \E i \in 1..Len(entries) : c[j] = entries[i] /\ c[j].seq = i - 1
  BY <1>4, EntriesAre
<1>6. Slice(c)
  BY <1>2, EntriesAre, SliceOfSlice
<1>7. IsSeq(c) /\ Len(c) \in Nat
  BY <1>3 DEF IsSeq
<1>8. About(t, r) = c
  BY <1>2, Zenon DEF About
<1> QED
  BY <1>5, <1>6, <1>7, <1>8

\* es is what had been recorded about a run at some moment.
Begins(es, c) ==
  /\ IsSeq(es) /\ Len(es) \in Nat /\ Len(es) <= Len(c) /\ \A i \in 1..Len(es) : es[i] = c[i]

\* An append adds to it, at the end, or does not touch it.
LEMMA AboutGrows ==
  ASSUME LogInv, [LogNext]_logVars, NEW t, NEW r
  PROVE  Begins(About(t, r), About(t, r)')
<1>1. PICK c, d : c = About(t, r) /\ d = About(t, r)'
  OBVIOUS
<1>2. IsSeq(c) /\ Len(c) \in Nat
  BY <1>1, AboutEntries
<1>3. CASE d = c
  BY <1>1, <1>2, <1>3 DEF Begins
<1>4. ASSUME NEW x, d = Append(c, x) PROVE Begins(c, d)
  <2>1. PICK S : c \in Seq(S)
    BY <1>2 DEF IsSeq
  <2>2. PICK T : T = S \union {x}
    OBVIOUS
  <2>3. c \in Seq(T) /\ x \in T
    BY <2>1, <2>2
  <2>4. Len(d) = Len(c) + 1 /\ \A i \in 1..Len(c) : d[i] = c[i]
    BY <1>4, <2>3
  <2> QED
    BY <1>2, <2>4 DEF Begins
<1>5. ASSUME NEW e \in Inputs, AppendEntry(e) PROVE d = c \/ \E x : d = Append(c, x)
  <2>1. PICK S : entries \in Seq(S)
    BY EntriesAre DEF IsSeq
  <2>2. PICK x : entries' = Append(entries, x)
    BY <1>5 DEF AppendEntry
  <2>3. PICK T : T = S \union {x}
    OBVIOUS
  <2>4. PICK I, J :
          /\ I = {i \in DOMAIN entries : entries[i].tenantId = t /\ entries[i].subject = r}
          /\ J = {i \in DOMAIN entries' : entries'[i].tenantId = t /\ entries'[i].subject = r}
    OBVIOUS
  <2>5. entries \in Seq(T) /\ x \in T
    BY <2>1, <2>3
  <2>6. /\ DOMAIN entries = 1..Len(entries) /\ DOMAIN entries' = 1..(Len(entries) + 1)
        /\ Len(entries) \in Nat
        /\ \A i \in 1..Len(entries) : entries'[i] = entries[i]
    BY <2>2, <2>5
  <2>7. \A k \in 1..Len(entries) : k \in I <=> k \in J
    BY <2>4, <2>6
  <2>8. Chosen(Append(entries, x), J)
          = IF Len(entries) + 1 \in J THEN Append(Chosen(entries, I), x) ELSE Chosen(entries, I)
    BY <2>5, <2>7, ChosenAppend
  <2>9. c = Chosen(entries, I) /\ d = Chosen(Append(entries, x), J)
    BY <1>1, <2>2, <2>4 DEF About
  <2> QED
    BY <2>8, <2>9
<1>6. ASSUME UNCHANGED logVars PROVE d = c
  BY <1>1, <1>6 DEF logVars, About
<1> QED
  BY <1>1, <1>3, <1>4, <1>5, <1>6 DEF LogNext, RefuseEntry

\* So what began it still begins it.
LEMMA BeginsOn ==
  ASSUME NEW es, NEW c, NEW d, Begins(es, c), Begins(c, d), Len(d) \in Nat
  PROVE  Begins(es, d)
BY DEF Begins

\* What begins a slice is all of it up to its last number.
LEMMA UpToLast ==
  ASSUME NEW es, NEW c, Begins(es, c), es # <<>>, IsSeq(c), Slice(c)
  PROVE  /\ IsPrefix(es, c)
         /\ es = Chosen(c, {i \in DOMAIN c : c[i].seq <= Last(es).seq})
         /\ Last(es) = es[Len(es)] /\ Len(es) \in 1..Len(c)
<1>1. PICK S : c \in Seq(S)
  BY DEF IsSeq
<1>2. PICK k \in Nat : k = Len(es) /\ k <= Len(c)
  BY DEF Begins
<1>3. PICK T : es \in Seq(T)
  BY DEF Begins, IsSeq
<1>4. k > 0
  BY <1>2, <1>3
<1>5. PICK b : b = SubSeq(c, 1, k)
  OBVIOUS
<1>6. b \in Seq(S) /\ Len(b) = k /\ \A i \in 1..k : b[i] = c[i]
  BY <1>1, <1>2, <1>5
<1>7. \A i \in 1..k : es[i] = c[i]
  BY <1>2 DEF Begins
<1>8. es = b
  BY <1>2, <1>3, <1>6, <1>7
<1>9. Last(es) = es[k] /\ es[k] = c[k]
  BY <1>2, <1>4, <1>7 DEF Last
<1>10. DOMAIN c = 1..Len(c) /\ Len(c) \in Nat /\ k \in DOMAIN c
  BY <1>1, <1>2, <1>4
<1>11. \A i \in DOMAIN c : c[i].seq \in Nat
  BY DEF Slice
<1>12. ASSUME NEW i \in DOMAIN c PROVE c[i].seq <= c[k].seq <=> i \in 1..k
  <2>1. /\ i < k => c[i].seq < c[k].seq
        /\ k < i => c[k].seq < c[i].seq
    BY <1>10 DEF Slice
  <2>2. c[i].seq \in Nat /\ c[k].seq \in Nat
    BY <1>10, <1>11
  <2> QED
    BY <1>10, <2>1, <2>2
<1>13. {i \in DOMAIN c : c[i].seq <= Last(es).seq} = 1..k
  BY <1>9, <1>10, <1>12
<1>14. Chosen(c, 1..k) = b
  BY <1>1, <1>2, <1>5, ChosenFirst
<1>15. SubSeq(es, 1, k) = es
  BY <1>2, <1>3
<1>16. IsPrefix(es, c)
  BY <1>2, <1>5, <1>8, <1>15 DEF IsPrefix
<1> QED
  BY <1>2, <1>4, <1>8, <1>9, <1>10, <1>13, <1>14, <1>16

-----------------------------------------------------------------------------
(* What a request has gathered, and what a bundle holds *)

\* The entries are those a run's tenant had at some moment, and some.
Recorded(es, r) == es # <<>> /\ Begins(es, About(owner[r], r))

\* The root is that of a log that had all of them.
Witnessed(es, root) == \E n \in 1..Len(leaves) : Last(es).seq < n /\ root = Root(Before(n))

\* The proofs are of these entries, all taken from one such log.
ProvedIn(es, proofs) ==
  \E n \in 1..Len(leaves) :
    Last(es).seq < n /\ proofs = [s \in Seqs(es) |-> InclusionProof(Before(n), s)]

Fields == {"at", "run", "tenant", "entries", "root", "proofs", "size"}

HasProofs == {"proved", "sized", "signed", "stored"}
HasRoot == {"rooted"} \union HasProofs
HasEntries == {"read"} \union HasRoot
HasRun == {"found"} \union HasEntries

\* A request knows what it has read, step by step.
Gathered(l) ==
  /\ Fields \subseteq DOMAIN l
  /\ l.at \in HasRun => l.run \in Runs /\ l.tenant = owner[l.run]
  /\ l.at \in HasEntries => Recorded(l.entries, l.run)
  /\ l.at \in HasRoot => Witnessed(l.entries, l.root)
  /\ l.at \in HasProofs => ProvedIn(l.entries, l.proofs)

\* A stored bundle holds what its request had gathered.
Genuine(x) ==
  /\ {"entries", "logRoot", "inclusionProofs"} \subseteq DOMAIN x
  /\ x.run \in Runs /\ x.tenant = owner[x.run]
  /\ Recorded(x.entries, x.run)
  /\ Witnessed(x.entries, x.logRoot)
  /\ ProvedIn(x.entries, x.inclusionProofs)

GenuineInv ==
  /\ \A b \in Bundlings : Gathered(bundling[b])
  /\ \A b \in Stored : Genuine(bundles[b])

\* All of it stays so while the log grows.
LEMMA GatheredKept ==
  ASSUME LogInv, [LogNext]_logVars, UNCHANGED owner, NEW x
  PROVE  (Gathered(x) => Gathered(x)') /\ (Genuine(x) => Genuine(x)')
<1>1. PICK n \in Nat, m \in Nat : n = Len(leaves) /\ m = Len(leaves)' /\ n <= m
  BY EarlierKept
<1>2. \A k \in 1..n : k \in 1..m /\ Before(k)' = Before(k)
  BY <1>1, EarlierKept
<1>3. \A es, root : Witnessed(es, root) => Witnessed(es, root)'
  BY <1>1, <1>2 DEF Witnessed
<1>4. \A es, proofs : ProvedIn(es, proofs) => ProvedIn(es, proofs)'
  <2>1. SUFFICES ASSUME NEW es, NEW proofs, ProvedIn(es, proofs) PROVE ProvedIn(es, proofs)'
    OBVIOUS
  <2>2. PICK k \in 1..n :
          Last(es).seq < k /\ proofs = [s \in Seqs(es) |-> InclusionProof(Before(k), s)]
    BY <1>1, <2>1 DEF ProvedIn
  <2>3. k \in 1..m /\ Before(k)' = Before(k)
    BY <1>2
  <2>4. proofs = [s \in Seqs(es) |-> InclusionProof(Before(k)', s)]
    BY <2>2, <2>3
  <2> QED
    BY <1>1, <2>2, <2>3, <2>4 DEF ProvedIn
<1>5. \A es, r : Recorded(es, r) => Recorded(es, r)'
  <2>1. SUFFICES ASSUME NEW es, NEW r, Recorded(es, r) PROVE Recorded(es, r)'
    OBVIOUS
  <2>2. PICK t : t = owner[r] /\ t = owner'[r]
    OBVIOUS
  <2>3. Begins(About(t, r), About(t, r)')
    BY AboutGrows
  <2>4. LogInv'
    BY LogInvStep
  <2>5. Len(About(t, r)') \in Nat
    BY <2>4, AboutEntries
  <2>6. Begins(es, About(t, r)')
    BY <2>1, <2>2, <2>3, <2>5, BeginsOn DEF Recorded
  <2> QED
    BY <2>1, <2>2, <2>6 DEF Recorded
<1> QED
  BY <1>3, <1>4, <1>5 DEF Gathered, Genuine

\* The last of the entries is in the log.
LEMMA LastWithin ==
  ASSUME LogInv, NEW es, NEW r, Recorded(es, r)
  PROVE  /\ Last(es).seq \in 0..(Len(leaves) - 1) /\ Len(es) \in Nat \ {0} /\ IsSeq(es)
         /\ Len(leaves) \in 1..Len(leaves)
         /\ \A i \in 1..Len(es) : /\ es[i].seq \in 0..Last(es).seq
                                  /\ es[i] = entries[es[i].seq + 1]
         /\ Slice(es)
<1>1. PICK c : c = About(owner[r], r)
  OBVIOUS
<1>2. /\ IsSeq(c) /\ Slice(c) /\ Len(c) \in Nat
      /\ \A j \in 1..Len(c) : \E i \in 1..Len(entries) : c[j] = entries[i] /\ c[j].seq = i - 1
  BY <1>1, AboutEntries
<1>3. Begins(es, c) /\ es # <<>>
  BY <1>1 DEF Recorded
<1>4. Last(es) = es[Len(es)] /\ Len(es) \in 1..Len(c)
  BY <1>2, <1>3, UpToLast
<1>5. PICK k \in Nat \ {0} : k = Len(es) /\ k <= Len(c)
  BY <1>2, <1>4
<1>6. \A i \in 1..k : es[i] = c[i] /\ i \in 1..Len(c)
  BY <1>2, <1>3, <1>5 DEF Begins
<1>7. IsSeq(es) /\ DOMAIN es = 1..k
  BY <1>3, <1>5 DEF Begins, IsSeq
<1>8. PICK n \in Nat : n = Len(leaves) /\ n = Len(entries)
  BY LeavesApart
<1>9. \A i \in 1..k : es[i].seq \in 0..(n - 1) /\ es[i] = entries[es[i].seq + 1]
  <2>1. SUFFICES ASSUME NEW i \in 1..k PROVE es[i].seq \in 0..(n - 1) /\ es[i] = entries[es[i].seq + 1]
    OBVIOUS
  <2>2. PICK j \in 1..n : c[i] = entries[j] /\ c[i].seq = j - 1
    BY <1>2, <1>6, <1>8
  <2>3. es[i].seq = j - 1 /\ es[i] = entries[j]
    BY <1>6, <2>2
  <2> QED
    BY <1>8, <2>3
<1>10. \A i, j \in 1..Len(c) : i < j => c[i].seq < c[j].seq
  <2>1. DOMAIN c = 1..Len(c)
    BY <1>2 DEF IsSeq
  <2> QED
    BY <1>2, <2>1 DEF Slice
<1>11. \A i, j \in 1..k : i < j => es[i].seq < es[j].seq
  BY <1>6, <1>10
<1>12. \A i \in 1..k : es[i].seq \in 0..es[k].seq
  BY <1>9, <1>11
<1>13. Slice(es)
  <2>1. \A i \in 1..k : c[i] = Sealed(Unsealed(c[i])) /\ c[i].seq \in Nat /\ c[i].payload \notin Formless
    <3>1. DOMAIN c = 1..Len(c)
      BY <1>2 DEF IsSeq
    <3> QED
      BY <1>2, <1>6, <3>1 DEF Slice
  <2> QED
    BY <1>6, <1>7, <1>11, <2>1 DEF Slice, IsSeq
<1>14. k \in 1..k /\ n \in 1..n
  <2>1. k \in 1..k
    OBVIOUS
  <2>2. es[k].seq \in 0..(n - 1)
    BY <1>9, <2>1
  <2> QED
    BY <2>1, <2>2
<1> QED
  BY <1>4, <1>5, <1>7, <1>8, <1>9, <1>12, <1>13, <1>14

\* The locals of a request after it has moved on.
LEMMA Moved ==
  ASSUME NEW l, Fields \subseteq DOMAIN l, NEW at, NEW x, x = [l EXCEPT !.at = at]
  PROVE  /\ Fields \subseteq DOMAIN x /\ x.at = at /\ x.run = l.run /\ x.tenant = l.tenant
         /\ x.entries = l.entries /\ x.root = l.root /\ x.proofs = l.proofs
  BY DEF Fields

\* A request that gave up holds nothing.
LEMMA GaveUp == Gathered(Idle) /\ Gathered([Idle EXCEPT !.at = "done"])
<1>1. Fields \subseteq DOMAIN Idle /\ Idle.at = "idle"
  BY DEF Idle, Fields
<1>2. PICK x : x = [Idle EXCEPT !.at = "done"]
  OBVIOUS
<1>3. Fields \subseteq DOMAIN x /\ x.at = "done"
  BY <1>1, <1>2, Moved
<1> QED
  BY <1>1, <1>2, <1>3 DEF Gathered, HasRun, HasEntries, HasRoot, HasProofs

\* A request reads only what its invariant says, and stores or records what it gathered.
LEMMA GatheringSteps ==
  ASSUME LogInv, GenuineInv, NEW b \in Bundlings, BundleStep(b), ~BundleRecord(b)
  PROVE  /\ UNCHANGED <<logVars, owner>>
         /\ \E x : Put(b, x) /\ Gathered(x)
         /\ \/ UNCHANGED bundles
            \/ \E x : /\ Genuine(x)
                      /\ bundles' = [c \in Stored \union {b} |-> IF c = b THEN x ELSE bundles[c]]
<1>1. PICK l : l = bundling[b] /\ Gathered(l)
  BY DEF GenuineInv
<1>2. Fields \subseteq DOMAIN l
  BY <1>1 DEF Gathered
<1>3. CASE \E r \in Runs, t \in Tenants : BundleUnknown(b, r, t)
  BY <1>3, GaveUp DEF BundleUnknown
<1>4. CASE \E r \in Runs, t \in Tenants : BundleFind(b, r, t)
  <2>1. PICK r \in Runs, t \in Tenants : BundleFind(b, r, t)
    BY <1>4
  <2>2. PICK x : x = [Idle EXCEPT !.at = "found", !.run = r, !.tenant = t, !.machine = r \in Probed]
    OBVIOUS
  <2>3. Fields \subseteq DOMAIN x /\ x.at = "found" /\ x.run = r /\ x.tenant = t
    BY <2>2 DEF Idle, Fields
  <2>4. Gathered(x)
    BY <2>1, <2>3 DEF Gathered, BundleFind, HasRun, HasEntries, HasRoot, HasProofs
  <2> QED
    BY <2>1, <2>2, <2>4 DEF BundleFind
<1>5. CASE BundleRead(b)
  <2>1. PICK slice : slice = EntriesForSubject(l.tenant, l.run)
    OBVIOUS
  <2>2. l.run \in Runs /\ l.tenant = owner[l.run]
    BY <1>1, <1>5 DEF BundleRead, Gathered, HasRun
  <2>3. CASE slice = <<>>
    BY <1>1, <1>5, <2>1, <2>3, GaveUp DEF BundleRead
  <2>4. CASE slice # <<>>
    <3>1. PICK x : x = [l EXCEPT !.at = "read", !.entries = slice]
      OBVIOUS
    <3>2. /\ Fields \subseteq DOMAIN x /\ x.at = "read" /\ x.entries = slice
          /\ x.run = l.run /\ x.tenant = l.tenant
      BY <1>2, <3>1 DEF Fields
    <3>3. slice = About(owner[l.run], l.run)
      BY <2>1, <2>2, AboutIs
    <3>4. Recorded(slice, l.run)
      BY <2>4, <3>3, AboutEntries DEF Recorded, Begins
    <3>5. Gathered(x)
      BY <2>2, <3>2, <3>4 DEF Gathered, HasRun, HasEntries, HasRoot, HasProofs
    <3> QED
      BY <1>1, <1>5, <2>1, <2>4, <3>1, <3>5 DEF BundleRead
  <2> QED
    BY <2>3, <2>4
<1>6. CASE BundleRoot(b)
  <2>1. PICK x : x = [l EXCEPT !.at = "rooted", !.root = Root(leaves)]
    OBVIOUS
  <2>2. /\ Fields \subseteq DOMAIN x /\ x.at = "rooted" /\ x.root = Root(leaves)
        /\ x.run = l.run /\ x.tenant = l.tenant /\ x.entries = l.entries
    BY <1>2, <2>1 DEF Fields
  <2>3. l.run \in Runs /\ l.tenant = owner[l.run] /\ Recorded(l.entries, l.run)
    BY <1>1, <1>6 DEF BundleRoot, Gathered, HasRun, HasEntries
  <2>4. PICK n \in Nat : n = Len(leaves)
    BY LeavesApart
  <2>5. n \in 1..n /\ Last(l.entries).seq < n /\ Before(n) = leaves
    BY <2>3, <2>4, LastWithin, AllOfIt
  <2>6. Witnessed(l.entries, Root(leaves))
    BY <2>4, <2>5 DEF Witnessed
  <2>7. Gathered(x)
    BY <2>2, <2>3, <2>6 DEF Gathered, HasRun, HasEntries, HasRoot, HasProofs
  <2> QED
    BY <1>1, <1>6, <2>1, <2>7, GaveUp DEF BundleRoot
<1>7. CASE BundleProve(b)
  <2>1. PICK proofs : proofs = [s \in Seqs(l.entries) |-> InclusionProof(leaves, s)]
    OBVIOUS
  <2>2. PICK x : x = [l EXCEPT !.at = "proved", !.proofs = proofs]
    OBVIOUS
  <2>3. /\ Fields \subseteq DOMAIN x /\ x.at = "proved" /\ x.proofs = proofs
        /\ x.run = l.run /\ x.tenant = l.tenant /\ x.entries = l.entries /\ x.root = l.root
    BY <1>2, <2>2 DEF Fields
  <2>4. /\ l.run \in Runs /\ l.tenant = owner[l.run] /\ Recorded(l.entries, l.run)
        /\ Witnessed(l.entries, l.root)
    BY <1>1, <1>7 DEF BundleProve, Gathered, HasRun, HasEntries, HasRoot
  <2>5. PICK n \in Nat : n = Len(leaves)
    BY LeavesApart
  <2>6. n \in 1..n /\ Last(l.entries).seq < n /\ Before(n) = leaves
    BY <2>4, <2>5, LastWithin, AllOfIt
  <2>7. proofs = [s \in Seqs(l.entries) |-> InclusionProof(Before(n), s)]
    BY <2>1, <2>6
  <2>8. ProvedIn(l.entries, proofs)
    BY <2>5, <2>6, <2>7 DEF ProvedIn
  <2>9. Gathered(x)
    BY <2>3, <2>4, <2>8 DEF Gathered, HasRun, HasEntries, HasRoot, HasProofs
  <2> QED
    BY <1>1, <1>7, <2>1, <2>2, <2>9 DEF BundleProve
<1>8. CASE BundleSize(b)
  <2>1. PICK x : x = [l EXCEPT !.at = "sized", !.size = Len(leaves)]
    OBVIOUS
  <2>2. /\ Fields \subseteq DOMAIN x /\ x.at = "sized"
        /\ x.run = l.run /\ x.tenant = l.tenant /\ x.entries = l.entries /\ x.root = l.root
        /\ x.proofs = l.proofs
    BY <1>2, <2>1 DEF Fields
  <2>3. l.at = "proved"
    BY <1>1, <1>8 DEF BundleSize
  <2>4. Gathered(x)
    BY <1>1, <2>2, <2>3 DEF Gathered, HasRun, HasEntries, HasRoot, HasProofs
  <2> QED
    BY <1>1, <1>8, <2>1, <2>4 DEF BundleSize
<1>9. CASE BundleSign(b)
  <2>1. PICK x : x = [l EXCEPT !.at = "signed"]
    OBVIOUS
  <2>2. /\ Fields \subseteq DOMAIN x /\ x.at = "signed"
        /\ x.run = l.run /\ x.tenant = l.tenant /\ x.entries = l.entries /\ x.root = l.root
        /\ x.proofs = l.proofs
    BY <1>2, <2>1, Moved
  <2>3. l.at = "sized"
    BY <1>1, <1>9 DEF BundleSign
  <2>4. Gathered(x)
    BY <1>1, <2>2, <2>3 DEF Gathered, HasRun, HasEntries, HasRoot, HasProofs
  <2> QED
    BY <1>1, <1>9, <2>1, <2>4, GaveUp DEF BundleSign
<1>10. CASE BundleStore(b)
  <2>1. PICK x : x = [l EXCEPT !.at = "stored"]
    OBVIOUS
  <2>2. /\ Fields \subseteq DOMAIN x /\ x.at = "stored"
        /\ x.run = l.run /\ x.tenant = l.tenant /\ x.entries = l.entries /\ x.root = l.root
        /\ x.proofs = l.proofs
    BY <1>2, <2>1, Moved
  <2>3. l.at = "signed"
    BY <1>1, <1>10 DEF BundleStore
  <2>4. Gathered(x)
    BY <1>1, <2>2, <2>3 DEF Gathered, HasRun, HasEntries, HasRoot, HasProofs
  <2>5. PICK y : y = Contents(l)
    OBVIOUS
  <2>6. /\ y.run = l.run /\ y.tenant = l.tenant /\ y.entries = l.entries /\ y.logRoot = l.root
        /\ y.inclusionProofs = l.proofs
        /\ {"entries", "logRoot", "inclusionProofs"} \subseteq DOMAIN y
    BY <2>5 DEF Contents
  <2>7. Genuine(y)
    BY <1>1, <2>3, <2>6 DEF Gathered, Genuine, HasRun, HasEntries, HasRoot, HasProofs
  <2>8. bundles' = [c \in Stored \union {b} |-> IF c = b THEN y ELSE bundles[c]]
    BY <1>1, <1>10, <2>5 DEF BundleStore, Stored
  <2> QED
    BY <1>1, <1>10, <2>1, <2>4, <2>7, <2>8 DEF BundleStore
<1> QED
  BY <1>3, <1>4, <1>5, <1>6, <1>7, <1>8, <1>9, <1>10 DEF BundleStep

LEMMA GenuineInit == EvidenceInit => GenuineInv
  BY GaveUp DEF EvidenceInit, GenuineInv, Stored

\* Whatever is interleaved, requests and bundles keep what they have.
LEMMA GenuineStep ==
  LogInv /\ BundlingInv /\ GenuineInv /\ [EvidenceNext]_evidenceVars => GenuineInv'
<1> SUFFICES ASSUME LogInv, BundlingInv, GenuineInv, [EvidenceNext]_evidenceVars
             PROVE  GenuineInv'
  OBVIOUS
<1>1. [LogNext]_logVars
  BY LogStep
<1>2. UNCHANGED owner
  BY DEF EvidenceNext, evidenceVars, OtherEvent, AuditStep, KeepRoot, ConsistencyRoot,
         ConsistencyProve, ReadStep, ReadEntry, ProveEntry, BundleStep, BundleUnknown, BundleFind,
         BundleRead, BundleRoot, BundleProve, BundleSize, BundleSign, BundleStore, BundleRecord
<1>3. \A x : (Gathered(x) => Gathered(x)') /\ (Genuine(x) => Genuine(x)')
  BY <1>1, <1>2, GatheredKept
<1>4. ASSUME NEW b \in Bundlings, NEW x, Put(b, x), Gathered(x)
      PROVE  \A c \in Bundlings : Gathered(bundling[c])'
  <2>1. SUFFICES ASSUME NEW c \in Bundlings PROVE Gathered(bundling[c])'
    OBVIOUS
  <2>2. PICK l : l = bundling'[c]
    OBVIOUS
  <2>3. l = x \/ l = bundling[c]
    BY <1>4, <2>2, PutFacts DEF BundlingInv
  <2>4. Gathered(l)
    BY <1>4, <2>3 DEF GenuineInv
  <2>5. Gathered(l)'
    BY <1>3, <2>4
  <2> QED
    BY <2>2, <2>5 DEF Gathered, Recorded, Witnessed, ProvedIn
<1>5. ASSUME UNCHANGED bundling PROVE \A c \in Bundlings : Gathered(bundling[c])'
  <2>1. SUFFICES ASSUME NEW c \in Bundlings PROVE Gathered(bundling[c])'
    OBVIOUS
  <2>2. PICK l : l = bundling'[c] /\ Gathered(l)
    BY <1>5 DEF GenuineInv
  <2>3. Gathered(l)'
    BY <1>3, <2>2
  <2> QED
    BY <2>2, <2>3 DEF Gathered, Recorded, Witnessed, ProvedIn
<1>6. ASSUME \/ UNCHANGED bundles
             \/ \E b \in Bundlings : \E x :
                  /\ Genuine(x)
                  /\ bundles' = [c \in Stored \union {b} |-> IF c = b THEN x ELSE bundles[c]]
      PROVE  \A c \in Stored' : Genuine(bundles[c])'
  <2>1. SUFFICES ASSUME NEW c \in DOMAIN bundles' PROVE Genuine(bundles[c])'
    BY DEF Stored
  <2>2. PICK y : y = bundles'[c]
    OBVIOUS
  <2>3. Genuine(y)
    <3>1. CASE UNCHANGED bundles
      BY <2>2, <3>1 DEF GenuineInv, Stored
    <3>2. ASSUME NEW b \in Bundlings, NEW x, Genuine(x),
                 bundles' = [d \in Stored \union {b} |-> IF d = b THEN x ELSE bundles[d]]
          PROVE  Genuine(y)
      <4>1. c \in Stored \union {b} /\ y = IF c = b THEN x ELSE bundles[c]
        BY <2>2, <3>2
      <4> QED
        BY <3>2, <4>1 DEF GenuineInv
    <3> QED
      BY <1>6, <3>1, <3>2
  <2>4. Genuine(y)'
    BY <1>3, <2>3
  <2> QED
    BY <2>2, <2>4 DEF Genuine, Recorded, Witnessed, ProvedIn
<1>7. ASSUME NEW b \in Bundlings, BundleStep(b), ~BundleRecord(b) PROVE GenuineInv'
  <2>1. \A c \in Bundlings : Gathered(bundling[c])'
    BY <1>4, <1>7, GatheringSteps
  <2>2. \A c \in Stored' : Genuine(bundles[c])'
    BY <1>6, <1>7, GatheringSteps
  <2> QED
    BY <2>1, <2>2 DEF GenuineInv
<1>8. ASSUME NEW b \in Bundlings, BundleRecord(b) PROVE GenuineInv'
  <2>1. PICK x : x = [bundling[b] EXCEPT !.at = "done"]
    OBVIOUS
  <2>2. Fields \subseteq DOMAIN bundling[b]
    BY DEF GenuineInv, Gathered
  <2>3. Fields \subseteq DOMAIN x /\ x.at = "done"
    BY <2>1, <2>2, Moved
  <2>4. Gathered(x)
    BY <2>3 DEF Gathered, HasRun, HasEntries, HasRoot, HasProofs
  <2>5. Put(b, x) /\ UNCHANGED bundles
    BY <1>8, <2>1 DEF BundleRecord
  <2>6. \A c \in Bundlings : Gathered(bundling[c])'
    BY <1>4, <2>4, <2>5
  <2>7. \A c \in Stored' : Genuine(bundles[c])'
    BY <1>6, <2>5
  <2> QED
    BY <2>6, <2>7 DEF GenuineInv
<1>9. ASSUME UNCHANGED <<bundling, bundles>> PROVE GenuineInv'
  <2>1. \A c \in Bundlings : Gathered(bundling[c])'
    BY <1>5, <1>9
  <2>2. \A c \in Stored' : Genuine(bundles[c])'
    BY <1>6, <1>9
  <2> QED
    BY <2>1, <2>2 DEF GenuineInv
<1>10. (\E b \in Bundlings : BundleStep(b)) \/ UNCHANGED <<bundling, bundles>>
  BY DEF EvidenceNext, evidenceVars, OtherEvent, AuditStep, KeepRoot, ConsistencyRoot,
         ConsistencyProve, ReadStep, ReadEntry, ProveEntry
<1> QED
  BY <1>7, <1>8, <1>9, <1>10

\* An entry's leaf is in every log that has it, at its number.
LEMMA LeafIn ==
  ASSUME LogInv, NEW n \in 1..Len(leaves), NEW i \in 0..(n - 1), NEW root
  PROVE  VerifyInclusion(InclusionProof(Before(n), i), LeafFor(entries[i + 1]), root) = "valid"
           <=> root = Root(Before(n))
<1>1. PICK m \in Nat : m = Len(leaves)
  BY LeavesApart
<1>2. n \in 0..Len(leaves) /\ i + 1 \in 1..n /\ i + 1 \in 1..Len(leaves) /\ n \in Nat
  BY <1>1
<1>3. PICK T : T = Before(n)
  OBVIOUS
<1>4. Len(T) = n /\ T[i + 1] = leaves[i + 1]
  BY <1>2, <1>3, LogUpTo DEF SameUpTo
<1>5. HashLeaf(LeafFor(entries[i + 1])) = T[i + 1]
  BY <1>2, <1>4, LeavesApart
<1>6. Len(T) \in Nat /\ i \in 0..(Len(T) - 1)
  BY <1>2, <1>4
<1> QED
  BY <1>3, <1>5, <1>6, InclusionComplete

\* A bundle is judged by its root alone, against the tree its proofs are of.
LEMMA BundleJudged ==
  ASSUME LogInv, NEW x, Genuine(x)
  PROVE  VerifyBundle(x) <=>
           \A s \in DOMAIN x.inclusionProofs :
             x.logRoot = Root(Before(x.inclusionProofs[s].treeSize))
<1>1. PICK es, proofs, root :
        es = x.entries /\ proofs = x.inclusionProofs /\ root = x.logRoot
  OBVIOUS
<1>2. Recorded(es, x.run)
  BY <1>1 DEF Genuine
<1>3. PICK n \in 1..Len(leaves) :
        Last(es).seq < n /\ proofs = [s \in Seqs(es) |-> InclusionProof(Before(n), s)]
  BY <1>1 DEF Genuine, ProvedIn
<1>4. PICK k \in Nat \ {0} : k = Len(es)
  BY <1>2, LastWithin
<1>5. /\ Slice(es) /\ IsSeq(es) /\ Last(es).seq \in 0..(Len(leaves) - 1)
      /\ \A i \in 1..k : es[i].seq \in 0..Last(es).seq /\ es[i] = entries[es[i].seq + 1]
  BY <1>2, <1>4, LastWithin
<1>6. DOMAIN es = 1..k
  BY <1>4, <1>5 DEF IsSeq
<1>7. n \in 0..Len(leaves) /\ n \in Nat
  BY LeavesApart
<1>8. \A s \in Seqs(es) : proofs[s].treeSize = n
  <2>1. Len(Before(n)) = n
    BY <1>7, LogUpTo
  <2> QED
    BY <1>3, <2>1 DEF InclusionProof
<1>9. ASSUME NEW i \in 1..k
      PROVE  /\ es[i].seq \in DOMAIN proofs
             /\ VerifyInclusion(proofs[es[i].seq], LeafFor(es[i]), root) = "valid"
                  <=> root = Root(Before(n))
  <2>1. PICK s : s = es[i].seq
    OBVIOUS
  <2>2. s \in Seqs(es) /\ proofs[s] = InclusionProof(Before(n), s)
    BY <1>3, <1>6, <2>1 DEF Seqs
  <2>3. s \in 0..(n - 1)
    BY <1>3, <1>5, <1>7, <2>1
  <2>4. LeafFor(es[i]) = LeafFor(entries[s + 1])
    BY <1>5, <2>1
  <2>5. s \in DOMAIN proofs
    BY <1>3, <2>2
  <2> QED
    BY <2>1, <2>2, <2>3, <2>4, <2>5, LeafIn
<1>10. VerifyEntrySlice(es).valid
  BY <1>5, SliceAccepted
<1>11. VerifyBundle(x) <=> root = Root(Before(n))
  <2>1. VerifyBundle(x) <=>
          \A i \in 1..k : VerifyInclusion(proofs[es[i].seq], LeafFor(es[i]), root) = "valid"
    BY <1>1, <1>6, <1>9, <1>10 DEF VerifyBundle
  <2>2. 1 \in 1..k
    OBVIOUS
  <2> QED
    BY <1>9, <2>1, <2>2
<1>12. DOMAIN proofs = Seqs(es) /\ es[1].seq \in Seqs(es)
  BY <1>3, <1>6 DEF Seqs
<1> QED
  BY <1>1, <1>8, <1>11, <1>12

\* A bundle holds everything its tenant recorded about the run up to some moment, with the
\* root of a log that had all of it, and is accepted exactly when root and proofs are of one
\* log: for logs of every length, and whatever was appended between the readings.
THEOREM BundlesAlwaysGenuine == EvidenceSpec => []BundleGenuine
<1>1. ASSUME LogInv, GenuineInv PROVE BundleGenuine
  <2>1. SUFFICES
          ASSUME NEW b \in Stored, NEW x, x = bundles[b], NEW now, now = About(owner[x.run], x.run)
          PROVE  /\ x.tenant = owner[x.run]
                 /\ x.entries # <<>> /\ IsPrefix(x.entries, now)
                 /\ DOMAIN x.inclusionProofs = Seqs(x.entries)
                 /\ \E n \in 1..Len(entries) :
                      /\ x.logRoot = Root(Before(n))
                      /\ x.entries = Chosen(now, {i \in DOMAIN now :
                                            now[i].seq <= Last(x.entries).seq})
                      /\ Last(x.entries).seq < n
                 /\ VerifyBundle(x) <=>
                      \A s \in DOMAIN x.inclusionProofs :
                        x.logRoot = Root(Before(x.inclusionProofs[s].treeSize))
    BY Zenon DEF BundleGenuine, About
  <2>2. Genuine(x)
    BY <1>1, <2>1 DEF GenuineInv
  <2>3. Begins(x.entries, now) /\ x.entries # <<>> /\ IsSeq(now) /\ Slice(now)
    BY <1>1, <2>1, <2>2, AboutEntries DEF Genuine, Recorded
  <2>4. /\ IsPrefix(x.entries, now)
        /\ x.entries = Chosen(now, {i \in DOMAIN now : now[i].seq <= Last(x.entries).seq})
    BY <2>3, UpToLast
  <2>5. \E n \in 1..Len(entries) : x.logRoot = Root(Before(n)) /\ Last(x.entries).seq < n
    BY <1>1, <2>2, LeavesApart DEF Genuine, Witnessed
  <2>6. DOMAIN x.inclusionProofs = Seqs(x.entries)
    BY <2>2 DEF Genuine, ProvedIn
  <2>7. VerifyBundle(x) <=>
          \A s \in DOMAIN x.inclusionProofs :
            x.logRoot = Root(Before(x.inclusionProofs[s].treeSize))
    BY <1>1, <2>2, BundleJudged
  <2>8. x.tenant = owner[x.run]
    BY <2>2 DEF Genuine
  <2>9. PICK n \in 1..Len(entries) : x.logRoot = Root(Before(n)) /\ Last(x.entries).seq < n
    BY <2>5
  <2> QED
    BY <2>3, <2>4, <2>6, <2>7, <2>8, <2>9
<1>2. EvidenceInit => GenuineInv
  BY GenuineInit
<1>3. LogInv /\ BundlingInv /\ GenuineInv /\ [EvidenceNext]_evidenceVars => GenuineInv'
  BY GenuineStep
<1> QED
  BY <1>1, <1>2, <1>3, EvidenceInvariant, PTL DEF EvidenceSpec

-----------------------------------------------------------------------------
(* The offline verifier *)

\* What is accepted for the root of a log is one of its tree, by whatever proof.
LEMMA AcceptedIsLeaf ==
  ASSUME NEW tree, Len(tree) \in Nat, OfLeaves(tree),
         NEW proof, proof.leafIndex \in Nat, proof.treeSize \in Nat, Len(proof.path) \in Nat,
         NEW x, VerifyInclusion(proof, <<x>>, Root(tree)) = "valid"
  PROVE  \E i \in 1..Len(tree) : tree[i] = HashLeaf(<<x>>)
<1>1. PICK end : end = InclusionEnd(proof, <<x>>)
  OBVIOUS
<1>2. proof.treeSize # 0 /\ AtRoot(end) /\ end.hash = Root(tree)
  BY <1>1, VerifyIs
<1>3. PICK sn \in Nat : sn = proof.treeSize - 1
  BY <1>2
<1>4. PICK start, at, hash :
        at = proof.leafIndex /\ hash = HashLeaf(<<x>>) /\ start = At(at, sn, hash)
  OBVIOUS
<1>5. Climbing(start) /\ start.hash = HashLeaf(<<x>>)
  <2>1. Stands(start, at, sn, hash, hash)
    BY <1>3, <1>4, AtIs
  <2> QED
    BY <1>4, <2>1 DEF Stands
<1>6. end = Walk(start, proof.path)
  BY <1>1, <1>3, <1>4 DEF InclusionEnd
<1>7. RootOfSome(tree, Root(tree))
  <2>1. PICK n \in Nat : n = Len(tree)
    OBVIOUS
  <2>2. 0 + n = n /\ n \in 0..n /\ 0 + n <= n
    OBVIOUS
  <2> QED
    BY <2>1, <2>2 DEF RootOfSome, Root
<1>8. RootOfSome(tree, start.hash)
  BY <1>2, <1>5, <1>6, <1>7, WalkFromWithin DEF AtRoot
<1> QED
  BY <1>5, <1>8, LeafOfRange

\* A record of an entry's fields that has a canonical form, whatever its hash.
Shaped(e) ==
  /\ e = [seq |-> e.seq, action |-> e.action, actor |-> e.actor, tenantId |-> e.tenantId,
          subject |-> e.subject, payload |-> e.payload, previousHash |-> e.previousHash,
          entryHash |-> e.entryHash]
  /\ e.seq \in Nat /\ e.payload \notin Formless

Listed(es) == \E S : es \in Seq(S) /\ \A e \in S : Shaped(e)

\* The offline verifier makes three checks.
LEMMA LocalChecks ==
  ASSUME NEW x
  PROVE  VerifyLocalBundle(x) <=>
           /\ EntryDigestsHold(x.entries) /\ Ordered(x.entries)
           /\ \A i \in DOMAIN x.entries : ProvablyIn(x.entries[i], x.inclusionProofs, x.logRoot)
<1> DEFINE checks ==
  [entryDigests |-> EntryDigestsHold(x.entries), ordering |-> Ordered(x.entries),
   inclusion |-> \A i \in DOMAIN x.entries :
     ProvablyIn(x.entries[i], x.inclusionProofs, x.logRoot)]
<1>1. DOMAIN checks = {"entryDigests", "ordering", "inclusion"}
  OBVIOUS
<1>2. /\ checks["entryDigests"] = EntryDigestsHold(x.entries)
      /\ checks["ordering"] = Ordered(x.entries)
      /\ checks["inclusion"] = (\A i \in DOMAIN x.entries :
                                 ProvablyIn(x.entries[i], x.inclusionProofs, x.logRoot))
  OBVIOUS
<1>3. VerifyLocalBundle(x) <=> \A check \in DOMAIN checks : checks[check]
  BY DEF VerifyLocalBundle
<1> HIDE DEF checks
<1> QED
  BY <1>1, <1>2, <1>3, Zenon

\* They are those of the server.
LEMMA VerdictsAgree ==
  ASSUME NEW x, Listed(x.entries)
  PROVE  VerifyLocalBundle(x) <=> VerifyBundle(x)
<1>1. PICK es : es = x.entries
  OBVIOUS
<1>2. PICK S : es \in Seq(S) /\ \A e \in S : Shaped(e)
  BY <1>1 DEF Listed
<1>3. PICK n \in Nat : DOMAIN es = 1..n /\ \A i \in 1..n : Shaped(es[i])
  BY <1>2
<1>4. ASSUME NEW i \in 1..n
      PROVE  SliceFault(es, i) = "none" <=>
               /\ i > 1 => es[i].seq > es[i - 1].seq
               /\ EntryDigest(Unsealed(es[i])) = es[i].entryHash
  <2>1. i > 1 => es[i].seq \in Nat /\ es[i - 1].seq \in Nat
    BY <1>3 DEF Shaped
  <2>2. (i > 1 /\ es[i].seq <= es[i - 1].seq) <=> ~(i > 1 => es[i].seq > es[i - 1].seq)
    BY <2>1
  <2>3. es[i].payload \notin Formless
    BY <1>3 DEF Shaped
  <2> QED
    BY <2>2, <2>3 DEF SliceFault
<1>5. VerifyEntrySlice(es).valid <=> \A i \in 1..n : SliceFault(es, i) = "none"
  BY <1>3 DEF VerifyEntrySlice, Verification
<1>6. VerifyEntrySlice(es).valid <=> EntryDigestsHold(es) /\ Ordered(es)
  BY <1>3, <1>4, <1>5 DEF EntryDigestsHold, Ordered
<1> QED
  BY <1>1, <1>6, LocalChecks DEF VerifyBundle, ProvablyIn

\* Something that can be read as a proof.
ProofLike(proof) ==
  proof.leafIndex \in Nat /\ proof.treeSize \in Nat /\ Len(proof.path) \in Nat

\* A bundle that was well made once: its root is that of some log, its parts are what they
\* should be.
WellMade(x) ==
  /\ Listed(x.entries)
  /\ \A s \in DOMAIN x.inclusionProofs : ProofLike(x.inclusionProofs[s])
  /\ \E n \in 0..Len(leaves) : x.logRoot = Root(Before(n))

\* Two records of the same fields and hash are one entry.
LEMMA OneEntry ==
  ASSUME NEW e, NEW f, Shaped(e), Shaped(f), Unsealed(e) = Unsealed(f), e.entryHash = f.entryHash
  PROVE  e = f
<1>1. PICK u : u = Unsealed(e) /\ u = Unsealed(f)
  OBVIOUS
<1>2. /\ u.seq = e.seq /\ u.action = e.action /\ u.actor = e.actor /\ u.tenantId = e.tenantId
      /\ u.subject = e.subject /\ u.payload = e.payload /\ u.previousHash = e.previousHash
  BY <1>1 DEF Unsealed
<1>3. /\ u.seq = f.seq /\ u.action = f.action /\ u.actor = f.actor /\ u.tenantId = f.tenantId
      /\ u.subject = f.subject /\ u.payload = f.payload /\ u.previousHash = f.previousHash
  BY <1>1 DEF Unsealed
<1> QED
  BY <1>2, <1>3 DEF Shaped

LEMMA SealedIsShaped ==
  ASSUME NEW u, u.seq \in Nat, u.payload \notin Formless
  PROVE  Shaped(Sealed(u))
  BY DEF Shaped, Sealed

\* It accepts nothing that the log does not hold.
LEMMA AcceptedIsLogged ==
  ASSUME LogInv, NEW x, WellMade(x), VerifyLocalBundle(x), NEW i \in DOMAIN x.entries
  PROVE  \E j \in DOMAIN entries : entries[j] = x.entries[i]
<1>1. PICK e : e = x.entries[i]
  OBVIOUS
<1>2. Shaped(e)
  BY <1>1 DEF WellMade, Listed
<1>3. EntryDigest(Unsealed(e)) = e.entryHash
  BY <1>1, LocalChecks DEF EntryDigestsHold
<1>4. PICK proof : proof = x.inclusionProofs[e.seq]
  OBVIOUS
<1>5. ProofLike(proof) /\ VerifyInclusion(proof, <<e.entryHash>>, x.logRoot) = "valid"
  BY <1>1, <1>4, LocalChecks DEF ProvablyIn, WellMade, LeafFor
<1>6. PICK n \in 0..Len(leaves) : x.logRoot = Root(Before(n))
  BY DEF WellMade
<1>7. PICK tree : tree = Before(n)
  OBVIOUS
<1>8. Len(tree) = n /\ OfLeaves(tree) /\ SameUpTo(leaves, tree, n) /\ n \in Nat
      /\ n <= Len(leaves)
  BY <1>7, LogUpTo, LeavesApart
<1>9. PICK j \in 1..n : tree[j] = HashLeaf(<<e.entryHash>>)
  BY <1>5, <1>6, <1>7, <1>8, AcceptedIsLeaf DEF ProofLike
<1>10. j \in 1..Len(leaves) /\ leaves[j] = HashLeaf(<<e.entryHash>>)
  BY <1>8, <1>9, LeavesApart DEF SameUpTo
<1>11. PICK f : f = entries[j]
  OBVIOUS
<1>12. leaves[j] = HashLeaf(<<f.entryHash>>)
  BY <1>10, <1>11, LeavesApart DEF LeafFor
<1>13. e.entryHash = f.entryHash
  BY <1>10, <1>12, LeafInjective
<1>14. j \in DOMAIN entries /\ j \in 1..Len(entries)
  BY <1>10, LeavesApart
<1>15. /\ f = Sealed(Unsealed(f)) /\ EntryDigest(Unsealed(f)) = f.entryHash
       /\ f.seq \in Nat /\ f.payload \notin Formless
  BY <1>11, <1>14, EntriesFit DEF Fits
<1>16. Shaped(f)
  <2>1. PICK u : u = Unsealed(f)
    OBVIOUS
  <2>2. u.seq = f.seq /\ u.payload = f.payload
    BY <2>1 DEF Unsealed
  <2> QED
    BY <1>15, <2>1, <2>2, SealedIsShaped
<1>17. Unsealed(e) = Unsealed(f)
  BY <1>3, <1>13, <1>15, DigestInjective
<1>18. e = f
  BY <1>2, <1>13, <1>16, <1>17, OneEntry
<1> QED
  BY <1>1, <1>11, <1>14, <1>18

\* A sequence with one element removed, or one repeated, is of the same elements.
LEMMA StillOf ==
  ASSUME NEW S, NEW es \in Seq(S), NEW i \in DOMAIN es
  PROVE  RemoveAt(es, i) \in Seq(S) /\ InsertAt(es, i, es[i]) \in Seq(S)
<1>1. i \in 1..Len(es) /\ Len(es) \in Nat
  OBVIOUS
<1>2. PICK a, b, c, d : /\ a = SubSeq(es, 1, i - 1) /\ b = SubSeq(es, i + 1, Len(es))
                        /\ c = SubSeq(es, i, Len(es)) /\ d = <<es[i]>>
  OBVIOUS
<1>3. a \in Seq(S) /\ c \in Seq(S) /\ d \in Seq(S)
  BY <1>1, <1>2
<1>4. b \in Seq(S)
  <2>1. CASE i = Len(es)
    BY <1>1, <1>2, <2>1
  <2>2. CASE i < Len(es)
    BY <1>1, <1>2, <2>2
  <2> QED
    BY <1>1, <2>1, <2>2
<1>5. a \o b \in Seq(S) /\ a \o d \o c \in Seq(S)
  BY <1>3, <1>4
<1> QED
  BY <1>2, <1>5 DEF RemoveAt, InsertAt

\* An entry with another payload, its hash redone or not, is one of the same fields.
LEMMA EditedShaped ==
  ASSUME NEW e, Shaped(e), NEW p \in Otherwise(e.payload)
  PROVE  Shaped([e EXCEPT !.payload = p]) /\ Shaped(Resealed(e, p))
<1>1. p \notin Formless
  BY DEF Otherwise
<1>2. PICK f : f = [e EXCEPT !.payload = p]
  OBVIOUS
<1>3. f = [seq |-> e.seq, action |-> e.action, actor |-> e.actor, tenantId |-> e.tenantId,
           subject |-> e.subject, payload |-> p, previousHash |-> e.previousHash,
           entryHash |-> e.entryHash]
  BY <1>2 DEF Shaped
<1>4. Shaped(f)
  BY <1>1, <1>3 DEF Shaped
<1>5. PICK u : u = [Unsealed(e) EXCEPT !.payload = p]
  OBVIOUS
<1>6. u.seq = e.seq /\ u.payload = p
  BY <1>5 DEF Unsealed
<1>7. Shaped(Sealed(u))
  BY <1>1, <1>6, SealedIsShaped DEF Shaped
<1> QED
  BY <1>2, <1>4, <1>5, <1>7 DEF Resealed

\* So entries tampered with are entries.
LEMMA OtherEntriesListed ==
  ASSUME NEW es, Listed(es), NEW changed \in OtherEntries(es)
  PROVE  Listed(changed)
<1>1. PICK S : es \in Seq(S) /\ \A e \in S : Shaped(e)
  BY DEF Listed
<1>2. CASE \E i \in DOMAIN es : \E p \in Otherwise(es[i].payload) :
             changed \in {[es EXCEPT ![i].payload = p], [es EXCEPT ![i] = Resealed(es[i], p)]}
  <2>1. PICK i \in DOMAIN es : \E p \in Otherwise(es[i].payload) :
             changed \in {[es EXCEPT ![i].payload = p], [es EXCEPT ![i] = Resealed(es[i], p)]}
    BY <1>2
  <2>2. PICK p \in Otherwise(es[i].payload) :
             changed \in {[es EXCEPT ![i].payload = p], [es EXCEPT ![i] = Resealed(es[i], p)]}
    BY <2>1
  <2>3. PICK e : e = es[i]
    OBVIOUS
  <2>4. PICK f \in {[e EXCEPT !.payload = p], Resealed(e, p)} : changed = [es EXCEPT ![i] = f]
    BY <2>2, <2>3
  <2>5. Shaped(f)
    BY <1>1, <2>2, <2>3, <2>4, EditedShaped
  <2>6. PICK T : T = S \union {f}
    OBVIOUS
  <2>7. changed \in Seq(T) /\ \A g \in T : Shaped(g)
    BY <1>1, <2>4, <2>5, <2>6
  <2> QED
    BY <2>7 DEF Listed
<1>3. CASE \E i \in DOMAIN es : changed \in {RemoveAt(es, i), InsertAt(es, i, es[i])}
  BY <1>1, <1>3, StillOf DEF Listed
<1>4. CASE \E i \in 1..(Len(es) - 1) : changed = [es EXCEPT ![i] = es[i + 1], ![i + 1] = es[i]]
  <2>1. PICK i \in 1..(Len(es) - 1) : changed = [es EXCEPT ![i] = es[i + 1], ![i + 1] = es[i]]
    BY <1>4
  <2>2. i \in 1..Len(es) /\ i + 1 \in 1..Len(es)
    BY <1>1
  <2>3. es[i] \in S /\ es[i + 1] \in S
    BY <1>1, <2>2
  <2>4. changed \in Seq(S)
    BY <1>1, <2>1, <2>3
  <2> QED
    BY <1>1, <2>4 DEF Listed
<1>5. PICK A, B, C, D :
        /\ A = UNION {UNION {{[es EXCEPT ![i].payload = p], [es EXCEPT ![i] = Resealed(@, p)]} :
                               p \in Otherwise(es[i].payload)} : i \in DOMAIN es}
        /\ B = {RemoveAt(es, i) : i \in DOMAIN es}
        /\ C = {InsertAt(es, i, es[i]) : i \in DOMAIN es}
        /\ D = {[es EXCEPT ![i] = es[i + 1], ![i + 1] = es[i]] : i \in 1..(Len(es) - 1)}
  OBVIOUS
<1>6. changed \in A \/ changed \in B \/ changed \in C \/ changed \in D
  BY <1>5, Zenon DEF OtherEntries
<1>7. CASE changed \in A
  <2>1. PICK i \in DOMAIN es : changed \in UNION
            {{[es EXCEPT ![i].payload = p], [es EXCEPT ![i] = Resealed(@, p)]} :
              p \in Otherwise(es[i].payload)}
    BY <1>5, <1>7
  <2>2. PICK p \in Otherwise(es[i].payload) :
            changed \in {[es EXCEPT ![i].payload = p], [es EXCEPT ![i] = Resealed(es[i], p)]}
    BY <2>1, Zenon
  <2> QED
    BY <1>2, <2>2, Zenon
<1>8. CASE changed \in B \/ changed \in C
  <2>1. \E i \in DOMAIN es : changed = RemoveAt(es, i) \/ changed = InsertAt(es, i, es[i])
    BY <1>5, <1>8, Zenon
  <2>2. \E i \in DOMAIN es : changed \in {RemoveAt(es, i), InsertAt(es, i, es[i])}
    BY <2>1, Zenon
  <2> QED
    BY <1>3, <2>2
<1>9. CASE changed \in D
  BY <1>4, <1>5, <1>9, Zenon
<1> QED
  BY <1>6, <1>7, <1>8, <1>9

\* And proofs tampered with can still be read as proofs.
LEMMA OtherProofsLike ==
  ASSUME NEW proofs, \A s \in DOMAIN proofs : ProofLike(proofs[s]) /\ IsSeq(proofs[s].path),
         NEW changed \in OtherProofs(proofs), NEW s \in DOMAIN changed
  PROVE  ProofLike(changed[s])
<1>1. CASE \E t \in DOMAIN proofs : changed = [u \in DOMAIN proofs \ {t} |-> proofs[u]]
  BY <1>1
<1>2. CASE \E t \in DOMAIN proofs : /\ proofs[t].path # <<>>
                                    /\ changed = [proofs EXCEPT ![t].path = Front(@)]
  <2>1. PICK t \in DOMAIN proofs : /\ proofs[t].path # <<>>
                                   /\ changed = [proofs EXCEPT ![t].path = Front(@)]
    BY <1>2
  <2>2. PICK proof, path : proof = proofs[t] /\ path = proof.path
    OBVIOUS
  <2>3. PICK S : path \in Seq(S)
    BY <2>2 DEF IsSeq
  <2>4. Len(path) \in Nat /\ Len(path) # 0
    BY <2>1, <2>2, <2>3
  <2>5. Len(Front(path)) = Len(path) - 1
    <3>1. PICK m : m = Len(path) - 1
      OBVIOUS
    <3>2. m \in Nat /\ m <= Len(path)
      BY <2>4, <3>1
    <3>3. Len(SubSeq(path, 1, m)) = m
      BY <2>3, <3>2
    <3> QED
      BY <3>1, <3>3 DEF Front
  <2>6. changed = [proofs EXCEPT ![t] = [proof EXCEPT !.path = Front(path)]]
    BY <2>1, <2>2
  <2>7. PICK short : short = [proof EXCEPT !.path = Front(path)]
    OBVIOUS
  <2>8. short.leafIndex = proof.leafIndex /\ short.treeSize = proof.treeSize
        /\ (short.path = Front(path) \/ short.path = path)
    BY <2>2, <2>7
  <2>9. ProofLike(short)
    BY <2>2, <2>4, <2>5, <2>8 DEF ProofLike
  <2> QED
    BY <2>6, <2>7, <2>9
<1>3. CASE \E t, u \in DOMAIN proofs : changed = [proofs EXCEPT ![t] = proofs[u]]
  BY <1>3
<1>4. PICK A, B, C :
        /\ A = {[u \in DOMAIN proofs \ {t} |-> proofs[u]] : t \in DOMAIN proofs}
        /\ B = {[proofs EXCEPT ![t].path = Front(@)] :
                  t \in {u \in DOMAIN proofs : proofs[u].path # <<>>}}
        /\ C = UNION {{[proofs EXCEPT ![t] = proofs[u]] : u \in DOMAIN proofs} : t \in DOMAIN proofs}
  OBVIOUS
<1>5. changed \in A \/ changed \in B \/ changed \in C
  BY <1>4 DEF OtherProofs
<1>6. CASE changed \in A
  BY <1>1, <1>4, <1>6, Zenon
<1>7. CASE changed \in B
  <2>1. PICK t \in {u \in DOMAIN proofs : proofs[u].path # <<>>} :
            changed = [proofs EXCEPT ![t].path = Front(@)]
    BY <1>4, <1>7
  <2> QED
    BY <1>2, <2>1
<1>8. CASE changed \in C
  <2>1. \E t, u \in DOMAIN proofs : changed = [proofs EXCEPT ![t] = proofs[u]]
    BY <1>4, <1>8
  <2> QED
    BY <1>3, <2>1
<1> QED
  BY <1>5, <1>6, <1>7, <1>8

\* What a stored bundle holds is well made, and a proof's path is one.
LEMMA GenuineWellMade ==
  ASSUME LogInv, NEW x, Genuine(x)
  PROVE  /\ WellMade(x)
         /\ \A s \in DOMAIN x.inclusionProofs : IsSeq(x.inclusionProofs[s].path)
<1>1. PICK es, proofs : es = x.entries /\ proofs = x.inclusionProofs
  OBVIOUS
<1>2. Recorded(es, x.run)
  BY <1>1 DEF Genuine
<1>3. PICK n \in 1..Len(leaves) :
        Last(es).seq < n /\ proofs = [s \in Seqs(es) |-> InclusionProof(Before(n), s)]
  BY <1>1 DEF Genuine, ProvedIn
<1>4. PICK k \in Nat \ {0} : k = Len(es)
  BY <1>2, LastWithin
<1>5. /\ Slice(es) /\ IsSeq(es) /\ Last(es).seq \in 0..(Len(leaves) - 1)
      /\ \A i \in 1..k : es[i].seq \in 0..Last(es).seq
  BY <1>2, <1>4, LastWithin
<1>6. DOMAIN es = 1..k
  BY <1>4, <1>5 DEF IsSeq
<1>7. n \in 0..Len(leaves) /\ n \in Nat /\ Len(Before(n)) = n
  BY LogUpTo, LeavesApart
<1>8. Listed(es)
  <2>1. PICK S : es \in Seq(S)
    BY <1>5 DEF IsSeq
  <2>2. PICK T : T = {es[i] : i \in 1..k}
    OBVIOUS
  <2>3. es \in Seq(T)
    BY <1>4, <2>1, <2>2
  <2>4. ASSUME NEW i \in 1..k PROVE Shaped(es[i])
    <3>1. PICK u : u = Unsealed(es[i])
      OBVIOUS
    <3>2. u.seq = es[i].seq /\ u.payload = es[i].payload
      BY <3>1 DEF Unsealed
    <3>3. es[i] = Sealed(u) /\ es[i].seq \in Nat /\ es[i].payload \notin Formless
      BY <1>5, <1>6, <3>1 DEF Slice
    <3> QED
      BY <3>2, <3>3, SealedIsShaped
  <2> QED
    BY <2>2, <2>3, <2>4 DEF Listed
<1>9. ASSUME NEW s \in DOMAIN proofs PROVE ProofLike(proofs[s]) /\ IsSeq(proofs[s].path)
  <2>1. s \in Seqs(es) /\ proofs[s] = InclusionProof(Before(n), s)
    BY <1>3
  <2>2. s \in 0..(n - 1)
    BY <1>3, <1>5, <1>6, <1>7, <2>1 DEF Seqs
  <2>3. PICK tree : tree = Before(n)
    OBVIOUS
  <2>4. IsSeq(InclusionPath(tree, s)) /\ Len(InclusionPath(tree, s)) \in Nat
    BY <1>7, <2>2, <2>3, InclusionPathIsSeq
  <2> QED
    BY <1>7, <2>1, <2>2, <2>3, <2>4 DEF InclusionProof, ProofLike
<1>10. \E m \in 0..Len(leaves) : x.logRoot = Root(Before(m))
  <2>1. PICK m \in 1..Len(leaves) : x.logRoot = Root(Before(m))
    BY DEF Genuine, Witnessed
  <2>2. m \in 0..Len(leaves)
    BY LeavesApart
  <2> QED
    BY <2>1, <2>2
<1> QED
  BY <1>1, <1>8, <1>9, <1>10 DEF WellMade

\* Nor is a tampered bundle less than well made.
LEMMA DoctoredWellMade ==
  ASSUME LogInv, NEW x, Genuine(x), NEW y \in DoctoredBundles(x)
  PROVE  WellMade(y)
<1>1. {"entries", "logRoot", "inclusionProofs"} \subseteq DOMAIN x
  BY DEF Genuine
<1>2. WellMade(x) /\ \A s \in DOMAIN x.inclusionProofs : IsSeq(x.inclusionProofs[s].path)
  BY GenuineWellMade
<1>3. CASE \E es \in OtherEntries(x.entries) : y = [x EXCEPT !.entries = es]
  <2>1. PICK es \in OtherEntries(x.entries) : y = [x EXCEPT !.entries = es]
    BY <1>3
  <2>2. y.entries = es /\ y.logRoot = x.logRoot /\ y.inclusionProofs = x.inclusionProofs
    BY <1>1, <2>1
  <2>3. Listed(es)
    BY <1>2, <2>1, OtherEntriesListed DEF WellMade
  <2> QED
    BY <1>2, <2>2, <2>3 DEF WellMade
<1>4. CASE \E proofs \in OtherProofs(x.inclusionProofs) : y = [x EXCEPT !.inclusionProofs = proofs]
  <2>1. PICK proofs \in OtherProofs(x.inclusionProofs) : y = [x EXCEPT !.inclusionProofs = proofs]
    BY <1>4
  <2>2. y.entries = x.entries /\ y.logRoot = x.logRoot /\ y.inclusionProofs = proofs
    BY <1>1, <2>1
  <2>3. \A s \in DOMAIN proofs : ProofLike(proofs[s])
    BY <1>2, <2>1, OtherProofsLike DEF WellMade
  <2> QED
    BY <1>2, <2>2, <2>3 DEF WellMade
<1>5. CASE \E n \in 0..Len(entries) : y = [x EXCEPT !.logRoot = Root(Before(n))]
  <2>1. PICK n \in 0..Len(entries) : y = [x EXCEPT !.logRoot = Root(Before(n))]
    BY <1>5
  <2>2. /\ y.entries = x.entries /\ y.logRoot = Root(Before(n))
        /\ y.inclusionProofs = x.inclusionProofs
    BY <1>1, <2>1
  <2>3. n \in 0..Len(leaves)
    BY LeavesApart
  <2> QED
    BY <1>2, <2>2, <2>3 DEF WellMade
<1> QED
  BY <1>3, <1>4, <1>5 DEF DoctoredBundles

\* The verifier of the CLI and the server's agree about every bundle and every bundle tampered
\* with in one place, and accept nothing that is not in the log, whatever was appended meanwhile.
THEOREM LocalVerdictAlwaysAgrees == EvidenceSpec => []LocalVerdictAgrees
<1>1. ASSUME LogInv, GenuineInv PROVE LocalVerdictAgrees
  <2>1. SUFFICES ASSUME NEW b \in Stored, NEW x \in {bundles[b]} \union DoctoredBundles(bundles[b])
                 PROVE  /\ VerifyLocalBundle(x) <=> VerifyBundle(x)
                        /\ VerifyLocalBundle(x) =>
                             \A i \in DOMAIN x.entries : \E j \in DOMAIN entries :
                               entries[j] = x.entries[i]
    BY DEF LocalVerdictAgrees
  <2>2. Genuine(bundles[b])
    BY <1>1 DEF GenuineInv
  <2>3. WellMade(x)
    BY <1>1, <2>2, GenuineWellMade, DoctoredWellMade
  <2> QED
    BY <1>1, <2>3, VerdictsAgree, AcceptedIsLogged DEF WellMade
<1>2. EvidenceInit => GenuineInv
  BY GenuineInit
<1>3. LogInv /\ BundlingInv /\ GenuineInv /\ [EvidenceNext]_evidenceVars => GenuineInv'
  BY GenuineStep
<1> QED
  BY <1>1, <1>2, <1>3, EvidenceInvariant, PTL DEF EvidenceSpec

-----------------------------------------------------------------------------
(* Consistency proofs *)

\* Before the empty log anything may come, and a log is the same as itself.
LEMMA FromEitherEnd ==
  ASSUME NEW tree, Len(tree) \in Nat, NEW m \in 0..Len(tree), m = 0 \/ m = Len(tree),
         NEW first, NEW second
  PROVE  VerifyConsistency(ConsistencyProof(tree, m), first, second) = "valid" <=>
           m # Len(tree) \/ first = second
<1>1. PICK proof : proof = ConsistencyProof(tree, m)
  OBVIOUS
<1>2. PICK n \in Nat : n = Len(tree)
  OBVIOUS
<1>3. ~(0 < m /\ m < n)
  BY <1>2
<1>4. proof.firstSize = m /\ proof.secondSize = n /\ proof.path = <<>>
  BY <1>1, <1>2, <1>3 DEF ConsistencyProof
<1>5. ~(m > n) /\ (m # n => m = 0 /\ n > 0)
  BY <1>2
<1>6. VerifyConsistency(proof, first, second)
        = IF m = n THEN (IF first = second THEN "valid" ELSE "roots differ") ELSE "valid"
  BY <1>4, <1>5 DEF VerifyConsistency
<1> QED
  BY <1>1, <1>2, <1>6

\* The roots of a log at two lengths differ.
LEMMA LengthsApart ==
  ASSUME LogInv, NEW r \in 0..Len(leaves), NEW s \in 0..Len(leaves),
         Root(Before(r)) = Root(Before(s))
  PROVE  r = s
<1>1. Len(leaves) \in Nat
  BY LeavesApart
<1>2. Len(Before(r)) = r /\ OfLeaves(Before(r)) /\ Len(Before(s)) = s /\ OfLeaves(Before(s))
  BY LogUpTo
<1>3. Len(Before(r)) \in Nat /\ Len(Before(s)) \in Nat
  BY <1>1, <1>2
<1> QED
  BY <1>2, <1>3, RootBinds

\* The root of the first m leaves of a log that had n is that of the log when it had m.
LEMMA RootWithin ==
  ASSUME LogInv, NEW n \in 0..Len(leaves), NEW m \in 0..n
  PROVE  Mth(Before(n), 0, m) = Root(Before(m))
<1>1. n \in Nat /\ m \in Nat /\ m \in 0..Len(leaves) /\ Len(leaves) \in Nat
  BY LeavesApart
<1>2. Len(Before(n)) = n /\ SameUpTo(leaves, Before(n), n)
  BY LogUpTo
<1>3. Len(Before(m)) = m /\ SameUpTo(leaves, Before(m), m)
  BY <1>1, LogUpTo
<1>4. SameUpTo(Before(n), Before(m), m)
  BY <1>1, <1>2, <1>3 DEF SameUpTo
<1>5. Len(Before(n)) \in Nat /\ m \in 0..Len(Before(n))
  BY <1>1, <1>2
<1> QED
  BY <1>3, <1>4, <1>5, RootOfFirst

\* A proof from length m of the log to length n is accepted between the two roots, and,
\* unless it starts from nothing, for no other second and no other first length.
LEMMA ExtensionJudged ==
  ASSUME LogInv, NEW n \in 0..Len(leaves), NEW m \in 0..n
  PROVE  /\ \A s \in 0..Len(leaves) : (m # 0 \/ s <= n) =>
              (VerifyConsistency(ConsistencyProof(Before(n), m), Root(Before(m)), Root(Before(s)))
                 = "valid" <=> m = 0 \/ s = n)
         /\ \A r \in 0..Len(leaves) : m # 0 /\ r # m =>
              VerifyConsistency(ConsistencyProof(Before(n), m), Root(Before(r)), Root(Before(n)))
                # "valid"
<1>1. PICK tree, proof : tree = Before(n) /\ proof = ConsistencyProof(tree, m)
  OBVIOUS
<1>2. n \in Nat /\ m \in Nat /\ m \in 0..Len(leaves) /\ Len(leaves) \in Nat
  BY LeavesApart
<1>3. Len(tree) = n /\ Len(tree) \in Nat
  BY <1>1, <1>2, LogUpTo
<1>4. CASE m = 0 /\ n # 0
  <2>1. \A first, second : VerifyConsistency(proof, first, second) = "valid"
    BY <1>1, <1>2, <1>3, <1>4, FromEitherEnd
  <2> QED
    BY <1>1, <1>4, <2>1
<1>5. CASE m = n
  <2>1. \A first, second : VerifyConsistency(proof, first, second) = "valid" <=> first = second
    BY <1>1, <1>2, <1>3, <1>5, FromEitherEnd
  <2>2. ASSUME NEW s \in 0..Len(leaves) PROVE Root(Before(m)) = Root(Before(s)) <=> s = n
    BY <1>2, <1>5, LengthsApart
  <2>3. \A s \in 0..Len(leaves) : m # 0 \/ s <= n =>
          (Root(Before(m)) = Root(Before(s)) <=> m = 0 \/ s = n)
    BY <1>2, <1>5, <2>2
  <2>4. ASSUME NEW r \in 0..Len(leaves), r # m PROVE Root(Before(r)) # Root(Before(n))
    BY <1>2, <1>5, <2>4, LengthsApart
  <2> QED
    BY <1>1, <2>1, <2>3, <2>4
<1>6. CASE m # 0 /\ m # n
  <2>1. m \in 1..(Len(tree) - 1)
    BY <1>2, <1>3, <1>6
  <2>2. Mth(tree, 0, m) = Root(Before(m))
    BY <1>1, RootWithin
  <2>3. /\ \A second : VerifyConsistency(proof, Root(Before(m)), second) = "valid"
                         <=> second = Root(tree)
        /\ \A first : VerifyConsistency(proof, first, Root(tree)) = "valid"
                        => first = Root(Before(m))
    BY <1>1, <1>3, <2>1, <2>2, ConsistencyJudged
  <2>4. ASSUME NEW s \in 0..Len(leaves) PROVE Root(Before(s)) = Root(tree) <=> s = n
    BY <1>1, <1>2, LengthsApart
  <2>5. ASSUME NEW r \in 0..Len(leaves), r # m PROVE Root(Before(r)) # Root(Before(m))
    BY <1>2, <2>5, LengthsApart
  <2> QED
    BY <1>1, <1>6, <2>3, <2>4, <2>5
<1> QED
  BY <1>2, <1>4, <1>5, <1>6

\* What an auditor was told is judged by the size the proof leads to, and what a reader was
\* told is good.
THEOREM AnswersAlwaysJudged == EvidenceSpec => []AnswerJudged
<1>1. ASSUME LogInv, AnswersInv PROVE AnswerJudged
  <2>1. ASSUME NEW a \in Auditors, audit[a].at = "answered",
               NEW x, x = audit[a]
        PROVE  VerifyConsistency(x.proof, x.root, x.currentRoot) = "valid" <=>
                 x.proof.firstSize = 0 \/ x.proof.secondSize = x.currentSize
    <3>1. PICK m, n \in 0..Len(leaves) :
            /\ m <= x.currentSize /\ x.currentSize <= n
            /\ Rooted(m, x.root) /\ Rooted(x.currentSize, x.currentRoot)
            /\ x.proof = ConsistencyProof(Before(n), m)
      BY <1>1, <2>1 DEF AnswersInv, AuditorInv
    <3>2. PICK c : c = x.currentSize
      OBVIOUS
    <3>3. /\ c \in 0..Len(leaves) /\ x.currentRoot = Root(Before(c)) /\ x.root = Root(Before(m))
          /\ m \in 0..n /\ c <= n
      BY <1>1, <3>1, <3>2, LeavesApart DEF Rooted
    <3>4. Len(Before(n)) = n
      BY <1>1, LogUpTo
    <3>5. x.proof.firstSize = m /\ x.proof.secondSize = n
      BY <3>1, <3>4 DEF ConsistencyProof
    <3>6. VerifyConsistency(x.proof, x.root, x.currentRoot) = "valid" <=> m = 0 \/ c = n
      BY <1>1, <3>1, <3>3, ExtensionJudged
    <3>7. c = n <=> n = c
      OBVIOUS
    <3> QED
      BY <3>2, <3>5, <3>6, <3>7
  <2>2. ASSUME NEW q \in Readers, reading[q].at = "answered",
               NEW x, x = reading[q]
        PROVE  /\ VerifyInclusion(x.proof, x.leaf, x.root) = "valid"
               /\ entries[x.proof.leafIndex + 1].tenantId = x.tenant
    <3>1. PICK i \in 0..(Len(leaves) - 1) : \E n \in (i + 1)..Len(leaves) :
            /\ x.leaf = LeafFor(entries[i + 1]) /\ entries[i + 1].tenantId = x.tenant
            /\ x.proof = InclusionProof(Before(n), i) /\ x.root = Root(Before(n))
      BY <1>1, <2>2 DEF AnswersInv, ReaderInv
    <3>2. PICK n \in (i + 1)..Len(leaves) :
            /\ x.leaf = LeafFor(entries[i + 1]) /\ entries[i + 1].tenantId = x.tenant
            /\ x.proof = InclusionProof(Before(n), i) /\ x.root = Root(Before(n))
      BY <3>1
    <3>3. n \in 1..Len(leaves) /\ i \in 0..(n - 1)
      BY <1>1, LeavesApart
    <3>4. VerifyInclusion(x.proof, x.leaf, x.root) = "valid"
      BY <1>1, <3>2, <3>3, LeafIn
    <3>5. x.proof.leafIndex = i
      BY <3>2 DEF InclusionProof
    <3> QED
      BY <3>2, <3>4, <3>5
  <2> QED
    BY <2>1, <2>2 DEF AnswerJudged
<1> QED
  BY <1>1, AnswersOfTheLog, EvidenceInvariant, PTL

\* What the redone entry n is, behind the ones redone before it.
Redone(i, p, before, n) ==
  Sealed([Unsealed(entries[n]) EXCEPT
            !.payload = IF n = i THEN p ELSE entries[n].payload,
            !.previousHash = IF n = 1 THEN GenesisHash ELSE before[n - 1].entryHash])

\* f gives the rewritten log up to each of its first n entries.
Redoes(i, p, n, f) ==
  f = [k \in 0..n |-> IF k < i THEN SubSeq(entries, 1, k)
                      ELSE Append(f[k - 1], Redone(i, p, f[k - 1], k))]

\* The log can be rewritten from any of its entries on.
LEMMA RedoesExist ==
  ASSUME NEW i \in Nat \ {0}, NEW p
  PROVE  \A n \in Nat : \E f : Redoes(i, p, n, f)
<1> DEFINE S == {n \in Nat : \E f : Redoes(i, p, n, f)}
<1>1. 0 \in S
  <2>1. Redoes(i, p, 0, [k \in 0..0 |-> SubSeq(entries, 1, k)])
    BY DEF Redoes
  <2> QED
    BY <2>1
<1>2. ASSUME NEW n \in Nat, n \in S PROVE n + 1 \in S
  <2>1. PICK f : Redoes(i, p, n, f)
    BY <1>2
  <2>2. PICK last : last = IF n + 1 < i THEN SubSeq(entries, 1, n + 1)
                           ELSE Append(f[n], Redone(i, p, f[n], n + 1))
    OBVIOUS
  <2>3. PICK g : g = [k \in 0..(n + 1) |-> IF k = n + 1 THEN last ELSE f[k]]
    OBVIOUS
  <2>4. ASSUME NEW k \in 0..(n + 1)
        PROVE  g[k] = IF k < i THEN SubSeq(entries, 1, k)
                      ELSE Append(g[k - 1], Redone(i, p, g[k - 1], k))
    <3>1. ~(k < i) => g[k - 1] = f[k - 1]
      BY <2>3
    <3>2. CASE k = n + 1
      <4>1. k - 1 = n /\ g[k] = last
        BY <2>3, <3>2
      <4> QED
        BY <2>2, <3>1, <3>2, <4>1
    <3>3. CASE k # n + 1
      <4>1. k \in 0..n /\ g[k] = f[k]
        BY <2>3, <3>3
      <4>2. f[k] = IF k < i THEN SubSeq(entries, 1, k)
                   ELSE Append(f[k - 1], Redone(i, p, f[k - 1], k))
        BY <2>1, <4>1 DEF Redoes
      <4> QED
        BY <3>1, <4>1, <4>2
    <3> QED
      BY <3>2, <3>3
  <2>5. Redoes(i, p, n + 1, g)
    BY <2>3, <2>4 DEF Redoes
  <2> QED
    BY <2>5
<1> HIDE DEF S
<1>3. Nat \subseteq S
  BY <1>1, <1>2, EveryNumber
<1> QED
  BY <1>3 DEF S

\* A log of k entries that pass for a chain, in which the payload of entry i is p.
Passes(s, k, i, p) ==
  /\ IsSeq(s) /\ Len(s) = k
  /\ \A j \in 1..k : /\ Fits(s, j) /\ s[j].payload \notin Formless
                     /\ j = i => s[j].payload = p

\* An entry sealed behind k others, with the payload p if it is entry i.
Behind(s, k, e, i, p) ==
  /\ e.seq = k
  /\ e.previousHash = IF k = 0 THEN GenesisHash ELSE s[k].entryHash
  /\ EntryDigest(Unsealed(e)) = e.entryHash /\ e.payload \notin Formless
  /\ k + 1 = i => e.payload = p

\* An entry sealed behind the last one passes, whatever it says.
LEMMA PassesOn ==
  ASSUME NEW k \in Nat, NEW i, NEW p, NEW s, Passes(s, k, i, p), NEW e,
         Behind(s, k, e, i, p)
  PROVE  Passes(Append(s, e), k + 1, i, p)
<1>1. PICK t : t = Append(s, e)
  OBVIOUS
<1>2. IsSeq(t) /\ Len(t) = k + 1 /\ t[k + 1] = e /\ \A j \in 1..k : t[j] = s[j]
  BY <1>1, AppendIsSeq DEF Passes
<1>3. ASSUME NEW j \in 1..k
      PROVE  Fits(t, j) /\ t[j].payload \notin Formless /\ (j = i => t[j].payload = p)
  <2>1. t[j] = s[j] /\ (j # 1 => t[j - 1] = s[j - 1])
    BY <1>2
  <2>2. Fits(s, j) /\ s[j].payload \notin Formless /\ (j = i => s[j].payload = p)
    BY DEF Passes
  <2> QED
    BY <2>1, <2>2 DEF Fits
<1>4. Fits(t, k + 1) /\ t[k + 1].payload \notin Formless /\ (k + 1 = i => t[k + 1].payload = p)
  <2>1. k + 1 - 1 = k /\ (k + 1 = 1 <=> k = 0) /\ (k # 0 => t[k] = s[k])
    BY <1>2
  <2> QED
    BY <1>2, <2>1 DEF Fits, Behind
<1>5. \A j \in 1..(k + 1) : j \in 1..k \/ j = k + 1
  OBVIOUS
<1> QED
  BY <1>1, <1>2, <1>3, <1>4, <1>5 DEF Passes

\* The redone entry is sealed behind the ones before it.
LEMMA RedoneIs ==
  ASSUME LogInv, NEW i \in 1..Len(entries), NEW p, p \notin Formless,
         NEW k \in Nat, k + 1 \in 1..Len(entries), NEW before, NEW e,
         e = Redone(i, p, before, k + 1)
  PROVE  Behind(before, k, e, i, p)
<1>1. PICK n \in Nat : n = k + 1
  OBVIOUS
<1>2. n - 1 = k /\ (n = 1 <=> k = 0) /\ n \in 1..Len(entries)
  BY <1>1
<1>3. PICK h, q : h = (IF n = 1 THEN GenesisHash ELSE before[n - 1].entryHash)
                  /\ q = (IF n = i THEN p ELSE entries[n].payload)
  OBVIOUS
<1>4. PICK u : u = [Unsealed(entries[n]) EXCEPT !.payload = q, !.previousHash = h]
  OBVIOUS
<1>5. /\ u.seq = entries[n].seq /\ u.payload = q /\ u.previousHash = h
      /\ u = [seq |-> u.seq, action |-> u.action, actor |-> u.actor, tenantId |-> u.tenantId,
              subject |-> u.subject, payload |-> u.payload, previousHash |-> u.previousHash]
  BY <1>4 DEF Unsealed
<1>6. e = Sealed(u)
  BY <1>1, <1>3, <1>4 DEF Redone
<1>7. Unsealed(e) = u /\ e.entryHash = EntryDigest(u)
      /\ e.seq = u.seq /\ e.payload = u.payload /\ e.previousHash = u.previousHash
  BY <1>5, <1>6 DEF Sealed, Unsealed
<1>8. entries[n].seq = k /\ entries[n].payload \notin Formless
  BY <1>2, EntriesFit DEF Fits
<1> QED
  BY <1>1, <1>2, <1>3, <1>5, <1>7, <1>8 DEF Behind

\* A log rewritten throughout passes for a chain, with the payload it was rewritten for.
LEMMA RewrittenPasses ==
  ASSUME LogInv, NEW i \in 1..Len(entries), NEW p, p \notin Formless
  PROVE  Passes(Rewritten(i, p), Len(entries), i, p)
<1>1. PICK l \in Nat : l = Len(entries)
  BY EntriesFit
<1>2. i \in Nat \ {0} /\ i \in 1..l
  BY <1>1
<1>3. PICK redo : redo = CHOOSE f : Redoes(i, p, l, f)
  OBVIOUS
<1>4. Redoes(i, p, l, redo)
  BY <1>2, <1>3, RedoesExist
<1>5. Rewritten(i, p) = redo[l]
  BY <1>1, <1>3 DEF Rewritten, Redoes, Redone
<1>6. ASSUME NEW k \in 0..l
      PROVE  /\ k < i => redo[k] = SubSeq(entries, 1, k)
             /\ ~(k < i) => redo[k] = Append(redo[k - 1], Redone(i, p, redo[k - 1], k))
  BY <1>4 DEF Redoes
<1> DEFINE S == {k \in Nat : k <= l => Passes(redo[k], k, i, p)}
<1>7. ASSUME NEW k \in Nat, k <= l, k < i PROVE Passes(redo[k], k, i, p)
  <2>1. PICK T : entries \in Seq(T)
    BY DEF LogInv
  <2>2. PICK s : s = SubSeq(entries, 1, k)
    OBVIOUS
  <2>6. k <= Len(entries) /\ k \in 0..l
    BY <1>1, <1>7
  <2>7. s \in Seq(T) /\ Len(s) = k /\ \A j \in 1..k : s[j] = entries[j]
    BY <2>1, <2>2, <2>6
  <2>3. IsSeq(s) /\ Len(s) = k /\ \A j \in 1..k : s[j] = entries[j]
    BY <2>7 DEF IsSeq
  <2>4. ASSUME NEW j \in 1..k
        PROVE  Fits(s, j) /\ s[j].payload \notin Formless /\ (j = i => s[j].payload = p)
    <3>1. s[j] = entries[j] /\ (j # 1 => s[j - 1] = entries[j - 1]) /\ j \in 1..Len(entries)
          /\ j # i
      BY <1>1, <1>2, <1>7, <2>3
    <3> QED
      BY <3>1, EntriesFit DEF Fits
  <2>5. redo[k] = s
    BY <1>6, <1>7, <2>2, <2>6
  <2> QED
    BY <2>3, <2>4, <2>5 DEF Passes
<1>8. 0 \in S
  BY <1>2, <1>7
<1>9. ASSUME NEW k \in Nat, k \in S PROVE k + 1 \in S
  <2>1. SUFFICES ASSUME k + 1 <= l PROVE Passes(redo[k + 1], k + 1, i, p)
    OBVIOUS
  <2>2. CASE k + 1 < i
    BY <1>7, <2>1, <2>2
  <2>3. CASE ~(k + 1 < i)
    <3>1. PICK e, before : before = redo[k] /\ e = Redone(i, p, before, k + 1)
      OBVIOUS
    <3>2. redo[k + 1] = Append(redo[k], e)
      <4>1. PICK n \in 0..l : n = k + 1
        BY <2>1
      <4>2. n - 1 = k /\ ~(n < i)
        BY <2>3, <4>1
      <4>3. redo[n] = Append(redo[n - 1], Redone(i, p, redo[n - 1], n))
        BY <1>6, <4>2
      <4> QED
        BY <3>1, <4>1, <4>2, <4>3
    <3>3. Passes(redo[k], k, i, p)
      BY <1>9, <2>1
    <3>4. k + 1 \in 1..Len(entries)
      BY <1>1, <2>1
    <3>5. Behind(before, k, e, i, p)
      BY <3>1, <3>4, RedoneIs
    <3> QED
      BY <3>1, <3>2, <3>3, <3>5, PassesOn
  <2> QED
    BY <2>2, <2>3
<1> HIDE DEF S
<1>10. Nat \subseteq S
  BY <1>8, <1>9, EveryNumber
<1> QED
  BY <1>1, <1>5, <1>10 DEF S

\* The tree of the rewritten log has as many leaves, and another one at i.
LEMMA OtherTree ==
  ASSUME LogInv, NEW i \in 1..Len(entries), NEW p \in Otherwise(entries[i].payload),
         NEW forged, Passes(forged, Len(entries), i, p),
         NEW tree, tree = [j \in DOMAIN forged |-> HashLeaf(LeafFor(forged[j]))]
  PROVE  /\ VerifyChain(forged).valid
         /\ Len(tree) = Len(leaves) /\ OfLeaves(tree) /\ tree[i] # leaves[i]
<1>1. PICK l \in Nat : l = Len(entries) /\ l = Len(leaves)
  BY LeavesApart
<1>2. DOMAIN forged = 1..l
  <2>1. PICK T : forged \in Seq(T)
    BY DEF Passes, IsSeq
  <2> QED
    BY <1>1, <2>1 DEF Passes
<1>3. \A j \in 1..l : Fits(forged, j) /\ forged[j].payload \notin Formless
  BY <1>1 DEF Passes
<1>4. VerifyChain(forged).valid
  <2>1. {j \in DOMAIN forged : ChainFault(forged, j) # "none"} = {}
    BY <1>2, <1>3, FaultIsMisfit
  <2> QED
    BY <2>1 DEF VerifyChain, Verification
<1>5. \A j \in 1..l : tree[j] = HashLeaf(<<forged[j].entryHash>>)
  BY <1>2 DEF LeafFor
<1>6. Len(tree) = l
  <2>1. DOMAIN tree = 1..l
    BY <1>2
  <2>2. tree = [j \in 1..l |-> HashLeaf(LeafFor(forged[j]))]
    BY <1>2
  <2> QED
    BY <2>2
<1>7. OfLeaves(tree)
  BY <1>5, <1>6 DEF OfLeaves
<1>8. i \in 1..l /\ i \in 1..Len(leaves)
  BY <1>1
<1>9. forged[i].entryHash # entries[i].entryHash
  <2>1. /\ EntryDigest(Unsealed(forged[i])) = forged[i].entryHash
        /\ EntryDigest(Unsealed(entries[i])) = entries[i].entryHash
    BY <1>3, <1>8, EntriesFit DEF Fits
  <2>2. forged[i].payload # entries[i].payload
    BY DEF Passes, Otherwise
  <2>3. Unsealed(forged[i]).payload # Unsealed(entries[i]).payload
    BY <2>2 DEF Unsealed
  <2> QED
    BY <2>1, <2>3, DigestInjective
<1>10. leaves[i] = HashLeaf(<<entries[i].entryHash>>)
  BY <1>8, LeavesApart DEF LeafFor
<1>11. tree[i] # leaves[i]
  <2>1. PICK x, y : x = forged[i].entryHash /\ y = entries[i].entryHash
    OBVIOUS
  <2>2. tree[i] = HashLeaf(<<x>>) /\ leaves[i] = HashLeaf(<<y>>) /\ x # y
    BY <1>5, <1>8, <1>9, <1>10, <2>1
  <2> QED
    BY <2>2, LeafInjective
<1> QED
  BY <1>1, <1>4, <1>6, <1>7, <1>11

\* No proof that either log can produce leads from a root anchored at or after the entry
\* that was rewritten to the root of the rewritten log.
LEMMA RewriteShows ==
  ASSUME LogInv, NEW i \in 1..Len(leaves), NEW m \in i..Len(leaves),
         NEW tree, Len(tree) = Len(leaves), OfLeaves(tree), tree[i] # leaves[i]
  PROVE  \A proof \in {ConsistencyProof(tree, m), ConsistencyProof(leaves, m)} :
           VerifyConsistency(proof, Root(Before(m)), Root(tree)) # "valid"
<1>1. PICK l \in Nat : l = Len(leaves) /\ l = Len(tree) /\ OfLeaves(leaves)
  BY LeavesApart
<1>2. m \in Nat /\ m \in 0..l /\ m # 0 /\ i \in 1..m /\ i \in 1..l
  BY <1>1
<1>3. Root(leaves) # Root(tree)
  <2>1. SUFFICES ASSUME Root(leaves) = Root(tree) PROVE FALSE
    OBVIOUS
  <2>2. SameUpTo(leaves, tree, Len(leaves))
    BY <1>1, <2>1, RootBinds
  <2> QED
    BY <1>1, <1>2, <2>2 DEF SameUpTo
<1>4. Before(l) = leaves
  BY <1>1, AllOfIt
<1>5. CASE m = l
  <2>1. \A first, second :
          /\ VerifyConsistency(ConsistencyProof(tree, m), first, second) = "valid" => first = second
          /\ VerifyConsistency(ConsistencyProof(leaves, m), first, second) = "valid"
               => first = second
    BY <1>1, <1>2, <1>5, FromEitherEnd
  <2> QED
    BY <1>3, <1>4, <1>5, <2>1
<1>6. CASE m # l
  <2>1. m \in 1..(Len(leaves) - 1) /\ m \in 1..(Len(tree) - 1)
    BY <1>1, <1>2, <1>6
  <2>2. VerifyConsistency(ConsistencyProof(leaves, m), Root(Before(m)), Root(tree)) # "valid"
    <3>1. l \in 0..Len(leaves) /\ m \in 0..l
      BY <1>1, <1>2
    <3>2. Mth(leaves, 0, m) = Root(Before(m))
      BY <1>4, <3>1, RootWithin
    <3> QED
      BY <1>1, <1>3, <2>1, <3>2, ConsistencyJudged
  <2>3. ASSUME VerifyConsistency(ConsistencyProof(tree, m), Root(Before(m)), Root(tree)) = "valid"
        PROVE  FALSE
    <3>1. Root(Before(m)) = Mth(tree, 0, m)
      BY <1>1, <2>1, <2>3, ConsistencyJudged
    <3>2. PICK part : part = [j \in 1..m |-> tree[j]]
      OBVIOUS
    <3>3. Len(part) = m /\ \A j \in 1..m : part[j] = tree[j]
      BY <1>2, <3>2
    <3>4. OfLeaves(part)
      <4>1. \A j \in 1..m : j \in 1..Len(tree)
        BY <1>1, <1>2
      <4> QED
        BY <3>3, <4>1 DEF OfLeaves
    <3>5. Root(part) = Mth(tree, 0, m)
      <4>1. SameUpTo(tree, part, m) /\ m \in 0..Len(tree) /\ Len(tree) \in Nat
        BY <1>1, <1>2, <3>3 DEF SameUpTo
      <4> QED
        BY <3>3, <4>1, RootOfFirst
    <3>6. Len(Before(m)) = m /\ OfLeaves(Before(m)) /\ SameUpTo(leaves, Before(m), m)
      BY <1>1, <1>2, LogUpTo
    <3>7. Len(part) \in Nat /\ Len(Before(m)) \in Nat
      BY <1>2, <3>3, <3>6
    <3>8. SameUpTo(Before(m), part, Len(Before(m)))
      BY <3>1, <3>4, <3>5, <3>6, <3>7, RootBinds
    <3>9. leaves[i] = tree[i]
      BY <1>2, <3>3, <3>6, <3>8 DEF SameUpTo
    <3> QED
      BY <3>9
  <2> QED
    BY <2>2, <2>3
<1> QED
  BY <1>5, <1>6

\* Every earlier root is provably the beginning of the log, by a proof that serves no other
\* length; and a log rewritten from an entry on, which verifyChain accepts, is not provably an
\* extension of any root anchored since that entry: for logs of every length.
THEOREM ConsistencyAlwaysExact == LogSpec => []ConsistencyExact
<1>1. ASSUME LogInv PROVE ConsistencyExact
  <2>1. PICK l \in Nat : l = Len(leaves) /\ l = Len(entries) /\ DOMAIN entries = 1..l
    BY <1>1, LeavesApart
  <2>2. Before(l) = leaves
    BY <1>1, <2>1, AllOfIt
  <2>3. ASSUME NEW m \in 0..Len(leaves), NEW proof, proof = ConsistencyProof(leaves, m)
        PROVE  /\ VerifyConsistency(proof, Root(Before(m)), Root(Before(Len(leaves)))) = "valid"
               /\ m # 0 =>
                    /\ \A s \in 0..(Len(leaves) - 1) :
                         VerifyConsistency(proof, Root(Before(m)), Root(Before(s))) # "valid"
                    /\ \A r \in 0..Len(leaves) \ {m} :
                         VerifyConsistency(proof, Root(Before(r)), Root(Before(Len(leaves))))
                           # "valid"
    <3>1. l \in 0..Len(leaves) /\ m \in 0..l /\ l <= l
      BY <2>1, <2>3
    <3>2. /\ \A s \in 0..Len(leaves) : (m # 0 \/ s <= l) =>
               (VerifyConsistency(proof, Root(Before(m)), Root(Before(s)))
                  = "valid" <=> m = 0 \/ s = l)
          /\ \A r \in 0..Len(leaves) : m # 0 /\ r # m =>
               VerifyConsistency(proof, Root(Before(r)), Root(Before(l))) # "valid"
      BY <1>1, <2>2, <2>3, <3>1, ExtensionJudged
    <3>3. \A s \in 0..(Len(leaves) - 1) : s \in 0..Len(leaves) /\ s # l
      BY <2>1
    <3> QED
      BY <2>1, <3>1, <3>2, <3>3
  <2>4. ASSUME NEW i \in DOMAIN entries, NEW p \in Otherwise(entries[i].payload),
               NEW forged, forged = Rewritten(i, p),
               NEW tree, tree = [j \in DOMAIN forged |-> HashLeaf(LeafFor(forged[j]))]
        PROVE  /\ VerifyChain(forged).valid
               /\ \A m \in i..Len(entries) : \A proof \in
                    {ConsistencyProof(tree, m), ConsistencyProof(leaves, m)} :
                      VerifyConsistency(proof, Root(Before(m)), Root(tree)) # "valid"
    <3>1. i \in 1..Len(entries) /\ i \in 1..Len(leaves) /\ p \notin Formless
      BY <2>1 DEF Otherwise
    <3>2. Passes(forged, Len(entries), i, p)
      BY <1>1, <2>4, <3>1, RewrittenPasses
    <3>3. /\ VerifyChain(forged).valid
          /\ Len(tree) = Len(leaves) /\ OfLeaves(tree) /\ tree[i] # leaves[i]
      BY <1>1, <2>4, <3>1, <3>2, OtherTree
    <3> QED
      BY <1>1, <2>1, <3>1, <3>3, RewriteShows
  <2> QED
    BY <2>3, <2>4 DEF ConsistencyExact
<1> QED
  BY <1>1, LogInvariant, PTL

=============================================================================

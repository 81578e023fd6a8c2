---------------------------- MODULE StoresProofs ----------------------------
(***************************************************************************)
(* The blob store, the task sets, the model registry, the trial store and  *)
(* the approvals keep what they promise, for any number of puts, sets,     *)
(* models, revisions, trials, decisions and overlapping calls: content is  *)
(* whole, pins describe what they name, trajectories are sound, complete   *)
(* but for overtaken writes, and closed once concluded, and decisions are  *)
(* attributable and settle.                                                *)
(***************************************************************************)
EXTENDS TaskSets, Blobs, Registry, Trials, Approvals, SequenceTheorems, TLAPS

-----------------------------------------------------------------------------
(* Blobs *)

PutSteps ==
  {"idle", "unrecognized", "stored", "missing", "named", "writing", "written", "failed",
   "disk error", "unlinked", "unlinked, disk error", "refused", "refused, disk error", "lost"}

BlobsTyped ==
  /\ instant \in 0..MaxInstant
  /\ stored \in Puts \union {NoFile}
  /\ temporary \in [0..MaxInstant -> Puts \union {NoFile}]
  /\ written \in [Puts -> {"nothing", "part", "whole"}]
  /\ puts \in [Puts -> [at: PutSteps, name: 0..MaxInstant \union {NoFile}]]
  /\ collided \in BOOLEAN

Nameless == {"idle", "missing"}
MayBeNameless == {"idle", "missing", "unrecognized", "stored", "lost"}

\* What a put has done, at each of its steps.
PutInv(p) ==
  /\ puts[p].name # NoFile => puts[p].name <= instant
  /\ puts[p].at \in Nameless => puts[p].name = NoFile
  /\ puts[p].at \notin MayBeNameless => puts[p].name # NoFile
  /\ puts[p].at \in Nameless \union {"named"} => written[p] = "nothing"
  /\ puts[p].at = "written" => written[p] = "whole"
  /\ puts[p].at = "stored" => stored # NoFile

\* A file is at the temporary name of the put that made it, which is its alone unless
\* two names collided; so a put that writes or has written finds its own file there.
FilesNamed ==
  \A i \in 0..MaxInstant : temporary[i] # NoFile =>
    puts[temporary[i]].name = i /\ written[temporary[i]] # "nothing"

NamesApart ==
  \A p, q \in Puts : p # q /\ puts[p].name # NoFile => puts[p].name # puts[q].name

FilesOwned ==
  \A p \in Puts :
    /\ puts[p].at \notin {"failed", "unlinked", "refused"}
    /\ puts[p].at \in {"writing", "written"} => temporary[puts[p].name] = p

AddressWhole == stored # NoFile => written[stored] = "whole"

BlobsInv ==
  /\ BlobsTyped
  /\ \A p \in Puts : PutInv(p)
  /\ FilesNamed
  /\ ~collided => NamesApart /\ FilesOwned /\ AddressWhole

\* No file is there before a put begins.
LEMMA BlobsInitially == BlobsInit => BlobsInv
<1> SUFFICES ASSUME BlobsInit PROVE BlobsInv
  OBVIOUS
<1>1. BlobsTyped
  <2>1. "idle" \in PutSteps /\ 0 \in 0..MaxInstant
    BY BlobsAssumption DEF PutSteps
  <2> QED
    BY <2>1 DEF BlobsInit, BlobsTyped
<1>2. \A p \in Puts : puts[p].at = "idle" /\ puts[p].name = NoFile /\ written[p] = "nothing"
  BY DEF BlobsInit
<1> QED
  BY <1>1, <1>2 DEF BlobsInit, BlobsInv, FilesNamed, NamesApart, FilesOwned, AddressWhole, PutInv, Nameless, MayBeNameless

\* A put that goes to a step keeps its name, and the others stay where they are.
LEMMA AtStep ==
  ASSUME BlobsTyped, NEW p \in Puts, NEW step \in PutSteps, At(p, step)
  PROVE  /\ puts' \in [Puts -> [at: PutSteps, name: 0..MaxInstant \union {NoFile}]]
         /\ puts'[p].at = step
         /\ \A q \in Puts : /\ puts'[q].name = puts[q].name
                            /\ q # p => puts'[q] = puts[q]
BY DEF BlobsTyped, At

\* Every file operation of a put, the clock and a crash keep the invariant.
LEMMA BlobsStepKeeps == BlobsInv /\ [BlobsNext]_blobVars => BlobsInv'
<1> SUFFICES ASSUME BlobsInv, [BlobsNext]_blobVars PROVE BlobsInv'
  OBVIOUS
<1> USE BlobsAssumption
<1>1. CASE UNCHANGED blobVars
  BY <1>1 DEF blobVars, BlobsInv, FilesNamed, NamesApart, FilesOwned, AddressWhole, BlobsTyped, PutInv
<1>2. CASE InstantPasses
  BY <1>2 DEF InstantPasses, BlobsInv, FilesNamed, NamesApart, FilesOwned, AddressWhole, BlobsTyped, PutInv
<1>3. CASE Crash
  <2>1. /\ puts' \in [Puts -> [at: PutSteps, name: 0..MaxInstant \union {NoFile}]]
        /\ \A p \in Puts : /\ puts'[p].name = puts[p].name
                           /\ puts'[p] = puts[p] \/ puts'[p].at = "lost"
    <3>1. "lost" \in PutSteps
      BY DEF PutSteps
    <3> QED
      BY <1>3, <3>1, ZenonT(60) DEF Crash, BlobsInv, FilesNamed, NamesApart, FilesOwned, AddressWhole, BlobsTyped
  <2>2. /\ UNCHANGED <<stored, temporary, written, collided>> /\ instant' = instant + 1
        /\ instant < MaxInstant /\ instant \in 0..MaxInstant
    BY <1>3 DEF Crash, BlobsInv, FilesNamed, NamesApart, FilesOwned, AddressWhole, BlobsTyped
  <2> QED
    BY <2>1, <2>2 DEF BlobsInv, FilesNamed, NamesApart, FilesOwned, AddressWhole, BlobsTyped, PutInv, Nameless, MayBeNameless
<1>4. ASSUME NEW p \in Puts, PutLook(p) PROVE BlobsInv'
  <2>1. PICK step \in {"unrecognized", "stored", "missing"} :
          At(p, step) /\ (step = "stored" => stored # NoFile)
    BY <1>4 DEF PutLook, Has
  <2>2. step \in PutSteps
    BY DEF PutSteps
  <2> QED
    BY <1>4, <2>1, <2>2, AtStep
    DEF PutLook, BlobsInv, FilesNamed, NamesApart, FilesOwned, AddressWhole, BlobsTyped, PutInv, Nameless, MayBeNameless
<1>5. ASSUME NEW p \in Puts, PutName(p) PROVE BlobsInv'
  <2>1. /\ puts' \in [Puts -> [at: PutSteps, name: 0..MaxInstant \union {NoFile}]]
        /\ puts'[p].at = "named" /\ puts'[p].name = instant
        /\ \A q \in Puts : q # p => puts'[q] = puts[q]
        /\ UNCHANGED <<stored, temporary, written, instant>>
        /\ puts[p].at = "missing"
    BY <1>5 DEF PutName, BlobsInv, FilesNamed, NamesApart, FilesOwned, AddressWhole, BlobsTyped, PutSteps
  <2>2. collided' \in BOOLEAN /\ (~collided' => ~collided /\ \A q \in Puts \ {p} : puts[q].name # instant)
    BY <1>5 DEF PutName, BlobsInv, FilesNamed, NamesApart, FilesOwned, AddressWhole, BlobsTyped
  <2>3. puts[p].name = NoFile /\ written[p] = "nothing" /\ instant # NoFile
    BY <2>1 DEF BlobsInv, FilesNamed, NamesApart, FilesOwned, AddressWhole, BlobsTyped, PutInv, Nameless
  <2>4. \A q \in Puts : PutInv(q)'
    BY <2>1, <2>3 DEF BlobsInv, FilesNamed, NamesApart, FilesOwned, AddressWhole, BlobsTyped, PutInv, Nameless, MayBeNameless
  <2> QED
    BY <2>1, <2>2, <2>3, <2>4, SMTT(60) DEF BlobsInv, FilesNamed, NamesApart, FilesOwned, AddressWhole, BlobsTyped
<1>6. ASSUME NEW p \in Puts, PutOpen(p) PROVE BlobsInv'
  <2> DEFINE i == puts[p].name
  <2>1. /\ puts[p].at = "named" /\ i \in 0..MaxInstant /\ written[p] = "nothing"
        /\ UNCHANGED <<stored, instant, collided>>
    BY <1>6 DEF PutOpen, BlobsInv, FilesNamed, NamesApart, FilesOwned, AddressWhole, BlobsTyped, PutInv, MayBeNameless
  <2>2. CASE temporary[i] = NoFile
    <3>1. /\ temporary' = [temporary EXCEPT ![i] = p]
          /\ written' = [written EXCEPT ![p] = "part"]
          /\ At(p, "writing") /\ "writing" \in PutSteps
      BY <1>6, <2>2 DEF PutOpen, PutSteps
    <3>2. BlobsTyped'
      BY <2>1, <3>1, AtStep DEF BlobsInv, FilesNamed, NamesApart, FilesOwned, AddressWhole, BlobsTyped
    <3>3. \A q \in Puts : PutInv(q)'
      BY <2>1, <3>1, AtStep DEF BlobsInv, FilesNamed, NamesApart, FilesOwned, AddressWhole, BlobsTyped, PutInv, Nameless, MayBeNameless
    <3>4. \A j \in 0..MaxInstant : temporary'[j] # NoFile =>
            puts'[temporary'[j]].name = j /\ written'[temporary'[j]] # "nothing"
      BY <2>1, <3>1, AtStep DEF BlobsInv, FilesNamed, NamesApart, FilesOwned, AddressWhole, BlobsTyped
    <3>5. ASSUME ~collided
          PROVE  /\ \A q \in Puts :
                      puts'[q].at \in {"writing", "written"} => temporary'[puts'[q].name] = q
                 /\ stored # NoFile => written'[stored] = "whole"
      BY <2>1, <3>1, <3>5, AtStep DEF BlobsInv, FilesNamed, NamesApart, FilesOwned, AddressWhole, BlobsTyped, PutInv, MayBeNameless
    <3> QED
      BY <2>1, <3>1, <3>2, <3>3, <3>4, <3>5, AtStep DEF BlobsInv, FilesNamed, NamesApart, FilesOwned, AddressWhole
  <2>3. CASE temporary[i] # NoFile
    <3>1. collided
      BY <2>1, <2>3 DEF BlobsInv, FilesNamed, NamesApart, FilesOwned, AddressWhole, BlobsTyped
    <3>2. At(p, "failed") /\ "failed" \in PutSteps /\ UNCHANGED <<temporary, written>>
      BY <1>6, <2>3 DEF PutOpen, PutSteps
    <3> QED
      BY <2>1, <3>1, <3>2, AtStep DEF BlobsInv, FilesNamed, NamesApart, FilesOwned, AddressWhole, BlobsTyped, PutInv, Nameless, MayBeNameless
  <2> QED
    BY <2>2, <2>3
<1>7. ASSUME NEW p \in Puts, PutWrite(p) PROVE BlobsInv'
  <2>1. PICK step \in {"written", "disk error"} :
          /\ At(p, step) /\ step \in PutSteps
          /\ step = "written" => written' = [written EXCEPT ![p] = "whole"]
          /\ step # "written" => written' = written
    BY <1>7 DEF PutWrite, PutSteps
  <2>2. /\ puts[p].at = "writing" /\ UNCHANGED <<stored, temporary, instant, collided>>
        /\ written' \in [Puts -> {"nothing", "part", "whole"}]
        /\ \A q \in Puts : /\ written[q] # "nothing" => written'[q] # "nothing"
                           /\ written[q] = "whole" => written'[q] = "whole"
                           /\ q # p => written'[q] = written[q]
    BY <1>7, <2>1 DEF PutWrite, BlobsInv, FilesNamed, NamesApart, FilesOwned, AddressWhole, BlobsTyped
  <2>3. /\ puts' \in [Puts -> [at: PutSteps, name: 0..MaxInstant \union {NoFile}]]
        /\ puts'[p].at = step
        /\ \A q \in Puts : /\ puts'[q].name = puts[q].name
                           /\ q # p => puts'[q] = puts[q]
    BY <2>1, AtStep DEF BlobsInv, FilesNamed, NamesApart, FilesOwned, AddressWhole
  <2>4. BlobsTyped'
    BY <2>2, <2>3 DEF BlobsInv, FilesNamed, NamesApart, FilesOwned, AddressWhole, BlobsTyped
  <2>5. written'[p] = "whole" \/ step # "written"
    BY <2>1, <2>2 DEF BlobsInv, FilesNamed, NamesApart, FilesOwned, AddressWhole, BlobsTyped
  <2>6. ASSUME NEW q \in Puts PROVE PutInv(q)'
    <3>1. PutInv(q) /\ PutInv(p)
      BY DEF BlobsInv
    <3>2. CASE q = p
      BY <2>2, <2>3, <2>5, <3>1, <3>2 DEF PutInv, Nameless, MayBeNameless
    <3>3. CASE q # p
      BY <2>2, <2>3, <3>1, <3>3 DEF PutInv, Nameless, MayBeNameless
    <3> QED
      BY <3>2, <3>3
  <2>7. ASSUME ~collided
        PROVE  \A q \in Puts :
                 /\ puts'[q].at \notin {"failed", "unlinked", "refused"}
                 /\ puts'[q].at \in {"writing", "written"} => temporary[puts'[q].name] = q
    BY <2>1, <2>2, <2>3, <2>7 DEF BlobsInv, FilesOwned
  <2>8. FilesNamed'
    BY <2>2, <2>3, ZenonT(60) DEF BlobsInv, BlobsTyped, FilesNamed
  <2>9. ~collided' => NamesApart' /\ FilesOwned' /\ AddressWhole'
    <3>1. AddressWhole => AddressWhole'
      BY <2>2 DEF BlobsInv, BlobsTyped, AddressWhole
    <3>2. NamesApart => NamesApart'
      BY <2>3 DEF NamesApart
    <3>3. ~collided => FilesOwned'
      BY <2>2, <2>7 DEF FilesOwned
    <3> QED
      BY <2>2, <3>1, <3>2, <3>3 DEF BlobsInv
  <2> QED
    BY <2>4, <2>6, <2>8, <2>9 DEF BlobsInv
<1>8. ASSUME NEW p \in Puts, PutRename(p) PROVE BlobsInv'
  <2> DEFINE i == puts[p].name
  <2>1. /\ puts[p].at = "written" /\ i \in 0..MaxInstant /\ written[p] = "whole"
        /\ UNCHANGED <<written, instant, collided>>
    BY <1>8 DEF PutRename, BlobsInv, FilesNamed, NamesApart, FilesOwned, AddressWhole, BlobsTyped, PutInv, MayBeNameless
  <2>2. CASE temporary[i] # NoFile
    <3>1. /\ stored' = temporary[i] /\ stored' \in Puts
          /\ temporary' = [temporary EXCEPT ![i] = NoFile]
          /\ At(p, "stored") /\ "stored" \in PutSteps
      <4>1. temporary[i] \in Puts /\ "stored" \in PutSteps
        BY <2>1, <2>2 DEF BlobsInv, FilesNamed, NamesApart, FilesOwned, AddressWhole, BlobsTyped, PutSteps
      <4> QED
        BY <1>8, <2>2, <4>1 DEF PutRename
    <3>2. BlobsTyped'
      BY <2>1, <3>1, AtStep DEF BlobsInv, FilesNamed, NamesApart, FilesOwned, AddressWhole, BlobsTyped
    <3>3. \A q \in Puts : PutInv(q)'
      BY <2>1, <2>2, <3>1, AtStep DEF BlobsInv, FilesNamed, NamesApart, FilesOwned, AddressWhole, BlobsTyped, PutInv, Nameless, MayBeNameless
    <3>4. ASSUME ~collided
          PROVE  /\ \A q \in Puts :
                      puts'[q].at \in {"writing", "written"} => temporary'[puts'[q].name] = q
                 /\ written'[stored'] = "whole"
      BY <2>1, <3>1, <3>4, AtStep DEF BlobsInv, FilesNamed, NamesApart, FilesOwned, AddressWhole, BlobsTyped, PutInv, MayBeNameless
    <3> QED
      BY <2>1, <3>1, <3>2, <3>3, <3>4, AtStep DEF BlobsInv, FilesNamed, NamesApart, FilesOwned, AddressWhole, BlobsTyped
  <2>3. CASE temporary[i] = NoFile
    <3>1. collided
      BY <2>1, <2>3 DEF BlobsInv, FilesNamed, NamesApart, FilesOwned, AddressWhole
    <3>2. At(p, "failed") /\ "failed" \in PutSteps /\ UNCHANGED <<stored, temporary>>
      BY <1>8, <2>3 DEF PutRename, PutSteps
    <3> QED
      BY <2>1, <3>1, <3>2, AtStep, SMTT(60) DEF BlobsInv, FilesNamed, NamesApart, FilesOwned, AddressWhole, BlobsTyped, PutInv, Nameless, MayBeNameless
  <2> QED
    BY <2>2, <2>3
<1>9. ASSUME NEW p \in Puts, PutUnlink(p) PROVE BlobsInv'
  <2>1. PICK step \in {"unlinked", "unlinked, disk error"} :
          /\ At(p, step) /\ step \in PutSteps
          /\ step = "unlinked" => puts[p].at = "failed"
    BY <1>9 DEF PutUnlink, PutSteps
  <2>2. /\ puts[p].at \in {"failed", "disk error"}
        /\ UNCHANGED <<stored, written, instant, collided>>
        /\ temporary' = [temporary EXCEPT ![puts[p].name] = NoFile]
    BY <1>9 DEF PutUnlink
  <2>3. /\ puts' \in [Puts -> [at: PutSteps, name: 0..MaxInstant \union {NoFile}]]
        /\ puts'[p].at = step
        /\ \A q \in Puts : /\ puts'[q].name = puts[q].name
                           /\ q # p => puts'[q] = puts[q]
    BY <2>1, AtStep DEF BlobsInv
  <2>4. PutInv(p) /\ puts[p].name # NoFile
    BY <2>2 DEF BlobsInv, PutInv, MayBeNameless
  <2>5. temporary' \in [0..MaxInstant -> Puts \union {NoFile}]
        /\ \A j \in 0..MaxInstant : /\ temporary'[j] # NoFile => temporary'[j] = temporary[j]
                                    /\ j # puts[p].name => temporary'[j] = temporary[j]
    BY <2>2 DEF BlobsInv, BlobsTyped
  <2>6. BlobsTyped'
    BY <2>2, <2>3, <2>5 DEF BlobsInv, BlobsTyped
  <2>7. ASSUME NEW q \in Puts PROVE PutInv(q)'
    <3>1. PutInv(q)
      BY DEF BlobsInv
    <3>2. CASE q = p
      BY <2>1, <2>2, <2>3, <2>4, <3>2 DEF PutInv, Nameless, MayBeNameless
    <3>3. CASE q # p
      BY <2>2, <2>3, <3>1, <3>3 DEF PutInv, Nameless, MayBeNameless
    <3> QED
      BY <3>2, <3>3
  <2>8. FilesNamed'
    BY <2>2, <2>3, <2>5, ZenonT(60) DEF BlobsInv, BlobsTyped, FilesNamed
  <2>9. ASSUME ~collided, NEW q \in Puts
        PROVE  /\ puts'[q].at \notin {"failed", "unlinked", "refused"}
               /\ puts'[q].at \in {"writing", "written"} => temporary'[puts'[q].name] = q
    <3>1. NamesApart /\ FilesOwned
      BY <2>9 DEF BlobsInv
    <3>2. CASE q = p
      BY <2>1, <2>3, <3>1, <3>2 DEF FilesOwned
    <3>3. CASE q # p
      <4>1. puts[q].name # puts[p].name
        BY <2>4, <3>1, <3>3 DEF NamesApart
      <4>2. puts[q].at \in {"writing", "written"} => puts[q].name \in 0..MaxInstant
        BY DEF BlobsInv, BlobsTyped, PutInv, MayBeNameless
      <4> QED
        BY <2>3, <2>5, <3>1, <3>3, <4>1, <4>2 DEF FilesOwned
    <3> QED
      BY <3>2, <3>3
  <2>10. ~collided' => NamesApart' /\ FilesOwned' /\ AddressWhole'
    <3>1. NamesApart => NamesApart'
      BY <2>3 DEF NamesApart
    <3>2. AddressWhole => AddressWhole'
      BY <2>2 DEF AddressWhole
    <3> QED
      BY <2>2, <2>9, <3>1, <3>2 DEF BlobsInv, FilesOwned
  <2> QED
    BY <2>6, <2>7, <2>8, <2>10 DEF BlobsInv
<1>10. ASSUME NEW p \in Puts, PutLookAgain(p) PROVE BlobsInv'
  <2>1. PICK step \in {"stored", "refused", "refused, disk error"} :
          /\ At(p, step) /\ step \in PutSteps
          /\ step = "stored" => stored # NoFile
          /\ step = "refused" => puts[p].at = "unlinked"
    BY <1>10 DEF PutLookAgain, Has, PutSteps
  <2>2. puts[p].at \in {"unlinked", "unlinked, disk error"}
        /\ UNCHANGED <<stored, temporary, written, instant, collided>>
    BY <1>10 DEF PutLookAgain
  <2>3. /\ puts' \in [Puts -> [at: PutSteps, name: 0..MaxInstant \union {NoFile}]]
        /\ puts'[p].at = step
        /\ \A q \in Puts : /\ puts'[q].name = puts[q].name
                           /\ q # p => puts'[q] = puts[q]
    BY <2>1, AtStep DEF BlobsInv
  <2>4. BlobsTyped'
    BY <2>2, <2>3 DEF BlobsInv, BlobsTyped
  <2>5. \A q \in Puts : PutInv(q)'
    BY <2>1, <2>2, <2>3 DEF BlobsInv, PutInv, Nameless, MayBeNameless
  <2>6. FilesNamed'
    BY <2>2, <2>3, ZenonT(60) DEF BlobsInv, BlobsTyped, FilesNamed
  <2>7. ~collided' => NamesApart' /\ FilesOwned' /\ AddressWhole'
    <3>1. NamesApart => NamesApart'
      BY <2>3 DEF NamesApart
    <3>2. FilesOwned => FilesOwned'
      BY <2>1, <2>2, <2>3 DEF FilesOwned
    <3>3. AddressWhole => AddressWhole'
      BY <2>2 DEF AddressWhole
    <3> QED
      BY <2>2, <3>1, <3>2, <3>3 DEF BlobsInv
  <2> QED
    BY <2>4, <2>5, <2>6, <2>7 DEF BlobsInv
<1> QED
  BY <1>1, <1>2, <1>3, <1>4, <1>5, <1>6, <1>7, <1>8, <1>9, <1>10 DEF BlobsNext, PutStep

\* No address of the blob store holds part of a blob, no put that returned left it without
\* one and none is refused but for a disk error, as long as no two puts made one temporary name:
\* StoredWhole, for any number of puts and instants, with a crash between any two operations.
THEOREM BlobsWhole == BlobsSpec => []StoredWhole
<1>1. BlobsInv => StoredWhole
  <2>1. ASSUME BlobsInv PROVE StoredWhole
    BY <2>1 DEF BlobsInv, FilesNamed, NamesApart, FilesOwned, AddressWhole, BlobsTyped, PutInv, StoredWhole, Get, Has
  <2> QED
    BY <2>1
<1> QED
  BY <1>1, BlobsInitially, BlobsStepKeeps, PTL DEF BlobsSpec

-----------------------------------------------------------------------------
(* Task sets *)

\* A set as it is stored: its pin is of what it holds.
PinnedSet(s, set) ==
  set \in [tenant: Tenants, split: Splits, taskIds: Seq(TaskIds),
           contentHash: {ComputeTaskSetHash(s, set.split, set.taskIds)}]

\* A call that looked has a set of the caller's tenant, or none; the set it has is
\* still there, perhaps with more tasks.
CallInv(c) ==
  /\ creates[c].at \in {"idle", "checked", "done"}
  /\ creates[c].at = "checked" =>
       /\ creates[c].task \in TaskIds /\ creates[c].id \in SetIds
       /\ creates[c].set # NoSet =>
            /\ PinnedSet(creates[c].id, creates[c].set)
            /\ creates[c].set.tenant = creates[c].tenant
            /\ taskSets[creates[c].id] # NoSet
            /\ taskSets[creates[c].id].tenant = creates[c].tenant

TasksOf(s) == {i \in TaskIds : tasks[i].set = s}

TaskSetsInv ==
  /\ DOMAIN tasks = TaskIds /\ DOMAIN taskSets = SetIds /\ DOMAIN creates = Creates
  /\ startedWith \in [SetIds -> Seq(TaskIds)]
  /\ \A c \in Creates : CallInv(c)
  /\ \A s \in SetIds : taskSets[s] # NoSet => PinnedSet(s, taskSets[s])
  /\ \A i \in TaskIds : tasks[i] # NoTask =>
       /\ tasks[i].set \in SetIds
       /\ taskSets[tasks[i].set] # NoSet
       /\ tasks[i].tenant = taskSets[tasks[i].set].tenant
  /\ \A s \in SetIds \ outdated : taskSets[s] # NoSet =>
       ListedAfter(startedWith[s], TasksOf(s), taskSets[s].taskIds)

\* The absence of a set is none.
LEMMA NoPinnedSet == \A s : ~PinnedSet(s, NoSet)
BY TenancyAssumption DEF PinnedSet, NoSet

\* A task appended to a set: the pin changes with it, and the task stands behind the others.
LEMMA TaskAppended ==
  ASSUME NEW s \in SetIds, NEW set, PinnedSet(s, set), NEW i \in TaskIds,
         NEW ids \in Seq(TaskIds), NEW members
  PROVE  /\ PinnedSet(s, WithTask(s, set, i)) /\ WithTask(s, set, i) # NoSet
         /\ WithTask(s, set, i).tenant = set.tenant
         /\ ListedAfter(ids, members, set.taskIds) /\ i \notin members =>
              ListedAfter(ids, members \union {i}, WithTask(s, set, i).taskIds)
<1> DEFINE more == Append(set.taskIds, i)
           grown == WithTask(s, set, i)
<1>1. /\ more \in Seq(TaskIds) /\ Len(more) = Len(set.taskIds) + 1
      /\ DOMAIN more = 1..(Len(set.taskIds) + 1) /\ DOMAIN set.taskIds = 1..Len(set.taskIds)
      /\ Len(set.taskIds) \in Nat
      /\ \A n \in 1..Len(set.taskIds) : more[n] = set.taskIds[n]
      /\ more[Len(set.taskIds) + 1] = i
  <2>1. set.taskIds \in Seq(TaskIds)
    BY DEF PinnedSet
  <2> QED
    BY <2>1, AppendProperties, LenProperties
<1>2. grown \in [tenant: Tenants, split: Splits, taskIds: Seq(TaskIds),
                 contentHash: {ComputeTaskSetHash(s, set.split, more)}]
  BY <1>1 DEF PinnedSet, WithTask
<1>3. grown.tenant = set.tenant /\ grown.split = set.split /\ grown.taskIds = more
  BY DEF PinnedSet, WithTask
<1>4. PinnedSet(s, grown)
  <2> HIDE DEF grown, more
  <2> QED
    BY <1>2, <1>3 DEF PinnedSet
<1>5. grown # NoSet
  BY <1>4, NoPinnedSet
<1>6. ASSUME ListedAfter(ids, members, set.taskIds), i \notin members
      PROVE  ListedAfter(ids, members \union {i}, more)
  <2> DEFINE added == Len(ids) + 1..Len(set.taskIds)
             addedNow == Len(ids) + 1..Len(more)
  <2>1. Len(ids) \in Nat /\ DOMAIN ids = 1..Len(ids)
    BY LenProperties
  <2>2. /\ Len(ids) <= Len(set.taskIds)
        /\ \A n \in DOMAIN ids : set.taskIds[n] = ids[n]
        /\ {set.taskIds[n] : n \in added} = members
        /\ \A m, n \in added : set.taskIds[m] = set.taskIds[n] => m = n
    BY <1>6 DEF ListedAfter
  <2>3. /\ addedNow = added \union {Len(more)} /\ more[Len(more)] = i
        /\ \A n \in added : more[n] = set.taskIds[n]
    <3> HIDE DEF more
    <3> QED
      BY <1>1, <2>1, <2>2
  <2>4. Len(ids) <= Len(more) /\ \A n \in DOMAIN ids : more[n] = ids[n]
    <3> HIDE DEF more
    <3> QED
      BY <1>1, <2>1, <2>2
  <2>5. {more[n] : n \in addedNow} = members \union {i}
    <3> HIDE DEF more, added, addedNow
    <3> QED
      BY <2>2, <2>3
  <2>6. \A m, n \in addedNow : more[m] = more[n] => m = n
    <3>1. \A n \in added : set.taskIds[n] # i
      BY <1>6, <2>2
    <3> HIDE DEF more, added, addedNow
    <3> QED
      BY <2>2, <2>3, <3>1
  <2> HIDE DEF more
  <2> QED
    BY <2>4, <2>5, <2>6 DEF ListedAfter
<1> QED
  BY <1>3, <1>4, <1>5, <1>6

\* No set, task or call is there at the start.
LEMMA TaskSetsInitially == TaskSetsInit => TaskSetsInv
<1> SUFFICES ASSUME TaskSetsInit PROVE TaskSetsInv
  OBVIOUS
<1>1. /\ DOMAIN tasks = TaskIds /\ DOMAIN taskSets = SetIds /\ DOMAIN creates = Creates
      /\ \A i \in TaskIds : tasks[i] = NoTask
      /\ \A s \in SetIds : taskSets[s] = NoSet
      /\ \A c \in Creates : creates[c].at = "idle"
      /\ startedWith \in [SetIds -> Seq(TaskIds)]
  BY DEF TaskSetsInit
<1> QED
  BY <1>1 DEF TaskSetsInv, CallInv

\* Creating a set, and either half of creating a task, keeps the invariant.
LEMMA TaskSetsStepKeeps == TaskSetsInv /\ [TaskSetsNext]_taskVars => TaskSetsInv'
<1> SUFFICES ASSUME TaskSetsInv, [TaskSetsNext]_taskVars PROVE TaskSetsInv'
  OBVIOUS
<1> USE TaskSetsAssumption, TenancyAssumption
<1>1. CASE UNCHANGED taskVars
  BY <1>1 DEF taskVars, TaskSetsInv, CallInv, TasksOf
<1>2. ASSUME NEW tenant \in Tenants, NEW s \in SetIds, NEW split \in Splits,
             NEW ids \in InitialIds, CreateTaskSet(s, tenant, split, ids)
      PROVE  TaskSetsInv'
  <2> DEFINE new == [tenant |-> tenant, split |-> split, taskIds |-> ids,
                     contentHash |-> ComputeTaskSetHash(s, split, ids)]
  <2>0. ids \in Seq(TaskIds)
    BY DEF InitialIds
  <2>1. /\ taskSets[s] = NoSet /\ taskSets' = [taskSets EXCEPT ![s] = new]
        /\ startedWith' = [startedWith EXCEPT ![s] = ids]
        /\ UNCHANGED <<tasks, creates, outdated>>
    BY <1>2 DEF CreateTaskSet
  <2>2. PinnedSet(s, new) /\ new # NoSet
    <3>1. PinnedSet(s, new)
      BY <2>0 DEF PinnedSet
    <3> QED
      BY <3>1, NoPinnedSet
  <2>3. /\ DOMAIN taskSets' = SetIds /\ taskSets'[s] = new
        /\ \A r \in SetIds : r # s => taskSets'[r] = taskSets[r]
        /\ startedWith' \in [SetIds -> Seq(TaskIds)] /\ startedWith'[s] = ids
        /\ \A r \in SetIds : r # s => startedWith'[r] = startedWith[r]
    BY <2>0, <2>1 DEF TaskSetsInv
  <2>4. ASSUME NEW c \in Creates PROVE CallInv(c)'
    <3>1. CallInv(c)
      BY DEF TaskSetsInv
    <3> QED
      BY <2>1, <2>3, <3>1 DEF CallInv
  <2>5. \A i \in TaskIds : tasks[i] # NoTask => tasks[i].set # s
    BY <2>1 DEF TaskSetsInv
  <2>6. \A r \in SetIds : taskSets'[r] # NoSet => PinnedSet(r, taskSets'[r])
    BY <2>2, <2>3 DEF TaskSetsInv
  <2>7. \A i \in TaskIds : tasks'[i] # NoTask =>
          /\ tasks'[i].set \in SetIds
          /\ taskSets'[tasks'[i].set] # NoSet
          /\ tasks'[i].tenant = taskSets'[tasks'[i].set].tenant
    BY <2>1, <2>3, <2>5 DEF TaskSetsInv
  <2>8. ListedAfter(ids, {}, ids) /\ TasksOf(s) = {}
    <3>1. Len(ids) \in Nat
      BY <2>0, LenProperties
    <3>2. Len(ids) + 1..Len(ids) = {}
      BY <3>1
    <3> QED
      BY <2>5, <3>1, <3>2 DEF ListedAfter, TasksOf, NoTask
  <2>9. ASSUME NEW r \in SetIds \ outdated', taskSets'[r] # NoSet
        PROVE  ListedAfter(startedWith'[r], TasksOf(r)', taskSets'[r].taskIds)
    <3>1. TasksOf(r)' = TasksOf(r)
      BY <2>1 DEF TasksOf
    <3>2. CASE r = s
      <4>1. new.taskIds = ids
        OBVIOUS
      <4> HIDE DEF new
      <4> QED
        BY <2>3, <2>8, <3>1, <3>2, <4>1
    <3>3. CASE r # s
      BY <2>1, <2>3, <2>9, <3>1, <3>3 DEF TaskSetsInv
    <3> QED
      BY <3>2, <3>3
  <2> QED
    BY <2>1, <2>3, <2>4, <2>6, <2>7, <2>9 DEF TaskSetsInv
<1>3. ASSUME NEW tenant \in Tenants, NEW s \in SetIds, NEW c \in Creates, NEW i \in TaskIds,
             CreateTaskCheck(c, i, s, tenant)
      PROVE  TaskSetsInv'
  <2>1. /\ UNCHANGED <<tasks, taskSets, startedWith, outdated>>
        /\ DOMAIN creates' = Creates
        /\ \A d \in Creates : d # c => creates'[d] = creates[d]
    BY <1>3 DEF CreateTaskCheck, TaskSetsInv
  <2>2. \/ creates'[c] = [at |-> "done"]
        \/ creates'[c] = [at |-> "checked", task |-> i, id |-> s, tenant |-> tenant,
                          set |-> GetTaskSet(s, tenant)]
    BY <1>3 DEF CreateTaskCheck, TaskSetsInv
  <2>3. GetTaskSet(s, tenant) # NoSet =>
          /\ GetTaskSet(s, tenant) = taskSets[s] /\ taskSets[s] # NoSet
          /\ taskSets[s].tenant = tenant /\ PinnedSet(s, taskSets[s])
    BY DEF GetTaskSet, Seen, TaskSetsInv
  <2>4. CallInv(c)'
    BY <2>1, <2>2, <2>3 DEF CallInv
  <2>5. ASSUME NEW d \in Creates, d # c PROVE CallInv(d)'
    <3>1. CallInv(d)
      BY DEF TaskSetsInv
    <3> QED
      BY <2>1, <2>5, <3>1 DEF CallInv
  <2> QED
    BY <2>1, <2>4, <2>5 DEF TaskSetsInv, TasksOf
<1>4. ASSUME NEW c \in Creates, CreateTaskWrite(c) PROVE TaskSetsInv'
  <2>1. /\ creates[c].at = "checked" /\ DOMAIN creates' = Creates
        /\ UNCHANGED startedWith
        /\ creates'[c] = [at |-> "done"]
        /\ \A d \in Creates : d # c => creates'[d] = creates[d]
    BY <1>4 DEF CreateTaskWrite, TaskSetsInv
  <2>2. PICK call : call = creates[c]
    OBVIOUS
  <2>3. CASE call.set = NoSet
    <3>1. UNCHANGED <<tasks, taskSets, outdated>>
      BY <1>4, <2>2, <2>3 DEF CreateTaskWrite
    <3>2. ASSUME NEW d \in Creates PROVE CallInv(d)'
      <4>1. CallInv(d)
        BY DEF TaskSetsInv
      <4> QED
        BY <2>1, <3>1, <4>1 DEF CallInv
    <3> QED
      BY <2>1, <3>1, <3>2 DEF TaskSetsInv, TasksOf
  <2>4. CASE call.set # NoSet
    <3>1. PICK i, s, grown : i = call.task /\ s = call.id /\ grown = WithTask(s, call.set, i)
      OBVIOUS
    <3>2. /\ tasks' = [tasks EXCEPT ![i] = [tenant |-> call.tenant, set |-> s]]
          /\ taskSets' = [taskSets EXCEPT ![s] = grown]
          /\ outdated' = IF taskSets[s] = call.set /\ tasks[i] = NoTask
                         THEN outdated ELSE outdated \union {s, tasks[i].set}
      BY <1>4, <2>2, <2>4, <3>1 DEF CreateTaskWrite
    <3>3. /\ i \in TaskIds /\ s \in SetIds /\ PinnedSet(s, call.set)
          /\ call.set.tenant = call.tenant
          /\ taskSets[s] # NoSet /\ taskSets[s].tenant = call.tenant
      BY <2>1, <2>2, <2>4, <3>1 DEF TaskSetsInv, CallInv
    <3>4. /\ PinnedSet(s, grown) /\ grown # NoSet /\ grown.tenant = call.tenant
      <4>1. <<>> \in Seq(TaskIds)
        OBVIOUS
      <4> QED
        BY <3>1, <3>3, <4>1, TaskAppended
    <3>5. /\ DOMAIN taskSets' = SetIds /\ taskSets'[s] = grown
          /\ \A r \in SetIds : r # s => taskSets'[r] = taskSets[r]
      BY <3>2, <3>3 DEF TaskSetsInv
    <3>6. /\ DOMAIN tasks' = TaskIds
          /\ tasks'[i].tenant = call.tenant /\ tasks'[i].set = s
          /\ \A j \in TaskIds : j # i => tasks'[j] = tasks[j]
      BY <3>2, <3>3 DEF TaskSetsInv
    <3>7. ASSUME NEW d \in Creates PROVE CallInv(d)'
      <4>1. CallInv(d)
        BY DEF TaskSetsInv
      <4>2. CASE d = c
        BY <2>1, <4>2 DEF CallInv
      <4>3. CASE d # c
        BY <2>1, <3>3, <3>4, <3>5, <4>1, <4>3 DEF CallInv
      <4> QED
        BY <4>2, <4>3
    <3>8. \A r \in SetIds : taskSets'[r] # NoSet => PinnedSet(r, taskSets'[r])
      BY <3>4, <3>5 DEF TaskSetsInv
    <3>9. \A j \in TaskIds : tasks'[j] # NoTask =>
            /\ tasks'[j].set \in SetIds
            /\ taskSets'[tasks'[j].set] # NoSet
            /\ tasks'[j].tenant = taskSets'[tasks'[j].set].tenant
      <4> SUFFICES ASSUME NEW j \in TaskIds, tasks'[j] # NoTask
                   PROVE  /\ tasks'[j].set \in SetIds
                          /\ taskSets'[tasks'[j].set] # NoSet
                          /\ tasks'[j].tenant = taskSets'[tasks'[j].set].tenant
        OBVIOUS
      <4>1. CASE j = i
        BY <3>3, <3>4, <3>5, <3>6, <4>1
      <4>2. CASE j # i
        <5>1. /\ tasks'[j] = tasks[j] /\ tasks[j].set \in SetIds
              /\ taskSets[tasks[j].set] # NoSet
              /\ tasks[j].tenant = taskSets[tasks[j].set].tenant
          BY <3>6, <4>2 DEF TaskSetsInv
        <5>2. taskSets'[tasks[j].set].tenant = taskSets[tasks[j].set].tenant
          BY <3>3, <3>4, <3>5, <5>1
        <5>3. taskSets'[tasks[j].set] # NoSet
          BY <3>4, <3>5, <5>1
        <5> QED
          BY <5>1, <5>2, <5>3
      <4> QED
        BY <4>1, <4>2
    <3>10. ASSUME NEW r \in SetIds \ outdated', taskSets'[r] # NoSet
           PROVE  ListedAfter(startedWith'[r], TasksOf(r)', taskSets'[r].taskIds)
      <4>1. r \notin outdated
        BY <3>2, <3>10
      <4>2. CASE r = s
        <5>1. taskSets[s] = call.set /\ tasks[i] = NoTask
          BY <3>2, <3>10, <4>2
        <5>2. ListedAfter(startedWith[s], TasksOf(s), call.set.taskIds)
          BY <3>3, <4>1, <4>2, <5>1 DEF TaskSetsInv
        <5>3. i \notin TasksOf(s)
          BY <3>3, <5>1 DEF TasksOf, NoTask
        <5>4. TasksOf(s)' = TasksOf(s) \union {i}
          BY <3>3, <3>6 DEF TasksOf
        <5>5. startedWith[s] \in Seq(TaskIds) /\ startedWith'[s] = startedWith[s]
          BY <2>1, <3>3 DEF TaskSetsInv
        <5>6. ListedAfter(startedWith[s], TasksOf(s) \union {i}, grown.taskIds)
          BY <3>1, <3>3, <5>2, <5>3, <5>5, TaskAppended
        <5> QED
          BY <3>5, <4>2, <5>4, <5>5, <5>6
      <4>3. CASE r # s
        <5>1. tasks[i].set # r
          BY <3>2, <3>10 DEF NoTask
        <5>2. TasksOf(r)' = TasksOf(r)
          BY <3>3, <3>6, <4>3, <5>1 DEF TasksOf
        <5> QED
          BY <2>1, <3>5, <3>10, <4>1, <4>3, <5>2 DEF TaskSetsInv
      <4> QED
        BY <4>2, <4>3
    <3> QED
      BY <2>1, <3>5, <3>6, <3>7, <3>8, <3>9, <3>10 DEF TaskSetsInv
  <2> QED
    BY <2>3, <2>4
<1> QED
  BY <1>1, <1>2, <1>3, <1>4 DEF TaskSetsNext

\* The content hash of a task set is of what the set holds, and unless a record was replaced
\* under a createTask the set lists the ids it was created with, unchecked, and behind them
\* each of its tasks once: PinDescribesSet, for any number of sets, tasks, tenants, initial ids
\* and overlapping calls.
THEOREM PinsDescribe == TaskSetsSpec => []PinDescribesSet
<1>1. TaskSetsInv => PinDescribesSet
  <2> SUFFICES ASSUME TaskSetsInv, NEW s \in SetIds, taskSets[s] # NoSet
               PROVE  /\ taskSets[s].contentHash
                           = ComputeTaskSetHash(s, taskSets[s].split, taskSets[s].taskIds)
                      /\ \A i \in TaskIds :
                           tasks[i].set = s => tasks[i].tenant = taskSets[s].tenant
                      /\ s \notin outdated =>
                           ListedAfter(startedWith[s], ListTasks(taskSets[s].tenant, s),
                                       taskSets[s].taskIds)
    BY DEF PinDescribesSet
  <2>1. PinnedSet(s, taskSets[s])
    BY DEF TaskSetsInv
  <2>2. taskSets[s].contentHash
          = ComputeTaskSetHash(s, taskSets[s].split, taskSets[s].taskIds)
    BY <2>1 DEF PinnedSet
  <2>3. \A i \in TaskIds : tasks[i].set = s => tasks[i].tenant = taskSets[s].tenant
    BY TaskSetsAssumption DEF TaskSetsInv, NoTask
  <2>4. ListTasks(taskSets[s].tenant, s) = TasksOf(s)
    BY <2>3 DEF ListTasks, TasksOf
  <2> QED
    BY <2>2, <2>3, <2>4 DEF TaskSetsInv
<1> QED
  BY <1>1, TaskSetsInitially, TaskSetsStepKeeps, PTL DEF TaskSetsSpec

-----------------------------------------------------------------------------
(* The model registry *)

\* The revisions of one model: the last is current.
ListInv(list) ==
  /\ list \in Seq(Revision)
  /\ \A i \in 1..Len(list) : /\ list[i].supersededAt = "date" <=> i # Len(list)
                             /\ list[i].revision <= i

Numbered(list) == \A i \in 1..Len(list) : list[i].revision = i

ProbeInv(p) ==
  /\ probes[p].at \in {"read", "updated"} =>
       /\ probes[p].tenant \in Tenants /\ probes[p].model \in ModelIds
       /\ probes[p].alias \in Aliases
       /\ revisions[probes[p].tenant][probes[p].model] # <<>>
  /\ probes[p].at = "updated" =>
       /\ probes[p].updated \in Revision
       /\ probes[p].updated.supersededAt = "undefined"
       /\ probes[p].updated.revision <= Len(revisions[probes[p].tenant][probes[p].model])

Keyed == DOMAIN revisions = Tenants /\ \A t \in Tenants : DOMAIN revisions[t] = ModelIds

RegistryIInv ==
  /\ Keyed /\ DOMAIN probes = Probes
  /\ \A t \in Tenants, m \in ModelIds : 
       /\ ListInv(revisions[t][m])
       /\ <<t, m>> \notin overwritten => Numbered(revisions[t][m])
  /\ \A p \in Probes : ProbeInv(p)

\* The inductive invariant is RegistryInv, by model and by probe.
LEMMA RegistryInvParts == RegistryIInv => RegistryInv
BY DEF RegistryIInv, RegistryInv, ListInv, Numbered, ProbeInv

\* No model is registered and no probe runs at the start.
LEMMA RegistryInitially == RegistryInit => RegistryIInv
<1> SUFFICES ASSUME RegistryInit PROVE RegistryIInv
  OBVIOUS
<1>1. Keyed /\ DOMAIN probes = Probes
  BY DEF RegistryInit, Keyed
<1>2. \A t \in Tenants, m \in ModelIds : revisions[t][m] = <<>>
  BY DEF RegistryInit
<1>3. \A p \in Probes : probes[p].at = "idle"
  BY DEF RegistryInit
<1>4. ListInv(<<>>) /\ Numbered(<<>>)
  BY EmptySeq DEF ListInv, Numbered
<1> QED
  BY <1>1, <1>2, <1>3, <1>4 DEF RegistryIInv, ProbeInv

\* An update keeps what was there and marks the newest as superseded.
LEMMA SupersedeKeeps ==
  ASSUME NEW list \in Seq(Revision), list # <<>>, NEW next \in Revision
  PROVE  /\ Supersede(list, next) \in Seq(Revision)
         /\ Len(list) \in Nat /\ Len(list) > 0
         /\ Len(Supersede(list, next)) = Len(list) + 1
         /\ \A i \in 1..Len(list) :
              /\ Supersede(list, next)[i] \in Revision /\ list[i] \in Revision
              /\ Supersede(list, next)[i].config = list[i].config
              /\ Supersede(list, next)[i].revision = list[i].revision
              /\ Supersede(list, next)[i].resolvedModelId = list[i].resolvedModelId
              /\ i # Len(list) => Supersede(list, next)[i] = list[i]
         /\ Supersede(list, next)[Len(list)].supersededAt = "date"
         /\ Supersede(list, next)[Len(list) + 1] = next
<1>1. /\ Len(list) \in Nat /\ Len(list) > 0 /\ DOMAIN list = 1..Len(list)
      /\ \A i \in 1..Len(list) : list[i] \in Revision
  BY EmptySeq, LenProperties, ElementOfSeq
<1>2. PICK newest \in Revision : newest = list[Len(list)]
  BY <1>1
<1>3. PICK old \in Revision :
        /\ old = [newest EXCEPT !.supersededAt = "date"] /\ old.supersededAt = "date"
        /\ old.config = newest.config /\ old.revision = newest.revision
        /\ old.resolvedModelId = newest.resolvedModelId
  <2>1. /\ [newest EXCEPT !.supersededAt = "date"] \in Revision
        /\ [newest EXCEPT !.supersededAt = "date"].supersededAt = "date"
        /\ [newest EXCEPT !.supersededAt = "date"].config = newest.config
        /\ [newest EXCEPT !.supersededAt = "date"].revision = newest.revision
        /\ [newest EXCEPT !.supersededAt = "date"].resolvedModelId = newest.resolvedModelId
    BY DEF Revision
  <2> QED
    BY <2>1, Zenon
<1>4. PICK marked : marked = [list EXCEPT ![Len(list)] = old]
  OBVIOUS
<1>5. Supersede(list, next) = Append(marked, next)
  BY <1>1, <1>2, <1>3, <1>4 DEF Supersede
<1>6. /\ marked \in Seq(Revision) /\ Len(marked) = Len(list)
      /\ marked[Len(list)] = old
      /\ \A i \in 1..Len(list) : i # Len(list) => marked[i] = list[i]
  <2>1. Len(list) \in 1..Len(list)
    BY <1>1
  <2>2. /\ marked \in Seq(Revision) /\ Len(marked) = Len(list)
        /\ \A i \in 1..Len(list) : marked[i] = IF i = Len(list) THEN old ELSE list[i]
    BY <1>4, <2>1, ExceptSeq
  <2> QED
    BY <2>1, <2>2
<1>7. PICK grown : grown = Supersede(list, next)
  OBVIOUS
<1>8. /\ grown \in Seq(Revision) /\ Len(grown) = Len(list) + 1
      /\ \A i \in 1..Len(list) : grown[i] = marked[i]
      /\ grown[Len(list) + 1] = next
  BY <1>5, <1>6, <1>7, AppendProperties
<1>9. \A i \in 1..Len(list) :
        /\ grown[i] \in Revision
        /\ i # Len(list) => grown[i] = list[i]
        /\ i = Len(list) => grown[i] = old
  BY <1>1, <1>6, <1>8
<1>10. grown[Len(list)] = old
  <2>1. Len(list) \in 1..Len(list)
    BY <1>1
  <2> QED
    BY <1>9, <2>1
<1>11. \A i \in 1..Len(list) :
         /\ grown[i].config = list[i].config
         /\ grown[i].revision = list[i].revision
         /\ grown[i].resolvedModelId = list[i].resolvedModelId
  BY <1>1, <1>2, <1>3, <1>9
<1> QED
  BY <1>1, <1>3, <1>7, <1>8, <1>9, <1>10, <1>11

\* The revision an update creates, of a configuration that passed.
LEMMA NextIsRevision ==
  ASSUME NEW current \in Revision, current.revision < MaxRevisions, NEW patch,
         NEW source \in {"operator", "probed", None},
         Merged(current.config, patch) \in Configurations, Validate(Merged(current.config, patch))
  PROVE  /\ NextRevision(current, patch, source) \in Revision
         /\ NextRevision(current, patch, source).revision = current.revision + 1
         /\ NextRevision(current, patch, source).supersededAt = "undefined"
<1>1. PICK merged : merged = Merged(current.config, patch)
  OBVIOUS
<1>2. PICK given : given = Or(source, current.source)
  OBVIOUS
<1>3. given \in {"unknown", "operator", "probed"}
  BY <1>2 DEF Or, Revision
<1>m. MaxRevisions \in Nat
  BY RegistryAssumption
<1>4. NextRevision(current, patch, source) =
        [current EXCEPT !.config = merged, !.revision = current.revision + 1,
                        !.source = given, !.supersededAt = "undefined"]
  BY <1>1, <1>2 DEF NextRevision
<1>5. merged \in {c \in Configurations : Validate(c)}
  BY <1>1
<1>6. current.revision + 1 \in 1..MaxRevisions
  <2>1. current.revision \in 1..MaxRevisions
    BY DEF Revision
  <2> QED
    BY <1>m, <2>1
<1> HIDE DEF Revision
<1>7. PICK valid : valid = {c \in Configurations : Validate(c)}
  OBVIOUS
<1>8. PICK numbers : numbers = 1..MaxRevisions
  OBVIOUS
<1>9. PICK reported : reported = Reports \union {None}
  OBVIOUS
<1>10. Revision = [config: valid, revision: numbers, resolvedModelId: reported,
                   source: {"unknown", "operator", "probed"},
                   supersededAt: {"undefined", "date"}]
  BY <1>7, <1>8, <1>9 DEF Revision
<1> QED
  BY <1>3, <1>4, <1>5, <1>6, <1>7, <1>8, <1>10

\* A patch keeps what it leaves out, which was of the right kind.
LEMMA MergedIsConfiguration ==
  ASSUME NEW current \in Configurations
  PROVE  /\ \A patch \in Patches : Merged(current, patch) \in Configurations
         /\ Validate(current) => /\ Merged(current, NoPatch) \in Configurations
                                 /\ Validate(Merged(current, NoPatch))
<1> USE RegistryAssumption
<1>1. \A patch \in Patches : Merged(current, patch) \in Configurations
  BY DEF Merged, Or, Patches, Configurations
<1>2. NoPatch \in Patches
  BY DEF NoPatch, Patches
<1>3. /\ Merged(current, NoPatch).deploymentType = current.deploymentType
      /\ Merged(current, NoPatch).modelIdentifier = current.modelIdentifier
      /\ Merged(current, NoPatch).baseUrl = current.baseUrl
  BY DEF Merged, Or, NoPatch, Configurations
<1>4. Validate(current) => Validate(Merged(current, NoPatch))
  BY <1>3 DEF Validate
<1> QED
  BY <1>1, <1>2, <1>4

-----------------------------------------------------------------------------

Alike(r, s) == r.config = s.config /\ r.resolvedModelId = s.resolvedModelId

\* What a step leaves of the revisions of one model.
Kept(t, m) ==
  /\ Len(revisions'[t][m]) >= Len(revisions[t][m])
  /\ \A i \in 1..Len(revisions[t][m]) :
       /\ i # Len(revisions[t][m]) => revisions'[t][m][i] = revisions[t][m][i]
       /\ <<t, m>> \notin overwritten' /\ ~Resolving(t, m, i) =>
            Alike(revisions'[t][m][i], revisions[t][m][i])

RegistryStep ==
  /\ RegistryIInv'
  /\ overwritten \subseteq overwritten'
  /\ \A t \in Tenants, m \in ModelIds : Kept(t, m)

\* An update on a model that has revisions.
LEMMA RevisionAdded ==
  ASSUME NEW list, ListInv(list), list # <<>>, Len(list) < MaxRevisions,
         NEW patch, NEW source \in {"operator", "probed", None},
         Merged(Newest(list).config, patch) \in Configurations,
         Validate(Merged(Newest(list).config, patch)),
         NEW next, next = NextRevision(Newest(list), patch, source),
         NEW new, new = Supersede(list, next)
  PROVE  /\ next \in Revision /\ next.supersededAt = "undefined"
         /\ next.revision <= Len(new) /\ Len(list) \in Nat /\ Len(new) = Len(list) + 1
         /\ ListInv(new) /\ new # <<>>
         /\ Numbered(list) => Numbered(new)
         /\ \A i \in 1..Len(list) : /\ i # Len(list) => new[i] = list[i]
                                    /\ Alike(new[i], list[i])
<1>1. /\ list \in Seq(Revision) /\ Len(list) \in Nat /\ Len(list) > 0
  BY EmptySeq DEF ListInv
<1>2. PICK current : current = list[Len(list)]
  OBVIOUS
<1>3. Len(list) \in 1..Len(list)
  BY <1>1
<1>4. current \in Revision /\ Newest(list) = current /\ current.revision <= Len(list)
  BY <1>1, <1>2, <1>3, ElementOfSeq DEF Newest, ListInv
<1>5. current.revision \in Nat
  BY <1>4 DEF Revision
<1>6. current.revision < MaxRevisions
  <2>1. MaxRevisions \in Nat
    BY RegistryAssumption
  <2> QED
    BY <1>1, <1>4, <1>5, <2>1
<1>7. /\ next \in Revision /\ next.revision = current.revision + 1
      /\ next.supersededAt = "undefined"
  BY <1>4, <1>6, NextIsRevision
<1>8. /\ new \in Seq(Revision) /\ Len(new) = Len(list) + 1
      /\ \A i \in 1..Len(list) :
           /\ new[i] \in Revision /\ list[i] \in Revision
           /\ new[i].config = list[i].config /\ new[i].revision = list[i].revision
           /\ new[i].resolvedModelId = list[i].resolvedModelId
           /\ i # Len(list) => new[i] = list[i]
      /\ new[Len(list)].supersededAt = "date" /\ new[Len(list) + 1] = next
  BY <1>1, <1>7, SupersedeKeeps, ZenonT(60)
<1>9. ListInv(new)
  <2>1. ASSUME NEW i \in 1..Len(new)
        PROVE  (new[i].supersededAt = "date" <=> i # Len(new)) /\ new[i].revision <= i
    <3>1. CASE i = Len(list) + 1
      BY <1>1, <1>4, <1>5, <1>7, <1>8, <3>1
    <3>2. CASE i \in 1..Len(list)
      BY <1>1, <1>8, <3>2 DEF ListInv
    <3> QED
      BY <1>1, <1>8, <3>1, <3>2
  <2> QED
    BY <1>8, <2>1 DEF ListInv
<1>10. ASSUME Numbered(list) PROVE Numbered(new)
  <2>1. current.revision = Len(list)
    BY <1>2, <1>3, <1>10 DEF Numbered
  <2>2. ASSUME NEW i \in 1..Len(new) PROVE new[i].revision = i
    <3>1. CASE i = Len(list) + 1
      BY <1>7, <1>8, <2>1, <3>1
    <3>2. CASE i \in 1..Len(list)
      BY <1>8, <1>10, <3>2 DEF Numbered
    <3> QED
      BY <1>1, <1>8, <3>1, <3>2
  <2> QED
    BY <2>2 DEF Numbered
<1>11. new # <<>>
  BY <1>1, <1>8, EmptySeq
<1>12. next.revision <= Len(new)
  BY <1>1, <1>4, <1>5, <1>7, <1>8
<1> QED
  BY <1>1, <1>7, <1>8, <1>9, <1>10, <1>11, <1>12 DEF Alike

Replaced(list, revision) == [list EXCEPT ![Len(list)] = revision]

\* A probe's revision goes over the last one, whose number it has unless another came
\* after the probe's own.
LEMMA RevisionReplaced ==
  ASSUME NEW list, ListInv(list), list # <<>>,
         NEW revision \in Revision, revision.supersededAt = "undefined",
         revision.revision <= Len(list),
         NEW new, new = Replaced(list, revision)
  PROVE  /\ Len(list) \in Nat /\ Len(list) > 0 /\ Len(new) = Len(list)
         /\ ListInv(new) /\ new # <<>>
         /\ Numbered(list) /\ revision.revision = list[Len(list)].revision => Numbered(new)
         /\ \A i \in 1..Len(list) : i # Len(list) => new[i] = list[i]
<1>1. /\ list \in Seq(Revision) /\ Len(list) \in Nat /\ Len(list) > 0
  BY EmptySeq DEF ListInv
<1>2. Len(list) \in 1..Len(list)
  BY <1>1
<1>3. /\ new \in Seq(Revision) /\ Len(new) = Len(list)
      /\ \A i \in 1..Len(list) : new[i] = IF i = Len(list) THEN revision ELSE list[i]
  BY <1>1, <1>2, ExceptSeq DEF Replaced
<1>4. ListInv(new)
  BY <1>1, <1>3 DEF ListInv
<1>5. Numbered(list) /\ revision.revision = list[Len(list)].revision => Numbered(new)
  BY <1>1, <1>2, <1>3 DEF Numbered
<1>6. new # <<>>
  BY <1>1, <1>3, EmptySeq
<1> QED
  BY <1>1, <1>3, <1>4, <1>5, <1>6

\* A step on the revisions of one model that keeps them in order.
Succeeds(t, m, new) ==
  /\ revisions' = [revisions EXCEPT ![t][m] = new]
  /\ overwritten \subseteq overwritten'
  /\ ListInv(new) /\ (<<t, m>> \notin overwritten' => Numbered(new))
  /\ Len(new) >= Len(revisions[t][m])
  /\ \A i \in 1..Len(revisions[t][m]) :
       /\ i # Len(revisions[t][m]) => new[i] = revisions[t][m][i]
       /\ <<t, m>> \notin overwritten' /\ ~Resolving(t, m, i) =>
            Alike(new[i], revisions[t][m][i])

\* Such a step leaves the revisions of every other model.
LEMMA OneModelChanges ==
  ASSUME RegistryIInv, NEW t \in Tenants, NEW m \in ModelIds, NEW new, Succeeds(t, m, new)
  PROVE  /\ Keyed' /\ revisions'[t][m] = new
         /\ \A u \in Tenants, n \in ModelIds :
              /\ ListInv(revisions'[u][n])
              /\ <<u, n>> \notin overwritten' => Numbered(revisions'[u][n])
              /\ Kept(u, n)
              /\ u # t \/ n # m => revisions'[u][n] = revisions[u][n]
<1>1. /\ Keyed' /\ revisions'[t][m] = new
      /\ \A u \in Tenants, n \in ModelIds :
           u # t \/ n # m => revisions'[u][n] = revisions[u][n]
  <2>1. Keyed
    BY DEF RegistryIInv
  <2> QED
    BY <2>1 DEF Keyed, Succeeds
<1>2. Kept(t, m)
  BY <1>1 DEF Kept, Succeeds
<1>3. ASSUME NEW u \in Tenants, NEW n \in ModelIds, u # t \/ n # m
      PROVE  /\ ListInv(revisions'[u][n]) /\ Kept(u, n)
             /\ <<u, n>> \notin overwritten' => Numbered(revisions'[u][n])
  <2>1. PICK list : list = revisions[u][n]
    OBVIOUS
  <2>2. ListInv(list) /\ (<<u, n>> \notin overwritten => Numbered(list))
    BY <2>1 DEF RegistryIInv
  <2>3. Len(list) \in Nat
    BY <2>2, LenProperties DEF ListInv
  <2>4. revisions'[u][n] = list
    BY <1>1, <1>3, <2>1
  <2>5. overwritten \subseteq overwritten'
    BY DEF Succeeds
  <2> QED
    BY <2>1, <2>2, <2>3, <2>4, <2>5 DEF Kept, Alike
<1> QED
  BY <1>1, <1>2, <1>3 DEF Succeeds

\* The configuration of the current revision is one that passed.
LEMMA NewestIsValid ==
  ASSUME NEW list, ListInv(list), list # <<>>
  PROVE  Newest(list).config \in Configurations /\ Validate(Newest(list).config)
<1>1. /\ list \in Seq(Revision) /\ Len(list) \in Nat /\ Len(list) > 0
  BY EmptySeq DEF ListInv
<1>2. Newest(list) \in Revision
  BY <1>1, ElementOfSeq DEF Newest
<1>3. PICK valid : valid = {c \in Configurations : Validate(c)}
  OBVIOUS
<1>4. Newest(list).config \in valid
  BY <1>2, <1>3 DEF Revision
<1> QED
  BY <1>3, <1>4

\* Revisions are numbered.
LEMMA RevisionNumbers == \A r \in Revision : r.revision \in Nat
BY DEF Revision

\* register gives a model its first revision.
LEMMA RegisterStep ==
  ASSUME RegistryIInv, NEW t \in Tenants, NEW m \in ModelIds,
         NEW config \in Configurations, NEW source \in {"unknown", "operator"},
         Register(t, m, config, source)
  PROVE  RegistryStep
<1>1. PICK first : first = [config |-> config, revision |-> 1, resolvedModelId |-> None,
                            source |-> source, supersededAt |-> "undefined"]
  OBVIOUS
<1>2. PICK new : new = <<first>>
  OBVIOUS
<1>3. /\ revisions[t][m] = <<>> /\ revisions' = [revisions EXCEPT ![t][m] = new]
      /\ UNCHANGED <<probes, overwritten>>
  BY <1>1, <1>2 DEF Register
<1>4. first \in Revision /\ first.revision = 1 /\ first.supersededAt = "undefined"
  <2>1. PICK valid : valid = {c \in Configurations : Validate(c)}
    OBVIOUS
  <2>2. config \in valid
    BY <2>1 DEF Register
  <2>3. MaxRevisions \in Nat \ {0}
    BY RegistryAssumption
  <2>4. 1 \in 1..MaxRevisions
    BY <2>3
  <2> QED
    BY <1>1, <2>1, <2>2, <2>4 DEF Revision
<1>5. new \in Seq(Revision) /\ Len(new) = 1 /\ new[1] = first
  BY <1>2, <1>4
<1>6. ListInv(new) /\ Numbered(new)
  BY <1>4, <1>5 DEF ListInv, Numbered
<1>7. /\ Keyed' /\ revisions'[t][m] = new
      /\ \A u \in Tenants, n \in ModelIds :
           /\ ListInv(revisions'[u][n])
           /\ <<u, n>> \notin overwritten' => Numbered(revisions'[u][n])
           /\ Kept(u, n)
           /\ u # t \/ n # m => revisions'[u][n] = revisions[u][n]
  <2>1. Len(revisions[t][m]) = 0
    BY <1>3, EmptySeq
  <2>2. Len(new) >= Len(revisions[t][m]) /\ 1..Len(revisions[t][m]) = {}
    BY <1>5, <2>1
  <2>3. Succeeds(t, m, new)
    BY <1>3, <1>6, <2>2 DEF Succeeds
  <2> QED
    BY <2>3, OneModelChanges
<1>8. ASSUME NEW p \in Probes PROVE ProbeInv(p)'
  <2>1. ProbeInv(p)
    BY DEF RegistryIInv
  <2> QED
    BY <1>3, <1>7, <2>1 DEF ProbeInv
<1> QED
  BY <1>3, <1>7, <1>8 DEF RegistryStep, RegistryIInv

\* update adds a revision after the last.
LEMMA UpdateStep ==
  ASSUME RegistryIInv, NEW t \in Tenants, NEW m \in ModelIds,
         NEW patch \in Patches, NEW source \in {"operator", None},
         Update(t, m, patch, source)
  PROVE  RegistryStep
<1>1. PICK list, next, new :
        /\ list = revisions[t][m] /\ next = NextRevision(Newest(list), patch, source)
        /\ new = Supersede(list, next)
  OBVIOUS
<1>2. /\ list # <<>> /\ Len(list) < MaxRevisions
      /\ Validate(Merged(Newest(list).config, patch))
      /\ revisions' = [revisions EXCEPT ![t][m] = new]
      /\ UNCHANGED <<probes, overwritten>>
  BY <1>1 DEF Update
<1>3. ListInv(list) /\ (<<t, m>> \notin overwritten => Numbered(list))
  BY <1>1 DEF RegistryIInv
<1>4. Merged(Newest(list).config, patch) \in Configurations
  BY <1>2, <1>3, NewestIsValid, MergedIsConfiguration
<1>5. /\ Len(list) \in Nat /\ Len(new) = Len(list) + 1
      /\ ListInv(new) /\ new # <<>> /\ (Numbered(list) => Numbered(new))
      /\ \A i \in 1..Len(list) : /\ i # Len(list) => new[i] = list[i]
                                 /\ Alike(new[i], list[i])
  BY <1>1, <1>2, <1>3, <1>4, RevisionAdded
<1>6. /\ Keyed' /\ revisions'[t][m] = new
      /\ \A u \in Tenants, n \in ModelIds :
           /\ ListInv(revisions'[u][n])
           /\ <<u, n>> \notin overwritten' => Numbered(revisions'[u][n])
           /\ Kept(u, n)
           /\ u # t \/ n # m => revisions'[u][n] = revisions[u][n]
  <2>1. Len(new) >= Len(revisions[t][m])
    BY <1>1, <1>5
  <2>2. overwritten' = overwritten /\ (<<t, m>> \notin overwritten' => Numbered(new))
    BY <1>2, <1>3, <1>5
  <2>3. \A i \in 1..Len(revisions[t][m]) :
          /\ i # Len(revisions[t][m]) => new[i] = revisions[t][m][i]
          /\ Alike(new[i], revisions[t][m][i])
    BY <1>1, <1>5
  <2>4. ListInv(new) /\ revisions' = [revisions EXCEPT ![t][m] = new]
    BY <1>2, <1>5
  <2>5. Succeeds(t, m, new)
    BY <2>1, <2>2, <2>3, <2>4 DEF Succeeds
  <2> QED
    BY <2>5, OneModelChanges
<1>7. ASSUME NEW p \in Probes PROVE ProbeInv(p)'
  <2>1. ProbeInv(p)
    BY DEF RegistryIInv
  <2> QED
    BY <1>1, <1>2, <1>5, <1>6, <2>1, RevisionNumbers DEF ProbeInv
<1> QED
  BY <1>2, <1>6, <1>7 DEF RegistryStep, RegistryIInv

\* recordProbe reads the current revision.
LEMMA ProbeReadStep ==
  ASSUME RegistryIInv, NEW p \in Probes, NEW t \in Tenants, NEW m \in ModelIds,
         ProbeRead(p, t, m)
  PROVE  RegistryStep
<1>1. UNCHANGED <<revisions, overwritten>>
  BY DEF ProbeRead
<1>2. /\ DOMAIN probes' = Probes
      /\ \A q \in Probes : q # p => probes'[q] = probes[q]
  BY DEF ProbeRead, RegistryIInv
<1>3. \/ probes'[p] = [at |-> "done"]
      \/ /\ revisions[t][m] # <<>>
         /\ probes'[p] = [at |-> "read", tenant |-> t, model |-> m,
                          alias |-> Newest(revisions[t][m]).config.modelIdentifier]
  BY DEF ProbeRead, RegistryIInv
<1>4. ASSUME revisions[t][m] # <<>>
      PROVE  Newest(revisions[t][m]).config.modelIdentifier \in Aliases
  <2>1. PICK config : config = Newest(revisions[t][m]).config
    OBVIOUS
  <2>2. config \in Configurations /\ Validate(config)
    BY <1>4, <2>1, NewestIsValid DEF RegistryIInv
  <2> QED
    BY <2>1, <2>2 DEF Validate, Configurations
<1>5. ProbeInv(p)'
  BY <1>1, <1>3, <1>4 DEF ProbeInv
<1>6. ASSUME NEW q \in Probes, q # p PROVE ProbeInv(q)'
  <2>1. ProbeInv(q)
    BY DEF RegistryIInv
  <2> QED
    BY <1>1, <1>2, <1>6, <2>1 DEF ProbeInv
<1>7. ASSUME NEW u \in Tenants, NEW n \in ModelIds PROVE Kept(u, n)
  BY <1>1, LenProperties DEF Kept, Alike, RegistryIInv, ListInv
<1> QED
  BY <1>1, <1>2, <1>5, <1>6, <1>7 DEF RegistryStep, RegistryIInv, Keyed

\* A probe ends without a resolved id.
LEMMA ProbeUnresolvedStep ==
  ASSUME RegistryIInv, NEW p \in Probes, ProbeUnresolved(p)
  PROVE  RegistryStep
<1>1. UNCHANGED <<revisions, overwritten>>
  BY DEF ProbeUnresolved
<1>2. /\ DOMAIN probes' = Probes /\ probes'[p] = [at |-> "done"]
      /\ \A q \in Probes : q # p => probes'[q] = probes[q]
  BY DEF ProbeUnresolved, RegistryIInv
<1>3. ASSUME NEW q \in Probes PROVE ProbeInv(q)'
  <2>1. ProbeInv(q)
    BY DEF RegistryIInv
  <2> QED
    BY <1>1, <1>2, <2>1 DEF ProbeInv
<1>4. ASSUME NEW u \in Tenants, NEW n \in ModelIds PROVE Kept(u, n)
  BY <1>1, LenProperties DEF Kept, Alike, RegistryIInv, ListInv
<1> QED
  BY <1>1, <1>2, <1>3, <1>4 DEF RegistryStep, RegistryIInv, Keyed

\* A probe that takes no step finds the model it read still there.
LEMMA ProbeLeft ==
  ASSUME NEW q \in Probes, ProbeInv(q), probes'[q] = probes[q],
         \A u \in Tenants, n \in ModelIds :
           Kept(u, n) /\ ListInv(revisions[u][n]) /\ ListInv(revisions'[u][n])
  PROVE  ProbeInv(q)'
<1>1. ASSUME NEW u \in Tenants, NEW n \in ModelIds
      PROVE  /\ Len(revisions[u][n]) \in Nat /\ Len(revisions'[u][n]) \in Nat
             /\ Len(revisions'[u][n]) >= Len(revisions[u][n])
             /\ revisions[u][n] # <<>> => revisions'[u][n] # <<>>
  <2>1. /\ revisions[u][n] \in Seq(Revision) /\ revisions'[u][n] \in Seq(Revision)
        /\ Len(revisions'[u][n]) >= Len(revisions[u][n])
    BY DEF Kept, ListInv
  <2> QED
    BY <2>1, EmptySeq, LenProperties
<1>2. probes[q].at = "updated" => probes[q].updated.revision \in Nat
  BY RevisionNumbers DEF ProbeInv
<1>3. CASE probes[q].at \in {"read", "updated"}
  <2>1. PICK u \in Tenants, n \in ModelIds : probes[q].tenant = u /\ probes[q].model = n
    BY <1>3 DEF ProbeInv
  <2>2. /\ Len(revisions[u][n]) \in Nat /\ Len(revisions'[u][n]) \in Nat
        /\ Len(revisions'[u][n]) >= Len(revisions[u][n])
        /\ revisions'[u][n] # <<>>
    BY <1>1, <1>3, <2>1 DEF ProbeInv
  <2>3. probes[q].at = "updated" => probes[q].updated.revision <= Len(revisions'[u][n])
    BY <1>2, <2>1, <2>2 DEF ProbeInv
  <2> QED
    BY <2>1, <2>2, <2>3 DEF ProbeInv
<1>4. CASE probes[q].at \notin {"read", "updated"}
  BY <1>4 DEF ProbeInv
<1> QED
  BY <1>3, <1>4

\* The update of a probe adds a revision, which the probe keeps.
LEMMA ProbeUpdateStep ==
  ASSUME RegistryIInv, NEW p \in Probes, ProbeUpdate(p)
  PROVE  RegistryStep
<1>1. ProbeInv(p) /\ probes[p].at = "read"
  BY DEF RegistryIInv, ProbeUpdate
<1>2. PICK t \in Tenants, m \in ModelIds : probes[p].tenant = t /\ probes[p].model = m
  BY <1>1 DEF ProbeInv
<1>3. PICK list, next, new :
        /\ list = revisions[t][m] /\ next = NextRevision(Newest(list), NoPatch, "probed")
        /\ new = Supersede(list, next)
  OBVIOUS
<1>4. /\ Len(list) < MaxRevisions
      /\ revisions' = [revisions EXCEPT ![t][m] = new]
      /\ probes' = [probes EXCEPT ![p] =
           [at |-> "updated", tenant |-> t, model |-> m,
            alias |-> probes[p].alias, updated |-> next]]
      /\ overwritten' = overwritten
  BY <1>2, <1>3 DEF ProbeUpdate
<1>5. list # <<>> /\ ListInv(list) /\ (<<t, m>> \notin overwritten => Numbered(list))
  BY <1>1, <1>2, <1>3 DEF ProbeInv, RegistryIInv
<1>6. /\ Merged(Newest(list).config, NoPatch) \in Configurations
      /\ Validate(Merged(Newest(list).config, NoPatch))
  BY <1>5, NewestIsValid, MergedIsConfiguration
<1>7. /\ next \in Revision /\ next.supersededAt = "undefined"
      /\ next.revision <= Len(new) /\ Len(list) \in Nat /\ Len(new) = Len(list) + 1
      /\ ListInv(new) /\ new # <<>> /\ (Numbered(list) => Numbered(new))
      /\ \A i \in 1..Len(list) : /\ i # Len(list) => new[i] = list[i]
                                 /\ Alike(new[i], list[i])
  BY <1>3, <1>4, <1>5, <1>6, RevisionAdded
<1>8. /\ Keyed' /\ revisions'[t][m] = new
      /\ \A u \in Tenants, n \in ModelIds :
           /\ ListInv(revisions'[u][n])
           /\ <<u, n>> \notin overwritten' => Numbered(revisions'[u][n])
           /\ Kept(u, n)
           /\ u # t \/ n # m => revisions'[u][n] = revisions[u][n]
  <2>1. Len(new) >= Len(revisions[t][m])
    BY <1>3, <1>7
  <2>2. overwritten' = overwritten /\ (<<t, m>> \notin overwritten' => Numbered(new))
    BY <1>4, <1>5, <1>7
  <2>3. \A i \in 1..Len(revisions[t][m]) :
          /\ i # Len(revisions[t][m]) => new[i] = revisions[t][m][i]
          /\ Alike(new[i], revisions[t][m][i])
    BY <1>3, <1>7
  <2>4. ListInv(new) /\ revisions' = [revisions EXCEPT ![t][m] = new]
    BY <1>4, <1>7
  <2>5. Succeeds(t, m, new)
    BY <2>1, <2>2, <2>3, <2>4 DEF Succeeds
  <2> QED
    BY <2>5, OneModelChanges
<1>9. /\ DOMAIN probes' = Probes
      /\ probes'[p] = [at |-> "updated", tenant |-> t, model |-> m,
                       alias |-> probes[p].alias, updated |-> next]
      /\ \A q \in Probes : q # p => probes'[q] = probes[q]
  BY <1>4 DEF RegistryIInv
<1>10. ProbeInv(p)'
  <2>1. probes[p].alias \in Aliases
    BY <1>1 DEF ProbeInv
  <2> QED
    BY <1>7, <1>8, <1>9, <2>1 DEF ProbeInv
<1>11. ASSUME NEW q \in Probes, q # p PROVE ProbeInv(q)'
  <2>1. ProbeInv(q) /\ probes'[q] = probes[q]
    BY <1>9, <1>11 DEF RegistryIInv
  <2>2. \A u \in Tenants, n \in ModelIds :
          Kept(u, n) /\ ListInv(revisions[u][n]) /\ ListInv(revisions'[u][n])
    BY <1>8 DEF RegistryIInv
  <2> QED
    BY <2>1, <2>2, ProbeLeft
<1> QED
  BY <1>4, <1>8, <1>9, <1>10, <1>11 DEF RegistryStep, RegistryIInv

\* A probe puts the revision it made, resolved, over the last one.
LEMMA ProbeResolveStep ==
  ASSUME RegistryIInv, NEW p \in Probes, NEW version \in Versions, ProbeResolve(p, version)
  PROVE  RegistryStep
<1>1. ProbeInv(p) /\ probes[p].at = "updated"
  BY DEF RegistryIInv, ProbeResolve
<1>2. PICK t \in Tenants, m \in ModelIds : probes[p].tenant = t /\ probes[p].model = m
  BY <1>1 DEF ProbeInv
<1>3. PICK list, updated : list = revisions[t][m] /\ updated = probes[p].updated
  OBVIOUS
<1>4. PICK resolved : resolved = [updated EXCEPT !.resolvedModelId =
                                   [alias |-> probes[p].alias, version |-> version]]
  OBVIOUS
<1>5. PICK new : new = [list EXCEPT ![Len(list)] = resolved]
  OBVIOUS
<1>6. /\ revisions' = [revisions EXCEPT ![t][m] = new]
      /\ overwritten' = IF list[Len(list)] = updated THEN overwritten
                        ELSE overwritten \union {<<t, m>>}
      /\ probes' = [probes EXCEPT ![p] = [at |-> "done"]]
  BY <1>2, <1>3, <1>4, <1>5 DEF ProbeResolve, Slot
<1>7. /\ list # <<>> /\ ListInv(list) /\ (<<t, m>> \notin overwritten => Numbered(list))
      /\ updated \in Revision /\ updated.supersededAt = "undefined"
      /\ updated.revision <= Len(list)
  BY <1>1, <1>2, <1>3 DEF ProbeInv, RegistryIInv
<1>8. /\ resolved \in Revision /\ resolved.supersededAt = "undefined"
      /\ resolved.revision = updated.revision
  <2>1. [alias |-> probes[p].alias, version |-> version] \in Reports
    BY <1>1 DEF ProbeInv, Reports
  <2>2. PICK report \in Reports :
          report = [alias |-> probes[p].alias, version |-> version]
    BY <2>1
  <2>3. resolved = [updated EXCEPT !.resolvedModelId = report]
    BY <1>4, <2>2
  <2> QED
    BY <1>7, <2>3 DEF Revision
<1>9. /\ Len(list) \in Nat /\ Len(list) > 0 /\ Len(new) = Len(list)
      /\ ListInv(new) /\ new # <<>>
      /\ Numbered(list) /\ resolved.revision = list[Len(list)].revision => Numbered(new)
      /\ \A i \in 1..Len(list) : i # Len(list) => new[i] = list[i]
  <2>1. resolved.revision <= Len(list)
    BY <1>7, <1>8
  <2>2. /\ ListInv(list) /\ list # <<>> /\ resolved \in Revision
        /\ resolved.supersededAt = "undefined" /\ resolved.revision <= Len(list)
        /\ new = Replaced(list, resolved)
    BY <1>5, <1>7, <1>8, <2>1 DEF Replaced
  <2> QED
    BY <2>2, RevisionReplaced
<1>10. ASSUME <<t, m>> \notin overwritten'
       PROVE  /\ <<t, m>> \notin overwritten /\ list[Len(list)] = updated
              /\ Numbered(list) /\ Resolving(t, m, Len(list))
  <2>1. <<t, m>> \notin overwritten /\ list[Len(list)] = updated
    BY <1>6, <1>10
  <2>2. Len(list) \in 1..Len(list)
    BY <1>9
  <2>3. updated.revision = Len(list) /\ Numbered(list)
    BY <1>7, <2>1, <2>2 DEF Numbered
  <2> QED
    BY <1>1, <1>2, <1>3, <2>1, <2>3 DEF Resolving
<1>11. Succeeds(t, m, new)
  <2>1. overwritten \subseteq overwritten'
    BY <1>6
  <2>2. <<t, m>> \notin overwritten' => Numbered(new)
    BY <1>8, <1>9, <1>10
  <2>3. Len(new) >= Len(list)
    BY <1>9
  <2>4. ASSUME NEW i \in 1..Len(list)
        PROVE  /\ i # Len(list) => new[i] = list[i]
               /\ <<t, m>> \notin overwritten' /\ ~Resolving(t, m, i) => Alike(new[i], list[i])
    <3>1. CASE i = Len(list)
      BY <1>10, <3>1
    <3>2. CASE i # Len(list)
      BY <1>9, <3>2 DEF Alike
    <3> QED
      BY <3>1, <3>2
  <2> QED
    BY <1>3, <1>6, <1>9, <2>1, <2>2, <2>3, <2>4 DEF Succeeds
<1>12. /\ Keyed'
       /\ \A u \in Tenants, n \in ModelIds :
            /\ ListInv(revisions[u][n]) /\ ListInv(revisions'[u][n])
            /\ <<u, n>> \notin overwritten' => Numbered(revisions'[u][n])
            /\ Kept(u, n)
  BY <1>11, OneModelChanges DEF RegistryIInv
<1>13. /\ DOMAIN probes' = Probes /\ probes'[p] = [at |-> "done"]
       /\ \A q \in Probes : q # p => probes'[q] = probes[q]
  BY <1>6 DEF RegistryIInv
<1>14. ASSUME NEW q \in Probes PROVE ProbeInv(q)'
  <2>1. CASE q = p
    BY <1>13, <2>1 DEF ProbeInv
  <2>2. CASE q # p
    <3>1. ProbeInv(q) /\ probes'[q] = probes[q]
      BY <1>13, <2>2 DEF RegistryIInv
    <3> QED
      BY <1>12, <3>1, ProbeLeft
  <2> QED
    BY <2>1, <2>2
<1> QED
  BY <1>11, <1>12, <1>13, <1>14 DEF RegistryStep, RegistryIInv, Succeeds

\* Every step keeps the invariant and what the revisions of each model were.
LEMMA RegistryKeeps == RegistryIInv /\ [RegistryNext]_registryVars => RegistryStep
<1> SUFFICES ASSUME RegistryIInv, [RegistryNext]_registryVars PROVE RegistryStep
  OBVIOUS
<1>1. CASE UNCHANGED registryVars
  <2>1. UNCHANGED <<revisions, probes, overwritten>>
    BY <1>1 DEF registryVars
  <2>2. ASSUME NEW u \in Tenants, NEW n \in ModelIds PROVE Kept(u, n)
    BY <2>1, LenProperties DEF Kept, Alike, RegistryIInv, ListInv
  <2>3. RegistryIInv'
    BY <2>1 DEF RegistryIInv, Keyed, ProbeInv
  <2> QED
    BY <2>1, <2>2, <2>3 DEF RegistryStep
<1> QED
  BY <1>1, RegisterStep, UpdateStep, ProbeReadStep, ProbeUpdateStep, ProbeResolveStep,
     ProbeUnresolvedStep
  DEF RegistryNext

\* Revisions numbered without a gap are found by their number.
LEMMA FoundByNumber ==
  ASSUME NEW list, ListInv(list), Numbered(list), NEW n \in 1..Len(list)
  PROVE  GetRevision(list, n) = list[n] /\ list[n] # None
<1>1. DOMAIN list = 1..Len(list) /\ list[n] \in Revision
  BY LenProperties, ElementOfSeq DEF ListInv
<1>2. {i \in DOMAIN list : list[i].revision = n} = {n}
  BY <1>1 DEF Numbered
<1>3. (CHOOSE i \in {n} : \A j \in {n} : i <= j) = n
  OBVIOUS
<1> QED
  BY <1>1, <1>2, <1>3, NoneIsNoRevision DEF GetRevision

\* However updates and probes of models/registry.ts interleave, every revision is of a valid
\* configuration, the last alone is current, and they are numbered without a gap unless one
\* probe replaced the revision of another: RegistryInv, for any number of models and probes.
THEOREM RegistryHolds == RegistrySpec => []RegistryInv
<1>1. RegistryStep => RegistryIInv'
  BY DEF RegistryStep
<1> QED
  BY <1>1, RegistryInitially, RegistryKeeps, RegistryInvParts, PTL DEF RegistrySpec

\* A revision that was superseded never changes, and the one a stored result names keeps its
\* fingerprint once its probe returned, unless another probe replaced it: RevisionsPinned, for
\* any number of models, revisions and probes.
THEOREM ResultsPinned == RegistrySpec => RevisionsPinned
<1>1. RegistryIInv /\ RegistryStep =>
        \A t \in Tenants, m \in ModelIds :
          LET list == revisions[t][m]
          IN  /\ Len(revisions'[t][m]) >= Len(list)
              /\ \A i \in 1..Len(list) :
                   list[i].supersededAt = "date" => revisions'[t][m][i] = list[i]
              /\ <<t, m>> \notin overwritten' =>
                   \A n \in 1..Len(list) : ~Resolving(t, m, n) =>
                     /\ GetRevision(revisions'[t][m], n) # None
                     /\ ModelFingerprint(GetRevision(revisions'[t][m], n))
                          = ModelFingerprint(GetRevision(list, n))
  <2> SUFFICES ASSUME RegistryIInv, RegistryStep, NEW t \in Tenants, NEW m \in ModelIds,
                      NEW list, list = revisions[t][m], NEW new, new = revisions'[t][m]
               PROVE  /\ Len(new) >= Len(list)
                      /\ \A i \in 1..Len(list) :
                           list[i].supersededAt = "date" => new[i] = list[i]
                      /\ <<t, m>> \notin overwritten' =>
                           \A n \in 1..Len(list) : ~Resolving(t, m, n) =>
                             /\ GetRevision(new, n) # None
                             /\ ModelFingerprint(GetRevision(new, n))
                                  = ModelFingerprint(GetRevision(list, n))
    OBVIOUS
  <2>1. /\ ListInv(list) /\ ListInv(new)
        /\ <<t, m>> \notin overwritten => Numbered(list)
        /\ <<t, m>> \notin overwritten' => Numbered(new)
    BY DEF RegistryIInv, RegistryStep
  <2>2. /\ Len(new) >= Len(list) /\ overwritten \subseteq overwritten'
        /\ \A i \in 1..Len(list) :
             /\ i # Len(list) => new[i] = list[i]
             /\ <<t, m>> \notin overwritten' /\ ~Resolving(t, m, i) => Alike(new[i], list[i])
    BY DEF RegistryStep, Kept
  <2>3. \A i \in 1..Len(list) : list[i].supersededAt = "date" => new[i] = list[i]
    BY <2>1, <2>2 DEF ListInv
  <2>4. ASSUME <<t, m>> \notin overwritten', NEW n \in 1..Len(list), ~Resolving(t, m, n)
        PROVE  /\ GetRevision(new, n) # None
               /\ ModelFingerprint(GetRevision(new, n))
                    = ModelFingerprint(GetRevision(list, n))
    <3>1. n \in 1..Len(new)
      <4>1. Len(list) \in Nat /\ Len(new) \in Nat
        BY <2>1, LenProperties DEF ListInv
      <4> QED
        BY <2>2, <4>1
    <3>2. GetRevision(list, n) = list[n] /\ GetRevision(new, n) = new[n] /\ new[n] # None
      BY <2>1, <2>2, <2>4, <3>1, FoundByNumber
    <3>3. Alike(new[n], list[n])
      BY <2>2, <2>4
    <3> QED
      BY <3>2, <3>3 DEF Alike, ModelFingerprint
  <2> QED
    BY <2>2, <2>3, <2>4
<1>2. RegistryStep => RegistryIInv'
  BY DEF RegistryStep
<1> QED
  BY <1>1, <1>2, RegistryInitially, RegistryKeeps, PTL DEF RegistrySpec, RevisionsPinned

-----------------------------------------------------------------------------
(* The trial store *)

LEMMA NoTrialFacts ==
  /\ NoTrial.status = "absent" /\ NoTrial.tenant = None /\ NoTrial.steps = <<>>
  /\ NoTrial \in TrialRecord /\ Sound(NoTrial)
  BY DEF NoTrial, TrialRecord, Sound

\* A new trial, and the three records a call may write back.
LEMMA FreshSound ==
  ASSUME NEW tenant \in Tenants
  PROVE  /\ NewTrial(tenant) \in TrialRecord /\ Sound(NewTrial(tenant))
         /\ NewTrial(tenant).status = "running" /\ NewTrial(tenant).steps = <<>>
         /\ NewTrial(tenant).tenant = tenant
  <1>1. NewTrial(tenant) \in TrialRecord
    BY DEF NewTrial, TrialRecord, TrialStatus, Open
  <1>2. /\ NewTrial(tenant).status = "running" /\ NewTrial(tenant).steps = <<>>
        /\ NewTrial(tenant).tenant = tenant /\ NewTrial(tenant).pendingApprovalId = None
    BY DEF NewTrial
  <1> QED
    BY <1>1, <1>2, TenancyAssumption DEF Sound

LEMMA AppendedSound ==
  ASSUME NEW copy, Sound(copy), NEW step \in StepRecord, Appends(copy, step)
  PROVE  LET new == [copy EXCEPT !.steps = Append(copy.steps, step)]
         IN  /\ Sound(new) /\ new.tenant = copy.tenant
             /\ new.steps = Append(copy.steps, step)
  <1> DEFINE steps == Append(copy.steps, step)
             new == [copy EXCEPT !.steps = steps]
  <1>1. copy \in TrialRecord /\ copy.steps \in Seq(StepRecord)
    BY DEF Sound, TrialRecord
  <1>2. copy.status \in Open /\ step.step_id = Len(copy.steps) + 1
    BY DEF Appends, NextStep
  <1>3. /\ steps \in Seq(StepRecord) /\ Len(steps) = Len(copy.steps) + 1
        /\ \A i \in 1..Len(copy.steps) : steps[i] = copy.steps[i]
        /\ steps[Len(copy.steps) + 1] = step
    BY <1>1
  <1>4. \A i \in 1..Len(steps) : steps[i].step_id = i
    BY <1>1, <1>2, <1>3 DEF Sound
  <1> HIDE DEF steps
  <1>5. /\ new \in TrialRecord /\ new.steps = steps /\ new.status = copy.status
        /\ new.tenant = copy.tenant /\ new.pendingApprovalId = copy.pendingApprovalId
    BY <1>1, <1>3 DEF TrialRecord
  <1>6. copy.status # "absent" /\ copy.tenant # None
    BY <1>2, NoTrialFacts DEF Sound, Open
  <1> HIDE DEF new
  <1>7. Sound(new)
    BY <1>4, <1>5, <1>6 DEF Sound
  <1> QED
    BY <1>5, <1>7 DEF new, steps

LEMMA ConcludedSound ==
  ASSUME NEW copy, Sound(copy), copy # NoTrial, NEW outcome \in Outcomes
  PROVE  LET new == [copy EXCEPT !.status = StatusOf(outcome), !.outcome = outcome,
                                 !.pendingApprovalId = None]
         IN  Sound(new) /\ new.tenant = copy.tenant /\ new.steps = copy.steps
  <1> DEFINE status == StatusOf(outcome)
             new == [copy EXCEPT !.status = status, !.outcome = outcome,
                                 !.pendingApprovalId = None]
  <1>1. status \in TrialStatus
    BY DEF StatusOf, TrialStatus
  <1>2. copy \in TrialRecord /\ copy.tenant # None
    BY DEF Sound
  <1> HIDE DEF status
  <1>3. /\ new \in TrialRecord /\ new.steps = copy.steps /\ new.status = status
        /\ new.tenant = copy.tenant /\ new.pendingApprovalId = None
    BY <1>1, <1>2 DEF TrialRecord
  <1> HIDE DEF new
  <1>4. Sound(new)
    BY <1>1, <1>2, <1>3 DEF Sound, TrialStatus, Open
  <1> QED
    BY <1>3, <1>4 DEF new, status

LEMMA StatusSound ==
  ASSUME NEW copy, Sound(copy), copy # NoTrial,
         NEW status \in TrialStatus, NEW approval \in ApprovalIds \union {None}
  PROVE  LET new == [copy EXCEPT !.status = status,
                       !.pendingApprovalId =
                          IF status = "pending_approval" THEN approval ELSE None]
         IN  Sound(new) /\ new.tenant = copy.tenant /\ new.steps = copy.steps
  <1> DEFINE waiting == IF status = "pending_approval" THEN approval ELSE None
             new == [copy EXCEPT !.status = status, !.pendingApprovalId = waiting]
  <1>1. /\ waiting \in ApprovalIds \union {None}
        /\ waiting # None => status = "pending_approval"
    OBVIOUS
  <1>2. copy \in TrialRecord /\ copy.tenant # None
    BY DEF Sound
  <1> HIDE DEF waiting
  <1>3. /\ new \in TrialRecord /\ new.steps = copy.steps /\ new.status = status
        /\ new.tenant = copy.tenant /\ new.pendingApprovalId = waiting
    BY <1>1, <1>2 DEF TrialRecord
  <1> HIDE DEF new
  <1>4. Sound(new)
    BY <1>1, <1>2, <1>3 DEF Sound, TrialStatus, Open
  <1> QED
    BY <1>3, <1>4 DEF new, waiting

-----------------------------------------------------------------------------
(* What one step may do *)

\* A call writes back a sound record with the tenant of the one it read.
Wrote(c, updated) ==
  /\ calls[c].at \in Midway
  /\ calls[c].copy # NoTrial
  /\ Sound(updated)
  /\ updated.tenant = calls[c].copy.tenant
  /\ Write(c, updated)
  /\ Return(c)

\* Every step reads, creates, refuses, or writes one sound record back; only an
\* append to an open trial touches the history of accepted steps.
StepShape(c) ==
  \/ \E t \in TrialIds, tenant \in Tenants :
       /\ trials[t] = NoTrial
       /\ trials' = [trials EXCEPT ![t] = NewTrial(tenant)]
       /\ Return(c)
       /\ UNCHANGED <<accepted, overtaken>>
  \/ \E t \in TrialIds, tenant \in Tenants, method \in Midway,
        step \in StepRecord \union {None} :
       /\ method = "append" => step \in StepRecord
       /\ Read(c, t, tenant, method, step)
  \/ Return(c) /\ UNCHANGED <<trials, accepted, overtaken>>
  \/ \E updated :
       /\ Wrote(c, updated)
       /\ updated.steps = calls[c].copy.steps
       /\ UNCHANGED accepted
  \/ \E updated :
       /\ Wrote(c, updated)
       /\ calls[c].at = "append"
       /\ calls[c].copy.status \in Open
       /\ updated.steps = Append(calls[c].copy.steps, calls[c].step)
       /\ accepted' = [accepted EXCEPT ![calls[c].trial] =
            Append(accepted[calls[c].trial], calls[c].step)]

LEMMA StepShapes ==
  ASSUME TrialsInv, NEW c \in Calls, TrialStep(c)
  PROVE  StepShape(c)
  <1>1. ASSUME NEW t \in TrialIds, NEW tenant \in Tenants, CreateTrial(c, t, tenant)
        PROVE  StepShape(c)
    BY <1>1 DEF CreateTrial, StepShape
  <1>2. ASSUME NEW t \in TrialIds, NEW tenant \in Tenants, AppendRead(c, t, tenant)
        PROVE  StepShape(c)
    <2>1. PICK n \in StepIds : Read(c, t, tenant, "append", [step_id |-> n, by |-> c])
      BY <1>2 DEF AppendRead
    <2>2. [step_id |-> n, by |-> c] \in StepRecord
      BY DEF StepRecord
    <2> QED
      BY <2>1, <2>2 DEF StepShape, Midway
  <1>3. ASSUME NEW t \in TrialIds, NEW tenant \in Tenants, FinishRead(c, t, tenant)
        PROVE  StepShape(c)
    BY <1>3 DEF FinishRead, StepShape, Midway
  <1>4. ASSUME NEW t \in TrialIds, NEW tenant \in Tenants, StatusRead(c, t, tenant)
        PROVE  StepShape(c)
    BY <1>4 DEF StatusRead, StepShape, Midway
  <1>5. CASE AppendWrite(c)
    <2> DEFINE copy == calls[c].copy
               step == calls[c].step
               new  == [copy EXCEPT !.steps = Append(copy.steps, step)]
    <2>1. calls[c].at = "append"
      BY <1>5 DEF AppendWrite
    <2>2. Sound(copy) /\ step \in StepRecord
      BY <2>1 DEF TrialsInv, Midway
    <2>3. CASE Appends(copy, step)
      <3>1. /\ Sound(new) /\ new.tenant = copy.tenant
            /\ new.steps = Append(copy.steps, step)
        BY <2>2, <2>3, AppendedSound
      <3>2. copy.status \in Open /\ copy # NoTrial
        BY <2>3, NoTrialFacts DEF Appends, Open
      <3>3. /\ Write(c, new) /\ Return(c)
            /\ accepted' = [accepted EXCEPT ![calls[c].trial] =
                 Append(accepted[calls[c].trial], step)]
        BY <1>5, <2>3 DEF AppendWrite
      <3> HIDE DEF new
      <3>4. Wrote(c, new)
        BY <2>1, <3>1, <3>2, <3>3, <2>2 DEF Wrote, Midway
      <3> QED
        BY <2>1, <3>1, <3>2, <3>3, <3>4 DEF StepShape
    <2>4. CASE ~Appends(copy, step)
      BY <1>5, <2>4 DEF AppendWrite, StepShape
    <2> QED
      BY <2>3, <2>4
  <1>6. CASE FinishWrite(c)
    <2> DEFINE copy == calls[c].copy
    <2>1. calls[c].at = "finish" /\ accepted' = accepted
      BY <1>6 DEF FinishWrite
    <2>2. Sound(copy)
      BY <2>1 DEF TrialsInv, Midway
    <2>3. CASE copy = NoTrial
      BY <1>6, <2>1, <2>3 DEF FinishWrite, StepShape
    <2>4. CASE copy # NoTrial
      <3>1. PICK outcome \in Outcomes :
              Write(c, [copy EXCEPT !.status = StatusOf(outcome), !.outcome = outcome,
                                    !.pendingApprovalId = None])
        BY <1>6, <2>4 DEF FinishWrite
      <3> DEFINE new == [copy EXCEPT !.status = StatusOf(outcome), !.outcome = outcome,
                                     !.pendingApprovalId = None]
      <3>2. Sound(new) /\ new.tenant = copy.tenant /\ new.steps = copy.steps
        BY <2>2, <2>4, ConcludedSound
      <3>3. Write(c, new) /\ Return(c)
        BY <1>6, <2>4, <3>1 DEF FinishWrite
      <3> HIDE DEF new
      <3>4. Wrote(c, new)
        BY <2>1, <2>4, <3>2, <3>3 DEF Wrote, Midway
      <3> QED
        BY <2>1, <3>2, <3>4 DEF StepShape
    <2> QED
      BY <2>3, <2>4
  <1>7. CASE StatusWrite(c)
    <2> DEFINE copy == calls[c].copy
    <2>1. calls[c].at = "status" /\ accepted' = accepted
      BY <1>7 DEF StatusWrite
    <2>2. Sound(copy)
      BY <2>1 DEF TrialsInv, Midway
    <2>3. CASE copy = NoTrial
      BY <1>7, <2>1, <2>3 DEF StatusWrite, StepShape
    <2>4. CASE copy # NoTrial
      <3>1. PICK status \in TrialStatus, approval \in ApprovalIds \union {None} :
              Write(c, [copy EXCEPT !.status = status, !.pendingApprovalId =
                          IF status = "pending_approval" THEN approval ELSE None])
        BY <1>7, <2>4 DEF StatusWrite
      <3> DEFINE new == [copy EXCEPT !.status = status, !.pendingApprovalId =
                           IF status = "pending_approval" THEN approval ELSE None]
      <3>2. Sound(new) /\ new.tenant = copy.tenant /\ new.steps = copy.steps
        BY <2>2, <2>4, StatusSound
      <3>3. Write(c, new) /\ Return(c)
        BY <1>7, <2>4, <3>1 DEF StatusWrite
      <3> HIDE DEF new
      <3>4. Wrote(c, new)
        BY <2>1, <2>4, <3>2, <3>3 DEF Wrote, Midway
      <3> QED
        BY <2>1, <3>2, <3>4 DEF StepShape
    <2> QED
      BY <2>3, <2>4
  <1> QED
    BY <1>1, <1>2, <1>3, <1>4, <1>5, <1>6, <1>7 DEF TrialStep

-----------------------------------------------------------------------------
(* The invariant *)

LEMMA TrialsInvInit == TrialsInit => TrialsInv
  <1> SUFFICES ASSUME TrialsInit PROVE TrialsInv
    OBVIOUS
  <1>1. trials \in [TrialIds -> TrialRecord] /\ \A t \in TrialIds : Sound(trials[t])
    BY NoTrialFacts DEF TrialsInit
  <1>2. \A c \in Calls : calls[c].at \notin Midway
    BY DEF TrialsInit, Midway
  <1> QED
    BY <1>1, <1>2 DEF TrialsInv, TrialsInit

\* A call is at a method only by its read; every other step of it ends it.
LEMMA CallReturns ==
  ASSUME TrialsInv, NEW c \in Calls, Return(c)
  PROVE  /\ DOMAIN calls' = Calls
         /\ calls'[c].at \notin Midway
         /\ \A d \in Calls \ {c} : calls'[d] = calls[d]
  BY DEF TrialsInv, Return, Midway

\* What a write puts in the store, and where.
LEMMA WroteFacts ==
  ASSUME TrialsInv, NEW c \in Calls, NEW updated, Wrote(c, updated)
  PROVE  LET t == calls[c].trial
         IN  /\ t \in TrialIds
             /\ trials' \in [TrialIds -> TrialRecord]
             /\ trials'[t] = updated
             /\ \A u \in TrialIds \ {t} : trials'[u] = trials[u]
             /\ updated.tenant = trials[t].tenant
             /\ overtaken \subseteq overtaken'
             /\ trials[t] # calls[c].copy => t \in overtaken'
  <1> DEFINE t == calls[c].trial
  <1>1. /\ t \in TrialIds /\ updated.tenant = trials[t].tenant
        /\ updated \in TrialRecord /\ trials \in [TrialIds -> TrialRecord]
    BY DEF Wrote, TrialsInv, Sound
  <1>2. /\ trials' = [trials EXCEPT ![t] = updated]
        /\ overtaken' = IF trials[t] = calls[c].copy THEN overtaken ELSE overtaken \union {t}
    BY DEF Wrote, Write
  <1> HIDE DEF t
  <1> QED
    BY <1>1, <1>2 DEF t

\* What a read leaves with its call.
LEMMA ReadFacts ==
  ASSUME TrialsInv, NEW c \in Calls, NEW t \in TrialIds, NEW tenant \in Tenants,
         NEW method \in Midway, NEW step, Read(c, t, tenant, method, step)
  PROVE  /\ DOMAIN calls' = Calls
         /\ calls'[c].at = method /\ calls'[c].trial = t /\ calls'[c].tenant = tenant
         /\ calls'[c].step = step
         /\ Sound(calls'[c].copy)
         /\ calls'[c].copy # NoTrial =>
              calls'[c].copy.tenant = tenant /\ trials[t].tenant = tenant
         /\ \A d \in Calls \ {c} : calls'[d] = calls[d]
         /\ UNCHANGED <<trials, accepted, overtaken>>
  <1>1. /\ DOMAIN calls = Calls
        /\ calls' = [calls EXCEPT ![c] =
             [at |-> method, trial |-> t, tenant |-> tenant, step |-> step,
              copy |-> GetTrial(t, tenant)]]
        /\ UNCHANGED <<trials, accepted, overtaken>>
    BY DEF Read, TrialsInv
  <1>2. /\ Sound(GetTrial(t, tenant))
        /\ GetTrial(t, tenant) # NoTrial =>
             GetTrial(t, tenant).tenant = tenant /\ trials[t].tenant = tenant
    BY NoTrialFacts DEF GetTrial, Seen, TrialsInv
  <1> QED
    BY <1>1, <1>2

\* The store stays sound and no trial that exists changes its tenant: enough for
\* every call that was under way before the step.
LEMMA OthersKeep ==
  ASSUME TrialsInv, NEW c \in Calls,
         \A t \in TrialIds : trials[t] = NoTrial \/ trials'[t].tenant = trials[t].tenant,
         NEW d \in Calls \ {c}, calls'[d] = calls[d], calls[d].at \in Midway
  PROVE  /\ calls'[d].trial \in TrialIds
         /\ calls'[d].at = "append" => calls'[d].step \in StepRecord
         /\ Sound(calls'[d].copy)
         /\ calls'[d].copy # NoTrial =>
              /\ calls'[d].tenant \in Tenants
              /\ calls'[d].copy.tenant = calls'[d].tenant
              /\ trials'[calls'[d].trial].tenant = calls'[d].tenant
  <1>1. /\ calls[d].trial \in TrialIds
        /\ calls[d].at = "append" => calls[d].step \in StepRecord
        /\ Sound(calls[d].copy)
        /\ calls[d].copy # NoTrial =>
             /\ calls[d].tenant \in Tenants
             /\ calls[d].copy.tenant = calls[d].tenant
             /\ trials[calls[d].trial].tenant = calls[d].tenant
    BY DEF TrialsInv
  <1>2. calls[d].copy # NoTrial => trials[calls[d].trial] # NoTrial
    BY <1>1, NoTrialFacts, TenancyAssumption
  <1> QED
    BY <1>1, <1>2

LEMMA TrialsInvStep ==
  ASSUME TrialsInv, [TrialsNext]_trialVars
  PROVE  TrialsInv'
  <1>1. CASE UNCHANGED trialVars
    BY <1>1 DEF trialVars, TrialsInv
  <1>2. ASSUME NEW c \in Calls, TrialStep(c)
        PROVE  TrialsInv'
    <2>1. CASE \E t \in TrialIds, tenant \in Tenants :
                 /\ trials[t] = NoTrial
                 /\ trials' = [trials EXCEPT ![t] = NewTrial(tenant)]
                 /\ Return(c)
                 /\ UNCHANGED <<accepted, overtaken>>
      <3>1. PICK t \in TrialIds, tenant \in Tenants :
              /\ trials[t] = NoTrial
              /\ trials' = [trials EXCEPT ![t] = NewTrial(tenant)]
        BY <2>1
      <3>2. Return(c) /\ accepted' = accepted
        BY <2>1
      <3>3. /\ trials' \in [TrialIds -> TrialRecord]
            /\ \A u \in TrialIds : Sound(trials'[u])
            /\ \A u \in TrialIds : trials[u] = NoTrial \/ trials'[u] = trials[u]
        BY <3>1, FreshSound DEF TrialsInv
      <3>4. \A u \in TrialIds : trials[u] = NoTrial \/ trials'[u].tenant = trials[u].tenant
        BY <3>3
      <3>5. \A d \in Calls \ {c} : calls'[d].at \in Midway =>
              /\ calls'[d].trial \in TrialIds
              /\ calls'[d].at = "append" => calls'[d].step \in StepRecord
              /\ Sound(calls'[d].copy)
              /\ calls'[d].copy # NoTrial =>
                   /\ calls'[d].tenant \in Tenants
                   /\ calls'[d].copy.tenant = calls'[d].tenant
                   /\ trials'[calls'[d].trial].tenant = calls'[d].tenant
        BY <3>2, <3>4, CallReturns, OthersKeep
      <3> QED
        BY <3>2, <3>3, <3>5, CallReturns DEF TrialsInv
    <2>2. CASE \E t \in TrialIds, tenant \in Tenants, method \in Midway,
                  step \in StepRecord \union {None} :
                 /\ method = "append" => step \in StepRecord
                 /\ Read(c, t, tenant, method, step)
      <3>1. PICK t \in TrialIds, tenant \in Tenants, method \in Midway,
                 step \in StepRecord \union {None} :
              /\ method = "append" => step \in StepRecord
              /\ Read(c, t, tenant, method, step)
        BY <2>2
      <3>2. /\ DOMAIN calls' = Calls
            /\ calls'[c].at = method /\ calls'[c].trial = t /\ calls'[c].tenant = tenant
            /\ calls'[c].step = step
            /\ Sound(calls'[c].copy)
            /\ calls'[c].copy # NoTrial =>
                 calls'[c].copy.tenant = tenant /\ trials[t].tenant = tenant
            /\ \A d \in Calls \ {c} : calls'[d] = calls[d]
            /\ UNCHANGED <<trials, accepted, overtaken>>
        BY <3>1, ReadFacts
      <3>3. \A u \in TrialIds : trials[u] = NoTrial \/ trials'[u].tenant = trials[u].tenant
        BY <3>2
      <3>4. \A d \in Calls \ {c} : calls'[d].at \in Midway =>
              /\ calls'[d].trial \in TrialIds
              /\ calls'[d].at = "append" => calls'[d].step \in StepRecord
              /\ Sound(calls'[d].copy)
              /\ calls'[d].copy # NoTrial =>
                   /\ calls'[d].tenant \in Tenants
                   /\ calls'[d].copy.tenant = calls'[d].tenant
                   /\ trials'[calls'[d].trial].tenant = calls'[d].tenant
        BY <3>2, <3>3, OthersKeep
      <3> QED
        BY <3>1, <3>2, <3>4 DEF TrialsInv
    <2>3. CASE Return(c) /\ UNCHANGED <<trials, accepted, overtaken>>
      BY <2>3, CallReturns DEF TrialsInv
    <2>4. ASSUME NEW updated, Wrote(c, updated),
                 accepted' \in [TrialIds -> Seq(StepRecord)]
          PROVE  TrialsInv'
      <3>1. Return(c) /\ Sound(updated)
        BY <2>4 DEF Wrote
      <3>2. /\ trials' \in [TrialIds -> TrialRecord]
            /\ \A u \in TrialIds : Sound(trials'[u])
            /\ \A u \in TrialIds : trials'[u].tenant = trials[u].tenant
        <4> DEFINE t == calls[c].trial
        <4>1. /\ t \in TrialIds /\ trials' \in [TrialIds -> TrialRecord]
              /\ trials'[t] = updated /\ updated.tenant = trials[t].tenant
              /\ \A u \in TrialIds \ {t} : trials'[u] = trials[u]
          BY <2>4, WroteFacts
        <4> HIDE DEF t
        <4> QED
          BY <3>1, <4>1 DEF TrialsInv
      <3>3. \A d \in Calls \ {c} : calls'[d].at \in Midway =>
              /\ calls'[d].trial \in TrialIds
              /\ calls'[d].at = "append" => calls'[d].step \in StepRecord
              /\ Sound(calls'[d].copy)
              /\ calls'[d].copy # NoTrial =>
                   /\ calls'[d].tenant \in Tenants
                   /\ calls'[d].copy.tenant = calls'[d].tenant
                   /\ trials'[calls'[d].trial].tenant = calls'[d].tenant
        BY <3>1, <3>2, CallReturns, OthersKeep
      <3> QED
        BY <2>4, <3>1, <3>2, <3>3, CallReturns DEF TrialsInv
    <2>5. CASE \E updated :
                 /\ Wrote(c, updated)
                 /\ updated.steps = calls[c].copy.steps
                 /\ UNCHANGED accepted
      <3>1. accepted' \in [TrialIds -> Seq(StepRecord)]
        BY <2>5 DEF TrialsInv
      <3> QED
        BY <2>4, <2>5, <3>1
    <2>6. CASE \E updated :
                 /\ Wrote(c, updated)
                 /\ calls[c].copy.status \in Open
                 /\ calls[c].at = "append"
                 /\ updated.steps = Append(calls[c].copy.steps, calls[c].step)
                 /\ accepted' = [accepted EXCEPT ![calls[c].trial] =
                      Append(accepted[calls[c].trial], calls[c].step)]
      <3>1. calls[c].trial \in TrialIds /\ calls[c].step \in StepRecord
        BY <2>6 DEF Wrote, TrialsInv
      <3>2. Append(accepted[calls[c].trial], calls[c].step) \in Seq(StepRecord)
        BY <3>1 DEF TrialsInv
      <3>3. accepted' \in [TrialIds -> Seq(StepRecord)]
        BY <2>6, <3>1, <3>2 DEF TrialsInv
      <3> QED
        BY <2>4, <2>6, <3>3
    <2> QED
      BY <1>2, <2>1, <2>2, <2>3, <2>5, <2>6, StepShapes DEF StepShape
  <1> QED
    BY <1>1, <1>2 DEF TrialsNext

\* Whatever calls interleave, stored trajectories are gapless, an approval is kept
\* only while a trial is suspended, and no write crosses tenants.
THEOREM TrialsInvariant == TrialsSpec => []TrialsInv
  <1>1. TrialsInv /\ [TrialsNext]_trialVars => TrialsInv'
    BY TrialsInvStep
  <1> QED
    BY <1>1, TrialsInvInit, PTL DEF TrialsSpec

-----------------------------------------------------------------------------
(* Completeness and closure *)

LEMMA CompleteStep ==
  ASSUME TrialsInv, TrajectoryComplete, [TrialsNext]_trialVars
  PROVE  TrajectoryComplete'
  <1>1. CASE UNCHANGED trialVars
    BY <1>1 DEF trialVars, TrajectoryComplete
  <1>2. ASSUME NEW c \in Calls, StepShape(c)
        PROVE  TrajectoryComplete'
    <2>1. CASE \E t \in TrialIds, tenant \in Tenants :
                 /\ trials[t] = NoTrial
                 /\ trials' = [trials EXCEPT ![t] = NewTrial(tenant)]
                 /\ Return(c)
                 /\ UNCHANGED <<accepted, overtaken>>
      BY <2>1, NoTrialFacts, FreshSound DEF TrialsInv, TrajectoryComplete
    <2>2. CASE UNCHANGED <<trials, accepted, overtaken>>
      BY <2>2 DEF TrajectoryComplete
    <2>3. ASSUME NEW updated, Wrote(c, updated),
                 \/ updated.steps = calls[c].copy.steps /\ accepted' = accepted
                 \/ /\ updated.steps = Append(calls[c].copy.steps, calls[c].step)
                    /\ accepted' = [accepted EXCEPT ![calls[c].trial] =
                         Append(accepted[calls[c].trial], calls[c].step)]
          PROVE  TrajectoryComplete'
      <3> DEFINE t == calls[c].trial
                 step == calls[c].step
      <3>1. /\ t \in TrialIds /\ trials'[t] = updated
            /\ \A u \in TrialIds \ {t} : trials'[u] = trials[u]
            /\ overtaken \subseteq overtaken'
            /\ trials[t] # calls[c].copy => t \in overtaken'
        BY <2>3, WroteFacts
      <3>2. SUFFICES ASSUME NEW u \in TrialIds \ overtaken'
                     PROVE  trials'[u].steps = accepted'[u]
        BY DEF TrajectoryComplete
      <3>3. trials[u].steps = accepted[u]
        BY <3>1 DEF TrajectoryComplete
      <3>4. accepted \in [TrialIds -> Seq(StepRecord)]
        BY DEF TrialsInv
      <3>5. CASE u = t
        <4>1. trials[t] = calls[c].copy
          BY <3>1, <3>5
        <4>2. CASE updated.steps = calls[c].copy.steps /\ accepted' = accepted
          BY <3>1, <3>3, <3>5, <4>1, <4>2
        <4>3. CASE /\ updated.steps = Append(calls[c].copy.steps, step)
                   /\ accepted' = [accepted EXCEPT ![t] = Append(accepted[t], step)]
          <5>1. accepted'[t] = Append(accepted[t], step)
            BY <3>1, <3>4, <4>3
          <5> QED
            BY <3>1, <3>3, <3>5, <4>1, <4>3, <5>1
        <4> QED
          BY <2>3, <4>2, <4>3
      <3>6. CASE u # t
        <4>1. accepted'[u] = accepted[u]
          BY <2>3, <3>1, <3>4, <3>6
        <4> QED
          BY <3>1, <3>3, <3>6, <4>1
      <3> QED
        BY <3>5, <3>6
    <2> QED
      BY <1>2, <2>1, <2>2, <2>3 DEF StepShape, Read
  <1> QED
    BY <1>1, <1>2, StepShapes DEF TrialsNext

\* Nothing but a write overtaken by another loses or alters an accepted step.
THEOREM TrajectoriesComplete == TrialsSpec => []TrajectoryComplete
  <1>1. TrialsInit => TrajectoryComplete
    BY NoTrialFacts DEF TrialsInit, TrajectoryComplete
  <1>2. TrialsInv /\ TrajectoryComplete /\ [TrialsNext]_trialVars => TrajectoryComplete'
    BY CompleteStep
  <1> QED
    BY <1>1, <1>2, TrialsInvariant, PTL DEF TrialsSpec

\* "A concluded trajectory is a closed record" for every step of every call, as
\* long as its writes are not overtaken.
THEOREM RecordsClosed == TrialsSpec => ClosedRecord
  <1> DEFINE Closed ==
        \A t \in TrialIds \ overtaken' :
          trials[t].status \notin Open \union {"absent"} =>
            trials'[t].steps = trials[t].steps
  <1>1. ASSUME TrialsInv, NEW c \in Calls, StepShape(c)
        PROVE  Closed
    <2> SUFFICES ASSUME NEW u \in TrialIds \ overtaken',
                        trials[u].status \notin Open \union {"absent"}
                 PROVE  trials'[u].steps = trials[u].steps
      OBVIOUS
    <2>1. CASE \E t \in TrialIds, tenant \in Tenants :
                 /\ trials[t] = NoTrial
                 /\ trials' = [trials EXCEPT ![t] = NewTrial(tenant)]
      BY <2>1, <1>1, NoTrialFacts DEF TrialsInv
    <2>2. CASE UNCHANGED trials
      BY <2>2
    <2>3. ASSUME NEW updated, Wrote(c, updated),
                 updated.steps = calls[c].copy.steps \/ calls[c].copy.status \in Open
          PROVE  trials'[u].steps = trials[u].steps
      <3>1. /\ trials'[calls[c].trial] = updated
            /\ \A v \in TrialIds \ {calls[c].trial} : trials'[v] = trials[v]
            /\ trials[calls[c].trial] # calls[c].copy => calls[c].trial \in overtaken'
        BY <1>1, <2>3, WroteFacts
      <3> QED
        BY <2>3, <3>1
    <2> QED
      BY <1>1, <2>1, <2>2, <2>3 DEF StepShape, Read
  <1>2. TrialsInv /\ [TrialsNext]_trialVars => [Closed]_trialVars
    BY <1>1, StepShapes DEF TrialsNext
  <1> QED
    BY <1>2, TrialsInvariant, PTL DEF TrialsSpec, ClosedRecord

-----------------------------------------------------------------------------
(* The approval store *)

LEMMA NoApprovalType == NoApproval \in ApprovalRecord
  BY DEF NoApproval, ApprovalRecord

LEMMA DecisionInvInit == ApprovalsInit => DecisionInv
  <1> SUFFICES ASSUME ApprovalsInit PROVE DecisionInv
    OBVIOUS
  <1>1. approvals \in [ApprovalIds -> ApprovalRecord]
    BY NoApprovalType DEF ApprovalsInit
  <1>2. deciding \in [Deciders -> Answered \union LookedUp \union Deciding]
    BY DEF ApprovalsInit, Answered
  <1>3. \A d \in Deciders : deciding[d] \notin LookedUp \union Deciding
    BY DEF ApprovalsInit, LookedUp, Deciding
  <1>4. \A a \in ApprovalIds : approvals[a].tenant = None /\ approvals[a].status = "absent"
    BY DEF ApprovalsInit, NoApproval
  <1>5. DecisionAttributed
    BY <1>4 DEF DecisionAttributed, Decisions
  <1> QED
    BY <1>1, <1>2, <1>3, <1>4, <1>5 DEF DecisionInv, ApprovalsInit

\* What the lookup gives a tenant: null, or a record of that tenant.
LEMMA Lookup ==
  ASSUME DecisionInv, NEW a \in ApprovalIds, NEW tenant \in Tenants
  PROVE  /\ GetApproval(a, tenant) \in ApprovalRecord
         /\ GetApproval(a, tenant) = NoApproval
              \/ (GetApproval(a, tenant) = approvals[a] /\ approvals[a].tenant = tenant)
  BY NoApprovalType DEF GetApproval, Seen, DecisionInv

\* No step moves an existing approval to another tenant.
LEMMA DecisionInvCreate ==
  ASSUME DecisionInv, NEW a \in ApprovalIds, NEW tenant \in Tenants,
         CreateApproval(a, tenant)
  PROVE  DecisionInv'
  <1> DEFINE new == [status |-> "pending", tenant |-> tenant, decidedBy |-> None]
  <1> USE DEF CreateApproval
  <1>1. new.status = "pending" /\ new.tenant = tenant
    OBVIOUS
  <1>2. new \in ApprovalRecord
    BY DEF ApprovalRecord
  <1>3. approvals' = [approvals EXCEPT ![a] = new] /\ approvals \in [ApprovalIds -> ApprovalRecord]
    BY DEF DecisionInv
  <1> HIDE DEF new
  <1>4. /\ approvals' \in [ApprovalIds -> ApprovalRecord]
        /\ approvals'[a] = new
        /\ \A b \in ApprovalIds \ {a} : approvals'[b] = approvals[b]
    BY <1>2, <1>3
  <1>5. approvals[a].tenant = None /\ approvals[a].status = "absent"
    BY DEF NoApproval
  <1>6. ASSUME NEW d \in Deciders, deciding[d] \in LookedUp \union Deciding,
               deciding[d].existing.status = "pending"
        PROVE  approvals'[deciding[d].approval].tenant = deciding[d].tenant
    <2>1. deciding[d].approval \in ApprovalIds /\ deciding[d].tenant \in Tenants
      BY <1>6 DEF LookedUp, Deciding
    <2>2. approvals[deciding[d].approval].tenant = deciding[d].tenant
      BY <1>6 DEF DecisionInv
    <2>3. deciding[d].approval # a
      BY <2>1, <2>2, <1>5, TenancyAssumption
    <2> QED
      BY <2>1, <2>2, <2>3, <1>4
  <1>7. \A b \in ApprovalIds : approvals'[b].tenant = None <=> approvals'[b].status = "absent"
    BY <1>1, <1>4, TenancyAssumption DEF DecisionInv
  <1>8. DecisionAttributed'
    <2>1. \A b \in ApprovalIds : approvals'[b].status \in Decisions => approvals'[b] = approvals[b]
      BY <1>1, <1>4 DEF Decisions
    <2>2. DecisionAttributed
      BY DEF DecisionInv
    <2>3. UNCHANGED <<deciding, decided>>
      OBVIOUS
    <2> QED
      BY <2>1, <2>2, <2>3 DEF DecisionAttributed
  <1> QED
    BY <1>4, <1>6, <1>7, <1>8 DEF DecisionInv

\* A step of one request that leaves the store and the log alone.
LEMMA DecisionInvLocal ==
  ASSUME DecisionInv, NEW d \in Deciders, NEW l,
         deciding' = [deciding EXCEPT ![d] = l],
         UNCHANGED <<approvals, decided>>,
         deciding[d].at # "written",
         l \in Answered \union LookedUp \union Deciding,
         l \in LookedUp \union Deciding /\ l.existing.status = "pending"
           => approvals[l.approval].tenant = l.tenant,
         l \in Deciding => l.existing.status = "pending" /\ l.record.tenant = l.tenant
  PROVE  DecisionInv'
  <1>1. deciding' \in [Deciders -> Answered \union LookedUp \union Deciding]
    BY DEF DecisionInv
  <1>2. deciding'[d] = l /\ \A e \in Deciders \ {d} : deciding'[e] = deciding[e]
    BY DEF DecisionInv
  <1>3. DecisionAttributed'
    <2>1. DecisionAttributed
      BY DEF DecisionInv
    <2> SUFFICES ASSUME NEW a \in ApprovalIds, approvals[a].status \in Decisions,
                        NEW e \in Deciders,
                        deciding[e].at = "written", deciding[e].approval = a,
                        approvals[a].decidedBy = e, approvals[a].status = deciding[e].status
                 PROVE  \E f \in Deciders :
                           /\ deciding'[f].at = "written" /\ deciding'[f].approval = a
                           /\ approvals[a].decidedBy = f
                           /\ approvals[a].status = deciding'[f].status
      BY <2>1 DEF DecisionAttributed
    <2> QED
      BY <1>2
  <1> QED
    BY <1>1, <1>2, <1>3 DEF DecisionInv

LEMMA DecisionInvLook ==
  ASSUME DecisionInv, NEW d \in Deciders, NEW a \in ApprovalIds, NEW tenant \in Tenants,
         Look(d, a, tenant)
  PROVE  DecisionInv'
  <1>1. PICK status \in Decisions :
          deciding' = [deciding EXCEPT ![d] =
            [at |-> "looked", approval |-> a, tenant |-> tenant, status |-> status,
             existing |-> GetApproval(a, tenant)]]
    BY DEF Look
  <1> DEFINE l == [at |-> "looked", approval |-> a, tenant |-> tenant, status |-> status,
                   existing |-> GetApproval(a, tenant)]
  <1>2. l \in LookedUp
    BY Lookup DEF LookedUp
  <1>3. l \notin Deciding
    BY DEF Deciding
  <1>4. l.existing.status = "pending" => approvals[l.approval].tenant = l.tenant
    BY Lookup DEF NoApproval
  <1>5. deciding[d].at # "written" /\ UNCHANGED <<approvals, decided>>
    BY DEF Look
  <1> HIDE DEF l
  <1> QED
    BY <1>1, <1>2, <1>3, <1>4, <1>5, DecisionInvLocal DEF l

LEMMA DecisionInvJudge ==
  ASSUME DecisionInv, NEW d \in Deciders, Judge(d)
  PROVE  DecisionInv'
  <1>1. deciding[d].at = "looked" /\ UNCHANGED <<approvals, decided>>
    BY DEF Judge
  <1>2. deciding[d] \in LookedUp
    BY <1>1 DEF DecisionInv, Answered, LookedUp, Deciding
  <1>3. CASE deciding[d].existing.status # "pending"
    <2>1. deciding' = [deciding EXCEPT ![d] = [at |-> "refused"]]
      BY <1>3 DEF Judge
    <2>2. /\ [at |-> "refused"] \in Answered
          /\ [at |-> "refused"] \notin LookedUp
          /\ [at |-> "refused"] \notin Deciding
      BY DEF Answered, LookedUp, Deciding
    <2> QED
      BY <1>1, <2>1, <2>2, DecisionInvLocal
  <1>4. CASE deciding[d].existing.status = "pending"
    <2> DEFINE l == deciding[d]
    <2>1. deciding' = [deciding EXCEPT ![d] = Judged(d)]
      BY <1>4 DEF Judge
    <2>2. l.approval \in ApprovalIds /\ l.tenant \in Tenants
      BY <1>2 DEF LookedUp
    <2>3. approvals[l.approval].tenant = l.tenant
      BY <1>2, <1>4 DEF DecisionInv
    <2>4. /\ GetApproval(l.approval, l.tenant) \in ApprovalRecord
          /\ GetApproval(l.approval, l.tenant).tenant = l.tenant
      BY <2>2, <2>3, Lookup DEF GetApproval, Seen
    <2>5. Judged(d) \in Deciding
      BY <1>2, <2>2, <2>4 DEF Judged, LookedUp, Deciding
    <2>6. /\ Judged(d).existing.status = "pending"
          /\ Judged(d).record.tenant = Judged(d).tenant
          /\ approvals[Judged(d).approval].tenant = Judged(d).tenant
      BY <1>4, <2>3, <2>4 DEF Judged
    <2> QED
      BY <1>1, <2>1, <2>5, <2>6, DecisionInvLocal
  <1> QED
    BY <1>3, <1>4

\* The store's write: whatever was decided in between is replaced, by a record of
\* the same tenant that names its reviewer.
LEMMA DecisionInvWrite ==
  ASSUME DecisionInv, NEW d \in Deciders, DecideWrite(d)
  PROVE  DecisionInv'
  <1> DEFINE l   == deciding[d]
             new == [l.record EXCEPT !.status = l.status, !.decidedBy = d]
             wrote == [l EXCEPT !.at = "written"]
  <1>1. /\ approvals' = [approvals EXCEPT ![l.approval] = new]
        /\ deciding' = [deciding EXCEPT ![d] = wrote]
        /\ decided' = decided
        /\ l.at = "judged"
    BY DEF DecideWrite
  <1>2. l \in Deciding
    BY <1>1 DEF DecisionInv, Answered, LookedUp, Deciding
  <1>3. /\ l.approval \in ApprovalIds /\ l.tenant \in Tenants
        /\ l.existing.status = "pending" /\ l.record.tenant = l.tenant
        /\ approvals[l.approval].tenant = l.tenant
        /\ l.status \in Decisions /\ l.record \in ApprovalRecord
    BY <1>2 DEF DecisionInv, Deciding
  <1>4. /\ new \in ApprovalRecord
        /\ new.tenant = l.tenant /\ new.status = l.status /\ new.decidedBy = d
    BY <1>3 DEF ApprovalRecord
  <1>5. /\ wrote \in Deciding /\ wrote.at = "written"
        /\ wrote.approval = l.approval /\ wrote.tenant = l.tenant
        /\ wrote.status = l.status
        /\ wrote.existing = l.existing /\ wrote.record = l.record
    BY <1>2 DEF Deciding
  <1> HIDE DEF l, new, wrote
  <1>6. /\ approvals' \in [ApprovalIds -> ApprovalRecord]
        /\ approvals'[l.approval] = new
        /\ \A b \in ApprovalIds \ {l.approval} : approvals'[b] = approvals[b]
    BY <1>1, <1>3, <1>4 DEF DecisionInv
  <1>7. /\ deciding' \in [Deciders -> Answered \union LookedUp \union Deciding]
        /\ deciding'[d] = wrote
        /\ \A e \in Deciders \ {d} : deciding'[e] = deciding[e]
    BY <1>1, <1>5 DEF DecisionInv
  <1>8. \A b \in ApprovalIds : approvals'[b].tenant = approvals[b].tenant
    BY <1>3, <1>4, <1>6
  <1>9. ASSUME NEW e \in Deciders
        PROVE  /\ deciding'[e] \in LookedUp \union Deciding
                    /\ deciding'[e].existing.status = "pending"
                    => approvals'[deciding'[e].approval].tenant = deciding'[e].tenant
               /\ deciding'[e] \in Deciding =>
                    /\ deciding'[e].existing.status = "pending"
                    /\ deciding'[e].record.tenant = deciding'[e].tenant
    <2>1. CASE e = d
      BY <2>1, <1>3, <1>5, <1>7, <1>8
    <2>2. CASE e # d
      <3>1. deciding'[e] = deciding[e]
        BY <2>2, <1>7
      <3>2. deciding[e] \in LookedUp \union Deciding => deciding[e].approval \in ApprovalIds
        BY DEF LookedUp, Deciding
      <3> QED
        BY <3>1, <3>2, <1>8 DEF DecisionInv
    <2> QED
      BY <2>1, <2>2
  <1>10. \A b \in ApprovalIds : approvals'[b].tenant = None <=> approvals'[b].status = "absent"
    <2>1. new.tenant # None /\ new.status # "absent"
      BY <1>3, <1>4, TenancyAssumption DEF Decisions
    <2> QED
      BY <2>1, <1>6 DEF DecisionInv
  <1>11. DecisionAttributed'
    <2> SUFFICES ASSUME NEW b \in ApprovalIds, approvals'[b].status \in Decisions
                 PROVE  \/ \E e \in Deciders :
                             /\ deciding'[e].at = "written" /\ deciding'[e].approval = b
                             /\ approvals'[b].decidedBy = e
                             /\ approvals'[b].status = deciding'[e].status
                        \/ \E i \in DOMAIN decided' :
                             decided'[i] = [approval |-> b, status |-> approvals'[b].status,
                                            by |-> approvals'[b].decidedBy,
                                            tenant |-> approvals'[b].tenant]
      BY DEF DecisionAttributed
    <2>1. CASE b = l.approval
      BY <2>1, <1>4, <1>5, <1>6, <1>7
    <2>2. CASE b # l.approval
      <3>1. approvals'[b] = approvals[b]
        BY <2>2, <1>6
      <3>2. CASE \E e \in Deciders :
                   /\ deciding[e].at = "written" /\ deciding[e].approval = b
                   /\ approvals[b].decidedBy = e /\ approvals[b].status = deciding[e].status
        <4>1. PICK e \in Deciders :
                /\ deciding[e].at = "written" /\ deciding[e].approval = b
                /\ approvals[b].decidedBy = e /\ approvals[b].status = deciding[e].status
          BY <3>2
        <4>2. e # d
          BY <4>1, <1>1 DEF l
        <4> QED
          BY <4>1, <4>2, <3>1, <1>7
      <3>3. CASE \E i \in DOMAIN decided :
                   decided[i] = [approval |-> b, status |-> approvals[b].status,
                                 by |-> approvals[b].decidedBy,
                                 tenant |-> approvals[b].tenant]
        BY <3>3, <3>1, <1>1
      <3> QED
        BY <3>1, <3>2, <3>3 DEF DecisionInv, DecisionAttributed
    <2> QED
      BY <2>1, <2>2
  <1> QED
    BY <1>1, <1>6, <1>7, <1>9, <1>10, <1>11 DEF DecisionInv

\* The decision that was about to be in the log now is.
LEMMA DecisionInvRecord ==
  ASSUME DecisionInv, NEW d \in Deciders, DecideRecord(d)
  PROVE  DecisionInv'
  <1> DEFINE l == deciding[d]
             entry == [approval |-> l.approval, status |-> l.status, by |-> d,
                       tenant |-> l.tenant]
  <1>1. /\ l.at = "written"
        /\ decided' = Append(decided, entry)
        /\ deciding' = [deciding EXCEPT ![d] = [at |-> "done"]]
        /\ approvals' = approvals
    BY DEF DecideRecord
  <1>2. l \in Deciding
    BY <1>1 DEF DecisionInv, Answered, LookedUp, Deciding
  <1>3. entry \in DecisionEntry
    BY <1>2 DEF Deciding, DecisionEntry
  <1>4. approvals[l.approval].tenant = l.tenant
    BY <1>2 DEF DecisionInv
  <1>5. /\ [at |-> "done"] \in Answered
        /\ [at |-> "done"] \notin LookedUp /\ [at |-> "done"] \notin Deciding
    BY DEF Answered, LookedUp, Deciding
  <1>6. /\ deciding' \in [Deciders -> Answered \union LookedUp \union Deciding]
        /\ deciding'[d] = [at |-> "done"]
        /\ \A e \in Deciders \ {d} : deciding'[e] = deciding[e]
    BY <1>1, <1>5 DEF DecisionInv
  <1> HIDE DEF entry
  <1>7. /\ decided' \in Seq(DecisionEntry)
        /\ DOMAIN decided \subseteq DOMAIN decided'
        /\ \A i \in DOMAIN decided : decided'[i] = decided[i]
        /\ Len(decided) + 1 \in DOMAIN decided'
        /\ decided'[Len(decided) + 1] = entry
    BY <1>1, <1>3 DEF DecisionInv
  <1>8. DecisionAttributed'
    <2> SUFFICES ASSUME NEW b \in ApprovalIds, approvals[b].status \in Decisions
                 PROVE  \/ \E e \in Deciders :
                             /\ deciding'[e].at = "written" /\ deciding'[e].approval = b
                             /\ approvals[b].decidedBy = e
                             /\ approvals[b].status = deciding'[e].status
                        \/ \E i \in DOMAIN decided' :
                             decided'[i] = [approval |-> b, status |-> approvals[b].status,
                                            by |-> approvals[b].decidedBy,
                                            tenant |-> approvals[b].tenant]
      BY <1>1 DEF DecisionAttributed
    <2>1. CASE \E e \in Deciders :
                 /\ deciding[e].at = "written" /\ deciding[e].approval = b
                 /\ approvals[b].decidedBy = e /\ approvals[b].status = deciding[e].status
      <3>1. PICK e \in Deciders :
              /\ deciding[e].at = "written" /\ deciding[e].approval = b
              /\ approvals[b].decidedBy = e /\ approvals[b].status = deciding[e].status
        BY <2>1
      <3>2. CASE e = d
        <4>1. entry = [approval |-> b, status |-> approvals[b].status,
                       by |-> approvals[b].decidedBy, tenant |-> approvals[b].tenant]
          BY <3>1, <3>2, <1>4 DEF entry
        <4> QED
          BY <4>1, <1>7
      <3>3. CASE e # d
        BY <3>1, <3>3, <1>6
      <3> QED
        BY <3>2, <3>3
    <2>2. CASE \E i \in DOMAIN decided :
                 decided[i] = [approval |-> b, status |-> approvals[b].status,
                               by |-> approvals[b].decidedBy, tenant |-> approvals[b].tenant]
      BY <2>2, <1>7
    <2> QED
      BY <2>1, <2>2 DEF DecisionInv, DecisionAttributed
  <1>9. ASSUME NEW e \in Deciders, deciding'[e] \in LookedUp \union Deciding
        PROVE  deciding'[e] = deciding[e]
    BY <1>5, <1>6, <1>9
  <1> QED
    BY <1>1, <1>6, <1>7, <1>8, <1>9 DEF DecisionInv

LEMMA DecisionInvStep ==
  ASSUME DecisionInv, [ApprovalsNext]_approvalVars
  PROVE  DecisionInv'
  <1>1. CASE \E a \in ApprovalIds, tenant \in Tenants : CreateApproval(a, tenant)
    BY <1>1, DecisionInvCreate
  <1>2. ASSUME NEW d \in Deciders, DecideStep(d) PROVE DecisionInv'
    BY <1>2, DecisionInvLook, DecisionInvJudge, DecisionInvWrite, DecisionInvRecord
       DEF DecideStep
  <1>3. CASE UNCHANGED approvalVars
    BY <1>3 DEF approvalVars, DecisionInv, DecisionAttributed
  <1> QED
    BY <1>1, <1>2, <1>3 DEF ApprovalsNext

\* In every state of the store and the decide handler, whatever requests are under
\* way, the invariant behind attribution holds.
THEOREM DecisionInvariant == ApprovalsSpec => []DecisionInv
  <1>1. DecisionInv /\ [ApprovalsNext]_approvalVars => DecisionInv'
    BY DecisionInvStep
  <1> QED
    BY <1>1, DecisionInvInit, PTL DEF ApprovalsSpec

\* "An approval nobody can attribute evidences nothing": every decision on record
\* is that of the reviewer it names and is in the log or about to be.
THEOREM DecisionsAttributed == ApprovalsSpec => []DecisionAttributed
  <1>1. DecisionInv => DecisionAttributed
    BY DEF DecisionInv
  <1> QED
    BY <1>1, DecisionInvariant, PTL

\* A decision changes only by a request that had found the approval pending: the
\* 409 of the decide handler protects it from everyone who comes later.
THEOREM DecisionsSettle == ApprovalsSpec => DecisionSettled
  <1> DEFINE KeptDecision ==
        \A a \in ApprovalIds :
          approvals[a].status \in Decisions /\ approvals'[a] # approvals[a] =>
            \E d \in Deciders :
              /\ deciding[d].at = "judged" /\ deciding[d].approval = a
              /\ deciding[d].existing.status = "pending"
              /\ approvals'[a].decidedBy = d
  <1>1. ASSUME DecisionInv, [ApprovalsNext]_approvalVars
        PROVE  KeptDecision
    <2> SUFFICES ASSUME NEW a \in ApprovalIds, approvals[a].status \in Decisions,
                        approvals'[a] # approvals[a]
                 PROVE  \E d \in Deciders :
                          /\ deciding[d].at = "judged" /\ deciding[d].approval = a
                          /\ deciding[d].existing.status = "pending"
                          /\ approvals'[a].decidedBy = d
      OBVIOUS
    <2>1. ASSUME NEW b \in ApprovalIds, NEW tenant \in Tenants, CreateApproval(b, tenant)
          PROVE  FALSE
      <3>1. a = b
        BY <2>1 DEF CreateApproval, DecisionInv
      <3> QED
        BY <2>1, <3>1 DEF CreateApproval, NoApproval, Decisions
    <2>2. PICK d \in Deciders : DecideStep(d)
      BY <1>1, <2>1 DEF ApprovalsNext, approvalVars
    <2>3. DecideWrite(d)
      BY <2>2 DEF DecideStep, Look, Judge, DecideRecord
    <2>4. deciding[d].at = "judged" /\ deciding[d].approval = a
      BY <2>3, <1>1 DEF DecideWrite, DecisionInv
    <2>5. deciding[d] \in Deciding
      BY <2>4, <1>1 DEF DecisionInv, Answered, LookedUp, Deciding
    <2>6. deciding[d].existing.status = "pending"
      BY <2>5, <1>1 DEF DecisionInv
    <2>7. approvals'[a] = [deciding[d].record EXCEPT !.status = deciding[d].status,
                                                     !.decidedBy = d]
      BY <2>3, <2>4, <1>1 DEF DecideWrite, DecisionInv
    <2>8. deciding[d].record \in ApprovalRecord
      BY <2>5 DEF Deciding
    <2>9. approvals'[a].decidedBy = d
      BY <2>7, <2>8 DEF ApprovalRecord
    <2> QED
      BY <2>4, <2>6, <2>9
  <1>2. DecisionInv /\ [ApprovalsNext]_approvalVars => [KeptDecision]_approvalVars
    BY <1>1
  <1> QED
    BY <1>2, DecisionInvariant, PTL DEF ApprovalsSpec, DecisionSettled

=============================================================================

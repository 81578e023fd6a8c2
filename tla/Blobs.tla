------------------------------- MODULE Blobs --------------------------------
(***************************************************************************)
(* The file-backed blob store of trajectories/blob-store.ts, for one       *)
(* content address: every put writes the same bytes to a temporary file    *)
(* and renames it to the address.                                          *)
(*                                                                         *)
(* Each file operation is an action, and processes crash between them.  A  *)
(* file is named for the put that created it, since an unlinked or renamed *)
(* file keeps its writer; the temporary name is the process and the        *)
(* millisecond, here one instant.                                          *)
(***************************************************************************)
EXTENDS Naturals

CONSTANTS Puts,        \* calls of put, each made once
          MaxInstant,  \* bound on the instants
          NoFile

ASSUME BlobsAssumption == NoFile \notin Puts \union Nat /\ MaxInstant \in Nat

VARIABLES
  stored,    \* the file at the content address
  temporary, \* the file at each temporary name
  written,   \* how much of each put's file is there
  puts,      \* where each put is, and the instant in its temporary name
  instant,   \* Date.now(), of a process that is not named again
  collided   \* history: two puts used one temporary name

blobVars == <<stored, temporary, written, puts, instant, collided>>

BlobsInit ==
  /\ stored = NoFile
  /\ temporary = [i \in 0..MaxInstant |-> NoFile]
  /\ written = [p \in Puts |-> "nothing"]
  /\ puts = [p \in Puts |-> [at |-> "idle", name |-> NoFile]]
  /\ instant = 0
  /\ collided = FALSE

-----------------------------------------------------------------------------

\* has: whether a file is there, not what is in it.
Has == stored # NoFile

\* get re-hashes what it read.
Get ==
  IF stored = NoFile THEN "null"
  ELSE IF written[stored] = "whole" THEN "bytes" ELSE "integrity failure"

At(p, step) == puts' = [puts EXCEPT ![p].at = step]

\* A format the header does not tell is refused; an address that exists is a no-op.
PutLook(p) ==
  /\ puts[p].at = "idle"
  /\ \/ At(p, "unrecognized")
     \/ At(p, IF Has THEN "stored" ELSE "missing")
  /\ UNCHANGED <<stored, temporary, written, instant, collided>>

\* The directory is there; the temporary name is made.
PutName(p) ==
  /\ puts[p].at = "missing"
  /\ puts' = [puts EXCEPT ![p] = [at |-> "named", name |-> instant]]
  /\ collided' = (collided \/ \E q \in Puts \ {p} :
                                puts[q].name = instant)
  /\ UNCHANGED <<stored, temporary, written, instant>>

\* Seeded fault: the file is written at its address.
PutOpenInPlace(p) ==
  /\ puts[p].at = "named"
  /\ stored' = p
  /\ written' = [written EXCEPT ![p] = "part"]
  /\ At(p, "writing")
  /\ UNCHANGED <<temporary, instant, collided>>

\* flag 'wx': the file must not exist.
PutOpen(p) ==
  /\ puts[p].at = "named"
  /\ IF temporary[puts[p].name] = NoFile
     THEN /\ temporary' = [temporary EXCEPT ![puts[p].name] = p]
          /\ written' = [written EXCEPT ![p] = "part"]
          /\ At(p, "writing")
     ELSE At(p, "failed") /\ UNCHANGED <<temporary, written>>
  /\ UNCHANGED <<stored, instant, collided>>

\* The bytes, or as many as the disk takes.
PutWrite(p) ==
  /\ puts[p].at = "writing"
  /\ \/ written' = [written EXCEPT ![p] = "whole"] /\ At(p, "written")
     \/ At(p, "disk error") /\ UNCHANGED written
  /\ UNCHANGED <<stored, temporary, instant, collided>>

\* Whatever file has the name by now; none at all is an error.
PutRename(p) ==
  /\ puts[p].at = "written"
  /\ IF temporary[puts[p].name] # NoFile
     THEN /\ stored' = temporary[puts[p].name]
          /\ temporary' = [temporary EXCEPT ![puts[p].name] = NoFile]
          /\ At(p, "stored")
     ELSE At(p, "failed") /\ UNCHANGED <<stored, temporary>>
  /\ UNCHANGED <<written, instant, collided>>

PutUnlink(p) ==
  /\ puts[p].at \in {"failed", "disk error"}
  /\ temporary' = [temporary EXCEPT ![puts[p].name] = NoFile]
  /\ At(p, IF puts[p].at = "failed" THEN "unlinked" ELSE "unlinked, disk error")
  /\ UNCHANGED <<stored, written, instant, collided>>

\* "A concurrent writer winning the race is success, not failure."
PutLookAgain(p) ==
  /\ puts[p].at \in {"unlinked", "unlinked, disk error"}
  /\ At(p, IF Has THEN "stored"
           ELSE IF puts[p].at = "unlinked" THEN "refused" ELSE "refused, disk error")
  /\ UNCHANGED <<stored, temporary, written, instant, collided>>

InstantPasses ==
  /\ instant < MaxInstant
  /\ instant' = instant + 1
  /\ UNCHANGED <<stored, temporary, written, puts, collided>>

\* Every put under way is lost where it stands, with its temporary file; the next
\* process has another name.
Crash ==
  /\ instant < MaxInstant
  /\ instant' = instant + 1
  /\ puts' = [p \in Puts |->
       IF puts[p].at \in {"idle", "stored", "refused", "refused, disk error", "unrecognized"}
       THEN puts[p] ELSE [puts[p] EXCEPT !.at = "lost"]]
  /\ UNCHANGED <<stored, temporary, written, collided>>

PutStep(p) ==
  \/ PutLook(p) \/ PutName(p) \/ PutOpen(p) \/ PutWrite(p) \/ PutRename(p)
  \/ PutUnlink(p) \/ PutLookAgain(p)

BlobsNext == InstantPasses \/ Crash \/ \E p \in Puts : PutStep(p)

BlobsSpec == BlobsInit /\ [][BlobsNext]_blobVars

-----------------------------------------------------------------------------
(* What the store promises *)

\* "A reader never observes a partially written blob under an address that is
\* supposed to be complete", nor does a crash leave one, as long as no two puts
\* made one temporary name: an address that exists is readable, a put that
\* returned left it so, and only a disk error refuses one.
StoredWhole ==
  /\ written \in [Puts -> {"nothing", "part", "whole"}]
  /\ stored \in Puts \union {NoFile}
  /\ \A p \in Puts : puts[p].at = "stored" => Has
  /\ ~collided =>
       /\ Get # "integrity failure"
       /\ \A p \in Puts : puts[p].at # "refused"

=============================================================================

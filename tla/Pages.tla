-------------------------------- MODULE Pages --------------------------------
(***************************************************************************)
(* Reading a list page by page while it grows: GET /v1/audit over the log  *)
(* (oldest first, filtered) and GET /v1/runs over the runs (newest first). *)
(* A cursor is an offset into what the list holds when the page is read.   *)
(***************************************************************************)
EXTENDS SigningKeys, Integers, FiniteSets, SequencesExt

CONSTANTS
  Actors,     \* who appends to the log
  PageSizes,  \* limits a reader may ask for
  MaxRows,    \* bound: rows of either list
  MaxClock    \* bound: the clock

\* A limit is at least one; None is no cursor and no instant.
ASSUME PagesAssumption == PageSizes \subseteq Nat \ {0} /\ None \notin Int

VARIABLES
  listing,  \* which list it is: "audit" or "runs"
  rows,     \* its rows, in the order they were added
  clock,
  reader    \* one client, reading the list from its start

pageVars == <<listing, rows, clock, reader>>

NoReader == [tenant |-> None]

PagesInit == listing \in {"audit", "runs"} /\ rows = <<>> /\ clock = 0 /\ reader = NoReader

-----------------------------------------------------------------------------
(* What a list holds *)

\* The tenant's rows that pass every filter that is given, by their places in rows.
Held(tenant, q) ==
  {i \in DOMAIN rows : /\ rows[i].tenant = tenant
                       /\ q.actor # None => rows[i].actor = q.actor
                       /\ q.from # None => rows[i].at >= q.from
                       /\ q.to # None => rows[i].at <= q.to}

\* The log as it was appended; the runs newest first, and as the sort is stable, what
\* came in one millisecond stays in the order it came.
Precedes(j, i) ==
  \/ listing = "runs" /\ rows[j].at > rows[i].at
  \/ (listing = "audit" \/ rows[j].at = rows[i].at) /\ j < i

\* How many of what a list holds come before it.
Place(i, held) == Cardinality({j \in held : Precedes(j, i)})

Matching(tenant, q) ==
  LET held == Held(tenant, q)
  IN  [k \in 1..Cardinality(held) |-> rows[CHOOSE i \in held : Place(i, held) = k - 1]]

-----------------------------------------------------------------------------
(* Pages *)

\* Array.prototype.slice: an offset below zero counts from the end.
JsSlice(items, start, end) ==
  LET Offset(n) == IF n < 0 THEN (IF Len(items) + n < 0 THEN 0 ELSE Len(items) + n) ELSE n
      last == IF Offset(end) > Len(items) THEN Len(items) ELSE Offset(end)
  IN  SubSeq(items, Offset(start) + 1, last)

\* Seeded fault: the next page starts after the row it should start with.
PaginatePast(items, cursor, limit) ==
  [items |-> JsSlice(items, cursor, cursor + limit),
   nextCursor |-> IF cursor + limit < Len(items) THEN cursor + limit + 1 ELSE None]

\* An absent cursor is 0; one that is no number, here None, reads nothing and ends there.
Paginate(items, cursor, limit) ==
  IF cursor = None THEN [items |-> <<>>, nextCursor |-> None]
  ELSE [items |-> JsSlice(items, cursor, cursor + limit),
        nextCursor |-> IF cursor + limit < Len(items) THEN cursor + limit ELSE None]

\* An entry is appended, or a run is created, at the clock.
AddRow(tenant, actor) ==
  /\ Len(rows) < MaxRows
  /\ rows' = Append(rows, [tenant |-> tenant, actor |-> actor, at |-> clock, no |-> Len(rows)])
  /\ UNCHANGED <<listing, clock, reader>>

ClockTicks ==
  /\ clock < MaxClock
  /\ clock' = clock + 1
  /\ UNCHANGED <<listing, rows, reader>>

Numbers(items) == [i \in DOMAIN items |-> items[i].no]

\* The first page, under the reader's own filters and limit.
ReadFirst(tenant, q, limit) ==
  LET held == Matching(tenant, q)
      page == Paginate(held, 0, limit)
  IN  /\ reader = NoReader
      /\ reader' = [tenant |-> tenant, q |-> q, limit |-> limit, cursor |-> page.nextCursor,
                    read |-> Numbers(page.items), atFirst |-> Numbers(held),
                    strayed |-> FALSE]
      /\ UNCHANGED <<listing, rows, clock>>

\* The page the last answer's cursor names.
ReadNext ==
  /\ reader # NoReader
  /\ reader.cursor # None
  /\ LET page == Paginate(Matching(reader.tenant, reader.q),
                          reader.cursor, reader.limit)
     IN  reader' = [reader EXCEPT !.cursor = page.nextCursor,
                                  !.read = @ \o Numbers(page.items)]
  /\ UNCHANGED <<listing, rows, clock>>

\* A cursor no answer gave.
ReadElsewhere(cursor) ==
  /\ reader # NoReader
  /\ reader.cursor # None
  /\ LET page == Paginate(Matching(reader.tenant, reader.q), cursor, reader.limit)
     IN  reader' = [reader EXCEPT !.cursor = None, !.strayed = TRUE,
                                  !.read = Numbers(page.items)]
  /\ UNCHANGED <<listing, rows, clock>>

Everything == [actor |-> None, from |-> None, to |-> None]

\* The runs have no filters.
Queries ==
  IF listing = "runs" THEN {Everything}
  ELSE {[actor |-> actor, from |-> from, to |-> to] :
          actor \in Actors \union {None}, from \in {None, 1}, to \in {None, 0}}

PagesNext ==
  \/ \E tenant \in Tenants :
       \/ \E actor \in Actors : AddRow(tenant, actor)
       \/ \E q \in Queries, limit \in PageSizes : ReadFirst(tenant, q, limit)
  \/ ClockTicks
  \/ ReadNext
  \/ \E cursor \in {None, -1, 1} : ReadElsewhere(cursor)

PagesSpec == PagesInit /\ [][PagesNext]_pageVars

-----------------------------------------------------------------------------
(* What a reader gets *)

\* A reader who follows the cursors to the end while the list grows has every row it
\* held at the first page.  Of the log it has the rows once each and in order, up to
\* the end of what was appended by then; a run it may see twice, but then another was
\* created meanwhile.  No page holds another tenant's row.
PagesComplete ==
  reader # NoReader =>
    LET held == Numbers(Matching(reader.tenant, reader.q))
        seen == ToSet(reader.read)
    IN  /\ \A no \in seen : rows[no + 1].tenant = reader.tenant
        /\ seen \subseteq ToSet(held)
        /\ ~reader.strayed =>
             /\ listing = "audit" => IsPrefix(reader.read, held)
             /\ reader.cursor = None => ToSet(reader.atFirst) \subseteq seen
             /\ Cardinality(seen) < Len(reader.read) => Len(held) > Len(reader.atFirst)
             /\ Len(reader.read) <= Len(held)

-----------------------------------------------------------------------------
(* Who reads over time: the pages of a list, and the bundles saved before a restart *)

ReadersSpec == PagesSpec /\ SigningKeysSpec

\* Who reads over time is not misled: a list read page by page while it grows has no
\* gaps, and a bundle saved before a restart is worth what it was worth before.
ReadersTold == PagesComplete /\ KeysInv
=============================================================================

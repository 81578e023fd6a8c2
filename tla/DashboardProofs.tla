--------------------------- MODULE DashboardProofs ---------------------------
(***************************************************************************)
(* The dashboard shows what its address names and what the server          *)
(* answered, for any number of pages opened, requests under way, dialogs   *)
(* and keys, whatever order the answers come in.                           *)
(***************************************************************************)
EXTENDS Settings, SequenceTheorems, TLAPS

-----------------------------------------------------------------------------
(* The API keys page *)

CallRecord ==
  [kind: {"list", "create", "revoke"}, number: Nat, key: Nat \union {None},
   served: BOOLEAN, answer: Seq(BOOLEAN) \union {None}, ok: Nat]
DialogRecord ==
  [kind: {"none", "create", "revoke", "secret"}, number: Nat, key: Nat \union {None},
   busy: BOOLEAN, error: BOOLEAN]

\* The shape of every variable of the page and of the key routes.
SettingsTypeOK ==
  /\ issued \in Seq(BOOLEAN) /\ lost \subseteq DOMAIN issued
  /\ asked \in Nat /\ latest \in Nat /\ latest <= asked /\ dialogs \in Nat
  /\ failed \in BOOLEAN /\ outrun \in BOOLEAN
  /\ dialog \in DialogRecord
  /\ underway \subseteq CallRecord

\* A list of keys the server had at some time.
Listing(a) == a \in Seq(BOOLEAN) /\ Len(a) <= Len(issued)

OnScreen(k) == dialog.kind = "secret" /\ dialog.key = k
Answered(kind, k) == \E q \in underway : q.kind = kind /\ q.served /\ q.ok = k

\* The page asked for no list since.
Unasked(kind, k) == Untold(kind, k) \in untold

\* What is known to revoke a key, or to make one, that a list lacks: an answer on its
\* way, something the page asks for no list after, or a new key on the screen.
GoneSince(k) == Answered("revoke", k) \/ Unasked("revoke", k)
MadeSince(k) == OnScreen(k) \/ Answered("create", k) \/ Unasked("create", k)

\* What a list lacks of the keys as they are is known.
Fresh(a) ==
  /\ \A k \in DOMAIN a : /\ a[k] => issued[k]
                         /\ issued[k] /\ ~a[k] => GoneSince(k)
  /\ \A k \in DOMAIN issued \ DOMAIN a : MadeSince(k)

\* Only the answer to the list asked for last counts, and it comes once.
ListsInOrder ==
  /\ table # None => Listing(table)
  /\ latest = asked /\ ~failed /\ ~outrun => table # None /\ Fresh(table)
  /\ latest = asked \/ \E q \in underway : q.kind = "list" /\ q.number = asked
  /\ \A q \in underway : q.kind = "list" =>
       /\ q.number <= asked
       /\ q.number = asked => latest # asked
       /\ q.served => Listing(q.answer) /\ (q.number = asked => Fresh(q.answer))
  /\ \A p, q \in underway :
       p.kind = "list" /\ q.kind = "list" /\ p.number = asked /\ q.number = asked => p = q

\* A dialog has at most one request, and one that waits has one.
DialogsServed ==
  /\ dialog.kind = "none" => dialog = NoDialog
  /\ dialog.kind # "none" => dialog.number \in 1..dialogs
  /\ dialog.busy =>
       /\ dialog.kind \in {"create", "revoke"}
       /\ \E q \in underway : q.kind = dialog.kind /\ q.number = dialog.number
  /\ dialog.kind = "revoke" => dialog.key \in DOMAIN issued
  /\ \A q \in underway : q.kind # "list" =>
       /\ q.number \in 1..dialogs
       /\ q.number = dialog.number => dialog.busy
       /\ q.kind = "revoke" => q.key \in DOMAIN issued
  /\ \A p, q \in underway :
       p.kind # "list" /\ q.kind # "list" /\ p.number = q.number => p = q

\* A new key is in one place: an answer on its way, the screen, or lost.
SecretsApart ==
  /\ \A q \in underway : q.kind = "create" /\ q.served /\ q.ok # 0 =>
       q.ok \in DOMAIN issued \ lost /\ ~OnScreen(q.ok)
  /\ \A p, q \in underway :
       /\ p.kind = "create" /\ p.served /\ q.kind = "create" /\ q.served
       /\ p.ok = q.ok /\ p.ok # 0
       => p = q
  /\ dialog.kind = "secret" => dialog.key \in DOMAIN issued /\ dialog.key \notin lost

\* The inductive invariant of the page.
KeysPageInv == SettingsTypeOK /\ ListsInOrder /\ DialogsServed /\ SecretsApart

-----------------------------------------------------------------------------
(* The pages of runs and bundles *)

\* An address of the dashboard.
Address(p) ==
  /\ p.at \in {"runs", "run", "bundle"}
  /\ p = Page(p.at, p.of)
  /\ p.at = "runs" => p = Home
  /\ p.at = "run" => p.of \in ShownRuns

\* What the mounted page may show, and what was opened to show it.
PlacesKept ==
  /\ mount \in Nat /\ effect \in Nat
  /\ place \in visited
  /\ \A p \in visited : Address(p)
  /\ \A q \in awaited : /\ q.mount \in Nat /\ q.mount <= mount
                        /\ q.effect \in Nat /\ q.effect <= effect
                        /\ q.kind \in {"get run", "generate", "generate here"} => q.of \in ShownRuns
  /\ DOMAIN listPage = DOMAIN NewList /\ DOMAIN runPage = DOMAIN NewRun
  /\ DOMAIN bundlePage = DOMAIN NewBundle
  /\ runPage.status = "ok" => runPage.run \in ShownRuns
  /\ made \in Seq(ShownRuns)

\* A bundle's page waits for the bundle its address names, and takes no other.
BundlesKept ==
  /\ \A q \in awaited : q.kind = "get bundle" /\ Live(q) =>
       place = Page("bundle", q.of) /\ Mounted(q)
  /\ place.at = "bundle" =>
       \/ bundlePage.error \/ bundlePage.bundle = place.of
       \/ \E q \in awaited : q.kind = "get bundle" /\ Live(q) /\ Mounted(q)
  /\ \A q \in awaited : q.kind = "verify" => Page("bundle", q.of) \in visited
  /\ bundlePage.verification # None => Page("bundle", bundlePage.verification) \in visited
  /\ tab # None => tab \in DOMAIN made /\ Page("bundle", tab) \in visited

\* Entries of a place the mounted page was at before are replaced when its run is.
Replaced ==
  /\ Can("audit:read")
  /\ \A q \in awaited : q.kind = "get run" /\ Mounted(q) => q.audit
  /\ runPage.status = "ok" => Waiting({"entries"})

RunsKept ==
  /\ \A q \in awaited : q.kind = "me" => q = Request("me", None, 0, 0) /\ scopes = None
  /\ \A q \in awaited : q.kind = "get run" /\ q.audit => Can("audit:read")
  /\ \A q \in awaited : q.kind = "entries" => Can("audit:read")
  /\ runPage.entries # None => Can("audit:read")
  /\ place.at = "run" =>
       /\ runPage.status = "loading" => Waiting({"get run"})
       /\ mount \notin raced =>
            /\ \A q \in awaited : q.kind \in {"get run", "entries"} /\ Mounted(q) =>
                 q.of = place.of
            /\ runPage.status = "ok" => runPage.run = place.of
            /\ runPage.entries \in {None, place.of} \/ Replaced

\* A page that is left takes what it waited for with it.
ButtonsKept ==
  /\ listPage.busy # None => place = Home /\ Waiting({"generate"})
  /\ runPage.busy => place.at = "run" /\ Waiting({"generate here"})
  /\ place = Home => listPage.listed \/ listPage.error \/ Waiting({"list runs"})

\* The inductive invariant of the pages.
PagesInv == PlacesKept /\ BundlesKept /\ RunsKept /\ ButtonsKept

-----------------------------------------------------------------------------
(* Lemmas about the API keys page *)

\* A request that was served is the same request with its answer.
LEMMA ResponseFacts ==
  ASSUME NEW q \in CallRecord, NEW a \in Seq(BOOLEAN) \union {None}, NEW ok \in Nat,
         Responds(q, a, ok)
  PROVE  \E r \in CallRecord :
           /\ underway' = (underway \ {q}) \union {r}
           /\ r.kind = q.kind /\ r.number = q.number /\ r.key = q.key
           /\ r.served /\ r.answer = a /\ r.ok = ok
<1>1. PICK r : r = [q EXCEPT !.served = TRUE, !.answer = a, !.ok = ok]
  OBVIOUS
<1>2. /\ r \in CallRecord
      /\ r.kind = q.kind /\ r.number = q.number /\ r.key = q.key
      /\ r.served /\ r.answer = a /\ r.ok = ok
  BY <1>1 DEF CallRecord
<1>3. underway' = (underway \ {q}) \union {r}
  BY <1>1 DEF Responds
<1> QED
  BY <1>2, <1>3

\* A request that was just sent.
LEMMA CallFacts ==
  ASSUME NEW kind \in {"list", "create", "revoke"}, NEW n \in Nat, NEW key \in Nat \union {None}
  PROVE  /\ Call(kind, n, key) \in CallRecord
         /\ Call(kind, n, key).kind = kind /\ Call(kind, n, key).number = n
         /\ Call(kind, n, key).key = key
         /\ ~Call(kind, n, key).served /\ Call(kind, n, key).ok = 0
BY DEF Call, CallRecord

\* What "Create API key" and "Revoke key" send.
LEMMA SubmitFacts ==
  ASSUME SettingsTypeOK, Submit
  PROVE  \E c \in CallRecord :
           /\ underway' = underway \union {c}
           /\ c.kind = dialog.kind /\ c.number = dialog.number /\ c.key = dialog.key
           /\ ~c.served /\ c.ok = 0
<1>1. dialog.kind \in {"list", "create", "revoke"} /\ dialog.number \in Nat
      /\ dialog.key \in Nat \union {None}
  BY DEF SettingsTypeOK, DialogRecord, Submit
<1>2. PICK c : c = Call(dialog.kind, dialog.number, dialog.key)
  OBVIOUS
<1>3. /\ c \in CallRecord /\ c.kind = dialog.kind /\ c.number = dialog.number
      /\ c.key = dialog.key /\ ~c.served /\ c.ok = 0
  BY <1>1, <1>2 DEF Call, CallRecord
<1>4. underway' = underway \union {c}
  BY <1>2 DEF Submit
<1> QED
  BY <1>3, <1>4

\* The keys after a revocation was served: none changed, or the one it names.
LEMMA RevokedKeys ==
  ASSUME KeysPageInv, NEW q \in underway, ServeRevoke(q)
  PROVE  /\ q.key \in DOMAIN issued /\ q.key \in Nat
         /\ issued' \in Seq(BOOLEAN)
         /\ Len(issued') = Len(issued) /\ DOMAIN issued' = DOMAIN issued
         /\ \A k \in DOMAIN issued : issued[k] => issued'[k]
         /\ \A k \in DOMAIN issued \ {q.key} : issued'[k] = issued[k]
         /\ issued' = issued \/ ~issued[q.key]
<1>1. issued \in Seq(BOOLEAN) /\ q.key \in DOMAIN issued
  BY DEF ServeRevoke, KeysPageInv, DialogsServed, SettingsTypeOK
<1>2. PICK n \in Nat : n = Len(issued) /\ DOMAIN issued = 1..n
  BY <1>1
<1>3. q.key \in 1..Len(issued) /\ TRUE \in BOOLEAN /\ q.key \in Nat
  BY <1>1, <1>2
<1>4. CASE issued' = [issued EXCEPT ![q.key] = TRUE] /\ ~issued[q.key]
  <2>1. /\ [issued EXCEPT ![q.key] = TRUE] \in Seq(BOOLEAN)
        /\ Len([issued EXCEPT ![q.key] = TRUE]) = Len(issued)
    BY <1>1, <1>3, ExceptSeq
  <2>2. issued' \in Seq(BOOLEAN) /\ Len(issued') = Len(issued)
    BY <1>4, <2>1, Zenon
  <2>3. /\ DOMAIN issued' = DOMAIN issued /\ issued'[q.key]
        /\ \A k \in DOMAIN issued \ {q.key} : issued'[k] = issued[k]
    BY <1>1, <1>4
  <2> QED
    BY <1>1, <1>3, <1>4, <2>2, <2>3
<1>5. CASE issued' = issued
  BY <1>1, <1>3, <1>5
<1> QED
  BY <1>4, <1>5 DEF ServeRevoke

\* Every variable keeps its shape.
LEMMA SettingsTypeStep ==
  ASSUME KeysPageInv, [SettingsNext]_settingsVars
  PROVE  SettingsTypeOK'
<1>1. /\ SettingsTypeOK
      /\ table # None => Listing(table)
  BY DEF KeysPageInv, ListsInOrder
<1>2. ASSUME NEW kind \in {"create", "revoke"}, NEW key \in Nat \union {None},
             OpenDialog(kind, key)
      PROVE  SettingsTypeOK'
  <2>1. dialogs \in Nat
    BY <1>1 DEF SettingsTypeOK
  <2>2. dialog' = [NoDialog EXCEPT !.kind = kind, !.number = dialogs + 1, !.key = key]
    BY <1>2 DEF OpenDialog
  <2>3. dialog' = [kind |-> kind, number |-> dialogs + 1, key |-> key, busy |-> FALSE,
                   error |-> FALSE]
    BY <2>2, Zenon DEF NoDialog
  <2>4. dialog' \in DialogRecord
    BY <2>1, <2>3 DEF DialogRecord
  <2> QED
    BY <1>1, <1>2, <2>1, <2>4 DEF OpenDialog, SettingsTypeOK
<1>3. ASSUME OpenCreate PROVE SettingsTypeOK'
  BY <1>2, <1>3 DEF OpenCreate
<1>4. ASSUME NEW k \in 1..MaxKeys, OpenRevoke(k) PROVE SettingsTypeOK'
  <2>1. k \in Nat
    BY <1>1, <1>4 DEF OpenRevoke, Listing
  <2> QED
    BY <1>2, <1>4, <2>1 DEF OpenRevoke
<1>5. ASSUME Submit PROVE SettingsTypeOK'
  <2>1. Call(dialog.kind, dialog.number, dialog.key) \in CallRecord
    BY <1>1, <1>5, CallFacts DEF Submit, SettingsTypeOK, DialogRecord
  <2>2. dialog' \in DialogRecord
    BY <1>1, <1>5 DEF Submit, SettingsTypeOK, DialogRecord
  <2> QED
    BY <1>1, <1>5, <2>1, <2>2 DEF Submit, SettingsTypeOK
<1>6. ASSUME Cancel PROVE SettingsTypeOK'
  BY <1>1, <1>6 DEF Cancel, SettingsTypeOK, DialogRecord, NoDialog
<1>7. ASSUME NEW rest \in SUBSET underway, ReloadList(rest)
      PROVE  underway' \subseteq CallRecord /\ asked' \in Nat /\ asked' = asked + 1
  <2>1. asked \in Nat /\ asked + 1 \in Nat /\ underway \subseteq CallRecord
    BY <1>1 DEF SettingsTypeOK
  <2>2. Call("list", asked + 1, None) \in CallRecord
    <3>0. "list" \in {"list", "create", "revoke"} /\ None \in Nat \union {None}
      OBVIOUS
    <3>1. PICK n \in Nat : n = asked + 1
      BY <2>1
    <3>2. Call("list", n, None) \in CallRecord
      BY <3>0, CallFacts
    <3> QED
      BY <3>1, <3>2
  <2> QED
    BY <1>7, <2>1, <2>2 DEF ReloadList
<1>8. NoDialog \in DialogRecord
  BY DEF NoDialog, DialogRecord
<1>9. ASSUME Done PROVE SettingsTypeOK'
  BY <1>1, <1>7, <1>8, <1>9 DEF Done, SettingsTypeOK
<1>10. ASSUME NEW q \in underway, ServeList(q) PROVE SettingsTypeOK'
  <2>1. underway' \subseteq CallRecord
    BY <1>1, <1>10, ResponseFacts DEF ServeList, SettingsTypeOK
  <2> QED
    BY <1>1, <1>10, <2>1 DEF ServeList, SettingsTypeOK
<1>11. ASSUME NEW q \in underway, ServeCreate(q) PROVE SettingsTypeOK'
  <2>1. issued' \in Seq(BOOLEAN) /\ DOMAIN issued \subseteq DOMAIN issued' /\ Len(issued') \in Nat
    <3>1. issued \in Seq(BOOLEAN)
      BY <1>1 DEF SettingsTypeOK
    <3>2. issued' \in {issued, Append(issued, FALSE)}
      BY <1>11 DEF ServeCreate
    <3>3. /\ Append(issued, FALSE) \in Seq(BOOLEAN)
          /\ Len(Append(issued, FALSE)) = Len(issued) + 1
      BY <3>1, FALSE \in BOOLEAN, AppendProperties, Zenon
    <3>4. issued' \in Seq(BOOLEAN) /\ (Len(issued') = Len(issued) \/ Len(issued') = Len(issued) + 1)
      BY <3>1, <3>2, <3>3, Zenon
    <3>5. DOMAIN issued = 1..Len(issued) /\ DOMAIN issued' = 1..Len(issued') /\ Len(issued) \in Nat
      BY <3>1, <3>4, LenProperties
    <3>6. DOMAIN issued \subseteq DOMAIN issued' /\ Len(issued') \in Nat
      <4>0. PICK n \in Nat : n = Len(issued)
        BY <3>5
      <4>1. PICK m \in Nat : m = Len(issued') /\ n <= m
        <5>1. Len(issued') = n \/ Len(issued') = n + 1
          BY <3>4, <4>0, Zenon
        <5> QED
          BY <5>1
      <4>2. 1..n \subseteq 1..m
        BY <4>1
      <4> QED
        BY <3>5, <4>0, <4>1, <4>2, Zenon
    <3> QED
      BY <3>4, <3>6, Zenon
  <2>2. underway' \subseteq CallRecord
    <3>1. PICK ok \in Nat : Responds(q, None, ok)
      BY <1>11, <2>1 DEF ServeCreate
    <3>2. q \in CallRecord /\ underway \subseteq CallRecord
      BY <1>1 DEF SettingsTypeOK
    <3> QED
      BY <3>1, <3>2, ResponseFacts
  <2>3. lost' \subseteq DOMAIN issued'
    <3>1. lost \subseteq DOMAIN issued'
      BY <1>1, <2>1 DEF SettingsTypeOK
    <3>2. CASE lost' = lost
      BY <3>1, <3>2
    <3>3. CASE issued' = Append(issued, FALSE) /\ lost' = lost \union {Len(issued')}
      <4>1. PICK n \in Nat : n = Len(issued)
        BY <1>1 DEF SettingsTypeOK
      <4>2. issued' \in Seq(BOOLEAN) /\ Len(issued') = n + 1
        BY <1>1, <3>3, <4>1, FALSE \in BOOLEAN, AppendProperties, Zenon DEF SettingsTypeOK
      <4>3. DOMAIN issued' = 1..(n + 1)
        BY <4>2, LenProperties
      <4> QED
        BY <3>1, <3>3, <4>2, <4>3
    <3> QED
      BY <1>11, <3>2, <3>3 DEF ServeCreate
  <2> QED
    BY <1>1, <1>11, <2>1, <2>2, <2>3 DEF ServeCreate, SettingsTypeOK
<1>12. ASSUME NEW q \in underway, ServeRevoke(q) PROVE SettingsTypeOK'
  <2>1. q.key \in DOMAIN issued /\ q.key \in Nat
    BY <1>12, RevokedKeys
  <2>2. issued' \in Seq(BOOLEAN) /\ DOMAIN issued' = DOMAIN issued
    BY <1>12, RevokedKeys
  <2>3. underway' \subseteq CallRecord
    <3>1. PICK ok \in Nat : Responds(q, None, ok)
      BY <1>12, <2>1 DEF ServeRevoke
    <3>2. q \in CallRecord /\ underway \subseteq CallRecord
      BY <1>1 DEF SettingsTypeOK
    <3> QED
      BY <3>1, <3>2, ResponseFacts
  <2> QED
    BY <1>1, <1>12, <2>2, <2>3 DEF ServeRevoke, SettingsTypeOK
<1>13. ASSUME NEW q \in underway, NEW ok \in BOOLEAN, ListAnswered(q, ok) PROVE SettingsTypeOK'
  <2>1. q.number \in Nat /\ q.number <= asked
    BY <1>1, <1>13 DEF ListAnswered, KeysPageInv, ListsInOrder, SettingsTypeOK, CallRecord
  <2> QED
    BY <1>1, <1>13, <2>1 DEF ListAnswered, SettingsTypeOK
<1>14. ASSUME NEW q \in underway, CreateAnswered(q) PROVE SettingsTypeOK'
  <2>1. q.ok \in Nat /\ (q.ok # 0 => q.ok \in DOMAIN issued)
    BY <1>1, <1>14 DEF CreateAnswered, KeysPageInv, SecretsApart, SettingsTypeOK, CallRecord
  <2>2. dialog' \in DialogRecord
    BY <1>1, <1>14, <2>1 DEF CreateAnswered, SettingsTypeOK, DialogRecord
  <2>3. lost' \subseteq DOMAIN issued
    BY <1>1, <1>14, <2>1 DEF CreateAnswered, SettingsTypeOK
  <2> QED
    BY <1>1, <1>14, <2>2, <2>3 DEF CreateAnswered, SettingsTypeOK
<1>15. ASSUME NEW q \in underway, RevokeAnswered(q) PROVE SettingsTypeOK'
  <2>1. dialog' \in DialogRecord
    BY <1>1, <1>8, <1>15 DEF RevokeAnswered, OnRevoked, SettingsTypeOK, DialogRecord
  <2>2. /\ underway' \subseteq CallRecord
        /\ asked' \in Nat /\ asked <= asked'
    BY <1>1, <1>7, <1>15 DEF RevokeAnswered, OnRevoked, SettingsTypeOK
  <2> QED
    BY <1>1, <1>15, <2>1, <2>2 DEF RevokeAnswered, SettingsTypeOK
<1>16. CASE UNCHANGED settingsVars
  BY <1>1, <1>16 DEF settingsVars, SettingsTypeOK
<1> QED
  BY <1>3, <1>4, <1>5, <1>6, <1>9, <1>10, <1>11, <1>12, <1>13, <1>14, <1>15, <1>16
  DEF SettingsNext

\* The keys of a list are keys of the server.
LEMMA ListingKeys ==
  ASSUME issued \in Seq(BOOLEAN), NEW a, Listing(a)
  PROVE  DOMAIN a \subseteq DOMAIN issued
<1>1. PICK n \in Nat, m \in Nat : n = Len(a) /\ m = Len(issued) /\ n <= m
  BY DEF Listing
<1>2. 1..n \subseteq 1..m
  BY <1>1
<1>3. DOMAIN a = 1..n /\ DOMAIN issued = 1..m
  BY <1>1, LenProperties DEF Listing
<1> QED
  BY <1>2, <1>3

\* What the page asked for no list after, while it asks for none.
LEMMA UnaskedKept ==
  ASSUME asked' = asked, untold \subseteq untold'
  PROVE  \A kind, k : Unasked(kind, k) => Unasked(kind, k)'
BY DEF Unasked, Untold

\* What is known stays known, but for the answers that arrive and the screen.
LEMMA SinceKept ==
  ASSUME asked' = asked, untold \subseteq untold', NEW k,
         Answered("revoke", k) => Answered("revoke", k)',
         OnScreen(k) => OnScreen(k)',
         Answered("create", k) => MadeSince(k)'
  PROVE  (GoneSince(k) => GoneSince(k)') /\ (MadeSince(k) => MadeSince(k)')
BY UnaskedKept, Zenon DEF GoneSince, MadeSince

\* What a list lacks, it still lacks for the same reason.
LEMMA FreshKept ==
  ASSUME NEW a, Fresh(a), Listing(a), issued' = issued, issued \in Seq(BOOLEAN),
         \A k \in DOMAIN issued : /\ GoneSince(k) => GoneSince(k)'
                                  /\ MadeSince(k) => MadeSince(k)'
  PROVE  Fresh(a)'
<1>1. DOMAIN a \subseteq DOMAIN issued
  BY ListingKeys
<1>2. \A k \in DOMAIN a : /\ a[k] => issued'[k]
                          /\ issued'[k] /\ ~a[k] => GoneSince(k)'
  BY <1>1, Zenon DEF Fresh
<1>3. \A k \in DOMAIN issued' \ DOMAIN a : MadeSince(k)'
  BY Zenon DEF Fresh
<1> QED
  BY <1>2, <1>3, Zenon DEF Fresh

\* A step that neither asks for a list, nor serves or answers one.
LEMMA OrderKept ==
  ASSUME KeysPageInv, UNCHANGED <<table, failed, asked, latest, outrun>>,
         Len(issued) <= Len(issued'),
         Len(issued) \in Nat, Len(issued') \in Nat,
         \A a : Listing(a) /\ Fresh(a) => Fresh(a)',
         \A q : q.kind = "list" => (q \in underway' <=> q \in underway)
  PROVE  ListsInOrder'
<1>1. ListsInOrder
  BY DEF KeysPageInv
<1>2. \A a : Listing(a) => Listing(a)'
  <2>1. SUFFICES ASSUME NEW a, Listing(a) PROVE Listing(a)'
    OBVIOUS
  <2>2. Len(a) \in Nat /\ Len(a) <= Len(issued) /\ a \in Seq(BOOLEAN)
    BY <2>1 DEF Listing
  <2>3. Len(a) <= Len(issued')
    BY <2>2
  <2> QED
    BY <2>2, <2>3 DEF Listing
<1>3. (table # None => Listing(table))'
  <2>1. table # None => Listing(table)
    BY <1>1 DEF ListsInOrder
  <2>2. Listing(table) => Listing(table)'
    BY <1>2 DEF Listing
  <2> QED
    BY <2>1, <2>2
<1>4. (latest = asked /\ ~failed /\ ~outrun => table # None /\ Fresh(table))'
  <2>1. latest = asked /\ ~failed /\ ~outrun => table # None /\ Listing(table) /\ Fresh(table)
    BY <1>1 DEF ListsInOrder
  <2>2. Listing(table) /\ Fresh(table) => Fresh(table)'
    <3>1. PICK t : t = table
      OBVIOUS
    <3>2. Listing(t) /\ Fresh(t) => Fresh(t)'
      OBVIOUS
    <3> QED
      BY <3>1, <3>2 DEF Fresh, Listing
  <2> QED
    BY <2>1, <2>2
<1>5. (latest = asked \/ \E q \in underway : q.kind = "list" /\ q.number = asked)'
  BY <1>1 DEF ListsInOrder
<1>6. ASSUME NEW q \in underway', q.kind = "list"
      PROVE  /\ q.number <= asked'
             /\ q.number = asked' => latest' # asked'
             /\ q.served => Listing(q.answer)' /\ (q.number = asked' => Fresh(q.answer)')
  <2>1. q \in underway
    BY <1>6
  <2>2. /\ q.number <= asked
        /\ q.number = asked => latest # asked
        /\ q.served => Listing(q.answer) /\ (q.number = asked => Fresh(q.answer))
    BY <1>1, <1>6, <2>1, Zenon DEF ListsInOrder
  <2> QED
    BY <1>2, <2>2, Zenon
<1>7. (\A p, q \in underway :
         p.kind = "list" /\ q.kind = "list" /\ p.number = asked /\ q.number = asked => p = q)'
  BY <1>1, Zenon DEF ListsInOrder
<1> QED
  BY <1>3, <1>4, <1>5, <1>6, <1>7, Zenon DEF ListsInOrder

\* A list asked for is the one that counts from now on.
LEMMA OrderReloads ==
  ASSUME KeysPageInv, NEW rest \in SUBSET underway, ReloadList(rest),
         UNCHANGED <<issued, table, latest>>
  PROVE  ListsInOrder'
<1>1. ListsInOrder /\ SettingsTypeOK
  BY DEF KeysPageInv
<1>2. asked \in Nat /\ asked' = asked + 1 /\ latest \in Nat /\ latest <= asked
  BY <1>1 DEF SettingsTypeOK, ReloadList
<1>3. latest' # asked'
  BY <1>2
<1>4. PICK n \in Nat : n = asked + 1
  BY <1>2
<1>5. PICK new : new = Call("list", n, None)
  OBVIOUS
<1>6. new.kind = "list" /\ new.number = asked' /\ ~new.served
  <2>1. "list" \in {"list", "create", "revoke"} /\ None \in Nat \union {None}
    OBVIOUS
  <2>2. new.kind = "list" /\ new.number = n /\ ~new.served
    <3>1. /\ Call("list", n, None).kind = "list" /\ Call("list", n, None).number = n
          /\ ~Call("list", n, None).served
      BY DEF Call
    <3> QED
      BY <1>5, <3>1
  <2> QED
    BY <1>2, <1>4, <2>2
<1>7. underway' = rest \union {new}
  BY <1>4, <1>5 DEF ReloadList
<1>8. \A q \in rest : q.kind = "list" =>
        /\ q.number < asked'
        /\ q.served => Listing(q.answer)
  <2>1. ASSUME NEW q \in rest, q.kind = "list"
        PROVE  q.number < asked' /\ (q.served => Listing(q.answer))
    <3>1. q.number \in Nat /\ q.number <= asked /\ (q.served => Listing(q.answer))
      BY <1>1, <2>1 DEF ListsInOrder, SettingsTypeOK, CallRecord
    <3> QED
      BY <1>2, <3>1
  <2> QED
    BY <2>1
<1>9. \A a : Listing(a) => Listing(a)'
  BY DEF Listing
<1>10. (table # None => Listing(table))'
  BY <1>1 DEF ListsInOrder, Listing
<1>11. ASSUME NEW q \in underway', q.kind = "list"
      PROVE  /\ q.number <= asked'
             /\ q.number = asked' => q = new
             /\ q.served => Listing(q.answer)' /\ q.number # asked'
  <2>1. CASE q = new
    BY <1>2, <1>6, <2>1
  <2>2. CASE q \in rest
    <3>1. q.number \in Nat
      BY <1>1, <2>2 DEF SettingsTypeOK, CallRecord
    <3> QED
      BY <1>2, <1>8, <1>9, <1>11, <2>2, <3>1
  <2> QED
    BY <1>7, <2>1, <2>2
<1>12. new \in underway'
  BY <1>7
<1> QED
  BY <1>3, <1>6, <1>10, <1>11, <1>12, Zenon DEF ListsInOrder

\* A list is answered with the keys as they are.
LEMMA ListServed ==
  ASSUME KeysPageInv, NEW q \in underway, ServeList(q) PROVE ListsInOrder'
<1>1. /\ SettingsTypeOK /\ ListsInOrder
      /\ issued \in Seq(BOOLEAN) /\ Len(issued) \in Nat /\ q \in CallRecord
  BY LenProperties DEF KeysPageInv, SettingsTypeOK
<1>2. UNCHANGED <<issued, table, failed, dialog, asked, latest, outrun, untold>>
  BY DEF ServeList
<1>3. q.kind = "list" /\ ~q.served
  BY DEF ServeList
<1>4. PICK r \in CallRecord :
        /\ underway' = (underway \ {q}) \union {r}
        /\ r.kind = "list" /\ r.number = q.number /\ r.served /\ r.answer = issued
  BY <1>1, ResponseFacts DEF ServeList
<1>5. \A kind, k : kind # "list" /\ Answered(kind, k) => Answered(kind, k)'
  BY <1>3, <1>4 DEF Answered
<1>6. \A a : Listing(a) /\ Fresh(a) => Fresh(a)'
  <2>1. ASSUME NEW k
        PROVE  (GoneSince(k) => GoneSince(k)') /\ (MadeSince(k) => MadeSince(k)')
    <3>1. OnScreen(k) => OnScreen(k)'
      BY <1>2 DEF OnScreen
    <3>2. Answered("revoke", k) => Answered("revoke", k)'
      BY <1>5
    <3>3. Answered("create", k) => MadeSince(k)'
      BY <1>5 DEF MadeSince
    <3> QED
      BY <1>2, <3>1, <3>2, <3>3, SinceKept
  <2>2. ASSUME NEW a, Listing(a), Fresh(a) PROVE Fresh(a)'
    BY <1>1, <1>2, <2>1, <2>2, FreshKept
  <2> QED
    BY <2>2
<1>7. \A a : Listing(a) => Listing(a)'
  BY <1>2 DEF Listing
<1>8. Listing(r.answer)' /\ Fresh(r.answer)'
  BY <1>1, <1>2, <1>4 DEF Listing, Fresh
<1>9. (table # None => Listing(table))'
  BY <1>1, <1>2 DEF ListsInOrder, Listing
<1>10. (latest = asked /\ ~failed /\ ~outrun => table # None /\ Fresh(table))'
  <2>1. PICK t : t = table
    OBVIOUS
  <2>2. latest = asked /\ ~failed /\ ~outrun => t # None /\ Listing(t) /\ Fresh(t)
    BY <1>1, <2>1 DEF ListsInOrder, Listing, Fresh
  <2>3. latest = asked /\ ~failed /\ ~outrun => t # None /\ Fresh(t)'
    BY <1>6, <2>2
  <2> QED
    BY <1>2, <2>1, <2>3 DEF Fresh
<1>11. (latest = asked \/ \E p \in underway : p.kind = "list" /\ p.number = asked)'
  BY <1>1, <1>2, <1>4 DEF ListsInOrder
<1>12. ASSUME NEW p \in underway', p.kind = "list"
       PROVE  /\ p.number <= asked'
              /\ p.number = asked' => latest' # asked'
              /\ p.served => Listing(p.answer)' /\ (p.number = asked' => Fresh(p.answer)')
  <2>1. CASE p = r
    BY <1>1, <1>2, <1>3, <1>4, <1>8, <2>1 DEF ListsInOrder
  <2>2. CASE p \in underway
    BY <1>1, <1>2, <1>6, <1>7, <1>12, <2>2, Zenon DEF ListsInOrder
  <2> QED
    BY <1>4, <2>1, <2>2
<1>13. (\A o, p \in underway :
          o.kind = "list" /\ p.kind = "list" /\ o.number = asked /\ p.number = asked => o = p)'
  BY <1>1, <1>2, <1>3, <1>4 DEF ListsInOrder
<1> QED
  BY <1>9, <1>10, <1>11, <1>12, <1>13, Zenon DEF ListsInOrder

\* A new key is in the answer that carries its secret, or no list is asked for.
LEMMA CreateServed ==
  ASSUME KeysPageInv, NEW q \in underway, ServeCreate(q) PROVE ListsInOrder'
<1>1. /\ SettingsTypeOK
      /\ issued \in Seq(BOOLEAN) /\ Len(issued) \in Nat /\ q \in CallRecord
  BY LenProperties DEF KeysPageInv, SettingsTypeOK
<1>2. UNCHANGED <<table, failed, dialog, asked, latest, outrun>> /\ untold \subseteq untold'
  BY DEF ServeCreate
<1>3. q.kind = "create" /\ ~q.served
  BY DEF ServeCreate
<1>4. PICK n \in Nat : n = Len(issued) /\ DOMAIN issued = 1..n
  BY <1>1, LenProperties
<1>5. PICK ok \in Nat : Responds(q, None, ok) /\ (issued' # issued =>
          issued' = Append(issued, FALSE) /\ (ok = n + 1 \/ Unasked("create", n + 1)'))
  <2>1. CASE issued' = Append(issued, FALSE)
    <3>1. Len(issued') = n + 1
      BY <1>1, <1>4, <2>1, FALSE \in BOOLEAN, AppendProperties, Zenon
    <3>2. CASE Responds(q, None, Len(issued'))
      <4>1. PICK m \in Nat : m = n + 1
        OBVIOUS
      <4>2. Responds(q, None, m)
        BY <3>1, <3>2, <4>1, Zenon
      <4> QED
        BY <2>1, <4>1, <4>2
    <3>3. CASE Responds(q, None, 0) /\ Untold("create", Len(issued')) \in untold'
      <4>1. Unasked("create", n + 1)'
        BY <1>2, <3>1, <3>3 DEF Unasked, Untold
      <4> QED
        BY <2>1, <3>3, <4>1
    <3> QED
      BY <3>2, <3>3 DEF ServeCreate
  <2>2. CASE issued' = issued /\ Responds(q, None, 0)
    BY <2>2
  <2> QED
    BY <2>1, <2>2 DEF ServeCreate
<1>6. PICK r \in CallRecord : /\ underway' = (underway \ {q}) \union {r}
                              /\ r.kind = "create" /\ r.served /\ r.ok = ok
  BY <1>1, <1>3, <1>5, ResponseFacts, SMTT(60)
<1>7. ASSUME NEW k
      PROVE  (GoneSince(k) => GoneSince(k)') /\ (MadeSince(k) => MadeSince(k)')
  <2>1. \A kind : Answered(kind, k) => Answered(kind, k)'
    BY <1>3, <1>6 DEF Answered
  <2>2. OnScreen(k) => OnScreen(k)'
    BY <1>2 DEF OnScreen
  <2>3. Answered("create", k) => MadeSince(k)'
    BY <2>1 DEF MadeSince
  <2> QED
    BY <1>2, <2>1, <2>2, <2>3, SinceKept
<1>8. \A p : p.kind = "list" => (p \in underway' <=> p \in underway)
  BY <1>3, <1>6
<1>9. CASE issued' = issued
  <2>1. ASSUME NEW a, Listing(a), Fresh(a) PROVE Fresh(a)'
    BY <1>1, <1>7, <1>9, <2>1, FreshKept
  <2> QED
    BY <1>1, <1>2, <1>8, <1>9, <2>1, OrderKept
<1>10. CASE issued' = Append(issued, FALSE) /\ (ok = n + 1 \/ Unasked("create", n + 1)')
  <2>1. /\ issued' \in Seq(BOOLEAN) /\ Len(issued') = n + 1
        /\ \A k \in 1..n : issued'[k] = issued[k]
    BY <1>1, <1>4, <1>10, FALSE \in BOOLEAN, AppendProperties, ZenonT(60)
  <2>2. DOMAIN issued' = 1..(n + 1)
    BY <2>1, LenProperties
  <2>4. PICK m \in Nat : m = n + 1
    OBVIOUS
  <2>5. \A k \in DOMAIN issued' : k \in DOMAIN issued \/ k = m
    BY <1>4, <2>2, <2>4
  <2>6. MadeSince(m)'
    <3>1. CASE ok = n + 1
      BY <1>6, <2>4, <3>1 DEF MadeSince, Answered
    <3>2. CASE Unasked("create", n + 1)'
      BY <2>4, <3>2 DEF MadeSince, Unasked, Untold
    <3> QED
      BY <1>10, <3>1, <3>2
  <2>7. ASSUME NEW a, Listing(a), Fresh(a) PROVE Fresh(a)'
    <3>1. DOMAIN a \subseteq DOMAIN issued
      BY <1>1, <2>7, ListingKeys
    <3>2. \A k \in DOMAIN issued : issued'[k] = issued[k]
      BY <1>4, <2>1
    <3>3. \A k \in DOMAIN a : /\ a[k] => issued'[k]
                              /\ issued'[k] /\ ~a[k] => GoneSince(k)'
      BY <1>7, <2>7, <3>1, <3>2, Zenon DEF Fresh
    <3>4. ASSUME NEW k \in DOMAIN issued', k \notin DOMAIN a PROVE MadeSince(k)'
      <4>1. CASE k \in DOMAIN issued
        BY <1>7, <2>7, <3>4, <4>1, Zenon DEF Fresh
      <4>2. CASE k = m
        <5>1. PICK l : l = k
          OBVIOUS
        <5> QED
          BY <2>6, <4>2, Zenon DEF MadeSince, OnScreen, Answered, Unasked, Untold
      <4> QED
        BY <2>5, <4>1, <4>2
    <3> QED
      BY <3>3, <3>4, Zenon DEF Fresh
  <2>8. Len(issued) <= Len(issued') /\ Len(issued') \in Nat
    BY <1>4, <2>1
  <2> QED
    BY <1>1, <1>2, <1>8, <2>7, <2>8, OrderKept
<1> QED
  BY <1>5, <1>9, <1>10

\* A key that was just revoked is in the answer that says so, or no list is asked for.
LEMMA RevokeServed ==
  ASSUME KeysPageInv, NEW q \in underway, ServeRevoke(q) PROVE ListsInOrder'
<1>1. /\ SettingsTypeOK
      /\ issued \in Seq(BOOLEAN) /\ Len(issued) \in Nat /\ q \in CallRecord
  BY LenProperties DEF KeysPageInv, SettingsTypeOK
<1>2. UNCHANGED <<table, failed, dialog, asked, latest, outrun>> /\ untold \subseteq untold'
  BY DEF ServeRevoke
<1>3. q.kind = "revoke" /\ ~q.served
  BY DEF ServeRevoke
<1>4. /\ q.key \in DOMAIN issued /\ q.key \in Nat
      /\ issued' \in Seq(BOOLEAN) /\ Len(issued') = Len(issued)
      /\ DOMAIN issued' = DOMAIN issued
      /\ \A k \in DOMAIN issued : issued[k] => issued'[k]
      /\ \A k \in DOMAIN issued \ {q.key} : issued'[k] = issued[k]
  BY RevokedKeys
<1>5. PICK key \in Nat : key = q.key
  BY <1>4
<1>6. PICK ok \in Nat : /\ Responds(q, None, ok)
                        /\ issued' # issued => ok = key \/ Unasked("revoke", key)'
  <2>1. CASE Responds(q, None, q.key)
    BY <1>5, <2>1
  <2>2. CASE Responds(q, None, 0) /\ Untold("revoke", q.key) \in untold'
    BY <1>2, <1>5, <2>2 DEF Unasked, Untold
  <2>3. CASE Responds(q, None, 0) /\ issued' = issued
    BY <2>3
  <2> QED
    BY <2>1, <2>2, <2>3 DEF ServeRevoke
<1>7. PICK r \in CallRecord : /\ underway' = (underway \ {q}) \union {r}
                              /\ r.kind = "revoke" /\ r.served /\ r.ok = ok
  BY <1>1, <1>3, <1>6, ResponseFacts, SMTT(60)
<1>8. ASSUME NEW k
      PROVE  (GoneSince(k) => GoneSince(k)') /\ (MadeSince(k) => MadeSince(k)')
  <2>1. \A kind : Answered(kind, k) => Answered(kind, k)'
    BY <1>3, <1>7 DEF Answered
  <2>2. OnScreen(k) => OnScreen(k)'
    BY <1>2 DEF OnScreen
  <2>3. Answered("create", k) => MadeSince(k)'
    BY <2>1 DEF MadeSince
  <2> QED
    BY <1>2, <2>1, <2>2, <2>3, SinceKept
<1>9. issued' # issued => GoneSince(key)'
  BY <1>6, <1>7 DEF GoneSince, Answered
<1>10. ASSUME NEW a, Listing(a), Fresh(a) PROVE Fresh(a)'
  <2>1. DOMAIN a \subseteq DOMAIN issued
    BY <1>1, <1>10, ListingKeys
  <2>2. ASSUME NEW k \in DOMAIN a
        PROVE  (a[k] => issued'[k]) /\ (issued'[k] /\ ~a[k] => GoneSince(k)')
    <3>1. k \in DOMAIN issued /\ (a[k] => issued[k]) /\ (issued[k] /\ ~a[k] => GoneSince(k))
      BY <1>10, <2>1 DEF Fresh
    <3>2. a[k] => issued'[k]
      BY <1>4, <3>1
    <3>3. CASE issued'[k] = issued[k]
      BY <1>8, <3>1, <3>2, <3>3
    <3>4. CASE issued'[k] # issued[k]
      <4>1. k = key
        BY <1>4, <1>5, <3>1, <3>4
      <4>2. issued' # issued
        BY <3>4
      <4> QED
        BY <1>9, <3>2, <4>1, <4>2, Zenon DEF GoneSince, Answered, Unasked, Untold
    <3> QED
      BY <3>3, <3>4
  <2>3. \A k \in DOMAIN issued' \ DOMAIN a : MadeSince(k)'
    BY <1>4, <1>8, <1>10 DEF Fresh
  <2> QED
    BY <2>2, <2>3, Zenon DEF Fresh
<1>11. \A p : p.kind = "list" => (p \in underway' <=> p \in underway)
  BY <1>3, <1>7
<1>12. Len(issued) <= Len(issued') /\ Len(issued') \in Nat
  BY <1>1, <1>4
<1> QED
  BY <1>1, <1>2, <1>10, <1>11, <1>12, OrderKept

\* The answer to the list asked for last, or one that no longer counts.
LEMMA ListReturned ==
  ASSUME KeysPageInv, NEW q \in underway, NEW ok \in BOOLEAN, ListAnswered(q, ok)
  PROVE  ListsInOrder'
<1>1. /\ SettingsTypeOK /\ ListsInOrder
      /\ issued \in Seq(BOOLEAN) /\ q \in CallRecord /\ underway \subseteq CallRecord
  BY DEF KeysPageInv, SettingsTypeOK
<1>2. UNCHANGED <<issued, dialog, asked, untold>>
  BY DEF ListAnswered
<1>3. /\ q.kind = "list" /\ q.served /\ underway' = underway \ {q}
      /\ table' = IF ok THEN q.answer ELSE table
      /\ failed' = ~ok
      /\ latest' = IF q.number > latest THEN q.number ELSE latest
      /\ outrun' = (outrun \/ q.number < latest)
  BY DEF ListAnswered
<1>4. /\ q.number \in Nat /\ q.number <= asked /\ asked \in Nat /\ latest \in Nat
      /\ latest <= asked
      /\ q.number = asked => latest # asked /\ Fresh(q.answer)
      /\ Listing(q.answer) /\ q.answer # None
  <2>1. /\ q.number <= asked
        /\ Listing(q.answer) /\ (q.number = asked => Fresh(q.answer))
    BY <1>1, <1>3, Zenon DEF ListsInOrder
  <2>2. q.number \in Nat /\ asked \in Nat /\ latest \in Nat /\ latest <= asked
    BY <1>1 DEF SettingsTypeOK, CallRecord
  <2>3. q.answer # None
    BY <2>1, TableAssumption DEF Listing
  <2>4. q.number = asked => latest # asked
    BY <1>1, <1>3, Zenon DEF ListsInOrder
  <2> QED
    BY <2>1, <2>2, <2>3, <2>4
<1>5. \A kind, k : kind # "list" /\ Answered(kind, k) => Answered(kind, k)'
  BY <1>3 DEF Answered
<1>6. \A a : Listing(a) /\ Fresh(a) => Fresh(a)'
  <2>1. ASSUME NEW k
        PROVE  (GoneSince(k) => GoneSince(k)') /\ (MadeSince(k) => MadeSince(k)')
    <3>1. OnScreen(k) => OnScreen(k)'
      BY <1>2 DEF OnScreen
    <3>2. Answered("revoke", k) => Answered("revoke", k)'
      BY <1>5
    <3>3. Answered("create", k) => MadeSince(k)'
      BY <1>5 DEF MadeSince
    <3> QED
      BY <1>2, <3>1, <3>2, <3>3, SinceKept
  <2>2. ASSUME NEW a, Listing(a), Fresh(a) PROVE Fresh(a)'
    BY <1>1, <1>2, <2>1, <2>2, FreshKept
  <2> QED
    BY <2>2
<1>7. \A a : Listing(a) => Listing(a)'
  BY <1>2 DEF Listing
<1>8. (table # None => Listing(table))'
  <2>1. table # None => Listing(table)
    BY <1>1 DEF ListsInOrder
  <2> QED
    BY <1>2, <1>3, <1>4, <2>1 DEF Listing
<1>9. (latest = asked /\ ~failed /\ ~outrun => table # None /\ Fresh(table))'
  <2>1. SUFFICES ASSUME latest' = asked', ~failed', ~outrun'
                 PROVE  table' # None /\ Fresh(table)'
    OBVIOUS
  <2>2. table' = q.answer
    BY <1>3, <2>1
  <2>3. q.number = asked
    <3>1. PICK n \in Nat : n = q.number
      BY <1>4
    <3>2. n <= asked /\ latest <= asked /\ latest \in Nat /\ asked \in Nat
      BY <1>4, <3>1
    <3>3. ~(n < latest) /\ asked = IF n > latest THEN n ELSE latest
      BY <1>2, <1>3, <2>1, <3>1
    <3> QED
      BY <3>1, <3>2, <3>3
  <2>4. PICK a : a = q.answer
    OBVIOUS
  <2>5. Fresh(a)'
    BY <1>4, <1>6, <2>3, <2>4
  <2> QED
    BY <1>4, <2>2, <2>4, <2>5 DEF Fresh
<1>10. (latest = asked \/ \E p \in underway : p.kind = "list" /\ p.number = asked)'
  <2>1. CASE q.number = asked
    BY <1>2, <1>3, <1>4, <2>1
  <2>2. CASE q.number # asked /\ latest = asked
    BY <1>2, <1>3, <1>4, <2>2
  <2>3. CASE q.number # asked /\ latest # asked
    BY <1>1, <1>2, <1>3, <2>3 DEF ListsInOrder
  <2> QED
    BY <2>1, <2>2, <2>3
<1>11. ASSUME NEW p \in underway', p.kind = "list"
       PROVE  /\ p.number <= asked'
              /\ p.number = asked' => latest' # asked'
              /\ p.served => Listing(p.answer)' /\ (p.number = asked' => Fresh(p.answer)')
  <2>1. p \in underway /\ p # q
    BY <1>3
  <2>2. /\ p.number <= asked
        /\ p.number = asked => latest # asked
        /\ p.served => Listing(p.answer) /\ (p.number = asked => Fresh(p.answer))
        /\ p.number = asked => q.number # asked
    BY <1>1, <1>3, <1>11, <2>1, Zenon DEF ListsInOrder
  <2>3. p.number = asked' => latest' # asked'
    BY <1>2, <1>3, <2>2
  <2>4. p.served => Listing(p.answer)' /\ (p.number = asked' => Fresh(p.answer)')
    BY <1>2, <1>6, <1>7, <2>2, Zenon
  <2> QED
    BY <1>2, <2>2, <2>3, <2>4
<1>12. (\A o, p \in underway :
          o.kind = "list" /\ p.kind = "list" /\ o.number = asked /\ p.number = asked => o = p)'
  BY <1>1, <1>2, <1>3 DEF ListsInOrder
<1> QED
  BY <1>8, <1>9, <1>10, <1>11, <1>12, Zenon DEF ListsInOrder

\* What is shown of the keys, and what they lack, stays in order.
LEMMA ListsStep ==
  ASSUME KeysPageInv, [SettingsNext]_settingsVars
  PROVE  ListsInOrder'
<1>1. /\ SettingsTypeOK /\ ListsInOrder /\ DialogsServed
      /\ issued \in Seq(BOOLEAN) /\ Len(issued) \in Nat
  BY LenProperties DEF KeysPageInv, SettingsTypeOK
<1>2. \A k \in DOMAIN issued : k \in Nat /\ k # 0
  BY <1>1
\* Nothing is served, and what is on the screen stays there.
<1>3. ASSUME UNCHANGED <<issued, table, failed, asked, latest, outrun>>,
             \A q : q.kind = "list" => (q \in underway' <=> q \in underway),
             untold \subseteq untold',
             \A k \in DOMAIN issued :
               /\ Answered("revoke", k) => Answered("revoke", k)'
               /\ OnScreen(k) => OnScreen(k)'
               /\ Answered("create", k) => MadeSince(k)'
      PROVE  ListsInOrder'
  <2>1. ASSUME NEW k \in DOMAIN issued
        PROVE  (GoneSince(k) => GoneSince(k)') /\ (MadeSince(k) => MadeSince(k)')
    BY <1>3, SinceKept
  <2>2. ASSUME NEW a, Listing(a), Fresh(a) PROVE Fresh(a)'
    BY <1>1, <1>3, <2>1, <2>2, FreshKept
  <2> QED
    BY <1>1, <1>3, <2>2, OrderKept
<1>4. ASSUME NEW kind \in {"create", "revoke"}, NEW key, OpenDialog(kind, key)
      PROVE  ListsInOrder'
  <2>1. \A k : ~OnScreen(k)
    BY <1>4 DEF OpenDialog, OnScreen
  <2> QED
    BY <1>3, <1>4, <2>1 DEF OpenDialog, Answered, MadeSince
<1>5. ASSUME Submit PROVE ListsInOrder'
  <2>1. PICK c \in CallRecord : /\ underway' = underway \union {c}
                                /\ c.kind # "list" /\ ~c.served
    <3>1. dialog.kind # "list"
      BY <1>5 DEF Submit
    <3> QED
      BY <1>1, <1>5, <3>1, SubmitFacts
  <2>2. \A k : OnScreen(k) => OnScreen(k)'
    BY <1>1, <1>5 DEF Submit, OnScreen, SettingsTypeOK, DialogRecord
  <2>3. \A q : q.kind = "list" => (q \in underway' <=> q \in underway)
    BY <2>1
  <2>4. \A kind, k : Answered(kind, k) => Answered(kind, k)'
    BY <2>1 DEF Answered
  <2> QED
    BY <1>3, <1>5, <2>2, <2>3, <2>4 DEF Submit, MadeSince
<1>6. ASSUME Cancel PROVE ListsInOrder'
  <2>1. \A k : ~OnScreen(k)
    BY <1>6 DEF Cancel, OnScreen
  <2> QED
    BY <1>3, <1>6, <2>1 DEF Cancel, Answered, MadeSince
<1>7. ASSUME Done PROVE ListsInOrder'
  BY <1>7, OrderReloads DEF Done
<1>8. ASSUME NEW q \in underway, ServeList(q) PROVE ListsInOrder'
  BY <1>8, ListServed
<1>9. ASSUME NEW q \in underway, ServeCreate(q) PROVE ListsInOrder'
  BY <1>9, CreateServed
<1>10. ASSUME NEW q \in underway, ServeRevoke(q) PROVE ListsInOrder'
  BY <1>10, RevokeServed
<1>11. ASSUME NEW q \in underway, NEW ok \in BOOLEAN, ListAnswered(q, ok) PROVE ListsInOrder'
  BY <1>11, ListReturned
<1>12. ASSUME NEW q \in underway, CreateAnswered(q) PROVE ListsInOrder'
  <2>1. q \in CallRecord
    BY <1>1 DEF SettingsTypeOK
  <2>2. \A p : p.kind = "list" => (p \in underway' <=> p \in underway)
    BY <1>12 DEF CreateAnswered
  <2>3. \A k : Answered("revoke", k) => Answered("revoke", k)'
    BY <1>12 DEF CreateAnswered, Answered
  <2>4. \A k : OnScreen(k) => OnScreen(k)'
    <3>1. q.number = dialog.number => dialog.busy /\ dialog.kind # "secret"
      BY <1>1, <1>12 DEF CreateAnswered, DialogsServed
    <3> QED
      BY <1>12, <3>1 DEF CreateAnswered, OnScreen
  <2>5. \A k : Answered("create", k) => Answered("create", k)' \/ k = q.ok
    BY <1>12 DEF CreateAnswered, Answered
  <2>6. q.ok # 0 => MadeSince(q.ok)'
    <3>1. CASE q.number = dialog.number
      BY <1>1, <1>12, <3>1 DEF CreateAnswered, MadeSince, OnScreen, SettingsTypeOK, DialogRecord
    <3>2. CASE q.number # dialog.number
      BY <1>12, <3>2 DEF CreateAnswered, MadeSince, Unasked, Untold
    <3> QED
      BY <3>1, <3>2
  <2>7. untold \subseteq untold'
    BY <1>12 DEF CreateAnswered
  <2>8. ASSUME NEW k \in DOMAIN issued, Answered("create", k) PROVE MadeSince(k)'
    <3>1. PICK l : l = q.ok
      OBVIOUS
    <3>2. l # 0 => MadeSince(l)'
      BY <2>6, <3>1 DEF MadeSince, OnScreen, Answered, Unasked, Untold
    <3> QED
      BY <1>2, <2>5, <2>8, <3>1, <3>2 DEF MadeSince
  <2>9. UNCHANGED <<issued, table, failed, asked, latest, outrun>>
    BY <1>12 DEF CreateAnswered
  <2> QED
    BY <1>3, <2>2, <2>3, <2>4, <2>7, <2>8, <2>9
<1>13. ASSUME NEW q \in underway, RevokeAnswered(q) PROVE ListsInOrder'
  <2>1. CASE q.ok # 0
    BY <1>13, <2>1, OrderReloads DEF RevokeAnswered, OnRevoked
  <2>2. CASE q.ok = 0
    <3>1. \A p : p.kind = "list" => (p \in underway' <=> p \in underway)
      BY <1>13, <2>2 DEF RevokeAnswered
    <3>2. \A k : Answered("create", k) => Answered("create", k)'
      BY <1>13, <2>2 DEF RevokeAnswered, Answered
    <3>3. \A k \in DOMAIN issued : Answered("revoke", k) => Answered("revoke", k)'
      BY <1>2, <1>13, <2>2 DEF RevokeAnswered, Answered
    <3>4. \A k : OnScreen(k) => OnScreen(k)'
      BY <1>1, <1>13, <2>2 DEF RevokeAnswered, OnScreen, SettingsTypeOK, DialogRecord
    <3>5. UNCHANGED <<issued, table, failed, asked, latest, outrun, untold>>
      BY <1>13, <2>2 DEF RevokeAnswered
    <3> QED
      BY <1>3, <3>1, <3>2, <3>3, <3>4, <3>5 DEF MadeSince
  <2> QED
    BY <2>1, <2>2
<1>14. CASE UNCHANGED settingsVars
  BY <1>3, <1>14 DEF settingsVars, Answered, OnScreen, MadeSince
<1> QED
  BY <1>4, <1>5, <1>6, <1>7, <1>8, <1>9, <1>10, <1>11, <1>12, <1>13, <1>14
  DEF SettingsNext, OpenCreate, OpenRevoke

\* Requests of dialogs that were served or answered, and the same dialog.
LEMMA DialogsKept ==
  ASSUME KeysPageInv, UNCHANGED <<dialog, dialogs>>, DOMAIN issued \subseteq DOMAIN issued',
         NEW f,
         \A q \in underway' : q.kind # "list" =>
           /\ f[q] \in underway
           /\ f[q].kind = q.kind /\ f[q].number = q.number /\ f[q].key = q.key,
         \A p, q \in underway' : p.kind # "list" /\ q.kind # "list" /\ f[p] = f[q] => p = q,
         dialog.busy =>
           \E q \in underway' : q.kind = dialog.kind /\ q.number = dialog.number
  PROVE  DialogsServed'
<1>1. DialogsServed
  BY DEF KeysPageInv
<1>2. /\ dialog'.kind = "none" => dialog' = NoDialog
      /\ dialog'.kind # "none" => dialog'.number \in 1..dialogs'
      /\ dialog'.kind = "revoke" => dialog'.key \in DOMAIN issued'
  BY <1>1, Zenon DEF DialogsServed
<1>3. dialog'.busy =>
       /\ dialog'.kind \in {"create", "revoke"}
       /\ \E q \in underway' : q.kind = dialog'.kind /\ q.number = dialog'.number
  BY <1>1, Zenon DEF DialogsServed
<1>4. ASSUME NEW q \in underway', q.kind # "list"
      PROVE  /\ q.number \in 1..dialogs'
             /\ q.number = dialog'.number => dialog'.busy
             /\ q.kind = "revoke" => q.key \in DOMAIN issued'
  <2>1. /\ f[q] \in underway /\ f[q].kind # "list"
        /\ f[q].kind = q.kind /\ f[q].number = q.number /\ f[q].key = q.key
    BY <1>4
  <2>2. \A r \in underway : r.kind # "list" =>
          /\ r.number \in 1..dialogs
          /\ r.number = dialog.number => dialog.busy
          /\ r.kind = "revoke" => r.key \in DOMAIN issued
    BY <1>1, Zenon DEF DialogsServed
  <2>3. /\ f[q].number \in 1..dialogs
        /\ f[q].number = dialog.number => dialog.busy
        /\ f[q].kind = "revoke" => f[q].key \in DOMAIN issued
    BY <2>1, <2>2, Zenon
  <2> QED
    BY <2>1, <2>3, Zenon
<1>5. ASSUME NEW p \in underway', NEW q \in underway',
             p.kind # "list", q.kind # "list", p.number = q.number
      PROVE  p = q
  <2>1. /\ f[p] \in underway /\ f[p].kind # "list" /\ f[p].number = p.number
        /\ f[q] \in underway /\ f[q].kind # "list" /\ f[q].number = q.number
    BY <1>5
  <2>2. f[p] = f[q]
    <3>1. \A o, r \in underway :
            o.kind # "list" /\ r.kind # "list" /\ o.number = r.number => o = r
      BY <1>1 DEF DialogsServed
    <3> QED
      BY <1>5, <2>1, <3>1
  <2> QED
    BY <1>5, <2>2
<1> QED
  BY <1>2, <1>3, <1>4, <1>5, Zenon DEF DialogsServed

\* A dialog that closes leaves its request to nobody.
LEMMA DialogCloses ==
  ASSUME KeysPageInv, dialog' = NoDialog, UNCHANGED <<issued, dialogs>>,
         \A q \in underway' : q.kind # "list" => q \in underway
  PROVE  DialogsServed'
<1>1. DialogsServed /\ dialogs \in Nat
  BY DEF KeysPageInv, SettingsTypeOK
<1>2. dialog'.kind = "none" /\ dialog'.number = 0 /\ ~dialog'.busy
  BY DEF NoDialog
<1>3. \A q \in underway' : q.kind # "list" =>
        /\ q.number \in 1..dialogs'
        /\ q.number # 0
        /\ q.kind = "revoke" => q.key \in DOMAIN issued'
  BY <1>1 DEF DialogsServed
<1>4. \A p, q \in underway' :
        p.kind # "list" /\ q.kind # "list" /\ p.number = q.number => p = q
  BY <1>1 DEF DialogsServed
<1> QED
  BY <1>2, <1>3, <1>4, Zenon DEF DialogsServed

\* A dialog that opens has no request yet.
LEMMA DialogOpens ==
  ASSUME KeysPageInv, NEW kind \in {"create", "revoke"}, NEW key,
         kind = "revoke" => key \in DOMAIN issued, OpenDialog(kind, key)
  PROVE  DialogsServed'
<1>1. DialogsServed /\ dialogs \in Nat
  BY DEF KeysPageInv, SettingsTypeOK
<1>2. UNCHANGED <<issued, underway>> /\ dialogs' = dialogs + 1
  BY DEF OpenDialog
<1>3. dialog' = [kind |-> kind, number |-> dialogs + 1, key |-> key, busy |-> FALSE,
                 error |-> FALSE]
  BY Zenon DEF OpenDialog, NoDialog
<1>4. dialog'.kind = kind /\ dialog'.number = dialogs + 1 /\ dialog'.key = key /\ ~dialog'.busy
  BY <1>3
<1>5. ASSUME NEW q \in underway', q.kind # "list"
      PROVE  /\ q.number \in 1..dialogs'
             /\ q.number = dialog'.number => dialog'.busy
             /\ q.kind = "revoke" => q.key \in DOMAIN issued'
  <2>1. q.number \in 1..dialogs /\ (q.kind = "revoke" => q.key \in DOMAIN issued)
    BY <1>1, <1>2, <1>5, Zenon DEF DialogsServed
  <2> QED
    BY <1>1, <1>2, <1>4, <2>1
<1>6. \A p, q \in underway' :
        p.kind # "list" /\ q.kind # "list" /\ p.number = q.number => p = q
  BY <1>1, <1>2 DEF DialogsServed
<1>7. dialog'.number \in 1..dialogs'
  BY <1>1, <1>2, <1>4
<1> QED
  BY <1>2, <1>4, <1>5, <1>6, <1>7 DEF DialogsServed

\* The requests of dialogs are served one by one.
LEMMA DialogRequestServed ==
  ASSUME KeysPageInv, UNCHANGED <<dialog, dialogs>>, DOMAIN issued \subseteq DOMAIN issued',
         NEW q \in underway, q \in CallRecord, NEW r \in CallRecord,
         underway' = (underway \ {q}) \union {r},
         r.kind = q.kind, r.number = q.number, r.key = q.key, r.served, ~q.served
  PROVE  DialogsServed'
<1>1. DialogsServed
  BY DEF KeysPageInv
<1> DEFINE f == [p \in underway' |-> IF p = r THEN q ELSE p]
<1>2. \A p \in underway' : /\ p = r => f[p] = q
                           /\ p # r => f[p] = p /\ p \in underway /\ p # q
  OBVIOUS
<1>3. \A p \in underway' : /\ f[p] \in underway
                           /\ f[p].kind = p.kind /\ f[p].number = p.number /\ f[p].key = p.key
  BY <1>2, Zenon
<1>4. \A o, p \in underway' : f[o] = f[p] => o = p
  BY <1>2, Zenon
<1>5. dialog.busy => \E p \in underway' : p.kind = dialog.kind /\ p.number = dialog.number
  BY <1>1, Zenon DEF DialogsServed
<1> HIDE DEF f
<1> QED
  BY <1>3, <1>4, <1>5, DialogsKept

\* A new key keeps the numbers of the keys before it.
LEMMA KeysStay ==
  ASSUME KeysPageInv, NEW q \in underway, ServeCreate(q)
  PROVE  /\ DOMAIN issued \subseteq DOMAIN issued'
         /\ \A k \in DOMAIN issued : issued'[k] = issued[k]
<1>1. issued \in Seq(BOOLEAN)
  BY DEF KeysPageInv, SettingsTypeOK
<1>2. PICK n \in Nat : n = Len(issued)
  BY <1>1
<1>3. CASE issued' = Append(issued, FALSE)
  <2>1. /\ issued' \in Seq(BOOLEAN) /\ Len(issued') = n + 1
        /\ \A k \in 1..n : issued'[k] = issued[k]
    BY <1>1, <1>2, <1>3, FALSE \in BOOLEAN, AppendProperties, ZenonT(60)
  <2>2. DOMAIN issued = 1..n /\ DOMAIN issued' = 1..(n + 1)
    BY <1>1, <1>2, <2>1, LenProperties
  <2> QED
    BY <2>1, <2>2
<1> QED
  BY <1>3 DEF ServeCreate

\* A dialog has at most one request, and one that waits has one.
LEMMA DialogsStep ==
  ASSUME KeysPageInv, [SettingsNext]_settingsVars
  PROVE  DialogsServed'
<1>1. /\ SettingsTypeOK /\ DialogsServed /\ ListsInOrder
      /\ issued \in Seq(BOOLEAN) /\ underway \subseteq CallRecord
      /\ dialogs \in Nat /\ dialog \in DialogRecord
  BY DEF KeysPageInv, SettingsTypeOK
<1>2. CASE OpenCreate
  BY <1>2, DialogOpens DEF OpenCreate
<1>3. ASSUME NEW k \in 1..MaxKeys, OpenRevoke(k) PROVE DialogsServed'
  <2>1. k \in DOMAIN issued
    BY <1>1, <1>3, ListingKeys DEF OpenRevoke, ListsInOrder
  <2> QED
    BY <1>3, <2>1, DialogOpens DEF OpenRevoke
<1>4. CASE Submit
  <2>1. PICK c \in CallRecord : /\ underway' = underway \union {c}
                                /\ c.kind = dialog.kind /\ c.number = dialog.number
                                /\ c.key = dialog.key
    BY <1>1, <1>4, SubmitFacts
  <2>2. /\ dialog'.kind = dialog.kind /\ dialog'.number = dialog.number
        /\ dialog'.key = dialog.key /\ dialog'.busy
        /\ dialog.kind \in {"create", "revoke"} /\ ~dialog.busy
        /\ UNCHANGED <<issued, dialogs>>
    BY <1>1, <1>4 DEF Submit, DialogRecord
  <2>3. \A q \in underway : q.kind # "list" => q.number # dialog.number
    BY <1>1, <2>2 DEF DialogsServed
  <2>4. /\ dialog.number \in 1..dialogs
        /\ dialog.kind = "revoke" => dialog.key \in DOMAIN issued
    BY <1>1, <2>2 DEF DialogsServed
  <2>5. ASSUME NEW q \in underway', q.kind # "list"
        PROVE  /\ q.number \in 1..dialogs'
               /\ q.number = dialog'.number => dialog'.busy
               /\ q.kind = "revoke" => q.key \in DOMAIN issued'
    <3>1. CASE q = c
      BY <2>1, <2>2, <2>4, <3>1
    <3>2. CASE q \in underway
      BY <1>1, <2>2, <2>5, <3>2, Zenon DEF DialogsServed
    <3> QED
      BY <2>1, <3>1, <3>2
  <2>6. \A p, q \in underway' :
          p.kind # "list" /\ q.kind # "list" /\ p.number = q.number => p = q
    <3>1. \A p, q \in underway :
            p.kind # "list" /\ q.kind # "list" /\ p.number = q.number => p = q
      BY <1>1 DEF DialogsServed
    <3> QED
      BY <2>1, <2>3, <3>1
  <2>7. c \in underway'
    BY <2>1
  <2> QED
    BY <2>1, <2>2, <2>4, <2>5, <2>6, <2>7 DEF DialogsServed
<1>5. CASE Cancel
  BY <1>5, DialogCloses DEF Cancel
<1>6. CASE Done
  <2>1. \A q \in underway' : q.kind # "list" => q \in underway
    BY <1>6 DEF Done, ReloadList, Call
  <2> QED
    BY <1>6, <2>1, DialogCloses DEF Done
<1>7. ASSUME NEW q \in underway, NEW answer \in Seq(BOOLEAN) \union {None}, NEW ok \in Nat,
             ~q.served, Responds(q, answer, ok),
             DOMAIN issued \subseteq DOMAIN issued', UNCHANGED <<dialog, dialogs>>
      PROVE  DialogsServed'
  <2>1. q \in CallRecord
    BY <1>1
  <2>2. PICK r \in CallRecord :
          /\ underway' = (underway \ {q}) \union {r}
          /\ r.kind = q.kind /\ r.number = q.number /\ r.key = q.key /\ r.served
    BY <1>7, <2>1, ResponseFacts
  <2> QED
    BY <1>7, <2>1, <2>2, DialogRequestServed
<1>8. ASSUME NEW q \in underway, ServeList(q) PROVE DialogsServed'
  BY <1>1, <1>7, <1>8 DEF ServeList
<1>9. ASSUME NEW q \in underway, ServeCreate(q) PROVE DialogsServed'
  <2>1. issued' \in Seq(BOOLEAN) /\ Len(issued') \in Nat
    BY <1>9, SettingsTypeStep DEF SettingsTypeOK, SettingsNext
  <2>2. PICK ok \in Nat : Responds(q, None, ok)
    BY <1>9, <2>1 DEF ServeCreate
  <2> QED
    BY <1>7, <1>9, <2>2, KeysStay DEF ServeCreate
<1>10. ASSUME NEW q \in underway, ServeRevoke(q) PROVE DialogsServed'
  <2>1. q.key \in DOMAIN issued /\ q.key \in Nat
    BY <1>1, <1>10 DEF ServeRevoke, DialogsServed
  <2>2. PICK ok \in Nat : Responds(q, None, ok)
    BY <1>10, <2>1 DEF ServeRevoke
  <2>3. DOMAIN issued' = DOMAIN issued
    BY <1>10 DEF ServeRevoke
  <2> QED
    BY <1>7, <1>10, <2>2, <2>3 DEF ServeRevoke
\* A request is answered, and its dialog waits no more.
<1>11. ASSUME NEW q \in underway, \A p \in underway' : p.kind # "list" => p \in underway \ {q},
              UNCHANGED <<issued, dialogs>>, dialog'.kind # "none",
              dialog'.number = dialog.number, dialog.kind # "none",
              q.kind # "list", q.number = dialog.number, ~dialog'.busy,
              dialog'.kind = "revoke" => dialog.kind = "revoke" /\ dialog'.key = dialog.key
       PROVE  DialogsServed'
  <2>1. \A p, r \in underway :
          p.kind # "list" /\ r.kind # "list" /\ p.number = r.number => p = r
    BY <1>1 DEF DialogsServed
  <2>2. \A p \in underway' : p.kind # "list" => p.number # dialog.number
    BY <1>11, <2>1
  <2>3. \A p \in underway' : p.kind # "list" =>
          p.number \in 1..dialogs' /\ (p.kind = "revoke" => p.key \in DOMAIN issued')
    BY <1>1, <1>11 DEF DialogsServed
  <2>4. /\ dialog'.number \in 1..dialogs'
        /\ dialog'.kind = "revoke" => dialog'.key \in DOMAIN issued'
    BY <1>1, <1>11 DEF DialogsServed
  <2>5. \A p, r \in underway' :
          p.kind # "list" /\ r.kind # "list" /\ p.number = r.number => p = r
    BY <1>11, <2>1
  <2> QED
    BY <1>11, <2>2, <2>3, <2>4, <2>5, Zenon DEF DialogsServed
\* Another dialog's request is answered, or a list.
<1>12. ASSUME NEW q \in underway,
              \A p : p.kind # "list" => (p \in underway' <=> p \in underway \ {q}),
              UNCHANGED <<issued, dialogs, dialog>>,
              q.kind = "list" \/ q.number # dialog.number \/ q.kind # dialog.kind
       PROVE  DialogsServed'
  <2>1. dialog.busy => \E p \in underway' : p.kind = dialog.kind /\ p.number = dialog.number
    <3>1. dialog.busy => /\ dialog.kind \in {"create", "revoke"}
                         /\ \E p \in underway : p.kind = dialog.kind /\ p.number = dialog.number
      BY <1>1 DEF DialogsServed
    <3> QED
      BY <1>12, <3>1
  <2> DEFINE f == [p \in underway' |-> p]
  <2>2. \A p \in underway' : f[p] = p
    OBVIOUS
  <2> HIDE DEF f
  <2>3. \A p \in underway' : p.kind # "list" => f[p] \in underway
    BY <1>12, <2>2
  <2>4. \A o, p \in underway' : f[o] = f[p] => o = p
    BY <2>2
  <2>5. DOMAIN issued \subseteq DOMAIN issued'
    BY <1>12
  <2> QED
    BY <1>12, <2>1, <2>2, <2>3, <2>4, <2>5, DialogsKept
<1>13. ASSUME NEW q \in underway, NEW ok \in BOOLEAN, ListAnswered(q, ok) PROVE DialogsServed'
  BY <1>12, <1>13 DEF ListAnswered
<1>14. ASSUME NEW q \in underway, CreateAnswered(q) PROVE DialogsServed'
  <2>1. q.kind = "create" /\ underway' = underway \ {q} /\ UNCHANGED <<issued, dialogs>>
    BY <1>14 DEF CreateAnswered
  <2>2. CASE q.number = dialog.number
    <3>1. dialog.kind # "none"
      BY <1>1, <2>1, <2>2 DEF DialogsServed, NoDialog
    <3>2. /\ dialog'.kind # "none" /\ dialog'.number = dialog.number /\ ~dialog'.busy
          /\ dialog'.kind = "revoke" => dialog.kind = "revoke" /\ dialog'.key = dialog.key
      BY <1>1, <1>14, <2>2, <3>1 DEF CreateAnswered, DialogRecord
    <3> QED
      BY <1>11, <2>1, <2>2, <3>1, <3>2
  <2>3. CASE q.number # dialog.number
    BY <1>12, <1>14, <2>1, <2>3 DEF CreateAnswered
  <2> QED
    BY <2>2, <2>3
<1>15. ASSUME NEW q \in underway, RevokeAnswered(q) PROVE DialogsServed'
  <2>1. q.kind = "revoke" /\ UNCHANGED <<issued, dialogs>>
    BY <1>15 DEF RevokeAnswered
  <2>2. CASE q.ok # 0
    <3>1. \A p : p.kind # "list" => (p \in underway' <=> p \in underway \ {q})
      BY <1>15, <2>2 DEF RevokeAnswered, OnRevoked, ReloadList, Call
    <3>2. CASE dialog.kind = "revoke"
      BY <1>15, <2>1, <2>2, <3>1, <3>2, DialogCloses DEF RevokeAnswered, OnRevoked
    <3>3. CASE dialog.kind # "revoke"
      BY <1>12, <1>15, <2>1, <2>2, <3>1, <3>3 DEF RevokeAnswered, OnRevoked
    <3> QED
      BY <3>2, <3>3
  <2>3. CASE q.ok = 0 /\ q.number = dialog.number
    <3>1. dialog.kind # "none"
      BY <1>1, <2>1, <2>3 DEF DialogsServed, NoDialog
    <3>2. /\ dialog'.kind = dialog.kind /\ dialog'.number = dialog.number /\ ~dialog'.busy
          /\ dialog'.key = dialog.key /\ underway' = underway \ {q}
      BY <1>1, <1>15, <2>3 DEF RevokeAnswered, DialogRecord
    <3> QED
      BY <1>11, <2>1, <2>3, <3>1, <3>2
  <2>4. CASE q.ok = 0 /\ q.number # dialog.number
    BY <1>12, <1>15, <2>1, <2>4 DEF RevokeAnswered
  <2> QED
    BY <2>2, <2>3, <2>4
<1>16. CASE UNCHANGED settingsVars
  BY <1>1, <1>16 DEF settingsVars, DialogsServed
<1> QED
  BY <1>2, <1>3, <1>4, <1>5, <1>6, <1>8, <1>9, <1>10, <1>13, <1>14, <1>15, <1>16
  DEF SettingsNext

\* No key is made, and no secret moves.
LEMMA SecretsKept ==
  ASSUME KeysPageInv, DOMAIN issued \subseteq DOMAIN issued', lost' = lost,
         \A q \in underway' :
           q.kind = "create" /\ q.served /\ q.ok # 0 => q \in underway,
         dialog'.kind = "secret" => dialog.kind = "secret" /\ dialog'.key = dialog.key
  PROVE  SecretsApart'
<1>1. SecretsApart
  BY DEF KeysPageInv
<1>2. \A k : OnScreen(k)' => OnScreen(k)
  BY DEF OnScreen
<1>3. ASSUME NEW q \in underway', q.kind = "create", q.served, q.ok # 0
      PROVE  q.ok \in DOMAIN issued' \ lost' /\ ~OnScreen(q.ok)'
  BY <1>1, <1>2, <1>3 DEF SecretsApart
<1>4. \A p, q \in underway' :
       /\ p.kind = "create" /\ p.served /\ q.kind = "create" /\ q.served
       /\ p.ok = q.ok /\ p.ok # 0
       => p = q
  BY <1>1 DEF SecretsApart
<1>5. dialog'.kind = "secret" => dialog'.key \in DOMAIN issued' /\ dialog'.key \notin lost'
  BY <1>1 DEF SecretsApart
<1> QED
  BY <1>3, <1>4, <1>5 DEF SecretsApart

\* A new key is in one place: an answer on its way, the screen, or lost.
LEMMA SecretsStep ==
  ASSUME KeysPageInv, [SettingsNext]_settingsVars
  PROVE  SecretsApart'
<1>1. /\ SettingsTypeOK /\ SecretsApart /\ DialogsServed
      /\ issued \in Seq(BOOLEAN) /\ underway \subseteq CallRecord
      /\ lost \subseteq DOMAIN issued /\ dialog \in DialogRecord
  BY DEF KeysPageInv, SettingsTypeOK
<1>2. ASSUME NEW kind \in {"create", "revoke"}, NEW key, OpenDialog(kind, key)
      PROVE  SecretsApart'
  <2>1. dialog' = [kind |-> kind, number |-> dialogs + 1, key |-> key, busy |-> FALSE,
                   error |-> FALSE]
    BY <1>2, Zenon DEF OpenDialog, NoDialog
  <2> QED
    BY <1>2, <2>1, SecretsKept DEF OpenDialog
<1>3. CASE Submit
  <2>1. PICK c \in CallRecord : underway' = underway \union {c} /\ ~c.served
    BY <1>1, <1>3, SubmitFacts
  <2>2. dialog'.kind # "secret"
    BY <1>1, <1>3 DEF Submit, DialogRecord
  <2> QED
    BY <1>3, <2>1, <2>2, SecretsKept DEF Submit
<1>4. ASSUME dialog' = NoDialog, UNCHANGED <<issued, lost>>,
             \A q \in underway' : q.kind = "create" /\ q.served => q \in underway
      PROVE  SecretsApart'
  BY <1>4, SecretsKept DEF NoDialog
<1>5. CASE Cancel
  BY <1>4, <1>5 DEF Cancel
<1>6. CASE Done
  <2>1. \A q \in underway' : q.kind = "create" => q \in underway
    BY <1>6 DEF Done, ReloadList, Call
  <2> QED
    BY <1>4, <1>6, <2>1 DEF Done
<1>7. ASSUME NEW q \in underway, NEW answer \in Seq(BOOLEAN) \union {None}, NEW ok \in Nat,
             q.kind # "create" \/ ok = 0, Responds(q, answer, ok),
             DOMAIN issued \subseteq DOMAIN issued', UNCHANGED <<dialog, lost>>
      PROVE  SecretsApart'
  <2>1. q \in CallRecord
    BY <1>1
  <2>2. PICK r \in CallRecord : /\ underway' = (underway \ {q}) \union {r}
                                /\ r.kind = q.kind /\ r.ok = ok
    BY <1>7, <2>1, ResponseFacts
  <2> QED
    BY <1>7, <2>2, SecretsKept
<1>8. ASSUME NEW q \in underway, ServeList(q) PROVE SecretsApart'
  BY <1>1, <1>7, <1>8 DEF ServeList
<1>9. ASSUME NEW q \in underway, ServeCreate(q) PROVE SecretsApart'
  <2>1. CASE Responds(q, None, 0) /\ issued' = issued /\ lost' = lost
    BY <1>7, <1>9, <2>1 DEF ServeCreate
  <2>2. CASE /\ issued' = Append(issued, FALSE) /\ lost' = lost
             /\ Responds(q, None, Len(issued'))
    <3>1. PICK n \in Nat : n = Len(issued)
      BY <1>1
    <3>2. issued' \in Seq(BOOLEAN) /\ Len(issued') = n + 1
      BY <1>1, <2>2, <3>1, FALSE \in BOOLEAN, AppendProperties, Zenon
    <3>3. DOMAIN issued = 1..n /\ DOMAIN issued' = 1..(n + 1)
      BY <1>1, <3>1, <3>2, LenProperties
    <3>4. PICK m \in Nat : /\ m = Len(issued') /\ m # 0
                           /\ m \in DOMAIN issued' /\ m \notin DOMAIN issued
      BY <3>2, <3>3
    <3>5. q \in CallRecord
      BY <1>1
    <3>6. PICK r \in CallRecord : underway' = (underway \ {q}) \union {r} /\ r.ok = m
      BY <2>2, <3>4, <3>5, ResponseFacts, SMTT(60)
    <3>7. UNCHANGED <<dialog, lost>> /\ DOMAIN issued \subseteq DOMAIN issued'
      BY <1>9, <2>2, KeysStay DEF ServeCreate
    <3>8. m \notin lost /\ ~OnScreen(m)
      BY <1>1, <3>4 DEF SecretsApart, OnScreen
    <3>9. \A p \in underway : p.kind = "create" /\ p.served /\ p.ok # 0 => p.ok # m
      BY <1>1, <3>4 DEF SecretsApart
    <3>10. ASSUME NEW p \in underway', p.kind = "create", p.served, p.ok # 0
           PROVE  p.ok \in DOMAIN issued' \ lost' /\ ~OnScreen(p.ok)'
      <4>1. CASE p = r
        BY <3>4, <3>6, <3>7, <3>8, <4>1 DEF OnScreen
      <4>2. CASE p \in underway
        BY <1>1, <3>7, <3>10, <4>2 DEF SecretsApart, OnScreen
      <4> QED
        BY <3>6, <4>1, <4>2
    <3>11. \A o, p \in underway' :
             /\ o.kind = "create" /\ o.served /\ p.kind = "create" /\ p.served
             /\ o.ok = p.ok /\ o.ok # 0
             => o = p
      <4>1. \A o, p \in underway :
             /\ o.kind = "create" /\ o.served /\ p.kind = "create" /\ p.served
             /\ o.ok = p.ok /\ o.ok # 0
             => o = p
        BY <1>1 DEF SecretsApart
      <4> QED
        BY <3>6, <3>9, <4>1
    <3>12. dialog'.kind = "secret" => dialog'.key \in DOMAIN issued' /\ dialog'.key \notin lost'
      BY <1>1, <3>7 DEF SecretsApart
    <3> QED
      BY <3>10, <3>11, <3>12 DEF SecretsApart
  <2>3. CASE /\ issued' = Append(issued, FALSE) /\ lost' = lost \union {Len(issued')}
             /\ Responds(q, None, 0)
    <3>1. PICK m \in Nat : m = Len(issued') /\ m \notin DOMAIN issued
      <4>1. PICK n \in Nat : n = Len(issued) /\ DOMAIN issued = 1..n
        BY <1>1
      <4>2. Len(issued') = n + 1
        BY <1>1, <2>3, <4>1, FALSE \in BOOLEAN, AppendProperties, Zenon
      <4> QED
        BY <4>1, <4>2
    <3>2. q \in CallRecord
      BY <1>1
    <3>3. PICK r \in CallRecord : underway' = (underway \ {q}) \union {r} /\ r.ok = 0
      BY <2>3, <3>2, ResponseFacts, SMTT(60)
    <3>4. /\ UNCHANGED dialog /\ DOMAIN issued \subseteq DOMAIN issued'
          /\ lost' = lost \union {m}
      BY <1>9, <2>3, <3>1, KeysStay DEF ServeCreate
    <3>5. ASSUME NEW p \in underway', p.kind = "create", p.served, p.ok # 0
          PROVE  p \in underway /\ p.ok \in DOMAIN issued' \ lost' /\ ~OnScreen(p.ok)'
      <4>1. p \in underway
        BY <3>3, <3>5
      <4> QED
        BY <1>1, <3>1, <3>4, <3>5, <4>1 DEF SecretsApart, OnScreen
    <3>6. \A o, p \in underway' :
            /\ o.kind = "create" /\ o.served /\ p.kind = "create" /\ p.served
            /\ o.ok = p.ok /\ o.ok # 0
            => o = p
      <4>1. \A o, p \in underway :
             /\ o.kind = "create" /\ o.served /\ p.kind = "create" /\ p.served
             /\ o.ok = p.ok /\ o.ok # 0
             => o = p
        BY <1>1 DEF SecretsApart
      <4> QED
        BY <3>5, <4>1
    <3>7. dialog'.kind = "secret" => dialog'.key \in DOMAIN issued' /\ dialog'.key \notin lost'
      BY <1>1, <3>1, <3>4 DEF SecretsApart
    <3> QED
      BY <3>5, <3>6, <3>7 DEF SecretsApart
  <2> QED
    BY <1>9, <2>1, <2>2, <2>3 DEF ServeCreate
<1>10. ASSUME NEW q \in underway, ServeRevoke(q) PROVE SecretsApart'
  <2>1. q.key \in DOMAIN issued /\ q.key \in Nat /\ q.kind # "create"
    BY <1>1, <1>10 DEF ServeRevoke, DialogsServed
  <2>2. PICK ok \in Nat : Responds(q, None, ok)
    BY <1>10, <2>1 DEF ServeRevoke
  <2>3. DOMAIN issued' = DOMAIN issued
    BY <1>10 DEF ServeRevoke
  <2> QED
    BY <1>7, <1>10, <2>1, <2>2, <2>3 DEF ServeRevoke
<1>11. ASSUME NEW q \in underway, NEW ok \in BOOLEAN, ListAnswered(q, ok) PROVE SecretsApart'
  BY <1>11, SecretsKept DEF ListAnswered
<1>12. ASSUME NEW q \in underway, CreateAnswered(q) PROVE SecretsApart'
  <2>1. /\ q.kind = "create" /\ q.served /\ underway' = underway \ {q}
        /\ UNCHANGED issued
    BY <1>12 DEF CreateAnswered
  <2>2. CASE q.ok = 0
    <3>1. lost' = lost
      BY <1>12, <2>2 DEF CreateAnswered
    <3>2. dialog'.kind = dialog.kind /\ dialog'.key = dialog.key
      BY <1>1, <1>12, <2>2 DEF CreateAnswered, DialogRecord
    <3> QED
      BY <2>1, <3>1, <3>2, SecretsKept
  <2>3. ASSUME q.ok # 0 PROVE SecretsApart'
    <3>1. q.ok \in DOMAIN issued \ lost /\ ~OnScreen(q.ok)
      BY <1>1, <2>1, <2>3 DEF SecretsApart
    <3>2. \A o, p \in underway :
            /\ o.kind = "create" /\ o.served /\ p.kind = "create" /\ p.served
            /\ o.ok = p.ok /\ o.ok # 0
            => o = p
      BY <1>1 DEF SecretsApart
    <3>3. \A p \in underway' : p.kind = "create" /\ p.served /\ p.ok # 0 =>
            p \in underway /\ p.ok # q.ok /\ p.ok \in DOMAIN issued \ lost /\ ~OnScreen(p.ok)
      BY <1>1, <2>1, <2>3, <3>2 DEF SecretsApart
    <3>4. \A o, p \in underway' :
            /\ o.kind = "create" /\ o.served /\ p.kind = "create" /\ p.served
            /\ o.ok = p.ok /\ o.ok # 0
            => o = p
      BY <2>1, <3>2
    <3>5. CASE q.number = dialog.number
      <4>1. dialog'.kind = "secret" /\ dialog'.key = q.ok /\ lost' = lost
        BY <1>1, <1>12, <2>3, <3>5 DEF CreateAnswered, DialogRecord
      <4> QED
        BY <2>1, <3>1, <3>3, <3>4, <4>1 DEF SecretsApart, OnScreen
    <3>6. CASE q.number # dialog.number
      <4>1. dialog' = dialog /\ lost' = lost \union {q.ok}
        BY <1>12, <2>3, <3>6 DEF CreateAnswered
      <4>2. \A p \in underway' : p.kind = "create" /\ p.served /\ p.ok # 0 =>
              p.ok \in DOMAIN issued' \ lost' /\ ~OnScreen(p.ok)'
        BY <2>1, <3>3, <4>1 DEF OnScreen
      <4>3. dialog'.kind = "secret" => dialog'.key \in DOMAIN issued' /\ dialog'.key \notin lost'
        BY <1>1, <2>1, <3>1, <4>1 DEF SecretsApart, OnScreen
      <4> QED
        BY <3>4, <4>2, <4>3 DEF SecretsApart
    <3> QED
      BY <3>5, <3>6
  <2> QED
    BY <2>2, <2>3
<1>13. ASSUME NEW q \in underway, RevokeAnswered(q) PROVE SecretsApart'
  <2>1. \A p \in underway' : p.kind = "create" => p \in underway
    BY <1>13 DEF RevokeAnswered, OnRevoked, ReloadList, Call
  <2>2. dialog'.kind = "secret" => dialog.kind = "secret" /\ dialog'.key = dialog.key
    <3>1. CASE q.ok # 0
      BY <1>13, <3>1 DEF RevokeAnswered, OnRevoked, NoDialog
    <3>2. CASE q.ok = 0
      BY <1>1, <1>13, <3>2 DEF RevokeAnswered, DialogRecord
    <3> QED
      BY <3>1, <3>2
  <2> QED
    BY <1>13, <2>1, <2>2, SecretsKept DEF RevokeAnswered
<1>14. CASE UNCHANGED settingsVars
  BY <1>14, SecretsKept DEF settingsVars
<1> QED
  BY <1>2, <1>3, <1>5, <1>6, <1>8, <1>9, <1>10, <1>11, <1>12, <1>13, <1>14
  DEF SettingsNext, OpenCreate, OpenRevoke

\* The page loads its list.
LEMMA KeysPageInit == ASSUME SettingsInit PROVE KeysPageInv
<1>1. /\ issued = <<FALSE>> /\ table = None /\ ~failed /\ failed \in BOOLEAN
      /\ dialog = NoDialog /\ dialogs = 0 /\ asked = 1 /\ latest = 0
      /\ outrun = FALSE /\ lost = {}
  BY DEF SettingsInit
<1>2. PICK first : first = Call("list", 1, None)
  OBVIOUS
<1>3. /\ first \in CallRecord /\ first.kind = "list" /\ first.number = 1 /\ ~first.served
  BY <1>2 DEF Call, CallRecord
<1>4. underway = {first}
  BY <1>2 DEF SettingsInit
<1>5. issued \in Seq(BOOLEAN) /\ DOMAIN issued = {1}
  BY <1>1
<1>6. dialog \in DialogRecord /\ dialog.kind = "none" /\ ~dialog.busy
  BY <1>1 DEF NoDialog, DialogRecord
<1>7. SettingsTypeOK
  <2>1. asked \in Nat /\ latest \in Nat /\ latest <= asked /\ dialogs \in Nat
    BY <1>1
  <2>2. failed \in BOOLEAN /\ outrun \in BOOLEAN /\ lost \subseteq DOMAIN issued
    BY <1>1, Zenon
  <2>3. underway \subseteq CallRecord
    BY <1>3, <1>4
  <2> QED
    BY <1>5, <1>6, <2>1, <2>2, <2>3, Zenon DEF SettingsTypeOK
<1>8. ListsInOrder
  BY <1>1, <1>3, <1>4 DEF ListsInOrder
<1>9. DialogsServed
  BY <1>1, <1>3, <1>4, <1>6 DEF DialogsServed
<1>10. SecretsApart
  BY <1>1, <1>3, <1>4, <1>6 DEF SecretsApart
<1> QED
  BY <1>7, <1>8, <1>9, <1>10 DEF KeysPageInv

\* What the page promises follows.
LEMMA KeysPagePromise == ASSUME KeysPageInv PROVE SettingsInv
<1>1. /\ SettingsTypeOK /\ ListsInOrder /\ DialogsServed /\ SecretsApart
      /\ issued \in Seq(BOOLEAN)
  BY DEF KeysPageInv, SettingsTypeOK
<1>2. ASSUME underway = {}, ~failed, ~outrun
      PROVE  /\ table # None
             /\ \A k \in DOMAIN table :
                  /\ k \in DOMAIN issued
                  /\ table[k] = issued[k] \/ (issued[k] /\ Untold("revoke", k) \in untold)
             /\ \A k \in DOMAIN issued \ DOMAIN table :
                  \/ Untold("create", k) \in untold
                  \/ dialog.kind = "secret" /\ dialog.key = k
  <2>1. latest = asked
    BY <1>1, <1>2 DEF ListsInOrder
  <2>2. table # None /\ Fresh(table) /\ Listing(table)
    BY <1>1, <1>2, <2>1 DEF ListsInOrder
  <2>3. DOMAIN table \subseteq DOMAIN issued
    BY <1>1, <2>2, ListingKeys
  <2>4. \A kind, k : ~Answered(kind, k)
    BY <1>2 DEF Answered
  <2>5. \A k : GoneSince(k) => Untold("revoke", k) \in untold
    BY <2>4, Zenon DEF GoneSince, Unasked
  <2>6. ASSUME NEW k \in DOMAIN table
        PROVE  table[k] = issued[k] \/ (issued[k] /\ Untold("revoke", k) \in untold)
    <3>1. (table[k] => issued[k]) /\ (issued[k] /\ ~table[k] => GoneSince(k))
      BY <2>2, Zenon DEF Fresh
    <3>2. table[k] \in BOOLEAN /\ issued[k] \in BOOLEAN
      BY <1>1, <2>2, <2>3 DEF Listing
    <3>3. CASE issued[k] /\ ~table[k]
      BY <2>5, <3>1, <3>3, Zenon
    <3>4. CASE ~(issued[k] /\ ~table[k])
      BY <3>1, <3>2, <3>4
    <3> QED
      BY <3>3, <3>4
  <2>7. \A k \in DOMAIN issued \ DOMAIN table : Unasked("create", k) \/ OnScreen(k)
    BY <2>2, <2>4, Zenon DEF Fresh, MadeSince
  <2> QED
    BY <2>2, <2>3, <2>6, <2>7, Zenon DEF OnScreen, Unasked
<1>3. dialog.busy => \E q \in underway : q.kind = dialog.kind /\ q.number = dialog.number
  BY <1>1, Zenon DEF DialogsServed
<1>4. dialog.kind = "secret" => dialog.key \in DOMAIN issued /\ dialog.key \notin lost
  BY <1>1 DEF SecretsApart
<1> QED
  BY <1>2, <1>3, <1>4, Zenon DEF SettingsInv

-----------------------------------------------------------------------------
(* The pages of runs and bundles *)

\* The addresses of the list, of a run and of a bundle.
LEMMA AddressFacts ==
  /\ Address(Home) /\ Home.at = "runs"
  /\ \A r \in ShownRuns : Address(Page("run", r)) /\ Page("run", r).at = "run"
                          /\ Page("run", r).of = r
  /\ \A b : Address(Page("bundle", b)) /\ Page("bundle", b).at = "bundle"
            /\ Page("bundle", b).of = b
BY DEF Address, Home, Page

\* The page an address leads to and what it asks for.
Arrival(p, others, new) ==
  /\ place' = p /\ visited' = visited \union {p} /\ effect' = effect + 1
  /\ awaited' = others \union {new}
  /\ new.mount = mount' /\ new.effect = effect'
  /\ new.kind = IF p.at = "runs" THEN "list runs"
                ELSE IF p.at = "run" THEN "get run" ELSE "get bundle"
  /\ p.at # "runs" => new.of = p.of
  /\ p.at = "run" => new.audit = Can("audit:read")
  /\ IF p.at = place.at
     THEN /\ mount' = mount /\ listPage' = listPage /\ bundlePage' = bundlePage
          /\ DOMAIN runPage' = DOMAIN runPage
          /\ runPage'.status = "loading" /\ runPage'.run = runPage.run
          /\ runPage'.entries = runPage.entries /\ runPage'.busy = runPage.busy
     ELSE /\ mount' = mount + 1
          /\ listPage' = NewList /\ runPage' = NewRun /\ bundlePage' = NewBundle

\* A request, field by field.
LEMMA RequestFacts ==
  ASSUME NEW kind, NEW of, NEW m, NEW e
  PROVE  /\ Request(kind, of, m, e).kind = kind /\ Request(kind, of, m, e).of = of
         /\ Request(kind, of, m, e).mount = m /\ Request(kind, of, m, e).effect = e
BY DEF Request

\* What Navigate does, the page it mounts or keeps being named once.
LEMMA NavigateFacts ==
  ASSUME PlacesKept, NEW p, Address(p), NEW others \in SUBSET awaited, Navigate(p, others)
  PROVE  \E new : Arrival(p, others, new)
<1>1. p.at \in {"runs", "run", "bundle"}
  BY DEF Address
<1>0. PICK m : m = IF p.at = place.at THEN mount ELSE mount + 1
  OBVIOUS
<1>2. /\ place' = p /\ visited' = visited \union {p} /\ effect' = effect + 1 /\ mount' = m
      /\ listPage' = IF p.at = place.at THEN listPage ELSE NewList
      /\ runPage' = IF p.at = place.at THEN [runPage EXCEPT !.status = "loading"] ELSE NewRun
      /\ bundlePage' = IF p.at = place.at THEN bundlePage ELSE NewBundle
      /\ awaited' = others \union {PageRequest(p, m, effect + 1)}
  BY <1>0 DEF Navigate
<1>3. PICK e : e = effect + 1
  OBVIOUS
<1>4. PICK new : new = PageRequest(p, m, e)
  OBVIOUS
<1>5. /\ new.mount = m /\ new.effect = e
      /\ new.kind = IF p.at = "runs" THEN "list runs"
                    ELSE IF p.at = "run" THEN "get run" ELSE "get bundle"
      /\ p.at # "runs" => new.of = p.of
      /\ p.at = "run" => new.audit = Can("audit:read")
  <2>1. CASE p.at = "runs"
    <3>1. new = Request("list runs", None, m, e)
      BY <1>4, <2>1 DEF PageRequest
    <3> QED
      BY <2>1, <3>1 DEF Request
  <2>2. CASE p.at = "run"
    <3>1. new = LoadRun(p.of, m, e, scopes)
      BY <1>4, <2>2 DEF PageRequest
    <3> QED
      BY <2>2, <3>1 DEF LoadRun, Can
  <2>3. CASE p.at = "bundle"
    <3>1. new = Request("get bundle", p.of, m, e)
      BY <1>4, <2>3 DEF PageRequest
    <3> QED
      BY <2>3, <3>1 DEF Request
  <2> QED
    BY <1>1, <2>1, <2>2, <2>3
<1>6. p.at = place.at =>
        /\ DOMAIN runPage' = DOMAIN runPage
        /\ runPage'.status = "loading" /\ runPage'.run = runPage.run
        /\ runPage'.entries = runPage.entries /\ runPage'.busy = runPage.busy
  BY <1>2 DEF PlacesKept, NewRun
<1> QED
  BY <1>0, <1>2, <1>3, <1>4, <1>5, <1>6 DEF Arrival

\* A page that was just mounted shows and waits for nothing.
LEMMA NewPageFacts ==
  /\ NewList.busy = None
  /\ NewRun.status = "loading" /\ NewRun.entries = None /\ NewRun.busy = FALSE
  /\ NewBundle.verification = None
BY DEF NewList, NewRun, NewBundle

\* A page that was just opened, or whose address has changed.
LEMMA ArrivalStep ==
  ASSUME PagesInv, NEW p, Address(p), NEW others \in SUBSET awaited, Navigate(p, others),
         scopes' = scopes, made' \in Seq(ShownRuns), DOMAIN made \subseteq DOMAIN made',
         tab' = tab \/ (p = Page("bundle", tab') /\ tab' \in DOMAIN made'),
         p.at = "run" => others = awaited
  PROVE  PagesInv'
<1>1. PlacesKept /\ BundlesKept /\ RunsKept /\ ButtonsKept
  BY DEF PagesInv
<1>2. PICK new : Arrival(p, others, new)
  BY <1>1, NavigateFacts
<1>3. /\ place' = p /\ visited' = visited \union {p} /\ effect' = effect + 1
      /\ awaited' = others \union {new}
      /\ new.mount = mount' /\ new.effect = effect'
      /\ new.kind = IF p.at = "runs" THEN "list runs"
                    ELSE IF p.at = "run" THEN "get run" ELSE "get bundle"
      /\ p.at # "runs" => new.of = p.of
      /\ p.at = "run" => new.audit = Can("audit:read")
  BY <1>2 DEF Arrival
<1>4. p.at = place.at =>
        /\ mount' = mount /\ listPage' = listPage /\ bundlePage' = bundlePage
        /\ DOMAIN runPage' = DOMAIN runPage
        /\ runPage'.status = "loading" /\ runPage'.run = runPage.run
        /\ runPage'.entries = runPage.entries /\ runPage'.busy = runPage.busy
  BY <1>2 DEF Arrival
<1>5. p.at # place.at =>
        mount' = mount + 1 /\ listPage' = NewList /\ runPage' = NewRun /\ bundlePage' = NewBundle
  BY <1>2 DEF Arrival
<1>6. mount \in Nat /\ effect \in Nat /\ mount' \in Nat /\ effect' \in Nat /\ mount <= mount'
  <2>1. mount \in Nat /\ effect \in Nat
    BY <1>1 DEF PlacesKept
  <2>2. effect' = effect + 1 /\ (mount' = mount \/ mount' = mount + 1)
    BY <1>3, <1>4, <1>5
  <2> QED
    BY <2>1, <2>2
<1>7. Address(place) /\ p # place
  BY <1>1 DEF PlacesKept, Navigate
<1>8. /\ mount' \notin raced' => \A q \in others :
           q.kind \in {"get run", "entries"} /\ q.mount = mount' => q.of = p.of
      /\ p.at = place.at /\ mount' \notin raced' => mount \notin raced
  <2>1. mount' = IF p.at = place.at THEN mount ELSE mount + 1
    BY <1>4, <1>5
  <2>2. raced' = raced \union
          {q.mount : q \in {q \in others : /\ q.kind \in {"get run", "entries"}
                                            /\ q.mount = mount' /\ q.of # p.of}}
    BY <2>1 DEF Navigate
  <2> QED
    BY <1>4, <2>2
<1>9. \A q \in others : /\ q.mount \in Nat /\ q.mount <= mount
                        /\ q.effect \in Nat /\ q.effect <= effect
  BY <1>1 DEF PlacesKept
<1>10. PlacesKept'
  <2>1. \A q \in awaited' :
          /\ q.mount \in Nat /\ q.mount <= mount'
          /\ q.effect \in Nat /\ q.effect <= effect'
          /\ q.kind \in {"get run", "generate", "generate here"} => q.of \in ShownRuns
    <3>1. ASSUME NEW q \in others
          PROVE  /\ q.mount \in Nat /\ q.mount <= mount'
                 /\ q.effect \in Nat /\ q.effect <= effect'
                 /\ q.kind \in {"get run", "generate", "generate here"} => q.of \in ShownRuns
      <4>1. q.mount \in Nat /\ q.mount <= mount /\ q.effect \in Nat /\ q.effect <= effect
        BY <1>9
      <4>2. q.kind \in {"get run", "generate", "generate here"} => q.of \in ShownRuns
        BY <1>1 DEF PlacesKept
      <4>3. effect' = effect + 1
        BY <1>3
      <4>4. q.mount <= mount' /\ q.effect <= effect'
        BY <1>6, <4>1, <4>3
      <4> QED
        BY <4>1, <4>2, <4>4
    <3>2. new.kind \in {"get run", "generate", "generate here"} => new.of \in ShownRuns
      BY <1>3 DEF Address
    <3>3. new.mount \in Nat /\ new.mount <= mount' /\ new.effect \in Nat /\ new.effect <= effect'
      <4>1. PICK m \in Nat, e \in Nat : m = mount' /\ e = effect'
        BY <1>6
      <4>2. m <= m /\ e <= e
        OBVIOUS
      <4> QED
        BY <1>3, <4>1, <4>2
    <3>4. \A q \in awaited' : q \in others \/ q = new
      BY <1>3
    <3> QED
      BY <3>1, <3>2, <3>3, <3>4
  <2>2. \A a \in visited' : Address(a)
    BY <1>1, <1>3 DEF PlacesKept
  <2>3. /\ DOMAIN listPage' = DOMAIN NewList /\ DOMAIN runPage' = DOMAIN NewRun
        /\ DOMAIN bundlePage' = DOMAIN NewBundle
    BY <1>1, <1>4, <1>5 DEF PlacesKept
  <2>4. runPage'.status # "ok"
    BY <1>4, <1>5 DEF NewRun
  <2>5. (\A a \in visited : Address(a))'
    BY <2>2 DEF Address
  <2> QED
    BY <1>3, <1>6, <2>1, <2>3, <2>4, <2>5, Zenon DEF PlacesKept
<1>11. BundlesKept'
  <2>1. ASSUME NEW q \in awaited', q.kind = "get bundle", q.effect = effect'
        PROVE  place' = Page("bundle", q.of) /\ q.mount = mount'
    <3>1. q = new
      <4>1. effect' = effect + 1 /\ (q \in others \/ q = new)
        BY <1>3, <2>1
      <4>2. ASSUME q \in others PROVE FALSE
        <5>1. q.effect \in Nat /\ q.effect <= effect
          BY <1>9, <4>2
        <5>2. PICK e \in Nat, n \in Nat : e = effect /\ n = q.effect /\ n <= e
          BY <1>6, <5>1
        <5>3. n = e + 1
          BY <2>1, <4>1, <5>2
        <5> QED
          BY <5>2, <5>3
      <4> QED
        BY <4>1, <4>2
    <3>2. p.at = "bundle" /\ q.of = p.of
      BY <1>3, <2>1, <3>1 DEF Address
    <3> QED
      BY <1>3, <3>1, <3>2 DEF Address
  <2>2. p.at = "bundle" =>
          new \in awaited' /\ new.kind = "get bundle" /\ new.effect = effect' /\ new.mount = mount'
    BY <1>3
  <2>3. \A q \in awaited' : q.kind = "verify" => Page("bundle", q.of) \in visited'
    BY <1>1, <1>3 DEF BundlesKept
  <2>4. bundlePage'.verification # None => Page("bundle", bundlePage'.verification) \in visited'
    <3>1. bundlePage' = bundlePage \/ bundlePage' = NewBundle
      BY <1>4, <1>5
    <3>2. visited' = visited \union {p}
      BY <1>3
    <3>3. bundlePage.verification # None => Page("bundle", bundlePage.verification) \in visited
      BY <1>1 DEF BundlesKept
    <3> QED
      BY <3>1, <3>2, <3>3, NewPageFacts
  <2>5. tab' # None => tab' \in DOMAIN made' /\ Page("bundle", tab') \in visited'
    BY <1>1, <1>3 DEF BundlesKept
  <2> QED
    BY <1>3, <2>1, <2>2, <2>3, <2>4, <2>5, Zenon DEF BundlesKept, Live, Mounted
<1>12. RunsKept'
  <2>1. Can("audit:read")' <=> Can("audit:read")
    BY DEF Can
  <2>2. /\ \A q \in awaited' : q.kind = "me" => q = Request("me", None, 0, 0) /\ scopes' = None
        /\ \A q \in awaited' : q.kind = "entries" => Can("audit:read")'
    BY <1>1, <1>3, <2>1 DEF RunsKept
  <2>3. \A q \in awaited' : q.kind = "get run" /\ q.audit => Can("audit:read")'
    <3>1. new.kind = "get run" /\ new.audit => Can("audit:read")
      BY <1>3
    <3>2. \A q \in others : q.kind = "get run" /\ q.audit => Can("audit:read")
      BY <1>1 DEF RunsKept
    <3> QED
      BY <1>3, <2>1, <3>1, <3>2
  <2>4. runPage'.entries # None => runPage'.entries = runPage.entries /\ p.at = place.at
    BY <1>4, <1>5 DEF NewRun
  <2>5. runPage'.entries # None => Can("audit:read")'
    BY <1>1, <2>1, <2>4 DEF RunsKept
  <2>6. p.at = "run" => /\ runPage'.status = "loading"
                        /\ Waiting({"get run"})'
    <3>1. runPage'.status = "loading"
      BY <1>4, <1>5, NewPageFacts
    <3>2. p.at = "run" => /\ new \in awaited' /\ new.mount = mount'
                          /\ new.kind = "get run"
      BY <1>3
    <3> QED
      BY <3>1, <3>2 DEF Waiting
  <2>7. ASSUME p.at = "run", mount' \notin raced'
        PROVE  /\ \A q \in awaited' : q.kind \in {"get run", "entries"} /\ q.mount = mount' =>
                    q.of = p.of
               /\ runPage'.entries \in {None, p.of} \/ Replaced'
    <3>1. \A q \in awaited' : q.kind \in {"get run", "entries"} /\ q.mount = mount' => q.of = p.of
      BY <1>3, <1>8, <2>7
    <3>2. CASE runPage'.entries = None
      BY <3>1, <3>2
    <3>3. CASE runPage'.entries # None
      <4>1. place.at = "run" /\ mount \notin raced /\ mount' = mount
        BY <1>4, <1>8, <2>4, <2>7, <3>3
      <4>2. p.of # place.of
        BY <1>7, <2>7, <4>1 DEF Address
      <4>3. \A q \in others : q.kind = "get run" /\ q.mount = mount => q.of = place.of
        BY <1>1, <4>1 DEF RunsKept, Mounted
      <4>4. \A q \in others : q.kind = "get run" => q.mount # mount'
        BY <1>8, <2>7, <4>1, <4>2, <4>3
      <4>5. \A q \in awaited' : q.kind = "get run" /\ q.mount = mount' => q = new
        BY <1>3, <4>4
      <4>6. Can("audit:read")
        BY <1>1, <2>4, <3>3 DEF RunsKept
      <4>7. new.audit
        BY <1>3, <2>7, <4>6
      <4>8. Replaced'
        BY <2>1, <2>6, <2>7, <4>5, <4>6, <4>7 DEF Replaced, Mounted
      <4> QED
        BY <3>1, <4>8
    <3> QED
      BY <3>2, <3>3
  <2> QED
    BY <1>3, <2>2, <2>3, <2>5, <2>6, <2>7 DEF RunsKept, Mounted
<1>13. ButtonsKept'
  <2>1. p.at = place.at => p.at # "runs" /\ place # Home
    BY <1>7, AddressFacts DEF Address
  <2>2. listPage'.busy = None
    <3>1. CASE p.at = place.at
      BY <1>1, <1>4, <2>1, <3>1 DEF ButtonsKept
    <3>2. CASE p.at # place.at
      BY <1>5, <3>2 DEF NewList
    <3> QED
      BY <3>1, <3>2
  <2>3. ASSUME runPage'.busy PROVE p.at = "run" /\ Waiting({"generate here"})'
    <3>1. p.at = place.at /\ runPage.busy
      <4>1. CASE p.at = place.at
        BY <1>4, <2>3, <4>1
      <4>2. CASE p.at # place.at
        <5>1. runPage'.busy = FALSE
          BY <1>5, <4>2, NewPageFacts
        <5> QED
          BY <2>3, <5>1
      <4> QED
        BY <4>1, <4>2
    <3>2. p.at = "run" /\ Waiting({"generate here"})
      BY <1>1, <3>1 DEF ButtonsKept
    <3>3. others = awaited /\ mount' = mount
      BY <1>4, <3>1, <3>2
    <3> QED
      BY <1>3, <3>2, <3>3 DEF Waiting
  <2>4. p = Home => Waiting({"list runs"})'
    BY <1>3, AddressFacts DEF Waiting
  <2> QED
    BY <1>3, <2>2, <2>3, <2>4, Zenon DEF ButtonsKept, Home
<1> QED
  BY <1>10, <1>11, <1>12, <1>13 DEF PagesInv

\* A step that leaves the address alone keeps what the pages may show.
LEMMA PlacesFrame ==
  ASSUME PlacesKept, UNCHANGED <<place, visited, mount, effect, made>>,
         \A q \in awaited' : q \in awaited \/
           /\ q.mount \in Nat /\ q.mount <= mount /\ q.effect \in Nat /\ q.effect <= effect
           /\ q.kind \in {"get run", "generate", "generate here"} => q.of \in ShownRuns,
         DOMAIN listPage' = DOMAIN listPage, DOMAIN runPage' = DOMAIN runPage,
         DOMAIN bundlePage' = DOMAIN bundlePage,
         runPage'.status = "ok" => runPage'.run \in ShownRuns
  PROVE  PlacesKept'
<1>1. \A q \in awaited' :
        /\ q.mount \in Nat /\ q.mount <= mount' /\ q.effect \in Nat /\ q.effect <= effect'
        /\ q.kind \in {"get run", "generate", "generate here"} => q.of \in ShownRuns
  BY DEF PlacesKept
<1>2. (\A p \in visited : Address(p))'
  BY DEF PlacesKept, Address
<1>3. mount' \in Nat /\ effect' \in Nat /\ place' \in visited' /\ made' \in Seq(ShownRuns)
  BY DEF PlacesKept
<1>4. /\ DOMAIN listPage' = DOMAIN NewList /\ DOMAIN runPage' = DOMAIN NewRun
      /\ DOMAIN bundlePage' = DOMAIN NewBundle
  BY DEF PlacesKept
<1> QED
  BY <1>1, <1>2, <1>3, <1>4, Zenon DEF PlacesKept

\* The same for what a bundle's page shows.
LEMMA BundlesFrame ==
  ASSUME BundlesKept, UNCHANGED <<place, visited, mount, effect, tab, made>>,
         \A q : q.kind = "get bundle" => (q \in awaited' <=> q \in awaited),
         \A q \in awaited' : q.kind = "verify" => Page("bundle", q.of) \in visited,
         bundlePage'.bundle = bundlePage.bundle, bundlePage.error => bundlePage'.error,
         bundlePage'.verification # None => Page("bundle", bundlePage'.verification) \in visited
  PROVE  BundlesKept'
<1>1. \A q \in awaited' : q.kind = "get bundle" /\ q.effect = effect' =>
        place' = Page("bundle", q.of) /\ q.mount = mount'
  BY DEF BundlesKept, Live, Mounted
<1>2. place'.at = "bundle" =>
        \/ bundlePage'.error \/ bundlePage'.bundle = place'.of
        \/ \E q \in awaited' : q.kind = "get bundle" /\ q.effect = effect' /\ q.mount = mount'
  BY DEF BundlesKept, Live, Mounted
<1>3. tab' # None => tab' \in DOMAIN made' /\ Page("bundle", tab') \in visited'
  BY DEF BundlesKept
<1> QED
  BY <1>1, <1>2, <1>3, Zenon DEF BundlesKept, Live, Mounted

\* The same for what a run's page shows.
LEMMA RunsFrame ==
  ASSUME RunsKept, UNCHANGED <<place, mount, raced, scopes>>,
         runPage'.status = runPage.status, runPage'.run = runPage.run,
         runPage'.entries = runPage.entries,
         \A q \in awaited : q.kind \in {"get run", "entries"} => q \in awaited',
         \A q \in awaited' : q.kind \in {"me", "get run", "entries"} => q \in awaited
  PROVE  RunsKept'
<1>1. Can("audit:read") => Can("audit:read")'
  BY DEF Can
<1>2. Waiting({"get run"}) => Waiting({"get run"})'
  BY DEF Waiting
<1>3. Waiting({"entries"}) => Waiting({"entries"})'
  BY DEF Waiting
<1>4. Replaced => Replaced'
  <2>1. SUFFICES ASSUME Replaced PROVE Replaced'
    OBVIOUS
  <2>2. Can("audit:read")'
    BY <1>1, <2>1 DEF Replaced
  <2>3. \A q \in awaited' : q.kind = "get run" /\ q.mount = mount' => q.audit
    BY <2>1, Zenon DEF Replaced, Mounted
  <2>4. runPage'.status = "ok" => Waiting({"entries"})'
    BY <1>3, <2>1 DEF Replaced
  <2> QED
    BY <2>2, <2>3, <2>4, Zenon DEF Replaced, Mounted
<1>5. \A q \in awaited' : q.kind = "me" => q = Request("me", None, 0, 0) /\ scopes' = None
  BY Zenon DEF RunsKept
<1>6. \A q \in awaited' : q.kind = "get run" /\ q.audit => Can("audit:read")'
  BY <1>1, Zenon DEF RunsKept
<1>7. \A q \in awaited' : q.kind = "entries" => Can("audit:read")'
  BY <1>1, Zenon DEF RunsKept
<1>8. runPage'.entries # None => Can("audit:read")'
  BY <1>1, Zenon DEF RunsKept
<1>9. ASSUME place.at = "run"
      PROVE  /\ runPage'.status = "loading" => Waiting({"get run"})'
             /\ mount' \notin raced' =>
                  /\ \A q \in awaited' : q.kind \in {"get run", "entries"} /\ q.mount = mount' =>
                       q.of = place'.of
                  /\ runPage'.status = "ok" => runPage'.run = place'.of
                  /\ runPage'.entries \in {None, place'.of} \/ Replaced'
  <2>1. /\ runPage.status = "loading" => Waiting({"get run"})
        /\ mount \notin raced =>
             /\ \A q \in awaited : q.kind \in {"get run", "entries"} /\ q.mount = mount =>
                  q.of = place.of
             /\ runPage.status = "ok" => runPage.run = place.of
             /\ runPage.entries \in {None, place.of} \/ Replaced
    BY <1>9, Zenon DEF RunsKept, Mounted
  <2>2. runPage'.status = "loading" => Waiting({"get run"})'
    BY <1>2, <2>1, Zenon
  <2>3. ASSUME mount' \notin raced'
        PROVE  /\ \A q \in awaited' : q.kind \in {"get run", "entries"} /\ q.mount = mount' =>
                    q.of = place'.of
               /\ runPage'.status = "ok" => runPage'.run = place'.of
               /\ runPage'.entries \in {None, place'.of} \/ Replaced'
    <3>1. /\ \A q \in awaited : q.kind \in {"get run", "entries"} /\ q.mount = mount =>
               q.of = place.of
          /\ runPage.status = "ok" => runPage.run = place.of
          /\ runPage.entries \in {None, place.of} \/ Replaced
      BY <2>1, <2>3
    <3>2. \A q \in awaited' : q.kind \in {"get run", "entries"} /\ q.mount = mount' =>
            q.of = place'.of
      BY <3>1
    <3>3. runPage'.entries \in {None, place'.of} \/ Replaced'
      BY <1>4, <3>1, Zenon
    <3> QED
      BY <3>1, <3>2, <3>3, Zenon
  <2> QED
    BY <2>2, <2>3, Zenon
<1> QED
  BY <1>5, <1>6, <1>7, <1>8, <1>9, Zenon DEF RunsKept, Mounted

\* The same for the buttons that wait.
LEMMA ButtonsFrame ==
  ASSUME ButtonsKept, UNCHANGED <<place, mount>>,
         listPage.listed => listPage'.listed, listPage.error => listPage'.error,
         listPage'.busy = listPage.busy, runPage'.busy = runPage.busy,
         \A q \in awaited : q.kind \in {"generate", "generate here", "list runs"} => q \in awaited'
  PROVE  ButtonsKept'
<1>1. \A kinds \in SUBSET {"generate", "generate here", "list runs"} :
        Waiting(kinds) => Waiting(kinds)'
  BY DEF Waiting
<1>2. /\ Waiting({"generate"}) => Waiting({"generate"})'
      /\ Waiting({"generate here"}) => Waiting({"generate here"})'
      /\ Waiting({"list runs"}) => Waiting({"list runs"})'
  BY <1>1
<1> QED
  BY <1>2 DEF ButtonsKept, Home, Page

\* A request the mounted page makes now.
Asks(new, kind, of) ==
  /\ awaited' = awaited \union {new}
  /\ new.kind = kind /\ new.of = of /\ new.mount = mount /\ new.effect = effect

\* AskFor makes one request.
LEMMA AskFacts ==
  ASSUME NEW kind, NEW of, AskFor(kind, of)
  PROVE  \E new : Asks(new, kind, of)
<1>1. PICK new : new = Request(kind, of, mount, effect)
  OBVIOUS
<1>2. Asks(new, kind, of)
  BY <1>1, RequestFacts DEF AskFor, Asks
<1> QED
  BY <1>2

\* The records of the pages, field by field.
LEMMA PageFacts ==
  ASSUME PlacesKept
  PROVE  /\ DOMAIN listPage = {"listed", "busy", "error"}
         /\ DOMAIN runPage = {"run", "status", "entries", "busy", "error"}
         /\ DOMAIN bundlePage = {"bundle", "verification", "error", "open"}
BY DEF PlacesKept, NewList, NewRun, NewBundle

\* The parts of the invariant, and the page the tab is at.
LEMMA PagesNow ==
  ASSUME PagesInv
  PROVE  /\ PlacesKept /\ BundlesKept /\ RunsKept /\ ButtonsKept
         /\ mount \in Nat /\ effect \in Nat /\ mount <= mount /\ effect <= effect
         /\ Address(place) /\ place \in visited
<1>1. /\ PlacesKept /\ BundlesKept /\ RunsKept /\ ButtonsKept
      /\ Address(place) /\ place \in visited
  BY DEF PagesInv, PlacesKept
<1>2. mount \in Nat /\ effect \in Nat
  BY <1>1 DEF PlacesKept
<1>3. \A n \in Nat : n <= n
  OBVIOUS
<1> QED
  BY <1>1, <1>2, <1>3, Zenon

\* What the user asks for.
LEMMA AskingStep ==
  ASSUME PagesInv,
         \/ \E r \in ShownRuns : GenerateFromList(r)
         \/ GenerateFromRun \/ ToggleSeal \/ RetryRun
  PROVE  PagesInv'
<1>1. /\ PlacesKept /\ BundlesKept /\ RunsKept /\ ButtonsKept
      /\ mount \in Nat /\ effect \in Nat /\ mount <= mount /\ effect <= effect
      /\ Address(place) /\ place \in visited
  BY PagesNow
<1>2. ASSUME NEW r \in ShownRuns, GenerateFromList(r) PROVE PagesInv'
  <2>1. PICK new : Asks(new, "generate", r)
    BY <1>2, AskFacts DEF GenerateFromList
  <2>2. UNCHANGED <<place, visited, mount, effect, tab, runPage, bundlePage, scopes, made, raced>>
    BY <1>2 DEF GenerateFromList
  <2>3. /\ awaited' = awaited \union {new}
        /\ new.kind = "generate" /\ new.of = r /\ new.mount = mount /\ new.effect = effect
    BY <2>1 DEF Asks
  <2>4. /\ DOMAIN listPage' = DOMAIN listPage /\ listPage'.busy = r
        /\ listPage'.listed = listPage.listed /\ listPage'.error = listPage.error
    BY <1>1, <1>2, PageFacts DEF GenerateFromList
  <2>5. PlacesKept'
    BY <1>1, <2>2, <2>3, <2>4, PlacesFrame DEF PlacesKept
  <2>6. BundlesKept'
    BY <1>1, <2>2, <2>3, BundlesFrame DEF BundlesKept
  <2>7. RunsKept'
    BY <1>1, <2>2, <2>3, RunsFrame
  <2>8. ButtonsKept'
    <3>1. place = Home /\ Waiting({"generate"})'
      BY <1>2, <2>2, <2>3 DEF GenerateFromList, Waiting
    <3>2. Waiting({"generate here"}) => Waiting({"generate here"})'
      BY <2>2, <2>3 DEF Waiting
    <3>3. listPage.listed
      BY <1>2 DEF GenerateFromList
    <3> QED
      BY <1>1, <2>2, <2>4, <3>1, <3>2, <3>3 DEF ButtonsKept, Home, Page
  <2> QED
    BY <2>5, <2>6, <2>7, <2>8 DEF PagesInv
<1>3. CASE GenerateFromRun
  <2>1. PICK new : Asks(new, "generate here", runPage.run)
    BY <1>3, AskFacts DEF GenerateFromRun
  <2>2. UNCHANGED <<place, visited, mount, effect, tab, listPage, bundlePage, scopes, made, raced>>
    BY <1>3 DEF GenerateFromRun
  <2>3. /\ awaited' = awaited \union {new} /\ new.of = runPage.run
        /\ new.kind = "generate here" /\ new.mount = mount /\ new.effect = effect
    BY <2>1 DEF Asks
  <2>4. /\ DOMAIN runPage' = DOMAIN runPage /\ runPage'.run = runPage.run
        /\ runPage'.status = runPage.status /\ runPage'.entries = runPage.entries
    BY <1>1, <1>3, PageFacts DEF GenerateFromRun
  <2>5. place.at = "run" /\ runPage.status = "ok" /\ runPage.run \in ShownRuns
    BY <1>1, <1>3 DEF GenerateFromRun, RunShown, PlacesKept
  <2>6. PlacesKept'
    BY <1>1, <2>2, <2>3, <2>4, <2>5, PlacesFrame
  <2>7. BundlesKept'
    BY <1>1, <2>2, <2>3, BundlesFrame DEF BundlesKept
  <2>8. RunsKept'
    BY <1>1, <2>2, <2>3, <2>4, RunsFrame
  <2>9. ButtonsKept'
    <3>1. Waiting({"generate here"})'
      BY <2>2, <2>3 DEF Waiting
    <3>2. /\ Waiting({"generate"}) => Waiting({"generate"})'
          /\ Waiting({"list runs"}) => Waiting({"list runs"})'
      BY <2>2, <2>3 DEF Waiting
    <3> QED
      BY <1>1, <2>2, <2>5, <3>1, <3>2 DEF ButtonsKept, Home, Page
  <2> QED
    BY <2>6, <2>7, <2>8, <2>9 DEF PagesInv
<1>4. CASE ToggleSeal
  <2>1. UNCHANGED <<place, visited, mount, effect, tab, listPage, runPage, scopes, made, raced>>
    BY <1>4 DEF ToggleSeal
  <2>2. /\ DOMAIN bundlePage' = DOMAIN bundlePage /\ bundlePage'.bundle = bundlePage.bundle
        /\ bundlePage'.error = bundlePage.error
        /\ bundlePage'.verification = bundlePage.verification
    BY <1>1, <1>4, PageFacts DEF ToggleSeal
  <2>3. Page("bundle", place.of) \in visited
    BY <1>1, <1>4 DEF ToggleSeal, BundleShown, Address
  <2>4. /\ awaited \subseteq awaited'
        /\ \A q \in awaited' \ awaited : /\ q.kind = "verify" /\ q.of = place.of
                                         /\ q.mount = mount /\ q.effect = effect
    <3>1. CASE awaited' = awaited
      BY <3>1
    <3>2. CASE AskFor("verify", place.of)
      BY <3>2, AskFacts DEF Asks
    <3> QED
      BY <1>4, <3>1, <3>2 DEF ToggleSeal
  <2>5. PlacesKept'
    BY <1>1, <2>1, <2>2, <2>4, PlacesFrame DEF PlacesKept
  <2>6. BundlesKept'
    <3>1. \A q : q.kind = "get bundle" => (q \in awaited' <=> q \in awaited)
      BY <2>4
    <3>2. \A q \in awaited' : q.kind = "verify" => Page("bundle", q.of) \in visited
      BY <1>1, <2>3, <2>4 DEF BundlesKept
    <3>3. bundlePage'.verification # None => Page("bundle", bundlePage'.verification) \in visited
      BY <1>1, <2>2 DEF BundlesKept
    <3>4. UNCHANGED <<place, visited, mount, effect, tab, made>>
      BY <2>1
    <3> QED
      BY <1>1, <2>2, <3>1, <3>2, <3>3, <3>4, BundlesFrame
  <2>7. RunsKept'
    BY <1>1, <2>1, <2>4, RunsFrame
  <2>8. ButtonsKept'
    BY <1>1, <2>1, <2>4, ButtonsFrame
  <2> QED
    BY <2>5, <2>6, <2>7, <2>8 DEF PagesInv
<1>5. CASE RetryRun
  <2>1. UNCHANGED <<place, visited, mount, effect, tab, listPage, bundlePage, scopes, made, raced>>
    BY <1>5 DEF RetryRun
  <2>2. PICK new : new = LoadRun(place.of, mount, effect, scopes)
    OBVIOUS
  <2>3. /\ awaited' = awaited \union {new} /\ new.kind = "get run" /\ new.of = place.of
        /\ new.mount = mount /\ new.effect = effect
    BY <1>5, <2>2 DEF RetryRun, LoadRun
  <2>4. (new.audit => Can("audit:read")) /\ (Can("audit:read") => new.audit)
    BY <2>2 DEF LoadRun, Can
  <2>5. /\ DOMAIN runPage' = DOMAIN runPage /\ runPage'.status = "loading"
        /\ runPage'.entries = runPage.entries /\ runPage'.busy = runPage.busy
    BY <1>1, <1>5, PageFacts DEF RetryRun
  <2>6. place.at = "run" /\ place.of \in ShownRuns
    BY <1>1, <1>5 DEF RetryRun, Address
  <2>7. PlacesKept'
    BY <1>1, <2>1, <2>3, <2>5, <2>6, PlacesFrame
  <2>8. BundlesKept'
    BY <1>1, <2>1, <2>3, BundlesFrame DEF BundlesKept
  <2>9. ButtonsKept'
    BY <1>1, <2>1, <2>3, <2>5, ButtonsFrame
  <2>10. RunsKept'
    <3>1. (Can("audit:read") => Can("audit:read")') /\ Waiting({"get run"})'
      BY <2>1, <2>3 DEF Can, Waiting
    <3>2. \A q \in awaited' : q \in awaited \/ q = new
      BY <2>3
    <3>3. /\ \A q \in awaited' : q.kind = "me" => q = Request("me", None, 0, 0) /\ scopes' = None
          /\ \A q \in awaited' : q.kind = "entries" => Can("audit:read")'
      BY <1>1, <2>1, <2>3, <3>1, <3>2 DEF RunsKept
    <3>4. \A q \in awaited' : q.kind = "get run" /\ q.audit => Can("audit:read")'
      BY <1>1, <2>4, <3>1, <3>2 DEF RunsKept
    <3>5. runPage'.entries # None => Can("audit:read")'
      BY <1>1, <2>5, <3>1 DEF RunsKept
    <3>6. ASSUME mount \notin raced
          PROVE  /\ \A q \in awaited' : q.kind \in {"get run", "entries"} /\ q.mount = mount =>
                      q.of = place.of
                 /\ runPage'.entries \in {None, place.of} \/ Replaced'
      <4>1. /\ \A q \in awaited : q.kind \in {"get run", "entries"} /\ q.mount = mount =>
                 q.of = place.of
            /\ runPage.entries \in {None, place.of} \/ Replaced
        BY <1>1, <2>6, <3>6, Zenon DEF RunsKept, Mounted
      <4>2. Replaced => Replaced'
        <5>1. SUFFICES ASSUME Replaced PROVE Replaced'
          OBVIOUS
        <5>2. /\ Can("audit:read")
              /\ \A q \in awaited : q.kind = "get run" /\ q.mount = mount => q.audit
          BY <5>1, Zenon DEF Replaced, Mounted
        <5>3. \A q \in awaited' : q.kind = "get run" /\ q.mount = mount => q.audit
          BY <2>4, <3>2, <5>2
        <5> QED
          BY <2>1, <2>5, <3>1, <5>2, <5>3 DEF Replaced, Mounted
      <4>3. \A q \in awaited' : q.kind \in {"get run", "entries"} /\ q.mount = mount =>
              q.of = place.of
        BY <2>3, <3>2, <4>1
      <4> QED
        BY <2>5, <4>1, <4>2, <4>3
    <3> QED
      BY <2>1, <2>5, <3>1, <3>3, <3>4, <3>5, <3>6 DEF RunsKept, Mounted
  <2> QED
    BY <2>7, <2>8, <2>9, <2>10 DEF PagesInv
<1> QED
  BY <1>2, <1>3, <1>4, <1>5

\* Answers about the list, a bundle and a seal, and refusals.
LEMMA AnswerStep ==
  ASSUME PagesInv, NEW q \in awaited,
         \/ GenerateFails(q) \/ IdentityFails(q)
         \/ \E ok \in BOOLEAN : ListArrives(q, ok) \/ BundleArrives(q, ok) \/ Verified(q, ok)
  PROVE  PagesInv'
<1>1. /\ PlacesKept /\ BundlesKept /\ RunsKept /\ ButtonsKept
      /\ mount \in Nat /\ effect \in Nat /\ mount <= mount /\ effect <= effect
      /\ Address(place) /\ place \in visited
  BY PagesNow
<1>3. CASE GenerateFails(q)
  <2>1. UNCHANGED <<place, visited, mount, effect, tab, bundlePage, scopes, made, raced>>
    BY <1>3 DEF GenerateFails
  <2>2. awaited' = awaited \ {q} /\ q.kind \in {"generate", "generate here"}
    BY <1>3 DEF GenerateFails
  <2>3. /\ DOMAIN listPage' = DOMAIN listPage /\ listPage'.listed = listPage.listed
        /\ listPage.error => listPage'.error
        /\ IF q.mount = mount /\ q.kind = "generate" THEN listPage'.busy = None
           ELSE listPage'.busy = listPage.busy
    <3>1. listPage' = IF q.mount = mount /\ q.kind = "generate"
                      THEN [listPage EXCEPT !.busy = None, !.error = TRUE] ELSE listPage
      BY <1>3 DEF GenerateFails, Mounted
    <3> QED
      BY <1>1, <3>1, PageFacts
  <2>4. /\ DOMAIN runPage' = DOMAIN runPage /\ runPage'.run = runPage.run
        /\ runPage'.status = runPage.status /\ runPage'.entries = runPage.entries
        /\ IF q.mount = mount /\ q.kind = "generate here" THEN runPage'.busy = FALSE
           ELSE runPage'.busy = runPage.busy
    <3>1. runPage' = IF q.mount = mount /\ q.kind = "generate here"
                     THEN [runPage EXCEPT !.busy = FALSE, !.error = TRUE] ELSE runPage
      BY <1>3 DEF GenerateFails, Mounted
    <3> QED
      BY <1>1, <3>1, PageFacts
  <2>5. PlacesKept'
    BY <1>1, <2>1, <2>2, <2>3, <2>4, PlacesFrame DEF PlacesKept
  <2>6. BundlesKept'
    BY <1>1, <2>1, <2>2, BundlesFrame DEF BundlesKept
  <2>7. RunsKept'
    BY <1>1, <2>1, <2>2, <2>4, RunsFrame
  <2>8. ButtonsKept'
    <3>1. listPage'.busy # None => place = Home /\ Waiting({"generate"})'
      <4>1. SUFFICES ASSUME listPage'.busy # None PROVE place = Home /\ Waiting({"generate"})'
        OBVIOUS
      <4>2. ~(q.mount = mount /\ q.kind = "generate") /\ listPage.busy # None
        BY <2>3, <4>1
      <4>3. place = Home /\ Waiting({"generate"})
        BY <1>1, <4>2 DEF ButtonsKept
      <4> QED
        BY <2>1, <2>2, <4>2, <4>3 DEF Waiting
    <3>2. runPage'.busy => place.at = "run" /\ Waiting({"generate here"})'
      <4>1. SUFFICES ASSUME runPage'.busy PROVE place.at = "run" /\ Waiting({"generate here"})'
        OBVIOUS
      <4>2. ~(q.mount = mount /\ q.kind = "generate here") /\ runPage.busy
        BY <2>4, <4>1
      <4>3. place.at = "run" /\ Waiting({"generate here"})
        BY <1>1, <4>2 DEF ButtonsKept
      <4> QED
        BY <2>1, <2>2, <4>2, <4>3 DEF Waiting
    <3>3. place = Home => listPage'.listed \/ listPage'.error \/ Waiting({"list runs"})'
      <4>1. Waiting({"list runs"}) => Waiting({"list runs"})'
        BY <2>1, <2>2 DEF Waiting
      <4> QED
        BY <1>1, <2>3, <4>1 DEF ButtonsKept
    <3> QED
      BY <2>1, <3>1, <3>2, <3>3 DEF ButtonsKept, Home, Page
  <2> QED
    BY <2>5, <2>6, <2>7, <2>8 DEF PagesInv
<1>4. CASE IdentityFails(q)
  <2>1. /\ UNCHANGED <<place, visited, mount, effect, tab, listPage, runPage, bundlePage, scopes,
                       made, raced>>
        /\ awaited' = awaited \ {q} /\ q.kind = "me"
    BY <1>4 DEF IdentityFails
  <2>2. PlacesKept'
    BY <1>1, <2>1, PlacesFrame DEF PlacesKept
  <2>3. BundlesKept'
    BY <1>1, <2>1, BundlesFrame DEF BundlesKept
  <2>4. RunsKept'
    BY <1>1, <2>1, RunsFrame
  <2>5. ButtonsKept'
    BY <1>1, <2>1, ButtonsFrame
  <2> QED
    BY <2>2, <2>3, <2>4, <2>5 DEF PagesInv
<1>5. ASSUME NEW ok \in BOOLEAN, ListArrives(q, ok) PROVE PagesInv'
  <2>1. /\ UNCHANGED <<place, visited, mount, effect, tab, runPage, bundlePage, scopes, made, raced>>
        /\ awaited' = awaited \ {q} /\ q.kind = "list runs"
    BY <1>5 DEF ListArrives
  <2>2. /\ DOMAIN listPage' = DOMAIN listPage /\ listPage'.busy = listPage.busy
        /\ listPage.listed => listPage'.listed
        /\ listPage.error => listPage'.error
        /\ q.mount = mount => listPage'.listed \/ listPage'.error
    <3>1. listPage' = IF q.mount # mount THEN listPage
                      ELSE IF ok THEN [listPage EXCEPT !.listed = TRUE]
                      ELSE [listPage EXCEPT !.error = TRUE]
      BY <1>5, Zenon DEF ListArrives, Mounted
    <3> QED
      BY <1>1, <3>1, PageFacts
  <2>3. PlacesKept'
    BY <1>1, <2>1, <2>2, PlacesFrame DEF PlacesKept
  <2>4. BundlesKept'
    BY <1>1, <2>1, BundlesFrame DEF BundlesKept
  <2>5. RunsKept'
    BY <1>1, <2>1, RunsFrame
  <2>6. ButtonsKept'
    <3>1. /\ Waiting({"generate"}) => Waiting({"generate"})'
          /\ Waiting({"generate here"}) => Waiting({"generate here"})'
          /\ q.mount # mount /\ Waiting({"list runs"}) => Waiting({"list runs"})'
      BY <2>1 DEF Waiting
    <3> QED
      BY <1>1, <2>1, <2>2, <3>1 DEF ButtonsKept, Home, Page
  <2> QED
    BY <2>3, <2>4, <2>5, <2>6 DEF PagesInv
<1>6. ASSUME NEW ok \in BOOLEAN, BundleArrives(q, ok) PROVE PagesInv'
  <2>1. /\ UNCHANGED <<place, visited, mount, effect, tab, listPage, runPage, scopes, made, raced>>
        /\ awaited' = awaited \ {q} /\ q.kind = "get bundle"
    BY <1>6 DEF BundleArrives
  <2>2. /\ DOMAIN bundlePage' = DOMAIN bundlePage
        /\ bundlePage'.verification = bundlePage.verification
        /\ q.effect = effect => bundlePage'.error \/ bundlePage'.bundle = q.of
        /\ q.effect # effect => bundlePage' = bundlePage
    <3>1. bundlePage' = IF q.effect # effect THEN bundlePage
                        ELSE IF ok THEN [bundlePage EXCEPT !.bundle = q.of]
                        ELSE [bundlePage EXCEPT !.error = TRUE]
      BY <1>6, Zenon DEF BundleArrives, Live
    <3> QED
      BY <1>1, <3>1, PageFacts
  <2>3. PlacesKept'
    BY <1>1, <2>1, <2>2, PlacesFrame DEF PlacesKept
  <2>4. BundlesKept'
    <3>1. \A p \in awaited' : p.kind = "get bundle" /\ p.effect = effect' =>
            place' = Page("bundle", p.of) /\ p.mount = mount'
      BY <1>1, <2>1 DEF BundlesKept, Live, Mounted
    <3>2. place'.at = "bundle" =>
            \/ bundlePage'.error \/ bundlePage'.bundle = place'.of
            \/ \E p \in awaited' : p.kind = "get bundle" /\ p.effect = effect' /\ p.mount = mount'
      <4>1. CASE q.effect = effect
        <5>1. place = Page("bundle", q.of)
          BY <1>1, <2>1, <4>1 DEF BundlesKept, Live
        <5>2. place.of = q.of
          BY <5>1, AddressFacts
        <5> QED
          BY <2>1, <2>2, <4>1, <5>2
      <4>2. CASE q.effect # effect
        BY <1>1, <2>1, <2>2, <4>2 DEF BundlesKept, Live, Mounted
      <4> QED
        BY <4>1, <4>2
    <3>3. \A p \in awaited' : p.kind = "verify" => Page("bundle", p.of) \in visited'
      BY <1>1, <2>1 DEF BundlesKept
    <3>4. bundlePage'.verification # None => Page("bundle", bundlePage'.verification) \in visited'
      BY <1>1, <2>1, <2>2 DEF BundlesKept
    <3>5. tab' # None => tab' \in DOMAIN made' /\ Page("bundle", tab') \in visited'
      BY <1>1, <2>1 DEF BundlesKept
    <3> QED
      BY <3>1, <3>2, <3>3, <3>4, <3>5, Zenon DEF BundlesKept, Live, Mounted
  <2>5. RunsKept'
    BY <1>1, <2>1, RunsFrame
  <2>6. ButtonsKept'
    BY <1>1, <2>1, ButtonsFrame
  <2> QED
    BY <2>3, <2>4, <2>5, <2>6 DEF PagesInv
<1>7. ASSUME NEW ok \in BOOLEAN, Verified(q, ok) PROVE PagesInv'
  <2>1. /\ UNCHANGED <<place, visited, mount, effect, tab, listPage, runPage, scopes, made, raced>>
        /\ awaited' = awaited \ {q} /\ q.kind = "verify"
    BY <1>7 DEF Verified
  <2>2. /\ DOMAIN bundlePage' = DOMAIN bundlePage
        /\ bundlePage'.bundle = bundlePage.bundle
        /\ bundlePage.error => bundlePage'.error
        /\ bundlePage'.verification \in {bundlePage.verification, q.of}
    <3>1. bundlePage' = IF q.mount # mount THEN bundlePage
                        ELSE IF ok THEN [bundlePage EXCEPT !.verification = q.of]
                        ELSE [bundlePage EXCEPT !.error = TRUE]
      BY <1>7, Zenon DEF Verified, Mounted
    <3> QED
      BY <1>1, <3>1, PageFacts
  <2>3. PlacesKept'
    BY <1>1, <2>1, <2>2, PlacesFrame DEF PlacesKept
  <2>4. BundlesKept'
    <3>1. Page("bundle", q.of) \in visited
      BY <1>1, <2>1 DEF BundlesKept
    <3>2. bundlePage'.verification # None => Page("bundle", bundlePage'.verification) \in visited
      BY <1>1, <2>2, <3>1 DEF BundlesKept
    <3>3. \A p : p.kind = "get bundle" => (p \in awaited' <=> p \in awaited)
      BY <2>1
    <3>4. \A p \in awaited' : p.kind = "verify" => Page("bundle", p.of) \in visited
      BY <1>1, <2>1 DEF BundlesKept
    <3> QED
      BY <1>1, <2>1, <2>2, <3>2, <3>3, <3>4, BundlesFrame
  <2>5. RunsKept'
    BY <1>1, <2>1, RunsFrame
  <2>6. ButtonsKept'
    BY <1>1, <2>1, ButtonsFrame
  <2> QED
    BY <2>3, <2>4, <2>5, <2>6 DEF PagesInv
<1> QED
  BY <1>3, <1>4, <1>5, <1>6, <1>7

\* What a run's page that was asked for one run only holds.
OneRun ==
  /\ \A q \in awaited : q.kind \in {"get run", "entries"} /\ q.mount = mount => q.of = place.of
  /\ runPage.status = "ok" => runPage.run = place.of
  /\ runPage.entries \in {None, place.of} \/ Replaced

\* The parts of RunsKept but for its last.
IdentityKept ==
  /\ \A q \in awaited : q.kind = "me" => q = Request("me", None, 0, 0) /\ scopes = None
  /\ \A q \in awaited : q.kind = "get run" /\ q.audit => Can("audit:read")
  /\ \A q \in awaited : q.kind = "entries" => Can("audit:read")
  /\ runPage.entries # None => Can("audit:read")

\* RunsKept by its parts.
LEMMA RunsParts ==
  RunsKept <=> /\ IdentityKept
               /\ place.at = "run" =>
                    /\ runPage.status = "loading" => Waiting({"get run"})
                    /\ mount \notin raced => OneRun
BY Zenon DEF RunsKept, IdentityKept, OneRun, Mounted

\* A run, and its entries.
LEMMA RunArrivesStep ==
  ASSUME PagesInv, NEW q \in awaited, NEW status \in {"ok", "notfound", "error"},
         RunArrives(q, status)
  PROVE  PagesInv'
<1>1. /\ PlacesKept /\ BundlesKept /\ RunsKept /\ ButtonsKept
      /\ mount \in Nat /\ effect \in Nat /\ mount <= mount /\ effect <= effect
      /\ Address(place) /\ place \in visited
  BY PagesNow
<1>2. /\ UNCHANGED <<place, visited, mount, effect, tab, listPage, bundlePage, scopes, made, raced>>
      /\ q.kind = "get run"
  BY DEF RunArrives
<1>3. PICK new : new = Request("entries", q.of, q.mount, q.effect)
  OBVIOUS
<1>4. new.kind = "entries" /\ new.of = q.of /\ new.mount = q.mount /\ new.effect = q.effect
  BY <1>3 DEF Request
<1>5. /\ status = "ok" /\ q.audit => awaited' = (awaited \ {q}) \union {new}
      /\ ~(status = "ok" /\ q.audit) => awaited' = awaited \ {q}
  BY <1>3 DEF RunArrives
<1>6. \A p \in awaited' : p \in awaited \ {q} \/ (p = new /\ status = "ok" /\ q.audit)
  BY <1>5
<1>7. \A p \in awaited : p # q => p \in awaited'
  BY <1>5
<1>8. /\ DOMAIN runPage' = DOMAIN runPage /\ runPage'.busy = runPage.busy
      /\ runPage'.entries = runPage.entries
      /\ IF q.mount = mount
         THEN runPage'.status = status /\ (status = "ok" => runPage'.run = q.of)
         ELSE runPage' = runPage
  <2>1. runPage' = IF q.mount # mount THEN runPage
                   ELSE IF status = "ok" THEN [runPage EXCEPT !.run = q.of, !.status = "ok"]
                   ELSE [runPage EXCEPT !.status = status]
    BY Zenon DEF RunArrives, Mounted
  <2> QED
    BY <1>1, <2>1, PageFacts
<1>9. PlacesKept'
  <2>1. /\ q.mount \in Nat /\ q.mount <= mount /\ q.effect \in Nat /\ q.effect <= effect
        /\ q.of \in ShownRuns
    BY <1>1, <1>2 DEF PlacesKept
  <2>2. runPage'.status = "ok" => runPage'.run \in ShownRuns
    BY <1>1, <1>8, <2>1 DEF PlacesKept
  <2> QED
    BY <1>1, <1>2, <1>4, <1>6, <1>8, <2>1, <2>2, PlacesFrame
<1>10. BundlesKept'
  <2>1. \A p : p.kind = "get bundle" => (p \in awaited' <=> p \in awaited)
    BY <1>2, <1>4, <1>6, <1>7
  <2>2. \A p \in awaited' : p.kind = "verify" => Page("bundle", p.of) \in visited
    BY <1>1, <1>4, <1>6 DEF BundlesKept
  <2>3. bundlePage.verification # None => Page("bundle", bundlePage.verification) \in visited
    BY <1>1 DEF BundlesKept
  <2> QED
    BY <1>1, <1>2, <2>1, <2>2, <2>3, BundlesFrame
<1>11. ButtonsKept'
  BY <1>1, <1>2, <1>7, <1>8, ButtonsFrame
<1>12. RunsKept'
  <2>1. Can("audit:read") => Can("audit:read")'
    BY <1>2 DEF Can
  <2>2. IdentityKept
    BY <1>1, RunsParts
  <2>3. q.audit => Can("audit:read")
    BY <1>2, <2>2 DEF IdentityKept
  <2>4. IdentityKept'
    <3>1. \A p \in awaited' : p.kind = "me" => p = Request("me", None, 0, 0) /\ scopes' = None
      BY <1>2, <1>4, <1>6, <2>2 DEF IdentityKept
    <3>2. \A p \in awaited' : p.kind = "get run" /\ p.audit => Can("audit:read")'
      BY <1>4, <1>6, <2>1, <2>2 DEF IdentityKept
    <3>3. \A p \in awaited' : p.kind = "entries" => Can("audit:read")'
      BY <1>4, <1>6, <2>1, <2>2, <2>3 DEF IdentityKept
    <3>4. runPage'.entries # None => Can("audit:read")'
      BY <1>8, <2>1, <2>2 DEF IdentityKept
    <3> QED
      BY <3>1, <3>2, <3>3, <3>4, Zenon DEF IdentityKept
  <2>5. ASSUME place.at = "run"
        PROVE  runPage'.status = "loading" => Waiting({"get run"})'
    <3>1. SUFFICES ASSUME runPage'.status = "loading" PROVE Waiting({"get run"})'
      OBVIOUS
    <3>2. q.mount # mount /\ runPage.status = "loading"
      BY <1>8, <3>1
    <3>3. PICK p \in awaited : p.mount = mount /\ p.kind = "get run"
      BY <1>1, <2>5, <3>2, RunsParts DEF Waiting
    <3> QED
      BY <1>2, <1>7, <3>2, <3>3 DEF Waiting
  <2>6. ASSUME place.at = "run", mount \notin raced PROVE OneRun'
    <3>1. OneRun
      BY <1>1, <2>6, RunsParts
    <3>2. q.mount = mount => q.of = place.of
      BY <1>2, <3>1 DEF OneRun
    <3>3. \A p \in awaited' : p.kind \in {"get run", "entries"} /\ p.mount = mount =>
            p.of = place.of
      BY <1>4, <1>6, <3>1, <3>2 DEF OneRun
    <3>4. runPage'.status = "ok" => runPage'.run = place.of
      BY <1>8, <3>1, <3>2 DEF OneRun
    <3>5. ASSUME Replaced PROVE Replaced'
      <4>1. /\ Can("audit:read")
            /\ \A p \in awaited : p.kind = "get run" /\ p.mount = mount => p.audit
            /\ runPage.status = "ok" => Waiting({"entries"})
        BY <3>5, Zenon DEF Replaced, Mounted
      <4>2. \A p \in awaited' : p.kind = "get run" /\ p.mount = mount' => p.audit
        BY <1>2, <1>4, <1>6, <4>1
      <4>3. runPage'.status = "ok" => Waiting({"entries"})'
        <5>1. CASE q.mount = mount
          <6>1. q.audit
            BY <1>2, <4>1, <5>1
          <6>2. status = "ok" => new \in awaited' /\ new.mount = mount' /\ new.kind = "entries"
            BY <1>2, <1>4, <1>5, <5>1, <6>1
          <6> QED
            BY <1>8, <5>1, <6>2 DEF Waiting
        <5>2. CASE q.mount # mount
          BY <1>2, <1>7, <1>8, <4>1, <5>2 DEF Waiting
        <5> QED
          BY <5>1, <5>2
      <4> QED
        BY <2>1, <4>1, <4>2, <4>3, Zenon DEF Replaced, Mounted
    <3>6. runPage'.entries \in {None, place.of} \/ Replaced'
      BY <1>8, <3>1, <3>5 DEF OneRun
    <3> QED
      BY <1>2, <3>3, <3>4, <3>6 DEF OneRun
  <2>7. /\ place'.at = "run" =>
             /\ runPage'.status = "loading" => Waiting({"get run"})'
             /\ mount' \notin raced' => OneRun'
    BY <1>2, <2>5, <2>6
  <2> QED
    BY <2>4, <2>7, Zenon DEF RunsKept, IdentityKept, OneRun, Mounted
<1> QED
  BY <1>9, <1>10, <1>11, <1>12 DEF PagesInv

\* The entries of the run that was asked for.
LEMMA EntriesArriveStep ==
  ASSUME PagesInv, NEW q \in awaited, NEW ok \in BOOLEAN, EntriesArrive(q, ok)
  PROVE  PagesInv'
<1>1. /\ PlacesKept /\ BundlesKept /\ RunsKept /\ ButtonsKept
      /\ mount \in Nat /\ effect \in Nat /\ mount <= mount /\ effect <= effect
      /\ Address(place) /\ place \in visited
  BY PagesNow
<1>2. /\ UNCHANGED <<place, visited, mount, effect, tab, listPage, bundlePage, scopes, made, raced>>
      /\ awaited' = awaited \ {q} /\ q.kind = "entries"
  BY DEF EntriesArrive
<1>3. /\ DOMAIN runPage' = DOMAIN runPage /\ runPage'.busy = runPage.busy
      /\ runPage'.status = runPage.status /\ runPage'.run = runPage.run
      /\ IF q.mount = mount THEN runPage'.entries \in {None, q.of}
         ELSE runPage'.entries = runPage.entries
  <2>1. runPage' = IF q.mount = mount THEN [runPage EXCEPT !.entries = IF ok THEN q.of ELSE None]
                   ELSE runPage
    BY Zenon DEF EntriesArrive, Mounted
  <2> QED
    BY <1>1, <2>1, PageFacts
<1>4. PlacesKept'
  BY <1>1, <1>2, <1>3, PlacesFrame DEF PlacesKept
<1>5. BundlesKept'
  BY <1>1, <1>2, BundlesFrame DEF BundlesKept
<1>6. ButtonsKept'
  BY <1>1, <1>2, <1>3, ButtonsFrame
<1>7. RunsKept'
  <2>1. Can("audit:read") => Can("audit:read")'
    BY <1>2 DEF Can
  <2>2. IdentityKept
    BY <1>1, RunsParts
  <2>3. IdentityKept'
    <3>1. Can("audit:read")
      BY <1>2, <2>2 DEF IdentityKept
    <3> QED
      BY <1>2, <2>1, <2>2, <3>1 DEF IdentityKept
  <2>4. Waiting({"get run"}) => Waiting({"get run"})'
    BY <1>2 DEF Waiting
  <2>5. ASSUME place.at = "run", mount \notin raced PROVE OneRun'
    <3>1. OneRun
      BY <1>1, <2>5, RunsParts
    <3>2. q.mount = mount => q.of = place.of
      BY <1>2, <3>1 DEF OneRun
    <3>3. ASSUME Replaced, q.mount # mount PROVE Replaced'
      <4>1. /\ Can("audit:read")
            /\ \A p \in awaited : p.kind = "get run" /\ p.mount = mount => p.audit
            /\ runPage.status = "ok" => Waiting({"entries"})
        BY <3>3, Zenon DEF Replaced, Mounted
      <4>2. Waiting({"entries"}) => Waiting({"entries"})'
        BY <1>2, <3>3 DEF Waiting
      <4>3. \A p \in awaited' : p.kind = "get run" /\ p.mount = mount' => p.audit
        BY <1>2, <4>1
      <4> QED
        BY <1>3, <2>1, <4>1, <4>2, <4>3, Zenon DEF Replaced, Mounted
    <3>4. runPage'.entries \in {None, place.of} \/ Replaced'
      BY <1>3, <3>1, <3>2, <3>3 DEF OneRun
    <3> QED
      BY <1>2, <1>3, <3>1, <3>4 DEF OneRun
  <2>6. /\ place'.at = "run" =>
             /\ runPage'.status = "loading" => Waiting({"get run"})'
             /\ mount' \notin raced' => OneRun'
    BY <1>1, <1>2, <1>3, <2>4, <2>5, RunsParts
  <2> QED
    BY <2>3, <2>6, Zenon DEF RunsKept, IdentityKept, OneRun, Mounted
<1> QED
  BY <1>4, <1>5, <1>6, <1>7 DEF PagesInv

\* Nothing was permitted before, so no entries were asked for or shown.
LEMMA IdentityArrivesStep ==
  ASSUME PagesInv, NEW q \in awaited, NEW held, IdentityArrives(q, held)
  PROVE  PagesInv'
<1>1. /\ PlacesKept /\ BundlesKept /\ RunsKept /\ ButtonsKept
      /\ mount \in Nat /\ effect \in Nat /\ mount <= mount /\ effect <= effect
      /\ Address(place) /\ place \in visited
  BY PagesNow
<1>2. /\ UNCHANGED <<place, visited, mount, effect, tab, listPage, bundlePage, made, raced>>
      /\ q.kind = "me" /\ scopes' = held
  BY DEF IdentityArrives
<1>3. PICK new : new = LoadRun(place.of, mount, effect, held)
  OBVIOUS
<1>4. /\ new.kind = "get run" /\ new.of = place.of /\ new.mount = mount /\ new.effect = effect
      /\ new.audit => Can("audit:read")'
  BY <1>2, <1>3 DEF LoadRun, Can
<1>5. /\ place.at = "run" => awaited' = (awaited \ {q}) \union {new}
      /\ place.at # "run" => awaited' = awaited \ {q}
  BY <1>3 DEF IdentityArrives
<1>6. /\ \A p \in awaited' : p \in awaited \ {q} \/ (p = new /\ place.at = "run")
      /\ \A p \in awaited : p # q => p \in awaited'
  BY <1>5
<1>7. /\ DOMAIN runPage' = DOMAIN runPage /\ runPage'.busy = runPage.busy
      /\ runPage'.run = runPage.run /\ runPage'.entries = runPage.entries
      /\ IF place.at = "run" THEN runPage'.status = "loading"
         ELSE runPage'.status = runPage.status
  <2>1. runPage' = IF place.at = "run" THEN [runPage EXCEPT !.status = "loading"] ELSE runPage
    BY DEF IdentityArrives
  <2> QED
    BY <1>1, <2>1, PageFacts
<1>8. PlacesKept'
  <2>1. place.at = "run" => place.of \in ShownRuns
    BY <1>1 DEF Address
  <2>2. runPage'.status = "ok" => runPage'.run \in ShownRuns
    BY <1>1, <1>7 DEF PlacesKept
  <2> QED
    BY <1>1, <1>2, <1>4, <1>6, <1>7, <2>1, <2>2, PlacesFrame
<1>9. BundlesKept'
  <2>1. \A p : p.kind = "get bundle" => (p \in awaited' <=> p \in awaited)
    BY <1>2, <1>4, <1>6
  <2>2. \A p \in awaited' : p.kind = "verify" => Page("bundle", p.of) \in visited
    BY <1>1, <1>4, <1>6 DEF BundlesKept
  <2>3. bundlePage.verification # None => Page("bundle", bundlePage.verification) \in visited
    BY <1>1 DEF BundlesKept
  <2> QED
    BY <1>1, <1>2, <2>1, <2>2, <2>3, BundlesFrame
<1>10. ButtonsKept'
  BY <1>1, <1>2, <1>6, <1>7, ButtonsFrame
<1>11. RunsKept'
  <2>1. IdentityKept
    BY <1>1, RunsParts
  <2>2. scopes = None
    BY <1>2, <2>1 DEF IdentityKept
  <2>3. ~Can("audit:read")
    BY <2>2 DEF Can
  <2>4. /\ \A p \in awaited : p.kind = "me" => p = q
        /\ \A p \in awaited : p.kind = "get run" => ~p.audit
        /\ \A p \in awaited : p.kind # "entries"
        /\ runPage.entries = None
    BY <1>2, <2>1, <2>3 DEF IdentityKept
  <2>5. IdentityKept'
    <3>1. \A p \in awaited' : p.kind # "me" /\ p.kind # "entries"
      BY <1>4, <1>6, <2>4
    <3>2. \A p \in awaited' : p.kind = "get run" /\ p.audit => Can("audit:read")'
      BY <1>4, <1>6, <2>4
    <3>3. runPage'.entries = None
      BY <1>7, <2>4
    <3> QED
      BY <3>1, <3>2, <3>3, Zenon DEF IdentityKept
  <2>6. place.at = "run" => Waiting({"get run"})'
    BY <1>2, <1>4, <1>5 DEF Waiting
  <2>7. ASSUME place.at = "run", mount \notin raced PROVE OneRun'
    <3>1. \A p \in awaited : p.kind \in {"get run", "entries"} /\ p.mount = mount =>
            p.of = place.of
      BY <1>1, <2>7, RunsParts DEF OneRun
    <3>2. \A p \in awaited' : p.kind \in {"get run", "entries"} /\ p.mount = mount =>
            p.of = place.of
      BY <1>4, <1>6, <3>1
    <3>3. runPage'.status # "ok" /\ runPage'.entries = None
      BY <1>7, <2>4, <2>7
    <3> QED
      BY <1>2, <3>2, <3>3 DEF OneRun
  <2>8. /\ place'.at = "run" =>
             /\ runPage'.status = "loading" => Waiting({"get run"})'
             /\ mount' \notin raced' => OneRun'
    BY <1>2, <2>6, <2>7
  <2> QED
    BY <2>5, <2>8, Zenon DEF RunsKept, IdentityKept, OneRun, Mounted
<1> QED
  BY <1>8, <1>9, <1>10, <1>11 DEF PagesInv

\* A card, a tab, the browser's history, or a bundle that was made.
LEMMA MovingStep ==
  ASSUME PagesInv,
         \/ \E r \in ShownRuns : OpenRun(r)
         \/ OpenRuns \/ OpenBundleTab
         \/ \E p \in Places : GoBack(p)
         \/ \E q \in awaited : Generated(q) \/ GeneratedHere(q)
  PROVE  PagesInv'
<1>1. PlacesKept /\ BundlesKept /\ made \in Seq(ShownRuns)
  BY DEF PagesInv, PlacesKept
<1>2. ASSUME NEW p, Address(p), Navigate(p, awaited), UNCHANGED <<tab, scopes, made>>
      PROVE  PagesInv'
  BY <1>1, <1>2, ArrivalStep
<1>3. ASSUME NEW r \in ShownRuns, OpenRun(r) PROVE PagesInv'
  BY <1>2, <1>3, AddressFacts DEF OpenRun
<1>4. CASE OpenRuns
  BY <1>2, <1>4, AddressFacts DEF OpenRuns
<1>5. CASE OpenBundleTab
  BY <1>2, <1>5, AddressFacts DEF OpenBundleTab
<1>6. ASSUME NEW p, GoBack(p) PROVE PagesInv'
  <2>1. Address(p)
    BY <1>1, <1>6 DEF GoBack, PlacesKept
  <2> QED
    BY <1>2, <1>6, <2>1 DEF GoBack
<1>7. ASSUME NEW q \in awaited, Generated(q) \/ GeneratedHere(q) PROVE PagesInv'
  <2>1. q.of \in ShownRuns
    BY <1>1, <1>7 DEF Generated, GeneratedHere, PlacesKept
  <2>2. made' = Append(made, q.of) /\ UNCHANGED scopes
    BY <1>7 DEF Generated, GeneratedHere
  <2>3. PICK n \in Nat : n = Len(made)
    BY <1>1
  <2>4. made' \in Seq(ShownRuns) /\ Len(made') = n + 1
    BY <1>1, <2>1, <2>2, <2>3, AppendProperties, Zenon
  <2>5. DOMAIN made = 1..n /\ DOMAIN made' = 1..(n + 1)
    BY <1>1, <2>3, <2>4, LenProperties
  <2>6. PICK b : b = Len(made')
    OBVIOUS
  <2>7. DOMAIN made \subseteq DOMAIN made' /\ b \in DOMAIN made'
    BY <2>4, <2>5, <2>6
  <2>8. /\ Address(Page("bundle", b)) /\ Page("bundle", b).at = "bundle"
    BY AddressFacts
  <2>9. Navigate(Page("bundle", b), awaited \ {q}) /\ (tab' = tab \/ tab' = b)
    BY <1>7, <2>6 DEF Generated, GeneratedHere
  <2>10. PICK p : p = Page("bundle", b)
    OBVIOUS
  <2>11. /\ Address(p) /\ p.at # "run" /\ Navigate(p, awaited \ {q})
         /\ awaited \ {q} \in SUBSET awaited
         /\ tab' = tab \/ (p = Page("bundle", tab') /\ tab' \in DOMAIN made')
    BY <2>7, <2>8, <2>9, <2>10
  <2> QED
    BY <2>2, <2>4, <2>7, <2>11, ArrivalStep
<1> QED
  BY <1>3, <1>4, <1>5, <1>6, <1>7

\* The list of runs, which waits for its answer.
LEMMA PagesInit == ASSUME ConsoleInit PROVE PagesInv
<1>1. /\ place = Home /\ visited = {Home} /\ mount = 1 /\ effect = 1 /\ tab = None
      /\ listPage = NewList /\ runPage = NewRun /\ bundlePage = NewBundle
      /\ scopes = None /\ made = <<>> /\ raced = {}
  BY DEF ConsoleInit
<1>2. PICK list, me : list = Request("list runs", None, 1, 1) /\ me = Request("me", None, 0, 0)
  OBVIOUS
<1>3. awaited = {list, me}
  BY <1>2 DEF ConsoleInit
<1>4. /\ list.kind = "list runs" /\ list.mount = 1 /\ list.effect = 1
      /\ me.kind = "me" /\ me.mount = 0 /\ me.effect = 0
  BY <1>2 DEF Request
<1>5. PlacesKept
  <2>1. mount \in Nat /\ effect \in Nat /\ place \in visited
    BY <1>1
  <2>2. \A p \in visited : Address(p)
    BY <1>1, AddressFacts
  <2>3. \A q \in awaited :
          /\ q.mount \in Nat /\ q.mount <= mount /\ q.effect \in Nat /\ q.effect <= effect
          /\ q.kind \notin {"get run", "generate", "generate here"}
    <3>1. 0 \in Nat /\ 1 \in Nat /\ 0 <= 1 /\ 1 <= 1
      OBVIOUS
    <3>2. \A q \in awaited : q.mount \in {0, 1} /\ q.effect \in {0, 1}
                            /\ q.kind \in {"list runs", "me"}
      BY <1>3, <1>4
    <3> QED
      BY <1>1, <3>1, <3>2
  <2>4. runPage.status # "ok" /\ made \in Seq(ShownRuns)
    BY <1>1, NewPageFacts
  <2> QED
    BY <1>1, <2>1, <2>2, <2>3, <2>4, Zenon DEF PlacesKept
<1>6. BundlesKept
  BY <1>1, <1>3, <1>4, AddressFacts, NewPageFacts DEF BundlesKept
<1>7. RunsKept
  BY <1>1, <1>2, <1>3, <1>4, AddressFacts, NewPageFacts DEF RunsKept
<1>8. ButtonsKept
  BY <1>1, <1>3, <1>4, NewPageFacts DEF ButtonsKept, Waiting
<1> QED
  BY <1>5, <1>6, <1>7, <1>8 DEF PagesInv

\* Every step keeps the invariant of the pages.
LEMMA PagesStep == ASSUME PagesInv, [ConsoleNext]_consoleVars PROVE PagesInv'
<1>1. CASE UNCHANGED consoleVars
  <2>1. PlacesKept /\ BundlesKept /\ RunsKept /\ ButtonsKept
    BY DEF PagesInv
  <2>2. UNCHANGED <<place, visited, mount, effect, tab, listPage, runPage, bundlePage, scopes,
                    awaited, made, raced>>
    BY <1>1 DEF consoleVars
  <2>3. PlacesKept'
    BY <2>1, <2>2, PlacesFrame DEF PlacesKept
  <2>4. BundlesKept'
    BY <2>1, <2>2, BundlesFrame DEF BundlesKept
  <2>5. RunsKept'
    BY <2>1, <2>2, RunsFrame
  <2>6. ButtonsKept'
    BY <2>1, <2>2, ButtonsFrame
  <2> QED
    BY <2>3, <2>4, <2>5, <2>6 DEF PagesInv
<1>2. CASE ConsoleNext
  BY <1>2, AskingStep, AnswerStep, RunArrivesStep, EntriesArriveStep, IdentityArrivesStep,
     MovingStep DEF ConsoleNext
<1> QED
  BY <1>1, <1>2

\* What the pages promise follows.
LEMMA PagesPromise == ASSUME PagesInv PROVE ConsoleInv
<1>1. /\ PlacesKept /\ BundlesKept /\ RunsKept /\ ButtonsKept
      /\ Address(place) /\ place \in visited
  BY PagesNow
<1>2. place.at = "bundle" /\ ~Waiting({"get bundle"}) =>
        bundlePage.error \/ bundlePage.bundle = place.of
  BY <1>1 DEF BundlesKept, Waiting, Live, Mounted
<1>3. place.at = "run" =>
        /\ runPage.status = "loading" => Waiting({"get run"})
        /\ mount \notin raced => OneRun
  BY <1>1, RunsParts
<1>4. place.at = "run" /\ ~Waiting({"get run"}) =>
        /\ runPage.status # "loading"
        /\ RunShown /\ mount \notin raced => runPage.run = place.of
  BY <1>3 DEF RunShown, OneRun
<1>5. RunShown /\ ~Waiting({"get run", "entries"}) /\ mount \notin raced =>
        runPage.entries \in {None, runPage.run}
  <2>1. SUFFICES ASSUME RunShown, ~Waiting({"get run", "entries"}), mount \notin raced
                 PROVE  runPage.entries \in {None, runPage.run}
    OBVIOUS
  <2>2. OneRun /\ runPage.run = place.of /\ runPage.status = "ok"
    BY <1>3, <2>1 DEF RunShown, OneRun
  <2>3. ~Replaced
    BY <2>1, <2>2 DEF Replaced, Waiting
  <2> QED
    BY <2>2, <2>3 DEF OneRun
<1>6. /\ place = Home => listPage.listed \/ listPage.error \/ Waiting({"list runs"})
      /\ listPage.busy # None => Waiting({"generate"})
      /\ runPage.busy => Waiting({"generate here"})
  BY <1>1 DEF ButtonsKept
<1>7. /\ bundlePage.verification # None => Page("bundle", bundlePage.verification) \in visited
      /\ tab # None => tab \in DOMAIN made /\ Page("bundle", tab) \in visited
  BY <1>1 DEF BundlesKept
<1> QED
  BY <1>1, <1>2, <1>4, <1>5, <1>6, <1>7, Zenon DEF ConsoleInv

-----------------------------------------------------------------------------
(* The dashboard *)

\* The table of API keys is what the server has but for what the page asked for no list
\* after, however late the answers come, whichever of them are errors, also of requests
\* that took effect, and whenever a dialog is closed.
THEOREM KeysPageHonest == SettingsSpec => []SettingsInv
<1>1. SettingsInit => KeysPageInv
  BY KeysPageInit
<1>2. KeysPageInv /\ [SettingsNext]_settingsVars => KeysPageInv'
  BY SettingsTypeStep, ListsStep, DialogsStep, SecretsStep DEF KeysPageInv
<1>3. KeysPageInv => SettingsInv
  BY KeysPagePromise
<1> QED
  BY <1>1, <1>2, <1>3, PTL DEF SettingsSpec

\* The pages of runs and bundles, wherever the user goes meanwhile.
THEOREM PagesHonest == ConsoleSpec => []ConsoleInv
<1>1. ConsoleInit => PagesInv
  BY PagesInit
<1>2. PagesInv /\ [ConsoleNext]_consoleVars => PagesInv'
  BY PagesStep
<1>3. PagesInv => ConsoleInv
  BY PagesPromise
<1> QED
  BY <1>1, <1>2, <1>3, PTL DEF ConsoleSpec

\* The dashboard shows what its address names and what the server answered, whatever
\* order the answers come in.
THEOREM DashboardAlwaysHonest == DashboardSpec => []DashboardHonest
<1>1. ConsoleInv /\ SettingsInv => DashboardHonest
  BY DEF DashboardHonest
<1> QED
  BY <1>1, KeysPageHonest, PagesHonest, PTL DEF DashboardSpec

==============================================================================

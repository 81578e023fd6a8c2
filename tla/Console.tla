------------------------------- MODULE Console -------------------------------
(***************************************************************************)
(* The dashboard in one browser tab: App.tsx, the runs list, a run's page, *)
(* a bundle's page and the identity they share.                            *)
(*                                                                         *)
(* A page whose address changes within one route stays mounted and keeps   *)
(* its state; on another route it is mounted afresh.  Every answer arrives *)
(* whenever it does, in any order, also after its page was left.           *)
(***************************************************************************)
EXTENDS Tenancy, Naturals, Sequences

CONSTANTS
  ShownRuns,   \* the runs of the list
  MaxBundles,  \* bound: how many bundles are made
  MaxOpens     \* bound: how often a page is opened

VARIABLES
  place,       \* the address of the tab
  visited,     \* the addresses of its history
  mount,       \* number of the mounted page
  effect,      \* number of its last effect: one for each address, and each reload
  tab,         \* bundleId of Shell: where the "Bundle" tab leads
  listPage,    \* the state of Runs
  runPage,     \* the state of RunDetailPage
  bundlePage,  \* the state of EvidenceBundleView
  scopes,      \* the identity: what can() answers, or None while it is loading
  awaited,     \* requests that have no answer yet
  made,        \* the server: the run of each bundle, which is named by its number
  raced        \* history: mounts in which one run was asked for while another was

consoleVars ==
  <<place, visited, mount, effect, tab, listPage, runPage, bundlePage, scopes, awaited,
    made, raced>>

Page(at, of) == [at |-> at, of |-> of]
Home == Page("runs", None)
Places ==
  {Home} \union {Page("run", r) : r \in ShownRuns} \union {Page("bundle", b) : b \in 1..MaxBundles}

NewList == [listed |-> FALSE, busy |-> None, error |-> FALSE]
NewRun ==
  [run |-> None, status |-> "loading", entries |-> None, busy |-> FALSE, error |-> FALSE]
NewBundle == [bundle |-> None, verification |-> None, error |-> FALSE, open |-> FALSE]

\* A request, with the mount and the effect whose closures wait for it.
Request(kind, of, m, e) == [kind |-> kind, of |-> of, mount |-> m, effect |-> e]

Can(scope) == scopes # None /\ scope \in scopes

\* "runs:get" answers to a closure that has read can("audit:read") already.
LoadRun(r, m, e, held) ==
  [kind |-> "get run", of |-> r, mount |-> m, effect |-> e,
   audit |-> held # None /\ "audit:read" \in held]

ConsoleInit ==
  /\ place = Home /\ visited = {Home}
  /\ mount = 1 /\ effect = 1
  /\ tab = None
  /\ listPage = NewList /\ runPage = NewRun /\ bundlePage = NewBundle
  /\ scopes = None
  /\ awaited = {Request("list runs", None, 1, 1), Request("me", None, 0, 0)}
  /\ made = <<>>
  /\ raced = {}

-----------------------------------------------------------------------------
(* Addresses *)

\* What the effects of a page ask for.
PageRequest(p, m, e) ==
  CASE p.at = "runs"   -> Request("list runs", None, m, e)
    [] p.at = "run"    -> LoadRun(p.of, m, e, scopes)
    [] p.at = "bundle" -> Request("get bundle", p.of, m, e)

\* The tab goes to p, while the requests in "others" are under way.
Navigate(p, others) ==
  LET same == p.at = place.at
      m == IF same THEN mount ELSE mount + 1
  IN  /\ p # place
      /\ effect < MaxOpens
      /\ place' = p
      /\ visited' = visited \union {p}
      /\ mount' = m
      /\ effect' = effect + 1
      /\ listPage' = IF same THEN listPage ELSE NewList
      /\ runPage' = IF same THEN [runPage EXCEPT !.status = "loading"] ELSE NewRun
      /\ bundlePage' = IF same THEN bundlePage ELSE NewBundle
      /\ awaited' = others \union {PageRequest(p, m, effect + 1)}
      /\ raced' = raced \union
           {q.mount : q \in {q \in others : /\ q.kind \in {"get run", "entries"}
                                             /\ q.mount = m /\ q.of # p.of}}

\* A card of the list, "Back to runs" and the tabs, and the browser's own history.
OpenRun(r) ==
  /\ place = Home /\ listPage.listed
  /\ Navigate(Page("run", r), awaited)
  /\ UNCHANGED <<tab, scopes, made>>

OpenRuns ==
  /\ Navigate(Home, awaited)
  /\ UNCHANGED <<tab, scopes, made>>

OpenBundleTab ==
  /\ tab # None
  /\ Navigate(Page("bundle", tab), awaited)
  /\ UNCHANGED <<tab, scopes, made>>

GoBack(p) ==
  /\ p \in visited
  /\ Navigate(p, awaited)
  /\ UNCHANGED <<tab, scopes, made>>

-----------------------------------------------------------------------------
(* Asking *)

AskFor(kind, of) ==
  awaited' = awaited \union {Request(kind, of, mount, effect)}

\* Only the run clicked last has its button disabled.
GenerateFromList(r) ==
  /\ place = Home /\ listPage.listed
  /\ Can("evidence:generate")
  /\ listPage.busy # r
  /\ listPage' = [listPage EXCEPT !.busy = r]
  /\ AskFor("generate", r)
  /\ UNCHANGED <<place, visited, mount, effect, tab, runPage, bundlePage, scopes, made, raced>>

RunShown == place.at = "run" /\ runPage.status = "ok"

\* The bundle of the run that is shown, which its address need not name.
GenerateFromRun ==
  /\ RunShown
  /\ Can("evidence:generate")
  /\ ~runPage.busy
  /\ runPage' = [runPage EXCEPT !.busy = TRUE, !.error = FALSE]
  /\ AskFor("generate here", runPage.run)
  /\ UNCHANGED <<place, visited, mount, effect, tab, listPage, bundlePage, scopes, made, raced>>

BundleShown == place.at = "bundle" /\ bundlePage.bundle # None /\ ~bundlePage.error

\* The seal verifies each time it is opened, the bundle the address names.
ToggleSeal ==
  /\ BundleShown
  /\ bundlePage' = [bundlePage EXCEPT !.open = ~@]
  /\ IF bundlePage.open THEN UNCHANGED awaited ELSE AskFor("verify", place.of)
  /\ UNCHANGED <<place, visited, mount, effect, tab, listPage, runPage, scopes, made, raced>>

\* "Retry", after an error.
RetryRun ==
  /\ place.at = "run" /\ runPage.status = "error"
  /\ runPage' = [runPage EXCEPT !.status = "loading"]
  /\ awaited' = awaited \union {LoadRun(place.of, mount, effect, scopes)}
  /\ UNCHANGED <<place, visited, mount, effect, tab, listPage, bundlePage, scopes, made, raced>>

-----------------------------------------------------------------------------
(* Answers *)

\* State is set on the page that asked, if it is still mounted.
Mounted(q) == q.mount = mount

\* Seeded fault: whatever bundle arrives last is shown.
LiveOrMounted(q) == Mounted(q)

\* "live", which the effect's cleanup clears.
Live(q) == q.effect = effect

ListArrives(q, ok) ==
  /\ q \in awaited /\ q.kind = "list runs"
  /\ awaited' = awaited \ {q}
  /\ listPage' = IF ~Mounted(q) THEN listPage
                 ELSE IF ok THEN [listPage EXCEPT !.listed = TRUE]
                 ELSE [listPage EXCEPT !.error = TRUE]
  /\ UNCHANGED <<place, visited, mount, effect, tab, runPage, bundlePage, scopes, made, raced>>

\* The server made a bundle: onBundle sets the tab and goes there, whatever page the
\* user is on by now.
Generated(q) ==
  /\ q \in awaited /\ q.kind = "generate"
  /\ Len(made) < MaxBundles
  /\ made' = Append(made, q.of)
  /\ tab' = Len(made')
  /\ Navigate(Page("bundle", Len(made')), awaited \ {q})
  /\ UNCHANGED scopes

\* From a run's page: the same, but the tab keeps leading where it did.
GeneratedHere(q) ==
  /\ q \in awaited /\ q.kind = "generate here"
  /\ Len(made) < MaxBundles
  /\ made' = Append(made, q.of)
  /\ Navigate(Page("bundle", Len(made')), awaited \ {q})
  /\ UNCHANGED <<tab, scopes>>

GenerateFails(q) ==
  /\ q \in awaited /\ q.kind \in {"generate", "generate here"}
  /\ awaited' = awaited \ {q}
  /\ listPage' = IF Mounted(q) /\ q.kind = "generate"
                 THEN [listPage EXCEPT !.busy = None, !.error = TRUE] ELSE listPage
  /\ runPage' = IF Mounted(q) /\ q.kind = "generate here"
                THEN [runPage EXCEPT !.busy = FALSE, !.error = TRUE] ELSE runPage
  /\ UNCHANGED <<place, visited, mount, effect, tab, bundlePage, scopes, made, raced>>

BundleArrives(q, ok) ==
  /\ q \in awaited /\ q.kind = "get bundle"
  /\ awaited' = awaited \ {q}
  /\ bundlePage' =
       IF ~Live(q) THEN bundlePage
       ELSE IF ok THEN [bundlePage EXCEPT !.bundle = q.of]
       ELSE [bundlePage EXCEPT !.error = TRUE]
  /\ UNCHANGED <<place, visited, mount, effect, tab, listPage, runPage, scopes, made, raced>>

\* Neither guarded nor reset when the address changes.
Verified(q, ok) ==
  /\ q \in awaited /\ q.kind = "verify"
  /\ awaited' = awaited \ {q}
  /\ bundlePage' =
       IF ~Mounted(q) THEN bundlePage
       ELSE IF ok THEN [bundlePage EXCEPT !.verification = q.of]
       ELSE [bundlePage EXCEPT !.error = TRUE]
  /\ UNCHANGED <<place, visited, mount, effect, tab, listPage, runPage, scopes, made, raced>>

\* The run is shown and its entries are asked for, by a reader of the log.
RunArrives(q, status) ==
  /\ q \in awaited /\ q.kind = "get run"
  /\ awaited' = (awaited \ {q}) \union
       (IF status = "ok" /\ q.audit
        THEN {Request("entries", q.of, q.mount, q.effect)} ELSE {})
  /\ runPage' =
       IF ~Mounted(q) THEN runPage
       ELSE IF status = "ok" THEN [runPage EXCEPT !.run = q.of, !.status = "ok"]
       ELSE [runPage EXCEPT !.status = status]
  /\ UNCHANGED <<place, visited, mount, effect, tab, listPage, bundlePage, scopes, made, raced>>

\* The entries of the run that was asked for, or none where the log cannot be read.
EntriesArrive(q, ok) ==
  /\ q \in awaited /\ q.kind = "entries"
  /\ awaited' = awaited \ {q}
  /\ runPage' = IF Mounted(q) THEN [runPage EXCEPT !.entries = IF ok THEN q.of ELSE None]
                ELSE runPage
  /\ UNCHANGED <<place, visited, mount, effect, tab, listPage, bundlePage, scopes, made, raced>>

\* can() is another function from now on, so a run's page loads again.
IdentityArrives(q, held) ==
  /\ q \in awaited /\ q.kind = "me"
  /\ scopes' = held
  /\ IF place.at = "run"
     THEN /\ runPage' = [runPage EXCEPT !.status = "loading"]
          /\ awaited' = (awaited \ {q}) \union {LoadRun(place.of, mount, effect, held)}
     ELSE /\ awaited' = awaited \ {q}
          /\ UNCHANGED runPage
  /\ UNCHANGED <<place, visited, mount, effect, tab, listPage, bundlePage, made, raced>>

\* Without an identity nothing is permitted, as while it was loading.
IdentityFails(q) ==
  /\ q \in awaited /\ q.kind = "me"
  /\ awaited' = awaited \ {q}
  /\ UNCHANGED <<place, visited, mount, effect, tab, listPage, runPage, bundlePage, scopes,
                 made, raced>>

ConsoleNext ==
  \/ \E r \in ShownRuns : OpenRun(r) \/ GenerateFromList(r)
  \/ OpenRuns \/ OpenBundleTab \/ GenerateFromRun \/ ToggleSeal \/ RetryRun
  \/ \E p \in Places : GoBack(p)
  \/ \E q \in awaited :
       \/ Generated(q) \/ GeneratedHere(q) \/ GenerateFails(q) \/ IdentityFails(q)
       \/ \E ok \in BOOLEAN :
            \/ ListArrives(q, ok) \/ BundleArrives(q, ok)
            \/ Verified(q, ok) \/ EntriesArrive(q, ok)
       \/ \E status \in {"ok", "notfound", "error"} : RunArrives(q, status)
       \/ \E held \in SUBSET {"audit:read", "evidence:generate"} : IdentityArrives(q, held)

ConsoleSpec == ConsoleInit /\ [][ConsoleNext]_consoleVars

-----------------------------------------------------------------------------
(* What the pages promise *)

\* What the mounted page still waits for.
Waiting(kinds) == \E q \in awaited : q.mount = mount /\ q.kind \in kinds

\* Whatever order the answers come in and wherever the user has gone meanwhile: a page
\* that waits for nothing more shows what its address names or that it could not be
\* loaded; entries are never shown beside another run's page unless one page asked for
\* both; what is verified is a bundle that was opened, and the tab leads to a bundle.
ConsoleInv ==
  /\ place \in visited
  /\ place.at = "bundle" /\ ~Waiting({"get bundle"}) =>
       bundlePage.error \/ bundlePage.bundle = place.of
  /\ place.at = "run" /\ ~Waiting({"get run"}) =>
       /\ runPage.status # "loading"
       /\ RunShown /\ mount \notin raced => runPage.run = place.of
  /\ RunShown /\ ~Waiting({"get run", "entries"}) /\ mount \notin raced =>
       runPage.entries \in {None, runPage.run}
  /\ place = Home => listPage.listed \/ listPage.error \/ Waiting({"list runs"})
  /\ listPage.busy # None => Waiting({"generate"})
  /\ runPage.busy => Waiting({"generate here"})
  /\ bundlePage.verification # None =>
       Page("bundle", bundlePage.verification) \in visited
  /\ tab # None => tab \in DOMAIN made /\ Page("bundle", tab) \in visited

-----------------------------------------------------------------------------
(* What the documentation says and the code does not do *)

\* docs/design-system.md: a seal shows "the reconstructed root, next to the expected
\* root", "for every verifiable artifact": the verdict beside a bundle is that bundle's.
SealOfBundleShown ==
  BundleShown /\ bundlePage.verification # None => bundlePage.verification = bundlePage.bundle
=============================================================================

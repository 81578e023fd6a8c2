------------------------------- MODULE Settings -------------------------------
(***************************************************************************)
(* The API keys page of the dashboard (pages/ApiKeys.tsx) against the key  *)
(* routes: a list, and one dialog at a time that can be closed whenever,   *)
(* also while its request is under way.                                    *)
(*                                                                         *)
(* A request is sent, served and answered in three steps, in any order     *)
(* between requests.  Keys are named by their number.  The page shares     *)
(* nothing with the other pages, which Console models, but what they are   *)
(* promised together.                                                      *)
(***************************************************************************)
EXTENDS Console

CONSTANTS
  MaxAsked,    \* bound: how many lists are asked for
  MaxDialogs,  \* bound: how many dialogs are opened
  MaxKeys      \* bound: how many keys are issued

\* A table that loads is not a list of keys.
ASSUME TableAssumption == None \notin Seq(BOOLEAN)

VARIABLES
  issued,     \* the server: for each key, whether it is revoked
  table,      \* keys: the list on the page, or None while it loads
  failed,     \* error of the page
  dialog,     \* the dialog that is open, by its number
  dialogs,    \* how many were opened
  asked,      \* how many lists were asked for
  underway,   \* requests without an answer, and answers on their way
  latest,     \* history: the last list request that was answered
  outrun,     \* history: an older answer arrived after a newer one
  lost,       \* history: keys nobody has the secret of
  untold      \* history: what was done that the page asks for no list after, and how
              \* many it had asked for

settingsVars ==
  <<issued, table, failed, dialog, dialogs, asked, underway, latest, outrun, lost,
    untold>>

NoDialog == [kind |-> "none", number |-> 0, key |-> None, busy |-> FALSE, error |-> FALSE]

\* A list is answered with its keys, the other requests with a key's number, or 0.
Call(kind, number, key) ==
  [kind |-> kind, number |-> number, key |-> key, served |-> FALSE, answer |-> None, ok |-> 0]

SettingsInit ==
  /\ issued = <<FALSE>>
  /\ table = None /\ failed = FALSE
  /\ dialog = NoDialog /\ dialogs = 0
  /\ asked = 1 /\ underway = {Call("list", 1, None)}
  /\ latest = 0 /\ outrun = FALSE /\ lost = {} /\ untold = {}

\* load(), beside what is left of the underway.
ReloadList(rest) ==
  /\ asked < MaxAsked
  /\ asked' = asked + 1
  /\ underway' = rest \union {Call("list", asked + 1, None)}

OpenDialog(kind, key) ==
  /\ dialog.kind = "none"
  /\ dialogs < MaxDialogs
  /\ dialogs' = dialogs + 1
  /\ dialog' = [NoDialog EXCEPT !.kind = kind, !.number = dialogs + 1, !.key = key]
  /\ UNCHANGED <<issued, table, failed, asked, underway, latest, outrun, lost, untold>>

OpenCreate == OpenDialog("create", None)

\* The button is there for a key the table shows as active.
OpenRevoke(k) ==
  /\ table # None
  /\ k \in DOMAIN table /\ ~table[k]
  /\ OpenDialog("revoke", k)

\* "Create API key" or "Revoke key": the dialog's button is disabled meanwhile.
Submit ==
  /\ dialog.kind \in {"create", "revoke"}
  /\ ~dialog.busy
  /\ dialog' = [dialog EXCEPT !.busy = TRUE,
                              !.error = IF dialog.kind = "create" THEN FALSE ELSE @]
  /\ underway' = underway \union {Call(dialog.kind, dialog.number, dialog.key)}
  /\ UNCHANGED <<issued, table, failed, dialogs, asked, latest, outrun, lost, untold>>

\* Escape, a click beside the dialog, or "Cancel"; the list is not asked for again.
Cancel ==
  /\ dialog.kind \in {"create", "revoke"}
  /\ dialog' = NoDialog
  /\ UNCHANGED <<issued, table, failed, dialogs, asked, underway, latest, outrun, lost,
                 untold>>

\* Every way out of the dialog with the secret counts as "Done".
Done ==
  /\ dialog.kind = "secret"
  /\ dialog' = NoDialog
  /\ ReloadList(underway)
  /\ UNCHANGED <<issued, table, failed, dialogs, latest, outrun, lost, untold>>

-----------------------------------------------------------------------------
(* The server *)

Responds(q, answer, ok) ==
  underway' = (underway \ {q}) \union
                {[q EXCEPT !.served = TRUE, !.answer = answer, !.ok = ok]}

Untold(kind, key) == [kind |-> kind, key |-> key, asked |-> asked]

ServeList(q) ==
  /\ q \in underway /\ q.kind = "list" /\ ~q.served
  /\ Responds(q, issued, 0)
  /\ UNCHANGED <<issued, table, failed, dialog, dialogs, asked, latest, outrun, lost,
                 untold>>

\* A key; or an error although there is one, when the append to the audit log throws or
\* the answer is lost; or an error without one, when the key is refused or the request
\* lost.
ServeCreate(q) ==
  /\ q \in underway /\ q.kind = "create" /\ ~q.served
  /\ \/ /\ Len(issued) < MaxKeys
        /\ issued' = Append(issued, FALSE)
        /\ \/ /\ Responds(q, None, Len(issued'))
              /\ UNCHANGED <<lost, untold>>
           \/ /\ Responds(q, None, 0)
              /\ lost' = lost \union {Len(issued')}
              /\ untold' = untold \union {Untold("create", Len(issued'))}
     \/ /\ Responds(q, None, 0)
        /\ UNCHANGED <<issued, lost, untold>>
  /\ UNCHANGED <<table, failed, dialog, dialogs, asked, latest, outrun>>

\* The same for a revocation; 409 for a key that is revoked already.
ServeRevoke(q) ==
  /\ q \in underway /\ q.kind = "revoke" /\ ~q.served
  /\ \/ /\ ~issued[q.key]
        /\ issued' = [issued EXCEPT ![q.key] = TRUE]
        /\ \/ /\ Responds(q, None, q.key)
              /\ UNCHANGED untold
           \/ /\ Responds(q, None, 0)
              /\ untold' = untold \union {Untold("revoke", q.key)}
     \/ /\ Responds(q, None, 0)
        /\ UNCHANGED <<issued, untold>>
  /\ UNCHANGED <<table, failed, dialog, dialogs, asked, latest, outrun, lost>>

-----------------------------------------------------------------------------
(* Answers *)

ListAnswered(q, ok) ==
  /\ q \in underway /\ q.kind = "list" /\ q.served
  /\ underway' = underway \ {q}
  /\ table' = IF ok THEN q.answer ELSE table
  /\ failed' = ~ok
  /\ latest' = IF q.number > latest THEN q.number ELSE latest
  /\ outrun' = (outrun \/ q.number < latest)
  /\ UNCHANGED <<issued, dialog, dialogs, asked, lost, untold>>

\* The secret is shown by the dialog that asked for it, and by no other.
CreateAnswered(q) ==
  /\ q \in underway /\ q.kind = "create" /\ q.served
  /\ underway' = underway \ {q}
  /\ IF q.number = dialog.number
     THEN /\ dialog' = IF q.ok = 0 THEN [dialog EXCEPT !.busy = FALSE, !.error = TRUE]
                       ELSE [dialog EXCEPT !.kind = "secret", !.busy = FALSE, !.key = q.ok]
          /\ UNCHANGED <<lost, untold>>
     ELSE /\ lost' = lost \union ({q.ok} \ {0})
          /\ untold' = untold \union {Untold("create", k) : k \in {q.ok} \ {0}}
          /\ UNCHANGED dialog
  /\ UNCHANGED <<issued, table, failed, dialogs, asked, latest, outrun>>

\* Seeded fault: a dialog that was closed says nothing to the page.
OnRevokedIfOpen(q) ==
  /\ dialog' = IF dialog.number = q.number THEN NoDialog ELSE dialog
  /\ IF dialog.number = q.number THEN ReloadList(underway \ {q})
     ELSE underway' = underway \ {q} /\ UNCHANGED asked

\* onRevoked belongs to the page: it closes whichever revocation is open by now.
OnRevoked(q) ==
  /\ dialog' = IF dialog.kind = "revoke" THEN NoDialog ELSE dialog
  /\ ReloadList(underway \ {q})

RevokeAnswered(q) ==
  /\ q \in underway /\ q.kind = "revoke" /\ q.served
  /\ IF q.ok # 0 THEN OnRevoked(q)
     ELSE /\ underway' = underway \ {q}
          /\ dialog' = IF dialog.number = q.number
                       THEN [dialog EXCEPT !.busy = FALSE, !.error = TRUE] ELSE dialog
          /\ UNCHANGED asked
  /\ UNCHANGED <<issued, table, failed, dialogs, latest, outrun, lost, untold>>

SettingsNext ==
  \/ OpenCreate \/ Submit \/ Cancel \/ Done
  \/ \E k \in 1..MaxKeys : OpenRevoke(k)
  \/ \E q \in underway :
       \/ ServeList(q) \/ ServeCreate(q) \/ ServeRevoke(q)
       \/ \E ok \in BOOLEAN : ListAnswered(q, ok)
       \/ CreateAnswered(q) \/ RevokeAnswered(q)

SettingsSpec == SettingsInit /\ [][SettingsNext]_settingsVars

-----------------------------------------------------------------------------
(* What the page promises *)

\* Whatever order the answers come in, whichever of them are errors, and whenever a
\* dialog is closed: once nothing is under way, and unless the last list failed or an
\* older one outran it, the table is what the server has, but for what the page asked for
\* no list after.  A key shown as active may be revoked only if its revocation was
\* answered with an error, and a key may be missing only if its creation was, its dialog
\* was closed too early, or its secret is on the screen; the next list shows either.  A
\* dialog that waits is answered, and a secret on the screen is not one that was lost.
SettingsInv ==
  /\ underway = {} /\ ~failed /\ ~outrun =>
       /\ table # None
       /\ \A k \in DOMAIN table :
            /\ k \in DOMAIN issued
            /\ table[k] = issued[k] \/ (issued[k] /\ Untold("revoke", k) \in untold)
       /\ \A k \in DOMAIN issued \ DOMAIN table :
            Untold("create", k) \in untold \/ (dialog.kind = "secret" /\ dialog.key = k)
  /\ dialog.busy =>
       \E q \in underway : q.kind = dialog.kind /\ q.number = dialog.number
  /\ dialog.kind = "secret" => dialog.key \in DOMAIN issued /\ dialog.key \notin lost

-----------------------------------------------------------------------------
(* The dashboard *)

DashboardSpec == ConsoleSpec /\ SettingsSpec

\* The dashboard shows what its address names and what the server answered, whatever
\* order the answers come in: pages of runs and bundles, and the table of API keys.
DashboardHonest == ConsoleInv /\ SettingsInv
==============================================================================

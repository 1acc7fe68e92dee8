------------------------- MODULE RepositoryWorkflow -------------------------
(***************************************************************************)
(* The window's side of Cloud Sync: which account and binding it shows, its  *)
(* dialogs, and the flows that connect, disconnect, link, read the status    *)
(* and sync.  A flow belongs to the workspace that was open when it started  *)
(* (its scope) and goes on when the user opens another one.                  *)
(*                                                                         *)
(* A flow is a record with the call it waits for; native answers are worked  *)
(* out when the call runs and reach the window later, in any order.  Before   *)
(* a sync, the unsaved documents of its workspace are saved one after another *)
(* (saveWorkspaceDocuments.ts), and the user types and saves meanwhile.       *)
(***************************************************************************)
EXTENDS Integers, FiniteSets

CONSTANTS
  Workspaces,  \* roots of workspaces
  Linked,      \* those that are linked at first
  Documents,   \* identities of open documents
  Home,        \* the workspace of each document
  Contents,    \* what a document holds
  Draft,       \* what the documents hold at first, and have not saved
  None,        \* no workspace, binding, status, answer, document or content
  MaxCommands, \* bound on what the user starts
  MaxSwitches, \* bound on workspaces opened
  MaxEdits,    \* bound on edits
  MaxFaults    \* bound on calls that fail

WorkflowAssumption ==
  /\ Linked \subseteq Workspaces
  /\ None \notin Workspaces \cup {"yes", "no", "auth", "error", "cleanup", "conflicts", "pending"}
  /\ Home \in [Documents -> Workspaces] /\ Draft \in Contents /\ Contents \ {Draft} # {}
  /\ None \notin Documents
  /\ MaxCommands \in Nat /\ MaxSwitches \in Nat /\ MaxEdits \in Nat /\ MaxFaults \in Nat

VARIABLES
  workspace,   \* the workspace of the window
  scope,       \* the number of the workspace's lifetime
  identity,    \* the account, the pending cleanup and the binding the window shows
  fresh,       \* the reading of the identity was not overtaken by a newer result
  ui,          \* the dialog, the status shown and the state of the operation
  tasks,       \* flows in flight
  native,      \* the stored account, pending cleanup and bindings
  documents,   \* the text each document shows, the one its last save stored, and its dirty mark
  gate,        \* the batch of saves before a sync: the document being saved, the text captured
               \* of it, those left, the texts saved, and (history) the documents the user
               \* saved otherwise since the batch began
  stale,       \* (history) a flow that changes the account or a binding outlived its
               \* workspace, or overlapped another flow
  late,        \* (history) a sync or a link that outlived its workspace showed its status
  broken,      \* (history) a call failed
  commands, switches, edits, faults

vars == <<workspace, scope, identity, fresh, ui, tasks, native, documents, gate, stale, late, broken,
          commands, switches, edits, faults>>
bounds == <<commands, switches, edits, faults>>

Reading(s, w) == [kind |-> "identity", number |-> s, scope |-> s, root |-> w, step |-> "account", answer |-> None, memo |-> "none"]

NoGate == [at |-> None, text |-> None, todo |-> {}, saved |-> {}, other |-> {}]

Init ==
  /\ workspace \in Workspaces \cup {None} /\ scope = 1
  /\ identity = [account |-> FALSE, cleanup |-> FALSE, binding |-> None]
  /\ fresh = TRUE
  /\ ui = [dialog |-> "none", status |-> None, root |-> None, listed |-> FALSE,
           busy |-> FALSE, syncing |-> FALSE, operation |-> "idle", request |-> 0]
  /\ tasks = {Reading(1, workspace)}
  /\ native \in [connected : BOOLEAN, cleanup : {FALSE}, bindings : {Linked}]
  /\ \E stored \in Contents \ {Draft} : documents = [d \in Documents |-> [text |-> Draft, stored |-> stored, dirty |-> TRUE]]
  /\ gate = NoGate /\ stale = FALSE /\ late = FALSE /\ broken = FALSE
  /\ commands = MaxCommands /\ switches = MaxSwitches /\ edits = MaxEdits /\ faults = MaxFaults

Active(t) == t.scope = scope
\* dirtyDocumentIdsForWorkspace
Unsaved(root) == {d \in Documents : Home[d] = root /\ documents[d].dirty}
Goes(t, step) == tasks' = (tasks \ {t}) \cup {[t EXCEPT !.step = step, !.answer = None]}
Ends(t) == tasks' = tasks \ {t}

\* The setters of useRepositoryIdentity: those of another workspace do nothing, any other
\* result overtakes the reading in flight.
Account(t, account) == IF Active(t) THEN [identity EXCEPT !.account = account, !.cleanup = FALSE] ELSE identity
Overtakes(t) == fresh' = (fresh /\ ~Active(t))

\* finally of the flows.
Idle(t) ==
  CASE t.kind = "sync" -> [ui EXCEPT !.syncing = FALSE, !.busy = FALSE]
    [] t.kind = "refresh" -> [ui EXCEPT !.busy = IF Active(t) THEN FALSE ELSE @,
                                        !.operation = IF Active(t) /\ @ = "busy" THEN "idle" ELSE @,
                                        !.request = IF @ = t.scope THEN 0 ELSE @]
    [] OTHER -> [ui EXCEPT !.busy = FALSE]

\* showRepositoryOperation
Started(u) == [u EXCEPT !.operation = "busy", !.dialog = IF @ = "operation" THEN "none" ELSE @]
Refused(u) == [u EXCEPT !.operation = "error", !.dialog = "operation"]

-----------------------------------------------------------------------------
(* The native side: a call runs, and its answer is on its way.               *)

Answered(t, answer) == tasks' = (tasks \ {t}) \cup {[t EXCEPT !.answer = answer]}

\* repository_get_account finishes a pending cleanup; the others need an account, and linking
\* and reading need no more than the store.
Call(t) ==
  /\ t.answer = None /\ t.step \notin {"save", "choose"}
  /\ CASE t.step = "account" -> /\ native' = [native EXCEPT !.cleanup = FALSE]
                                /\ Answered(t, IF native.connected THEN "yes" ELSE "no")
       [] t.step = "binding" -> UNCHANGED native /\ Answered(t, IF t.root \in native.bindings THEN "yes" ELSE "no")
       [] t.step = "list" -> /\ native' = [native EXCEPT !.cleanup = FALSE]
                             /\ Answered(t, IF ~native.connected THEN "auth" ELSE IF t.root \in native.bindings THEN "yes" ELSE "no")
       [] t.step = "connect" -> IF native.cleanup THEN UNCHANGED native /\ Answered(t, "error")
                                ELSE native' = [native EXCEPT !.connected = TRUE] /\ Answered(t, "yes")
       [] t.step = "disconnect" -> native' = [native EXCEPT !.connected = FALSE, !.cleanup = FALSE] /\ Answered(t, "yes")
       [] t.step = "link" -> IF native.connected
                             THEN native' = [native EXCEPT !.bindings = @ \cup {t.root}] /\ Answered(t, "yes")
                             ELSE UNCHANGED native /\ Answered(t, "error")
       [] t.step = "status" -> UNCHANGED native /\ Answered(t, IF native.connected THEN "yes" ELSE "error")
       [] t.step = "sync" -> /\ UNCHANGED native
                             /\ IF native.connected THEN \E a \in {"yes", "conflicts", "pending"} : Answered(t, a) ELSE Answered(t, "error")
       [] t.step = "reload" -> /\ UNCHANGED native
                               /\ Answered(t, "yes") \/ (Unsaved(t.root) # {} /\ Answered(t, "conflicts"))
  /\ UNCHANGED <<workspace, scope, identity, fresh, ui, documents, gate, stale, late, broken, bounds>>

\* A call fails; a disconnect that fails, or a cleanup that does, stays pending.
CallFails(t) ==
  /\ faults > 0 /\ faults' = faults - 1 /\ broken' = TRUE
  /\ t.answer = None /\ t.step \notin {"save", "choose"}
  /\ native' = IF t.step = "disconnect" THEN [native EXCEPT !.connected = FALSE, !.cleanup = TRUE] ELSE native
  /\ Answered(t, IF t.step = "disconnect" \/ (t.step = "account" /\ native.cleanup) THEN "cleanup" ELSE "error")
  /\ UNCHANGED <<workspace, scope, identity, fresh, ui, documents, gate, stale, late, commands, switches, edits>>

-----------------------------------------------------------------------------
(* The window continues a flow.                                              *)

Returns(t, step, kinds) == t.step = step /\ t.kind \in kinds /\ t.answer # None
Failed(t) == t.answer \in {"error", "auth", "cleanup"}
World == UNCHANGED <<workspace, scope, native, bounds, broken>>
Flow == World /\ UNCHANGED <<documents, gate>>
Histories == UNCHANGED <<stale, late>>

\* Mutant: a reading that was overtaken is taken all the same.
CurrentScope(t) == Active(t)

\* A reading counts unless its workspace was left or a newer result came first.
Current(t) == Active(t) /\ fresh

\* The effect of useRepositoryIdentity.
IdentityReturns(t) ==
  /\ t.kind = "identity" /\ t.answer # None
  /\ IF ~Current(t) THEN Ends(t) /\ UNCHANGED identity
     ELSE IF Failed(t)
     THEN Ends(t) /\ identity' = IF t.answer = "cleanup" THEN [account |-> FALSE, cleanup |-> TRUE, binding |-> None] ELSE identity
     ELSE IF t.step = "account" /\ t.root # None
     THEN /\ tasks' = (tasks \ {t}) \cup {[t EXCEPT !.step = "binding", !.answer = None, !.memo = t.answer]}
          /\ UNCHANGED identity
     ELSE /\ Ends(t)
          /\ identity' = [account |-> "yes" = IF t.step = "account" THEN t.answer ELSE t.memo, cleanup |-> FALSE,
                          binding |-> IF t.step = "binding" /\ t.answer = "yes" THEN t.root ELSE None]
  /\ UNCHANGED <<fresh, ui>> /\ Histories /\ Flow

\* openLinkWorkspaceDialog: the dialog lists the repositories of the account.
ListingUi(u, root) == [u EXCEPT !.listed = FALSE, !.root = root, !.dialog = "link", !.busy = TRUE]
Listing(t) ==
  ui' = ListingUi(ui, t.root) /\ tasks' = (tasks \ {t}) \cup {[t EXCEPT !.step = "list", !.answer = None]}

\* Connected: the workspace is to be linked, and without one the user chooses a folder.
ConnectReturns(t) ==
  /\ Returns(t, "connect", {"connect"})
  /\ IF Failed(t) THEN Ends(t) /\ ui' = [ui EXCEPT !.dialog = "connect", !.busy = FALSE] /\ UNCHANGED <<identity, fresh>>
     ELSE identity' = Account(t, TRUE) /\ Overtakes(t) /\ (IF t.root # None THEN Listing(t) ELSE Goes(t, "choose") /\ UNCHANGED ui)
  /\ Histories /\ Flow

\* The listing has the repositories and the binding; without credentials it asks to connect.
ListReturns(t) ==
  /\ Returns(t, "list", {"dialog", "connect", "refresh", "sync"})
  /\ Ends(t)
  /\ identity' = IF ~Active(t) \/ t.answer = "error" THEN identity
                 ELSE IF t.answer = "auth" THEN [account |-> FALSE, cleanup |-> FALSE, binding |-> None]
                 ELSE [identity EXCEPT !.binding = IF t.answer = "yes" THEN t.root ELSE None]
  /\ fresh' = IF t.answer = "error" THEN fresh ELSE fresh /\ ~Active(t)
  /\ \E some \in BOOLEAN :
       ui' = [Idle(t) EXCEPT !.busy = FALSE,
                !.listed = IF t.answer = "auth" THEN FALSE ELSE IF t.answer = "error" THEN @ ELSE some,
                !.dialog = IF t.answer = "auth" THEN "connect" ELSE @]
  /\ Histories /\ Flow

DisconnectReturns(t) ==
  /\ Returns(t, "disconnect", {"disconnect"})
  /\ Ends(t)
  /\ identity' = IF ~Active(t) THEN identity ELSE [account |-> FALSE, cleanup |-> Failed(t), binding |-> None]
  /\ Overtakes(t)
  /\ ui' = IF Failed(t) THEN [Refused(ui) EXCEPT !.busy = FALSE]
           ELSE [ui EXCEPT !.root = None, !.dialog = "none", !.busy = FALSE]
  /\ Histories /\ Flow

\* linkCurrentWorkspace: after linking it reads the status.
LinkReturns(t) ==
  /\ Returns(t, "link", {"link"})
  /\ IF Failed(t)
     THEN Ends(t) /\ ui' = [ui EXCEPT !.dialog = "link", !.busy = FALSE] /\ UNCHANGED <<identity, fresh, stale>>
     ELSE /\ Goes(t, "status") /\ ui' = [ui EXCEPT !.root = None]
          /\ identity' = IF Active(t) THEN [identity EXCEPT !.binding = t.root] ELSE identity
          /\ stale' = (stale \/ t.root # workspace)
          /\ Overtakes(t)
  /\ UNCHANGED late /\ Flow

LinkedReturns(t) ==
  /\ Returns(t, "status", {"link"})
  /\ Ends(t)
  /\ ui' = IF Failed(t) THEN [ui EXCEPT !.dialog = "link", !.busy = FALSE]
           ELSE [ui EXCEPT !.status = t.root, !.dialog = "status", !.busy = FALSE]
  /\ late' = (late \/ (~Failed(t) /\ t.root # workspace))
  /\ UNCHANGED <<identity, fresh, stale>> /\ Flow

-----------------------------------------------------------------------------

\* A status read that fails or finds its workspace gone.
Stops(t) ==
  IF ~Failed(t) \/ (t.kind = "refresh" /\ ~Active(t)) THEN Idle(t)
  ELSE IF t.kind = "refresh" THEN Refused(Idle(t))
  ELSE [Idle(t) EXCEPT !.operation = "error", !.dialog = "none"]

\* saveWorkspaceDocuments captures the text of the next document and saves it.
SaveNext(todo, saved, other) ==
  \E d \in todo : gate' = [at |-> d, text |-> documents[d].text, todo |-> todo \ {d}, saved |-> saved, other |-> other]

\* resolveRepositoryContext; a sync then saves the documents of the workspace.
ContextReturns(t) ==
  /\ \E step \in {"account", "binding"} : Returns(t, step, {"refresh", "sync"})
  /\ LET account == IF t.step = "account" THEN Account(t, t.answer = "yes") ELSE identity
     IN IF Failed(t) \/ ~Active(t) THEN Ends(t) /\ ui' = Stops(t) /\ UNCHANGED <<identity, fresh, gate>>
        ELSE /\ Overtakes(t)
             /\ CASE t.step = "account" /\ t.answer = "no" ->
                       Ends(t) /\ ui' = [Idle(t) EXCEPT !.dialog = "connect"] /\ identity' = account /\ UNCHANGED gate
                  [] t.step = "account" /\ t.answer = "yes" ->
                       Goes(t, "binding") /\ identity' = account /\ UNCHANGED <<ui, gate>>
                  [] t.step = "binding" /\ t.answer = "no" ->
                       Listing(t) /\ identity' = [identity EXCEPT !.binding = None] /\ UNCHANGED gate
                  [] t.step = "binding" /\ t.answer = "yes" ->
                       /\ identity' = [identity EXCEPT !.binding = t.root]
                       /\ IF t.kind = "refresh" THEN Goes(t, "status") /\ UNCHANGED <<ui, gate>>
                          ELSE /\ ui' = Started(ui)
                               /\ IF Unsaved(t.root) = {} THEN Goes(t, "sync") /\ UNCHANGED gate
                                  ELSE Goes(t, "save") /\ SaveNext(Unsaved(t.root), {}, {})
  /\ UNCHANGED documents /\ Histories /\ World

\* Mutant: the answer is shown whatever workspace is open now.
RefreshReturnsLate(t) ==
  /\ Returns(t, "status", {"refresh"})
  /\ Ends(t)
  /\ IF Failed(t) THEN ui' = Stops(t) /\ UNCHANGED <<identity, fresh>>
     ELSE /\ ui' = [Idle(t) EXCEPT !.status = t.root, !.dialog = "status"]
          /\ identity' = IF Active(t) THEN [account |-> TRUE, cleanup |-> FALSE, binding |-> t.root] ELSE identity
          /\ Overtakes(t)
  /\ Histories /\ Flow

\* refreshSyncStatus: the answer of a workspace that was left is dropped.
RefreshReturns(t) ==
  /\ Returns(t, "status", {"refresh"})
  /\ Ends(t)
  /\ IF Failed(t) \/ ~Active(t) THEN ui' = Stops(t) /\ UNCHANGED <<identity, fresh>>
     ELSE /\ ui' = [Idle(t) EXCEPT !.status = t.root, !.dialog = "status"]
          /\ identity' = IF Active(t) THEN [account |-> TRUE, cleanup |-> FALSE, binding |-> t.root] ELSE identity
          /\ Overtakes(t)
  /\ Histories /\ Flow

\* save_markdown_file of the document of the batch: it is stored, or refused.
Save(t) ==
  /\ t.step = "save" /\ t.answer = None
  /\ \/ documents' = [documents EXCEPT ![gate.at].stored = gate.text] /\ Answered(t, "yes")
     \/ UNCHANGED documents /\ Answered(t, "error")
  /\ UNCHANGED <<gate, identity, fresh, ui>> /\ Histories /\ World

\* The batch stops, and no sync begins.
Paused(t) == Ends(t) /\ gate' = NoGate /\ ui' = [Idle(t) EXCEPT !.operation = "error"]

\* saveTab has saved the document of the batch if it still shows the text captured.
BatchSaved == documents' = [documents EXCEPT ![gate.at].dirty = FALSE]
SavedSoFar == gate.saved \cup {<<gate.at, gate.text>>}

\* Mutant: the documents saved first are not looked at again.
SaveReturnsBlind(t) ==
  /\ Returns(t, "save", {"sync"})
  /\ IF Failed(t) \/ documents[gate.at].text # gate.text THEN Paused(t) /\ UNCHANGED documents
     ELSE /\ BatchSaved
          /\ IF gate.todo # {} THEN Goes(t, "save") /\ SaveNext(gate.todo, SavedSoFar, gate.other) /\ UNCHANGED ui
             ELSE Goes(t, "sync") /\ gate' = NoGate /\ UNCHANGED ui
  /\ UNCHANGED <<identity, fresh>> /\ Histories /\ World

\* saveWorkspaceDocuments: a save that fails, or a document typed into during its own save,
\* stops the batch; after the last one a dirty document is one whose text was saved.
SaveReturns(t) ==
  /\ Returns(t, "save", {"sync"})
  /\ IF Failed(t) \/ documents[gate.at].text # gate.text THEN Paused(t) /\ UNCHANGED documents
     ELSE /\ BatchSaved
          /\ IF gate.todo # {} THEN Goes(t, "save") /\ SaveNext(gate.todo, SavedSoFar, gate.other) /\ UNCHANGED ui
             ELSE IF \A d \in Unsaved(t.root) \ {gate.at} : <<d, documents[d].text>> \in SavedSoFar
             THEN Goes(t, "sync") /\ gate' = NoGate /\ UNCHANGED ui
             ELSE Paused(t)
  /\ UNCHANGED <<identity, fresh>> /\ Histories /\ World

\* The end of runRepositorySyncAction: conflicts and what the remote still holds are shown, and
\* documents that kept their text are told of.
Finished(u, outcome, localConflict) ==
  [u EXCEPT !.syncing = FALSE, !.busy = FALSE,
            !.dialog = IF outcome \in {"conflicts", "pending"} THEN "status" ELSE "none",
            !.operation = IF localConflict \/ outcome = "conflicts" THEN "error" ELSE "success"]

\* runRepositorySyncAction shows the status of the sync; a pull and a sync then reload the
\* documents, a push is over.
SyncReturns(t) ==
  /\ Returns(t, "sync", {"sync"})
  /\ IF Failed(t) THEN Ends(t) /\ ui' = Stops(t) /\ UNCHANGED <<identity, fresh, late>>
     ELSE /\ identity' = IF Active(t) THEN [account |-> TRUE, cleanup |-> FALSE, binding |-> t.root] ELSE identity
          /\ Overtakes(t)
          /\ late' = (late \/ ~Active(t))
          /\ LET told == [ui EXCEPT !.status = t.root]
             IN \/ /\ ui' = told
                   /\ tasks' = (tasks \ {t}) \cup {[t EXCEPT !.step = "reload", !.answer = None, !.memo = t.answer]}
                \/ ui' = Finished(told, t.answer, FALSE) /\ Ends(t)
  /\ UNCHANGED stale /\ Flow

ReloadReturns(t) ==
  /\ Returns(t, "reload", {"sync"})
  /\ Ends(t)
  /\ ui' = IF Failed(t) THEN Stops(t) ELSE Finished(ui, t.memo, t.answer = "conflicts")
  /\ UNCHANGED <<identity, fresh>> /\ Histories /\ Flow

-----------------------------------------------------------------------------
(* The user.                                                                *)

\* getCommandState
Enabled(command) ==
  /\ ~ui.busy
  /\ IF identity.cleanup THEN command = "disconnect"
     ELSE CASE command = "connect" -> ~identity.account
            [] command \in {"disconnect", "dialog"} -> identity.account
            [] OTHER -> identity.binding # None

\* Flows that change the account or a binding.
Changes == {"connect", "disconnect", "link"}
Changing == \E t \in tasks : t.kind \in Changes

\* One of two flows of the open workspace that are under way together is such a flow.
Meets(kind) == \E t \in tasks : Active(t) /\ t.kind # "identity" /\ {kind, t.kind} \cap Changes # {}

Begin(kind, root, step) ==
  /\ commands > 0 /\ commands' = commands - 1
  /\ stale' = (stale \/ Meets(kind))
  /\ tasks' = tasks \cup {[kind |-> kind, number |-> commands, scope |-> scope, root |-> root, step |-> step,
                           answer |-> None, memo |-> "none"]}
UserOnly == UNCHANGED <<workspace, scope, identity, fresh, native, documents, gate, late, broken, switches, edits, faults>>

OpenConnect == Enabled("connect") /\ ui.dialog # "connect" /\ ui' = [ui EXCEPT !.dialog = "connect"] /\ UNCHANGED <<tasks, commands, stale>> /\ UserOnly
CloseDialog ==
  /\ ui.dialog \in {"status", "operation"} \/ (ui.dialog \in {"connect", "link"} /\ ~ui.busy)
  /\ ui' = [ui EXCEPT !.dialog = "none", !.root = None] /\ UNCHANGED <<tasks, commands, stale>> /\ UserOnly

Connect == ui.dialog = "connect" /\ ~ui.busy /\ Begin("connect", workspace, "connect") /\ ui' = [ui EXCEPT !.busy = TRUE] /\ UserOnly
Disconnect == Enabled("disconnect") /\ Begin("disconnect", None, "disconnect") /\ ui' = [ui EXCEPT !.busy = TRUE] /\ UserOnly

\* The link dialog lists the repositories; without a workspace it asks for a folder first.
OpenLink ==
  /\ Enabled("dialog")
  /\ IF workspace = None THEN Begin("dialog", None, "choose") /\ UNCHANGED ui
     ELSE /\ Begin("dialog", workspace, "list")
          /\ ui' = [ui EXCEPT !.listed = FALSE, !.root = workspace, !.dialog = "link", !.busy = TRUE]
  /\ UserOnly

\* RepositoryWorkflowDialogs shows the link dialog for an account and the status for a status.
LinkShown == ui.dialog = "link" /\ identity.account
StatusShown == ui.dialog = "status" /\ ui.status # None

\* The form of the link dialog.
Link ==
  /\ LinkShown /\ ~ui.busy /\ ui.listed
  /\ LET root == IF ui.root # None THEN ui.root ELSE workspace
     IN root # None /\ Begin("link", root, "link")
  /\ ui' = [ui EXCEPT !.busy = TRUE] /\ UserOnly

RefreshStatus ==
  /\ Enabled("status") /\ Begin("refresh", workspace, "account")
  /\ ui' = [Started(ui) EXCEPT !.request = scope, !.busy = TRUE]
  /\ UserOnly

\* runRepositorySyncAction, from the menu or from the status dialog.
Sync ==
  /\ Enabled("sync") \/ StatusShown
  /\ ~ui.syncing
  /\ Begin("sync", workspace, "account")
  /\ ui' = [Started(ui) EXCEPT !.syncing = TRUE, !.busy = TRUE]
  /\ UserOnly

\* Typing, where it matters: while a sync of the document's workspace saves, runs or reloads.
Edit(d, text) ==
  /\ \E t \in tasks : t.root = Home[d] /\ t.step \in {"save", "sync", "reload"}
  /\ edits > 0 /\ edits' = edits - 1
  /\ text # documents[d].text
  /\ documents' = [documents EXCEPT ![d].text = text, ![d].dirty = TRUE]
  /\ UNCHANGED <<workspace, scope, identity, fresh, ui, tasks, native, gate, stale, late, broken, commands, switches, faults>>

\* The user saves a document the batch is not saving (savesInProgress): saveTab in one step, since
\* one that is not over when the batch comes to its document makes the batch stop.
SaveByUser(d) ==
  /\ \E t \in tasks : t.root = Home[d] /\ t.step = "save"
  /\ documents[d].dirty /\ d # gate.at
  /\ documents' = [documents EXCEPT ![d].stored = documents[d].text, ![d].dirty = FALSE]
  /\ gate' = [gate EXCEPT !.other = @ \cup {d}]
  /\ UNCHANGED <<workspace, scope, identity, fresh, ui, tasks, native, stale, late, broken, commands, switches, edits, faults>>

\* Another workspace: its reading starts and what belonged to the last one is taken back.
Entered(w, others) ==
  /\ switches > 0 /\ switches' = switches - 1
  /\ workspace' = w /\ scope' = scope + 1 /\ fresh' = TRUE
  /\ tasks' = others \cup {Reading(scope + 1, w)}
  /\ identity' = [identity EXCEPT !.binding = None]
  /\ stale' = (stale \/ Changing)

\* Mutant: the flow that went on in the last workspace still counts.
LeftBusy(u) == [u EXCEPT !.dialog = IF @ \in {"status", "operation"} THEN "none" ELSE @, !.status = None]

Left(u) ==
  [u EXCEPT !.dialog = IF @ \in {"status", "operation"} THEN "none" ELSE @, !.status = None,
            !.busy = @ /\ (u.syncing \/ u.request = 0), !.operation = IF u.syncing \/ u.request = 0 THEN @ ELSE "idle"]

Switch(w) ==
  /\ w # workspace /\ Entered(w, tasks) /\ ui' = Left(ui)
  /\ UNCHANGED <<native, documents, gate, late, broken, commands, edits, faults>>

\* The folder chosen to be linked is opened first, if it is not open.
Choose(t, w) ==
  /\ t.step = "choose"
  /\ LET listing == (tasks \ {t}) \cup {[t EXCEPT !.step = "list", !.root = w]}
     IN IF w = workspace
        THEN tasks' = listing /\ ui' = ListingUi(ui, w) /\ UNCHANGED <<workspace, scope, identity, fresh, stale, switches>>
        ELSE Entered(w, listing) /\ ui' = ListingUi(Left(ui), w)
  /\ UNCHANGED <<native, documents, gate, late, broken, commands, edits, faults>>

\* No folder is chosen, or it cannot be opened.
ChooseNothing(t) ==
  /\ t.step = "choose" /\ Ends(t)
  /\ ui' = [ui EXCEPT !.dialog = "none", !.busy = @ /\ t.kind = "dialog"]
  /\ UNCHANGED <<identity, fresh, stale, late>> /\ Flow

Returned(t) ==
  \/ IdentityReturns(t) \/ ConnectReturns(t) \/ ListReturns(t) \/ DisconnectReturns(t) \/ LinkReturns(t)
  \/ LinkedReturns(t) \/ ContextReturns(t) \/ RefreshReturns(t) \/ Save(t) \/ SaveReturns(t) \/ SyncReturns(t)
  \/ ReloadReturns(t) \/ Call(t) \/ ChooseNothing(t)

User == OpenConnect \/ CloseDialog \/ Connect \/ Disconnect \/ OpenLink \/ Link \/ RefreshStatus \/ Sync

Next ==
  \/ User
  \/ \E d \in Documents : SaveByUser(d) \/ \E text \in Contents : Edit(d, text)
  \/ \E w \in Workspaces : Switch(w)
  \/ \E t \in tasks : Returned(t) \/ CallFails(t) \/ \E w \in Workspaces : Choose(t, w)
  \/ tasks = {} /\ UNCHANGED vars

Spec == Init /\ [][Next]_vars

\* Calls answer, the window continues its flows, and the folder dialog is closed at last.
FairSpec == Spec /\ WF_vars(\E t \in tasks : Returned(t))

-----------------------------------------------------------------------------

TypeOK ==
  /\ workspace \in Workspaces \cup {None} /\ scope \in 1..(MaxSwitches + 1)
  /\ identity \in [account : BOOLEAN, cleanup : BOOLEAN, binding : Workspaces \cup {None}]
  /\ ui.dialog \in {"none", "connect", "link", "status", "operation"} /\ ui.operation \in {"idle", "busy", "success", "error"}
  /\ documents \in [Documents -> [text : Contents, stored : Contents, dirty : BOOLEAN]]
  /\ native.bindings \subseteq Workspaces

\* At rest the account and the binding the window shows are the stored ones, unless a call failed
\* or a flow that changes them outlived its workspace or overlapped another flow (useRepositoryIdentity).
IdentityIsCurrent ==
  tasks = {} /\ ~stale /\ ~broken =>
    /\ identity.account = native.connected
    /\ identity.account => (identity.binding # None) = (workspace \in native.bindings)

\* A reading of a workspace that was left never becomes the binding or the status of the open one,
\* however late it comes (useRepositoryIdentity, refreshSyncStatus).  Nothing is said of a status
\* once a sync or a link that outlived its workspace showed its own, nor of a binding once such a
\* link did: these have no scope (StatusIsOfWorkspace).
ReadingsStay ==
  /\ stale \/ identity.binding \in {None, workspace}
  /\ late \/ ui.status \in {None, workspace}

\* One sync runs at a time, and the window knows of it (runRepositorySyncAction).
OneSync == Cardinality({t \in tasks : t.kind = "sync"}) = (IF ui.syncing THEN 1 ELSE 0)

\* What the documents of a workspace show is what their last save stored, but for one that the user
\* saved otherwise after the batch did, and typed back: the batch takes its first text for stored.
StoredAsShown(root) ==
  \A d \in Documents : Home[d] = root /\ d \notin gate.other => documents[d].text = documents[d].stored

\* The status dialog shows the open workspace: no late answer reopens it for another one
\* (docs/engineering/audit.md, ENG-16).  A sync or a link that outlives its workspace does.
StatusIsOfWorkspace == StatusShown => ui.status = workspace

\* The window does not stay busy: whatever fails and whichever workspace is open by then, the
\* commands come back (useRepositoryWorkflow).
CommandsComeBack == <>[](~ui.busy /\ ~ui.syncing)
=============================================================================

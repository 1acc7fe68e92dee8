-------------------------- MODULE DocumentSession --------------------------
(***************************************************************************)
(* The document session of one desktop window                              *)
(* (features/workspace/useDocumentSession.ts): tabs, their buffers and      *)
(* revisions, and the asynchronous reads, saves, path mutations, closes and *)
(* quits that interleave with typing.                                       *)
(*                                                                         *)
(* JavaScript runs one section between two awaits at a time, so each action *)
(* below is one such section: the start of a call, its work in the native   *)
(* process, or the continuation that reads its answer.  A task is a call    *)
(* that has started and not ended.  What it may still do when it wakes up   *)
(* is what it holds:                                                        *)
(*   "document"  captureIdentity: the tab is still the one it was           *)
(*   "read"      a read request nobody superseded or invalidated            *)
(*   "intent"    DocumentNavigation: no later navigation                    *)
(* so that a symbol compared by the code is here a permission that the      *)
(* other handlers take away.                                                *)
(*                                                                         *)
(* A file's content stands for its revision.  The native commands are the   *)
(* atomic calls of AtomicDocuments, which DocumentSave implements.          *)
(***************************************************************************)
EXTENDS Naturals, FiniteSets

CONSTANTS
  Roots,       \* workspace folders
  Files,       \* relative paths, the same in every folder
  Untitled,    \* identities of untitled documents
  Spare,       \* root-qualified identities, for a path whose own name is taken
  Contents,    \* what a buffer or a file can hold
  Empty,       \* the content of a new file
  NoFile,      \* the version of an absent file
  None,        \* no document, tab, folder, path or answer
  MaxEdits,    \* bound on typing
  MaxForeign,  \* bound on writes of other programs
  MaxTasks     \* bound on calls started

Ids == Files \cup Untitled \cup Spare

VARIABLES
  disk,       \* the files of every folder
  docs,       \* open tabs: their file, buffer, revision (base) and dirty mark
  active,     \* the active tab
  workspace,  \* the folder shown in the tree
  tasks,      \* calls in flight
  mutation,   \* WorkspacePathMutations: the folder whose paths are changing
  conflict,   \* externalDocumentChange
  quit,       \* requestAppQuit
  budget

vars == <<disk, docs, active, workspace, tasks, mutation, conflict, quit, budget>>

Versions == Contents \cup {NoFile}
Places == Roots \X Files
Nowhere == <<None, None>>

Documents ==
  [place : Places \cup {Nowhere}, text : Contents, base : Versions, dirty : BOOLEAN]

\* An untitled identity is no path, and no document is missing by its content.
ASSUME SessionAssumption ==
  /\ Empty \in Contents /\ NoFile \notin Contents
  /\ None \notin Contents \cup {NoFile} \cup Ids \cup Roots \cup Documents
  /\ Untitled \cap (Files \cup Spare) = {}
  /\ {MaxEdits, MaxForeign, MaxTasks} \subseteq Nat

Reads == {"reload", "discardReload", "select", "openPath", "workspace", "opened"}
Saves == {"save", "saveAs"}
Mutations == {"rename", "delete", "create"}

Permissions == {"document", "read", "intent"}
Answers == Versions \cup {None, "ok", "failed", "changed", "missing"}

Tasks ==
  [fn : Reads \cup Saves \cup Mutations \cup {"close"},
   at : {"ask", "native", "answered", "refresh"},
   id : Ids \cup {None}, next : Ids \cup {None},
   place : Places \cup {Nowhere}, to : Places \cup {Nowhere},
   text : Versions, base : Versions, answer : Answers,
   holds : SUBSET Permissions, then : {"end", "close", "quit"}]

Quits ==
  [stage : {"no", "ask", "saving", "closing", "gone"}, discards : BOOLEAN,
   todo : SUBSET Ids, saved : SUBSET (Ids \X Contents)]

NoTask ==
  [fn |-> "close", at |-> "native", id |-> None, next |-> None, place |-> Nowhere,
   to |-> Nowhere, text |-> NoFile, base |-> NoFile, answer |-> None, holds |-> {},
   then |-> "end"]
NoQuit == [stage |-> "no", discards |-> FALSE, todo |-> {}, saved |-> {}]

Open == {id \in Ids : docs[id] # None}
Dirty == {id \in Open : docs[id].dirty}
TabsAt(place) == {id \in Open : docs[id].place = place}
SavesInProgress == {t.id : t \in {u \in tasks : u.fn \in Saves}}
ClosesInProgress == {t.id : t \in {u \in tasks : u.fn = "close"}}

\* Identities something still refers to: untitledCounter never gives one of them again.
Mentioned ==
  {t.id : t \in tasks} \cup {t.next : t \in tasks} \cup quit.todo \cup {p[1] : p \in quit.saved}
    \cup (IF conflict = None THEN {} ELSE {conflict.id})

Closing == quit.stage = "closing"
Running == quit.stage # "gone"

\* rejectDuringPathMutation
Rejected == Closing \/ mutation # None

-----------------------------------------------------------------------------
(* Permissions. *)

\* The tab a task's permissions are about: a Save As ends under its new identity.
Subject(t) == IF t.at = "refresh" /\ t.fn = "saveAs" THEN t.next ELSE t.id

Losing(T, ids, permissions) ==
  {IF Subject(t) \in ids THEN [t EXCEPT !.holds = @ \ permissions] ELSE t : t \in T}

\* Mutant: a renamed tab keeps its permissions.
ReconciledByIdentity(T, now) ==
  LET replaced == {id \in Ids : docs[id] = None \/ now[id] = None}
      touched == {id \in Ids \ replaced : \/ docs[id].text # now[id].text
                                          \/ docs[id].base # now[id].base}
  IN  Losing(Losing(T, replaced, {"document", "read"}), touched, {"read"})

\* DocumentReadRequests.reconcile after the tabs became now: a closed tab, or one
\* whose file has another path, is another document; a changed buffer or revision
\* revokes the pending read.
Reconciled(T, now) ==
  LET replaced == {id \in Ids : \/ docs[id] = None \/ now[id] = None
                                \/ docs[id].place # now[id].place}
      touched == {id \in Ids \ replaced : \/ docs[id].text # now[id].text
                                          \/ docs[id].base # now[id].base}
  IN  Losing(Losing(T, replaced, {"document", "read"}), touched, {"read"})

\* DocumentNavigation.begin and invalidate: earlier intents are gone.
WithoutIntents(T) == {[t EXCEPT !.holds = @ \ {"intent"}] : t \in T}

\* Tabs and tasks after a section that leaves the tabs as now and the tasks as T.
Commit(now, T) ==
  /\ docs' = now
  /\ tasks' = Reconciled(T, now)

Spend(kind) ==
  /\ budget[kind] > 0
  /\ budget' = [budget EXCEPT ![kind] = @ - 1]

Same == UNCHANGED <<disk, budget>>
SameView == UNCHANGED <<active, workspace, mutation, conflict, quit>>

\* makeWorkspaceDocumentId: the relative path while it is free, or a qualified name.
Identities(place, root, taken) ==
  IF place[1] = root /\ place[2] \notin taken THEN {place[2]} ELSE Spare \ taken

Loaded(place, version) == [place |-> place, text |-> version, base |-> version, dirty |-> FALSE]

-----------------------------------------------------------------------------

\* The window starts with one untitled document that is not dirty, which may since have
\* been closed; a folder is shown.
Init ==
  /\ disk = [place \in Places |-> Empty]
  /\ active \in Untitled \cup {None}
  /\ docs = [id \in Ids |-> IF id = active /\ id # None
                               THEN [place |-> Nowhere, text |-> Empty, base |-> NoFile, dirty |-> FALSE]
                               ELSE None]
  /\ workspace \in Roots
  /\ tasks = {}
  /\ mutation = None
  /\ conflict = None
  /\ quit = NoQuit
  /\ budget = [edits |-> MaxEdits, foreign |-> MaxForeign, tasks |-> MaxTasks]

-----------------------------------------------------------------------------
(* Typing and tabs. *)

\* updateActiveDocument
Type(v) ==
  /\ active # None /\ ~Closing /\ v # docs[active].text
  /\ Commit([docs EXCEPT ![active].text = v, ![active].dirty = TRUE], tasks)
  /\ Spend("edits")
  /\ UNCHANGED disk /\ SameView

\* createUntitledDocument: new documents are unsaved from the start.
CreateUntitled(id) ==
  /\ ~Closing /\ docs[id] = None /\ id \notin Mentioned
  /\ Commit([docs EXCEPT ![id] = [place |-> Nowhere, text |-> Empty, base |-> NoFile, dirty |-> TRUE]],
            WithoutIntents(tasks))
  /\ active' = id
  /\ Spend("tasks")
  /\ UNCHANGED <<disk, workspace, mutation, conflict, quit>>

\* What activateTab leaves: the tab and its folder are shown.
Show(id, now) ==
  /\ active' = id
  /\ workspace' = IF id = None \/ now[id].place = Nowhere THEN workspace ELSE now[id].place[1]

ActivateTab(id) ==
  /\ docs[id] # None /\ id # active
  /\ tasks' = WithoutIntents(tasks)
  /\ Show(id, docs)
  /\ UNCHANGED <<disk, docs, mutation, conflict, quit, budget>>

-----------------------------------------------------------------------------
(* Reads. *)

Start(t, T) ==
  /\ tasks' = T \cup {t}
  /\ Spend("tasks")
  /\ UNCHANGED <<disk, docs>>

\* selectFile: a click in the file tree.
SelectFile(file) ==
  LET place == <<workspace, file>> IN
  /\ ~Rejected
  /\ IF TabsAt(place) # {}
       THEN /\ tasks' = WithoutIntents(tasks)
            /\ \E id \in TabsAt(place) : active' = id
            /\ UNCHANGED <<disk, docs, budget>>
       ELSE /\ \E id \in Identities(place, workspace, Open) :
                 Start([NoTask EXCEPT !.fn = "select", !.id = id, !.place = place, !.holds = {"intent"}],
                       WithoutIntents(tasks))
            /\ UNCHANGED active
  /\ UNCHANGED <<workspace, mutation, conflict, quit>>

\* Its continuation does not look at the identity again: a tab that took it while
\* the file was read gets the bytes that were read, and keeps its dirty mark.
Selected(t) ==
  /\ t.fn = "select" /\ t.at = "answered"
  /\ IF "intent" \in t.holds /\ t.answer \in Contents
       THEN /\ Commit([docs EXCEPT ![t.id] = [Loaded(t.place, t.answer) EXCEPT !.dirty = t.id \in Dirty]],
                      tasks \ {t})
            /\ active' = t.id
       ELSE tasks' = tasks \ {t} /\ UNCHANGED <<docs, active>>
  /\ Same /\ UNCHANGED <<workspace, mutation, conflict, quit>>

\* openMarkdownPath: File > Open, a recent document or a file the system opens.
OpenPath(place) ==
  /\ Start([NoTask EXCEPT !.fn = "openPath", !.place = place, !.holds = {"intent"}], WithoutIntents(tasks))
  /\ SameView

OpenedPath(t) ==
  /\ t.fn = "openPath" /\ t.at = "answered"
  /\ IF "intent" \in t.holds /\ t.answer \in Contents /\ mutation # t.place[1]
       THEN IF TabsAt(t.place) # {}
              THEN /\ tasks' = WithoutIntents(tasks \ {t})
                   /\ \E id \in TabsAt(t.place) : Show(id, docs)
                   /\ UNCHANGED docs
              ELSE \E id \in Identities(t.place, workspace, Open) :
                     /\ Commit([docs EXCEPT ![id] = Loaded(t.place, t.answer)], tasks \ {t})
                     /\ active' = id /\ workspace' = t.place[1]
       ELSE tasks' = tasks \ {t} /\ UNCHANGED <<docs, active, workspace>>
  /\ Same /\ UNCHANGED <<mutation, conflict, quit>>

\* loadWorkspace: every tab is replaced, so nothing may be unsaved before or after
\* the folder and its first file are read.
LoadWorkspace(place) ==
  /\ ~Rejected /\ Dirty = {}
  /\ Start([NoTask EXCEPT !.fn = "workspace", !.place = place, !.holds = {"intent"}], WithoutIntents(tasks))
  /\ SameView

LoadedWorkspace(t) ==
  /\ t.fn = "workspace" /\ t.at = "answered"
  /\ IF "intent" \in t.holds /\ t.answer \in Contents /\ Dirty = {}
       THEN /\ Commit([id \in Ids |-> IF id = t.place[2] THEN Loaded(t.place, t.answer) ELSE None], tasks \ {t})
            /\ active' = t.place[2] /\ workspace' = t.place[1]
       ELSE tasks' = tasks \ {t} /\ UNCHANGED <<docs, active, workspace>>
  /\ Same /\ UNCHANGED <<mutation, conflict, quit>>

-----------------------------------------------------------------------------
(* Reloads. *)

Conflict(id, reason) == [id |-> id, place |-> docs[id].place, reason |-> reason]

\* reloadDocumentFromDisk for the watcher of the active tab and after a download:
\* a tab whose file no longer holds its revision is read again, unless it is dirty;
\* either way the request begun here supersedes the one before.
Reload(id) ==
  LET place == docs[id].place
      read == [NoTask EXCEPT !.fn = "reload", !.id = id, !.place = place, !.holds = {"document", "read"}]
  IN
  /\ id \in Open /\ place # Nowhere /\ mutation # place[1]
  /\ disk[place] \notin {docs[id].base, NoFile}
  /\ IF docs[id].dirty
       THEN /\ conflict' = Conflict(id, "changed")
            /\ tasks' = Losing(tasks, {id}, {"read"})
            /\ UNCHANGED docs /\ Same
       ELSE /\ Start(read, Losing(tasks, {id}, {"read"}))
            /\ UNCHANGED conflict
  /\ UNCHANGED <<active, workspace, mutation, quit>>

\* handleExternalDocumentMissing
ReportMissing ==
  /\ active # None /\ docs[active].place # Nowhere /\ mutation # docs[active].place[1]
  /\ disk[docs[active].place] = NoFile
  /\ conflict' = Conflict(active, "deleted")
  /\ UNCHANGED <<disk, docs, active, workspace, tasks, mutation, quit, budget>>

\* reloadExternalDocumentFromDisk: the user gives up the buffer shown now.
ReloadFromDisk ==
  /\ conflict # None /\ conflict.id \in Open /\ docs[conflict.id].place = conflict.place
  /\ mutation # conflict.place[1]
  /\ Start([NoTask EXCEPT !.fn = "discardReload", !.id = conflict.id, !.place = conflict.place,
                          !.text = docs[conflict.id].text, !.holds = {"document", "read"}],
           Losing(tasks, {conflict.id}, {"read"}))
  /\ SameView

\* keepEditingExternalDocument
KeepEditing ==
  /\ conflict # None
  /\ tasks' = Losing(tasks, {conflict.id}, {"read"})
  /\ conflict' = None
  /\ UNCHANGED <<docs, active, workspace, mutation, quit>> /\ Same

\* Mutant: a reload that was superseded is applied while its tab is the same.
ReloadedLate(t) ==
  /\ t.fn \in {"reload", "discardReload"} /\ t.at = "answered"
  /\ IF "document" \in t.holds /\ t.answer \in Contents
       THEN Commit([docs EXCEPT ![t.id] = Loaded(t.place, t.answer)], tasks \ {t})
       ELSE tasks' = tasks \ {t} /\ UNCHANGED docs
  /\ Same /\ SameView

Reloaded(t) ==
  /\ t.fn \in {"reload", "discardReload"} /\ t.at = "answered"
  /\ IF "read" \in t.holds
       THEN IF t.answer \in Contents
         THEN /\ Commit([docs EXCEPT ![t.id].text = t.answer, ![t.id].base = t.answer,
                                     ![t.id].dirty = @ /\ t.fn = "reload"],
                        tasks \ {t})
              /\ conflict' = IF t.fn = "discardReload" /\ conflict # None /\ conflict.id = t.id
                               THEN None ELSE conflict
         ELSE tasks' = tasks \ {t} /\ UNCHANGED <<docs, conflict>>
       ELSE /\ tasks' = tasks \ {t}
            /\ conflict' = IF t.fn = "reload" /\ t.answer \in Contents /\ "document" \in t.holds /\ t.id \in Dirty
                             THEN Conflict(t.id, "changed") ELSE conflict
            /\ UNCHANGED docs
  /\ Same /\ UNCHANGED <<active, workspace, mutation, quit>>

-----------------------------------------------------------------------------
(* Saves. *)

\* Mutant: a save may start while paths change.
MaySaveAnytime(id) == id \in Open /\ id \notin SavesInProgress

\* saveTab admits one save per tab, and none while paths change.
MaySave(id) == ~Rejected /\ id \in Open /\ id \notin SavesInProgress

\* performSaveTab takes the buffer, the revision and the path as they are now.  An
\* untitled document, or Save As, asks for a destination first.
SaveTask(id, saveAs, then) ==
  LET doc == docs[id] IN
  [NoTask EXCEPT !.fn = IF saveAs \/ doc.place = Nowhere THEN "saveAs" ELSE "save",
                 !.at = IF saveAs \/ doc.place = Nowhere THEN "ask" ELSE "native",
                 !.id = id, !.place = doc.place, !.text = doc.text, !.base = doc.base,
                 !.holds = {"document"}, !.then = then]

Save(id, saveAs) ==
  /\ MaySave(id)
  /\ Start(SaveTask(id, saveAs, "end"), tasks)
  /\ SameView

\* chooseMarkdownSavePath answers: the user picked a file, cancelled, or the tab is gone.
ChooseDestination(t, place) ==
  /\ t.fn = "saveAs" /\ t.at = "ask" /\ "document" \in t.holds
  /\ tasks' = (tasks \ {t}) \cup {[t EXCEPT !.at = "native", !.place = place]}
  /\ Same /\ UNCHANGED docs /\ SameView

-----------------------------------------------------------------------------
(* What waits for a save: a close or a quit, or nobody.  The continuation runs in  *)
(* the same turn as the save's own, so it is part of the save's action: now are    *)
(* the tabs the save leaves, T its tasks, saved the identity it returns (None for  *)
(* null).                                                                          *)

\* Mutant: the closed tab stays the active one.
RemoveUnseen(ids, now, T) ==
  /\ Commit([id \in Ids |-> IF id \in ids THEN None ELSE now[id]], T)
  /\ UNCHANGED <<active, workspace, mutation, quit, conflict>>

\* The end of closeTab: the tab disappears, and a neighbour is shown.
Remove(ids, now, T) ==
  LET left == [id \in Ids |-> IF id \in ids THEN None ELSE now[id]]
      others == {id \in Ids : left[id] # None}
  IN
  /\ Commit(left, IF active \in ids THEN WithoutIntents(T) ELSE T)
  /\ conflict' = IF conflict # None /\ conflict.id \in ids THEN None ELSE conflict
  /\ IF active \in ids
       THEN \E next \in (IF others = {} THEN {None} ELSE others) : Show(next, left)
       ELSE UNCHANGED <<active, workspace>>
  /\ UNCHANGED <<mutation, quit>>

CloseTask(id) == {t \in tasks : t.fn = "close" /\ t.id = id}

\* What saveTab returns: the tab, if what was saved is what it holds.
AnswerOf(t, now, id) == IF now[id] # None /\ now[id].text = t.text THEN id ELSE None

Return(t, now, T, shown, root, told, saved) ==
  CASE t.then = "close" /\ saved # None /\ ~Rejected ->
         Remove({t.id, saved}, now, T \ CloseTask(t.id))
    [] t.then = "quit" /\ saved # None ->
         /\ Commit(now, T)
         /\ quit' = [quit EXCEPT !.saved = @ \cup {<<saved, t.text>>}, !.todo = @ \ {t.id}]
         /\ active' = shown /\ workspace' = root /\ conflict' = told /\ UNCHANGED mutation
    [] OTHER ->
         /\ Commit(now, IF t.then = "close" THEN T \ CloseTask(t.id) ELSE T)
         /\ quit' = IF t.then = "quit" THEN NoQuit ELSE quit
         /\ active' = shown /\ workspace' = root /\ conflict' = told /\ UNCHANGED mutation

\* The user cancels the save panel, or the tab was replaced while it was open.
NoDestination(t) ==
  /\ t.fn = "saveAs" /\ t.at = "ask"
  /\ Return(t, docs, tasks \ {t}, active, workspace, conflict, None)
  /\ Same

\* Mutant: the buffer typed into during the save is marked clean.
SavedClears(t) ==
  /\ t.fn = "save" /\ t.at = "answered"
  /\ IF "document" \in t.holds /\ t.answer = "ok"
       THEN Return(t, [docs EXCEPT ![t.id].base = t.text, ![t.id].dirty = FALSE], tasks \ {t},
                   active, workspace, conflict, t.id)
       ELSE Return(t, docs, tasks \ {t}, active, workspace, conflict, None)
  /\ Same

\* The answer of save_markdown_file.  What was captured is acknowledged; a buffer
\* typed into meanwhile stays dirty over the new revision.
Saved(t) ==
  LET doc == docs[t.id]
      now == [docs EXCEPT ![t.id].base = t.text, ![t.id].dirty = doc.text # t.text]
  IN
  /\ t.fn = "save" /\ t.at = "answered"
  /\ IF "document" \in t.holds
       THEN IF t.answer = "ok"
         THEN Return(t, now, tasks \ {t}, active, workspace, conflict, AnswerOf(t, now, t.id))
         ELSE Return(t, docs, tasks \ {t}, active, workspace,
                     IF t.answer = "failed" \/ active # t.id THEN conflict
                     ELSE [id |-> t.id, place |-> t.place,
                           reason |-> IF t.answer = "missing" THEN "deleted" ELSE "changed"],
                     None)
       ELSE Return(t, docs, tasks \ {t}, active, workspace, conflict, None)
  /\ Same

\* The answer of write_markdown_file: the tab takes the identity of its new file;
\* then the folder is listed before saveTab returns.
SavedAs(t) ==
  /\ t.fn = "saveAs" /\ t.at = "answered"
  /\ IF "document" \in t.holds /\ t.answer = "ok"
       THEN \E next \in Identities(t.place, t.place[1], Open \ {t.id}) :
              LET doc == docs[t.id]
                  moved == [place |-> t.place, text |-> doc.text, base |-> t.text,
                            dirty |-> doc.text # t.text]
                  now == [id \in Ids |-> IF id = next THEN moved
                                         ELSE IF id = t.id THEN None ELSE docs[id]]
              IN /\ docs' = now
                 /\ tasks' = Reconciled(tasks \ {t}, now)
                               \cup {[t EXCEPT !.at = "refresh", !.next = next, !.holds = {"document"}]}
                 /\ IF active = t.id THEN Show(next, now) ELSE UNCHANGED <<active, workspace>>
                 /\ UNCHANGED <<mutation, conflict, quit>>
       ELSE Return(t, docs, tasks \ {t}, active, workspace, conflict, None)
  /\ Same

SavedAsListed(t) ==
  /\ t.fn = "saveAs" /\ t.at = "refresh"
  /\ Return(t, docs, tasks \ {t}, active, workspace, conflict,
            IF "document" \in t.holds THEN AnswerOf(t, docs, t.next) ELSE None)
  /\ Same

-----------------------------------------------------------------------------
(* Closing a tab. *)

\* closeTab: a clean tab closes at once, a dirty one asks first.
CloseTab(id) ==
  /\ id \in Open /\ ~Rejected /\ id \notin SavesInProgress \cup ClosesInProgress
  /\ IF docs[id].dirty
       THEN /\ Start([NoTask EXCEPT !.fn = "close", !.at = "ask", !.id = id, !.holds = {"document"}],
                     WithoutIntents(tasks))
            /\ SameView
       ELSE /\ Remove({id}, docs, WithoutIntents(tasks)) /\ Same

CloseChosen(t, choice) ==
  /\ t.fn = "close" /\ t.at = "ask"
  /\ CASE choice = "discard" /\ "document" \in t.holds /\ ~Rejected ->
            Remove({t.id}, docs, tasks \ {t}) /\ Same
       [] choice = "save" /\ "document" \in t.holds /\ MaySave(t.id) ->
            /\ tasks' = (tasks \ {t}) \cup {[t EXCEPT !.at = "native"], SaveTask(t.id, FALSE, "close")}
            /\ Same /\ UNCHANGED docs /\ SameView
       [] OTHER ->
            tasks' = tasks \ {t} /\ Same /\ UNCHANGED docs /\ SameView

-----------------------------------------------------------------------------
(* Path mutations: create, rename or move, delete. *)

\* pathMutations.begin: intents are superseded and every pending read invalidated.
Begin(t, place, T) ==
  /\ mutation' = place[1]
  /\ tasks' = Losing(WithoutIntents(T), Open, {"read"}) \cup {t}

\* runPathMutation
RenameEntry(from, to) ==
  /\ from[1] = workspace /\ to[1] = workspace /\ from # to
  /\ TabsAt(from) \cap Dirty = {}
  /\ SavesInProgress = {} /\ mutation = None
  /\ Begin([NoTask EXCEPT !.fn = "rename", !.place = from, !.to = to], from, tasks)
  /\ Spend("tasks")
  /\ UNCHANGED <<disk, docs, active, workspace, conflict, quit>>

\* applyPathMutation: the tabs keep their identity and follow their file.
Renamed(t) ==
  /\ t.fn = "rename" /\ t.at = "answered"
  /\ IF t.answer = "ok"
       THEN /\ Commit([id \in Ids |-> IF id \in TabsAt(t.place) THEN [docs[id] EXCEPT !.place = t.to]
                                      ELSE docs[id]],
                      (tasks \ {t}) \cup {[t EXCEPT !.at = "refresh"]})
            /\ conflict' = IF conflict # None /\ conflict.place = t.place
                             THEN [conflict EXCEPT !.place = t.to] ELSE conflict
            /\ UNCHANGED mutation
       ELSE tasks' = tasks \ {t} /\ mutation' = None /\ UNCHANGED <<docs, conflict>>
  /\ Same /\ UNCHANGED <<active, workspace, quit>>

\* deleteWorkspaceItem asks first, and looks again at edits and saves afterwards.
AskDelete(place) ==
  /\ place[1] = workspace /\ ~Rejected /\ TabsAt(place) \cap Dirty = {}
  /\ Start([NoTask EXCEPT !.fn = "delete", !.at = "ask", !.place = place], tasks)
  /\ SameView

DeleteChosen(t, confirmed) ==
  /\ t.fn = "delete" /\ t.at = "ask"
  /\ IF confirmed /\ ~Rejected /\ TabsAt(t.place) \cap Dirty = {} /\ SavesInProgress = {}
       THEN Begin([t EXCEPT !.at = "native"], t.place, tasks \ {t})
       ELSE tasks' = tasks \ {t} /\ UNCHANGED mutation
  /\ Same /\ UNCHANGED <<docs, active, workspace, conflict, quit>>

\* applyDeletedEntry: clean tabs of the entry close; edits made meanwhile stay, and
\* their tab is offered for recovery.
Deleted(t) ==
  LET retained == TabsAt(t.place) \cap Dirty
      closed == TabsAt(t.place) \ Dirty
      now == [id \in Ids |-> IF id \in closed THEN None ELSE docs[id]]
      others == Open \ closed
      T == (tasks \ {t}) \cup {[t EXCEPT !.at = "refresh"]}
  IN
  /\ t.fn = "delete" /\ t.at = "answered"
  /\ IF t.answer = "ok"
       THEN /\ Commit(now, IF active \in closed THEN WithoutIntents(T) ELSE T)
            /\ IF retained # {}
                 THEN \E id \in retained : /\ active \in retained => id = active
                                           /\ conflict' = Conflict(id, "deleted")
                 ELSE conflict' = IF conflict # None /\ conflict.id \in closed THEN None ELSE conflict
            /\ IF active \in closed
                 THEN \E next \in (IF others = {} THEN {None} ELSE others) : Show(next, now)
                 ELSE UNCHANGED <<active, workspace>>
            /\ UNCHANGED mutation
       ELSE /\ tasks' = tasks \ {t} /\ mutation' = None
            /\ UNCHANGED <<docs, conflict, active, workspace>>
  /\ Same /\ UNCHANGED quit

\* confirmCreateItem and createWorkspaceItem
CreateFile(place) ==
  /\ place[1] = workspace /\ ~Rejected
  /\ mutation' = workspace
  /\ Start([NoTask EXCEPT !.fn = "create", !.place = place, !.holds = {"intent"}], WithoutIntents(tasks))
  /\ UNCHANGED <<active, workspace, conflict, quit>>

Created(t) ==
  /\ t.fn = "create" /\ t.at = "answered"
  /\ IF t.answer = "ok"
       THEN /\ tasks' = (tasks \ {t}) \cup
                 {IF "intent" \in t.holds /\ workspace = t.place[1]
                    THEN [t EXCEPT !.fn = "opened", !.at = "native", !.answer = None]
                    ELSE [t EXCEPT !.at = "refresh"]}
            /\ UNCHANGED mutation
       ELSE tasks' = tasks \ {t} /\ mutation' = None
  /\ Same /\ UNCHANGED <<docs, active, workspace, conflict, quit>>

\* openCreatedDocument: an open buffer of this file is never replaced by the read.
OpenedCreated(t) ==
  /\ t.fn = "opened" /\ t.at = "answered"
  /\ LET T == (tasks \ {t}) \cup {[t EXCEPT !.at = "refresh"]} IN
     IF /\ "intent" \in t.holds /\ workspace = t.place[1]
        /\ t.answer \in Contents /\ TabsAt(t.place) = {}
       THEN \E id \in Identities(t.place, workspace, Open) :
              Commit([docs EXCEPT ![id] = Loaded(t.place, t.answer)], T) /\ active' = id
       ELSE tasks' = T /\ UNCHANGED <<docs, active>>
  /\ Same /\ UNCHANGED <<workspace, mutation, conflict, quit>>

\* Mutant: the folder stays reserved after the mutation.
ReleaseKeeping(t) ==
  /\ t.fn \in Mutations \cup {"opened"} /\ t.at = "refresh"
  /\ tasks' = tasks \ {t}
  /\ Same /\ UNCHANGED <<docs, active, workspace, mutation, conflict, quit>>

\* refreshMutatedTree has listed the folder, or failed to: the mutation is over.
Release(t) ==
  /\ t.fn \in Mutations \cup {"opened"} /\ t.at = "refresh"
  /\ tasks' = tasks \ {t} /\ mutation' = None
  /\ Same /\ UNCHANGED <<docs, active, workspace, conflict, quit>>

-----------------------------------------------------------------------------
(* Quitting. *)

\* The last section of requestAppQuit: nothing may be half done.
Leave(discards) ==
  IF mutation # None \/ SavesInProgress # {} \/ ClosesInProgress # {}
    THEN quit' = NoQuit /\ UNCHANGED tasks
    ELSE quit' = [quit EXCEPT !.stage = "closing", !.discards = discards, !.todo = {}]
         /\ tasks' = WithoutIntents(tasks)

RequestQuit ==
  /\ ~Rejected /\ quit.stage = "no"
  /\ IF Dirty = {} THEN Leave(FALSE)
                   ELSE quit' = [NoQuit EXCEPT !.stage = "ask"] /\ UNCHANGED tasks
  /\ Spend("tasks")
  /\ UNCHANGED <<disk, docs, active, workspace, mutation, conflict>>

QuitChosen(choice) ==
  /\ quit.stage = "ask"
  /\ CASE choice = "discard" -> Leave(TRUE)
       [] choice = "save" -> quit' = [quit EXCEPT !.stage = "saving", !.todo = Dirty] /\ UNCHANGED tasks
       [] OTHER -> quit' = NoQuit /\ UNCHANGED tasks
  /\ Same /\ UNCHANGED <<docs, active, workspace, mutation, conflict>>

\* saveWorkspaceDocuments: the next document of the list, or the last look at what
\* is dirty now.  It runs on in the turn in which the save before it returned.
SavingTurn == quit.stage = "saving" /\ \A t \in tasks : t.then # "quit"

QuitSaveNext(id) ==
  /\ SavingTurn /\ id \in quit.todo
  /\ IF MaySave(id)
       THEN tasks' = tasks \cup {SaveTask(id, FALSE, "quit")} /\ UNCHANGED quit
       ELSE quit' = NoQuit /\ UNCHANGED tasks
  /\ Same /\ UNCHANGED <<docs, active, workspace, mutation, conflict>>

\* Mutant: a document saved earlier in the batch is not looked at again.
QuitSavedOnce ==
  /\ SavingTurn /\ quit.todo = {}
  /\ Leave(FALSE)
  /\ Same /\ UNCHANGED <<docs, active, workspace, mutation, conflict>>

QuitSaved ==
  /\ SavingTurn /\ quit.todo = {}
  /\ IF \A id \in Dirty : <<id, docs[id].text>> \in quit.saved
       THEN Leave(FALSE)
       ELSE quit' = NoQuit /\ UNCHANGED tasks
  /\ Same /\ UNCHANGED <<docs, active, workspace, mutation, conflict>>

QuitApp(answer) ==
  /\ Closing
  /\ quit' = IF answer = "failed" THEN NoQuit ELSE [quit EXCEPT !.stage = "gone"]
  /\ Same /\ UNCHANGED <<docs, active, workspace, tasks, mutation, conflict>>

-----------------------------------------------------------------------------
(* The native process and the rest of the world. *)

Answered(t, answer) == tasks' = (tasks \ {t}) \cup {[t EXCEPT !.at = "answered", !.answer = answer]}

Read(t) ==
  /\ t.fn \in Reads
  /\ Answered(t, disk[t.place]) /\ UNCHANGED disk

\* A failed call may have changed the disk: durability can be uncertain.
Write(t) ==
  /\ t.fn \in Saves
  /\ IF t.fn = "save" /\ disk[t.place] # t.base
       THEN Answered(t, IF disk[t.place] = NoFile THEN "missing" ELSE "changed") /\ UNCHANGED disk
       ELSE \/ disk' = [disk EXCEPT ![t.place] = t.text] /\ \E told \in {"ok", "failed"} : Answered(t, told)
            \/ Answered(t, "failed") /\ UNCHANGED disk

Change(t) ==
  /\ t.fn \in Mutations
  /\ CASE t.fn = "rename" /\ disk[t.place] # NoFile /\ disk[t.to] = NoFile ->
            Answered(t, "ok") /\ disk' = [disk EXCEPT ![t.to] = disk[t.place], ![t.place] = NoFile]
       [] t.fn = "delete" /\ disk[t.place] # NoFile ->
            Answered(t, "ok") /\ disk' = [disk EXCEPT ![t.place] = NoFile]
       [] t.fn = "create" /\ disk[t.place] = NoFile ->
            Answered(t, "ok") /\ disk' = [disk EXCEPT ![t.place] = Empty]
       [] OTHER -> Answered(t, "failed") /\ UNCHANGED disk

Native(t) ==
  /\ t.at = "native"
  /\ Read(t) \/ Write(t) \/ Change(t)
  /\ UNCHANGED <<docs, budget>> /\ SameView

Foreign(place, v) ==
  /\ v # disk[place]
  /\ disk' = [disk EXCEPT ![place] = v]
  /\ Spend("foreign")
  /\ UNCHANGED <<docs, tasks>> /\ SameView

-----------------------------------------------------------------------------

UserStarts ==
  \/ \E v \in Contents : Type(v)
  \/ \E id \in Untitled : CreateUntitled(id)
  \/ \E id \in Open : ActivateTab(id) \/ CloseTab(id)
  \/ \E file \in Files : SelectFile(file)
  \/ \E place \in Places : OpenPath(place) \/ LoadWorkspace(place) \/ AskDelete(place) \/ CreateFile(place)
  \/ \E from, to \in Places : RenameEntry(from, to)
  \/ \E id \in Open, saveAs \in BOOLEAN : Save(id, saveAs)
  \/ ReloadFromDisk \/ KeepEditing \/ RequestQuit

WorldStarts ==
  \/ \E id \in Open : Reload(id)
  \/ ReportMissing
  \/ \E place \in Places, v \in Versions : Foreign(place, v)

UserAnswers ==
  \/ \E t \in tasks : \/ \E place \in Places : ChooseDestination(t, place)
                      \/ NoDestination(t)
                      \/ \E choice \in {"save", "discard", "cancel"} : CloseChosen(t, choice)
                      \/ \E confirmed \in BOOLEAN : DeleteChosen(t, confirmed)
  \/ \E choice \in {"save", "discard", "cancel"} : QuitChosen(choice)

Continuation(t) ==
  \/ Selected(t) \/ OpenedPath(t) \/ LoadedWorkspace(t) \/ Reloaded(t) \/ Saved(t) \/ SavedAs(t)
  \/ SavedAsListed(t) \/ Renamed(t) \/ Deleted(t) \/ Created(t) \/ OpenedCreated(t) \/ Release(t)

Progress ==
  \/ \E t \in tasks : Native(t) \/ Continuation(t)
  \/ \E answer \in {"ok", "failed"} : QuitApp(answer)

Quiet == (tasks = {} \/ ~Running) /\ UNCHANGED vars

Next ==
  \/ Running /\ ~SavingTurn /\ (UserStarts \/ WorldStarts \/ UserAnswers \/ Progress)
  \/ \E id \in quit.todo : QuitSaveNext(id)
  \/ QuitSaved
  \/ Quiet

Spec == Init /\ [][Next]_vars

\* Native commands and their continuations run; a dialog does not stay open for ever.
Fairness ==
  /\ WF_vars(Running /\ ~SavingTurn /\ Progress)
  /\ WF_vars(Running /\ ~SavingTurn /\ UserAnswers)
  /\ WF_vars(QuitSaved \/ \E id \in quit.todo : QuitSaveNext(id))

FairSpec == Spec /\ Fairness

-----------------------------------------------------------------------------
(* Properties. *)

\* Every state has its type.
TypeOK ==
  /\ disk \in [Places -> Versions]
  /\ \A id \in Ids : docs[id] \in Documents \cup {None}
  /\ active \in Open \cup {None}
  /\ workspace \in Roots
  /\ tasks \subseteq Tasks
  /\ mutation \in Roots \cup {None}
  /\ conflict # None => conflict.id \in Ids /\ conflict.place \in Places /\ conflict.reason \in {"changed", "deleted"}
  /\ quit \in Quits

\* A tab without a dirty mark shows exactly the version it is based on (or is the first
\* document, untouched): whatever save acknowledgment, reload or Save As came last, the
\* mark cannot hide an edit.
CleanIsSaved ==
  \A id \in Open \ Dirty :
    docs[id].text = IF docs[id].place = Nowhere THEN Empty ELSE docs[id].base

\* A call that still holds a tab's identity was made for the file the tab has now:
\* no answer for one path is applied to a tab that was renamed, closed or reopened.
AnswersMatchTabs ==
  \A t \in tasks : "document" \in t.holds =>
    /\ Subject(t) \in Open
    /\ t.fn \in {"save", "reload", "discardReload"} => docs[t.id].place = t.place

\* While a rename or a delete is at work no save is, and the folder stays reserved
\* exactly as long as one mutation is at work.
PathsAreReserved ==
  LET working == {t \in tasks : t.fn \in Mutations \cup {"opened"} /\ t.at # "ask"} IN
  /\ Cardinality(working) <= 1
  /\ (mutation # None) <=> (working # {})
  /\ \A t \in working : t.place[1] = mutation /\ (t.fn \in {"rename", "delete"} => SavesInProgress = {})

\* A window that quits without "discard" leaves no text behind that no file holds or held
\* during this quit; only a dirty mark on text typed back to what was saved may remain.
QuitKeepsEdits ==
  quit.stage \in {"closing", "gone"} /\ ~quit.discards =>
    \A id \in Dirty : docs[id].text = docs[id].base \/ <<id, docs[id].text>> \in quit.saved

\* The text of a dirty tab goes away only by the user's own decision: typing, a close they
\* confirmed for this tab, a reload they asked for over this very buffer, or a save of this very text, which a
\* Save As carries to its new tab.  (The late answer of selectFile is the one exception:
\* see LateReadsKeepBuffers.)
Kept(id) == docs'[id] # None /\ docs'[id].text = docs[id].text

SavedFor(t, id) ==
  t.fn \in Saves /\ t.at \in {"answered", "refresh"} /\ t \notin tasks' /\ Subject(t) = id
    /\ t.text = docs[id].text

CarriedBy(t, id) ==
  t.fn = "saveAs" /\ t.at = "answered" /\ t \notin tasks' /\ t.id = id
    /\ \E next \in Ids : docs'[next] # None /\ docs'[next].text = docs[id].text

EditsSurvive ==
  [][\A id \in Dirty :
       \/ Kept(id)
       \/ active = id /\ budget'.edits < budget.edits
       \/ \E t \in tasks : \/ SavedFor(t, id) \/ CarriedBy(t, id)
                           \/ t.id = id /\ t.text = docs[id].text /\ Reloaded(t)
                           \/ t.id = id /\ "document" \in t.holds /\ CloseChosen(t, "discard")
                           \/ t.id = id /\ Selected(t)
    ]_vars

\* A read that was started to open a file never replaces the buffer of an open tab.
LateReadsKeepBuffers == [][\A t \in tasks : Selected(t) => \A id \in Open : Kept(id)]_vars

\* Every call ends, the folder is free again, and a quit is over or done.
SessionSettles == <>[](~Running \/ (tasks = {} /\ mutation = None /\ quit.stage = "no"))
=============================================================================

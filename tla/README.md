# A TLA+ model of Polar Bear

Polar Bear is a Markdown editor for the desktop (Tauri: a Rust process with a
TypeScript window) with a reader for iOS. This directory models the parts of it in
which something can go wrong between two steps: documents that are saved while they
change, a folder that is synchronized with a Git branch, credentials that must be gone
after a disconnect, captions that a process of their own recognizes, captures that are
delivered to another application, and the hooks of a window whose calls are answered
late, out of order or not at all. TLC checks the modules on small instances; for
sixteen of them TLAPS proves the main properties for every instance (section 5).

Paths are relative to `src/apps/desktop/` unless they begin with `ios/` or `packages/`;
`tauri/` is `src-tauri/src/`, `features/` is `src/features/`.

## 1. Inventory

| Component | State it keeps | Operations | Interacts with | What is hard | What makes it correct |
|---|---|---|---|---|---|
| Document saving (`tauri/document_save.rs`, `workspace_io.rs`, `workspace_entries.rs`) | the files of a folder; lifecycle lock, striped document locks, file coordination | save, save as, create, rename, move, delete, writes of a sync | window (commands), sync engine, every other program | interleaved calls, foreign writers, loss of power, lock order | a call is one compare-and-replace; what was acknowledged is durable; nobody else's version is lost |
| Document session (`features/workspace/useDocumentSession.ts`) | tabs, buffers, revisions, dirty marks, requests in flight | open, type, save, save as, rename, delete, reload, close, quit | native commands (promises), file watcher, dialogs | late answers, typing during a call, tabs that change identity | no edit disappears unless the user decides it; answers reach the file they were asked for |
| Tree of files (`features/workspace/useWorkspaceFileTreeRefresh.ts`, `workspacePathMutations.ts`) | kept and shown trees, poll, listings under way | create, rename, move, delete, list, open a workspace | session, native listing, other programs | a listing read before a command and applied after it | the tree shown is the folder's, and no late listing takes a change back |
| Inserting and opening in the editor (`App.tsx`, `features/editor/`) | what waits for an editor: copies of images, targets of a jump | insert an image, a table, a fence; jump to a source; switch view or page | session, memory page, CodeMirror | the document, the view or the page changes during a copy or a read | what is written into a document is what an insertion or its user put there; with an editor, an insertion takes nothing away |
| Cloud Sync engine (`tauri/repository/`) | binding (common baseline, last commit), progress | link, status, push, pull, sync | document saving (downloads), GitHub or GitLab, the sync store | edits and commits during a run, lost and late publications, stops half-way | no local or remote work is lost; the baseline is really common; the status is true |
| Cloud Sync records (`tauri/cloud_sync_store.rs`) | SQLite: bindings, outbox, runs and their events | replace bindings, queue paths, begin and finish runs | engine, window | stops between transactions | a run is finished once |
| Cloud Sync identity (`tauri/repository_identity.rs`, `secret_store.rs`) | account file, mark of a disconnect, keychain, fallback file | connect, disconnect, account, token | keychain, file system | four stores without a transaction, crashes, loss of power | a revoked token is gone, or known to be left |
| Repository workflow (`features/repository/`) | account, binding and status shown, dialogs, busy marks | connect, link, disconnect, status, save all and sync | session, engine | awaits that outlive the workspace | what a reading shows is of the open workspace; a sync never runs over unsaved edits |
| Live Caption (`tauri/live_caption/`, `src-tauri/native/LiveCaptionCapture.swift`) | status, history database, run in hand, capture | start, pause, resume, stop, close, exit, delete, events of the helper | helper process, native capture, windows | a worker per run, halts past the lock, deadlines | finished texts are saved once and in order; nothing is captured in secret; helpers end |
| Caption helper (`src-tauri/native/caption-engine/`) | queue of utterances, one replaceable preview | read, submit, decode, cancel, close | Live Caption (pipes) | two threads, a bounded queue, a cancellation shared by jobs | finals in order, none lost; failures told truly |
| Caption panel and translator (`features/caption/`) | selection, page, rows, poll; leases of segments | poll, select, page, start, stop, delete, source; claim, complete, retry | Live Caption's commands and store | late polls, leases that run out | rows of the session selected; one translator per segment |
| Vocabulary queue (`tauri/vocab_outbox.rs`) | SQLite table of captures | enqueue, deliver, receipt, prune | Vocab (socket), reading panel | crashes and lost answers around a delivery | a capture with a receipt is delivered or fails visibly |
| Passage reading (`features/vocab/`) | panel of a word, lookups, one translation engine | select, look up, keep, remove, translate | Vocab, translation worker | late answers, a running delay, an engine stopped under the next job | an answer belongs to the word shown |
| Memory administration (`features/memory/`) | session of the Context page, operations, attempts | open, refresh, search, capture, review, change, configure | external engine | operations of a session that is over, ambiguous outcomes | busy exactly while its own operations run; a retry keeps its identifiers |
| Diagrams (`features/diagram/`) | two render queues, two caches, consent | render, cancel, evict, approve | previews and blocks | limits and order, shared renders | bounded; the latest source is shown |
| Tables (`features/editor/table/`) | cells with drafts, selection, drag, menu, widths, history | edit, move, resize, command, undo, switch | editor | drafts over commands, drags over changes | widths and drafts follow their columns and cells |
| Images and their viewer (`features/editor/components/ImageViewer.tsx`) | status, scale, offset, gesture | open, fit, wheel, gesture, drag, close | documents | gestures that never end | no drag closes; bounds hold |
| Zoom (`features/zoom/`) | zoom, anchor, locks, timers, animation | gesture, command, resize | native gesture events | timers, frames and events in any order | a gesture ends, its anchor holds, locks are released |
| Sidebars (`src/app/layout/`) | widths asked for and shown, drag, drawer | drag, key, toggle, split | settings | frames, drags over resizes | the editor keeps its room |
| Commands and menus (`src/commands/`) | overrides, native menus, recent documents | dispatch, install, click | editor keymap, native menu | menus replaced while in use, two tables of keys | a command runs once, a click opens what was shown |
| Settings (`src/shared/settings/`) | database, snapshots of windows, optimistic values | update, refresh, announce | all windows | overlapping updates, late announcements | no change is lost, no window goes back |
| Apple document store (`packages/apple-document-store`) | journal of drafts, archive, sessions | open, persist, save, resume | coordination, other devices | crashes and writers between archive, write and removal | no acknowledged edit and no replaced version is lost |
| iOS reader and its plugin (`ios/src/`, `ios/src-tauri/`) | collections, document shown, inbox | open, import, remove, drain | system, native library | documents opened while something else runs | every document opened by the system is shown once |
| Editor view, Markdown segmentation, Windows and links, shell, i18n, theme | presentation, or none | | | none across awaits | functions of the text |

`PROJECT.json` lists every component with what is left out of it, and every hazard at
its line.

### How the parts interact

A window calls native commands and continues when their promise is answered; between
two awaits nothing else runs in it. Native commands run on threads of their own. A
sync writes through the same document locks as a save, so `DocumentSave` contains its
writes (`Downloads`), and `CloudSync` and `DocumentSession` take a document call as one
atomic step: `AtomicDocuments` states that contract and `DocumentSave` is shown to
implement it. `WorkspaceTree`, `EditorCommands` and `RepositoryWorkflow` take the tabs as
`DocumentSession` promises them; `LiveCaption` takes the helper as a process that may send
anything in its protocol, which `CaptionHelper` narrows; `CaptionPanel` and
`CaptionTranslator` take its commands as answered or failed.

## 2. Modules

| Module | Models | Steps |
|---|---|---|
| `DocumentRequests` | the native calls on documents, shared by the next two | constants and operators |
| `AtomicDocuments` | what these calls promise | abstract specification |
| `DocumentSave` | locks, snapshots, staging, publication, directory sync | refines `AtomicDocuments` |
| `DocumentSession` | the tabs of one window | a section between awaits |
| `WorkspaceTree` | the tree of files of one window | a section between awaits, a native call |
| `EditorCommands` | insertions and jumps of one window | a section, a render or effect |
| `CloudSync` | one workspace, one branch, other devices | a file or request of a run |
| `RepositoryWorkflow` | the repository commands of one window | a section between awaits |
| `CloudIdentity` | the four stores of a credential | a step that can fail |
| `VocabOutbox` | the queue and its worker | a transaction |
| `LiveCaption` | control, workers, capture, history | a lock held or an event |
| `CaptionHelper` | reader and decoder of the helper | a mutex held, an atomic read |
| `CaptionPanel`, `CaptionTranslator` | the caption window; the consumers of segments | a section between awaits |
| `Reading` | the panel of a word and its text | a section between awaits, a timer |
| `ContextSession` | the Context page over mounts and sections | a section between awaits |
| `Diagrams` | render queues and caches | a section, a timer |
| `TableCommands`, `TableEditing` | a table's model; its widget, history and drags | an event |
| `ImageViewer`, `AppZoom`, `WorkspaceLayout` | gestures, timers, frames | an event, a frame |
| `Keybindings`, `NativeMenu` | keys; menus and recent documents | a key; an installation |
| `UserSettings` | database and several windows | a transaction, a message |
| `LinkedDocuments` | one document of the Apple store | a file operation |
| `ReaderLibrary` | library page and inbox of the iOS reader | a section, a native call |
| `MCDocumentSave`, `MCCloudSync`, `MCDocumentSession` | symmetry sets and definitions for TLC | |
| `MCCloud`, `MCWorkers`, `MCDesktop` | sums of components, see section 3 | |
| `DocumentSaveProofs`, `CloudSyncProofs`, `LiveCaptionProofs`, `DocumentSessionProofs`, `CloudIdentityProofs` | theorems | extend their module and TLAPS |
| `MCWorkersProofs` | theorems about that sum: `VocabOutbox`, `LinkedDocuments`, `UserSettings`, `CaptionTranslator`, `CaptionPanel`, `CaptionHelper` | extends `MCWorkers` and TLAPS |
| `MCCloudProofs` | theorems about that sum: `RepositoryWorkflow`, `WorkspaceTree` | extends `MCCloud` and TLAPS |
| `MCDesktopProofs` | theorems about that sum: `AppZoom`, `NativeMenu`, `ContextSession` | extends `MCDesktop` and TLAPS |

Conventions: `vars` is the tuple of all variables; an action is named for its function
and names the code in its comment; history variables and bounds are marked as such; a
definition whose comment starts with "Mutant" is a plausible bug that is not part of the
specification, kept so that one can see that a property would notice it. `PROJECT.json`
lists one for each property of a run; the others break the remaining parts of a property
that is a conjunction, and were tried the same way.

What one needs to know of a module beside its own comments:

**CloudSync.** `local` is the folder, `history` the commits of the branch, `binding` the
saved row, and `phase`, `mode`, `todo`, `baseline`, `scanned`, `expected`, `acknowledged`,
`uploads` and `commit` are the locals of `synchronize_workspace` and `sync_coordinator`. A
run scans file by file (`ScanFile`), freezes the remote commit (`Freeze`), stops in a
conflict, downloads and checkpoints (`Download`, `CheckpointDownload`), reads its uploads
again (`ReadUpload`), publishes (`Publish`) and saves (`ReadAcknowledgment`). The server
accepts under GitHub's whole-branch guard or GitLab's guards per file (`Accepts`); a
request that nobody waits for stays in `late` and may be committed at any later time.
Push is a sync in the code; pull downloads every difference. `Interrupt` is any error or
crash between two steps. Left out: the 64 MiB limit, the format of manifests and pages of
providers, the outbox and the run events.

**DocumentSave.** Each caller has a program counter (`pc`), its request and the snapshot it
decided on. Admission, the document lock, the first check, staging, the second check, the
replacement and the directory sync are separate actions, so other callers, programs that
ignore coordination and losses of power come between them. `disk` is the set of states a
loss of power may leave: every state since the last directory sync. One directory is
modelled; a collision of two paths in the striped locks only adds waiting. Left out:
duplicating entries, creation of directories and recursive deletion, image assets
(`copy_image_asset` looks for a free name without a lock), metadata, parents created
before admission (`main.rs:520`), Windows. A deletion does not compare contents: the user
confirmed it.

**DocumentSession.** JavaScript runs one section between two awaits at a time, so each
action is one such section. A `task` is a call that has begun and not ended. Symbols and
counters the code compares after an await are permissions in `task.holds` which other
handlers take away. A save continues a close or a quit in the same turn (`Return`). Native
calls are atomic (`AtomicDocuments`). Left out: duplicates, titles, selection, the second
listing of an unlisted folder, an empty folder in `loadWorkspace`.

**WorkspaceTree.** `disk` is the folder, `trees` what was kept of each workspace, `items` what
is shown. A path is a name, or a folder's name and a name: what a rename of a stale tree would
put below two levels is left out of the tree (`RemapTree`). Left out: order of siblings, the
listing of Save As, the question of a deletion, hidden windows.

**EditorCommands.** CodeMirror is external: an insertion changes the text of the document
that is shown, and its history belongs to the view, which documents share. A piece that an
insertion leaves in a text carries its mark, the document of the click and the document that
was shown when it landed (`Piece`, `Landed`). A pasted Mermaid diagram waits for its validation.
Left out: untitled documents, search, formats, positions.

**RepositoryWorkflow.** Two workspaces, one of them linked; a task is a command and where it
awaits. Commands may overlap where the dialogs and the menu let them. Before a sync the unsaved
documents of its workspace are saved one after another (`gate`): `SaveNext` captures a document's
text, `Save` stores it or fails, `SaveReturns` looks whether it changed meanwhile and looks at all
of them when none is left, as `saveWorkspaceDocuments.ts` does. The user types, and saves single
documents, between any two. What an overlap with a connect, disconnect or link spoils is named by
the history variable `stale` (`Meets`), and by `late` that a sync or link which outlived its
workspace showed its status. Left out: messages and progress.

**CloudIdentity.** A call is a sequence of steps over keychain, account file, mark and (in
debug builds) the fallback file. `folder` is what the process sees, `durable` what each file
may be after a loss of power. Calls do not interleave (`with_repository_operation`,
`IDENTITY_LOCK`), but each step may fail with or without effect, and the process may die
between any two. Account files are never synced, so one may be torn; connecting or
disconnecting overcomes it. `told`, `asked` and `revoked` record what the user knows and
wanted.

**VocabOutbox.** `rows` is the table by rowid; a new row gets the greatest rowid plus one, as
SQLite gives it, so that a rowid may be used again once the last row was pruned. `Claim`,
`Send`, `Record` and `Prune` are transactions of their own, and a crash, a storage failure or a
lost answer may come between; an enqueue may be committed and its receipt not read. Vocab is
outside the repository: it carries a request out once. Time is left out: a claim or a backoff
ends whenever it does.

**LiveCaption.** `control` is the call that holds the control lock, `waiting` those that
wait. `workers` holds a record per run: the supervisor's place in its loop, its cancel flag
and the finals its helper has sent. `capture` holds the start queued for the main thread,
the running capture and the run it writes to. A closing window or the exit halts past the
lock (`CloseWindow`, `HaltRun`). A stop awaits its worker for ten seconds; giving up costs a
stall, and the run is then in `abandoned`. A text is the number of its utterance; its
sequence carries the generation above it, as in the code. Left out: the audio queue and its
sealing, recordings, elapsed times, limits on text and sequence, export and copying.

**CaptionHelper.** Sound is counted in frames. Where silence ends an utterance and when a
preview is due are left open. The reader looks at `inference_failed` and asks the queue in
two steps, as the code does (`main.cpp:52`, `:54`), and the decoder may have given up on an
earlier answer of `cancelled` than the one it asks for afterwards (`:142`, `:152`). The
streaming candidate is only built for experiments and not modelled.

**Reading, ContextSession, CaptionPanel, ReaderLibrary.** Each keeps the set of calls under
way with what they captured, and answers them in any order; `ReaderLibrary` in order, since
the native library serves one call at a time on a serial queue. Left out: choosing a sense,
placing, speech and copying (`Reading`); the overview, packets, integrations, diagnostics
and the settings' draft (`ContextSession`); contents of segments, following and scrolling,
theme, pin and exports (`CaptionPanel`); positions, settings, search and the tools of a
selection (`ReaderLibrary`).

**Diagrams, TableEditing, ImageViewer, AppZoom, WorkspaceLayout.** Events, timers and frames in
any order the browser may produce, sizes as small integers. `Diagrams` takes sources of equal
length, validations of pasted diagrams in the same queue as renders, and a promise chain
between the start of a render and its answer as one step. `ImageViewer` and `AppZoom` have one
axis; `AppZoom` one pane. `TableEditing` has a table at the start of its document and no text
around it; its history is undo and redo of one view.

**Keybindings, NativeMenu, UserSettings.** `Keybindings` models a keyboard's key and code,
the listeners a press meets and the editor's own table. `NativeMenu` builds, installs and
closes menus, which may fail. In `UserSettings` a window reads snapshots, applies its own
changes at once and hears of others by messages that are late or dropped by a hidden page; a first
reading that failed is only repeated when a component is mounted (`Remount`).

**LinkedDocuments.** One document, since a session is of one document and opening ends the
earlier session. `source` is the file in the linked folder, `pending` the journal, `history`
the archive; `opened`, `overwritten` and `put` are ghosts. `Foreign` is any other program or
device; it uses file coordination, as iCloud does. A crash may come between any two file
operations. Left out: copies of conflicts, bookmarks and grants, listing, the reasons of
failures, a persist that fails after its rename.

## 3. Runs

| Run | Instance | Shows |
|---|---|---|
| `sync` | GitHub with one publication file or GitLab with 2, 2 paths, 2 contents, one edit, one foreign commit, one fault, a relink; any initial folder and branch | no local work and no version of another device is lost, the baseline is common, the status is true, the saved commit fits the manifest, diverged files keep both versions |
| `coordinated_saves` | 2 callers, 2 paths, 2 contents, one foreign change through coordination | the calls implement `AtomicDocuments` |
| `open_folder_saves` | 2 callers, 2 paths, a foreign writer without coordination, one loss of power | durability; a version is lost only in the window between second snapshot and rename; calls return |
| `session` | 1 folder, 1 file, 1 untitled, 2 edits, 1 foreign write, 3 calls | edits, marks, quits, and that everything settles |
| `session_folders` | 2 folders with the same 2 file names, 1 untitled, 2 edits, no foreign write (`session` has them), 3 calls | answers reach the tab they were asked for, over renames, deletes and Save As; paths change one at a time and beside no save |
| `late_select` | as `session`, one edit | a violation, see section 6 |
| `live_caption` | 2 sessions, 2 runs of 2 utterances, 3 requests, 1 fault, 1 stall | finished texts, projection, no hidden capture |
| `workspace_commands` (`MCCloud`) | syncs of 1 path with 2 faults and 2 links; repository commands over 2 workspaces, 2 documents in one of them; the trees of 2 workspaces | at rest the stored identity is shown and no reading of a workspace that was left is taken for one of the open one, a sync begins with stored documents, no late listing takes a change back; retried syncs end in agreement or a visible conflict |
| `background_work` (`MCWorkers`) | credentials, favorites, supervisors, helper, caption window, translator, settings, linked document | see the comments of its six properties |
| `desktop` (`MCDesktop`) | zoom, menus, keys, context, tables, diagrams, images, sidebars, insertions, reading, the iOS library | see the comments of its six properties |
| `repository_status` (`MCCloud`) | one command over 2 workspaces, no failure | a violation, see section 6 |
| `context_retries` | `ContextSession` with 2 forms | a violation, see section 6 |

### Sums

`MCCloud`, `MCWorkers` and `MCDesktop` check components that share nothing in one run each.
A behaviour is one of one component: `part` is chosen in `Init`, the variables of the others are
`None`, and each step is a step of that component, so the states of the sum are the sum of
the states. Variables of one name serve one component at a time. Each property of a sum is a
conjunction of `part = ... => ...`; the definitions it names, with their comments, are in the
components' modules. The constants of the components are given by the sum's `.cfg`, and their
assumptions (`...Assumption`) are assumed by the sum, so TLC evaluates them there. `MCWorkers`
takes three components by the modules of their proofs, which extend them: the definitions TLC
runs are the same, and `MCWorkersProofs` can cite their lemmas.

### Bounds, and why they are enough

The properties relate two replicas, two callers, two runs, two tabs or two calls under way; each
needs one interfering actor and a fault to fail, and each run has them: two paths, so that one
file is done and another not when a run stops; two contents besides absence, so that an edit, a
foreign edit and the baseline differ; a fault and a second run, so that what the first left
behind is used; two windows; two documents, workspaces or selections and a move between them, so
that an answer can come late; for timers and frames, two or three gestures, so that one meets the
leftovers of another. That the interesting cases happen is shown by the mutants: every property
is violated within the same bounds by a plausible bug of the code it is about (`PROJECT.json`,
"mutants").

| Component | Bounds |
|---|---|
| credentials | 2 tokens, both providers and builds, 4 calls, 3 faults |
| favorites | 3 cards, 3 captures, room for 2, batches of 2, one receipt kept, 2 failures |
| supervisors | 1 session, 2 runs of 1 utterance, 2 requests, 1 fault, 1 stall |
| helper | utterances of 1 to 4 frames, a budget of 5, 5 frames; a second preview of an utterance needs 4 |
| caption window | 2 sources, 3 clicks, 1 refusal |
| translator | 2 segments, 3 visits, 1 retry, 2 errors, 1 nap |
| settings | 2 windows, 2 keys, 2 values, 2 updates, 1 fault |
| linked document | 2 contents, 2 generations, 2 sessions; 3 of each pass alone (337,881 to 465,262 states) |
| repository | 2 workspaces, one linked, 2 documents, 2 contents, 2 commands, 1 switch, 1 edit, 1 refusal |
| tree | 2 workspaces, 2 names, one folder, 1 command, 1 outside change, 2 openings, 1 fault |
| zoom | 2 levels above 1, 2 widths, 3 gestures, 2 commands or resizes |
| menus, keys | 2 documents, a list of 2, 2 changes, 1 fault; 2 overrides |
| context | 2 configurations, one stored, 2 queries, 1 form, 2 memories, 3 actions, 1 move, 1 fault |
| tables | 2 documents with a table of 2 columns and 2 rows each, 1 text, 3 actions; 4 pass alone (1,047,584 states) |
| diagrams | 3 sources, one remote, 2 previews, 1 block, 1 running, 1 waiting, 3 asks |
| images | 2 documents, 2 widths, 4 events, scales in quarters |
| sidebars | 3 rooms, 3 drags, real minimal widths |
| insertions | 2 documents, 2 marks, 3 visits, 1 fault |
| reading | 2 words, 1 passage, 2 selections, 3 looks |
| library | 2 earlier books, 2 delivered documents, 3 moves, 1 fault; 4 moves pass alone |

Bounds that stand for something else: in `DocumentSession` two folders use up the spare
identities, so `SessionSettles` is checked with one folder; in `CloudSync` a limit of
publication files below the number of differing files makes every retry fail with the limit
error, as the code does, so `CloudWorkEnds` is checked with one path; in `LiveCaption` a request
is only made while a run and a session are left for it (`Affordable`); a commit is tried again
twice in `TableEditing` where the code tries five times. Symmetry is used only in runs without
liveness: for contents in `CloudSync`, for folders and files in `session_folders`, and for
callers, contents and paths in `coordinated_saves`.

`CHECK_DEADLOCK FALSE` is set where the system may really stop, every budget spent and no call
under way: the sums, `repository_status`, `live_caption` and `context_retries`. The other runs check for deadlock.

### Fairness

Since every budget is finite, what should happen again and again can only be stated as what
holds from some moment on: the properties of progress are of the form `<>[]P`, but for
`EveryCallReturns`.

- `CloudSync`: the thread of an operation goes on, since every request has a timeout
  (`provider.rs`); a request does not stay in the network for ever; the user tries again.
  Nothing is assumed of edits, other devices or the order in which the server answers.
- `DocumentSave`: the thread of each call runs. Locks are granted to someone, and the
  number of calls is finite.
- `DocumentSession`, `RepositoryWorkflow`, `WorkspaceTree`, `CaptionPanel`: native commands answer
  (or fail), continuations run, dialogs are answered, polls go on.
- `CloudIdentity`: the process runs and refreshes the account, which it does at start.
- `VocabOutbox`: the worker runs (it polls every thirty seconds), claims and backoffs end.
- `LiveCaption`: supervisors run. Helper and capture may be silent for ever: their deadlines are
  what ends them.
- `CaptionHelper`: both threads run, and the decoder's call returns. The input ends, since
  `LiveCaption` closes it.
- `CaptionTranslator`: the loop of a consumer runs and an unattended lease expires.
- `UserSettings`: the writing transaction ends, each window's reading ends and is followed by those
  it requested. Nothing repeats a first reading that failed: that a component is mounted later is not
  assumed, and such a window is not promised to become current.
- `MCDesktop`: some owed step of the component (`Owed`: an answer, a frame, a timer) is taken, and
  an animation ends (`Ends`). User input is never owed.

## 4. Properties

Each is stated with the code it is about in its module. The ones a reader should start with:

- `LocalWorkSurvives`, `RemoteWorkSurvives`: a step of a sync replaces a version only if the other
  side has held it (or the user pulls, which is the permission to discard).
- `DivergedVersionsStay`: a file changed on both sides keeps both versions. Exceptions, in its
  definition: a file that GitLab is asked to create over absence (create actions carry no
  `last_commit_id`, `conditional_publish.rs:114`), and another link (`Relinked`), which forgets the baseline while
  an earlier publication may still arrive.
- `WritesAreAtomic`: refinement of `AtomicDocuments`.
- `OnlyTheWindowIsExposed`: a program that ignores coordination loses a version only when it writes
  between the second snapshot and the rename (`document_save.rs:266`, `282`).
- `EditsSurvive`: the text of a dirty tab goes only by typing, a confirmed close, a reload asked for
  over this very buffer, or a save of this very text.
- `CredentialsAreSafe` (`RevokedAreLocked`): while a revoked token is left in any store, no crash or
  loss of power hides that the disconnect is unfinished.
- `CapturesAreKept` (`NothingIsLost`, `DraftsAreDurable`): a capture with a receipt is in the queue
  until Vocab has carried it out; an acknowledged edit of a linked document is in the journal.
- `TextsInOrder`, `OneProjection`, `NoHiddenCapture` of `LiveCaption`, and `HelperIsSound` of
  `CaptionHelper`: what was accepted is answered, in order, whatever was given up for it.
- `WorkspaceIsSound`: `IdentityIsCurrent`, `ReadingsStay` and `TreeIsSound`, about answers that
  outlive a workspace. The first two hold of readings; a sync or a link shows its own status and
  identity however late (`late`, `stale`), which section 6 refutes for the status.
- `SyncsAreOfSaved`: when a sync begins, every document of its workspace is stored as it is shown. The
  exception in its definition: a document the user saved otherwise after the batch did, and then
  typed back to the text the batch had stored.
- `TextsStayApart`: every piece of a text was put there from a click in this document or while this
  document was shown. The second half is the code's: an image copied for one document lands in
  the one that is shown when the copy ends.
- `StepsAreSound` (`EditorStepsAreSound`, `Tables!StepsAreSound`, `ReaderStepsAreSound`): a late copy,
  read or delivery takes away nothing the user did meanwhile. Its exceptions are single steps:
  `TextStays` leaves out the step in which an image that was copied without an editor writes the
  text of its click (`Inserted`), the closing of a tab, and the one in which a document without changes is read again
  for a jump (`SourceRead`); `WidthsFollow` leaves out the last column's width when a column is added behind it.

Where the code does something a property would forbid, the property names the case, by a ghost
variable or an exception in its definition, and section 6 tells it.

## 5. Proofs

### DocumentSaveProofs

For any paths, contents, callers and bounds.

`SaveInvariant` is the inductive invariant: types; what a program counter says about the request
(`CallsMatchPoints`); which callers exclude each other (`LocksExclude`); that a staged snapshot is
one the request may replace, and, with coordination, that nothing has changed since the second
snapshot (`SnapshotsAccepted`); and that the folder itself is among the states the disk may have
(`DiskHoldsFolder`). Each part is needed: without the exclusion of locks another caller could
change the file between check and rename, without `SnapshotsAccepted` the replacement could not be
mapped to `Perform`, without `DiskHoldsFolder` a directory sync would not leave one state.

- `SaveInvariantHolds`, `TypeCorrect`: the invariant, one step per action.
- `AcknowledgedIsDurableHolds`: from it, what was promised survives a loss of power.
- `CallsAreAtomic`: with `Coordinated`, `Spec => WritesAreAtomic`: initial states map to initial
  states, and each action to a step of `AtomicDocuments` or a stutter (staging, snapshots and
  admission are stutters, the replacement is `Perform`, the directory sync `Acknowledge`).
- `OnlyTheWindowIsExposedHolds` and `NewFilesNeverReplaceHolds`: without any assumption on the other
  programs. They need a second invariant, `StampsTell`: after the second look of a call, its file
  is the one it saw, gone, or newer than the look.

### CloudSyncProofs

For any paths, contents, provider, limits and bounds.

`SyncInvariant` says of every moment of a run what its records may claim: the baseline of the
binding is shared (in the workspace's and in the branch's past), so is the part of `acknowledged`
already visited; visited paths agree with the frozen commit; a landed commit holds exactly the
uploads; a late publication carries only versions the workspace has held, based on a commit that
exists. The last part is why the history variable `seenLocal` and the set `late` are in it: an
answer nobody read may become a commit in any later run.

- `SyncInvariantHolds`, `TypeCorrect`
- `BaselineSharedHolds`, `CommitMatchesHolds`, `CleanStatusHolds`: consequences.
- `LocalWorkSurvivesHolds`, `RemoteWorkSurvivesHolds`: every step from a state of the invariant
  replaces only what the other side has held.
- `DivergedVersionsStayHolds`, from a second invariant, `DivergenceInvariant`: what a run has not
  visited it still knows by the stored baseline (`BaselineIsStored`); commits that runs freeze follow
  each other (`CommitsFollow`); and until the workspace is linked again, a late publication whose
  frozen version nobody has touched can only replace the stored baseline (`LateReplacesBase`), so
  that a path it lands on had not diverged. `CommitsFollow` is what carries the last part over a
  checkpoint: the baseline moves only to versions of a commit as new as the frozen one.

### LiveCaptionProofs

For any numbers of sessions, runs and utterances, and any bounds. `CaptionInvariant` is inductive:

- `Typed`, and what the call that holds the control lock knows (`LockMatchesCall`): while it waits
  for a run or launches one there is no other in `service`.
- The order of runs and of their generations (`RunsInOrder`), and that every supervisor alive is in
  hand or was given up (`NoneForgotten`). From the order it follows that a run given up cannot
  number a text like the run after it.
- `HandIsShown`, `TextsAreNumbered`, `PartialFollows`: what the status remembers as the last final
  and the last text heard bounds what is in the table, so that the next text stands behind it.
  `TextsInOrder` is not inductive without them: the code compares only with the status.
- `CaptureIsSupervised`: the capture, queued or running, belongs to a run whose supervisor has not
  ended it. A halt that came past the lock could leave one behind otherwise.
- `SessionsBegin`, `BoundsSuffice`: a session has no texts before it began, and the bounds leave a run
  and a session for every call that waits.

`CaptionInvariantHolds`, `TypeIsCorrect`, `FinalsAreSavedHolds`, `TextsInOrderHolds`,
`OneProjectionHolds` and `NoHiddenCaptureHolds` are all five invariants of the run `live_caption`. A
lemma, `FirstIsLeast`, needs that a finite set of runs has a least one; since induction is out of reach it is
taken from the library's theorem that strict inclusion is well-founded on finite sets. An attempt
at the proof showed a step the model allowed and the code does not: a launch that failed was stored
with a session that had been deleted; `LaunchNew` excludes it now.

### DocumentSessionProofs

For any folders, files, identities, contents and bounds. `SessionInvariant` joins what the window
shows (`ViewIsSound`), its tabs (`TabsAreSound`: a clean tab shows its file), its calls
(`CallsAreSound`) and `QuitKeepsEdits`. Of the calls it says

- what each is made of (`WellFormed`);
- that what it may still do fits the tab as it is now (`FitsTabs`): a plain reload that may still be
  applied finds a clean tab, a confirmed one the very buffer that was given up, and a save the path it
  was asked for. This is the reason that the permissions in `holds`, which stand for the code's
  symbols and counters, are taken away in time;
- that calls do not meet (`CallsAreApart`): one save for each identity, one change of paths, no rename
  or delete beside a save, and no save once the window closes. The last is what `QuitKeepsEdits`
  rests on: a Save As that ended after the check of a quit would move a text to an identity for
  which the quit has not seen it saved.

`SessionInvariantHolds`, `TypeIsCorrect`, `CleanIsSavedHolds`, `AnswersMatchTabsHolds`,
`PathsAreReservedHolds` and `QuitKeepsEditsHolds` are the invariants of the runs `session` and
`session_folders`; `EditsSurviveHolds` is their action property, with a lemma for each action that
touches a tab. `ReconciledKeeps` says once for all of them what reconciling the tabs with a changed
path keeps. The proof needs that an identity which a closing Save As gave up is not given to another
tab while that call is under way (`NotTaken`), which holds as the code never reuses the number of an
untitled document. `SessionAssumption` says that those identities are no paths
(`useDocumentSession.ts:30`, `:633`).

### CloudIdentityProofs

For any tokens, calls, faults and crashes, with and without the fallback file. `IdentityInvariant`
adds to the properties what the step of a call knows: tokens a connect adds are not revoked, and no
disconnect was answered since (`ConnectFits`); credentials are deleted only under a mark that is
durable, and what a clean-up has passed is gone from the keychain and from every state the disk may
have (`CleanupFits`); without a fallback an account whose credential is missing is one a disconnect
is about to forget (`AccountsHaveCredentials`). TLC checked it alone on 608,879 states before.

- `IdentityInvariantHolds`, `CredentialsAreSafeHolds`: `RevokedAreLocked`, `RevokedStayUnused`,
  `DisconnectedIsClean` and the types.
- `AccountsAreKeptHolds`: a keychain that cannot be read is no reason to delete a credential.

### MCWorkersProofs

What the run `background_work` checks, under the names it checks. `PartsInvariant` is the invariant of
the component a behaviour is of: `IdentityInvariant` of the module above, and six of its own.

- `OutboxInvariant` adds to `OneOutstanding` and `NothingIsLost` that what is marked saved was carried
  out (`SavedAreSeen`) and `DeliveryFits`: the capture at work is still in the table and still queued,
  since only its worker says what became of it and pruning spares what is queued. `Progresses` is what
  every transaction does to a row.
- `StoreInvariant` adds to the types and `ReplacedIsRecoverable` of `LinkedDocuments` what the journal
  says of the session (`JournalMatchesSession`: a pending draft of the open session is the one its
  generation and acknowledgement name) and what a call has done so far (`CallMatchesJournal`: between
  archive and replacement the draft is archived and the source still its base, since coordination is
  held). Without the second part a crash between the replacement and the removal of the draft could
  not be told from a lost draft.
- `SettingsInvariant`: the database is its patches in their order (`DatabaseFits`); no window is at,
  or hears of, a revision there is not (`ViewFits`); changes wait under numbers of their own, greater
  than what was left before, and one that is still the latest is what its window shows (`QueueFits`).
  So the answer to a change forgets no later one of the same key.
- `TranslatorInvariant`: rows have leases of their own (`RowsFit`), and the loop works under the lease
  its row has, while jobs it left behind have others (`JobsFit`), so their late answers touch nothing.
- `PanelInvariant`: what the poll of the caption window has read so far is of what is selected
  (`PollFits`); one command runs and the page is busy, unless a form was sent past the disabled
  buttons (`BusyFits`, `unguarded`); what is captured is what was chosen, at every step of a choice,
  unless another start or stop came between (`SourceFits`, `contested`). The numbers of sessions,
  commands that are still to start one and clicks left have a bounded sum (`CommandsFit`), so that the
  bounds leave a session for every command.
- `HelperInvariant`: some number of utterances is answered, the decoder is at the next one, and those
  that wait follow it (`AnsweredTo`); texts stand in their order (`TextsInOrder`); work that was told
  to stop stays cancelled whichever thread asks when (`CancelLasts`); reader and decoder fit each
  other (`ReaderFits`, `DecoderFits`). The frames in the queue are a fold over it in the code's model.
  What a fold yields needs induction, so `HelperQueueFits` says that there are partial sums, a function
  each step can name, and the queue's budget follows from them.

`CredentialsAreSafeHolds`, `CapturesAreKeptHolds`, `SettingsAreSoundHolds`, `PanelsAreSoundHolds` and
`WorkStepsAreSafeHolds` are five of the run's six properties. The sixth, `WorkEnds`, is liveness.

### MCCloudProofs

The two properties of the run `workspace_commands` that are about a window, for any workspaces, trees,
flows, switches and failures.

`GateInvariant` is about the batch of saves before a sync (`GateFits`): what it has saved of a
document is what is stored, unless the user saved that document otherwise; the document it is at has
no mark only while it shows the captured text; and a document without a mark shows what is stored.
The last look of the batch, at what is marked then, gives `SyncsAreOfSaved` from them.

`RepositoryInvariant` says what a flow may rely on after each of its awaits. Each flow is at a step
of its kind, with an answer its call can give (`FlowFits`). Unless something failed or flows
overlapped that the code does not keep apart (`Sound`), a flow that changes the account or a binding
is the only one (`Apart`), what a flow of the open workspace was told is still so (`Knows`, by the
kind of flow: `ReadingKnows`, `ContextKnows`, `ListKnows`, `ChangeKnows`), and the identity shown is
the stored one, or a reading is under way that will find out, or a command was carried out whose
answer the window has not heard (`AccountFits`, `BindingFits`). `Apart` is needed since the code
compares only the scope after an await and never the stored account. An attempt at the proof showed
overlaps of such a flow with another one, in either order, after which the identity shown stays
behind the stored one; the model now names all of them (`Meets`, `Changing`). TLC checked both
invariants before the proof.

`TreeInvariant` gives each listing under way its tree: what was read is right unless others changed
the folder since (`ListingStands`). A poll that was permitted is read and applied without a command
between (`PollFits`); a tab is opened only of a workspace of which no tree is kept, and another
workspace only while no command runs (`OpeningFits`). Of a command it says (`CommandStands`) that what
its answer makes of the folder it ran on, and of a tree that was right, is what the folder now is, but
for an entry created together with its folder (`Shows`). Lemmas for `Project`, `Without` and
`RemapTree` say that trees keep the folders of their entries.

- `PartsInvariantHolds`: the inductive invariant of the component a behaviour is of.
- `WorkspaceIsSoundHolds`, `SyncsAreOfSavedHolds`: the invariant and the action property of the run.

### MCDesktopProofs

Two of the invariants of the run `desktop`, for any constants.

`ZoomInvariant`: a requested frame and a held point belong to a gesture whose timer runs
(`GestureFits`), so that whoever settles it finds them; a zoom below normal, a translation or held text
is left only while a gesture or the unlocking timer is (`RestFits`); and after a command nothing of
a gesture is (`AskedFits`). So the timers of a gesture can end it in any order.

`MenuInvariant` says for each phase of an installation which handles the window holds and which menu is
shown and active (`PhaseFits`): between the two steps that replace a menu its bank is not the active
one's. So the handlers of the bank that is shown are always those of the menu shown
(`HandlersFit`), whichever menus are built, cancelled or fail meanwhile. A history stays a
sequence of distinct documents, at most `Limit` of them (`RemovedIs`, `RecordedIs`).

`ContextInvariant` gives each flow of the Context page what it carries at its step and numbers of its
own (`FlowFits`, `FlowStands`), over mounts and sections that come between. The page counts what runs
for it (`BusyFits`); the configuration shown is the stored one unless an update is under way that
will show it (`ConfigFits`); results are those of the query and of the last search (`ResultsFit`);
every card has a form and a request of its own, which the attempt keeps until it is
acknowledged (`CapturesFit`); and a history is the selected memory's (`HistoryFits`). TLC checked the
invariant before the proof, with 3 actions and 1 move, on 226 thousand states, and with 4 and 2 on 5.6
million states without coming to the end.

- `PartsInvariantHolds`: the inductive invariant of these three components.
- `InputIsSoundHolds`, `ContextIsSoundHolds`: the invariants of the run.

### Assumptions

The assumptions on constants say what the parameters are: numbers are natural, sets that the code
keeps apart are disjoint, and `None` is none of the values it stands beside. They are ASSUMEd in
`CloudSync`, `DocumentSave`, `LiveCaption` (`CaptionAssumption`), `DocumentSession`
(`SessionAssumption`) and the modules they extend; a module that is used by INSTANCE defines its own
(`LinkedAssumption`, `TreeAssumption`), and the sum ASSUMEs them together (`PartsAssumption`);
`IdentityAssumption` is also a hypothesis of the theorems of `CloudIdentityProofs`. TLC evaluates all
of them. Each theorem but those about sums is about `Spec`, without fairness; theirs are about
`FairSpec`, the specification the run checks, and use none of its fairness.

### Only model-checked

- All liveness, which is out of the prover's reach: `EveryCallReturns`, `CloudWorkEnds` with its
  `RetriesSettle`, `SessionSettles`, `WorkEnds` and
  `WindowSettles`.
- Of `MCDesktop`: `TextsAreSound`, `ViewsAreSound` and its steps. The first needs what folds over the rows of
  a table and selections from the table of keys yield for every input, which is induction over data.
- What the runs of section 6 refute.

## 6. What the code does that a reader may not expect

Three disagreements between code and documentation are runs:

- `late_select`: `selectFile` chooses the identity of the tab before it awaits the file and
  writes its buffer afterwards without looking again (`useDocumentSession.ts:673`). A Save As to
  the same path that completed meanwhile has its buffer replaced. The sibling
  `openCreatedDocument` checks for this: "Never replace an already-open buffer with a late read."
  (`:1163`).
- `repository_status`: a sync sets the status and reopens the status dialog when it ends, without a look
  at the workspace that is open by then (`useRepositoryWorkflow.ts:378`, `:384`), and so does a link
  (`:260`, `:261`); `docs/engineering/audit.md:193` (ENG-16) says that stale responses "cannot reopen
  the status dialog or overwrite the new workspace status". A listing of the status, whose answer is
  checked, can not (`ReadingsStay`).
- `context_retries`: when a capture is acknowledged, the Context page forgets the attempt only after
  the refresh that follows, without looking whose it is (`KnowledgeWorkspace.tsx:112`). A
  second capture begun during that refresh loses its identifiers, and its retry captures it twice;
  `docs/planning/desktop-memory-m1-pilot-kit.md:35` says that retries use the same ones.

Others the models contain, and properties name as exceptions or leave alone:

- **Vocabulary**: a request that did not reach Vocab is sent again after the user removed its word
  there, and puts the word back (`vocab_outbox.rs:173`); `docs/planning/desktop-vocab-reading.md:131`
  says that old transport retries cannot undo later removals. A second click after a removal joins
  an outstanding request of the same content, and is answered by what that one does (`:123`).
- **Live Caption**: a stop writes "stopped" or "paused" over the "failed" of its run, while
  `docs/planning/live-caption.md:204` wants a failed drain to end in an interrupted outcome. A run
  that outlived the ten seconds writes its failure over the state of the next one
  (`StrayFailure`). After the session that is shown was deleted, the interval a stop stores
  violates the foreign key, so every later start fails until a restart (`Settle`). When storing
  fails during a stop the status stays "capturing" with no run; when a launch and the storing of
  its failure both fail, it stays "starting". The helper keeps the first preview of an utterance
  that is being decoded when its final comes (`recognition_queue.h:37`), while
  `docs/planning/live-caption.md:723` says that a final cancels provisional decoding.
- **Cloud Sync**: a publication that arrives late can bring a reverted edit back, and after an
  unknown outcome a new local edit can meet its own former version as a conflict. A deletion to be
  published is not compared with the folder again. GitLab creates over absence even if the file
  was created and deleted since.
- **Repository commands**: the link dialog survives a switch of workspaces; a connect or disconnect
  that outlives a workspace leaves the next one's identity stale; a sync without account or binding
  leaves its status operation "busy"; a listing of an abandoned flow releases the busy mark while
  another sync runs. A document that was typed in after its save in the batch, saved otherwise, and
  typed back passes for stored, since the batch compares texts (`saveWorkspaceDocuments.ts`).
- **Tree of files**: the poll compares with what it told last, not with what is shown
  (`useWorkspaceFileTreeRefresh.ts:38`), so a change by a command that others undo before a poll
  saw it stays shown; a sync's reload and a file opened by the system while a command runs list
  without asking for permission and can take its change back until a poll; an entry created with
  folders in its name is shown by the listing only; a rename applied to a tree that shows it
  already, beside an outside entry of the old name, shows a name twice until then.
- **Insertions**: an image whose copy ends when another document is shown is put into that one, with
  a link relative to the first (`App.tsx:276`, `:355`); a Mermaid diagram pasted into one document
  goes there too when another is shown after its validation. Without an editor (preview, Context page, no tab) an
  image replaces the document's text by that of the click and the image (`App.tsx:271`), which drops
  edits made since and revives a closed document. A paste into a live view that is gone inserts nothing though the status says
  so. A target that arrives when nothing renders waits for the next change; one of a superseded
  selection stays and jumps when its document is opened later.
- **Context page**: history asked for an earlier selection can be shown under a later one; a failed
  save ends editing and drops the text; saving one memory while selecting another closes the edit
  of the other; opening a source or reviewing repeats the search of the click and can show old
  results as clean, which "load more" then mixes with new ones; choosing another section keeps
  the results under an empty query.
- **Zoom**: a resize during a gesture is skipped and not made up for (`useAppZoom.ts:240`).
- **Keys and menus**: CodeMirror's keymap ignores the priorities of overrides, so one that takes
  Mod+1 still runs heading 1, and no conflict is reported; bindings of shifted symbols cannot be
  typed; on AZERTY the physical code matches too; two menu items may show one accelerator. A
  menu whose installation failed is not installed until something changes.
- **Settings**: a layout change whose writing failed stays shown; a refresh requested while a failing
  one runs is forgotten until the next trigger.
- **Tables**: the "+" behind the last column gives the last column's width to the new one
  (`tableLayoutState.ts:102`, against `docs/refactoring/menu-table-lifetimes.md:38`; named in
  `WidthsFollow`). Undo of a column change made without widths does not move widths set since. A
  drop, undo or switch by keyboard drops the draft of a cell; Mod+S does not include it; a menu
  opened on a cell with a draft closes at once; a press that takes the focus from a changed cell
  only writes it. A cancelled pointer counts as a drop, and a range drag goes on after a release
  outside. Rows longer than the header are cut by any command. Focus after deleting rows may
  name a cell that is gone.
- **Diagrams**: with the real limits the cache's own admission limits are never reached before the
  queue's; a cancelled Mermaid render keeps its slot; a PlantUML block approved elsewhere asks for
  consent until its source changes.
- **Images**: a rename while the viewer is open closes and reopens it; what reset, drag or wheel do
  during a gesture is undone by its next change, and a gesture whose end was not seen leaves its
  anchor to the next; after a cancelled mouse drag the next tap is eaten.
- **Sidebars**: a drag that returns to its first width and is released before its last frame is
  painted leaves the painted width (`useWorkspaceResize.ts:41`); splitting the view during a drag
  leaves the drag its old maximum; opening the outline where the left side takes the room shows
  nothing until a second click.
- **Reading**: the removal of an earlier word that returns after another was kept unlocks its choice
  of sense (`VocabPopover.tsx:80`); a delay still running replaces or closes a panel the command
  opened meanwhile; a late snapshot overwrites the element focus returns to
  (`useVocabReading.tsx:73`).
- **Caption window**: rows of an earlier selection stay until the next poll, and "next page" then
  pages by them; a deletion's success closes whatever is selected by then; the rename form and the
  choice of a folder are not disabled while busy, so busy can end early; a start or stop elsewhere
  during a change of source may capture after the user stopped. A segment left under its third
  lease is never claimed again, and "retry" skips it (`store.rs:304`), until a restart clears leases
  (`store.rs:141`).
- **Library of the reader**: an inbox item whose collection was removed after a failed first reading
  fails on every drain and blocks every document opened later (`ios/src/library/openedDocuments.ts:33`).
  Importing and removing set busy without a generation and clear it early; a sheet can come to lie
  over a document opened late; an expanded image can outlive its document.
- **Linked documents**: a crash or a failed clean-up between the write and the removal of the draft
  leaves a draft whose base is the old version. `resumeDraft` refuses it
  (`LinkedDocumentStore.swift:174`), although the comment at `:158` keeps it for explicit recovery,
  and it blocks later drafts until there is an interface for conflicts. A writer that ignores
  coordination can come between comparison and write.

## 7. Plan

Done: the modules above with their runs, and the theorems of section 5. What would come next:

1. `SyncRecords`: bindings, outbox and tracked runs of `cloud_sync_store.rs`, composed with
   `RepositoryWorkflow` and an abstract `CloudSync`.
2. Live Caption's audio queue (sealing at the first failure, the drained prefix) and its
   recording, composed with `CaptionHelper`.
3. Opening from the system on the desktop (`system_open.rs`), as `ReaderLibrary` has it for iOS.
4. Theorems: the other components of `MCDesktop`, first `Diagrams!QueueIsExact` and
   `Reads!ReadingIsSound`.

## Not modelled

- *Cloud Sync records*: transactions of SQLite over one table each; `CloudSync` takes saving a
  binding as one step that may fail. Planned.
- *Editor view* (`liveMarkdownDecorations.ts` and its neighbours) and *Markdown segmentation*: functions of
  text and selection, computed character by character; a model would be a transliteration.
- *The view of the tree* (`FileTree.tsx`): renaming in place, collapsing and dragging. Read, not
  modelled: a failed rename leaves its input submitted; a late answer of one rename closes an
  input opened since (`useDocumentSession.ts:1400`); marks are kept by path over a switch of
  workspaces.
- *Windows, links and focus*, *Application shell*, *Localization and theme*: composition, validation
  and lookups. What `main.rs` and `App.tsx` change in the state of a modelled component is in that
  component's module.
- *The streaming candidate* of the helper: only built for experiments.
- The parts each component's note in `PROJECT.json` names.

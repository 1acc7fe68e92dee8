---------------------------- MODULE WorkspaceTree ----------------------------
(***************************************************************************)
(* The file tree of a workspace: what is on disk, the trees the window keeps  *)
(* (workspaceItemsByRoot) and shows (workspaceItems), the poll that reads     *)
(* them again (useWorkspaceFileTreeRefresh) and the commands that change      *)
(* the entries (useDocumentSession, WorkspacePathMutations).               *)
(*                                                                         *)
(* A tree is a set of entries: the order of siblings is left out.  What the   *)
(* commands do to open documents is DocumentSession.  The poll waits while the *)
(* window is hidden; it is assumed to be seen again.  A file opened from the   *)
(* system reads its document and its tree at once.                         *)
(***************************************************************************)
EXTENDS Naturals, SequencesExt

CONSTANTS
  None, Roots,
  Names, Inner,                 \* names of entries, and of those in folders
  Before,                       \* what is on disk at first
  MaxMutations, MaxOutside,     \* bounds on the commands, on what other programs change,
  MaxMoves, MaxFaults           \* on opening and syncing, and on what fails

\* Two levels of names.
EntryPaths == {<<n>> : n \in Names} \cup {<<n, m>> : n \in Names, m \in Inner}
Entry(path, folder) == [path |-> path, folder |-> folder]
Entries == {Entry(path, folder) : path \in EntryPaths, folder \in BOOLEAN}
Parent(path) == SubSeq(path, 1, Len(path) - 1)

Listings ==
  [kind : {"poll", "tab", "path", "load", "download"}, root : Roots, tree : {None} \cup SUBSET Entries,
   old : BOOLEAN, permitted : BOOLEAN]
Commands ==
  [kind : {"create", "relocate", "duplicate", "delete"}, root : Roots, from : EntryPaths, to : EntryPaths,
   entries : SUBSET Entries, step : {"running", "done", "listing", "listed"},
   tree : {None} \cup SUBSET Entries, old : BOOLEAN]

HasParent(tree, path) == Len(path) = 1 \/ Entry(Parent(path), TRUE) \in tree
Has(tree, path) == \E e \in tree : e.path = path

TreeAssumption ==
  /\ Before \in [Roots -> SUBSET Entries]
  /\ None \notin Roots /\ (\A tree \in SUBSET Entries : tree # None) /\ None \notin Listings /\ None \notin Commands
  /\ \A r \in Roots : \A e \in Before[r] : HasParent(Before[r], e.path)
  /\ {MaxMutations, MaxOutside, MaxMoves, MaxFaults} \subseteq Nat

VARIABLES
  disk, trees, root, items,
  mutation,                     \* the command that runs; its root is taken (WorkspacePathMutations)
  poll, reported,               \* the poll that runs, and what it told last
  opening,                      \* the newest intent to open (DocumentNavigation)
  download,                     \* listing after a sync
  behind,                       \* ghost: the kept tree is older than what others did to the disk
  mutations, outside, moves, faults

vars == <<disk, trees, root, items, mutation, poll, reported, opening, download, behind, mutations, outside, moves, faults>>

Under(parent, path) == IsPrefix(parent, path)
Subtree(tree, path) == {e \in tree : Under(path, e.path)}
RemapPath(path, from, to) == IF Under(from, path) THEN to \o SubSeq(path, Len(from) + 1, Len(path)) ELSE path
Remapped(entries, from, to) == {Entry(RemapPath(e.path, from, to), e.folder) : e \in entries}

\* projectWorkspaceEntry: an entry, with what it holds, unless it is there.
Project(tree, path, entries) == IF ~Has(tree, path) /\ HasParent(tree, path) THEN tree \cup entries ELSE tree

\* removeWorkspaceEntry
Without(tree, path) == tree \ Subtree(tree, path)

\* remapWorkspaceTree: an entry whose new folder is not known is dropped.  What others took away may
\* still be in the tree, and get below the two levels: there it is left out.
RemapTree(tree, from, to) ==
  LET rest == Without(tree, from) IN
  IF Has(tree, from) /\ HasParent(rest, to) THEN rest \cup (Remapped(Subtree(tree, from), from, to) \cap Entries) ELSE rest

-----------------------------------------------------------------------------
(* Listings *)

Listing(kind, r) == [kind |-> kind, root |-> r, tree |-> None, old |-> FALSE, permitted |-> TRUE]
Spent(budget) == budget > 0
Read(listing, r) == [listing EXCEPT !.tree = disk[r], !.old = FALSE]

\* Someone else changed the disk of r after a listing of it was read, or after the command was given.
Aged(listing, r) == IF listing # None /\ listing.root = r THEN [listing EXCEPT !.old = TRUE] ELSE listing

\* The kept tree of a root, and the shown one if it is open.
Keep(r, tree) == trees' = [trees EXCEPT ![r] = tree] /\ items' = IF root = r THEN tree ELSE items

\* A listing becomes the kept tree.
KeepListing(r, listing) == Keep(r, listing.tree) /\ behind' = [behind EXCEPT ![r] = listing.old]

\* setWorkspaceRoot with its tree: the effect of the poll begins anew for another root.
ShowRoot(r, tree) ==
  /\ root' = r /\ items' = tree /\ trees' = [trees EXCEPT ![r] = tree]
  /\ IF r = root THEN UNCHANGED <<poll, reported>> ELSE poll' = None /\ reported' = None

-----------------------------------------------------------------------------
(* WorkspacePathMutations and the commands of useDocumentSession *)

Affects(r) == mutation # None /\ mutation.root = r

\* Mutant: a poll that runs keeps its permission.
BeginUnseen(m) == mutation = None /\ Spent(mutations) /\ mutations' = mutations - 1 /\ mutation' = m /\ UNCHANGED poll

\* begin: one command at a time; the reads permitted before are no longer current.
Begin(m) ==
  /\ mutation = None /\ Spent(mutations) /\ mutations' = mutations - 1 /\ mutation' = m
  /\ poll' = IF poll = None THEN None ELSE [poll EXCEPT !.permitted = FALSE]

Command(kind, r, from, to, entries) ==
  [kind |-> kind, root |-> r, from |-> from, to |-> to, entries |-> entries, step |-> "running",
   tree |-> None, old |-> behind[r]]

\* Every command is an intent of its own (documentNavigation.begin, invalidate).
Admit(m) == Begin(m) /\ opening' = None /\ UNCHANGED <<disk, trees, root, items, reported, download, behind, outside, moves, faults>>

\* confirmCreateItem: in the folder the dialog was opened for, which may be gone.
Create == \E path \in EntryPaths, folder \in BOOLEAN :
  root # None /\ Admit(Command("create", root, path, path, {Entry(path, folder)}))

\* confirmRename, moveWorkspaceEntry
Relocate == \E from, to \in EntryPaths :
  /\ root # None /\ from # to /\ Has(items, from) /\ (Parent(from) = Parent(to) \/ Last(from) = Last(to))
  /\ Admit(Command("relocate", root, from, to, {}))

\* duplicateWorkspaceItem: the copy that is shown is one of the shown entry.
Duplicate == \E from, to \in EntryPaths :
  /\ root # None /\ Has(items, from) /\ Parent(from) = Parent(to)
  /\ Admit(Command("duplicate", root, from, to, Remapped(Subtree(items, from), from, to)))

\* deleteWorkspaceItem deletes the path it asked about, in the root of the question, whatever is there
\* or shown when the answer comes.
Delete == \E r \in Roots, path \in EntryPaths : trees[r] # None /\ Admit(Command("delete", r, path, path, {}))

\* What the command does to the disk, if it can: a created entry brings its folders, no entry is replaced.
Possible(m) ==
  LET now == disk[m.root] IN
  CASE m.kind = "create" -> ~Has(now, m.to) /\ (Len(m.to) = 1 \/ Entry(Parent(m.to), FALSE) \notin now)
    [] m.kind = "relocate" -> Has(now, m.from) /\ ~Has(now, m.to) /\ HasParent(now, m.to) /\ ~Under(m.from, m.to)
                              /\ Remapped(Subtree(now, m.from), m.from, m.to) \subseteq Entries
    [] m.kind = "duplicate" -> Has(now, m.from) /\ ~Has(now, m.to)
    [] m.kind = "delete" -> Has(now, m.from)

Changed(m) ==
  LET now == disk[m.root] IN
  CASE m.kind = "create" -> now \cup m.entries \cup (IF Len(m.to) = 2 THEN {Entry(Parent(m.to), TRUE)} ELSE {})
    [] m.kind = "relocate" -> Without(now, m.from) \cup Remapped(Subtree(now, m.from), m.from, m.to)
    [] m.kind = "duplicate" -> now \cup Remapped(Subtree(now, m.from), m.from, m.to)
    [] m.kind = "delete" -> Without(now, m.from)

\* A sync and a file opened from the system list without asking for permission.
Execute ==
  /\ mutation # None /\ mutation.step = "running" /\ Possible(mutation)
  /\ disk' = [disk EXCEPT ![mutation.root] = Changed(mutation)] /\ mutation' = [mutation EXCEPT !.step = "done"]
  /\ download' = Aged(download, mutation.root)
  /\ opening' = IF opening # None /\ opening.kind = "path" THEN Aged(opening, mutation.root) ELSE opening
  /\ UNCHANGED <<trees, root, items, poll, reported, behind, mutations, outside, moves, faults>>

\* The command fails, or the listing after it, which undoes nothing; the root is released.  An entry
\* that was created with folders of its own is only shown by a listing.
MutationFails ==
  /\ mutation # None
  /\ \/ mutation.step = "running" /\ (IF Possible(mutation) THEN Spent(faults) /\ faults' = faults - 1 ELSE UNCHANGED faults)
     \/ mutation.step \in {"listing", "listed"} /\ Spent(faults) /\ faults' = faults - 1
  /\ mutation' = None
  /\ LET unshown == mutation.step # "running" /\ mutation.kind = "create" /\ ~Has(trees[mutation.root], mutation.to) IN
     behind' = [behind EXCEPT ![mutation.root] = @ \/ unshown]
  /\ UNCHANGED <<disk, trees, root, items, poll, reported, opening, download, mutations, outside, moves>>

\* What the answer does to the tree, whatever it shows by now (projectEntryMutation, applyPathMutation).
Projected(tree, m) ==
  CASE m.kind = "relocate" -> RemapTree(tree, m.from, m.to)
    [] m.kind = "delete" -> Without(tree, m.from)
    [] OTHER -> Project(tree, m.to, m.entries)

\* Mutant: the tree is left to the listing that follows.
AcknowledgeLater ==
  /\ mutation # None /\ mutation.step = "done" /\ mutation' = [mutation EXCEPT !.step = "listing"]
  /\ UNCHANGED <<disk, trees, root, items, poll, reported, opening, download, behind, mutations, outside, moves, faults>>

Acknowledge ==
  /\ mutation # None /\ mutation.step = "done" /\ Keep(mutation.root, Projected(trees[mutation.root], mutation))
  /\ mutation' = [mutation EXCEPT !.step = "listing"] /\ behind' = [behind EXCEPT ![mutation.root] = @ \/ mutation.old]
  /\ UNCHANGED <<disk, root, poll, reported, opening, download, mutations, outside, moves, faults>>

\* refreshMutatedTree
ListMutated ==
  /\ mutation # None /\ mutation.step = "listing" /\ mutation' = [Read(mutation, mutation.root) EXCEPT !.step = "listed"]
  /\ UNCHANGED <<disk, trees, root, items, poll, reported, opening, download, behind, mutations, outside, moves, faults>>

Refreshed ==
  /\ mutation # None /\ mutation.step = "listed" /\ KeepListing(mutation.root, mutation) /\ mutation' = None
  /\ UNCHANGED <<disk, root, poll, reported, opening, download, mutations, outside, moves, faults>>

-----------------------------------------------------------------------------
(* The poll *)

Poll ==
  /\ root # None /\ poll = None /\ mutation = None /\ poll' = Listing("poll", root)
  /\ UNCHANGED <<disk, trees, root, items, mutation, reported, opening, download, behind, mutations, outside, moves, faults>>

PollReads ==
  /\ poll # None /\ poll.tree = None /\ poll' = Read(poll, poll.root)
  /\ UNCHANGED <<disk, trees, root, items, mutation, reported, opening, download, behind, mutations, outside, moves, faults>>

\* It tells what it has not told before, if no command began meanwhile.
PollReturns ==
  /\ poll # None /\ poll.tree # None /\ poll' = None
  /\ IF poll.permitted /\ mutation = None /\ poll.tree # reported
       THEN reported' = poll.tree /\ KeepListing(poll.root, poll)
       ELSE UNCHANGED <<reported, trees, items, behind>>
  /\ UNCHANGED <<disk, root, mutation, opening, download, mutations, outside, moves, faults>>

PollFails ==
  /\ poll # None /\ Spent(faults) /\ faults' = faults - 1 /\ poll' = None
  /\ UNCHANGED <<disk, trees, root, items, mutation, reported, opening, download, behind, mutations, outside, moves>>

-----------------------------------------------------------------------------
(* Opening other workspaces *)

Open(kind, r) ==
  /\ Spent(moves) /\ moves' = moves - 1 /\ opening' = Listing(kind, r)
  /\ UNCHANGED <<disk, trees, root, items, mutation, poll, reported, download, behind, mutations, outside, faults>>

\* activateTab of a document of another workspace: the kept tree is shown, or read.
ActivateTab == \E r \in Roots \ {root} : root # None /\
  IF trees[r] = None THEN Open("tab", r)
  ELSE /\ Spent(moves) /\ moves' = moves - 1 /\ opening' = None /\ ShowRoot(r, trees[r])
       /\ UNCHANGED <<disk, mutation, download, behind, mutations, outside, faults>>

\* openMarkdownPath, and loadWorkspace, which waits for no command.
OpenPath == \E r \in Roots : Open("path", r)
LoadWorkspace == \E r \in Roots : mutation = None /\ Open("load", r)

OpeningReads ==
  /\ opening # None /\ opening.tree = None /\ opening' = Read(opening, opening.root)
  /\ UNCHANGED <<disk, trees, root, items, mutation, poll, reported, download, behind, mutations, outside, moves, faults>>

\* A file of a workspace whose entries are being changed is not opened.
Opened ==
  /\ opening # None /\ opening.tree # None /\ opening' = None
  /\ IF opening.kind = "path" /\ Affects(opening.root)
       THEN UNCHANGED <<trees, root, items, poll, reported, behind>>
       ELSE ShowRoot(opening.root, opening.tree) /\ behind' = [behind EXCEPT ![opening.root] = opening.old]
  /\ UNCHANGED <<disk, mutation, download, mutations, outside, moves, faults>>

\* The opening fails, or another one is begun that shows what is there.
OpeningFails ==
  /\ opening # None /\ opening' = None
  /\ UNCHANGED <<disk, trees, root, items, mutation, poll, reported, download, behind, mutations, outside, moves, faults>>

-----------------------------------------------------------------------------
(* The surroundings *)

\* reloadWorkspaceAfterDownload
Download ==
  /\ root # None /\ download = None /\ Spent(moves) /\ moves' = moves - 1 /\ download' = Listing("download", root)
  /\ UNCHANGED <<disk, trees, root, items, mutation, poll, reported, opening, behind, mutations, outside, faults>>

DownloadReads ==
  /\ download # None /\ download.tree = None /\ download' = Read(download, download.root)
  /\ UNCHANGED <<disk, trees, root, items, mutation, poll, reported, opening, behind, mutations, outside, moves, faults>>

Downloaded ==
  /\ download # None /\ download.tree # None /\ KeepListing(download.root, download) /\ download' = None
  /\ UNCHANGED <<disk, root, mutation, poll, reported, opening, mutations, outside, moves, faults>>

DownloadFails ==
  /\ download # None /\ Spent(faults) /\ faults' = faults - 1 /\ download' = None
  /\ UNCHANGED <<disk, trees, root, items, mutation, poll, reported, opening, behind, mutations, outside, moves>>

\* Another program, or another window, adds an entry or takes one away.
Outside == \E r \in Roots, path \in EntryPaths :
  /\ Spent(outside) /\ outside' = outside - 1
  /\ disk' = [disk EXCEPT ![r] = IF Has(@, path) THEN Without(@, path) ELSE IF HasParent(@, path) THEN @ \cup {Entry(path, FALSE)} ELSE @]
  /\ disk' # disk /\ behind' = [behind EXCEPT ![r] = TRUE]
  /\ poll' = Aged(poll, r) /\ mutation' = Aged(mutation, r) /\ opening' = Aged(opening, r) /\ download' = Aged(download, r)
  /\ UNCHANGED <<trees, root, items, reported, mutations, moves, faults>>

Init ==
  /\ disk = Before /\ trees = [r \in Roots |-> None] /\ root = None /\ items = {}
  /\ mutation = None /\ poll = None /\ reported = None /\ opening = None /\ download = None
  /\ behind = [r \in Roots |-> FALSE]
  /\ mutations = MaxMutations /\ outside = MaxOutside /\ moves = MaxMoves /\ faults = MaxFaults

Polling == Poll \/ PollReads \/ PollReturns
Commanded == Execute \/ MutationFails \/ Acknowledge \/ ListMutated \/ Refreshed
Answered == OpeningReads \/ Opened \/ DownloadReads \/ Downloaded

Next ==
  \/ Create \/ Relocate \/ Duplicate \/ Delete
  \/ Polling \/ PollFails \/ Commanded \/ Answered \/ OpeningFails \/ DownloadFails
  \/ ActivateTab \/ OpenPath \/ LoadWorkspace \/ Download \/ Outside

Spec == Init /\ [][Next]_vars /\ WF_vars(Polling) /\ WF_vars(Commanded) /\ WF_vars(Answered)
-----------------------------------------------------------------------------
\* Trees hold the folders of their entries.
IsTree(tree) == tree \subseteq Entries /\ \A e \in tree : HasParent(tree, e.path)

TypeOK ==
  /\ disk \in [Roots -> SUBSET Entries] /\ trees \in [Roots -> {None} \cup SUBSET Entries]
  /\ \A r \in Roots : IsTree(disk[r]) /\ (trees[r] # None => IsTree(trees[r]))
  /\ root \in Roots \cup {None} /\ IsTree(items) /\ (reported # None => IsTree(reported))
  /\ \A listing \in {poll, opening, download} \ {None} :
       listing \in Listings /\ (listing.tree # None => IsTree(listing.tree))
  /\ mutation \in Commands \cup {None}
  /\ behind \in [Roots -> BOOLEAN] /\ mutations \in 0..MaxMutations /\ outside \in 0..MaxOutside
  /\ moves \in 0..MaxMoves /\ faults \in 0..MaxFaults

\* The tree on the screen is the kept tree of the open workspace, whatever was opened meanwhile.
ItemsAreKept == IF root = None THEN items = {} ELSE items = trees[root]

\* What the commands of the window did is shown once they are through: no listing that was read before
\* takes it back, nor one that failed (readPermission, projectEntryMutation, applyPathMutation).
OwnChangesAreShown == \A r \in Roots : ~behind[r] /\ ~Affects(r) /\ trees[r] # None => trees[r] = disk[r]

TreeIsSound == TypeOK /\ ItemsAreKept /\ OwnChangesAreShown

\* No command runs, and the window shows what is on disk; except where that is what the poll
\* told last, while commands changed the tree and others changed it back: this is not told again.
Rests == mutation = None /\ opening = None /\ download = None
         /\ (root # None => items = disk[root] \/ reported = disk[root])
=============================================================================

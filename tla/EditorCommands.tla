--------------------------- MODULE EditorCommands ---------------------------
(***************************************************************************)
(* What App.tsx does with the editor of a window beside typing: images and *)
(* blocks are inserted by commands whose answer may come when another      *)
(* document, view or surface is shown, and the Context page opens sources, *)
(* which reloads, selects and jumps in the editor.  There is one editor:   *)
(* it is mounted while the workspace is shown with a document in any view  *)
(* but the preview, shows whichever document is active, and is mounted     *)
(* anew when the view changes between "live" and the source views.         *)
(*                                                                         *)
(* A text is the set of the pieces in it.  Titles, positions,              *)
(* untitled documents, Save As, the opening of another workspace and the   *)
(* dialogs about closing are DocumentSession's or left out; a save is one  *)
(* step here.                                                              *)
(***************************************************************************)
EXTENDS Naturals, Sequences, FiniteSets, Functions

CONSTANTS
  None,
  Documents,   \* identities of the documents that can be opened
  First,       \* those that may be open at first
  RootOf,      \* the workspace of a document
  PathOf,      \* its path there
  MaxMarks,    \* insertions and outside changes followed
  MaxMoves,    \* changes of document, view and surface followed
  MaxFaults    \* answers that fail

EditorAssumption ==
  /\ First \subseteq Documents /\ RootOf \in [Documents -> Range(RootOf)] /\ PathOf \in [Documents -> Range(PathOf)]
  /\ \A d, e \in Documents : RootOf[d] = RootOf[e] /\ PathOf[d] = PathOf[e] => d = e
  /\ None \notin Documents /\ MaxMarks \in Nat /\ MaxMoves \in Nat /\ MaxFaults \in Nat

VARIABLES
  stored,      \* what the file of each document holds
  text,        \* documents: the text of each, None when it is not loaded
  open,        \* openFileIds: the tabs, in order
  active,      \* activeFileId
  dirty,       \* dirtyFileIds
  root,        \* workspaceRoot
  view,        \* viewMode
  surface,     \* activeSurface
  opening,     \* the document a navigation loads, with who asked
  insertions,  \* images that are being copied to their workspace
  sources,     \* openMemorySource waiting for its reload
  pending,     \* pendingMemorySourceRef: the document to jump in
  overdue,     \* whether that jump missed the effects that make it
  marks, moves, faults

vars == <<stored, text, open, active, dirty, root, view, surface, opening, insertions, sources, pending, overdue,
          marks, moves, faults>>

Views == {"edit", "split", "live", "preview"}
\* A piece of text belongs to the document it was typed for, or that was shown at the click.  (History:)
\* that of an image keeps the document an editor showed when its copy had ended.
Pieces == [mark : 1..MaxMarks, doc : Documents, shown : Documents \union {None}]
Insertions == [doc : Documents, text : SUBSET Pieces, into : {"editor", "view", "gone"}, piece : Pieces]
Jumps == [doc : Documents, text : SUBSET Pieces, view : Views]
Openings == [doc : Documents, system : BOOLEAN]

TypeOK ==
  /\ stored \in [Documents -> SUBSET Pieces] /\ text \in [Documents -> SUBSET Pieces \union {None}]
  /\ IsInjective(open) /\ Range(open) \subseteq {d \in Documents : text[d] # None}
  /\ active \in Range(open) \union {None} /\ dirty \subseteq {d \in Documents : text[d] # None}
  /\ root \in Range(RootOf) /\ view \in Views /\ surface \in {"workspace", "context"}
  /\ opening \in Openings \union {None} /\ insertions \subseteq Insertions /\ sources \subseteq Jumps
  /\ pending \in Documents \union {None} /\ overdue \in BOOLEAN
  /\ marks \in 0..MaxMarks /\ moves \in 0..MaxMoves /\ faults \in 0..MaxFaults

-----------------------------------------------------------------------------
\* Whether an editor is mounted, editorViewRef, and which of the two it is.
Editor == surface = "workspace" /\ active # None /\ view # "preview"
Kind == IF view = "live" THEN "live" ELSE "source"
SameEditor == Editor /\ Editor' /\ Kind' = Kind

Path == IF active = None THEN None ELSE PathOf[active]
Content == IF active = None THEN {} ELSE text[active]

\* What the editor shows, as far as the jump can tell: the document of this workspace and path.
Shown == {d \in Documents : root = RootOf[d] /\ Path = PathOf[d] /\ Editor}

\* handleEditorReady jumps in an editor that was mounted; the effect on the path, the surface, the
\* text and the workspace jumps too; another workspace forgets the target.
Jump(target) ==
  LET mounted == Editor' /\ ~SameEditor
      changed == Path' # Path \/ surface' # surface \/ root' # root \/ Content' # Content
      jumps == target \in Shown' /\ (mounted \/ changed)
      forgets == root' # RootOf[target] /\ (root' # root \/ mounted)
  IN pending' = IF target = None \/ jumps \/ forgets THEN None ELSE target

\* What every step does besides: a view that is unmounted no longer takes a paste, and the page is
\* rendered.
Rendered(waiting, target) ==
  /\ insertions' = IF SameEditor THEN waiting
       ELSE {[t EXCEPT !.into = IF @ = "view" THEN "gone" ELSE @] : t \in waiting}
  /\ Jump(target)
  /\ overdue' = (pending' # None /\ IF target # pending THEN target \in Shown' ELSE overdue)
SamePage == UNCHANGED <<open, active, root, view, surface>>

Piece(d) == [mark |-> marks', doc |-> d, shown |-> None]

\* updateActiveDocument.
Written(d, content) == text' = [text EXCEPT ![d] = content] /\ dirty' = dirty \union {d}

\* A tab for d, which is the document shown from now on.
Activated(d) ==
  /\ active' = d /\ root' = RootOf[d] /\ open' = IF d \in Range(open) THEN open ELSE Append(open, d)

Moves == moves < MaxMoves /\ moves' = moves + 1 /\ UNCHANGED <<marks, faults>>
Marks == marks < MaxMarks /\ marks' = marks + 1 /\ UNCHANGED <<moves, faults>>
Fails == faults < MaxFaults /\ faults' = faults + 1 /\ UNCHANGED <<marks, moves>>
Answers == UNCHANGED <<marks, moves, faults>>

Init ==
  /\ stored = [d \in Documents |-> {}]
  /\ \E d \in First :
       active = d /\ root = RootOf[d] /\ open = <<d>> /\ text = [e \in Documents |-> IF e = d THEN {} ELSE None]
  /\ dirty = {} /\ view = "live" /\ surface = "workspace" /\ opening = None
  /\ insertions = {} /\ sources = {} /\ pending = None /\ overdue = FALSE
  /\ marks = 0 /\ moves = 0 /\ faults = 0

-----------------------------------------------------------------------------
\* The editor writes what is typed to the document it shows.
Type ==
  /\ Editor /\ Marks /\ Written(active, text[active] \union {Piece(active)})
  /\ SamePage /\ UNCHANGED <<stored, opening, sources>> /\ Rendered(insertions, pending)

\* insertTable, insertCodeFence: the dialog inserts at once, at the end when there is no editor.
InsertBlock ==
  /\ active # None /\ Marks /\ Written(active, text[active] \union {Piece(active)})
  /\ SamePage /\ UNCHANGED <<stored, opening, sources>> /\ Rendered(insertions, pending)

\* insertImageFromDialog, a drop or a paste in a source view: what is awaited keeps the document and
\* the text of the click; a paste in the live view, and that of a Mermaid diagram in any, keeps the
\* view it happened in.
Insert ==
  /\ active # None /\ view # "preview" /\ Marks
  /\ SamePage /\ UNCHANGED <<stored, text, dirty, opening, sources>>
  /\ \E into \in {"editor"} \union (IF Editor THEN {"view"} ELSE {}) :
       Rendered(insertions \union {[doc |-> active, text |-> text[active], into |-> into, piece |-> Piece(active)]}, pending)

Landed(t) == [t.piece EXCEPT !.shown = IF Editor THEN active ELSE None]

\* Mutant: without an editor, the text goes to the document that is active by now.
PlacedLate(t) ==
  \/ t.into = "gone" /\ UNCHANGED <<text, dirty>>
  \/ t.into = "view" /\ Written(active, text[active] \union {Landed(t)})
  \/ t.into = "editor" /\ Editor /\ Written(active, text[active] \union {Landed(t)})
  \/ t.into = "editor" /\ ~Editor /\ active # None /\ Written(active, t.text \union {Landed(t)})

\* insertMarkdownAtSelection: into the editor, whatever it shows by now; without one, after the text
\* of the click, which replaces the document's.  insertPastedImageMarkdown and a Mermaid paste: into the
\* view of the paste, which shows another document by now if the user changed it.
Placed(t) ==
  \/ t.into = "gone" /\ UNCHANGED <<text, dirty>>
  \/ t.into = "view" /\ Written(active, text[active] \union {Landed(t)})
  \/ t.into = "editor" /\ Editor /\ Written(active, text[active] \union {Landed(t)})
  \/ t.into = "editor" /\ ~Editor /\ Written(t.doc, t.text \union {Landed(t)})

Inserted(t) ==
  /\ Placed(t) /\ Answers /\ SamePage /\ UNCHANGED <<stored, opening, sources>>
  /\ Rendered(insertions \ {t}, pending)

InsertFails(t) ==
  /\ Fails /\ SamePage /\ UNCHANGED <<stored, text, dirty, opening, sources>> /\ Rendered(insertions \ {t}, pending)

-----------------------------------------------------------------------------
\* executeCommand for the views and the surfaces.
SetView(v) ==
  /\ v # view /\ Moves /\ view' = v
  /\ UNCHANGED <<stored, text, open, active, dirty, root, surface, opening, sources>> /\ Rendered(insertions, pending)

SetSurface ==
  /\ Moves /\ surface' = (IF surface = "workspace" THEN "context" ELSE "workspace")
  /\ UNCHANGED <<stored, text, open, active, dirty, root, view, opening, sources>> /\ Rendered(insertions, pending)

\* activateTab.
Activate(d) ==
  /\ surface = "workspace" /\ d # active /\ Moves /\ Activated(d) /\ opening' = None
  /\ UNCHANGED <<stored, text, dirty, view, surface, sources>> /\ Rendered(insertions, pending)

\* selectFile: a document that is open is shown at once, another one is loaded first.  The file of a
\* text that came back after its tab was closed gets another identity, which is not followed.
Select(d) ==
  IF d \in Range(open) THEN Activated(d) /\ opening' = None
  ELSE text[d] = None /\ opening' = [doc |-> d, system |-> FALSE] /\ UNCHANGED <<active, root, open>>

OpenFile(d) ==
  /\ surface = "workspace" /\ root = RootOf[d] /\ d \notin Range(open) /\ Moves /\ Select(d)
  /\ UNCHANGED <<stored, text, dirty, view, surface, sources>> /\ Rendered(insertions, pending)

\* openMarkdownPath: the system opens a file, of any workspace.
OpenPath(d) ==
  /\ d \notin Range(open) /\ text[d] = None /\ Moves /\ opening' = [doc |-> d, system |-> TRUE]
  /\ UNCHANGED <<stored, text, open, active, dirty, root, view, surface, sources>> /\ Rendered(insertions, pending)

Opened ==
  /\ opening # None /\ opening' = None /\ Answers
  /\ text' = [text EXCEPT ![opening.doc] = stored[opening.doc]] /\ Activated(opening.doc)
  /\ surface' = IF opening.system THEN "workspace" ELSE surface
  /\ UNCHANGED <<stored, dirty, view, sources>> /\ Rendered(insertions, pending)

OpeningFails ==
  /\ opening # None /\ opening' = None /\ Fails
  /\ SamePage /\ UNCHANGED <<stored, text, dirty, sources>> /\ Rendered(insertions, pending)

\* closeTab: what is dirty is only closed by a user who gives it up; the tab that moves into the
\* place of an active one is activated.
Close(d) ==
  LET rest == SelectSeq(open, LAMBDA e : e # d)
      place == CHOOSE i \in DOMAIN open : open[i] = d
      next == CASE d # active -> active [] rest = <<>> -> None [] OTHER -> rest[IF place > Len(rest) THEN Len(rest) ELSE place]
  IN /\ Moves /\ open' = rest /\ active' = next /\ opening' = None
     /\ root' = IF next = None THEN root ELSE RootOf[next]
     /\ text' = [text EXCEPT ![d] = None] /\ dirty' = dirty \ {d}
     /\ UNCHANGED <<stored, view, surface, sources>> /\ Rendered(insertions, pending)

Save ==
  /\ active \in dirty /\ stored' = [stored EXCEPT ![active] = text[active]] /\ dirty' = dirty \ {active}
  /\ Answers /\ SamePage /\ UNCHANGED <<text, opening, sources>> /\ Rendered(insertions, pending)

\* Another program replaces what a file holds.
Outside(d) ==
  /\ Marks /\ stored' = [stored EXCEPT ![d] = {Piece(d)}]
  /\ SamePage /\ UNCHANGED <<text, dirty, opening, sources>> /\ Rendered(insertions, pending)

-----------------------------------------------------------------------------
\* openMemorySource once the document may be shown: the target waits for the editor, the preview is
\* left as it was at the click, and the file is selected.
Arrive(d, clicked) ==
  /\ view' = IF clicked = "preview" THEN "edit" ELSE view
  /\ surface' = "workspace" /\ Select(d) /\ UNCHANGED <<stored, dirty>> /\ Rendered(insertions, d)

\* A document that is open without changes is read again first, which ends an earlier reading of it.
OpenSource(d) ==
  /\ surface = "context" /\ root = RootOf[d] /\ Moves
  /\ \/ /\ d \in Range(open) \ dirty
        /\ sources' = {n \in sources : n.doc # d} \union {[doc |-> d, text |-> text[d], view |-> view]}
        /\ SamePage /\ UNCHANGED <<stored, text, dirty, opening>> /\ Rendered(insertions, pending)
     \/ d \notin Range(open) \ dirty /\ UNCHANGED <<text, sources>> /\ Arrive(d, view)

\* Mutant: what was typed while the file was read is not seen.
TakesAny(n) == n.doc \in Range(open)

\* request.take: nothing was written to the document, and it was not closed.
Takes(n) == n.doc \in Range(open) /\ text[n.doc] = n.text

\* The text is the file's; a target of another workspace is stale by now.
SourceRead(n) ==
  /\ sources' = sources \ {n} /\ Answers
  /\ \/ /\ Takes(n) /\ text' = [text EXCEPT ![n.doc] = stored[n.doc]]
        /\ \/ root = RootOf[n.doc] /\ Arrive(n.doc, n.view)
           \/ root # RootOf[n.doc] /\ SamePage /\ UNCHANGED <<stored, dirty, opening>> /\ Rendered(insertions, pending)
     \/ ~Takes(n) /\ SamePage /\ UNCHANGED <<stored, text, dirty, opening>> /\ Rendered(insertions, pending)

SourceFails(n) ==
  /\ sources' = sources \ {n} /\ Fails
  /\ SamePage /\ UNCHANGED <<stored, text, dirty, opening>> /\ Rendered(insertions, pending)

-----------------------------------------------------------------------------
Answered ==
  \/ \E t \in insertions : Inserted(t) \/ InsertFails(t)
  \/ Opened \/ OpeningFails
  \/ \E n \in sources : SourceRead(n) \/ SourceFails(n)

Next ==
  \/ Type \/ InsertBlock \/ Insert \/ Save
  \/ \E v \in Views : SetView(v)
  \/ SetSurface
  \/ \E d \in Range(open) : Activate(d) \/ Close(d)
  \/ \E d \in Documents : OpenFile(d) \/ OpenPath(d) \/ Outside(d) \/ OpenSource(d)
  \/ Answered

Spec == Init /\ [][Next]_vars /\ WF_vars(Answered)

-----------------------------------------------------------------------------
\* Nothing of a document gets into another one, whatever is typed, saved, read again, opened or closed
\* meanwhile, with one exception: an image (or a Mermaid paste) goes into the document an editor shows
\* when it comes back, which need not be the one of the click (insertMarkdownAtSelection).
TextsStayApart == \A d \in Documents : text[d] # None => \A p \in text[d] : d \in {p.doc, p.shown}

\* The jump that is awaited is to a document of the open workspace.
PendingIsOfWorkspace == pending # None => root = RootOf[pending]

\* While the window shows the document of an awaited jump, the jump has been made; but the target
\* of a reading that comes late, when nothing is left to change, waits for the next change.
JumpsAreMade == pending \in Shown => overdue

EditorIsSound == TypeOK /\ TextsStayApart /\ PendingIsOfWorkspace /\ JumpsAreMade

\* What is in a tab stays, but for a tab the user closes and a document without changes that is
\* read again for a jump; and an image that comes back without an editor replaces what was written
\* since its click (insertMarkdownAtSelection), in the step it comes back.
TextStays ==
  \A d \in Documents : text[d] # None =>
    \/ text'[d] # None /\ text[d] \subseteq text'[d]
    \/ d \notin Range(open) \/ d \notin Range(open')
    \/ d \notin dirty /\ \E n \in sources : n.doc = d /\ SourceRead(n)
    \/ ~Editor /\ \E t \in insertions : t.doc = d /\ t.into = "editor" /\ Inserted(t)

\* A jump that is awaited is made in its document, or given up for another source or workspace.
JumpsAreToSources ==
  pending # None /\ pending' = None =>
    pending \in Shown' \/ root' # root \/ (\E d \in Documents : OpenSource(d)) \/ \E n \in sources : SourceRead(n)

EditorStepsAreSound == TextStays /\ JumpsAreToSources

\* Every image, opening and source comes to an end.
Rests == insertions = {} /\ sources = {} /\ opening = None
=============================================================================

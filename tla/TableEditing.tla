---------------------------- MODULE TableEditing ----------------------------
(***************************************************************************)
(* The table of the document in the live editor and the widget that shows    *)
(* it: cells with text that is not in the document yet, selections, drags,   *)
(* menus, a request for focus, the widths of columns, undo and redo, and     *)
(* the switch to another document, which CodeMirror is given as one more     *)
(* change of the same view.                                                 *)
(*                                                                         *)
(* Every document has one table, at its start.  Every change of the document *)
(* replaces the table's text and draws the widget anew.  A press that takes  *)
(* the focus from a changed cell writes the cell first; what was pressed is  *)
(* gone then, and the press does nothing else (Leave).                      *)
(***************************************************************************)
EXTENDS TableCommands

CONSTANTS
  Files,      \* documents
  Initial,    \* their tables
  None,       \* nothing
  Texts,      \* what is typed or pasted into cells
  Sizes,      \* widths columns are given
  MaxActions  \* bound on what the user does: clicks, selections, drags, menus, edits, undo, switches

TablesAssumption ==
  /\ None \notin Files \cup Texts /\ Sizes \subseteq Nat \ {0}
  /\ MaxActions \in Nat

VARIABLES
  file,     \* the document shown
  texts,    \* the table of every document
  layout,   \* widths of the columns, and the generation of the document they belong to
  past,     \* what undo goes back to: a text, and widths if the change altered them
  future,   \* what redo goes to
  widget,   \* what is drawn: document, table, widths
  ui,       \* focused cell, its draft, the column it set, selection, drags, menu
  refocus,  \* a cell that is to be focused, None if no request is under way
  given,    \* (history) the layout at every entry of past
  lost,     \* (history) the last step dropped a draft, as the user asked for
  edits,    \* (history) changes so far, undo and redo aside
  actions

document == <<file, texts, layout, past, future, given>>
vars == <<document, widget, ui, refocus, lost, edits, actions>>

Text == texts[file]
Calm == [focus |-> None, draft |-> None, column |-> 0, selection |-> None, drag |-> None, range |-> None, menu |-> None]
Editing == ui.focus # None
Dirty == ui.draft # None

Moving == actions > 0 /\ actions' = actions - 1 /\ UNCHANGED edits
Changing ==   \* a draft was paid for when it was typed
  /\ edits' = edits + 1
  /\ IF Dirty THEN UNCHANGED actions ELSE actions > 0 /\ actions' = actions - 1
Free == UNCHANGED <<edits, actions>>

-----------------------------------------------------------------------------
(* tableLayoutState and applyTableEdit *)

\* Widths for as many columns as there are, <<>> if none is set.
Normal(widths, t) ==
  LET all == Sized(widths, Columns(t), 0)
  IN IF \E c \in 1..Len(all) : all[c] # 0 THEN all ELSE <<>>

\* invertedEffects: what undo must restore, if the change altered it.
Undoing(next) == IF next = layout.widths THEN None ELSE [generation |-> layout.generation, widths |-> layout.widths]

\* updateLayout: an effect of an earlier generation is not heeded.
WidthsAfter(t, effect) ==
  IF effect # None /\ effect.generation = layout.generation THEN Normal(effect.widths, t) ELSE Normal(layout.widths, t)

\* Mutant: a widget with the same text is kept, whose document it is.
RedrawByText(f, t, widths) ==
  IF t = widget.table THEN UNCHANGED <<widget, ui>>
  ELSE widget' = [file |-> f, table |-> t, widths |-> widths] /\ ui' = Calm

\* The widget of another document or of another text is drawn anew, with nothing focused, selected or open.
Redraw(f, t, widths) == widget' = [file |-> f, table |-> t, widths |-> widths] /\ ui' = Calm

\* applyTableEdit.  The edit was computed from the table the widget was drawn for.
Edit(next, widths, focus) ==
  /\ Changing
  /\ LET after == Normal(IF widths = None THEN layout.widths ELSE widths, next)
     IN /\ texts' = [texts EXCEPT ![file] = next]
        /\ layout' = [layout EXCEPT !.widths = after]
        /\ past' = Append(past, [text |-> Text, effect |-> Undoing(after)])
        /\ given' = Append(given, layout)
        /\ Redraw(file, next, after)
  /\ future' = <<>> /\ refocus' = focus
  /\ UNCHANGED file

Tries == 2   \* 5 in the code
Asked(at) == [at |-> at, tries |-> Tries, near |-> FALSE]

\* Mutant: the draft of the last cell is forgotten when Tab adds a row.
CommittedNothing == widget.table

\* commit of a cell: its text becomes part of the table.
Committed == IF Dirty THEN SetCell(widget.table, ui.focus[1], ui.focus[2], ui.draft) ELSE widget.table

-----------------------------------------------------------------------------
(* tableCellEditing *)

Shown == widget.table # NoTable
Here(p) == Has(widget.table, p[1], p[2])
OneCell(p) == [kind |-> "cell", anchor |-> p, head |-> p]
SelectTo(p, extend) ==
  IF extend /\ ui.selection # None /\ ui.selection.kind = "cell" THEN [ui.selection EXCEPT !.head = p] ELSE OneCell(p)

\* A press on a cell: it is selected, has the focus, and a range may be dragged from it.
Click(p, extend) ==
  /\ Moving /\ ~Dirty /\ Here(p) /\ ui.drag = None /\ ui.menu = None
  /\ ui' = [ui EXCEPT !.focus = p, !.column = p[2], !.selection = SelectTo(p, extend),
                      !.range = IF extend THEN @ ELSE [at |-> p, active |-> FALSE]]
  /\ UNCHANGED <<document, widget, refocus>> /\ lost' = FALSE

Type(v) ==
  /\ Moving /\ Editing /\ ui.menu = None /\ v # CellAt(widget.table, ui.focus[1], ui.focus[2]) /\ ui.draft # v
  /\ ui' = [ui EXCEPT !.draft = v]
  /\ UNCHANGED <<document, widget, refocus>> /\ lost' = FALSE

\* blur, by Enter or by a press elsewhere.
Leave ==
  /\ Editing
  /\ IF Dirty THEN Edit(Committed, None, None)
     ELSE Free /\ ui' = [ui EXCEPT !.focus = None] /\ UNCHANGED <<document, widget, refocus>>
  /\ lost' = FALSE

Escape ==
  /\ Editing /\ Free
  /\ ui' = [ui EXCEPT !.focus = None, !.draft = None]
  /\ lost' = Dirty
  /\ UNCHANGED <<document, widget, refocus>>

Index(p) == p[1] * Columns(widget.table) + p[2]
LastCell == (BodyRows(widget.table) + 1) * Columns(widget.table) - 1

\* Tab, back or forth; behind the last cell it adds a row.
Tab(by) ==
  LET next == Index(ui.focus) + by
      at == <<next \div Columns(widget.table), next % Columns(widget.table)>>
  IN /\ Editing
     /\ IF next > LastCell THEN Edit(InsertRows(Committed, BodyRows(widget.table) + 1, 1), None, Asked(<<BodyRows(widget.table) + 1, 0>>))
        ELSE IF Dirty THEN Edit(Committed, None, IF next < 0 THEN None ELSE Asked(at))
        ELSE Moving /\ next >= 0 /\ refocus' = Asked(at) /\ UNCHANGED <<document, widget, ui>>
     /\ lost' = FALSE

PasteInto(matrix) ==
  /\ Editing
  /\ Edit(Paste(widget.table, ui.focus[1], ui.focus[2], matrix), None, Asked(ui.focus))
  /\ lost' = Dirty

-----------------------------------------------------------------------------
(* Selections and commands *)

RowsOf(s, t) ==
  CASE s.kind = "row" -> s.lines
    [] s.kind \in {"column", "table"} -> 0..BodyRows(t)
    [] OTHER -> Min({s.anchor[1], s.head[1]})..Max({s.anchor[1], s.head[1]})
ColumnsOf(s, t) ==
  CASE s.kind = "column" -> s.lines
    [] s.kind \in {"row", "table"} -> 0..(Columns(t) - 1)
    [] OTHER -> Min({s.anchor[2], s.head[2]})..Max({s.anchor[2], s.head[2]})

\* tableSelectionIndices
Command(kind, at, count, target) ==
  [kind |-> kind, row |-> at[1], column |-> at[2], count |-> count, target |-> target,
   rows |-> IF ui.selection = None THEN {at[1]} ELSE RowsOf(ui.selection, widget.table),
   columns |-> IF ui.selection = None THEN {at[2]} ELSE ColumnsOf(ui.selection, widget.table)]

\* applyTableCommand
Run(x) ==
  LET next == Execute(widget.table, x)
  IN /\ Edit(next, WidthsFor(layout.widths, x, widget.table, next), IF next = NoTable THEN None ELSE Asked(Focus(widget.table, x)))
     /\ lost' = Dirty

\* A handle of a row or a column, or the one of the table.
Handle(kind, n, extend) ==
  /\ Moving /\ ui.drag = None /\ ui.menu = None
  /\ n \in (IF kind = "row" THEN 0..BodyRows(widget.table) ELSE IF kind = "column" THEN 0..(Columns(widget.table) - 1) ELSE {0})
  /\ Shown
  /\ LET first == IF extend /\ ui.selection # None /\ ui.selection.kind = kind THEN Min(ui.selection.lines) ELSE n
     IN ui' = [ui EXCEPT !.selection = [kind |-> kind, lines |-> Min({first, n})..Max({first, n})]]
  /\ UNCHANGED <<document, widget, refocus>> /\ lost' = FALSE

\* The pointer, or the arrow keys with the widget focused, extend the selection to a cell.
\* The end of a press is only heard above the widget: the range may go on without one.
Extend(p) ==
  /\ Moving /\ ui.range # None /\ Here(p) /\ p # ui.range.at /\ ui.drag = None
  /\ ui' = [ui EXCEPT !.selection = [kind |-> "cell", anchor |-> ui.range.at, head |-> p], !.range.active = TRUE]
  /\ UNCHANGED <<document, widget, refocus>> /\ lost' = FALSE

Release ==
  /\ ui.range # None
  /\ IF Dirty /\ ui.range.active THEN Edit(Committed, None, None)
     ELSE Free /\ ui' = [ui EXCEPT !.range = None, !.focus = IF ui.range.active THEN None ELSE @]
          /\ UNCHANGED <<document, widget, refocus>>
  /\ lost' = FALSE

\* cut, for a selection of several cells.
Cut ==
  /\ Shown /\ ui.selection # None
  /\ Cardinality(RowsOf(ui.selection, widget.table) \X ColumnsOf(ui.selection, widget.table)) > 1
  /\ Run(Command("cellClear", IF Editing THEN ui.focus ELSE <<0, 0>>, 1, 0))

\* The toolbar, and the buttons between columns or rows.
Toolbar(kind) ==
  /\ Shown /\ ~Dirty /\ ui.menu = None
  /\ Run(Command(kind, IF kind = "delete" THEN <<0, 0>> ELSE <<0, ui.column>>, 1, 0))

Gap(kind, boundary) ==
  /\ Shown /\ ~Dirty /\ ui.menu = None /\ kind \in {"rowInsertBefore", "columnInsertBefore"}
  /\ boundary \in (IF kind = "rowInsertBefore" THEN 1..(BodyRows(widget.table) + 1) ELSE 0..Columns(widget.table))
  /\ Run(Command(kind, IF kind = "rowInsertBefore" THEN <<boundary, 0>> ELSE <<0, boundary>>, 1, 0))

-----------------------------------------------------------------------------
(* tableInteractionDom: drags.  They begin without taking the focus from a cell. *)

BeginDrag(kind, source) ==
  /\ Moving /\ ui.drag = None /\ ui.menu = None
  /\ source \in (IF kind = "row" THEN 0..BodyRows(widget.table) ELSE 0..(Columns(widget.table) - 1)) /\ Shown
  /\ ui' = [ui EXCEPT !.drag = [kind |-> kind, source |-> source, target |-> source]]
  /\ UNCHANGED <<document, widget, refocus>> /\ lost' = FALSE

Drag(target) ==
  /\ ui.drag # None /\ ui.drag.kind # "resize" /\ target # ui.drag.target
  /\ target \in (IF ui.drag.kind = "row" THEN 0..BodyRows(widget.table) ELSE 0..(Columns(widget.table) - 1))
  /\ ui' = [ui EXCEPT !.drag.target = target]
  /\ Free /\ UNCHANGED <<document, widget, refocus>> /\ lost' = FALSE

\* A column is given a width, which is no change of the document (resizeTableColumn).
Resize(size) ==
  /\ ui.drag # None /\ ui.drag.kind = "resize"
  /\ LET after == Normal([Sized(layout.widths, Columns(widget.table), 0) EXCEPT ![ui.drag.source + 1] = size], widget.table)
     IN /\ after # layout.widths
        /\ layout' = [layout EXCEPT !.widths = after]
        /\ widget' = [widget EXCEPT !.widths = after]
  /\ Free /\ UNCHANGED <<file, texts, past, future, given, ui, refocus>> /\ lost' = FALSE

\* pointerup and pointercancel alike; Escape gives a drag of rows or columns up.
Drop ==
  /\ ui.drag # None
  /\ LET d == ui.drag
         move == d.source # d.target /\ (d.kind = "row" => d.source > 0 /\ d.target > 0)
         x == Command(IF d.kind = "row" THEN "rowMove" ELSE "columnMove",
                      IF d.kind = "row" THEN <<d.source, 0>> ELSE <<0, d.source>>, 1, d.target)
     IN IF move THEN Run(x)
        ELSE Free /\ ui' = [ui EXCEPT !.drag = None] /\ UNCHANGED <<document, widget, refocus>> /\ lost' = FALSE

CancelDrag ==
  /\ ui.drag # None /\ ui.drag.kind # "resize"
  /\ ui' = [ui EXCEPT !.drag = None]
  /\ Free /\ UNCHANGED <<document, widget, refocus>> /\ lost' = FALSE

-----------------------------------------------------------------------------
(* Menus: tableMenuLifecycle, tableWidgetMenus *)

\* The menu of a cell, or the one of sizes.  It takes the focus a frame later.
OpenMenu(kind) ==
  /\ Moving /\ Shown /\ ui.drag = None /\ ui.menu = None
  /\ kind = "cell" => Editing
  /\ kind = "size" => ~Dirty
  /\ ui' = [ui EXCEPT !.menu = [kind |-> kind, at |-> IF kind = "cell" THEN ui.focus ELSE <<0, 0>>, armed |-> FALSE]]
  /\ UNCHANGED <<document, widget, refocus>> /\ lost' = FALSE

\* Its focus takes the one of the cell: a draft is written, and the menu closes with the widget.
MenuFocus ==
  /\ ui.menu # None /\ ~ui.menu.armed
  /\ IF Dirty THEN Edit(Committed, None, None)
     ELSE Free /\ ui' = [ui EXCEPT !.menu.armed = TRUE, !.focus = None] /\ UNCHANGED <<document, widget, refocus>>
  /\ lost' = FALSE

\* Escape, and a press elsewhere before it does anything else, give the focus back to the cell;
\* another window that comes to the front does not.
CloseMenu(restore) ==
  /\ ui.menu # None
  /\ ui' = [ui EXCEPT !.menu = None, !.focus = IF restore /\ ui.menu.kind = "cell" THEN ui.menu.at ELSE @]
  /\ Free /\ UNCHANGED <<document, widget, refocus>> /\ lost' = FALSE

Disabled(kind, at) ==
  \/ kind \in {"rowDuplicate", "rowDelete"} /\ at[1] = 0
  \/ kind = "rowMoveUp" /\ at[1] <= 1
  \/ kind = "rowMoveDown" /\ (at[1] = 0 \/ at[1] >= BodyRows(widget.table))
  \/ kind = "columnMoveLeft" /\ at[2] <= 0
  \/ kind = "columnMoveRight" /\ at[2] >= Columns(widget.table) - 1

\* An item of the menu of a cell; the ones that insert several rows or columns ask for their number.
Choose(kind, count) ==
  /\ ui.menu # None /\ ui.menu.armed /\ ui.menu.kind = "cell"
  /\ kind \in Kinds \ {"rowMove", "columnMove", "delete", "cellClear"} /\ ~Disabled(kind, ui.menu.at)
  /\ count > 1 => kind \in Inserts
  /\ Run(Command(kind, IF kind \in {"rowInsertBefore", "rowInsertAfter"} THEN <<Max({1, ui.menu.at[1]}), ui.menu.at[2]>> ELSE ui.menu.at,
                 count, 0))

ChooseSize(rows, columns) ==
  /\ ui.menu # None /\ ui.menu.armed /\ ui.menu.kind = "size"
  /\ Edit(ResizeTable(widget.table, rows - 1, columns), None, None)
  /\ lost' = FALSE

-----------------------------------------------------------------------------
(* History, frames and documents *)

\* undo, from a cell or from the editor; a cell near the one that had the focus gets it back.
\* The inverse of the change goes to the other stack.
Restore(from, to) ==
  LET e == from[Len(from)]
      after == WidthsAfter(e.text, e.effect)
  IN /\ texts' = [texts EXCEPT ![file] = e.text]
     /\ layout' = [layout EXCEPT !.widths = after]
     /\ to' = Append(to, [text |-> Text, effect |-> Undoing(after)])
     /\ from' = Front(from)
     /\ Redraw(file, e.text, after)
     /\ refocus' = IF Editing THEN [at |-> ui.focus, tries |-> 2, near |-> TRUE] ELSE None
     /\ lost' = Dirty
     /\ Moving /\ UNCHANGED file

Undo == past # <<>> /\ Restore(past, future) /\ given' = Front(given)
Redo == future # <<>> /\ Restore(future, past) /\ given' = Append(given, layout)

Distance(p, q) == Max({p[1], q[1]}) - Min({p[1], q[1]}) + Max({p[2], q[2]}) - Min({p[2], q[2]})
Nearest(p) == CHOOSE q \in Positions(widget.table) : \A r \in Positions(widget.table) : Distance(q, p) <= Distance(r, p)

\* A frame of focusTableCellAtAfterCommit or restoreTableHistoryViewport.  A cell that is being
\* edited is left, and written, first.
Frame ==
  /\ refocus # None
  /\ LET cell == IF refocus.near THEN Nearest(refocus.at) ELSE refocus.at
         there == Shown /\ Has(widget.table, cell[1], cell[2])
     IN CASE there /\ Dirty /\ cell # ui.focus -> Edit(Committed, None, None)
          [] there /\ ~(Dirty /\ cell # ui.focus) ->
               Free /\ refocus' = None /\ ui' = [ui EXCEPT !.focus = cell, !.column = cell[2], !.selection = OneCell(cell)]
               /\ UNCHANGED <<document, widget>>
          [] ~there -> Free /\ refocus' = (IF refocus.tries = 1 THEN None ELSE [refocus EXCEPT !.tries = @ - 1])
                       /\ UNCHANGED <<document, widget, ui>>
  /\ lost' = FALSE

\* Another document is shown, by the keyboard: the view gets its text as one more change, and a
\* new generation of widths.
Switch(f) ==
  /\ Moving /\ f # file /\ file' = f
  /\ layout' = [generation |-> layout.generation + 1, widths |-> <<>>]
  /\ IF texts[f] = Text THEN UNCHANGED <<past, future, given>>
     ELSE /\ past' = Append(past, [text |-> Text, effect |-> None])
          /\ given' = Append(given, layout)
          /\ future' = <<>>
  /\ Redraw(f, texts[f], <<>>) /\ refocus' = None
  /\ lost' = Dirty
  /\ UNCHANGED texts

-----------------------------------------------------------------------------

Init ==
  /\ file = CHOOSE f \in Files : TRUE
  /\ texts = Initial
  /\ layout = [generation |-> 0, widths |-> <<>>]
  /\ past = <<>> /\ future = <<>> /\ given = <<>>
  /\ widget = [file |-> file, table |-> Text, widths |-> <<>>]
  /\ ui = Calm /\ refocus = None /\ lost = FALSE
  /\ edits = 0 /\ actions = MaxActions

Cell ==
  \/ \E p \in Positions(widget.table), extend \in BOOLEAN : Click(p, extend)
  \/ \E v \in Texts : Type(v)
  \/ Leave \/ Escape
  \/ \E by \in {-1, 1} : Tab(by)
  \/ \E v \in Texts : PasteInto(<<<<v, v>>>>)

Selection ==
  \/ \E kind \in {"row", "column", "table"}, extend \in BOOLEAN :
       \E n \in 0..Max({BodyRows(widget.table), Columns(widget.table)}) : Handle(kind, n, extend)
  \/ \E p \in Positions(widget.table) : Extend(p)
  \/ Release \/ Cut
  \/ \E kind \in {"left", "delete"} : Toolbar(kind)
  \/ \E kind \in Inserts, boundary \in 0..(Max({BodyRows(widget.table), Columns(widget.table)}) + 1) : Gap(kind, boundary)

Dragging ==
  \/ \E kind \in {"row", "column", "resize"} :
       \E n \in 0..Max({BodyRows(widget.table), Columns(widget.table)}) : BeginDrag(kind, n)
  \/ \E n \in 0..Max({BodyRows(widget.table), Columns(widget.table)}) : Drag(n)
  \/ \E size \in Sizes : Resize(size)
  \/ Drop \/ CancelDrag

Menu ==
  \/ \E kind \in {"cell", "size"} : OpenMenu(kind)
  \/ MenuFocus
  \/ \E restore \in BOOLEAN : CloseMenu(restore)
  \/ \E kind \in Kinds, count \in 1..2 : Choose(kind, count)
  \/ \E rows, columns \in 1..2 : ChooseSize(rows, columns)

Next == Cell \/ Selection \/ Dragging \/ Menu \/ Undo \/ Redo \/ Frame \/ \E f \in Files : Switch(f)

Spec == Init /\ [][Next]_vars /\ WF_vars(Frame)
-----------------------------------------------------------------------------

\* Every column of a table is as long as its header; what is focused, selected, dragged or in a
\* menu is part of the table that is drawn, and only a focused cell has a draft (tableInteractionDom).
TypeOK ==
  /\ \A f \in Files : \A c \in 1..Len(texts[f]) : Len(texts[f][c].cells) = BodyRows(texts[f]) + 1
  /\ Editing => Here(ui.focus)
  /\ Dirty => Editing
  /\ ui.range # None => Here(ui.range.at)
  /\ ui.menu # None => Shown /\ Here(ui.menu.at)
  /\ ui.selection # None =>
       (RowsOf(ui.selection, widget.table) \X ColumnsOf(ui.selection, widget.table)) \subseteq Positions(widget.table)
  /\ ui.drag # None => {ui.drag.source, ui.drag.target} \subseteq
       0..(IF ui.drag.kind = "row" THEN BodyRows(widget.table) ELSE Columns(widget.table) - 1)
  /\ edits \in 0..MaxActions /\ actions \in 0..MaxActions

\* An edit is computed from what is drawn: that is always the document shown, its table and its
\* widths, also after undo, resizing and a switch to a document with the same text (TablePreviewWidget.eq).
WidgetIsCurrent == widget = [file |-> file, table |-> Text, widths |-> layout.widths]

Header(t, c) == t[c].cells[1]
Named(t, h) == {c \in 1..Len(t) : Header(t, c) = h}
WidthOf(l, c) == IF l.widths = <<>> THEN 0 ELSE l.widths[c]

\* A command keeps the width of every column, wherever it moves the column to.  One column is the
\* exception: the button behind the last column gives the width of that column, and of no other, to
\* the new one (tableWidthsForCommand), though the widths of explicit commands are said to be kept
\* (menu-table-lifetimes.md:38).
WidthsFollow ==
  edits' > edits =>
    LET old == Text
        new == texts'[file]
    IN \A c \in 1..Len(old), n \in 1..Len(new) :
         Header(old, c) # Blank /\ Named(old, Header(old, c)) = {c} /\ Named(new, Header(old, c)) = {n}
         /\ ~(c = Len(old) /\ Gap("columnInsertBefore", Len(old)))
           => WidthOf(layout', n) = WidthOf(layout, c)

\* What is typed into a cell becomes text of the table when the cell is left, by whatever key,
\* press, menu or frame; only Escape, undo, a paste or cut, a drop and a switch drop it (commit).
DraftsAreWritten ==
  Dirty /\ ui'.draft = None /\ lost' = FALSE =>
    file' = file /\ Has(Text', ui.focus[1], ui.focus[2]) /\ CellAt(Text', ui.focus[1], ui.focus[2]) = ui.draft

\* A table keeps a body row and a column, unless it is resized or deleted as a whole (deleteRows, deleteColumns).
BodyStays ==
  edits' > edits /\ ~(ui.menu # None /\ ui.menu.kind = "size") /\ BodyRows(Text) > 0 => BodyRows(Text') > 0 \/ Toolbar("delete")

\* Undo of a change gives the columns the widths they had before it, unless they were none or
\* another document was shown since (invertedEffects).
UndoRestores ==
  Len(past') < Len(past) /\ given[Len(past)].generation = layout.generation /\ given[Len(past)].widths # <<>>
    /\ Columns(past[Len(past)].text) # Columns(Text)
    => layout'.widths = given[Len(past)].widths

StepsAreSound == WidthsFollow /\ DraftsAreWritten /\ BodyStays /\ UndoRestores
TableSteps == [][StepsAreSound]_vars

\* A request for focus comes to an end (focusTableCellAtAfterCommit).
FocusSettles == <>[](refocus = None)
=============================================================================

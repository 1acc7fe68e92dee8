---------------------------- MODULE TableCommands ----------------------------
(***************************************************************************)
(* The commands on Markdown tables, as functions of a table.  A table is a   *)
(* sequence of columns with an alignment and the cells from the header down; *)
(* its rows are as long as its header, since every command parses the text,  *)
(* pads or cuts its rows to the header and writes it again.  Rows and        *)
(* columns are numbered from 0 as in the code, and row 0 is the header.      *)
(***************************************************************************)
EXTENDS Integers, Sequences, FiniteSets, SequencesExt, FiniteSetsExt

Blank == ""
Default == "default"
NoTable == <<>>      \* the text of a table that was deleted

Columns(t) == Len(t)
BodyRows(t) == IF t = NoTable THEN 0 ELSE Len(t[1].cells) - 1
CellAt(t, row, column) == t[column + 1].cells[row + 1]
Has(t, row, column) == row \in 0..BodyRows(t) /\ column \in 0..(Columns(t) - 1)
Positions(t) == {p \in (0..BodyRows(t)) \X (0..(Columns(t) - 1)) : Has(t, p[1], p[2])}

Clamp(n, low, high) == Max({low, Min({n, high})})
Repeat(n, x) == [i \in 1..n |-> x]
Splice(s, at, new) == SubSeq(s, 1, at) \o new \o SubSeq(s, at + 1, Len(s))
Move(s, from, to) == InsertAt(RemoveAt(s, from + 1), to + 1, s[from + 1])
Without(s, I) == FlattenSeq([i \in 1..Len(s) |-> IF i - 1 \in I THEN <<>> ELSE <<s[i]>>])
Doubled(s, I) == FlattenSeq([i \in 1..Len(s) |-> IF i - 1 \in I THEN <<s[i], s[i]>> ELSE <<s[i]>>])
Sized(s, n, x) == [i \in 1..n |-> IF i <= Len(s) THEN s[i] ELSE x]

\* The same change of every column, header included.
InColumns(t, F(_)) == [c \in 1..Len(t) |-> [t[c] EXCEPT !.cells = F(@)]]

-----------------------------------------------------------------------------
(* tableOperations *)

SetCell(t, row, column, value) ==
  IF Has(t, row, column) THEN [t EXCEPT ![column + 1].cells[row + 1] = value] ELSE t

InsertRows(t, boundary, count) ==
  LET at == Clamp(boundary, 1, BodyRows(t) + 1)
  IN InColumns(t, LAMBDA s : Splice(s, at, Repeat(Max({1, count}), Blank)))

InsertColumns(t, boundary, count) ==
  Splice(t, Clamp(boundary, 0, Columns(t)),
         Repeat(Max({1, count}), [align |-> Default, cells |-> Repeat(BodyRows(t) + 1, Blank)]))

\* The header stays, and so does the body if all its rows are named.
DeleteRows(t, rows) ==
  LET targets == rows \cap 1..BodyRows(t)
  IN IF Cardinality(targets) \in {0, BodyRows(t)} THEN t ELSE InColumns(t, LAMBDA s : Without(s, targets))

DeleteColumns(t, columns) ==
  LET targets == columns \cap 0..(Columns(t) - 1)
  IN IF Cardinality(targets) \in {0, Columns(t)} THEN t ELSE Without(t, targets)

DuplicateRows(t, rows) == InColumns(t, LAMBDA s : Doubled(s, rows \cap 1..BodyRows(t)))
DuplicateColumns(t, columns) == Doubled(t, columns)

MoveRow(t, row, target) ==
  IF {row, target} \subseteq 1..BodyRows(t) THEN InColumns(t, LAMBDA s : Move(s, row, target)) ELSE t

MoveColumn(t, column, target) == IF {column, target} \subseteq 0..(Columns(t) - 1) THEN Move(t, column, target) ELSE t

Align(t, columns, alignment) ==
  [c \in 1..Len(t) |-> IF c - 1 \in columns THEN [t[c] EXCEPT !.align = alignment] ELSE t[c]]

ClearCells(t, rows, columns) ==
  [c \in 1..Len(t) |-> IF c - 1 \notin columns THEN t[c]
     ELSE [t[c] EXCEPT !.cells = [r \in 1..Len(@) |-> IF r - 1 \in rows THEN Blank ELSE @[r]]]]

ResizeTable(t, bodyRows, columns) ==
  LET wide == Sized(t, Max({1, columns}), [align |-> Default, cells |-> Repeat(BodyRows(t) + 1, Blank)])
  IN InColumns(wide, LAMBDA s : Sized(s, Max({0, bodyRows}) + 1, Blank))

\* pasteTableMatrix: the table grows where the pasted cells, rows of one length, need it.
Paste(t, row, column, matrix) ==
  LET wide == ResizeTable(t, Max({BodyRows(t), row + Len(matrix) - 1}), Max({Columns(t), column + Len(matrix[1])}))
      In(i, first, n) == i - 1 \in first..(first + n - 1)
  IN [c \in 1..Len(wide) |-> IF ~In(c, column, Len(matrix[1])) THEN wide[c]
        ELSE [wide[c] EXCEPT !.cells = [r \in 1..Len(@) |->
                IF In(r, row, Len(matrix)) THEN matrix[r - row][c - column] ELSE @[r]]]]

-----------------------------------------------------------------------------
(* executeTableCommand.  A command has a kind, the cell it is run for, the rows and
   columns of the selection (or those of the cell), a target of moves and a count. *)

RowMoves == {"rowMoveUp", "rowMoveDown", "rowMove"}
ColumnMoves == {"columnMoveLeft", "columnMoveRight", "columnMove"}
Alignments == {"left"}   \* standing for all three
Inserts == {"rowInsertBefore", "rowInsertAfter", "columnInsertBefore", "columnInsertAfter"}
Kinds == Inserts \cup RowMoves \cup ColumnMoves \cup Alignments
         \cup {"rowDuplicate", "columnDuplicate", "rowDelete", "columnDelete", "rowClear", "columnClear", "cellClear", "delete"}

Direction(kind) == IF kind \in {"rowMoveUp", "columnMoveLeft"} THEN -1 ELSE 1
RowTarget(x) == IF x.kind = "rowMove" THEN x.target ELSE x.row + Direction(x.kind)
ColumnTarget(x) == IF x.kind = "columnMove" THEN x.target ELSE x.column + Direction(x.kind)

Execute(t, x) ==
  CASE x.kind = "rowInsertBefore" -> InsertRows(t, x.row, x.count)
    [] x.kind = "rowInsertAfter" -> InsertRows(t, x.row + 1, x.count)
    [] x.kind = "columnInsertBefore" -> InsertColumns(t, x.column, x.count)
    [] x.kind = "columnInsertAfter" -> InsertColumns(t, x.column + 1, x.count)
    [] x.kind = "rowDuplicate" -> DuplicateRows(t, x.rows)
    [] x.kind = "columnDuplicate" -> DuplicateColumns(t, x.columns)
    [] x.kind \in RowMoves -> MoveRow(t, x.row, RowTarget(x))
    [] x.kind \in ColumnMoves -> MoveColumn(t, x.column, ColumnTarget(x))
    [] x.kind = "rowDelete" -> DeleteRows(t, x.rows)
    [] x.kind = "columnDelete" -> DeleteColumns(t, x.columns)
    [] x.kind = "rowClear" -> ClearCells(t, x.rows, 0..(Columns(t) - 1))
    [] x.kind = "columnClear" -> ClearCells(t, 0..BodyRows(t), x.columns)
    [] x.kind = "cellClear" -> ClearCells(t, x.rows, x.columns)
    [] x.kind \in Alignments -> Align(t, x.columns, x.kind)
    [] x.kind = "delete" -> NoTable

\* The cell that is focused afterwards.
Focus(t, x) ==
  CASE x.kind \in {"rowInsertAfter", "rowDuplicate"} -> <<x.row + 1, x.column>>
    [] x.kind \in {"columnInsertAfter", "columnDuplicate"} -> <<x.row, x.column + 1>>
    [] x.kind \in RowMoves -> IF RowTarget(x) \in 1..BodyRows(t) /\ x.row > 0 THEN <<RowTarget(x), x.column>> ELSE <<x.row, x.column>>
    [] x.kind \in ColumnMoves -> IF ColumnTarget(x) \in 0..(Columns(t) - 1) THEN <<x.row, ColumnTarget(x)>> ELSE <<x.row, x.column>>
    [] x.kind = "rowDelete" -> <<Max({1, x.row - 1}), x.column>>
    [] x.kind = "columnDelete" -> <<x.row, Max({0, x.column - 1})>>
    [] OTHER -> <<x.row, x.column>>

-----------------------------------------------------------------------------
(* tableWidthsForCommand.  0 is a column that was not resized; <<>> is a table in which
   no column was. *)

\* Mutant: a width stays where its column was.
WidthsForUnmoved(widths, x, t, next) ==
  IF widths = <<>> \/ next \in {t, NoTable} THEN widths ELSE Sized(widths, Columns(next), 0)

WidthsFor(widths, x, t, next) ==
  LET count == Columns(t)
      base == Sized(widths, count, 0)
      column == Clamp(x.column, 0, count - 1)
      added == Repeat(Max({0, Columns(next) - count}), 0)
      all == CASE x.kind = "columnDuplicate" -> Doubled(base, x.columns)
               [] x.kind = "columnDelete" -> IF Columns(next) = count THEN base ELSE Without(base, x.columns)
               [] x.kind = "columnInsertBefore" -> Splice(base, column, added)
               [] x.kind = "columnInsertAfter" -> Splice(base, column + 1, added)
               [] x.kind \in ColumnMoves -> Move(base, column, Clamp(ColumnTarget(x), 0, count - 1))
               [] OTHER -> base
  IN IF widths = <<>> \/ next \in {t, NoTable} THEN widths ELSE SubSeq(all, 1, Min({Len(all), Columns(next)}))
=============================================================================

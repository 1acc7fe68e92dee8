---------------------------- MODULE Keybindings ----------------------------
(***************************************************************************)
(* The key bindings of the application: the built-in table, the user's      *)
(* overrides, and the three places that read them: the listener of the       *)
(* window, the keymap of the text editors and the report of conflicts.       *)
(*                                                                         *)
(* A shortcut is written without its key codes: of a key the model keeps     *)
(* what it types and, for letters and digits, which physical key it is.      *)
(* An override is a parsed binding; text that cannot be parsed leaves the    *)
(* built-in binding, as if it were not there.                               *)
(***************************************************************************)
EXTENDS Integers, Sequences, FiniteSets, Functions

CONSTANTS
  Rebound,      \* the commands the user binds
  Bindings,     \* the bindings the user chooses from
  MaxOverrides, \* bound on overrides
  None          \* a command without a binding

VARIABLE overrides  \* the user's bindings: from commands to a binding or None

vars == overrides

-----------------------------------------------------------------------------

\* A binding is a key and the set of its modifiers.
Key(key, modifiers) == [key |-> key, modifiers |-> modifiers]

Mod == {"mod"}
Shift == {"mod", "shift"}
Alt == {"mod", "alt"}

\* A shortcut in the window, one of the editor, and one of the file tree.
Shortcut(command, key, modifiers) ==
  [command |-> command, binding |-> Key(key, modifiers), when |-> "always", priority |-> 0, editorHandled |-> FALSE]
OfEditor(command, key, modifiers) ==
  [Shortcut(command, key, modifiers) EXCEPT !.when = "editorFocus", !.priority = 100, !.editorHandled = TRUE]
OfTree(command, key) == [Shortcut(command, key, {}) EXCEPT !.when = "fileTreeFocus"]

\* appCommandRegistry, in its order; a command's first shortcut stands first.
GeneralShortcuts == <<
  Shortcut("caption.start", "l", Alt), Shortcut("vocab.lookup", "d", Alt),
  Shortcut("app.settings", ",", Mod), Shortcut("app.newWindow", "n", Shift), Shortcut("app.quit", "q", Mod),
  OfEditor("edit.undo", "z", Mod), OfEditor("edit.redo", "z", Shift), OfEditor("edit.redo", "y", Mod),
  OfEditor("edit.selectAll", "a", Mod),
  Shortcut("file.newFile", "n", Mod), Shortcut("file.openFile", "o", Mod), Shortcut("file.save", "s", Mod),
  Shortcut("file.saveAs", "s", Shift), Shortcut("file.close", "w", Mod),
  OfTree("file.rename", "f2"), OfTree("file.rename", "enter"),
  OfTree("file.delete", "delete"), OfTree("file.delete", "backspace") >>

EditorShortcuts == <<
  Shortcut("edit.find", "f", Mod), Shortcut("edit.findNext", "g", Mod), Shortcut("edit.findPrevious", "g", Shift),
  Shortcut("format.heading1", "1", Mod), Shortcut("format.heading2", "2", Mod), Shortcut("format.heading3", "3", Mod),
  Shortcut("format.heading4", "4", Mod), Shortcut("format.heading5", "5", Mod), Shortcut("format.heading6", "6", Mod),
  OfEditor("format.bold", "b", Mod), OfEditor("format.italic", "i", Mod), OfEditor("format.underline", "u", Mod),
  OfEditor("format.link", "k", Mod), OfEditor("format.codeFence", "k", Shift),
  Shortcut("format.insertImage", "i", Shift), OfEditor("format.mathBlock", "m", Shift),
  Shortcut("editor.insertTable", "t", Alt) >>

WindowShortcuts == <<
  Shortcut("repository.syncNow", "s", Alt), Shortcut("view.toggleSidebar", "l", Shift),
  Shortcut("view.sourceCode", "e", Shift), Shortcut("view.split", "\\", Mod), Shortcut("view.preview", "p", Shift),
  Shortcut("view.resetZoom", "0", Mod), Shortcut("view.zoomIn", "=", Mod), Shortcut("view.zoomOut", "-", Mod) >>

Registry == GeneralShortcuts \o EditorShortcuts \o WindowShortcuts

\* MARKDOWN_FORMAT_COMMANDS and STANDARD_EDITOR_COMMANDS in their order: the commands the
\* text editors bind themselves.
EditorCommands ==
  <<"format.paragraph", "format.heading1", "format.heading2", "format.heading3",
    "format.heading4", "format.heading5", "format.heading6", "format.bold", "format.italic", "format.underline",
    "format.code", "format.link", "format.clearFormat", "format.codeFence", "format.mathBlock", "format.quote",
    "format.orderedList", "format.unorderedList", "format.taskList", "edit.selectAll", "edit.undo", "edit.redo">>

Init == overrides \in [{} -> Bindings]

-----------------------------------------------------------------------------

OfCommand(command) == SelectSeq(Registry, LAMBDA s : s.command = command)

\* An override replaces the command's first shortcut with the primary modifier, or its first
\* one, and keeps its context and its priority; None removes them all.
Replaced(command, binding) ==
  LET own == OfCommand(command)
      primary == {i \in DOMAIN own : "mod" \in own[i].binding.modifiers}
      target == IF primary = {} THEN 1 ELSE CHOOSE i \in primary : \A j \in primary : i <= j
  IN IF own = <<>> THEN <<Shortcut(command, binding.key, binding.modifiers)>>
     ELSE [own EXCEPT ![target].binding = binding]

\* resolveShortcutDefinitions, as a set: no reader depends on its order.
Resolved ==
  {s \in Range(Registry) : s.command \notin DOMAIN overrides}
    \cup UNION {Range(Replaced(c, overrides[c])) : c \in {d \in DOMAIN overrides : overrides[d] # None}}

\* matchesShortcutContext; the real elements a key can be pressed in.
Focus(editor, cell, tree, text) == [editor |-> editor, cell |-> cell, tree |-> tree, text |-> text]
Page == Focus(FALSE, FALSE, FALSE, FALSE)
Editor == Focus(TRUE, FALSE, FALSE, TRUE)
Cell == Focus(TRUE, TRUE, FALSE, TRUE)
Tree == Focus(FALSE, FALSE, TRUE, FALSE)
Renaming == Focus(FALSE, FALSE, TRUE, TRUE)
Foci == {Page, Editor, Cell, Tree, Renaming}

InContext(when, focus) ==
  \/ when = "always"
  \/ when = "editorFocus" /\ focus.editor
  \/ when = "fileTreeFocus" /\ focus.tree /\ ~focus.text
  \/ when = "tableCellFocus" /\ focus.cell

\* The ones with the highest priority.
Winners(shortcuts) == {s \in shortcuts : \A t \in shortcuts : t.priority <= s.priority}

\* A key press: what it types, the letter or digit of the physical key ("" for another key)
\* and the modifiers, which include an input method's composition.
Press(key, code, modifiers) == [key |-> key, code |-> code, modifiers |-> modifiers]

\* Mutant: a lower priority is in the way of a higher one.
MatchingAll(press, focus) ==
  {s \in Resolved : InContext(s.when, focus) /\ s.binding.modifiers = press.modifiers
                     /\ s.binding.key \in {press.key, press.code}}

\* resolveShortcutForKeyboardEvent: the shortcuts that match; one runs, several are a conflict.
Matching(press, focus) ==
  IF "composing" \in press.modifiers THEN {}
  ELSE Winners({s \in Resolved :
         /\ ("mod" \in press.modifiers) = ("mod" \in s.binding.modifiers)
         /\ InContext(s.when, focus)
         /\ \/ s.command = "view.zoomIn" /\ press.key \in {"+", "="} /\ "alt" \notin press.modifiers
            \/ /\ s.binding.key \in {press.key, press.code}
               /\ s.binding.modifiers = press.modifiers})

\* useAppShortcuts: the window runs a single match, unless the editor has it.
WindowRuns(press, focus) ==
  {s.command : s \in {t \in Matching(press, focus) :
      Cardinality(Matching(press, focus)) = 1 /\ ~(t.editorHandled /\ focus.editor)}}

\* findKeybindingConflicts looks at four contexts and groups equal bindings.
Reported(focus) ==
  LET here == {s \in Resolved : InContext(s.when, focus)}
      same(s) == Winners({t \in here : t.binding = s.binding})
  IN {[binding |-> s.binding, commands |-> {t.command : t \in same(s)}] : s \in {t \in here : Cardinality(same(t)) > 1}}

ReportedContexts ==
  {Page, Focus(TRUE, FALSE, FALSE, FALSE), Cell, Tree}

\* Mutant: the editor keeps the built-in bindings.
EditorBindsBuiltIn(binding) ==
  SelectSeq(EditorCommands, LAMBDA c : \E s \in Range(Registry) : s.command = c /\ s.binding = binding)

\* createEditorCommandBindings: the commands of the keymap bound to a key, in its order;
\* the first runs, and the window does not see the key.
EditorBinds(binding) ==
  LET bound == {s.command : s \in {t \in Resolved : t.binding = binding}}
  IN SelectSeq(EditorCommands, LAMBDA c : c \in bound)

EditorRuns(press, focus) ==
  IF ~focus.editor \/ focus.cell THEN {}
  ELSE LET bound == EditorBinds(Key(press.key, press.modifiers)) IN IF bound = <<>> THEN {} ELSE {bound[1]}

\* The commands of the native menu whose items show an accelerator, by submenu.
ApplicationMenu == {"app.settings", "app.quit", "app.newWindow", "file.newFile", "file.openFile", "file.save",
                    "file.saveAs", "file.close"}
EditMenu == {"edit.undo", "edit.redo", "edit.selectAll", "edit.find", "edit.findNext", "edit.findPrevious"}
ParagraphMenu == {"editor.insertTable", "format.mathBlock", "format.heading1", "format.heading2", "format.heading3",
                  "format.heading4", "format.heading5", "format.heading6"}
FormatMenu == {"format.bold", "format.italic", "format.underline", "format.link", "format.codeFence",
               "format.insertImage"}
ViewMenu == {"view.sourceCode", "view.liveEdit", "view.split", "view.preview", "view.toggleSidebar", "theme.light",
             "theme.dark", "caption.start", "view.resetZoom", "view.zoomIn", "view.zoomOut", "repository.syncNow"}
MenuCommands == ApplicationMenu \cup EditMenu \cup ParagraphMenu \cup FormatMenu \cup ViewMenu

\* Mutant: an accelerator is the built-in one.
BuiltInAccelerator(command) ==
  IF OfCommand(command) = <<>> THEN None ELSE OfCommand(command)[1].binding

\* effectiveAcceleratorForCommand: none for a command without a built-in one.
Accelerator(command) ==
  IF OfCommand(command) = <<>> THEN None
  ELSE IF command \in DOMAIN overrides THEN overrides[command] ELSE OfCommand(command)[1].binding

-----------------------------------------------------------------------------

\* The settings change.
Override(command, binding) ==
  /\ Cardinality(DOMAIN overrides \cup {command}) <= MaxOverrides
  /\ overrides' = [c \in DOMAIN overrides \cup {command} |-> IF c = command THEN binding ELSE overrides[c]]

RemoveOverride(command) ==
  /\ command \in DOMAIN overrides
  /\ overrides' = [c \in DOMAIN overrides \ {command} |-> overrides[c]]

Next == \E command \in Rebound :
  RemoveOverride(command) \/ \E binding \in Bindings \cup {None} : Override(command, binding)

Spec == Init /\ [][Next]_vars

-----------------------------------------------------------------------------

\* The presses of a keyboard whose letters are where the codes say, that type a bound key;
\* a shifted symbol types another one.
Letters == {"l", "d", "n", "q", "z", "y", "a", "o", "s", "w", "f", "g", "b", "i", "u", "k", "m", "t", "e", "p",
            "0", "1", "2", "3", "4", "5", "6"}

Typed(binding) ==
  IF binding.key \in Letters THEN Press(binding.key, binding.key, binding.modifiers)
  ELSE IF binding.key = "=" /\ "shift" \in binding.modifiers THEN Press("+", "", binding.modifiers)
  ELSE Press(binding.key, "", binding.modifiers)

\* A binding of a shifted symbol can be chosen, and no press matches it.
CanBeTyped(binding) == binding.key \in Letters \/ "shift" \notin binding.modifiers

BoundKeys == {s.binding : s \in Resolved}

TypeOK ==
  /\ DOMAIN overrides \subseteq Rebound /\ Cardinality(DOMAIN overrides) <= MaxOverrides
  /\ \A c \in DOMAIN overrides : overrides[c] \in Bindings \cup {None}

\* The bindings that collide when a key is pressed are exactly the ones the report of
\* conflicts names, in every place a key can be pressed; only the second key of zooming in,
\* which matches with and without Shift, is not reported (findKeybindingConflicts,
\* resolveShortcutForKeyboardEvent).
ConflictsAreReported ==
  /\ \A focus \in Foci, binding \in BoundKeys :
       LET hit == Matching(Typed(binding), focus) IN
       Cardinality(hit) > 1 /\ (\A s \in hit : s.command # "view.zoomIn") =>
         \E context \in ReportedContexts : [binding |-> binding, commands |-> {s.command : s \in hit}] \in Reported(context)
  /\ \A context \in ReportedContexts : \A r \in Reported(context) :
       CanBeTyped(r.binding) => {s.command : s \in Matching(Typed(r.binding), context)} = r.commands

\* A key that runs a command the editor keeps to itself also runs it there: nothing the window
\* leaves to the editor is lost, and nothing else is run by it instead, except on a key where
\* a command of the keymap collides with it (useAppShortcuts, createEditorCommandBindings).
EditorKeepsItsCommands ==
  \A binding \in BoundKeys :
    LET press == Typed(binding)  hit == Matching(press, Editor)
    IN \A s \in hit : s.editorHandled /\ Cardinality(hit) = 1 =>
         \/ EditorRuns(press, Editor) = {s.command}
         \/ Len(EditorBinds(binding)) > 1 /\ s.command \in Range(EditorBinds(binding))

\* The key a menu item shows is a key of its command: pressed in the window it runs the
\* command, or meets one of its conflicts (effectiveAcceleratorForCommand, useNativeAppMenu).
AcceleratorsRun ==
  \A command \in MenuCommands :
    LET shown == Accelerator(command) IN
    shown # None => (CanBeTyped(shown) =>
      \E focus \in Foci : command \in {s.command : s \in Matching(Typed(shown), focus)})
=============================================================================

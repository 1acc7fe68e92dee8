----------------------------- MODULE MCDesktop ------------------------------
(***************************************************************************)
(* The components of a desktop window that share nothing, and the library  *)
(* of the iOS reader, checked as one system: a behaviour is one of one of  *)
(* them.  Components use variables of the same name one at a time.         *)
(***************************************************************************)
EXTENDS Integers, FiniteSets, Sequences

CONSTANTS
  None, MaxFaults, MaxChanges,
  MaxZoom, Widths, MaxGestures,
  Documents, Limit,
  Configs, Stored, Queries, Forms, Memories, MaxActions, MaxMoves,
  Files, Texts, Sizes,
  Sources, Remote, Previews, Blocks, Concurrency, Pending, Units, Entries, MaxAsks,
  Places, ImageWidths, Viewport, Padding, MinScale, MaxScale, Points, MaxEvents,
  Rooms, DefaultWidth, MinWidth, Separator, EditorMin, SplitEditorMin, Step, MaxDrags,
  MaxMarks, MaxVisits,
  Words, Passages, MaxSelections, MaxLooks,
  MaxOverrides, MaxDeliveries

Key(k, m) == [key |-> k, modifiers |-> m]
Rebound == {"format.bold", "format.heading1", "edit.redo", "file.rename", "view.zoomIn"}
Bindings == {Key("b", {"mod"}), Key("1", {"mod"}), Key("s", {"mod"}), Key("=", {"mod"}), Key("=", {"mod", "shift"}),
             Key("f2", {}), Key("z", {"mod", "shift"})}
Ratios == {<<1, 2>>, <<4, 1>>}
SideMax == [side \in {"left", "right"} |-> IF side = "left" THEN 420 ELSE 400]
Distances == {-100, 0, 300}
Tabs == {<<"a", "x">>, <<"b", "x">>, <<"a", "y">>}
RootOf == [d \in Tabs |-> d[1]]
PathOf == [d \in Tabs |-> d[2]]
Books == {<<0, 1>>, <<0, 2>>}
Earlier == LET d == CHOOSE d \in Documents : TRUE  e == CHOOSE e \in Documents : e # d IN {<<>>, <<d>>, <<d, e>>}
First == {<<"a", "x">>, <<"b", "x">>}
Initial == [f \in Files |-> <<[align |-> "default", cells |-> <<"A", "a">>], [align |-> "default", cells |-> <<"B", "b">>]>>]

VARIABLES part, frame, changes, opening, wanted, pending, active, clicks, lost, faults, page, engine, past, actions, moves, jobs, view, drag, deliveries,
  zoom, left, canvas, window, zooming, anchored, settling, snapping, locked, unlocking, pinched, pane, asked,
  gestures,
  history, entries, repository, current, handlers, shown, leases,
  generation, session, tasks,
  file, texts, layout, future, widget, ui, refocus, given, edits,
  views, line, retained, completed, approved, asks,
  place, image, requests, width, fitted, dragged, gesture, recent, touch, pressed, untouched, kept, events,
  room, measured, split, prefers, held, css, drawer, unpainted, drags,
  stored, text, open, dirty, root, surface, insertions, sources, overdue, marks,
  version, selection, enabled, pressing, due, panel, favorite, lookups, translation, engines, idle, late,
  selections, looks, failures,
  overrides,
  store, made, calls, picker, inbox, drain, listening, notified, settled, behind

Zoom == INSTANCE AppZoom
Menu == INSTANCE NativeMenu
Context == INSTANCE ContextSession
Tables == INSTANCE TableEditing
Diagrams == INSTANCE Diagrams
Viewer == INSTANCE ImageViewer
Layout == INSTANCE WorkspaceLayout
Editing == INSTANCE EditorCommands WITH Documents <- Tabs, MaxMoves <- MaxVisits
Reads == INSTANCE Reading
Binding == INSTANCE Keybindings
Library == INSTANCE ReaderLibrary WITH MaxMoves <- MaxVisits

\* What the components assume of their constants.
ASSUME PartsAssumption ==
  /\ Zoom!ZoomAssumption /\ Menu!MenuAssumption /\ Context!ContextAssumption /\ Tables!TablesAssumption
  /\ Diagrams!DiagramsAssumption /\ Viewer!ViewerAssumption /\ Layout!LayoutAssumption
  /\ Editing!EditorAssumption /\ Reads!ReadingAssumption /\ Library!LibraryAssumption

zoomVars == <<zoom, left, canvas, window, zooming, anchored, settling, snapping, locked, unlocking, pinched, pane, asked,
  gestures>>
menuVars == <<history, entries, repository, current, handlers, shown, leases>>
contextVars == <<generation, session, tasks>>
tablesVars == <<file, texts, layout, future, widget, ui, refocus, given, edits>>
diagramsVars == <<views, line, retained, completed, approved, asks>>
viewerVars == <<place, image, requests, width, fitted, dragged, gesture, recent, touch, pressed, untouched, kept, events>>
layoutVars == <<room, measured, split, prefers, held, css, drawer, unpainted, drags>>
editorVars == <<stored, text, open, dirty, root, surface, insertions, sources, overdue, marks>>
readingVars == <<version, selection, enabled, pressing, due, panel, favorite, lookups, translation, engines, idle, late,
  selections, looks, failures>>
keysVars == <<overrides>>
libraryVars == <<store, made, calls, picker, inbox, drain, listening, notified, settled, behind>>
vars == <<part, frame, changes, opening, wanted, pending, active, clicks, lost, faults, page, engine, past, actions, moves, jobs, view, drag, deliveries, zoomVars, menuVars, contextVars, tablesVars, diagramsVars, viewerVars, layoutVars, editorVars, readingVars, keysVars, libraryVars>>

\* The variables of the component that runs.
state ==
  CASE part = "zoom" -> Zoom!vars
    [] part = "menu" -> Menu!vars
    [] part = "context" -> Context!vars
    [] part = "tables" -> Tables!vars
    [] part = "diagrams" -> Diagrams!vars
    [] part = "viewer" -> Viewer!vars
    [] part = "layout" -> Layout!vars
    [] part = "editor" -> Editing!vars
    [] part = "reading" -> Reads!vars
    [] part = "keys" -> Binding!vars
    [] part = "library" -> Library!vars

\* A component that is not the one of the behaviour.
zoomIdle ==
  /\ zoom = None /\ left = None /\ canvas = None /\ window = None /\ zooming = None /\ anchored = None
  /\ settling = None /\ snapping = None /\ locked = None /\ unlocking = None /\ pinched = None /\ pane = None
  /\ asked = None /\ gestures = None
menuIdle ==
  /\ history = None /\ entries = None /\ repository = None /\ current = None /\ handlers = None /\ shown = None
  /\ leases = None
contextIdle ==
  /\ generation = None /\ session = None /\ tasks = None
tablesIdle ==
  /\ file = None /\ texts = None /\ layout = None /\ future = None /\ widget = None /\ ui = None
  /\ refocus = None /\ given = None /\ edits = None
diagramsIdle ==
  /\ views = None /\ line = None /\ retained = None /\ completed = None /\ approved = None /\ asks = None
viewerIdle ==
  /\ place = None /\ image = None /\ requests = None /\ width = None /\ fitted = None /\ dragged = None
  /\ gesture = None /\ recent = None /\ touch = None /\ pressed = None /\ untouched = None /\ kept = None
  /\ events = None
layoutIdle ==
  /\ room = None /\ measured = None /\ split = None /\ prefers = None /\ held = None /\ css = None
  /\ drawer = None /\ unpainted = None /\ drags = None
editorIdle ==
  /\ stored = None /\ text = None /\ open = None /\ dirty = None /\ root = None /\ surface = None
  /\ insertions = None /\ sources = None /\ overdue = None /\ marks = None
readingIdle ==
  /\ version = None /\ selection = None /\ enabled = None /\ pressing = None /\ due = None /\ panel = None
  /\ favorite = None /\ lookups = None /\ translation = None /\ engines = None /\ idle = None /\ late = None
  /\ selections = None /\ looks = None /\ failures = None
keysIdle ==
  /\ overrides = None
libraryIdle ==
  /\ store = None /\ made = None /\ calls = None /\ picker = None /\ inbox = None /\ drain = None
  /\ listening = None /\ notified = None /\ settled = None /\ behind = None

Init ==
  \/ part = "zoom" /\ Zoom!Init /\ opening = None /\ wanted = None /\ pending = None /\ active = None /\ clicks = None /\ lost = None /\ faults = None /\ page = None /\ engine = None /\ past = None /\ actions = None /\ moves = None /\ jobs = None /\ view = None /\ drag = None /\ deliveries = None /\ menuIdle /\ contextIdle /\ tablesIdle /\ diagramsIdle /\ viewerIdle /\ layoutIdle /\ editorIdle /\ readingIdle /\ keysIdle /\ libraryIdle
  \/ part = "menu" /\ Menu!Init /\ frame = None /\ page = None /\ engine = None /\ past = None /\ actions = None /\ moves = None /\ jobs = None /\ view = None /\ drag = None /\ deliveries = None /\ zoomIdle /\ contextIdle /\ tablesIdle /\ diagramsIdle /\ viewerIdle /\ layoutIdle /\ editorIdle /\ readingIdle /\ keysIdle /\ libraryIdle
  \/ part = "context" /\ Context!Init /\ frame = None /\ changes = None /\ opening = None /\ wanted = None /\ pending = None /\ active = None /\ clicks = None /\ lost = None /\ jobs = None /\ view = None /\ drag = None /\ deliveries = None /\ zoomIdle /\ menuIdle /\ tablesIdle /\ diagramsIdle /\ viewerIdle /\ layoutIdle /\ editorIdle /\ readingIdle /\ keysIdle /\ libraryIdle
  \/ part = "tables" /\ Tables!Init /\ frame = None /\ changes = None /\ opening = None /\ wanted = None /\ pending = None /\ active = None /\ clicks = None /\ faults = None /\ page = None /\ engine = None /\ moves = None /\ jobs = None /\ view = None /\ drag = None /\ deliveries = None /\ zoomIdle /\ menuIdle /\ contextIdle /\ diagramsIdle /\ viewerIdle /\ layoutIdle /\ editorIdle /\ readingIdle /\ keysIdle /\ libraryIdle
  \/ part = "diagrams" /\ Diagrams!Init /\ frame = None /\ changes = None /\ opening = None /\ wanted = None /\ clicks = None /\ lost = None /\ page = None /\ engine = None /\ past = None /\ actions = None /\ moves = None /\ view = None /\ drag = None /\ deliveries = None /\ zoomIdle /\ menuIdle /\ contextIdle /\ tablesIdle /\ viewerIdle /\ layoutIdle /\ editorIdle /\ readingIdle /\ keysIdle /\ libraryIdle
  \/ part = "viewer" /\ Viewer!Init /\ frame = None /\ changes = None /\ opening = None /\ pending = None /\ active = None /\ clicks = None /\ lost = None /\ faults = None /\ page = None /\ engine = None /\ past = None /\ actions = None /\ moves = None /\ jobs = None /\ deliveries = None /\ zoomIdle /\ menuIdle /\ contextIdle /\ tablesIdle /\ diagramsIdle /\ layoutIdle /\ editorIdle /\ readingIdle /\ keysIdle /\ libraryIdle
  \/ part = "layout" /\ Layout!Init /\ changes = None /\ opening = None /\ wanted = None /\ pending = None /\ active = None /\ clicks = None /\ lost = None /\ faults = None /\ page = None /\ engine = None /\ past = None /\ actions = None /\ moves = None /\ jobs = None /\ view = None /\ deliveries = None /\ zoomIdle /\ menuIdle /\ contextIdle /\ tablesIdle /\ diagramsIdle /\ viewerIdle /\ editorIdle /\ readingIdle /\ keysIdle /\ libraryIdle
  \/ part = "editor" /\ Editing!Init /\ frame = None /\ changes = None /\ wanted = None /\ clicks = None /\ lost = None /\ page = None /\ engine = None /\ past = None /\ actions = None /\ jobs = None /\ drag = None /\ deliveries = None /\ zoomIdle /\ menuIdle /\ contextIdle /\ tablesIdle /\ diagramsIdle /\ viewerIdle /\ layoutIdle /\ readingIdle /\ keysIdle /\ libraryIdle
  \/ part = "reading" /\ Reads!Init /\ frame = None /\ changes = None /\ opening = None /\ wanted = None /\ pending = None /\ active = None /\ clicks = None /\ lost = None /\ faults = None /\ page = None /\ past = None /\ actions = None /\ moves = None /\ view = None /\ drag = None /\ zoomIdle /\ menuIdle /\ contextIdle /\ tablesIdle /\ diagramsIdle /\ viewerIdle /\ layoutIdle /\ editorIdle /\ keysIdle /\ libraryIdle
  \/ part = "keys" /\ Binding!Init /\ frame = None /\ changes = None /\ opening = None /\ wanted = None /\ pending = None /\ active = None /\ clicks = None /\ lost = None /\ faults = None /\ page = None /\ engine = None /\ past = None /\ actions = None /\ moves = None /\ jobs = None /\ view = None /\ drag = None /\ deliveries = None /\ zoomIdle /\ menuIdle /\ contextIdle /\ tablesIdle /\ diagramsIdle /\ viewerIdle /\ layoutIdle /\ editorIdle /\ readingIdle /\ libraryIdle
  \/ part = "library" /\ Library!Init /\ frame = None /\ changes = None /\ opening = None /\ wanted = None /\ pending = None /\ active = None /\ lost = None /\ engine = None /\ past = None /\ actions = None /\ moves = None /\ jobs = None /\ view = None /\ drag = None /\ zoomIdle /\ menuIdle /\ contextIdle /\ tablesIdle /\ diagramsIdle /\ viewerIdle /\ layoutIdle /\ editorIdle /\ readingIdle /\ keysIdle

Next ==
  \/ part = "zoom" /\ Zoom!Next /\ UNCHANGED <<part, opening, wanted, pending, active, clicks, lost, faults, page, engine, past, actions, moves, jobs, view, drag, deliveries, menuVars, contextVars, tablesVars, diagramsVars, viewerVars, layoutVars, editorVars, readingVars, keysVars, libraryVars>>
  \/ part = "menu" /\ Menu!Next /\ UNCHANGED <<part, frame, page, engine, past, actions, moves, jobs, view, drag, deliveries, zoomVars, contextVars, tablesVars, diagramsVars, viewerVars, layoutVars, editorVars, readingVars, keysVars, libraryVars>>
  \/ part = "context" /\ Context!Next /\ UNCHANGED <<part, frame, changes, opening, wanted, pending, active, clicks, lost, jobs, view, drag, deliveries, zoomVars, menuVars, tablesVars, diagramsVars, viewerVars, layoutVars, editorVars, readingVars, keysVars, libraryVars>>
  \/ part = "tables" /\ Tables!Next /\ UNCHANGED <<part, frame, changes, opening, wanted, pending, active, clicks, faults, page, engine, moves, jobs, view, drag, deliveries, zoomVars, menuVars, contextVars, diagramsVars, viewerVars, layoutVars, editorVars, readingVars, keysVars, libraryVars>>
  \/ part = "diagrams" /\ Diagrams!Next /\ UNCHANGED <<part, frame, changes, opening, wanted, clicks, lost, page, engine, past, actions, moves, view, drag, deliveries, zoomVars, menuVars, contextVars, tablesVars, viewerVars, layoutVars, editorVars, readingVars, keysVars, libraryVars>>
  \/ part = "viewer" /\ Viewer!Next /\ UNCHANGED <<part, frame, changes, opening, pending, active, clicks, lost, faults, page, engine, past, actions, moves, jobs, deliveries, zoomVars, menuVars, contextVars, tablesVars, diagramsVars, layoutVars, editorVars, readingVars, keysVars, libraryVars>>
  \/ part = "layout" /\ Layout!Next /\ UNCHANGED <<part, changes, opening, wanted, pending, active, clicks, lost, faults, page, engine, past, actions, moves, jobs, view, deliveries, zoomVars, menuVars, contextVars, tablesVars, diagramsVars, viewerVars, editorVars, readingVars, keysVars, libraryVars>>
  \/ part = "editor" /\ Editing!Next /\ UNCHANGED <<part, frame, changes, wanted, clicks, lost, page, engine, past, actions, jobs, drag, deliveries, zoomVars, menuVars, contextVars, tablesVars, diagramsVars, viewerVars, layoutVars, readingVars, keysVars, libraryVars>>
  \/ part = "reading" /\ Reads!Next /\ UNCHANGED <<part, frame, changes, opening, wanted, pending, active, clicks, lost, faults, page, past, actions, moves, view, drag, zoomVars, menuVars, contextVars, tablesVars, diagramsVars, viewerVars, layoutVars, editorVars, keysVars, libraryVars>>
  \/ part = "keys" /\ Binding!Next /\ UNCHANGED <<part, frame, changes, opening, wanted, pending, active, clicks, lost, faults, page, engine, past, actions, moves, jobs, view, drag, deliveries, zoomVars, menuVars, contextVars, tablesVars, diagramsVars, viewerVars, layoutVars, editorVars, readingVars, libraryVars>>
  \/ part = "library" /\ Library!Next /\ UNCHANGED <<part, frame, changes, opening, wanted, pending, active, lost, engine, past, actions, moves, jobs, view, drag, zoomVars, menuVars, contextVars, tablesVars, diagramsVars, viewerVars, layoutVars, editorVars, readingVars, keysVars>>

Of(name, A) == part = name /\ A /\ UNCHANGED part

\* What is owed to the window: frames, timers, and the answers of calls and of the event loop.  The steps
\* of a component never run out of turns, whichever of them it is that comes.
Owed ==
  \/ Of("zoom", Zoom!ShowFrame \/ Zoom!Settle \/ Zoom!Unlock \/ Zoom!PinchPasses \/ Zoom!LockPasses)
  \/ Of("menu", Menu!Refresh \/ Menu!Render \/ Menu!Opened \/ Menu!Take \/ Menu!Build \/ Menu!Install
                   \/ Menu!Activate \/ Menu!Close \/ \E click \in clicks : Menu!Deliver(click))
  \/ Of("context", Context!Answering)
  \/ Of("tables", Tables!Frame)
  \/ Of("diagrams", Diagrams!Engine_ \/ \E c \in Blocks : Diagrams!Idle(c))
  \/ Of("viewer", \E p \in Places : Viewer!Resolved(p))
  \/ Of("layout", Layout!Measure \/ Layout!Paint)
  \/ Of("editor", Editing!Answered)
  \/ Of("reading", Reads!Served)
  \/ Of("library", Library!Served)

\* An animation comes to its end.
Ends == Of("zoom", Zoom!Snap /\ ~snapping')

FairSpec ==
  /\ Init /\ [][Next]_vars
  /\ WF_state(Owed) /\ WF_state(Ends)

-----------------------------------------------------------------------------

\* At rest the zoom is one the user may keep, normal zoom is untranslated, no text is held and
\* nothing a gesture left behind is shown after a command (settleZoomAfterGesture, runAppZoomCommand);
\* a click opens what the menu showed when it was clicked, or nothing; the installer at rest holds
\* no menu it built and did not install; a menu offers no hidden command (NativeMenuInstaller).
InputIsSound ==
  /\ part = "zoom" => Zoom!TypeOK /\ Zoom!RestIsCommitted /\ Zoom!CommandsStay
  /\ part = "menu" => Menu!TypeOK /\ Menu!ClicksOpenWhatIsShown /\ Menu!LeasesAreClosed /\ Menu!ItemsAreVisible

\* The Context page is busy exactly while something runs, shows the stored configuration and the results
\* of its query, and captures a card once however often it is retried (useContextOsSession), unless the
\* page forgot its attempt when an earlier capture was acknowledged late (past.forgotten).
ContextIsSound == part = "context" => Context!ContextIsSound

\* The widget of a table always shows the table of the document, and what is focused, selected,
\* dragged or in a menu is part of it (tableInteractionDom); nothing of a document gets into another
\* one but an image, which goes into the one that is shown when its copy has ended, and the editor jumps to a source as soon as it shows it (App); the panel of a word shows what was
\* found for it and whether it is kept, and one engine translates (useVocabReading, offlineTranslation);
\* the keys that collide are the ones the report of conflicts names, a command the window leaves to the
\* editor runs there, and the key a menu shows is a key of its command (keybindingResolver).
TextsAreSound ==
  /\ part = "tables" => Tables!TypeOK /\ Tables!WidgetIsCurrent
  /\ part = "editor" => Editing!EditorIsSound
  /\ part = "reading" => Reads!ReadingIsSound
  /\ part = "keys" => Binding!TypeOK /\ Binding!ConflictsAreReported /\ Binding!EditorKeepsItsCommands /\ Binding!AcceleratorsRun

\* A queue of renders counts what it holds, whoever waits is served the diagram of its own source, equal
\* previews share a render, and only what was approved leaves the computer (diagramRenderCache); an image
\* is the one of its document and is zoomed about the point under the gesture (ImageViewer); and the sidebars
\* leave the editor its room and the screen shows them as they are, but after a drag that ended where it
\* began, which leaves the width that was painted last (useWorkspaceResize).
ViewsAreSound ==
  /\ part = "diagrams" => Diagrams!DiagramsAreSound
  /\ part = "viewer" => Viewer!ViewerIsSound
  /\ part = "layout" => Layout!LayoutIsSound
  /\ part = "library" => Library!TypeOK

\* A held pane stays where it is held while a gesture lasts;
\* a change of a table keeps the drafts of its cells, its body and the widths of its columns, but that of
\* the last column when another is put behind it; no drag
\* closes an image; a new width of a sidebar leaves the other one alone, a click on its button is seen;
\* no reading of a file replaces what is typed in a tab meanwhile, and of the images only one that comes
\* back without an editor does; and a document the system opens
\* in the reader leaves the inbox when it was shown, and only what was asked for last is (ReaderApp).
StepsAreSound ==
  [][/\ part = "zoom" /\ Zoom!Frozen /\ pane.held # None /\ pane'.held # None => pane'.at = pane.held /\ pane'.held = pane.held
     /\ part = "tables" => Tables!StepsAreSound
     /\ part = "viewer" => Viewer!ClosesByClick
     /\ part = "layout" => Layout!OtherSideStays /\ Layout!ToggleIsSeen
     /\ part = "editor" => Editing!EditorStepsAreSound
     /\ part = "library" => Library!ReaderStepsAreSound]_vars

\* Every gesture comes to rest, the menu catches up with what it shows, and no page
\* stays busy, whatever fails; the reader shows what the system opened.
WindowSettles == <>[](CASE part = "zoom" -> ~Zoom!Gesturing /\ ~unlocking /\ ~locked
  [] part = "keys" -> TRUE
  [] part = "menu" -> lost \/ (shown # None /\ shown.content = Menu!Content)
  [] part = "editor" -> Editing!Rests
  [] part = "reading" -> Reads!Rests
  [] part = "library" -> Library!Rests
  [] part = "context" -> ~session.mutating /\ ~session.loading
  [] part = "tables" -> refocus = None
  [] part = "diagrams" -> \A c \in Diagrams!Consumers : views[c].mode \notin {"waiting", "due"}
  [] part = "viewer" -> image.status # "loading"
  [] part = "layout" -> measured = room /\ ~frame)
=============================================================================

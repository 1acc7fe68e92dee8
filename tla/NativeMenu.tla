----------------------------- MODULE NativeMenu -----------------------------
(***************************************************************************)
(* The native menu of a window and the recent documents it shows.  Every     *)
(* change of what the menu shows asks for a new menu; an installer builds    *)
(* one menu at a time and keeps the newest request.  A click is looked up    *)
(* in the native menu and reaches the window later.                          *)
(*                                                                         *)
(* Of a menu the model keeps the list of recent documents, the state of the  *)
(* repository commands and whether a document is opening.  The history is    *)
(* shared with the other windows, which are one environment.                 *)
(***************************************************************************)
EXTENDS Integers, Sequences, FiniteSets, Functions

CONSTANTS
  Documents,   \* paths of documents
  Earlier,     \* the histories earlier runs may have left
  Limit,       \* entries kept: 20 in the code
  None,        \* no menu, no installation, no document
  MaxChanges,  \* bound on what users and other windows do
  MaxFaults    \* bound on native calls that fail

Histories == UNION {{h \in [1..n -> Documents] : IsInjective(h)} : n \in 0..Limit}

VARIABLES
  history,     \* the recent documents in the local storage, newest first
  entries,     \* what the window last read of them
  repository,  \* the repository state of the window's command context
  opening,     \* the document being opened from the menu
  wanted,      \* the installation the last effect asked for
  pending,     \* the installer's pending installation
  current,     \* the installation in hand: its phase and what it has built
  handlers,    \* the native menu's handlers: of each bank, the menu that set them last
  shown,       \* the native menu that is installed
  active,      \* the menu whose entries may open
  leases,      \* native handles the window has not closed
  clicks,      \* clicks on their way to the window
  lost,        \* (history) the last installation failed
  changes, faults

vars == <<history, entries, repository, opening, wanted, pending, current, handlers, shown, active,
          leases, clicks, lost, changes, faults>>

Banks == 0..1

-----------------------------------------------------------------------------

\* CommandRuntimeContext, as far as the repository commands read it.
Contexts == [connected : BOOLEAN, linked : BOOLEAN, busy : BOOLEAN, cleanup : BOOLEAN]
RepositoryCommands == {"connect", "disconnect", "link", "sync"}

\* What a menu shows, the menus, and the installations in hand.
Contents == [entries : Histories, busy : BOOLEAN, repository : Contexts]
Menus == [bank : Banks, entries : Histories, content : Contents]
Installations ==
  [content : Contents, phase : {"building", "built", "installed", "closing"}, bank : Banks \cup {None},
   previous : Menus \cup {None}, cancelled : BOOLEAN]

MenuAssumption ==
  /\ Earlier \subseteq Histories /\ Limit \in Nat \ {0} /\ MaxChanges \in Nat /\ MaxFaults \in Nat
  /\ None \notin Menus /\ None \notin Installations

\* getCommandState
Visible(command, context) ==
  IF context.cleanup THEN command = "disconnect"
  ELSE CASE command = "connect" -> ~context.connected
         [] command = "sync" -> context.linked
         [] OTHER -> context.connected

Enabled(command, context) == Visible(command, context) /\ ~context.busy

\* Mutant: a linked workspace shows its items without asking for the account.
RepositoryItemsLinked(context) ==
  IF context.cleanup THEN {"disconnect"}
  ELSE IF context.linked THEN {"sync", "disconnect"} ELSE IF context.connected THEN {"link"} ELSE {"connect"}

\* repositoryMenuItems
RepositoryItems(context) ==
  IF context.cleanup THEN {"disconnect"}
  ELSE IF ~context.connected THEN {"connect"}
  ELSE IF ~context.linked THEN {"link"} ELSE {"sync"}

\* What the effect of useNativeAppMenu depends on, and shows.
Content == [entries |-> entries, busy |-> opening # None, repository |-> repository]

-----------------------------------------------------------------------------

Init ==
  /\ history \in Earlier /\ entries = history
  /\ repository = [connected |-> FALSE, linked |-> FALSE, busy |-> FALSE, cleanup |-> FALSE]
  /\ opening = None /\ wanted = None /\ pending = None /\ current = None
  /\ handlers = [b \in Banks |-> None] /\ shown = None /\ active = None
  /\ leases = {} /\ clicks = {} /\ lost = FALSE
  /\ changes = MaxChanges /\ faults = MaxFaults

installer == <<pending, current, handlers, shown, active, leases, lost>>
Change == changes > 0 /\ changes' = changes - 1
SameBounds == UNCHANGED <<changes, faults>>

\* RecentDocumentStore.record, remove and clear, through parseRecentDocuments: a document has one entry.
Removed(h, d) ==
  IF d \notin Range(h) THEN h
  ELSE [i \in 1..(Len(h) - 1) |-> IF \E j \in 1..i : h[j] = d THEN h[i + 1] ELSE h[i]]
Recorded(h, d) ==
  LET all == <<d>> \o Removed(h, d) IN SubSeq(all, 1, IF Len(all) > Limit THEN Limit ELSE Len(all))

\* Another window opens, deletes or clears documents; this window reads the history later.
OtherWindow ==
  /\ Change
  /\ history' \in {Recorded(history, d) : d \in Documents} \cup {Removed(history, d) : d \in Documents} \cup {<<>>}
  /\ UNCHANGED <<entries, repository, opening, wanted, installer, clicks, faults>>

\* The storage event.
Refresh ==
  /\ entries # history /\ entries' = history
  /\ SameBounds /\ UNCHANGED <<history, repository, opening, wanted, installer, clicks>>

\* The repository workflow changes the command context.
RepositoryChanges ==
  /\ Change
  /\ repository' \in {c \in Contexts : (c.linked => c.connected) /\ (c.cleanup => ~c.connected)} \ {repository}
  /\ UNCHANGED <<history, entries, opening, wanted, installer, clicks, faults>>

\* The effect: the last request is cancelled and a new one becomes the pending one.
Render ==
  /\ wanted # Content
  /\ wanted' = Content /\ pending' = Content
  /\ current' = IF current = None THEN None ELSE [current EXCEPT !.cancelled = TRUE]
  /\ SameBounds
  /\ UNCHANGED <<history, entries, repository, opening, handlers, shown, active, leases, clicks, lost>>

\* Mutant: the installer stops after the request it started with.
TakeFirst ==
  /\ pending # None /\ current = None /\ shown = None
  /\ current' = [content |-> pending, phase |-> "building", bank |-> None, previous |-> None, cancelled |-> FALSE]
  /\ pending' = None /\ lost' = FALSE
  /\ SameBounds /\ UNCHANGED <<history, entries, repository, opening, wanted, handlers, shown, active, leases, clicks>>

\* NativeMenuInstaller.drain takes the pending request.
Take ==
  /\ pending # None /\ current = None
  /\ current' = [content |-> pending, phase |-> "building", bank |-> None, previous |-> None, cancelled |-> FALSE]
  /\ pending' = None /\ lost' = FALSE
  /\ SameBounds /\ UNCHANGED <<history, entries, repository, opening, wanted, handlers, shown, active, leases, clicks>>

\* Mutant: the entries of every menu have the same identifiers.
BankOne == 0

\* RecentMenuActions.prepare: the bank the active menu does not use.
Bank == IF active # None /\ active.bank = 0 THEN 1 ELSE 0

\* create: the entries' handlers are in place when the menu is built.
Build ==
  /\ current # None /\ current.phase = "building"
  /\ LET menu == [bank |-> Bank, entries |-> current.content.entries, content |-> current.content]
     IN /\ handlers' = [handlers EXCEPT ![menu.bank] = menu]
        /\ leases' = leases \cup {menu}
        /\ current' = [current EXCEPT !.phase = IF current.cancelled THEN "closing" ELSE "built", !.bank = menu.bank]
  /\ SameBounds /\ UNCHANGED <<history, entries, repository, opening, wanted, pending, shown, active, clicks, lost>>

Menu == [bank |-> current.bank, entries |-> current.content.entries, content |-> current.content]

\* setAsAppMenu: the native side shows the menu and returns a handle of the previous one.
Install ==
  /\ current # None /\ current.phase = "built"
  /\ shown' = Menu
  /\ leases' = IF shown = None THEN leases ELSE leases \cup {shown}
  /\ current' = [current EXCEPT !.phase = "installed", !.previous = shown]
  /\ SameBounds /\ UNCHANGED <<history, entries, repository, opening, wanted, pending, handlers, active, clicks, lost>>

\* activate, and the previous menu is closed.
Activate ==
  /\ current # None /\ current.phase = "installed"
  /\ active' = Menu
  /\ leases' = leases \ {current.previous}
  /\ current' = [current EXCEPT !.phase = "closing"]
  /\ SameBounds /\ UNCHANGED <<history, entries, repository, opening, wanted, pending, handlers, shown, clicks, lost>>

\* Mutant: only a menu that was installed is closed.
CloseInstalled ==
  /\ current # None /\ current.phase = "closing"
  /\ leases' = IF current.cancelled THEN leases ELSE leases \ {Menu}
  /\ current' = None
  /\ SameBounds /\ UNCHANGED <<history, entries, repository, opening, wanted, pending, handlers, shown, active, clicks, lost>>

\* finally: whatever became of it, the menu's own handle is closed.
Close ==
  /\ current # None /\ current.phase = "closing"
  /\ leases' = leases \ {Menu}
  /\ current' = None
  /\ SameBounds /\ UNCHANGED <<history, entries, repository, opening, wanted, pending, handlers, shown, active, clicks, lost>>

\* Building fails, before or after its handlers are in place, or the native side refuses the menu.
Fail ==
  /\ faults > 0 /\ faults' = faults - 1
  /\ current # None /\ lost' = TRUE
  /\ \/ current.phase = "building" /\ current' = None /\ UNCHANGED handlers
     \/ /\ current.phase = "building" /\ current' = None
        /\ handlers' = [handlers EXCEPT ![Bank] = [bank |-> Bank, entries |-> current.content.entries, content |-> current.content]]
     \/ current.phase = "built" /\ current' = [current EXCEPT !.phase = "closing"] /\ UNCHANGED handlers
  /\ UNCHANGED <<history, entries, repository, opening, wanted, pending, shown, active, leases, clicks, changes>>

-----------------------------------------------------------------------------

\* A click on an entry of the menu that is shown: the native side finds the handler.
Click(i) ==
  /\ Change
  /\ shown # None /\ i \in DOMAIN shown.entries /\ ~shown.content.busy
  /\ LET menu == handlers[shown.bank]
     IN clicks' = IF i \in DOMAIN menu.entries
                  THEN clicks \cup {[menu |-> menu, path |-> menu.entries[i], meant |-> shown.entries[i]]} ELSE clicks
  /\ UNCHANGED <<history, entries, repository, opening, wanted, installer, faults>>

\* The handler: only an entry of the active menu that is still in the history opens.
Deliver(click) ==
  /\ clicks' = clicks \ {click}
  /\ opening' = IF active = click.menu /\ opening = None /\ click.path \in Range(history) THEN click.path ELSE opening
  /\ SameBounds /\ UNCHANGED <<history, entries, repository, wanted, installer>>

\* The session has opened the document and recorded it, or could not.
Opened ==
  /\ opening # None /\ opening' = None
  /\ \/ history' = Recorded(history, opening) /\ entries' = history'
     \/ UNCHANGED <<history, entries>>
  /\ SameBounds /\ UNCHANGED <<repository, wanted, installer, clicks>>

\* Clear Recent: not while a document is opening.
Clear ==
  /\ Change
  /\ shown # None /\ shown.entries # <<>> /\ ~shown.content.busy
  /\ IF opening = None THEN history' = <<>> /\ entries' = <<>> ELSE UNCHANGED <<history, entries>>
  /\ UNCHANGED <<repository, opening, wanted, installer, clicks, faults>>

\* A repository item of the menu shown: the command is checked against the context again.
Command(command) ==
  /\ Change
  /\ shown # None /\ command \in RepositoryItems(shown.content.repository)
  /\ Enabled(command, shown.content.repository)
  /\ repository' = IF Enabled(command, repository) THEN [repository EXCEPT !.busy = TRUE] ELSE repository
  /\ UNCHANGED <<history, entries, opening, wanted, installer, clicks, faults>>

Installer == Take \/ Build \/ Install \/ Activate \/ Close \/ Fail

User == (\E i \in 1..Limit : Click(i)) \/ Clear \/ (\E c \in RepositoryCommands : Command(c))

Quiet ==
  /\ wanted = Content /\ pending = None /\ current = None /\ clicks = {} /\ opening = None /\ entries = history
  /\ UNCHANGED vars

Next ==
  \/ User \/ OtherWindow \/ RepositoryChanges
  \/ Refresh \/ Render \/ Installer \/ Opened
  \/ \E click \in clicks : Deliver(click)
  \/ Quiet

Spec == Init /\ [][Next]_vars

\* The window handles its events, renders and awaits calls that answer.
FairSpec ==
  /\ Spec
  /\ WF_vars(Refresh) /\ WF_vars(Render) /\ WF_vars(Opened)
  /\ WF_vars(Take) /\ WF_vars(Build) /\ WF_vars(Install) /\ WF_vars(Activate) /\ WF_vars(Close)
  /\ WF_vars(\E click \in clicks : Deliver(click))

-----------------------------------------------------------------------------

TypeOK ==
  /\ history \in Histories /\ entries \in Histories /\ repository \in Contexts
  /\ opening \in Documents \cup {None} /\ leases \subseteq {m \in {handlers[0], handlers[1], shown} \cup leases : m # None}
  /\ Cardinality(leases) <= 2 /\ lost \in BOOLEAN

\* A click opens the document the menu showed when it was clicked, or nothing: menus that are
\* being built while the menu is open never retarget its entries (RecentMenuActions).
ClicksOpenWhatIsShown == \A click \in clicks : active = click.menu => click.path = click.meant

\* The installer at rest holds no native handle: every menu it built, installed, cancelled or
\* failed with is closed, and so is every menu that was replaced (NativeMenuInstaller).
LeasesAreClosed == current = None => leases = {}

\* The repository menu offers only commands that the command state shows as visible, in every
\* context (repositoryMenuItems, getCommandState).
ItemsAreVisible == \A c \in RepositoryItems(repository) : Visible(c, repository)

\* The menu catches up with the window: what is shown at last is what the last effect wanted,
\* unless the last installation failed, which nothing repeats (NativeMenuInstaller.replace).
MenuCatchesUp == <>[](lost \/ (shown # None /\ shown.content = Content))
=============================================================================

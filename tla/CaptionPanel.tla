----------------------------- MODULE CaptionPanel -----------------------------
(***************************************************************************)
(* The window of Live Caption, which asks for what it shows again and again   *)
(* (CaptionPanel), and the commands it gives (captionCommands).             *)
(*                                                                         *)
(* The service that captures is LiveCaption: here it is what it answers.     *)
(***************************************************************************)
EXTENDS Naturals, FiniteSets

CONSTANTS
  None, Sources,
  MaxClicks, MaxFaults          \* bounds on what is clicked, and on what fails

PanelAssumption == None \notin Nat \cup Sources /\ Sources # {} /\ {MaxClicks, MaxFaults} \subseteq Nat

\* Sessions are numbered as they begin; one is stored at first.
Sessions == 1..(MaxClicks + 2)

VARIABLES
  service,                      \* sessions stored, the one of now, whether it captures, what the window was asked to show
  preferred,                    \* source of the settings
  page,                         \* what the window was told and what is selected in it
  poll,                         \* the poll that runs
  rows,                         \* whose segments are shown
  fresh,                        \* ghost: a poll came back for what is selected
  tasks,                        \* commands under way
  unguarded, contested,         \* ghosts: a form was sent while a command ran, a start or stop met a change of source
  clicks, faults

vars == <<service, preferred, page, poll, rows, fresh, tasks, unguarded, contested, clicks, faults>>

Clicks == clicks > 0 /\ clicks' = clicks - 1
Fails == faults > 0 /\ faults' = faults - 1

-----------------------------------------------------------------------------
(* CaptionPanel: polling *)

Idle == [step |-> "live", status |-> None, rows |-> None, list |-> {}]

\* What decides what a poll asks for: another one begins when it changes, and the old one is disposed.
Wanted(p) == [selected |-> p.selected, history |-> p.history, after |-> p.after]

\* Mutant: a poll that was begun for something else goes on.
RepollNever == fresh' = (fresh /\ Wanted(page') = Wanted(page)) /\ UNCHANGED poll

Repoll == IF Wanted(page') = Wanted(page) THEN UNCHANGED <<poll, fresh>> ELSE poll' = Idle /\ fresh' = FALSE

Polled(p) ==
  /\ poll' = p
  /\ UNCHANGED <<service, preferred, page, rows, fresh, tasks, unguarded, contested, clicks, faults>>

Listing == IF page.history THEN "list" ELSE "apply"

\* The status, with the segments of the session of now; then those of the session that is selected; then
\* the list of the history.
ReadLive ==
  /\ poll.step = "live"
  /\ Polled([poll EXCEPT !.step = IF page.selected = None THEN Listing ELSE "rows", !.status = service, !.rows = service.session])
ReadRows == poll.step = "rows" /\ Polled([poll EXCEPT !.step = Listing, !.rows = page.selected])
ReadList == poll.step = "list" /\ Polled([poll EXCEPT !.step = "apply", !.list = service.sessions])

\* What was read is shown; a window that was asked for since begins anew, with what the next poll reads.
Apply ==
  /\ poll.step = "apply"
  /\ rows' = poll.rows
  /\ LET told == [page EXCEPT !.status = poll.status, !.list = IF page.history THEN poll.list ELSE @]
     IN page' = IF poll.status.revision = page.revision THEN told
                ELSE [told EXCEPT !.revision = poll.status.revision, !.history = poll.status.history, !.selected = None, !.after = None]
  /\ poll' = Idle /\ fresh' = (Wanted(page') = Wanted(page))
  /\ UNCHANGED <<service, preferred, tasks, unguarded, contested, clicks, faults>>

PollFails == Fails /\ poll # Idle /\ poll' = Idle /\ UNCHANGED <<service, preferred, page, rows, fresh, tasks, unguarded, contested, clicks>>

-----------------------------------------------------------------------------
(* CaptionPanel: what the user does *)

Goes(p) == page' = p /\ Repoll /\ UNCHANGED <<service, preferred, rows, tasks, unguarded, contested, faults>>

Free == ~page.busy

ToggleHistory == Clicks /\ ~page.busy /\ Goes([page EXCEPT !.history = ~@, !.selected = None])
Back == Clicks /\ ~page.busy /\ page.selected # None /\ Goes([page EXCEPT !.selected = None])

\* The list is the one of an earlier poll: a session in it may be deleted by now.
Select(s) ==
  Clicks /\ page.history /\ page.selected = None /\ s \in page.list /\ Goes([page EXCEPT !.selected = s, !.after = None])

\* After a full page, of whatever session is shown; and back to the first one.
NextPage == Clicks /\ page.selected # None /\ rows # None /\ Goes([page EXCEPT !.after = rows])
FirstPage == Clicks /\ page.selected # None /\ page.after # None /\ Goes([page EXCEPT !.after = None])

\* perform: buttons wait for the command before; a form and the folder of recordings do not.
Perform(kind, step, of) ==
  /\ Clicks /\ page' = [page EXCEPT !.busy = TRUE]
  /\ tasks' = tasks \cup {[kind |-> kind, step |-> step, of |-> of, found |-> None, id |-> clicks]}
  /\ contested' = (contested \/ tasks # {})
  /\ UNCHANGED <<service, preferred, poll, rows, fresh, faults>>

Button(kind, step, of) == ~page.busy /\ Perform(kind, step, of) /\ UNCHANGED unguarded
Delete == page.selected # None /\ Button("delete", "do", page.selected)
Start == Button("start", "start", preferred)
Stop == Button("stop", "do", None)
Retry == page.selected # None /\ Button("retry", "do", None)
ChangeSource(source) == Button("source", "status", source)
Rename == page.selected # None /\ Perform("rename", "do", None) /\ unguarded' = (unguarded \/ page.busy)

\* The service starts a new session, unless one runs; the window is asked to show it.
Started(source) ==
  LET s == IF service.session = None THEN 2 ELSE service.session + 1
  IN service' = IF service.active THEN [service EXCEPT !.revision = @ + 1, !.history = FALSE]
                ELSE [sessions |-> service.sessions \cup {s}, session |-> s, active |-> TRUE, source |-> source,
                      revision |-> service.revision + 1, history |-> FALSE]

\* The next call of a command.  Deleting goes on in the window, which leaves whatever is selected.  A
\* change of source reads the status, stops what listens to another one, stores the choice and starts.
Move(task, step) == tasks' = (tasks \ {task}) \cup {[task EXCEPT !.step = step]}
Done(task, p) == tasks' = tasks \ {task} /\ page' = [p EXCEPT !.busy = FALSE]
OtherSource(task, status) == status.active /\ status.source # task.of

ReadStatus(task) ==
  /\ task.step = "status"
  /\ tasks' = (tasks \ {task}) \cup {[task EXCEPT !.found = service, !.step = IF OtherSource(task, service) THEN "stop" ELSE "store"]}
  /\ UNCHANGED <<service, preferred, page, poll, fresh>>

\* Mutant: another source is chosen while the old one is listened to.
StopNothing(task) == task.step = "stop" /\ Move(task, "store") /\ UNCHANGED <<service, preferred, page, poll, fresh>>

StopOther(task) ==
  /\ task.step = "stop" /\ Move(task, "store")
  /\ service' = [service EXCEPT !.active = FALSE] /\ UNCHANGED <<preferred, page, poll, fresh>>

Store(task) ==
  /\ task.step = "store" /\ preferred' = task.of
  /\ Move(task, IF OtherSource(task, task.found) THEN "start" ELSE "show") /\ UNCHANGED <<service, page, poll, fresh>>

StartTask(task) ==
  /\ task.step = "start" /\ Started(task.of) /\ UNCHANGED <<preferred, poll, fresh>>
  /\ IF task.kind = "source" THEN Move(task, "show") /\ UNCHANGED page ELSE Done(task, page)

Show(task) ==
  /\ task.step = "show" /\ Done(task, [page EXCEPT !.status = service])
  /\ fresh' = (fresh /\ page.status # None /\ page.status.session = service.session)
  /\ UNCHANGED <<service, preferred, poll>>

\* Mutant: the session that is captured is deleted as well.
RefusesNever(task) == FALSE

\* The service does not delete a session that it captures.
Refuses(task) == task.kind = "delete" /\ service.active /\ service.session = task.of

Call(task) ==
  /\ task.step = "do"
  /\ Done(task, IF task.kind = "delete" /\ ~Refuses(task) THEN [page EXCEPT !.selected = None] ELSE page) /\ Repoll
  /\ service' = CASE task.kind = "stop" -> [service EXCEPT !.active = FALSE]
                   [] task.kind = "delete" /\ ~Refuses(task) -> [service EXCEPT !.sessions = @ \ {task.of}]
                   [] OTHER -> service
  /\ UNCHANGED preferred

Step(task) ==
  /\ ReadStatus(task) \/ StopOther(task) \/ Store(task) \/ StartTask(task) \/ Show(task) \/ Call(task)
  /\ UNCHANGED <<rows, unguarded, contested, clicks, faults>>

Fail(task) ==
  /\ Fails /\ Done(task, page)
  /\ UNCHANGED <<service, preferred, poll, rows, fresh, unguarded, contested, clicks>>

\* The menu and the shortcuts of the main window: another view is asked for, or capturing is toggled.
Asked(history) ==
  /\ Clicks /\ service' = [service EXCEPT !.revision = @ + 1, !.history = history]
  /\ UNCHANGED <<preferred, page, poll, rows, fresh, tasks, unguarded, contested, faults>>

Toggled ==
  /\ Clicks /\ contested' = (contested \/ tasks # {})
  /\ IF service.active THEN service' = [service EXCEPT !.active = FALSE] ELSE Started(preferred)
  /\ UNCHANGED <<preferred, page, poll, rows, fresh, tasks, unguarded, faults>>

-----------------------------------------------------------------------------

Init ==
  /\ \E history \in BOOLEAN :
       /\ service = [sessions |-> {1}, session |-> None, active |-> FALSE,
                     source |-> CHOOSE source \in Sources : TRUE, revision |-> 1, history |-> history]
       /\ page = [status |-> None, revision |-> 0, history |-> history, selected |-> None, after |-> None, busy |-> FALSE, list |-> {}]
  /\ preferred = (CHOOSE source \in Sources : TRUE)
  /\ poll = Idle /\ rows = None /\ fresh = FALSE /\ tasks = {} /\ unguarded = FALSE /\ contested = FALSE
  /\ clicks = MaxClicks /\ faults = MaxFaults

Polls == ReadLive \/ ReadRows \/ ReadList \/ Apply \/ PollFails

Next ==
  \/ Polls
  \/ \E t \in tasks : Step(t) \/ Fail(t)
  \/ ToggleHistory \/ Back \/ NextPage \/ FirstPage \/ Delete \/ Start \/ Stop \/ Rename \/ Retry \/ Toggled
  \/ \E s \in Sessions : Select(s)
  \/ \E source \in Sources : ChangeSource(source)
  \/ \E history \in BOOLEAN : Asked(history)

Spec == Init /\ [][Next]_vars /\ WF_vars(Polls) /\ WF_vars(\E t \in tasks : Step(t))
-----------------------------------------------------------------------------
\* Sessions that are named began, steps are ones of a poll.
TypeOK ==
  /\ service.sessions \subseteq Sessions /\ service.session \in Sessions \cup {None}
  /\ service.active \in BOOLEAN /\ {service.source, preferred} \subseteq Sources
  /\ page.selected \in Sessions \cup {None} /\ page.busy \in BOOLEAN /\ page.history \in BOOLEAN /\ page.list \subseteq Sessions
  /\ poll.step \in {"live", "rows", "list", "apply"} /\ rows \in Sessions \cup {None}
  /\ {fresh, unguarded, contested} \subseteq BOOLEAN /\ clicks \in 0..MaxClicks /\ faults \in 0..MaxFaults

\* Once a poll has come back for what is selected, its segments are the ones that are shown.
RowsAreOfSelection == fresh => rows = (IF page.selected # None THEN page.selected ELSE page.status.session)

\* The buttons wait while a command runs, unless a form was sent past them (perform).
BusyWhileRunning == ~unguarded => page.busy = (tasks # {}) /\ Cardinality(tasks) <= 1

\* What is listened to is what was chosen, unless capturing was started or stopped elsewhere while the
\* choice was stored (changeCaptionSource).
SourceIsChosen == tasks = {} /\ service.active /\ ~contested => service.source = preferred

\* What is captured is stored: its session cannot be deleted.
CapturedIsStored == service.active => service.session \in service.sessions

PanelIsSound == TypeOK /\ CapturedIsStored /\ RowsAreOfSelection /\ BusyWhileRunning /\ SourceIsChosen

\* The commands end, and the window shows what is selected.
Rests == tasks = {} /\ ~page.busy /\ (fresh \/ poll.step = "apply")
=============================================================================

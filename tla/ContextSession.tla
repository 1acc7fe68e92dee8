--------------------------- MODULE ContextSession ---------------------------
(***************************************************************************)
(* The Context workspace: a window's client of the memory engine.  A session *)
(* belongs to one mounted workspace; its flows are chains of calls that       *)
(* answer later, and each call that changes or asks something counts as an    *)
(* operation while it runs.  A page (knowledge, memory, settings) begins anew *)
(* whenever its section is chosen, while the session goes on.  The engine is   *)
(* external: it stores the configuration and the cards, and carries out a      *)
(* capture once for each request identifier.                                  *)
(***************************************************************************)
EXTENDS Integers, FiniteSets

CONSTANTS
  Configs,     \* configurations of the project
  Stored,      \* those it may have at first
  Queries,     \* what the search field may hold
  Forms,       \* contents of the capture form
  Memories,    \* memories in the list
  None,        \* nothing shown, no answer
  MaxActions,  \* bound on what the user starts
  MaxMoves,    \* bound on changes of the section and of the project
  MaxFaults    \* bound on calls that fail

ContextAssumption ==
  /\ Stored \subseteq Configs /\ None \notin Configs \cup Queries \cup Forms \cup Memories
  /\ None \notin {"done", "changed", "failed"} /\ None \notin [form : Forms, request : Nat \X Nat]
  /\ MaxActions \in Nat /\ MaxMoves \in Nat /\ MaxFaults \in Nat

VARIABLES
  generation,  \* of the session: ContextSessionLifetime
  session,     \* pending operations, what is busy, the configuration and the search results shown
  page,        \* the section shown: the query and whether it changed since the search, the attempt to capture,
               \* the selected memory, the history shown and whether it is edited
  tasks,       \* flows in flight, each with the call it waits for
  engine,      \* the stored configuration and the cards captured, with their requests
  past,        \* (history) captures acknowledged, and what the page cannot help: a call failed, an update was
               \* left by its session, a flow searched again, an attempt was forgotten, selections overlapped
  actions, moves, faults

vars == <<generation, session, page, tasks, engine, past, actions, moves, faults>>

Sections == {"knowledge", "memory", "settings"}

Fresh == [pending |-> 0, mutating |-> FALSE, loading |-> FALSE, sequence |-> 0, revision |-> 1, config |-> None,
          gate |-> 0, results |-> None]
Blank(s, n) == [section |-> s, number |-> n, query |-> None, clean |-> TRUE, attempt |-> None, tries |-> 0,
                selected |-> None, history |-> None, editing |-> FALSE]

\* A flow of the page now shown.
Task(kind, arg, step) ==
  [number |-> actions, generation |-> generation, page |-> page.number, kind |-> kind, arg |-> arg, step |-> step,
   answer |-> None, read |-> None, gate |-> 0, sequence |-> 0, revision |-> 0, request |-> None, query |-> page.query]

Current(t) == t.generation = generation
OnPage(t) == Current(t) /\ t.page = page.number

-----------------------------------------------------------------------------
(* What the parts of a flow do to the session.                               *)

\* refresh begins: the results of a search are taken back with it.
Refreshing(s) == [s EXCEPT !.sequence = @ + 1, !.gate = @ + 1, !.results = None, !.loading = TRUE]
RefreshTask(t, s) == [t EXCEPT !.step = "refresh", !.answer = None, !.sequence = s.sequence + 1, !.revision = s.revision]

\* run begins and finishes an operation of the session.
Operating(s) == [s EXCEPT !.pending = @ + 1, !.mutating = TRUE]

\* Mutant: the last operation to finish is taken for the only one.
FinishedAlone(s) == [s EXCEPT !.pending = @ - 1, !.mutating = FALSE]

Finished(s) == [s EXCEPT !.pending = @ - 1, !.mutating = s.pending > 1]

\* searchKnowledge begins, for the first page of results.
Searching(s) == Operating([s EXCEPT !.gate = @ + 1, !.results = None])
SearchTask(t, s) == [t EXCEPT !.step = "search", !.answer = None, !.gate = s.gate + 1]

Loads(g) == [number |-> -g, generation |-> g, page |-> 0, kind |-> "refresh", arg |-> None, step |-> "refresh",
             answer |-> None, read |-> None, gate |-> 0, sequence |-> 1, revision |-> 1, request |-> None, query |-> None]

Init ==
  /\ generation = 1 /\ session = Refreshing(Fresh) /\ page \in {Blank(s, 0) : s \in Sections}
  /\ tasks = {Loads(1)}
  /\ engine \in [config : Stored, cards : {{}}]
  /\ past = [acknowledged |-> {}, failed |-> FALSE, left |-> FALSE, repeated |-> FALSE, forgotten |-> FALSE, overlapped |-> FALSE]
  /\ actions = MaxActions /\ moves = MaxMoves /\ faults = MaxFaults

\* Another project is opened and then this one again: everything starts anew.
Remount ==
  /\ moves > 0 /\ moves' = moves - 1
  /\ generation' = generation + 1 /\ session' = Refreshing(Fresh) /\ page' = Blank(page.section, page.number + 1)
  /\ tasks' = tasks \cup {Loads(generation + 1)}
  /\ past' = [past EXCEPT !.left = @ \/ \E t \in tasks : t.kind = "update", !.repeated = FALSE, !.overlapped = FALSE]
  /\ UNCHANGED <<engine, actions, faults>>

ChooseSection(s) ==
  /\ s # page.section /\ moves > 0 /\ moves' = moves - 1
  /\ page' = Blank(s, page.number + 1)
  /\ past' = [past EXCEPT !.overlapped = FALSE]
  /\ UNCHANGED <<generation, session, tasks, engine, actions, faults>>

-----------------------------------------------------------------------------
(* The user starts a flow.                                                   *)

Acts == actions > 0 /\ actions' = actions - 1
Quiet == UNCHANGED <<generation, engine, moves, faults>>
Start(t, s) == Acts /\ tasks' = tasks \cup {t} /\ session' = s /\ Quiet

Refresh ==
  /\ ~session.loading
  /\ Start(RefreshTask(Task("refresh", None, "refresh"), session), Refreshing(session))
  /\ UNCHANGED <<page, past>>

\* ContextSettings saves the configuration; its fields are disabled while the session is busy.
UpdateConfig(c) ==
  /\ page.section = "settings" /\ session.config # None /\ c # session.config
  /\ ~session.loading /\ ~session.mutating
  /\ Start([Task("update", c, "update") EXCEPT !.revision = session.revision + 1],
           Operating([session EXCEPT !.revision = @ + 1]))
  /\ UNCHANGED <<page, past>>

OnKnowledge == page.section = "knowledge" /\ session.config # None
ShownResults == OnKnowledge /\ session.results # None /\ page.clean

\* Mutant: what was asked for before the query changed may still be shown.
TypeKept(q) ==
  /\ OnKnowledge /\ q # page.query /\ Acts
  /\ page' = [page EXCEPT !.query = q, !.clean = FALSE]
  /\ session' = [session EXCEPT !.results = None]
  /\ UNCHANGED <<tasks, past>> /\ Quiet

\* The query changes: what was asked for before is not shown any more.
Type(q) ==
  /\ OnKnowledge /\ q # page.query /\ Acts
  /\ page' = [page EXCEPT !.query = q, !.clean = FALSE]
  /\ session' = [session EXCEPT !.gate = @ + 1, !.results = None]
  /\ UNCHANGED <<tasks, past>> /\ Quiet

Search ==
  /\ OnKnowledge /\ page.query # None /\ ~session.mutating
  /\ Start(SearchTask(Task("search", None, "search"), session), Searching(session))
  /\ UNCHANGED <<page, past>>

\* The next page is asked for with the query now in the field.
LoadMore ==
  /\ ShownResults /\ page.query # None /\ ~session.mutating /\ session.results.pages = 1
  /\ Start([Task("more", None, "more") EXCEPT !.gate = session.gate + 1], Operating([session EXCEPT !.gate = @ + 1]))
  /\ UNCHANGED <<page, past>>

\* A card's source is opened, whatever runs; the review of a card is confirmed.
OpenSource == ShownResults /\ Start(Task("open", None, "resolve"), Operating(session)) /\ UNCHANGED <<page, past>>
Review == ShownResults /\ ~session.mutating /\ Start(Task("review", None, "review"), Operating(session)) /\ UNCHANGED <<page, past>>

\* Mutant: every attempt has identifiers of its own.
AttemptAnew(f) == [form |-> f, request |-> <<page.number, page.tries + 1>>]

\* An attempt with the same content asks again under the same identifiers.
Attempt(f) == IF page.attempt # None /\ page.attempt.form = f THEN page.attempt
              ELSE [form |-> f, request |-> <<page.number, page.tries + 1>>]

Capture(f) ==
  /\ OnKnowledge /\ ~session.mutating
  /\ page' = [page EXCEPT !.attempt = Attempt(f), !.tries = Attempt(f).request[2]]
  /\ Start([Task("capture", f, "register") EXCEPT !.request = Attempt(f).request], Operating(session))
  /\ UNCHANGED past

\* A memory is selected, whatever runs, perhaps to be edited: its history is loaded.
Select(m, edit) ==
  /\ page.section = "memory" /\ session.config # None
  /\ page' = [page EXCEPT !.selected = m, !.editing = edit]
  /\ past' = [past EXCEPT !.overlapped = @ \/ \E t \in tasks : OnPage(t) /\ t.kind \in {"select", "change"}]
  /\ Start(Task("select", m, "history"), Operating(session))

\* The selected memory is saved after editing, or confirmed, archived or rejected.
Change ==
  /\ page.section = "memory" /\ page.selected # None /\ ~session.mutating
  /\ past' = [past EXCEPT !.overlapped = @ \/ \E t \in tasks : OnPage(t) /\ t.kind \in {"select", "change"}]
  /\ Start(Task("change", page.selected, "change"), Operating(session))
  /\ UNCHANGED page

-----------------------------------------------------------------------------
(* The engine answers a call.                                                *)

CarriedOut(t) ==
  CASE t.step = "update" -> [engine EXCEPT !.config = t.arg]
    [] t.step = "capture" -> [engine EXCEPT !.cards = @ \cup {[form |-> t.arg, request |-> t.request]}]
    [] OTHER -> engine

Answered(t, a) ==
  tasks' = (tasks \ {t}) \cup {[t EXCEPT !.answer = a, !.read = IF t.step = "refresh" THEN engine.config ELSE None]}

Serve(t) ==
  /\ t.answer = None
  /\ \E a \in {"done"} \cup (IF t.step = "resolve" THEN {"changed"} ELSE {}) : Answered(t, a)
  /\ engine' = CarriedOut(t)
  /\ UNCHANGED <<generation, session, page, past, actions, moves, faults>>

\* The call fails, carried out or not.
Fail(t) ==
  /\ t.answer = None /\ faults > 0 /\ faults' = faults - 1
  /\ Answered(t, "failed")
  /\ engine' \in {engine, CarriedOut(t)}
  /\ past' = [past EXCEPT !.failed = TRUE]
  /\ UNCHANGED <<generation, session, page, actions, moves>>

-----------------------------------------------------------------------------
(* The answer reaches its flow.                                              *)

Done(t) == t.answer = "done"
Ends(t) == tasks' = tasks \ {t}
Continues(t, next) == tasks' = (tasks \ {t}) \cup {next}
Calm == UNCHANGED <<generation, engine, actions, moves, faults>>

\* A session that is over takes nothing.
ReturnsLate(t) == ~Current(t) /\ Ends(t) /\ UNCHANGED <<session, page, past>>

\* Mutant: a configuration read before an update began is still shown.
LoadedLate(t) ==
  IF t.sequence # session.sequence THEN session
  ELSE [session EXCEPT !.loading = FALSE, !.config = IF Done(t) THEN t.read ELSE @]

\* What a refresh shows: only the latest one, and the configuration only if no update began or ended meanwhile.
Loaded(t) ==
  IF t.sequence # session.sequence THEN session
  ELSE [session EXCEPT !.loading = FALSE, !.config = IF Done(t) /\ t.revision = session.revision THEN t.read ELSE @]

\* A refresh is over, with or without success: the flow it belongs to goes on.
RefreshReturns(t) ==
  /\ t.step = "refresh"
  /\ CASE t.kind = "refresh" -> Ends(t) /\ session' = Loaded(t) /\ UNCHANGED <<page, past>>
       [] t.kind = "capture" ->
            /\ Ends(t) /\ session' = Loaded(t)
            /\ page' = IF OnPage(t) THEN [page EXCEPT !.attempt = None] ELSE page
            /\ past' = [past EXCEPT !.forgotten = @ \/ (OnPage(t) /\ page.attempt # None /\ page.attempt.request # t.request)]
       [] t.kind = "review" ->
            /\ IF t.query = None THEN Ends(t) /\ session' = Loaded(t)
               ELSE Continues(t, SearchTask(t, session)) /\ session' = Searching(Loaded(t))
            /\ UNCHANGED <<page, past>>
       [] t.kind = "change" ->
            /\ Continues(t, [t EXCEPT !.step = "history", !.answer = None]) /\ session' = Operating(Loaded(t))
            /\ page' = IF OnPage(t) THEN [page EXCEPT !.selected = t.arg] ELSE page
            /\ UNCHANGED past

UpdateReturns(t) ==
  /\ t.step = "update" /\ Ends(t)
  /\ session' = LET s == Finished(session)
                IN IF t.revision # s.revision THEN s
                   ELSE [s EXCEPT !.revision = @ + 1, !.config = IF Done(t) THEN t.arg ELSE @]
  /\ UNCHANGED <<page, past>>

\* The first results of the newest search are shown; those of a flow that repeats a search come whatever the field holds.
SearchReturns(t) ==
  /\ t.step = "search" /\ Ends(t)
  /\ LET shows == Done(t) /\ t.gate = session.gate
     IN /\ session' = [Finished(session) EXCEPT !.results = IF shows THEN [queries |-> {t.query}, pages |-> 1] ELSE @]
        /\ page' = IF shows /\ OnPage(t) THEN [page EXCEPT !.clean = TRUE] ELSE page
        /\ past' = [past EXCEPT !.repeated = @ \/ (shows /\ t.kind # "search")]

MoreReturns(t) ==
  /\ t.step = "more" /\ Ends(t)
  /\ session' = [Finished(session) EXCEPT
       !.results = IF ~Done(t) \/ t.gate # session.gate THEN @
                   ELSE [queries |-> {t.query} \cup (IF @ = None THEN {} ELSE @.queries), pages |-> 2]]
  /\ UNCHANGED <<page, past>>

\* A source that changed, or could not be resolved, repeats the search of the click.
ResolveReturns(t) ==
  /\ t.step = "resolve"
  /\ \/ /\ (Done(t) \/ t.answer = "failed" \/ t.query = None)
        /\ Ends(t) /\ session' = Finished(session)
     \/ /\ ~Done(t) /\ t.query # None
        /\ Continues(t, SearchTask(t, session)) /\ session' = Searching(Finished(session))
  /\ UNCHANGED <<page, past>>

RegisterReturns(t) ==
  /\ t.step = "register"
  /\ IF Done(t) THEN Continues(t, [t EXCEPT !.step = "capture", !.answer = None]) /\ UNCHANGED session
     ELSE Ends(t) /\ session' = Finished(session)
  /\ UNCHANGED <<page, past>>

\* A card captured or reviewed, or a memory changed, reads everything again; a failed save still ends the editing.
ChangeReturns(t) ==
  /\ t.step \in {"capture", "review", "change"}
  /\ IF Done(t) THEN Continues(t, RefreshTask(t, session)) /\ session' = Refreshing(Finished(session))
     ELSE Ends(t) /\ session' = Finished(session)
  /\ page' = IF t.step = "change" /\ ~Done(t) /\ OnPage(t) THEN [page EXCEPT !.editing = FALSE] ELSE page
  /\ past' = IF t.step = "capture" /\ Done(t) THEN [past EXCEPT !.acknowledged = @ \cup {t.request}] ELSE past

HistoryReturns(t) ==
  /\ t.step = "history" /\ Ends(t) /\ session' = Finished(session)
  /\ page' = IF ~OnPage(t) THEN page
             ELSE [page EXCEPT !.history = IF Done(t) THEN t.arg ELSE @,
                               !.editing = @ /\ t.kind # "change"]
  /\ UNCHANGED past

Return(t) ==
  /\ t.answer # None
  /\ \/ ReturnsLate(t)
     \/ /\ Current(t)
        /\ \/ RefreshReturns(t) \/ UpdateReturns(t) \/ SearchReturns(t) \/ MoreReturns(t) \/ ResolveReturns(t)
           \/ RegisterReturns(t) \/ ChangeReturns(t) \/ HistoryReturns(t)
  /\ Calm

Acting ==
  \/ Refresh \/ Search \/ LoadMore \/ OpenSource \/ Review \/ Change
  \/ \E c \in Configs : UpdateConfig(c)
  \/ \E q \in Queries : Type(q)
  \/ \E f \in Forms : Capture(f)
  \/ \E m \in Memories, edit \in BOOLEAN : Select(m, edit)

Next ==
  \/ Remount
  \/ \E s \in Sections : ChooseSection(s)
  \/ Acting
  \/ \E t \in tasks : Serve(t) \/ Fail(t) \/ Return(t)

Spec == Init /\ [][Next]_vars

\* The engine answers or fails every call (invokeTauri settles), and answers are delivered.
Answering == \E t \in tasks : Serve(t) \/ Return(t)
FairSpec == Spec /\ WF_vars(Answering)

-----------------------------------------------------------------------------
Operations == {"update", "search", "more", "resolve", "review", "register", "capture", "change", "history"}
Running == {t \in tasks : Current(t) /\ t.step \in Operations}

TypeOK ==
  /\ session.config \in Configs \cup {None} /\ session.pending \in Nat /\ page.section \in Sections
  /\ session.results = None \/ (session.results.queries \subseteq Queries /\ session.results.pages \in 1..2)
  /\ \A t \in tasks : t.step \in Operations \cup {"refresh"} /\ t.answer \in {None, "done", "changed", "failed"}

\* The page is busy exactly while something runs: a click is never accepted during an operation, and
\* never refused after the last one (ContextSessionLifetime, run).
BusyIsTrue ==
  /\ session.pending = Cardinality(Running)
  /\ session.mutating <=> Running # {}
  /\ session.loading <=> \E t \in tasks : Current(t) /\ t.step = "refresh" /\ t.sequence = session.sequence

\* With nothing under way, the settings show what the engine stores, though refreshes and updates overlap
\* (configRevision), unless a call failed or a session was left while it updated.
ConfigIsStored ==
  session.config # None /\ tasks = {} /\ ~past.failed /\ ~past.left => session.config = engine.config

\* The results shown are those of the query in the field, of one query only, unless a flow repeated
\* its search (KnowledgeSearchRequestGate).
ResultsMatchInput ==
  ShownResults /\ page.query # None /\ ~past.repeated => session.results.queries = {page.query}

\* A card whose acknowledgment was lost is not captured a second time by the attempt that follows,
\* unless an earlier capture made the page forget the attempt (captureAttemptRef).
CapturesOnce ==
  \A c, d \in engine.cards :
    c.form = d.form /\ d.request[1] = c.request[1] /\ d.request[2] = c.request[2] + 1
      => c.request \in past.acknowledged \/ past.forgotten

\* With nothing under way, the history shown is that of the selected memory, unless selections overlapped
\* or a call failed.
HistoryIsOfSelected ==
  tasks = {} /\ ~past.failed /\ ~past.overlapped => page.history \in {page.selected, None}

ContextIsSound == TypeOK /\ BusyIsTrue /\ ConfigIsStored /\ ResultsMatchInput /\ CapturesOnce /\ HistoryIsOfSelected

\* "Ambiguous outcomes are retried with the same idempotency IDs."
RetriesKeepIdentifiers ==
  \A c, d \in engine.cards :
    c.form = d.form /\ d.request[1] = c.request[1] /\ d.request[2] = c.request[2] + 1 => c.request \in past.acknowledged

\* The page does not stay busy.
SessionSettles == (session.mutating \/ session.loading) ~> (~session.mutating /\ ~session.loading)
=============================================================================

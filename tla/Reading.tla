------------------------------- MODULE Reading -------------------------------
(***************************************************************************)
(* Reading with a dictionary: a selection in a document opens a panel         *)
(* (useVocabReading), which looks its word up and may keep it in the vocabulary *)
(* (VocabPopover, VocabFavorite), and translates what has no explanation on  *)
(* this computer (PassageReading, OfflineTranslation).                     *)
(*                                                                         *)
(* Renders and their effects belong to the step that causes them; delivering *)
(* a kept word is VocabOutbox.                                             *)
(***************************************************************************)
EXTENDS Naturals, FiniteSets

CONSTANTS
  None, Words,                  \* texts that can be looked up
  Passages,                     \* texts that can only be translated
  MaxSelections, MaxLooks,      \* bounds on what the user does in the document and in the panel,
  MaxFaults                     \* and on what fails

ReadingAssumption == None \notin Words \cup Passages /\ Words \cap Passages = {} /\ {MaxSelections, MaxLooks, MaxFaults} \subseteq Nat

VARIABLES
  version, selection,           \* of the document: how often it changed, what is selected in it
  enabled, pressing, due,       \* selecting opens the panel; a button is down; the delay runs
  panel,                        \* what is open
  favorite,                     \* the star of the panel's word
  lookups, deliveries,          \* requests under way
  translation, jobs, engine, engines, idle,
  late,                         \* ghost: the removal of another word unlocked the panel
  selections, looks, failures

vars == <<version, selection, enabled, pressing, due, panel, favorite, lookups, deliveries,
          translation, jobs, engine, engines, idle, late, selections, looks, failures>>

selecting == <<version, selection, enabled, pressing, due, selections>>
translator == <<jobs, engine, engines, idle>>

Selects == selections > 0 /\ selections' = selections - 1
Acts == looks > 0 /\ looks' = looks - 1
Fails == failures > 0 /\ failures' = failures - 1

\* The star of the word that is looked up: another word has another one.
Star(p) == [capture |-> p.attempt, busy |-> FALSE, saved |-> FALSE, receipt |-> None, attempted |-> None]

\* What PassageReading is given: all that restarts its translation.
Text(p) == IF p.lookup # None THEN p.lookup ELSE p.selected
AutoTranslate(p) == p.lookup = None \/ (~p.loading /\ (p.entries = None \/ "gloss" \notin p.entries.has))
Wanted(p, tries) == IF p = None THEN None ELSE [id |-> p.id, text |-> Text(p), auto |-> AutoTranslate(p), tries |-> tries]

-----------------------------------------------------------------------------
(* OfflineTranslation *)

Running == {j \in jobs : ~j.settled}

\* Its finish with an error: the engine is disposed with the job; an engine that is still made for it
\* is disposed when it comes.
Stopped == {[j EXCEPT !.settled = TRUE] : j \in {i \in jobs : i.step = "creating"}}
EnginesWithout == engines - (IF engine THEN 1 ELSE 0)

\* The text or the need of a translation changed: the one that runs is aborted, and another begins.
Begins(tries) ==
  LET wanted == Wanted(panel', tries)
      kept == IF Running # {} THEN Stopped ELSE jobs
      ready == engine /\ Running = {}
  IN IF wanted = translation.of THEN UNCHANGED <<translation, translator>>
     ELSE /\ translation' = [of |-> wanted, shown |-> None, busy |-> wanted # None /\ wanted.auto, failed |-> FALSE]
          /\ engine' = ready /\ engines' = (IF Running # {} THEN EnginesWithout ELSE engines)
          /\ idle' = (idle /\ ~translation'.busy)
          /\ jobs' = kept \cup (IF translation'.busy
                                THEN {[of |-> wanted, step |-> IF ready THEN "translating" ELSE "creating", settled |-> FALSE]}
                                ELSE {})

Restarts == Begins(IF translation.of # None /\ panel' # None /\ panel'.id = translation.of.id THEN translation.of.tries ELSE 0)

\* Mutant: an engine made for a job that was aborted meanwhile is kept.
CreatedKeeping(job) ==
  /\ job \in jobs /\ job.step = "creating"
  /\ jobs' = (jobs \ {job}) \cup {[job EXCEPT !.step = "translating"]}
  /\ engine' = TRUE /\ engines' = engines + 1
  /\ UNCHANGED <<selecting, panel, favorite, lookups, deliveries, translation, idle, late, looks, failures>>

Created(job) ==
  /\ job \in jobs /\ job.step = "creating"
  /\ IF job.settled
     THEN jobs' = jobs \ {job} /\ UNCHANGED <<engine, engines>>
     ELSE /\ jobs' = (jobs \ {job}) \cup {[job EXCEPT !.step = "translating"]}
          /\ engine' = TRUE /\ engines' = engines + 1
  /\ UNCHANGED <<selecting, panel, favorite, lookups, deliveries, translation, idle, late, looks, failures>>

Translated(job) ==
  /\ job \in Running /\ job.step = "translating"
  /\ jobs' = jobs \ {job} /\ idle' = TRUE
  /\ translation' = [translation EXCEPT !.shown = job.of.text, !.busy = FALSE]
  /\ UNCHANGED <<selecting, panel, favorite, lookups, deliveries, engine, engines, late, looks, failures>>

\* An engine that cannot be made or fails, or a minute without an answer.
NotTranslated(job) ==
  /\ job \in Running /\ Fails
  /\ jobs' \in {jobs \ {job}, Stopped} /\ engine' = FALSE /\ engines' = EnginesWithout
  /\ translation' = [translation EXCEPT !.busy = FALSE, !.failed = TRUE]
  /\ UNCHANGED <<selecting, panel, favorite, lookups, deliveries, idle, late, looks>>

ReleaseIdle ==
  /\ idle /\ idle' = FALSE /\ engine' = FALSE /\ engines' = EnginesWithout
  /\ UNCHANGED <<selecting, panel, favorite, lookups, deliveries, translation, jobs, late, looks, failures>>

-----------------------------------------------------------------------------
(* useVocabReading *)

Closed == panel' = None /\ favorite' = None /\ late' = FALSE
Showing(p) == panel' = p /\ favorite' = (IF p.lookup = None THEN None ELSE Star(p)) /\ late' = FALSE

\* snapshot: a panel for what is selected.
Snapshot(id) ==
  [id |-> id, version |-> version, selected |-> selection, lookup |-> IF selection \in Words THEN selection ELSE None,
   attempt |-> 0, loading |-> selection \in Words, error |-> FALSE, entries |-> None, locked |-> FALSE]

Looking(p) == [id |-> p.id, term |-> p.lookup, attempt |-> p.attempt]
Asked(p) == lookups' = lookups \cup (IF p.lookup = None THEN {} ELSE {Looking(p)})

\* clear
Clear == due' = FALSE /\ Closed /\ UNCHANGED <<lookups, deliveries, looks, failures>> /\ Restarts

PointerDown == Selects /\ pressing' = TRUE /\ Clear /\ UNCHANGED <<version, selection, enabled>>

\* The button goes up with something selected, or nothing; schedule.
PointerUp(p) ==
  /\ pressing /\ pressing' = FALSE /\ selection' = p /\ due' = enabled
  /\ UNCHANGED <<version, enabled, panel, favorite, lookups, deliveries, translation, translator, late, selections, looks, failures>>

\* The delay is over: the panel of another selection, or of none, takes the place of the one that is open.
Selected ==
  /\ due /\ due' = FALSE
  /\ IF panel # None /\ selection = panel.selected THEN UNCHANGED <<panel, favorite, lookups, late, translation, translator>>
     ELSE IF selection = None THEN Closed /\ UNCHANGED lookups /\ Restarts
     ELSE Showing(Snapshot(2 * selections)) /\ Asked(panel') /\ Restarts
  /\ UNCHANGED <<version, selection, enabled, pressing, deliveries, selections, looks, failures>>

\* The command opens the panel whatever the setting is.
Open ==
  /\ Selects /\ selection # None
  /\ Showing(Snapshot(2 * selections + 1)) /\ Asked(panel') /\ Restarts
  /\ UNCHANGED <<version, selection, enabled, pressing, due, deliveries, looks, failures>>

\* Mutant: another document or text leaves the panel open.
ChangedOpen(p) ==
  /\ Selects /\ version' = version + 1 /\ selection' = p
  /\ UNCHANGED <<enabled, pressing, due, panel, favorite, lookups, deliveries, translation, translator, late, looks, failures>>

\* Another document or text; the selection is what is left of it.
Changed(p) == Selects /\ version' = version + 1 /\ selection' = p /\ Clear /\ UNCHANGED <<enabled, pressing>>

Enable ==
  /\ Selects /\ enabled' = ~enabled /\ UNCHANGED <<version, selection, pressing>>
  /\ IF enabled THEN Clear ELSE UNCHANGED <<due, panel, favorite, lookups, deliveries, translation, translator, late, looks, failures>>

\* Losing the focus or the pointer; scrolling and closing only clear.
Cancel == (pressing \/ due \/ panel # None) /\ pressing' = FALSE /\ Clear /\ UNCHANGED <<version, selection, enabled, selections>>
Close == (due \/ panel # None) /\ Clear /\ UNCHANGED <<version, selection, enabled, pressing, selections>>

-----------------------------------------------------------------------------
(* VocabPopover *)

\* No entry, an explanation, or a word of the vocabulary that has none.
Answers == {None, {"gloss"}, {"mine"}}

Ask(p) == panel' = p /\ Asked(p) /\ UNCHANGED <<selecting, deliveries, failures>>

\* A word typed under a passage: the panel begins anew with it.
Lookup(word) ==
  /\ Acts /\ panel # None /\ panel.selected \notin Words
  /\ Ask([panel EXCEPT !.lookup = word, !.attempt = @ + 1, !.loading = TRUE, !.error = FALSE, !.entries = None, !.locked = FALSE])
  /\ favorite' = Star(panel') /\ late' = FALSE /\ Restarts

Retry ==
  /\ Acts /\ panel # None /\ panel.error
  /\ Ask([panel EXCEPT !.attempt = @ + 1, !.loading = TRUE, !.error = FALSE])
  /\ UNCHANGED <<favorite, late>> /\ Restarts

\* Mutant: the answer for an earlier word is taken.
AnswerEarlier(request, has) ==
  /\ request \in lookups /\ lookups' = lookups \ {request}
  /\ IF panel # None
     THEN panel' = [panel EXCEPT !.loading = FALSE, !.entries = IF has = None THEN None ELSE [term |-> request.term, has |-> has]]
     ELSE UNCHANGED panel
  /\ UNCHANGED <<selecting, favorite, deliveries, late, looks, failures>> /\ Restarts

\* Only the answer of the word and the attempt that are shown is taken (active).
Answer(request, has) ==
  /\ request \in lookups /\ lookups' = lookups \ {request}
  /\ IF panel # None /\ request = Looking(panel)
     THEN /\ panel' = [panel EXCEPT !.loading = FALSE, !.entries = IF has = None THEN None ELSE [term |-> request.term, has |-> has]]
          /\ favorite' = [favorite EXCEPT !.saved = has # None /\ "mine" \in has]
          /\ Restarts
     ELSE UNCHANGED <<panel, favorite, translation, translator>>
  /\ UNCHANGED <<selecting, deliveries, late, looks, failures>>

AnswerFails(request) ==
  /\ request \in lookups /\ Fails /\ lookups' = lookups \ {request}
  /\ IF panel # None /\ request = Looking(panel)
     THEN panel' = [panel EXCEPT !.loading = FALSE, !.error = TRUE] /\ Restarts
     ELSE UNCHANGED <<panel, translation, translator>>
  /\ UNCHANGED <<selecting, favorite, deliveries, late, looks>>

-----------------------------------------------------------------------------
(* VocabFavorite *)

Owner == [id |-> panel.id, capture |-> favorite.capture]
Mine(request) == favorite # None /\ request.of = Owner

\* save: what is kept is what was shown at the first try, and its sense can no longer be chosen (onLock).
Save ==
  /\ Acts /\ favorite # None /\ ~favorite.busy /\ ~favorite.saved /\ favorite.receipt \notin {"queued", "saved"}
  /\ favorite' = [favorite EXCEPT !.busy = TRUE, !.attempted = IF @ = None THEN panel.lookup ELSE @]
  /\ panel' = [panel EXCEPT !.locked = TRUE] /\ deliveries' = deliveries \cup {[kind |-> "save", of |-> Owner]}
  /\ UNCHANGED <<selecting, lookups, translation, translator, late, failures>>

Saved(request, ok) ==
  /\ request \in deliveries /\ request.kind = "save" /\ deliveries' = deliveries \ {request}
  /\ IF ok THEN UNCHANGED failures ELSE Fails
  /\ favorite' = (IF Mine(request) THEN [favorite EXCEPT !.busy = FALSE, !.receipt = IF ok THEN "queued" ELSE @] ELSE favorite)
  /\ UNCHANGED <<selecting, panel, lookups, translation, translator, late, looks>>

\* A poll of the receipt: a delivery that failed unlocks the star, for the same capture.
Polled(state) ==
  /\ favorite # None /\ favorite.receipt = "queued" /\ favorite' = [favorite EXCEPT !.receipt = state]
  /\ UNCHANGED <<selecting, panel, lookups, deliveries, translation, translator, late, looks, failures>>

\* The word that was delivered is found in the vocabulary.
Confirmed ==
  /\ favorite # None /\ favorite.receipt = "saved" /\ ~favorite.saved /\ favorite' = [favorite EXCEPT !.saved = TRUE]
  /\ UNCHANGED <<selecting, panel, lookups, deliveries, translation, translator, late, looks, failures>>

Remove ==
  /\ Acts /\ favorite # None /\ favorite.saved /\ ~favorite.busy /\ favorite.receipt # "queued"
  /\ favorite' = [favorite EXCEPT !.busy = TRUE] /\ deliveries' = deliveries \cup {[kind |-> "remove", of |-> Owner]}
  /\ UNCHANGED <<selecting, panel, lookups, translation, translator, late, failures>>

\* The panel is unlocked and looks its word up again (onRemoved), also when it is another word by now.
Removed(request) ==
  /\ request \in deliveries /\ request.kind = "remove" /\ deliveries' = deliveries \ {request}
  /\ favorite' = (IF Mine(request) THEN [favorite EXCEPT !.busy = FALSE, !.saved = FALSE, !.receipt = None, !.attempted = None] ELSE favorite)
  /\ IF panel # None /\ panel.id = request.of.id
     THEN /\ panel' = [panel EXCEPT !.locked = FALSE, !.attempt = @ + 1, !.loading = TRUE]
          /\ Asked(panel') /\ late' = (late \/ ~Mine(request)) /\ Restarts
     ELSE UNCHANGED <<panel, lookups, late, translation, translator>>
  /\ UNCHANGED <<selecting, looks, failures>>

NotRemoved(request) ==
  /\ request \in deliveries /\ request.kind = "remove" /\ Fails /\ deliveries' = deliveries \ {request}
  /\ favorite' = (IF Mine(request) THEN [favorite EXCEPT !.busy = FALSE] ELSE favorite)
  /\ UNCHANGED <<selecting, panel, lookups, translation, translator, late, looks>>

\* PassageReading's button after a failure.
Translate ==
  /\ Acts /\ panel # None /\ translation.failed
  /\ UNCHANGED <<selecting, panel, favorite, lookups, deliveries, late, failures>>
  /\ Begins(translation.of.tries + 1)

-----------------------------------------------------------------------------

Init ==
  /\ version = 0 /\ selection = None /\ enabled = TRUE /\ pressing = FALSE /\ due = FALSE
  /\ panel = None /\ favorite = None /\ lookups = {} /\ deliveries = {} /\ late = FALSE
  /\ translation = [of |-> None, shown |-> None, busy |-> FALSE, failed |-> FALSE]
  /\ jobs = {} /\ engine = FALSE /\ engines = 0 /\ idle = FALSE
  /\ selections = MaxSelections /\ looks = MaxLooks /\ failures = MaxFaults

Served ==
  \/ Selected
  \/ \E r \in lookups : AnswerFails(r) \/ \E has \in Answers : Answer(r, has)
  \/ \E r \in deliveries : Removed(r) \/ NotRemoved(r) \/ \E ok \in BOOLEAN : Saved(r, ok)
  \/ \E j \in jobs : Created(j) \/ Translated(j) \/ NotTranslated(j)

Next ==
  \/ Served
  \/ PointerDown \/ Open \/ Enable \/ Cancel \/ Close \/ Retry \/ Save \/ Confirmed \/ Remove \/ Translate \/ ReleaseIdle
  \/ \E p \in Words \cup Passages \cup {None} : PointerUp(p) \/ Changed(p)
  \/ \E w \in Words : Lookup(w)
  \/ \E state \in {"saved", "error"} : Polled(state)

Spec == Init /\ [][Next]_vars /\ WF_vars(Served)
-----------------------------------------------------------------------------
\* What is open, asked for and translated is of the texts that can be selected.
TypeOK ==
  /\ version \in Nat /\ selection \in Words \cup Passages \cup {None} /\ {enabled, pressing, due, engine, idle, late} \subseteq BOOLEAN
  /\ panel # None => panel.selected \in Words \cup Passages /\ panel.lookup \in Words \cup {None} /\ panel.attempt \in Nat
  /\ \A l \in lookups : l.term \in Words
  /\ translation.busy \in BOOLEAN /\ \A j \in jobs : j.step \in {"creating", "translating"} /\ j.settled \in BOOLEAN
  /\ engines \in Nat /\ selections \in 0..MaxSelections /\ looks \in 0..MaxLooks /\ failures \in 0..MaxFaults

\* The delay only runs where selecting opens the panel, with no button down; and a panel is of the text
\* that is in the document (clear).
PanelIsCurrent == (due => enabled /\ ~pressing) /\ (panel # None => panel.version = version)

\* What the dictionary says is of the word shown, and the panel waits exactly while its request runs.
EntriesAreOfWord ==
  panel # None => /\ panel.loading = (panel.lookup # None /\ Looking(panel) \in lookups)
                  /\ panel.entries # None => panel.entries.term = panel.lookup

\* A word that is being kept is the one shown, and its sense stays as it is, unless the removal of
\* another word came back late.
KeptIsShown ==
  favorite # None /\ favorite.attempted # None => favorite.attempted = panel.lookup /\ (panel.locked \/ late)

\* A translation is of the text shown, and is waited for exactly while a job runs for it.
TranslationIsOfText ==
  /\ translation.shown # None => translation.of # None /\ translation.shown = translation.of.text
  /\ translation.of # None => panel # None /\ translation.of = Wanted(panel, translation.of.tries)
  /\ translation.busy <=> \E j \in Running : j.of = translation.of

\* One job runs at a time, and no engine is left behind by those that were aborted.
OneEngine == Cardinality(Running) <= 1 /\ engines = (IF engine THEN 1 ELSE 0)

ReadingIsSound == TypeOK /\ PanelIsCurrent /\ EntriesAreOfWord /\ KeptIsShown /\ TranslationIsOfText /\ OneEngine

\* No panel waits for ever.
Rests == ~due /\ ~translation.busy /\ (panel # None => ~panel.loading)
=============================================================================

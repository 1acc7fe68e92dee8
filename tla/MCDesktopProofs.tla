--------------------------- MODULE MCDesktopProofs ---------------------------
(***************************************************************************)
(* Theorems about the system of MCDesktop, for any values of its constants *)
(* and under the names its run checks: the client of the memory engine     *)
(* (ContextSession).                                                       *)
(***************************************************************************)
EXTENDS MCDesktop, FiniteSetTheorems, TLAPS

-----------------------------------------------------------------------------
(* The Context workspace. *)

ContextKinds == {"refresh", "update", "search", "more", "open", "review", "capture", "select", "change"}
ContextSteps == Context!Operations \cup {"refresh"}
Outcomes == {"done", "changed", "failed"}
Requests == Nat \X Nat
Attempts == [form : Forms, request : Requests]
ResultLists == [queries : SUBSET Queries, pages : 1..2]
SessionStates ==
  [pending : Nat, mutating : BOOLEAN, loading : BOOLEAN, sequence : Nat, revision : Nat, config : Configs \cup {None},
   gate : Nat, results : ResultLists \cup {None}]
PageStates ==
  [section : Context!Sections, number : Nat, query : Queries \cup {None}, clean : BOOLEAN, attempt : Attempts \cup {None},
   tries : Nat, selected : Memories \cup {None}, history : Memories \cup {None}, editing : BOOLEAN]
Flows ==
  [number : Int, generation : Nat, page : Nat, kind : ContextKinds, arg : Configs \cup Forms \cup Memories \cup {None},
   step : ContextSteps, answer : Outcomes \cup {None}, read : Configs \cup {None}, gate : Nat, sequence : Nat,
   revision : Nat, request : Requests \cup {None}, query : Queries \cup {None}]
PastStates ==
  [acknowledged : SUBSET Requests, failed : BOOLEAN, left : BOOLEAN, repeated : BOOLEAN, forgotten : BOOLEAN,
   overlapped : BOOLEAN]

PartsTyped ==
  /\ generation \in Nat /\ generation >= 1 /\ session \in SessionStates /\ page \in PageStates
  /\ engine \in [config : Configs, cards : SUBSET Attempts] /\ past \in PastStates
  /\ actions \in Nat /\ moves \in Nat /\ faults \in Nat

\* What a flow of each kind waits for, and what it carries.
FlowFits(t) ==
  /\ t \in Flows
  /\ t.step = "refresh" => t.kind \in {"refresh", "capture", "review", "change"}
  /\ t.step = "update" <=> t.kind = "update"
  /\ t.step = "search" => t.kind \in {"search", "review", "open"}
  /\ t.step = "more" <=> t.kind = "more"
  /\ t.step = "resolve" => t.kind = "open"
  /\ t.step = "review" => t.kind = "review"
  /\ t.step \in {"register", "capture"} => t.kind = "capture"
  /\ t.step = "change" => t.kind = "change"
  /\ t.step = "history" => t.kind \in {"select", "change"}
  /\ t.kind = "update" => t.arg \in Configs
  /\ t.kind = "capture" => t.arg \in Forms /\ t.request \in Requests
  /\ t.kind \in {"select", "change"} => t.arg \in Memories
  /\ t.step \in {"search", "more"} => t.query \in Queries
  /\ t.answer = "changed" => t.step = "resolve"
  /\ t.step = "refresh" /\ t.answer = "done" => t.read \in Configs

\* Flows have numbers and moments of their own.
FlowStands(t) ==
  /\ FlowFits(t)
  /\ t.generation <= generation /\ t.page <= page.number
  /\ t.number > actions \/ (t.number < 0 /\ t.number >= -generation)
  /\ Context!Current(t) => t.gate <= session.gate /\ t.sequence <= session.sequence /\ t.revision <= session.revision

FlowsStand ==
  /\ IsFiniteSet(tasks)
  /\ \A t \in tasks : FlowStands(t) /\ (t.answer = "failed" => past.failed)
  /\ \A s, t \in tasks : s.number = t.number => s = t

\* What is counted and marked is what runs.
BusyFits ==
  /\ Context!BusyIsTrue
  /\ \A s, t \in tasks : Context!Current(s) /\ Context!Current(t) /\ s.step = "refresh" /\ t.step = "refresh" /\ s.sequence = t.sequence => s = t
  /\ \A s, t \in tasks : Context!Current(s) /\ Context!Current(t) /\ s.kind = "update" /\ t.kind = "update" => s = t

\* An update owns the revision: what it was told is stored.  Without one the settings show what is stored, and
\* so does what a refresh of this revision has read.
ConfigFits ==
  /\ \A u \in tasks : u.kind = "update" /\ Context!Current(u) => u.revision = session.revision
  /\ ~past.failed /\ ~past.left =>
       /\ \A u \in tasks : u.kind = "update" => Context!Current(u) /\ (u.answer = "done" => engine.config = u.arg)
       /\ (\A u \in tasks : u.kind # "update") =>
            /\ session.config \in {engine.config, None}
            /\ \A t \in tasks : Context!Current(t) /\ t.step = "refresh" /\ t.answer = "done" /\ t.revision = session.revision
                 => t.read = engine.config

\* Results, and those the newest search will bring, are of the query in the field.
ResultsFit ==
  page.query # None /\ ~past.repeated =>
    /\ session.results # None /\ page.clean => session.results.queries = {page.query}
    /\ \A t \in tasks : Context!Current(t) /\ t.kind \in {"search", "more"} /\ t.gate = session.gate => t.query = page.query

\* The attempts made so far: they name what they capture, and an attempt follows one with the same content only if
\* that was acknowledged.
Issued ==
  engine.cards \cup {[form |-> t.arg, request |-> t.request] : t \in {t \in tasks : t.kind = "capture"}}
    \cup (IF page.attempt = None THEN {} ELSE {page.attempt})
Settled(r) == r \in past.acknowledged \/ past.forgotten
CapturesFit ==
  /\ \A c \in Issued : c.request[1] <= page.number /\ (c.request[1] = page.number => c.request[2] <= page.tries)
  /\ \A c, d \in Issued : c.request = d.request => c.form = d.form
  /\ \A c, d \in Issued : c.form = d.form /\ d.request[1] = c.request[1] /\ d.request[2] = c.request[2] + 1 => Settled(c.request)
  /\ page.attempt # None => page.attempt.request = <<page.number, page.tries>>
  /\ page.attempt = None => \A c \in Issued : c.request = <<page.number, page.tries>> => Settled(c.request)
  /\ \A t \in tasks : t.kind = "capture" /\ t.step = "refresh" => t.request \in past.acknowledged

\* One selection or change at a time is of the selected memory, and brings its history.
OfSelection == {t \in tasks : Context!OnPage(t) /\ t.kind \in {"select", "change"}}
HistoryFits ==
  ~past.failed /\ ~past.overlapped =>
    /\ page.history \in {page.selected, None} \/ OfSelection # {}
    /\ \A t \in OfSelection : t.arg = page.selected
    /\ \A s, t \in OfSelection : s = t

ContextInvariant == PartsTyped /\ FlowsStand /\ BusyFits /\ ConfigFits /\ ResultsFit /\ CapturesFit /\ HistoryFits

-----------------------------------------------------------------------------
(* Operations of a session, and what it counts. *)

\* What the client counts with is the library's.
LEMMA ContextCounts == \A S : Context!Cardinality(S) = Cardinality(S)
BY DEF Context!Cardinality, Cardinality

\* A refresh begins: the results are taken back, and nothing else runs for it.
LEMMA RefreshingIs ==
  ASSUME NEW s \in SessionStates
  PROVE  /\ Context!Refreshing(s) \in SessionStates
         /\ Context!Refreshing(s).pending = s.pending /\ Context!Refreshing(s).mutating = s.mutating /\ Context!Refreshing(s).loading
         /\ Context!Refreshing(s).sequence = s.sequence + 1 /\ Context!Refreshing(s).revision = s.revision
         /\ Context!Refreshing(s).config = s.config /\ Context!Refreshing(s).gate = s.gate + 1 /\ Context!Refreshing(s).results = None
<1>1. s.sequence + 1 \in Nat /\ s.gate + 1 \in Nat /\ None \in ResultLists \cup {None} /\ TRUE \in BOOLEAN
  BY DEF SessionStates
<1>2. Context!Refreshing(s) \in SessionStates
  BY <1>1 DEF Context!Refreshing, SessionStates
<1> QED BY <1>2 DEF Context!Refreshing, SessionStates

\* An operation begins.
LEMMA OperatingIs ==
  ASSUME NEW s \in SessionStates
  PROVE  /\ Context!Operating(s) \in SessionStates
         /\ Context!Operating(s).pending = s.pending + 1 /\ Context!Operating(s).mutating /\ Context!Operating(s).loading = s.loading
         /\ Context!Operating(s).sequence = s.sequence /\ Context!Operating(s).revision = s.revision /\ Context!Operating(s).config = s.config
         /\ Context!Operating(s).gate = s.gate /\ Context!Operating(s).results = s.results
<1>1. s.pending + 1 \in Nat /\ TRUE \in BOOLEAN
  BY DEF SessionStates
<1>2. Context!Operating(s) \in SessionStates
  BY <1>1 DEF Context!Operating, SessionStates
<1> QED BY <1>2 DEF Context!Operating, SessionStates

\* A search begins: the results of the one before are taken back.
LEMMA SearchingIs ==
  ASSUME NEW s \in SessionStates
  PROVE  /\ Context!Searching(s) \in SessionStates
         /\ Context!Searching(s).pending = s.pending + 1 /\ Context!Searching(s).mutating /\ Context!Searching(s).loading = s.loading
         /\ Context!Searching(s).sequence = s.sequence /\ Context!Searching(s).revision = s.revision /\ Context!Searching(s).config = s.config
         /\ Context!Searching(s).gate = s.gate + 1 /\ Context!Searching(s).results = None
<1>1. PICK r : r = [s EXCEPT !.gate = @ + 1, !.results = None]
  OBVIOUS
<1>2. s.gate + 1 \in Nat /\ None \in ResultLists \cup {None}
  BY DEF SessionStates
<1>3. r \in SessionStates
  BY <1>1, <1>2 DEF SessionStates
<1>4. /\ r.pending = s.pending /\ r.loading = s.loading /\ r.sequence = s.sequence /\ r.revision = s.revision
      /\ r.config = s.config /\ r.gate = s.gate + 1 /\ r.results = None
  BY <1>1, <1>2 DEF SessionStates
<1>5. Context!Searching(s) = Context!Operating(r)
  BY <1>1 DEF Context!Searching
<1> QED BY <1>3, <1>4, <1>5, OperatingIs

\* An operation is over.
LEMMA SessionFinishes ==
  ASSUME NEW s \in SessionStates, s.pending >= 1
  PROVE  /\ Context!Finished(s) \in SessionStates
         /\ Context!Finished(s).pending = s.pending - 1 /\ Context!Finished(s).mutating = (s.pending > 1)
         /\ Context!Finished(s).loading = s.loading /\ Context!Finished(s).sequence = s.sequence /\ Context!Finished(s).revision = s.revision
         /\ Context!Finished(s).config = s.config /\ Context!Finished(s).gate = s.gate /\ Context!Finished(s).results = s.results
<1>1. s.pending - 1 \in Nat /\ (s.pending > 1) \in BOOLEAN
  BY DEF SessionStates
<1> QED BY <1>1 DEF Context!Finished, SessionStates

\* A refresh that is not the latest changes nothing.
LEMMA SessionLoads ==
  ASSUME session \in SessionStates, NEW t, t.read \in Configs \cup {None}
  PROVE  /\ Context!Loaded(t) \in SessionStates
         /\ Context!Loaded(t).pending = session.pending /\ Context!Loaded(t).mutating = session.mutating
         /\ Context!Loaded(t).loading = (session.loading /\ t.sequence # session.sequence)
         /\ Context!Loaded(t).sequence = session.sequence /\ Context!Loaded(t).revision = session.revision
         /\ Context!Loaded(t).config = IF t.sequence = session.sequence /\ Context!Done(t) /\ t.revision = session.revision
                               THEN t.read ELSE session.config
         /\ Context!Loaded(t).gate = session.gate /\ Context!Loaded(t).results = session.results
<1>1. CASE t.sequence # session.sequence
  BY <1>1 DEF Context!Loaded, SessionStates
<1>2. CASE t.sequence = session.sequence
  <2>1. Context!Loaded(t) = [session EXCEPT !.loading = FALSE, !.config = IF Context!Done(t) /\ t.revision = session.revision THEN t.read ELSE @]
    BY <1>2 DEF Context!Loaded
  <2>2. Context!Loaded(t) \in SessionStates
    BY <2>1 DEF SessionStates
  <2> QED BY <1>2, <2>1, <2>2 DEF SessionStates
<1> QED BY <1>1, <1>2

\* What runs is finite, so that it can be counted.
LEMMA RunningCounts ==
  ASSUME FlowsStand, Context!BusyIsTrue
  PROVE  /\ IsFiniteSet(Context!Running) /\ session.pending = Cardinality(Context!Running) /\ session.pending \in Nat
         /\ \A t \in Context!Running : session.pending >= 1
<1>1. IsFiniteSet(Context!Running)
  BY FS_Subset DEF Context!Running, FlowsStand
<1>2. Cardinality(Context!Running) \in Nat
  BY <1>1, FS_CardinalityType
<1>3. ASSUME NEW t \in Context!Running PROVE session.pending >= 1
  <2>1. Cardinality(Context!Running) # 0
    BY <1>1, <1>3, FS_EmptySet
  <2> QED BY <1>2, <2>1, ContextCounts DEF Context!BusyIsTrue
<1> QED BY <1>1, <1>2, <1>3, ContextCounts DEF Context!BusyIsTrue

-----------------------------------------------------------------------------
(* What becomes of the flows. *)

SessionGrows ==
  session'.gate >= session.gate /\ session'.sequence >= session.sequence /\ session'.revision >= session.revision
Onward == generation' = generation /\ page'.number >= page.number /\ SessionGrows /\ (past.failed => past'.failed)

\* A flow that is not of the step stands as it did.
LEMMA OthersStand ==
  ASSUME PartsTyped, PartsTyped', FlowsStand, Onward, actions' \in {actions, actions - 1}, NEW t \in tasks
  PROVE  FlowStands(t)' /\ (t.answer = "failed" => past'.failed)
<1>1. FlowStands(t) /\ (t.answer = "failed" => past.failed)
  BY DEF FlowsStand
<1>2. t \in Flows
  BY <1>1 DEF FlowStands, FlowFits
<1>3. t.gate \in Nat /\ t.sequence \in Nat /\ t.revision \in Nat /\ t.generation \in Nat /\ t.page \in Nat /\ t.number \in Int
  BY <1>2 DEF Flows
<1>4. session \in SessionStates /\ session' \in SessionStates /\ page \in PageStates /\ page' \in PageStates
      /\ generation \in Nat /\ actions \in Nat
  BY DEF PartsTyped
<1>5. session.gate \in Nat /\ session.sequence \in Nat /\ session.revision \in Nat /\ page.number \in Nat
      /\ session'.gate \in Nat /\ session'.sequence \in Nat /\ session'.revision \in Nat /\ page'.number \in Nat
  BY <1>4 DEF SessionStates, PageStates
<1>6. t.page <= page'.number /\ (t.number > actions' \/ (t.number < 0 /\ t.number >= -generation'))
  BY <1>1, <1>3, <1>4, <1>5 DEF FlowStands, Onward
<1>7. Context!Current(t) => t.gate <= session'.gate /\ t.sequence <= session'.sequence /\ t.revision <= session'.revision
  BY <1>1, <1>3, <1>5 DEF FlowStands, Onward, SessionGrows
<1> QED BY <1>1, <1>6, <1>7 DEF FlowStands, FlowFits, Onward, Context!Current

\* A flow of the user's begins, under a new number.
LEMMA FlowBegins ==
  ASSUME PartsTyped, PartsTyped', FlowsStand, Onward, actions > 0, actions' = actions - 1,
         NEW n, tasks' = tasks \cup {n}, FlowStands(n)', n.number = actions, n.answer = None
  PROVE  FlowsStand' /\ n \notin tasks
<1>1. \A t \in tasks : t.number # actions
  BY DEF FlowsStand, FlowStands, FlowFits, Flows, PartsTyped
<1>2. IsFiniteSet(tasks')
  BY FS_AddElement DEF FlowsStand
<1>3. \A t \in tasks : FlowStands(t)' /\ (t.answer = "failed" => past'.failed)
  BY OthersStand
<1>4. n.answer # "failed"
  BY PartsAssumption DEF Context!ContextAssumption
<1>5. \A s, t \in tasks' : s.number = t.number => s = t
  BY <1>1 DEF FlowsStand
<1>6. \A t \in tasks' : FlowStands(t)' /\ (t.answer = "failed" => past'.failed)
  BY <1>3, <1>4
<1> QED BY <1>1, <1>2, <1>5, <1>6 DEF FlowsStand

\* A flow goes on.
LEMMA FlowContinues ==
  ASSUME PartsTyped, PartsTyped', FlowsStand, Onward, actions' = actions, NEW t \in tasks,
         NEW n, tasks' = (tasks \ {t}) \cup {n}, FlowStands(n)', n.number = t.number, n.answer = "failed" => past'.failed
  PROVE  FlowsStand' /\ n \notin tasks \ {t}
<1>1. \A s \in tasks \ {t} : s.number # n.number
  BY DEF FlowsStand
<1>2. IsFiniteSet(tasks')
  BY FS_AddElement, FS_RemoveElement DEF FlowsStand
<1>3. \A s \in tasks : FlowStands(s)' /\ (s.answer = "failed" => past'.failed)
  BY OthersStand
<1>5. \A r, s \in tasks' : r.number = s.number => r = s
  BY <1>1 DEF FlowsStand
<1>6. \A s \in tasks' : FlowStands(s)' /\ (s.answer = "failed" => past'.failed)
  BY <1>3
<1> QED BY <1>1, <1>2, <1>5, <1>6 DEF FlowsStand

\* Flows end.
LEMMA FlowEnds ==
  ASSUME PartsTyped, PartsTyped', FlowsStand, Onward, actions' \in {actions, actions - 1}, tasks' \subseteq tasks
  PROVE  FlowsStand'
<1>2. IsFiniteSet(tasks')
  BY FS_Subset DEF FlowsStand
<1>3. \A s \in tasks : FlowStands(s)' /\ (s.answer = "failed" => past'.failed)
  BY OthersStand
<1> QED BY <1>2, <1>3 DEF FlowsStand

-----------------------------------------------------------------------------
(* What is counted. *)

Counts(s, R) == s.pending = Cardinality(R) /\ (s.mutating <=> R # {})
Loads_(s, T) == s.loading <=> \E t \in T : Context!Current(t) /\ t.step = "refresh" /\ t.sequence = s.sequence

\* One more runs.
LEMMA CountGrows ==
  ASSUME NEW s \in SessionStates, NEW R, IsFiniteSet(R), Counts(s, R), NEW n, n \notin R
  PROVE  Counts(Context!Operating(s), R \cup {n}) /\ Counts(Context!Searching(s), R \cup {n})
<1>1. Cardinality(R \cup {n}) = Cardinality(R) + 1
  BY FS_AddElement
<1> QED BY <1>1, OperatingIs, SearchingIs DEF Counts

\* One less runs.
LEMMA CountShrinks ==
  ASSUME NEW s \in SessionStates, NEW R, IsFiniteSet(R), Counts(s, R), NEW t \in R
  PROVE  s.pending >= 1 /\ Counts(Context!Finished(s), R \ {t}) /\ IsFiniteSet(R \ {t})
<1>1. IsFiniteSet(R \ {t}) /\ Cardinality(R \ {t}) = Cardinality(R) - 1
  BY FS_RemoveElement
<1>2. Cardinality(R) \in Nat /\ Cardinality(R \ {t}) \in Nat
  BY <1>1, FS_CardinalityType
<1>3. s.pending >= 1
  BY <1>1, <1>2 DEF Counts
<1>4. (s.pending > 1) <=> R \ {t} # {}
  <2>1. R \ {t} = {} <=> Cardinality(R \ {t}) = 0
    BY <1>1, FS_EmptySet
  <2> QED BY <1>1, <1>2, <2>1 DEF Counts
<1>5. Context!Finished(s).pending = Cardinality(R \ {t})
  BY <1>1, <1>3, SessionFinishes DEF Counts
<1> QED BY <1>1, <1>3, <1>4, <1>5, SessionFinishes DEF Counts

\* The latest refresh is the one that is waited for.
RefreshesApart(T) == \A s, t \in T : Context!Current(s) /\ Context!Current(t) /\ s.step = "refresh" /\ t.step = "refresh" /\ s.sequence = t.sequence => s = t
UpdatesApart(T) == \A s, t \in T : Context!Current(s) /\ Context!Current(t) /\ s.kind = "update" /\ t.kind = "update" => s = t

\* What is counted, and that the latest refresh and the update are alone.
LEMMA BusyIs == BusyFits <=> Counts(session, Context!Running) /\ Loads_(session, tasks) /\ RefreshesApart(tasks) /\ UpdatesApart(tasks)
BY ContextCounts DEF BusyFits, Context!BusyIsTrue, Counts, Loads_, RefreshesApart, UpdatesApart

\* What runs is known: it suffices to look at refreshes and updates.
LEMMA BusyRemains ==
  ASSUME BusyFits, generation' = generation, Counts(session', Context!Running'),
         session'.sequence = session.sequence, session'.loading = session.loading,
         \A n \in tasks' : n \in tasks \/ (n.step # "refresh" /\ n.kind # "update"),
         \A t \in tasks : Context!Current(t) /\ t.step = "refresh" => t \in tasks'
  PROVE  BusyFits'
<1>1. Loads_(session', tasks')
  BY BusyIs DEF Loads_, Context!Current
<1>2. RefreshesApart(tasks') /\ UpdatesApart(tasks')
  BY BusyIs DEF RefreshesApart, UpdatesApart, Context!Current
<1> QED BY <1>1, <1>2, BusyIs, ContextCounts DEF Counts, Loads_, RefreshesApart, UpdatesApart, BusyFits,
   Context!BusyIsTrue, Context!Current

\* A refresh begins.
LEMMA BusyRefreshes ==
  ASSUME PartsTyped, FlowsStand, BusyFits, generation' = generation, Counts(session', Context!Running'),
         session'.sequence = session.sequence + 1, session'.loading,
         NEW n, n \in tasks', tasks' \subseteq tasks \cup {n}, Context!Current(n), n.step = "refresh", n.kind # "update",
         n.sequence = session.sequence + 1
  PROVE  BusyFits'
<1>0. session.sequence \in Nat
  BY DEF PartsTyped, SessionStates
<1>1. \A t \in tasks : Context!Current(t) => t.sequence # session.sequence + 1
  BY <1>0 DEF FlowsStand, FlowStands, FlowFits, Flows
<1>2. Loads_(session', tasks')
  BY DEF Loads_
<1>3. RefreshesApart(tasks') /\ UpdatesApart(tasks')
  BY <1>1, BusyIs DEF RefreshesApart, UpdatesApart
<1> QED BY <1>2, <1>3, ContextCounts DEF Counts, Loads_, RefreshesApart, UpdatesApart, BusyFits,
   Context!BusyIsTrue, Context!Current

\* A refresh is over: only the latest one ends the loading.
LEMMA BusyLoaded ==
  ASSUME PartsTyped, BusyFits, generation' = generation, Counts(session', Context!Running'), NEW t \in tasks, Context!Current(t), t.step = "refresh",
         session'.sequence = session.sequence, session'.loading = (session.loading /\ t.sequence # session.sequence),
         tasks \ {t} \subseteq tasks', t \notin tasks',
         \A n \in tasks' : n \in tasks \/ (n.step # "refresh" /\ n.kind # "update")
  PROVE  BusyFits'
<1>1. RefreshesApart(tasks') /\ UpdatesApart(tasks')
  BY BusyIs DEF RefreshesApart, UpdatesApart
<1>2. Loads_(session', tasks')
  <2>1. CASE t.sequence = session.sequence
    <3>1. \A s \in tasks' : Context!Current(s) /\ s.step = "refresh" => s.sequence # session.sequence
      BY <2>1, BusyIs DEF RefreshesApart
    <3> QED BY <2>1, <3>1 DEF Loads_
  <2>2. CASE t.sequence # session.sequence
    BY <2>2, BusyIs DEF Loads_
  <2> QED BY <2>1, <2>2
<1> QED BY <1>1, <1>2, ContextCounts DEF Counts, Loads_, RefreshesApart, UpdatesApart, BusyFits,
   Context!BusyIsTrue, Context!Current

-----------------------------------------------------------------------------
(* What an action leaves as it is. *)

\* The settings show what they did, when no update and no answer of a refresh comes.
LEMMA ConfigRemains ==
  ASSUME PartsTyped, ConfigFits, generation' = generation, engine'.config = engine.config,
         session'.revision = session.revision, session'.config = session.config,
         past.failed => past'.failed, past.left => past'.left,
         \A u \in tasks : u.kind = "update" /\ Context!Current(u) => u \in tasks',
         \A n \in tasks' : n \in tasks \/ (n.kind # "update" /\ (n.step = "refresh" => n.answer # "done"))
  PROVE  ConfigFits'
<1>1. \A u \in tasks' : u.kind = "update" => u \in tasks
  OBVIOUS
<1>2. \A t \in tasks' : t.step = "refresh" /\ t.answer = "done" => t \in tasks
  OBVIOUS
<1>3. \A u \in tasks' : u.kind = "update" /\ Context!Current(u) => u.revision = session'.revision
  BY <1>1 DEF ConfigFits
<1>4. ASSUME ~past'.failed, ~past'.left
      PROVE  /\ \A u \in tasks' : u.kind = "update" => Context!Current(u) /\ (u.answer = "done" => engine'.config = u.arg)
             /\ (\A u \in tasks' : u.kind # "update") =>
                  /\ session'.config \in {engine'.config, None}
                  /\ \A t \in tasks' : Context!Current(t) /\ t.step = "refresh" /\ t.answer = "done" /\ t.revision = session'.revision
                       => t.read = engine'.config
  <2>1. ~past.failed /\ ~past.left
    BY <1>4
  <2> QED BY <1>1, <1>2, <2>1 DEF ConfigFits
<1> QED BY <1>3, <1>4 DEF ConfigFits, Context!Current

\* The results shown are of the query, when none come.
LEMMA ResultsRemain ==
  ASSUME PartsTyped, PartsTyped', FlowsStand, ResultsFit, generation' = generation, page'.query = page.query,
         session'.results \in {session.results, None}, page'.clean = page.clean, past.repeated => past'.repeated,
         session'.gate >= session.gate,
         \A n \in tasks' : n \in tasks \/ n.kind \notin {"search", "more"} \/ n.query = page.query
                            \/ n.gate # session'.gate \/ ~Context!Current(n) \/ page.query = None \/ past.repeated
  PROVE  ResultsFit'
<1>0. session.gate \in Nat /\ session'.gate \in Nat
  BY DEF PartsTyped, SessionStates
<1>1. ASSUME page'.query # None, ~past'.repeated, NEW t \in tasks', Context!Current(t), t.kind \in {"search", "more"}, t.gate = session'.gate
      PROVE  t.query = page'.query
  <2>1. CASE t \in tasks
    <3>1. t.gate <= session.gate /\ t.gate \in Nat
      BY <1>1, <2>1 DEF FlowsStand, FlowStands, FlowFits, Flows
    <3>2. t.gate = session.gate
      BY <1>0, <1>1, <3>1
    <3> QED BY <1>1, <2>1, <3>2 DEF ResultsFit
  <2>2. CASE t \notin tasks
    BY <1>1, <2>2
  <2> QED BY <2>1, <2>2
<1>2. page'.query # None /\ ~past'.repeated /\ session'.results # None /\ page'.clean => session'.results.queries = {page'.query}
  BY DEF ResultsFit
<1> QED BY <1>1, <1>2 DEF ResultsFit, Context!Current

\* Whatever was issued before.
LEMMA CapturesRemain ==
  ASSUME CapturesFit, Issued' \subseteq Issued, page'.number = page.number, page'.tries = page.tries, page'.attempt = page.attempt,
         past.acknowledged \subseteq past'.acknowledged, past.forgotten => past'.forgotten,
         \A t \in tasks' : t.kind = "capture" /\ t.step = "refresh" => t.request \in past'.acknowledged
  PROVE  CapturesFit'
<1>1. \A r : Settled(r) => Settled(r)'
  BY DEF Settled
<1> QED BY <1>1 DEF CapturesFit

\* No attempt is made.
LEMMA IssuedRemains ==
  ASSUME engine'.cards = engine.cards, page'.attempt = page.attempt,
         \A n \in tasks' : n.kind = "capture" => \E t \in tasks : t.kind = "capture" /\ t.arg = n.arg /\ t.request = n.request
  PROVE  Issued' \subseteq Issued
BY DEF Issued

\* Nothing is selected or changed.
LEMMA HistoryRemains ==
  ASSUME HistoryFits, generation' = generation, page'.number = page.number, page'.selected = page.selected,
         page'.history = page.history, past.failed => past'.failed, past.overlapped => past'.overlapped,
         \A n \in tasks' : n \in tasks \/ n.kind \notin {"select", "change"},
         \A t \in tasks : t \in tasks' \/ t \notin OfSelection
  PROVE  HistoryFits'
<1>1. OfSelection' = OfSelection
  BY DEF OfSelection, Context!OnPage, Context!Current
<1> QED BY <1>1 DEF HistoryFits

\* A flow of the selection goes on.
LEMMA HistoryContinues ==
  ASSUME HistoryFits, generation' = generation, page'.number = page.number, page'.selected = page.selected,
         page'.history = page.history, past.failed => past'.failed, past.overlapped => past'.overlapped,
         NEW t \in tasks, NEW n, tasks' = (tasks \ {t}) \cup {n}, n.kind = t.kind, n.arg = t.arg,
         n.generation = t.generation, n.page = t.page
  PROVE  HistoryFits'
<1>1. CASE t \in OfSelection
  <2>1. OfSelection' = (OfSelection \ {t}) \cup {n}
    BY <1>1 DEF OfSelection, Context!OnPage, Context!Current
  <2> QED BY <1>1, <2>1 DEF HistoryFits
<1>2. CASE t \notin OfSelection
  <2>1. OfSelection' = OfSelection
    BY <1>2 DEF OfSelection, Context!OnPage, Context!Current
  <2> QED BY <2>1 DEF HistoryFits
<1> QED BY <1>1, <1>2

-----------------------------------------------------------------------------
(* The user starts a flow. *)

\* A flow of the page now shown.
LEMMA TaskIs ==
  ASSUME PartsTyped, NEW kind \in ContextKinds, NEW arg \in Configs \cup Forms \cup Memories \cup {None}, NEW step \in ContextSteps
  PROVE  /\ Context!Task(kind, arg, step) \in Flows
         /\ Context!Task(kind, arg, step).number = actions /\ Context!Task(kind, arg, step).generation = generation
         /\ Context!Task(kind, arg, step).page = page.number /\ Context!Task(kind, arg, step).kind = kind
         /\ Context!Task(kind, arg, step).arg = arg /\ Context!Task(kind, arg, step).step = step /\ Context!Task(kind, arg, step).answer = None
         /\ Context!Task(kind, arg, step).gate = 0 /\ Context!Task(kind, arg, step).sequence = 0 /\ Context!Task(kind, arg, step).revision = 0
         /\ Context!Task(kind, arg, step).request = None /\ Context!Task(kind, arg, step).query = page.query
BY DEF Context!Task, Flows, PartsTyped, PageStates

\* A flow goes on with a refresh.
LEMMA RefreshTaskIs ==
  ASSUME NEW t \in Flows, NEW s \in SessionStates
  PROVE  LET n == Context!RefreshTask(t, s)
         IN /\ n \in Flows /\ n.number = t.number /\ n.generation = t.generation /\ n.page = t.page /\ n.kind = t.kind
            /\ n.arg = t.arg /\ n.step = "refresh" /\ n.answer = None /\ n.read = t.read /\ n.gate = t.gate
            /\ n.sequence = s.sequence + 1 /\ n.revision = s.revision /\ n.request = t.request /\ n.query = t.query
<1>1. s.sequence + 1 \in Nat /\ s.revision \in Nat /\ "refresh" \in ContextSteps /\ None \in Outcomes \cup {None}
  BY DEF SessionStates, ContextSteps
<1>2. Context!RefreshTask(t, s) \in Flows
  BY <1>1 DEF Context!RefreshTask, Flows
<1> QED BY <1>2 DEF Context!RefreshTask, Flows

\* A flow goes on with a search.
LEMMA SearchTaskIs ==
  ASSUME NEW t \in Flows, NEW s \in SessionStates
  PROVE  LET n == Context!SearchTask(t, s)
         IN /\ n \in Flows /\ n.number = t.number /\ n.generation = t.generation /\ n.page = t.page /\ n.kind = t.kind
            /\ n.arg = t.arg /\ n.step = "search" /\ n.answer = None /\ n.read = t.read /\ n.gate = s.gate + 1
            /\ n.sequence = t.sequence /\ n.revision = t.revision /\ n.request = t.request /\ n.query = t.query
<1>1. s.gate + 1 \in Nat /\ "search" \in ContextSteps /\ None \in Outcomes \cup {None}
  BY DEF SessionStates, ContextSteps, Context!Operations
<1>2. Context!SearchTask(t, s) \in Flows
  BY <1>1 DEF Context!SearchTask, Flows
<1> QED BY <1>2 DEF Context!SearchTask, Flows

\* What they all have in common: an operation of the session begins.
LEMMA OperationBegins ==
  ASSUME ContextInvariant, actions > 0, actions' = actions - 1, generation' = generation, UNCHANGED <<engine, moves, faults>>,
         session' \in SessionStates, session'.pending = session.pending + 1, session'.mutating,
         session'.loading = session.loading, session'.sequence = session.sequence, session'.revision = session.revision,
         session'.config = session.config, session'.gate >= session.gate, session'.results \in {session.results, None},
         page' \in PageStates, page'.number = page.number, page'.query = page.query, page'.clean = page.clean,
         past' \in PastStates, past'.failed = past.failed, past'.left = past.left, past'.repeated = past.repeated,
         NEW n, tasks' = tasks \cup {n}, FlowFits(n), n.number = actions, n.generation = generation, n.page = page.number,
         n.answer = None, n.step \in Context!Operations, n.kind # "update", n.gate <= session'.gate, n.sequence = 0, n.revision = 0,
         n.query = page.query
  PROVE  PartsTyped' /\ FlowsStand' /\ BusyFits' /\ ConfigFits' /\ ResultsFit'
<1>. USE DEF ContextInvariant
<1>1. PartsTyped'
  BY DEF PartsTyped
<1>2. Onward
  BY <1>1 DEF Onward, SessionGrows, PartsTyped, SessionStates, PageStates
<1>3. FlowStands(n)'
  <2>1. page'.number \in Nat /\ generation \in Nat /\ actions \in Nat /\ session'.sequence \in Nat /\ session'.revision \in Nat
    BY <1>1 DEF PartsTyped, SessionStates, PageStates
  <2>2. n.page <= page'.number /\ n.generation <= generation' /\ n.number > actions'
    BY <2>1
  <2>3. FlowFits(n)'
    BY DEF FlowFits
  <2> QED BY <2>1, <2>2, <2>3 DEF FlowStands
<1>4. FlowsStand' /\ n \notin tasks
  BY <1>1, <1>2, <1>3, FlowBegins
<1>5. Context!Running' = Context!Running \cup {n}
  BY DEF Context!Running, Context!Current
<1>6. Counts(session', Context!Running')
  <2>1. IsFiniteSet(Context!Running) /\ n \notin Context!Running
    BY <1>4, RunningCounts DEF BusyFits, Context!Running
  <2>2. Cardinality(Context!Running \cup {n}) = Cardinality(Context!Running) + 1
    BY <2>1, FS_AddElement
  <2>3. session.pending = Cardinality(Context!Running)
    BY ContextCounts DEF BusyFits, Context!BusyIsTrue
  <2> QED BY <1>5, <2>2, <2>3 DEF Counts
<1>7. n.step # "refresh"
  BY DEF Context!Operations
<1>8. BusyFits'
  BY <1>6, <1>7, BusyRemains
<1>9. ConfigFits'
  BY <1>7, ConfigRemains
<1>10. ResultsFit'
  BY <1>1, ResultsRemain
<1> QED BY <1>1, <1>4, <1>8, <1>9, <1>10

\* Nothing is captured or selected by it.
LEMMA OthersRemain ==
  ASSUME ContextInvariant, generation' = generation, UNCHANGED <<engine, page, past>>,
         NEW n, tasks' = tasks \cup {n}, n.kind \notin {"capture", "select", "change"}
  PROVE  CapturesFit' /\ HistoryFits'
<1>. USE DEF ContextInvariant
<1>1. Issued' \subseteq Issued
  BY IssuedRemains
<1>2. \A t \in tasks' : t.kind = "capture" /\ t.step = "refresh" => t.request \in past'.acknowledged
  BY DEF CapturesFit
<1> QED BY <1>1, <1>2, CapturesRemain, HistoryRemains

\* Everything is read again.
LEMMA RefreshKeeps ==
  ASSUME ContextInvariant, Context!Refresh
  PROVE  ContextInvariant'
<1>. USE DEF ContextInvariant
<1>1. PICK n : n = Context!RefreshTask(Context!Task("refresh", None, "refresh"), session)
  OBVIOUS
<1>2. /\ n \in Flows /\ n.number = actions /\ n.generation = generation /\ n.page = page.number /\ n.kind = "refresh"
      /\ n.step = "refresh" /\ n.answer = None /\ n.gate = 0 /\ n.sequence = session.sequence + 1 /\ n.revision = session.revision
  <2>1. PICK t : t = Context!Task("refresh", None, "refresh")
    OBVIOUS
  <2>2. /\ t \in Flows /\ t.number = actions /\ t.generation = generation /\ t.page = page.number /\ t.kind = "refresh" /\ t.gate = 0
    BY <2>1, TaskIs DEF ContextKinds, ContextSteps
  <2>3. session \in SessionStates
    BY DEF PartsTyped
  <2> QED BY <1>1, <2>1, <2>2, <2>3, RefreshTaskIs
<1>3. /\ tasks' = tasks \cup {n} /\ session' = Context!Refreshing(session) /\ actions > 0 /\ actions' = actions - 1
      /\ UNCHANGED <<generation, engine, moves, faults, page, past>>
  BY <1>1 DEF Context!Refresh, Context!Start, Context!Acts, Context!Quiet
<1>4. session \in SessionStates
  BY DEF PartsTyped
<1>5. /\ session' \in SessionStates /\ session'.pending = session.pending /\ session'.mutating = session.mutating
      /\ session'.loading /\ session'.sequence = session.sequence + 1 /\ session'.revision = session.revision
      /\ session'.config = session.config /\ session'.gate = session.gate + 1 /\ session'.results = None
  BY <1>3, <1>4, RefreshingIs
<1>6. PartsTyped'
  BY <1>3, <1>5 DEF PartsTyped
<1>7. session.gate \in Nat /\ session.sequence \in Nat /\ session.revision \in Nat /\ page.number \in Nat /\ actions \in Nat /\ generation \in Nat
  BY DEF PartsTyped, SessionStates, PageStates
<1>8. Onward
  BY <1>3, <1>5, <1>7 DEF Onward, SessionGrows
<1>9. FlowStands(n)'
  <2>1. FlowFits(n)'
    BY <1>2, PartsAssumption DEF FlowFits, Context!ContextAssumption
  <2> QED BY <1>2, <1>3, <1>5, <1>7, <2>1 DEF FlowStands
<1>10. FlowsStand' /\ n \notin tasks
  BY <1>2, <1>3, <1>6, <1>8, <1>9, FlowBegins
<1>11. Context!Running' = Context!Running
  BY <1>2, <1>3 DEF Context!Running, Context!Current, Context!Operations
<1>12. Counts(session', Context!Running')
  BY <1>5, <1>11, BusyIs DEF Counts
<1>13. BusyFits'
  BY <1>2, <1>3, <1>5, <1>12, BusyRefreshes DEF Context!Current
<1>14. ConfigFits'
  BY <1>2, <1>3, <1>5, ConfigRemains, PartsAssumption DEF Context!ContextAssumption
<1>15. ResultsFit'
  BY <1>2, <1>3, <1>5, <1>6, <1>7, ResultsRemain
<1>16. CapturesFit' /\ HistoryFits'
  BY <1>2, <1>3, OthersRemain
<1> QED BY <1>6, <1>10, <1>13, <1>14, <1>15, <1>16

\* An operation that leaves the page as it is.
LEMMA PlainOperation ==
  ASSUME ContextInvariant, NEW kind \in ContextKinds \ {"update", "capture", "select", "change"}, NEW step \in Context!Operations,
         NEW n, n = [Context!Task(kind, None, step) EXCEPT !.gate = n.gate], n.gate \in Nat, n.gate <= session'.gate, FlowFits(n),
         tasks' = tasks \cup {n}, actions > 0, actions' = actions - 1, UNCHANGED <<generation, engine, moves, faults, page, past>>,
         session' \in SessionStates, session'.pending = session.pending + 1, session'.mutating,
         session'.loading = session.loading, session'.sequence = session.sequence, session'.revision = session.revision,
         session'.config = session.config, session'.gate >= session.gate, session'.results \in {session.results, None}
  PROVE  ContextInvariant'
<1>1. kind \in ContextKinds /\ step \in ContextSteps /\ PartsTyped
  BY DEF ContextSteps, ContextInvariant
<1>2. /\ n.number = actions /\ n.generation = generation /\ n.page = page.number /\ n.kind = kind /\ n.step = step
      /\ n.answer = None /\ n.sequence = 0 /\ n.revision = 0 /\ n.query = page.query
  BY <1>1, TaskIs DEF Flows
<1>3. PartsTyped' /\ FlowsStand' /\ BusyFits' /\ ConfigFits' /\ ResultsFit'
  BY <1>1, <1>2, OperationBegins DEF PartsTyped
<1>4. CapturesFit' /\ HistoryFits'
  BY <1>2, OthersRemain
<1> QED BY <1>3, <1>4 DEF ContextInvariant

\* A search is asked for.
LEMMA SearchKeeps ==
  ASSUME ContextInvariant, Context!Search
  PROVE  ContextInvariant'
<1>. USE DEF ContextInvariant
<1>1. PICK n : n = Context!SearchTask(Context!Task("search", None, "search"), session)
  OBVIOUS
<1>2. Context!Task("search", None, "search") \in Flows /\ session \in SessionStates
  BY TaskIs DEF ContextKinds, ContextSteps, Context!Operations, PartsTyped
<1>3. session.gate \in Nat
  BY <1>2 DEF SessionStates
<1>4. /\ n = [Context!Task("search", None, "search") EXCEPT !.gate = session.gate + 1] /\ n \in Flows /\ n.gate = session.gate + 1
      /\ n.kind = "search" /\ n.step = "search" /\ n.query = page.query /\ n.answer = None
  <2>1. Context!Task("search", None, "search").step = "search" /\ Context!Task("search", None, "search").answer = None
        /\ Context!Task("search", None, "search").kind = "search" /\ Context!Task("search", None, "search").query = page.query
    BY TaskIs DEF ContextKinds, ContextSteps, Context!Operations
  <2>2. n = [Context!Task("search", None, "search") EXCEPT !.gate = session.gate + 1]
    BY <1>1, <1>2, <2>1 DEF Context!SearchTask, Flows
  <2> QED BY <1>2, <1>3, <2>1, <2>2 DEF Flows
<1>5. /\ tasks' = tasks \cup {n} /\ session' = Context!Searching(session) /\ actions > 0 /\ actions' = actions - 1
      /\ UNCHANGED <<generation, engine, moves, faults, page, past>> /\ page.query # None
  BY <1>1 DEF Context!Search, Context!Start, Context!Acts, Context!Quiet
<1>6. page.query \in Queries
  BY <1>5 DEF PartsTyped, PageStates
<1>7. FlowFits(n)
  BY <1>4, <1>6, PartsAssumption DEF FlowFits, Context!ContextAssumption
<1>8. session' \in SessionStates /\ session'.pending = session.pending + 1 /\ session'.mutating
      /\ session'.loading = session.loading /\ session'.sequence = session.sequence /\ session'.revision = session.revision
      /\ session'.config = session.config /\ session'.gate = session.gate + 1 /\ session'.results = None
  BY <1>2, <1>5, SearchingIs
<1>9. session'.gate >= session.gate /\ n.gate \in Nat /\ n.gate <= session'.gate
  BY <1>3, <1>4, <1>8
<1> QED BY <1>4, <1>5, <1>7, <1>8, <1>9, PlainOperation DEF ContextKinds, Context!Operations

\* The next page is asked for with the query now in the field.
LEMMA LoadMoreKeeps ==
  ASSUME ContextInvariant, Context!LoadMore
  PROVE  ContextInvariant'
<1>. USE DEF ContextInvariant
<1>1. PICK n : n = [Context!Task("more", None, "more") EXCEPT !.gate = session.gate + 1]
  OBVIOUS
<1>2. Context!Task("more", None, "more") \in Flows /\ session \in SessionStates
  BY TaskIs DEF ContextKinds, ContextSteps, Context!Operations, PartsTyped
<1>3. session.gate \in Nat
  BY <1>2 DEF SessionStates
<1>4. /\ n \in Flows /\ n.gate = session.gate + 1
      /\ n.kind = "more" /\ n.step = "more" /\ n.query = page.query /\ n.answer = None
  BY <1>1, <1>2, <1>3, TaskIs DEF Flows, ContextKinds, ContextSteps, Context!Operations
<1>5. /\ tasks' = tasks \cup {n} /\ session' = Context!Operating([session EXCEPT !.gate = @ + 1]) /\ actions > 0 /\ actions' = actions - 1
      /\ UNCHANGED <<generation, engine, moves, faults, page, past>> /\ page.query # None
  BY <1>1 DEF Context!LoadMore, Context!Start, Context!Acts, Context!Quiet
<1>6. page.query \in Queries
  BY <1>5 DEF PartsTyped, PageStates
<1>7. FlowFits(n)
  BY <1>4, <1>6, PartsAssumption DEF FlowFits, Context!ContextAssumption
<1>8. session' \in SessionStates /\ session'.pending = session.pending + 1 /\ session'.mutating
      /\ session'.loading = session.loading /\ session'.sequence = session.sequence /\ session'.revision = session.revision
      /\ session'.config = session.config /\ session'.gate = session.gate + 1 /\ session'.results = session.results
  <2>1. [session EXCEPT !.gate = @ + 1] \in SessionStates
    BY <1>2 DEF SessionStates
  <2>2. PICK s : s = [session EXCEPT !.gate = @ + 1]
    OBVIOUS
  <2>3. s.pending = session.pending /\ s.loading = session.loading /\ s.sequence = session.sequence /\ s.revision = session.revision
        /\ s.config = session.config /\ s.gate = session.gate + 1 /\ s.results = session.results
    BY <1>2, <2>2 DEF SessionStates
  <2> QED BY <1>5, <2>1, <2>2, <2>3, OperatingIs
<1>9. session'.gate >= session.gate /\ n.gate \in Nat /\ n.gate <= session'.gate
  BY <1>3, <1>4, <1>8
<1>10. n = [Context!Task("more", None, "more") EXCEPT !.gate = n.gate]
  BY <1>1, <1>4
<1> QED BY <1>4, <1>5, <1>7, <1>8, <1>9, <1>10, PlainOperation DEF ContextKinds, Context!Operations

\* A card's source is opened.
LEMMA OpenSourceKeeps ==
  ASSUME ContextInvariant, Context!OpenSource
  PROVE  ContextInvariant'
<1>. USE DEF ContextInvariant
<1>1. PICK n : n = Context!Task("open", None, "resolve")
  OBVIOUS
<1>2. session \in SessionStates /\ session.gate \in Nat
  BY DEF PartsTyped, SessionStates
<1>4. n \in Flows /\ n.gate = 0 /\ n.kind = "open" /\ n.step = "resolve" /\ n.answer = None
  BY <1>1, TaskIs DEF ContextKinds, ContextSteps, Context!Operations
<1>5. /\ tasks' = tasks \cup {n} /\ session' = Context!Operating(session) /\ actions > 0 /\ actions' = actions - 1
      /\ UNCHANGED <<generation, engine, moves, faults, page, past>>
  BY <1>1 DEF Context!OpenSource, Context!Start, Context!Acts, Context!Quiet
<1>7. FlowFits(n)
  BY <1>4, PartsAssumption DEF FlowFits, Context!ContextAssumption
<1>9. n = [Context!Task("open", None, "resolve") EXCEPT !.gate = n.gate]
  BY <1>1, <1>4 DEF Flows
<1> QED BY <1>2, <1>4, <1>5, <1>7, <1>9, OperatingIs, PlainOperation DEF ContextKinds, Context!Operations

\* The review of a card is confirmed.
LEMMA ReviewKeeps ==
  ASSUME ContextInvariant, Context!Review
  PROVE  ContextInvariant'
<1>. USE DEF ContextInvariant
<1>1. PICK n : n = Context!Task("review", None, "review")
  OBVIOUS
<1>2. session \in SessionStates /\ session.gate \in Nat
  BY DEF PartsTyped, SessionStates
<1>4. n \in Flows /\ n.gate = 0 /\ n.kind = "review" /\ n.step = "review" /\ n.answer = None
  BY <1>1, TaskIs DEF ContextKinds, ContextSteps, Context!Operations
<1>5. /\ tasks' = tasks \cup {n} /\ session' = Context!Operating(session) /\ actions > 0 /\ actions' = actions - 1
      /\ UNCHANGED <<generation, engine, moves, faults, page, past>>
  BY <1>1 DEF Context!Review, Context!Start, Context!Acts, Context!Quiet
<1>7. FlowFits(n)
  BY <1>4, PartsAssumption DEF FlowFits, Context!ContextAssumption
<1>9. n = [Context!Task("review", None, "review") EXCEPT !.gate = n.gate]
  BY <1>1, <1>4 DEF Flows
<1> QED BY <1>2, <1>4, <1>5, <1>7, <1>9, OperatingIs, PlainOperation DEF ContextKinds, Context!Operations

\* A selection or a change is the only one, unless it overlaps another.
LEMMA SelectionBegins ==
  ASSUME ContextInvariant, generation' = generation, page'.number = page.number, NEW n, tasks' = tasks \cup {n},
         n.generation = generation, n.page = page.number, n.kind \in {"select", "change"}, n.arg = page'.selected,
         past'.overlapped = (past.overlapped \/ OfSelection # {}), page'.number = page.number
  PROVE  HistoryFits'
<1>1. n \in OfSelection' /\ OfSelection' = OfSelection \cup {n}
  BY DEF OfSelection, Context!OnPage, Context!Current
<1>2. ~past'.overlapped => OfSelection' = {n}
  BY <1>1
<1> QED BY <1>1, <1>2 DEF HistoryFits

\* A memory is selected: its history is not shown yet.
LEMMA SelectKeeps ==
  ASSUME ContextInvariant, NEW m \in Memories, NEW edit \in BOOLEAN, Context!Select(m, edit)
  PROVE  ContextInvariant'
<1>. USE DEF ContextInvariant
<1>1. PICK n : n = Context!Task("select", m, "history")
  OBVIOUS
<1>2. session \in SessionStates /\ session.gate \in Nat /\ page \in PageStates /\ past \in PastStates
  BY DEF PartsTyped, SessionStates
<1>4. /\ n \in Flows /\ n.gate = 0 /\ n.kind = "select" /\ n.step = "history" /\ n.answer = None /\ n.arg = m
      /\ n.number = actions /\ n.generation = generation /\ n.page = page.number /\ n.sequence = 0 /\ n.revision = 0
      /\ n.query = page.query
  BY <1>1, TaskIs DEF ContextKinds, ContextSteps, Context!Operations
<1>5. /\ tasks' = tasks \cup {n} /\ session' = Context!Operating(session) /\ actions > 0 /\ actions' = actions - 1
      /\ UNCHANGED <<generation, engine, moves, faults>>
      /\ page' = [page EXCEPT !.selected = m, !.editing = edit]
      /\ past' = [past EXCEPT !.overlapped = @ \/ \E t \in tasks : Context!OnPage(t) /\ t.kind \in {"select", "change"}]
  BY <1>1 DEF Context!Select, Context!Start, Context!Acts, Context!Quiet
<1>6. /\ page' \in PageStates /\ page'.number = page.number /\ page'.query = page.query /\ page'.clean = page.clean
      /\ page'.selected = m /\ page'.attempt = page.attempt /\ page'.tries = page.tries
  BY <1>2, <1>5 DEF PageStates
<1>7. /\ past' \in PastStates /\ past'.failed = past.failed /\ past'.left = past.left /\ past'.repeated = past.repeated
      /\ past'.acknowledged = past.acknowledged /\ past'.forgotten = past.forgotten
      /\ past'.overlapped = (past.overlapped \/ OfSelection # {})
  <2>1. (\E t \in tasks : Context!OnPage(t) /\ t.kind \in {"select", "change"}) <=> OfSelection # {}
    BY DEF OfSelection
  <2>2. past' = [past EXCEPT !.overlapped = @ \/ OfSelection # {}]
    BY <1>5, <2>1
  <2> QED BY <1>2, <2>2 DEF PastStates
<1>8. FlowFits(n)
  BY <1>4, PartsAssumption DEF FlowFits, Context!ContextAssumption
<1>9. PartsTyped' /\ FlowsStand' /\ BusyFits' /\ ConfigFits' /\ ResultsFit'
  BY <1>2, <1>4, <1>5, <1>6, <1>7, <1>8, OperatingIs, OperationBegins DEF Context!Operations
<1>10. CapturesFit'
  <2>1. Issued' \subseteq Issued
    BY <1>4, <1>5, <1>6, IssuedRemains
  <2>2. \A t \in tasks' : t.kind = "capture" /\ t.step = "refresh" => t.request \in past'.acknowledged
    BY <1>4, <1>5, <1>7 DEF CapturesFit
  <2> QED BY <1>6, <1>7, <2>1, <2>2, CapturesRemain
<1>11. HistoryFits'
  BY <1>4, <1>5, <1>6, <1>7, SelectionBegins
<1> QED BY <1>9, <1>10, <1>11

\* The selected memory is changed.
LEMMA ChangeKeeps ==
  ASSUME ContextInvariant, Context!Change
  PROVE  ContextInvariant'
<1>. USE DEF ContextInvariant
<1>1. PICK n : n = Context!Task("change", page.selected, "change")
  OBVIOUS
<1>2. session \in SessionStates /\ session.gate \in Nat /\ page \in PageStates /\ past \in PastStates /\ page.selected \in Memories
  BY DEF PartsTyped, SessionStates, PageStates, Context!Change
<1>4. /\ n \in Flows /\ n.gate = 0 /\ n.kind = "change" /\ n.step = "change" /\ n.answer = None /\ n.arg = page.selected
      /\ n.number = actions /\ n.generation = generation /\ n.page = page.number /\ n.sequence = 0 /\ n.revision = 0
      /\ n.query = page.query
  BY <1>1, <1>2, TaskIs DEF ContextKinds, ContextSteps, Context!Operations
<1>5. /\ tasks' = tasks \cup {n} /\ session' = Context!Operating(session) /\ actions > 0 /\ actions' = actions - 1
      /\ UNCHANGED <<generation, engine, moves, faults, page>>
      /\ past' = [past EXCEPT !.overlapped = @ \/ \E t \in tasks : Context!OnPage(t) /\ t.kind \in {"select", "change"}]
  BY <1>1 DEF Context!Change, Context!Start, Context!Acts, Context!Quiet
<1>7. /\ past' \in PastStates /\ past'.failed = past.failed /\ past'.left = past.left /\ past'.repeated = past.repeated
      /\ past'.acknowledged = past.acknowledged /\ past'.forgotten = past.forgotten
      /\ past'.overlapped = (past.overlapped \/ OfSelection # {})
  <2>1. (\E t \in tasks : Context!OnPage(t) /\ t.kind \in {"select", "change"}) <=> OfSelection # {}
    BY DEF OfSelection
  <2>2. past' = [past EXCEPT !.overlapped = @ \/ OfSelection # {}]
    BY <1>5, <2>1
  <2> QED BY <1>2, <2>2 DEF PastStates
<1>8. FlowFits(n)
  BY <1>2, <1>4, PartsAssumption DEF FlowFits, Context!ContextAssumption
<1>9. PartsTyped' /\ FlowsStand' /\ BusyFits' /\ ConfigFits' /\ ResultsFit'
  BY <1>2, <1>4, <1>5, <1>7, <1>8, OperatingIs, OperationBegins DEF Context!Operations
<1>10. CapturesFit'
  <2>1. Issued' \subseteq Issued
    BY <1>4, <1>5, IssuedRemains
  <2>2. \A t \in tasks' : t.kind = "capture" /\ t.step = "refresh" => t.request \in past'.acknowledged
    BY <1>4, <1>5, <1>7 DEF CapturesFit
  <2> QED BY <1>5, <1>7, <2>1, <2>2, CapturesRemain
<1>11. HistoryFits'
  BY <1>4, <1>5, <1>7, SelectionBegins
<1> QED BY <1>9, <1>10, <1>11

\* A capture repeats the attempt of this content, or makes one of its own.
LEMMA CaptureKeeps ==
  ASSUME ContextInvariant, NEW f \in Forms, Context!Capture(f)
  PROVE  ContextInvariant'
<1>. USE DEF ContextInvariant
<1>0. PICK a : a = Context!Attempt(f)
  OBVIOUS
<1>1. PICK n : n = [Context!Task("capture", f, "register") EXCEPT !.request = a.request]
  OBVIOUS
<1>2. session \in SessionStates /\ session.gate \in Nat /\ page \in PageStates /\ page.number \in Nat /\ page.tries \in Nat
  BY DEF PartsTyped, SessionStates, PageStates
<1>3. /\ a \in Attempts /\ a.form = f /\ a # None
      /\ \/ page.attempt # None /\ page.attempt.form = f /\ a = page.attempt /\ a.request = <<page.number, page.tries>>
         \/ (page.attempt = None \/ page.attempt.form # f) /\ a.request = <<page.number, page.tries + 1>>
  <2>1. page.attempt # None => page.attempt \in Attempts /\ page.attempt.request = <<page.number, page.tries>>
    BY <1>2 DEF PageStates, CapturesFit
  <2>2. CASE page.attempt # None /\ page.attempt.form = f
    BY <1>0, <2>1, <2>2 DEF Context!Attempt
  <2>3. CASE ~(page.attempt # None /\ page.attempt.form = f)
    <3>1. a = [form |-> f, request |-> <<page.number, page.tries + 1>>]
      BY <1>0, <2>3 DEF Context!Attempt
    <3>2. <<page.number, page.tries + 1>> \in Requests
      BY <1>2 DEF Requests
    <3>3. a \in Attempts
      BY <3>1, <3>2 DEF Attempts
    <3> QED BY <2>3, <3>1, <3>3, PartsAssumption DEF Context!ContextAssumption, Attempts, Requests
  <2> QED BY <2>2, <2>3
<1>4. /\ n \in Flows /\ n.gate = 0 /\ n.kind = "capture" /\ n.step = "register" /\ n.answer = None /\ n.arg = f
      /\ n.number = actions /\ n.generation = generation /\ n.page = page.number /\ n.sequence = 0 /\ n.revision = 0
      /\ n.query = page.query /\ n.request = a.request /\ n.request \in Requests
  <2>1. a.request \in Requests
    BY <1>3 DEF Attempts
  <2> QED BY <1>1, <2>1, TaskIs DEF ContextKinds, ContextSteps, Context!Operations, Flows
<1>5. /\ tasks' = tasks \cup {n} /\ session' = Context!Operating(session) /\ actions > 0 /\ actions' = actions - 1
      /\ UNCHANGED <<generation, engine, moves, faults, past>>
      /\ page' = [page EXCEPT !.attempt = a, !.tries = a.request[2]]
  BY <1>0, <1>1 DEF Context!Capture, Context!Start, Context!Acts, Context!Quiet
<1>6. a.request[2] \in {page.tries, page.tries + 1} /\ a.request = <<page.number, a.request[2]>>
  BY <1>3
<1>7. /\ page' \in PageStates /\ page'.number = page.number /\ page'.query = page.query /\ page'.clean = page.clean
      /\ page'.selected = page.selected /\ page'.history = page.history /\ page'.attempt = a /\ page'.tries = a.request[2]
  <2>1. a.request[2] \in Nat /\ a \in Attempts \cup {None}
    BY <1>2, <1>3, <1>6
  <2>2. page' \in PageStates
    BY <1>2, <1>5, <2>1 DEF PageStates
  <2> QED BY <1>2, <1>5, <2>2 DEF PageStates
<1>8. FlowFits(n)
  BY <1>4, PartsAssumption DEF FlowFits, Context!ContextAssumption
<1>9. PartsTyped' /\ FlowsStand' /\ BusyFits' /\ ConfigFits' /\ ResultsFit'
  BY <1>2, <1>4, <1>5, <1>7, <1>8, OperatingIs, OperationBegins DEF Context!Operations, PartsTyped
<1>10. CapturesFit'
  <2>1. Issued' \subseteq Issued \cup {a}
    <3>1. [form |-> n.arg, request |-> n.request] = a
      BY <1>3, <1>4 DEF Attempts
    <3> QED BY <1>5, <1>7, <3>1 DEF Issued
  <2>2. \A t \in tasks' : t.kind = "capture" /\ t.step = "refresh" => t.request \in past'.acknowledged
    BY <1>4, <1>5 DEF CapturesFit
  <2>3. \A r : Settled(r)' <=> Settled(r)
    BY <1>5 DEF Settled
  <2>4. \A c \in Issued : c \in Attempts
    BY DEF Issued, FlowsStand, FlowStands, FlowFits, PartsTyped, PageStates, Attempts
  <2>5. CASE page.attempt # None /\ page.attempt.form = f /\ a = page.attempt /\ a.request = <<page.number, page.tries>>
    <3>1. Issued' \subseteq Issued /\ page'.tries = page.tries /\ page'.attempt = page.attempt
      BY <1>7, <2>1, <2>5 DEF Issued
    <3> QED BY <1>5, <1>7, <2>2, <3>1, CapturesRemain
  <2>6. CASE (page.attempt = None \/ page.attempt.form # f) /\ a.request = <<page.number, page.tries + 1>>
    <3>1. \A c \in Issued : c.request[1] \in Nat /\ c.request[2] \in Nat /\ c.request = <<c.request[1], c.request[2]>>
      BY <2>4 DEF Attempts, Requests
    <3>2. \A c \in Issued : c.request[1] <= page.number /\ (c.request[1] = page.number => c.request[2] <= page.tries)
      BY DEF CapturesFit
    <3>3. a.request[1] = page.number /\ a.request[2] = page.tries + 1 /\ page'.tries = page.tries + 1
      BY <1>7, <2>6
    <3>4. \A c \in Issued' : c.request[1] <= page'.number /\ (c.request[1] = page'.number => c.request[2] <= page'.tries)
      BY <1>2, <1>7, <2>1, <3>1, <3>2, <3>3
    <3>5. \A c \in Issued : c.request # a.request /\ ~(c.request[1] = page.number /\ c.request[2] = a.request[2] + 1)
      BY <1>2, <3>1, <3>2, <3>3
    <3>6. \A c, d \in Issued' : c.request = d.request => c.form = d.form
      BY <2>1, <3>5 DEF CapturesFit
    <3>7. ASSUME NEW c \in Issued, c.form = f, a.request[1] = c.request[1], a.request[2] = c.request[2] + 1
          PROVE  Settled(c.request)
      <4>1. c.request = <<page.number, page.tries>>
        BY <1>2, <3>1, <3>3, <3>7
      <4>2. CASE page.attempt = None
        BY <4>1, <4>2 DEF CapturesFit
      <4>3. CASE page.attempt # None
        <5>1. page.attempt \in Issued /\ page.attempt.request = <<page.number, page.tries>>
          BY <4>3 DEF Issued, CapturesFit
        <5>2. c.form = page.attempt.form
          BY <4>1, <5>1 DEF CapturesFit
        <5> QED BY <2>6, <3>7, <4>3, <5>2
      <4> QED BY <4>2, <4>3
    <3>8. ASSUME NEW c \in Issued', NEW d \in Issued', c.form = d.form, d.request[1] = c.request[1], d.request[2] = c.request[2] + 1
          PROVE  Settled(c.request)
      <4>1. CASE c \in Issued /\ d \in Issued
        BY <3>8, <4>1 DEF CapturesFit
      <4>2. CASE c \in Issued /\ d = a
        BY <1>3, <3>7, <3>8, <4>2
      <4>3. CASE c = a /\ d \in Issued
        BY <3>3, <3>5, <3>8, <4>3
      <4>4. CASE c = a /\ d = a
        BY <1>2, <3>3, <3>8, <4>4
      <4> QED BY <2>1, <4>1, <4>2, <4>3, <4>4
    <3>9. page'.attempt # None /\ page'.attempt.request = <<page'.number, page'.tries>>
      BY <1>3, <1>7, <2>6, <3>3
    <3> QED BY <2>2, <2>3, <3>4, <3>6, <3>8, <3>9 DEF CapturesFit
  <2> QED BY <1>3, <2>5, <2>6
<1>11. HistoryFits'
  BY <1>4, <1>5, <1>7, HistoryRemains
<1> QED BY <1>9, <1>10, <1>11

\* An update begins while nothing else runs, and owns the revision from then on.
LEMMA UpdateConfigKeeps ==
  ASSUME ContextInvariant, NEW c \in Configs, Context!UpdateConfig(c)
  PROVE  ContextInvariant'
<1>. USE DEF ContextInvariant
<1>1. PICK n : n = [Context!Task("update", c, "update") EXCEPT !.revision = session.revision + 1]
  OBVIOUS
<1>2. session \in SessionStates /\ session.gate \in Nat /\ session.revision \in Nat /\ session.sequence \in Nat /\ page.number \in Nat
      /\ generation \in Nat /\ actions \in Nat
  BY DEF PartsTyped, SessionStates, PageStates
<1>4. /\ n \in Flows /\ n.gate = 0 /\ n.kind = "update" /\ n.step = "update" /\ n.answer = None /\ n.arg = c
      /\ n.number = actions /\ n.generation = generation /\ n.page = page.number /\ n.sequence = 0 /\ n.revision = session.revision + 1
  BY <1>1, <1>2, TaskIs DEF ContextKinds, ContextSteps, Context!Operations, Flows
<1>5. /\ tasks' = tasks \cup {n} /\ session' = Context!Operating([session EXCEPT !.revision = @ + 1]) /\ actions > 0 /\ actions' = actions - 1
      /\ UNCHANGED <<generation, engine, moves, faults, page, past>> /\ ~session.mutating
  BY <1>1 DEF Context!UpdateConfig, Context!Start, Context!Acts, Context!Quiet
<1>8. session' \in SessionStates /\ session'.pending = session.pending + 1 /\ session'.mutating
      /\ session'.loading = session.loading /\ session'.sequence = session.sequence /\ session'.revision = session.revision + 1
      /\ session'.config = session.config /\ session'.gate = session.gate /\ session'.results = session.results
  <2>1. [session EXCEPT !.revision = @ + 1] \in SessionStates
    BY <1>2 DEF SessionStates
  <2>2. PICK s : s = [session EXCEPT !.revision = @ + 1]
    OBVIOUS
  <2>3. s.pending = session.pending /\ s.loading = session.loading /\ s.sequence = session.sequence /\ s.revision = session.revision + 1
        /\ s.config = session.config /\ s.gate = session.gate /\ s.results = session.results
    BY <1>2, <2>2 DEF SessionStates
  <2> QED BY <1>5, <2>1, <2>2, <2>3, OperatingIs
<1>9. PartsTyped'
  BY <1>2, <1>5, <1>8 DEF PartsTyped
<1>10. Onward
  BY <1>2, <1>5, <1>8 DEF Onward, SessionGrows
<1>11. FlowStands(n)'
  <2>1. FlowFits(n)'
    BY <1>4, PartsAssumption DEF FlowFits, Context!ContextAssumption
  <2> QED BY <1>2, <1>4, <1>5, <1>8, <2>1 DEF FlowStands
<1>12. FlowsStand' /\ n \notin tasks
  BY <1>4, <1>5, <1>9, <1>10, <1>11, FlowBegins
<1>13. Context!Running = {} /\ Context!Running' = Context!Running \cup {n}
  BY <1>4, <1>5, ContextCounts DEF Context!Running, Context!Current, Context!Operations, BusyFits,
     Context!BusyIsTrue
<1>14. Counts(session', Context!Running')
  <2>1. Cardinality(Context!Running) = 0 /\ Cardinality({n}) = 1
    BY <1>13, FS_EmptySet, FS_Singleton
  <2> QED BY <1>8, <1>13, <2>1, ContextCounts DEF Counts, BusyFits, Context!BusyIsTrue
<1>15. \A u \in tasks : u.kind = "update" => ~Context!Current(u)
  BY <1>13 DEF Context!Running, FlowsStand, FlowStands, FlowFits, Context!Operations
<1>16. BusyFits'
  <2>1. Loads_(session', tasks')
    BY <1>4, <1>5, <1>8, BusyIs DEF Loads_
  <2>2. RefreshesApart(tasks') /\ UpdatesApart(tasks')
    BY <1>4, <1>5, <1>15, BusyIs DEF RefreshesApart, UpdatesApart
  <2> QED BY <1>5, <1>14, <2>1, <2>2, ContextCounts DEF Counts, Loads_, RefreshesApart, UpdatesApart, BusyFits,
     Context!BusyIsTrue, Context!Current
<1>17. ConfigFits'
  <2>1. \A u \in tasks' : u.kind = "update" /\ Context!Current(u) => u = n
    BY <1>5, <1>15
  <2>2. n \in tasks' /\ Context!Current(n) /\ n.answer # "done"
    BY <1>4, <1>5, PartsAssumption DEF Context!ContextAssumption, Context!Current
  <2>3. ~past.failed /\ ~past.left => \A u \in tasks' : u.kind = "update" => u = n
    BY <1>5, <1>15 DEF ConfigFits
  <2>4. \A u \in tasks' : u.kind = "update" /\ Context!Current(u)' => u.revision = session'.revision
    BY <1>4, <1>5, <1>8, <2>1 DEF Context!Current
  <2>5. ~past'.failed /\ ~past'.left => \A u \in tasks' : u.kind = "update" => Context!Current(u)' /\ u.answer # "done"
    BY <1>5, <2>2, <2>3 DEF Context!Current
  <2>6. ~(\A u \in tasks' : u.kind # "update")
    BY <1>4, <2>2
  <2> QED BY <2>4, <2>5, <2>6 DEF ConfigFits
<1>18. ResultsFit'
  BY <1>2, <1>4, <1>5, <1>8, <1>9, ResultsRemain
<1>19. CapturesFit' /\ HistoryFits'
  BY <1>4, <1>5, OthersRemain
<1> QED BY <1>9, <1>12, <1>16, <1>17, <1>18, <1>19

\* The query changes: no search that runs is the newest any more.
LEMMA TypeKeeps ==
  ASSUME ContextInvariant, NEW q \in Queries, Context!Type(q)
  PROVE  ContextInvariant'
<1>. USE DEF ContextInvariant
<1>1. /\ page' = [page EXCEPT !.query = q, !.clean = FALSE] /\ session' = [session EXCEPT !.gate = @ + 1, !.results = None]
      /\ actions > 0 /\ actions' = actions - 1 /\ UNCHANGED <<tasks, past, generation, engine, moves, faults>>
  BY DEF Context!Type, Context!Acts, Context!Quiet
<1>2. session \in SessionStates /\ page \in PageStates /\ session.gate \in Nat /\ session.sequence \in Nat /\ session.revision \in Nat
      /\ page.number \in Nat /\ actions \in Nat
  BY DEF PartsTyped, SessionStates, PageStates
<1>3. /\ page' \in PageStates /\ page'.number = page.number /\ page'.attempt = page.attempt /\ page'.tries = page.tries
      /\ page'.selected = page.selected /\ page'.history = page.history /\ page'.query = q /\ page'.clean = FALSE
  BY <1>1, <1>2 DEF PageStates
<1>4. /\ session' \in SessionStates /\ session'.pending = session.pending /\ session'.mutating = session.mutating
      /\ session'.loading = session.loading /\ session'.sequence = session.sequence /\ session'.revision = session.revision
      /\ session'.config = session.config /\ session'.gate = session.gate + 1 /\ session'.results = None
  <2>1. session.gate + 1 \in Nat /\ None \in ResultLists \cup {None}
    BY <1>2
  <2>2. session' \in SessionStates
    BY <1>1, <1>2, <2>1 DEF SessionStates
  <2> QED BY <1>1, <1>2, <2>2 DEF SessionStates
<1>5. PartsTyped'
  BY <1>1, <1>3, <1>4 DEF PartsTyped
<1>6. Onward
  BY <1>1, <1>2, <1>3, <1>4 DEF Onward, SessionGrows
<1>7. FlowsStand'
  BY <1>1, <1>5, <1>6, FlowEnds
<1>8. Context!Running' = Context!Running
  BY <1>1 DEF Context!Running, Context!Current
<1>9. BusyFits'
  BY <1>1, <1>4, <1>8, BusyIs, BusyRemains DEF Counts
<1>10. ConfigFits'
  BY <1>1, <1>4, ConfigRemains
<1>11. ResultsFit'
  <2>1. \A t \in tasks : Context!Current(t) => t.gate # session'.gate
    BY <1>2, <1>4 DEF FlowsStand, FlowStands, FlowFits, Flows
  <2> QED BY <1>1, <1>3, <1>4, <2>1 DEF ResultsFit, Context!Current
<1>12. CapturesFit'
  <2>1. Issued' \subseteq Issued
    BY <1>1, <1>3, IssuedRemains
  <2> QED BY <1>1, <1>3, <2>1, CapturesRemain DEF CapturesFit
<1>13. HistoryFits'
  BY <1>1, <1>3, HistoryRemains
<1> QED BY <1>5, <1>7, <1>9, <1>10, <1>11, <1>12, <1>13

-----------------------------------------------------------------------------
(* The engine answers. *)

\* The engine answers a call, which it carried out if it says so.
LEMMA AnswerKeeps ==
  ASSUME ContextInvariant, NEW t \in tasks, t.answer = None, NEW a \in Outcomes, a = "changed" => t.step = "resolve",
         Context!Answered(t, a), engine' \in {engine, Context!CarriedOut(t)}, a = "done" => engine' = Context!CarriedOut(t), faults' \in Nat,
         UNCHANGED <<generation, session, page, actions, moves>>,
         past' \in PastStates, past'.failed = (past.failed \/ a = "failed"), past'.left = past.left, past'.repeated = past.repeated,
         past'.acknowledged = past.acknowledged, past'.forgotten = past.forgotten, past'.overlapped = past.overlapped
  PROVE  ContextInvariant'
<1>. USE DEF ContextInvariant
<1>1. PICK n : n = [t EXCEPT !.answer = a, !.read = IF t.step = "refresh" THEN engine.config ELSE None]
  OBVIOUS
<1>2. FlowFits(t) /\ FlowStands(t) /\ t \in Flows
  BY DEF FlowsStand, FlowStands, FlowFits
<1>3. engine.config \in Configs
  BY DEF PartsTyped
<1>4. /\ n \in Flows /\ n.number = t.number /\ n.generation = t.generation /\ n.page = t.page /\ n.kind = t.kind /\ n.arg = t.arg
      /\ n.step = t.step /\ n.answer = a /\ n.gate = t.gate /\ n.sequence = t.sequence /\ n.revision = t.revision
      /\ n.request = t.request /\ n.query = t.query /\ n.read = IF t.step = "refresh" THEN engine.config ELSE None
  <2>1. PICK c : c = IF t.step = "refresh" THEN engine.config ELSE None
    OBVIOUS
  <2>2. a \in Outcomes \cup {None} /\ c \in Configs \cup {None} /\ n = [t EXCEPT !.answer = a, !.read = c]
    BY <1>1, <1>3, <2>1
  <2>3. n \in Flows
    BY <1>2, <2>2 DEF Flows
  <2> QED BY <1>2, <2>1, <2>2, <2>3 DEF Flows
<1>5. tasks' = (tasks \ {t}) \cup {n}
  BY <1>1 DEF Context!Answered
<1>6. /\ engine' \in [config : Configs, cards : SUBSET Attempts]
      /\ engine'.cards \in {engine.cards, engine.cards \cup {[form |-> t.arg, request |-> t.request]}}
      /\ engine'.cards # engine.cards => t.kind = "capture"
      /\ t.kind # "update" => engine'.config = engine.config
      /\ t.kind = "update" /\ a = "done" => engine'.config = t.arg
  <2>0. engine \in [config : Configs, cards : SUBSET Attempts]
    BY DEF PartsTyped
  <2>1. CASE t.step = "update"
    <3>1. t.kind = "update" /\ t.arg \in Configs /\ Context!CarriedOut(t) = [engine EXCEPT !.config = t.arg]
      BY <1>2, <2>1 DEF FlowFits, Context!CarriedOut
    <3> QED BY <2>0, <3>1
  <2>2. CASE t.step = "capture"
    <3>1. /\ t.kind = "capture" /\ t.arg \in Forms /\ t.request \in Requests
          /\ Context!CarriedOut(t) = [engine EXCEPT !.cards = @ \cup {[form |-> t.arg, request |-> t.request]}]
      BY <1>2, <2>2 DEF FlowFits, Context!CarriedOut
    <3>2. [form |-> t.arg, request |-> t.request] \in Attempts
      BY <3>1 DEF Attempts
    <3> QED BY <2>0, <3>1, <3>2
  <2>3. CASE t.step \notin {"update", "capture"}
    <3>1. t.kind # "update" /\ Context!CarriedOut(t) = engine
      BY <1>2, <2>3 DEF FlowFits, Context!CarriedOut
    <3> QED BY <2>0, <3>1
  <2> QED BY <2>1, <2>2, <2>3
<1>7. PartsTyped'
  BY <1>6 DEF PartsTyped
<1>8. Onward
  <2>1. session.gate \in Nat /\ session.sequence \in Nat /\ session.revision \in Nat /\ page.number \in Nat
    BY DEF PartsTyped, SessionStates, PageStates
  <2>2. past.failed => past'.failed
    OBVIOUS
  <2> QED BY <2>1, <2>2 DEF Onward, SessionGrows
<1>9. FlowStands(n)'
  <2>1. FlowFits(n)
    BY <1>2, <1>3, <1>4, PartsAssumption DEF FlowFits, Context!ContextAssumption
  <2>2. FlowStands(n)
    BY <1>2, <1>4, <2>1 DEF FlowStands, Context!Current
  <2> QED BY <2>2 DEF FlowStands, FlowFits, Context!Current
<1>10. FlowsStand' /\ n \notin tasks \ {t}
  BY <1>4, <1>5, <1>7, <1>8, <1>9, FlowContinues
<1>11. BusyFits'
  <2>1. CASE t \in Context!Running
    <3>1. Context!Running' = (Context!Running \ {t}) \cup {n} /\ n \notin Context!Running \ {t}
      BY <1>4, <1>5, <1>10, <2>1 DEF Context!Running, Context!Current
    <3>2. IsFiniteSet(Context!Running)
      BY RunningCounts DEF BusyFits
    <3>3. Cardinality(Context!Running') = Cardinality(Context!Running)
      <4>1. IsFiniteSet(Context!Running \ {t}) /\ Cardinality(Context!Running \ {t}) = Cardinality(Context!Running) - 1
        BY <2>1, <3>2, FS_RemoveElement
      <4>2. Cardinality(Context!Running') = Cardinality(Context!Running \ {t}) + 1
        BY <3>1, <4>1, FS_AddElement
      <4>3. Cardinality(Context!Running) \in Nat
        BY <3>2, FS_CardinalityType
      <4> QED BY <4>1, <4>2, <4>3
    <3>4. Counts(session', Context!Running')
      BY <2>1, <3>1, <3>3, BusyIs DEF Counts
    <3>5. t.step # "refresh" /\ n.step # "refresh"
      BY <1>4, <2>1 DEF Context!Running, Context!Operations
    <3>6. Loads_(session', tasks') /\ RefreshesApart(tasks')
      BY <1>5, <3>5, BusyIs DEF Loads_, RefreshesApart
    <3>7. UpdatesApart(tasks')
      BY <1>4, <1>5, BusyIs DEF UpdatesApart, Context!Current
    <3> QED BY <3>4, <3>6, <3>7, ContextCounts DEF Counts, Loads_, RefreshesApart, UpdatesApart, BusyFits,
       Context!BusyIsTrue, Context!Current
  <2>2. CASE t \notin Context!Running
    <3>1. Context!Running' = Context!Running
      BY <1>4, <1>5, <2>2 DEF Context!Running, Context!Current
    <3>2. Counts(session', Context!Running')
      BY <3>1, BusyIs DEF Counts
    <3>3. Loads_(session', tasks') /\ RefreshesApart(tasks') /\ UpdatesApart(tasks')
      BY <1>4, <1>5, BusyIs DEF Loads_, RefreshesApart, UpdatesApart, Context!Current
    <3> QED BY <3>2, <3>3, ContextCounts DEF Counts, Loads_, RefreshesApart, UpdatesApart, BusyFits,
       Context!BusyIsTrue, Context!Current
  <2> QED BY <2>1, <2>2
<1>12. ConfigFits'
  <2>1. \A u \in tasks' : u.kind = "update" /\ Context!Current(u)' => u.revision = session'.revision
    BY <1>4, <1>5 DEF ConfigFits, Context!Current
  <2>2. ASSUME ~past'.failed, ~past'.left
        PROVE  /\ \A u \in tasks' : u.kind = "update" => Context!Current(u)' /\ (u.answer = "done" => engine'.config = u.arg)
               /\ (\A u \in tasks' : u.kind # "update") =>
                    /\ session'.config \in {engine'.config, None}
                    /\ \A s \in tasks' : Context!Current(s)' /\ s.step = "refresh" /\ s.answer = "done" /\ s.revision = session'.revision
                         => s.read = engine'.config
    <3>1. ~past.failed /\ ~past.left
      BY <2>2
    <3>2. CASE t.kind = "update"
      <4>1. \A u \in tasks : u.kind = "update" => u = t
        BY <3>1, <3>2, BusyIs DEF ConfigFits, UpdatesApart
      <4>2. \A u \in tasks' : u.kind = "update" => u = n
        BY <1>5, <4>1
      <4>3. Context!Current(n)' /\ (n.answer = "done" => engine'.config = n.arg)
        BY <1>4, <1>6, <3>1, <3>2 DEF ConfigFits, Context!Current
      <4>4. n \in tasks' /\ n.kind = "update"
        BY <1>4, <1>5, <3>2
      <4> QED BY <4>2, <4>3, <4>4
    <3>3. CASE t.kind # "update"
      <4>1. engine'.config = engine.config
        BY <1>6, <3>3
      <4>2. \A u \in tasks' : u.kind = "update" => u \in tasks
        BY <1>4, <1>5, <3>3
      <4>3. (\A u \in tasks' : u.kind # "update") => (\A u \in tasks : u.kind # "update")
        BY <1>4, <1>5, <3>3
      <4>4. n.step = "refresh" => n.read = engine.config
        BY <1>4
      <4> QED BY <1>5, <3>1, <4>1, <4>2, <4>3, <4>4 DEF ConfigFits, Context!Current
    <3> QED BY <3>2, <3>3
  <2> QED BY <2>1, <2>2 DEF ConfigFits
<1>13. ResultsFit'
  <2>1. n.kind \in {"search", "more"} /\ n.gate = session'.gate /\ Context!Current(n) /\ page.query # None /\ ~past.repeated => n.query = page.query
    BY <1>4 DEF ResultsFit, Context!Current
  <2> QED BY <1>5, <1>7, <1>8, <2>1, ResultsRemain DEF Onward, SessionGrows
<1>14. CapturesFit'
  <2>1. t.kind = "capture" => [form |-> t.arg, request |-> t.request] \in Issued
    BY DEF Issued
  <2>2. Issued' \subseteq Issued
    BY <1>4, <1>5, <1>6, <2>1 DEF Issued
  <2>3. \A s \in tasks' : s.kind = "capture" /\ s.step = "refresh" => s.request \in past'.acknowledged
    BY <1>4, <1>5 DEF CapturesFit
  <2> QED BY <2>2, <2>3, CapturesRemain
<1>15. HistoryFits'
  BY <1>4, <1>5, HistoryContinues
<1> QED BY <1>7, <1>10, <1>11, <1>12, <1>13, <1>14, <1>15

\* The engine carries out a call.
LEMMA ServeKeeps ==
  ASSUME ContextInvariant, NEW t \in tasks, Context!Serve(t)
  PROVE  ContextInvariant'
<1>1. PICK a \in {"done"} \cup (IF t.step = "resolve" THEN {"changed"} ELSE {}) : Context!Answered(t, a)
  BY DEF Context!Serve
<1>2. a \in Outcomes /\ (a = "changed" => t.step = "resolve") /\ a # "failed"
  BY <1>1 DEF Outcomes
<1>3. past' = past /\ past \in PastStates /\ past.failed \in BOOLEAN /\ faults' \in Nat
  BY DEF Context!Serve, ContextInvariant, PartsTyped, PastStates
<1> QED BY <1>1, <1>2, <1>3, AnswerKeeps DEF Context!Serve

\* A call fails, carried out or not.
LEMMA FailKeeps ==
  ASSUME ContextInvariant, NEW t \in tasks, Context!Fail(t)
  PROVE  ContextInvariant'
<1>1. past \in PastStates /\ faults \in Nat
  BY DEF ContextInvariant, PartsTyped
<1>2. past' = [past EXCEPT !.failed = TRUE] /\ faults' \in Nat
  BY <1>1 DEF Context!Fail
<1>3. /\ past' \in PastStates /\ past'.failed = TRUE /\ past'.left = past.left /\ past'.repeated = past.repeated
      /\ past'.acknowledged = past.acknowledged /\ past'.forgotten = past.forgotten /\ past'.overlapped = past.overlapped
  BY <1>1, <1>2 DEF PastStates
<1>4. "failed" \in Outcomes
  BY DEF Outcomes
<1>5. /\ t.answer = None /\ Context!Answered(t, "failed") /\ engine' \in {engine, Context!CarriedOut(t)}
      /\ UNCHANGED <<generation, session, page, actions, moves>>
  BY DEF Context!Fail
<1>6. past'.failed = (past.failed \/ "failed" = "failed")
  BY <1>3
<1>7. ~("failed" = "changed") /\ ~("failed" = "done")
  OBVIOUS
<1> QED BY <1>2, <1>3, <1>4, <1>5, <1>6, <1>7, AnswerKeeps

-----------------------------------------------------------------------------
(* The answer reaches its flow. *)

\* An operation ends.
LEMMA OperationEnds ==
  ASSUME ContextInvariant, Context!Calm, NEW t \in tasks, Context!Current(t), t.step \in Context!Operations, tasks' = tasks \ {t},
         session' \in SessionStates, session'.pending = session.pending - 1, session'.mutating = (session.pending > 1),
         session'.loading = session.loading, session'.sequence = session.sequence, session'.revision >= session.revision,
         session'.gate = session.gate, page' \in PageStates, page'.number = page.number,
         past' \in PastStates, past.failed => past'.failed
  PROVE  PartsTyped' /\ FlowsStand' /\ BusyFits'
<1>. USE DEF ContextInvariant
<1>1. PartsTyped'
  BY DEF PartsTyped, Context!Calm
<1>2. Onward
  BY DEF Onward, SessionGrows, PartsTyped, SessionStates, PageStates, Context!Calm
<1>3. FlowsStand'
  BY <1>1, <1>2, FlowEnds DEF Context!Calm
<1>4. t \in Context!Running /\ Context!Running' = Context!Running \ {t}
  BY DEF Context!Running, Context!Current, Context!Calm
<1>5. Counts(session', Context!Running')
  <2>1. session \in SessionStates /\ IsFiniteSet(Context!Running) /\ Counts(session, Context!Running)
    BY RunningCounts, BusyIs DEF PartsTyped, BusyFits
  <2>2. session.pending >= 1 /\ Counts(Context!Finished(session), Context!Running \ {t})
    BY <1>4, <2>1, CountShrinks
  <2>3. session'.pending = Context!Finished(session).pending /\ session'.mutating = Context!Finished(session).mutating
    BY <2>1, <2>2, SessionFinishes
  <2> QED BY <1>4, <2>2, <2>3 DEF Counts
<1>6. t.step # "refresh"
  BY DEF Context!Operations
<1>7. BusyFits'
  BY <1>5, <1>6, BusyRemains DEF Context!Calm
<1> QED BY <1>1, <1>3, <1>7

\* Nothing else is changed by its end.
LEMMA OthersRemainAtEnd ==
  ASSUME ContextInvariant, Context!Calm, NEW t \in tasks, tasks' = tasks \ {t}, page'.number = page.number,
         page'.attempt = page.attempt, page'.tries = page.tries, page'.selected = page.selected, page'.history = page.history,
         past'.failed = past.failed, past'.acknowledged = past.acknowledged, past'.forgotten = past.forgotten,
         past'.overlapped = past.overlapped
  PROVE  CapturesFit' /\ (t \notin OfSelection \/ past.failed => HistoryFits')
<1>. USE DEF ContextInvariant
<1>1. Issued' \subseteq Issued
  BY IssuedRemains DEF Context!Calm
<1>2. \A s \in tasks' : s.kind = "capture" /\ s.step = "refresh" => s.request \in past'.acknowledged
  BY DEF CapturesFit
<1>3. CapturesFit'
  BY <1>1, <1>2, CapturesRemain
<1>4. t \notin OfSelection => HistoryFits'
  BY HistoryRemains DEF Context!Calm
<1>5. past.failed => HistoryFits'
  BY DEF HistoryFits
<1> QED BY <1>3, <1>4, <1>5

\* What an answer can be.
LEMMA AnswerIs ==
  ASSUME ContextInvariant, NEW t \in tasks, t.answer # None
  PROVE  /\ t \in Flows /\ FlowFits(t) /\ FlowStands(t) /\ t.answer \in Outcomes
         /\ Context!Done(t) \/ past.failed \/ t.step = "resolve"
<1>1. t \in Flows /\ FlowFits(t) /\ FlowStands(t) /\ (t.answer = "failed" => past.failed)
  BY DEF ContextInvariant, FlowsStand, FlowStands, FlowFits
<1>2. t.answer \in Outcomes
  BY <1>1 DEF Flows
<1> QED BY <1>1, <1>2 DEF Outcomes, FlowFits, Context!Done

\* A session that is over takes nothing.
LEMMA LateKeeps ==
  ASSUME ContextInvariant, NEW t \in tasks, t.answer # None, Context!ReturnsLate(t), Context!Calm
  PROVE  ContextInvariant'
<1>. USE DEF ContextInvariant
<1>1. ~Context!Current(t) /\ tasks' = tasks \ {t} /\ UNCHANGED <<session, page, past, generation, engine, actions, moves, faults>>
  BY DEF Context!ReturnsLate, Context!Ends, Context!Calm
<1>2. PartsTyped'
  BY <1>1 DEF PartsTyped
<1>3. Onward
  BY <1>1 DEF Onward, SessionGrows, PartsTyped, SessionStates, PageStates
<1>4. FlowsStand'
  BY <1>1, <1>2, <1>3, FlowEnds
<1>5. Context!Running' = Context!Running
  BY <1>1 DEF Context!Running, Context!Current
<1>6. BusyFits'
  BY <1>1, <1>5, BusyIs, BusyRemains DEF Counts
<1>7. ConfigFits'
  BY <1>1, ConfigRemains
<1>8. ResultsFit'
  BY <1>1, <1>2, <1>3, ResultsRemain DEF Onward, SessionGrows
<1>9. t \notin OfSelection
  BY <1>1 DEF OfSelection, Context!OnPage
<1> QED BY <1>1, <1>2, <1>4, <1>6, <1>7, <1>8, <1>9, OthersRemainAtEnd

\* What the settings show after a refresh.
LEMMA ConfigLoaded ==
  ASSUME ContextInvariant, Context!Calm, NEW t \in tasks, Context!Current(t), t.step = "refresh", session'.revision = session.revision,
         session'.config = Context!Loaded(t).config, past'.failed = past.failed, past'.left = past.left,
         tasks \ {t} \subseteq tasks', t \notin tasks',
         \A n \in tasks' : n \in tasks \/ (n.step # "refresh" /\ n.kind # "update")
  PROVE  ConfigFits'
<1>. USE DEF ContextInvariant
<1>1. t.kind # "update" /\ t \in Flows
  BY DEF FlowsStand, FlowStands, FlowFits
<1>2. session'.config = IF t.sequence = session.sequence /\ Context!Done(t) /\ t.revision = session.revision THEN t.read ELSE session.config
  BY <1>1, SessionLoads DEF PartsTyped, Flows
<1>3. \A u \in tasks' : u.kind = "update" => u \in tasks
  OBVIOUS
<1>4. (\A u \in tasks' : u.kind # "update") => (\A u \in tasks : u.kind # "update")
  BY <1>1
<1>5. \A s \in tasks' : s.step = "refresh" => s \in tasks
  OBVIOUS
<1>6. \A u \in tasks' : u.kind = "update" /\ Context!Current(u)' => u.revision = session'.revision
  BY <1>3 DEF ConfigFits, Context!Current, Context!Calm
<1>7. ASSUME ~past'.failed, ~past'.left
      PROVE  /\ \A u \in tasks' : u.kind = "update" => Context!Current(u)' /\ (u.answer = "done" => engine'.config = u.arg)
             /\ (\A u \in tasks' : u.kind # "update") =>
                  /\ session'.config \in {engine'.config, None}
                  /\ \A s \in tasks' : Context!Current(s)' /\ s.step = "refresh" /\ s.answer = "done" /\ s.revision = session'.revision
                       => s.read = engine'.config
  <2>1. ~past.failed /\ ~past.left /\ engine' = engine /\ generation' = generation
    BY <1>7 DEF Context!Calm
  <2>2. \A u \in tasks' : u.kind = "update" => Context!Current(u)' /\ (u.answer = "done" => engine'.config = u.arg)
    BY <1>3, <2>1 DEF ConfigFits, Context!Current
  <2>3. ASSUME \A u \in tasks' : u.kind # "update"
        PROVE  /\ session'.config \in {engine'.config, None}
               /\ \A s \in tasks' : Context!Current(s)' /\ s.step = "refresh" /\ s.answer = "done" /\ s.revision = session'.revision
                    => s.read = engine'.config
    <3>1. /\ session.config \in {engine.config, None}
          /\ \A s \in tasks : Context!Current(s) /\ s.step = "refresh" /\ s.answer = "done" /\ s.revision = session.revision
               => s.read = engine.config
      BY <1>4, <2>1, <2>3 DEF ConfigFits
    <3> QED BY <1>2, <1>5, <2>1, <3>1 DEF Context!Current, Context!Done
  <2> QED BY <2>2, <2>3
<1> QED BY <1>6, <1>7 DEF ConfigFits

\* A refresh is over, and its flow.
LEMMA RefreshEnds ==
  ASSUME ContextInvariant, Context!Calm, NEW t \in tasks, t.answer # None, Context!Current(t), t.step = "refresh", tasks' = tasks \ {t}, session' = Context!Loaded(t),
         page' \in PageStates, page'.number = page.number, page'.query = page.query, page'.clean = page.clean,
         past' \in PastStates, past'.failed = past.failed, past'.left = past.left, past'.repeated = past.repeated
  PROVE  PartsTyped' /\ FlowsStand' /\ BusyFits' /\ ConfigFits' /\ ResultsFit'
<1>. USE DEF ContextInvariant
<1>1. t \in Flows /\ t.read \in Configs \cup {None} /\ session \in SessionStates
  BY AnswerIs DEF Flows, PartsTyped
<1>2. /\ session' \in SessionStates
      /\ session'.pending = session.pending /\ session'.mutating = session.mutating
      /\ session'.loading = (session.loading /\ t.sequence # session.sequence)
      /\ session'.sequence = session.sequence /\ session'.revision = session.revision
      /\ session'.gate = session.gate /\ session'.results = session.results
  BY <1>1, SessionLoads
<1>3. PartsTyped'
  BY <1>2 DEF PartsTyped, Context!Calm
<1>4. Onward
  BY <1>2 DEF Onward, SessionGrows, PartsTyped, SessionStates, PageStates, Context!Calm
<1>5. FlowsStand'
  BY <1>3, <1>4, FlowEnds DEF Context!Calm
<1>6. Context!Running' = Context!Running
  BY DEF Context!Running, Context!Current, Context!Calm, Context!Operations
<1>7. Counts(session', Context!Running')
  BY <1>2, <1>6, BusyIs DEF Counts
<1>8. BusyFits'
  BY <1>2, <1>7, BusyLoaded DEF Context!Calm
<1>9. ConfigFits'
  BY <1>2, ConfigLoaded
<1>10. ResultsFit'
  BY <1>2, <1>3, <1>4, ResultsRemain DEF Context!Calm, Onward, SessionGrows
<1> QED BY <1>3, <1>5, <1>8, <1>9, <1>10

\* A refresh is over, and its flow goes on with an operation.
LEMMA RefreshContinues ==
  ASSUME ContextInvariant, Context!Calm, NEW t \in tasks, t.answer # None, Context!Current(t), t.step = "refresh",
         session' \in {Context!Operating(Context!Loaded(t)), Context!Searching(Context!Loaded(t))},
         page' \in PageStates, page'.number = page.number, page'.query = page.query, page'.clean = page.clean, past' = past,
         NEW n, tasks' = (tasks \ {t}) \cup {n}, FlowFits(n), n.number = t.number, n.generation = t.generation, n.page = t.page,
         n.kind = t.kind, n.step \in Context!Operations, n.answer = None, n.gate <= session'.gate, n.sequence = t.sequence,
         n.revision = t.revision
  PROVE  PartsTyped' /\ FlowsStand' /\ BusyFits' /\ ConfigFits' /\ ResultsFit'
<1>. USE DEF ContextInvariant
<1>1. t \in Flows /\ t.read \in Configs \cup {None} /\ session \in SessionStates /\ FlowFits(t) /\ FlowStands(t)
  BY AnswerIs DEF Flows, PartsTyped
<1>2. PICK s : s = Context!Loaded(t)
  OBVIOUS
<1>3. /\ s \in SessionStates
      /\ s.pending = session.pending /\ s.mutating = session.mutating
      /\ s.loading = (session.loading /\ t.sequence # session.sequence)
      /\ s.sequence = session.sequence /\ s.revision = session.revision
      /\ s.gate = session.gate /\ s.results = session.results
  BY <1>1, <1>2, SessionLoads
<1>4. /\ session' \in SessionStates /\ session'.loading = s.loading /\ session'.sequence = session.sequence
      /\ session'.revision = session.revision /\ session'.config = s.config /\ session'.gate \in {session.gate, session.gate + 1}
      /\ session'.results \in {session.results, None}
  BY <1>2, <1>3, OperatingIs, SearchingIs
<1>5. PartsTyped'
  BY <1>4 DEF PartsTyped, Context!Calm
<1>6. Onward
  BY <1>4 DEF Onward, SessionGrows, PartsTyped, SessionStates, PageStates, Context!Calm
<1>7. FlowStands(n)'
  <2>1. FlowFits(n)'
    BY DEF FlowFits
  <2>2. t.sequence <= session'.sequence /\ t.revision <= session'.revision
    BY <1>1, <1>4 DEF FlowStands
  <2>3. n.generation <= generation' /\ n.page <= page'.number /\ (n.number > actions' \/ (n.number < 0 /\ n.number >= -generation'))
    BY <1>1 DEF FlowStands, Context!Calm
  <2> QED BY <2>1, <2>2, <2>3 DEF FlowStands
<1>8. n.answer # "failed"
  BY PartsAssumption DEF Context!ContextAssumption
<1>9. FlowsStand' /\ n \notin tasks \ {t}
  BY <1>5, <1>6, <1>7, <1>8, FlowContinues DEF Context!Calm
<1>10. Context!Running' = Context!Running \cup {n} /\ n \notin Context!Running
  <2>1. t \notin Context!Running
    BY DEF Context!Running, Context!Operations
  <2>2. Context!Current(n)' /\ n.step \in Context!Operations
    BY DEF Context!Current, Context!Calm
  <2> QED BY <1>9, <2>1, <2>2 DEF Context!Running, Context!Current, Context!Calm
<1>11. Counts(session', Context!Running')
  <2>1. IsFiniteSet(Context!Running) /\ Counts(s, Context!Running)
    BY <1>3, RunningCounts, BusyIs DEF Counts, BusyFits
  <2> QED BY <1>2, <1>3, <1>10, <2>1, CountGrows
<1>12. n.step # "refresh" /\ n.kind # "update" /\ t.kind # "update"
  BY <1>1 DEF Context!Operations, FlowFits
<1>13. BusyFits'
  BY <1>3, <1>4, <1>11, <1>12, BusyLoaded DEF Context!Calm
<1>14. ConfigFits'
  BY <1>2, <1>4, <1>12, ConfigLoaded
<1>15. ResultsFit'
  <2>1. n.kind \notin {"search", "more"}
    BY <1>1 DEF FlowFits
  <2> QED BY <1>4, <1>5, <1>6, <2>1, ResultsRemain DEF Context!Calm, Onward, SessionGrows
<1> QED BY <1>5, <1>9, <1>13, <1>14, <1>15

\* A refresh is over, and its flow ends, searches again or loads the history.
LEMMA RefreshReturnsKeeps ==
  ASSUME ContextInvariant, NEW t \in tasks, t.answer # None, Context!Current(t), Context!RefreshReturns(t), Context!Calm
  PROVE  ContextInvariant'
<1>. USE DEF ContextInvariant
<1>1. /\ t \in Flows /\ FlowFits(t) /\ FlowStands(t) /\ t.step = "refresh" /\ t.kind \in {"refresh", "capture", "review", "change"}
      /\ session \in SessionStates /\ session.gate \in Nat /\ page \in PageStates /\ past \in PastStates
  BY AnswerIs DEF Context!RefreshReturns, FlowFits, PartsTyped, SessionStates
<1>2. CASE t.kind = "refresh" \/ (t.kind = "review" /\ t.query = None)
  <2>1. tasks' = tasks \ {t} /\ session' = Context!Loaded(t) /\ page' = page /\ past' = past
    BY <1>1, <1>2 DEF Context!RefreshReturns, Context!Ends
  <2>2. PartsTyped' /\ FlowsStand' /\ BusyFits' /\ ConfigFits' /\ ResultsFit'
    BY <1>1, <2>1, RefreshEnds
  <2>3. t \notin OfSelection
    BY <1>2 DEF OfSelection
  <2> QED BY <2>1, <2>2, <2>3, OthersRemainAtEnd
<1>3. CASE t.kind = "capture"
  <2>1. /\ tasks' = tasks \ {t} /\ session' = Context!Loaded(t)
        /\ page' = IF Context!OnPage(t) THEN [page EXCEPT !.attempt = None] ELSE page
        /\ past' = [past EXCEPT !.forgotten = @ \/ (Context!OnPage(t) /\ page.attempt # None /\ page.attempt.request # t.request)]
    BY <1>1, <1>3 DEF Context!RefreshReturns, Context!Ends
  <2>2. /\ page' \in PageStates /\ page'.number = page.number /\ page'.query = page.query /\ page'.clean = page.clean
        /\ page'.tries = page.tries /\ page'.selected = page.selected /\ page'.history = page.history
        /\ page'.attempt = IF Context!OnPage(t) THEN None ELSE page.attempt
    BY <1>1, <2>1 DEF PageStates
  <2>3. PICK f \in BOOLEAN : f = (Context!OnPage(t) /\ page.attempt # None /\ page.attempt.request # t.request)
    OBVIOUS
  <2>4. past' = [past EXCEPT !.forgotten = @ \/ f]
    BY <2>1, <2>3
  <2>5. /\ past' \in PastStates /\ past'.failed = past.failed /\ past'.left = past.left /\ past'.repeated = past.repeated
        /\ past'.acknowledged = past.acknowledged /\ past'.overlapped = past.overlapped /\ past'.forgotten = (past.forgotten \/ f)
    BY <1>1, <2>4 DEF PastStates
  <2>6. PartsTyped' /\ FlowsStand' /\ BusyFits' /\ ConfigFits' /\ ResultsFit'
    BY <1>1, <2>1, <2>2, <2>5, RefreshEnds
  <2>7. HistoryFits'
    <3>1. t \notin OfSelection
      BY <1>3 DEF OfSelection
    <3> QED BY <2>1, <2>2, <2>5, <3>1, HistoryRemains DEF Context!Calm
  <2>8. CapturesFit'
    <3>1. Issued' \subseteq Issued
      BY <2>1, <2>2 DEF Issued, Context!Calm
    <3>2. \A s \in tasks' : s.kind = "capture" /\ s.step = "refresh" => s.request \in past'.acknowledged
      BY <2>1, <2>5 DEF CapturesFit
    <3>3. CASE ~Context!OnPage(t)
      BY <2>2, <2>5, <3>1, <3>2, <3>3, CapturesRemain
    <3>4. CASE Context!OnPage(t)
      <4>1. t.request \in past.acknowledged
        BY <1>1, <1>3 DEF CapturesFit
      <4>2. \A r : Settled(r) => Settled(r)'
        BY <2>5 DEF Settled
      <4>3. ASSUME NEW c \in Issued, c.request = <<page.number, page.tries>> PROVE Settled(c.request)'
        <5>1. CASE page.attempt = None
          BY <4>2, <4>3, <5>1 DEF CapturesFit
        <5>2. CASE page.attempt # None
          <6>1. page.attempt.request = <<page.number, page.tries>>
            BY <5>2 DEF CapturesFit
          <6> QED BY <2>3, <2>5, <3>4, <4>1, <4>3, <5>2, <6>1 DEF Settled
        <5> QED BY <5>1, <5>2
      <4>4. page'.attempt = None
        BY <2>2, <3>4
      <4> QED BY <2>2, <3>1, <3>2, <4>2, <4>3, <4>4 DEF CapturesFit
    <3> QED BY <3>3, <3>4
  <2> QED BY <2>6, <2>7, <2>8
<1>4. CASE t.kind = "review" /\ t.query # None
  <2>1. PICK n : n = Context!SearchTask(t, session)
    OBVIOUS
  <2>2. tasks' = (tasks \ {t}) \cup {n} /\ session' = Context!Searching(Context!Loaded(t)) /\ page' = page /\ past' = past
    BY <1>1, <1>4, <2>1 DEF Context!RefreshReturns, Context!Continues
  <2>3. /\ n \in Flows /\ n.number = t.number /\ n.generation = t.generation /\ n.page = t.page /\ n.kind = "review"
        /\ n.step = "search" /\ n.answer = None /\ n.gate = session.gate + 1 /\ n.sequence = t.sequence /\ n.revision = t.revision
        /\ n.query = t.query /\ n.query \in Queries
    <3>1. t.query \in Queries
      BY <1>1, <1>4 DEF Flows
    <3> QED BY <1>1, <1>4, <2>1, <3>1, SearchTaskIs
  <2>4. FlowFits(n)
    BY <2>3, PartsAssumption DEF FlowFits, Context!ContextAssumption
  <2>5. session'.gate = session.gate + 1
    <3>1. Context!Loaded(t) \in SessionStates /\ Context!Loaded(t).gate = session.gate
      BY <1>1, SessionLoads DEF Flows
    <3> QED BY <2>2, <3>1, OperatingIs, SearchingIs
  <2>6. PartsTyped' /\ FlowsStand' /\ BusyFits' /\ ConfigFits' /\ ResultsFit'
    BY <1>1, <1>4, <2>2, <2>3, <2>4, <2>5, RefreshContinues DEF Context!Operations
  <2>7. Issued' \subseteq Issued
    BY <2>2, <2>3, IssuedRemains DEF Context!Calm
  <2>8. \A s \in tasks' : s.kind = "capture" /\ s.step = "refresh" => s.request \in past'.acknowledged
    BY <2>2, <2>3 DEF CapturesFit
  <2>9. HistoryFits'
    <3>1. t \notin OfSelection
      BY <1>4 DEF OfSelection
    <3> QED BY <2>2, <2>3, <3>1, HistoryRemains DEF Context!Calm
  <2> QED BY <2>2, <2>6, <2>7, <2>8, <2>9, CapturesRemain
<1>5. CASE t.kind = "change"
  <2>1. PICK n : n = [t EXCEPT !.step = "history", !.answer = None]
    OBVIOUS
  <2>2. /\ tasks' = (tasks \ {t}) \cup {n} /\ session' = Context!Operating(Context!Loaded(t)) /\ past' = past
        /\ page' = IF Context!OnPage(t) THEN [page EXCEPT !.selected = t.arg] ELSE page
    BY <1>1, <1>5, <2>1 DEF Context!RefreshReturns, Context!Continues
  <2>3. /\ n \in Flows /\ n.number = t.number /\ n.generation = t.generation /\ n.page = t.page /\ n.kind = "change"
        /\ n.step = "history" /\ n.answer = None /\ n.gate = t.gate /\ n.sequence = t.sequence /\ n.revision = t.revision
        /\ n.arg = t.arg /\ t.arg \in Memories
    BY <1>1, <1>5, <2>1 DEF Flows, ContextSteps, Context!Operations, FlowFits
  <2>4. FlowFits(n)
    BY <2>3, PartsAssumption DEF FlowFits, Context!ContextAssumption
  <2>5. session'.gate = session.gate /\ t.gate <= session.gate
    <3>1. Context!Loaded(t) \in SessionStates /\ Context!Loaded(t).gate = session.gate
      BY <1>1, SessionLoads DEF Flows
    <3> QED BY <1>1, <2>2, <3>1, OperatingIs, SearchingIs DEF FlowStands
  <2>6. /\ page' \in PageStates /\ page'.number = page.number /\ page'.query = page.query /\ page'.clean = page.clean
        /\ page'.tries = page.tries /\ page'.attempt = page.attempt /\ page'.history = page.history
        /\ page'.selected = IF Context!OnPage(t) THEN t.arg ELSE page.selected
    BY <1>1, <2>2, <2>3 DEF PageStates
  <2>7. PartsTyped' /\ FlowsStand' /\ BusyFits' /\ ConfigFits' /\ ResultsFit'
    BY <1>1, <1>5, <2>2, <2>3, <2>4, <2>5, <2>6, RefreshContinues DEF Context!Operations
  <2>8. Issued' \subseteq Issued
    BY <2>2, <2>3, <2>6, IssuedRemains DEF Context!Calm
  <2>9. \A s \in tasks' : s.kind = "capture" /\ s.step = "refresh" => s.request \in past'.acknowledged
    BY <2>2, <2>3 DEF CapturesFit
  <2>10. HistoryFits'
    <3>1. CASE past.failed \/ past.overlapped
      BY <2>2, <3>1 DEF HistoryFits
    <3>2. CASE ~past.failed /\ ~past.overlapped
      <4>1. Context!OnPage(t) => t.arg = page.selected
        BY <1>5, <3>2 DEF HistoryFits, OfSelection
      <4>2. page'.selected = page.selected
        BY <2>6, <4>1
      <4> QED BY <1>5, <2>2, <2>3, <2>6, <4>2, HistoryContinues DEF Context!Calm
    <3> QED BY <3>1, <3>2
  <2> QED BY <2>2, <2>6, <2>7, <2>8, <2>9, <2>10, CapturesRemain
<1> QED BY <1>1, <1>2, <1>3, <1>4, <1>5

\* The update that owned the revision is over: the settings show what was stored.
LEMMA UpdateReturnsKeeps ==
  ASSUME ContextInvariant, NEW t \in tasks, t.answer # None, Context!Current(t), Context!UpdateReturns(t), Context!Calm
  PROVE  ContextInvariant'
<1>. USE DEF ContextInvariant
<1>1. /\ t \in Flows /\ FlowFits(t) /\ FlowStands(t) /\ t.step = "update" /\ t.kind = "update" /\ t.arg \in Configs
      /\ session \in SessionStates /\ session.revision \in Nat /\ session.gate \in Nat /\ page \in PageStates
      /\ tasks' = tasks \ {t} /\ page' = page /\ past' = past
  BY AnswerIs DEF Context!UpdateReturns, FlowFits, PartsTyped, SessionStates, Context!Ends
<1>2. t \in Context!Running
  BY <1>1 DEF Context!Running, Context!Operations
<1>3. session.pending >= 1
  BY <1>2, RunningCounts DEF BusyFits
<1>4. t.revision = session.revision
  BY <1>1 DEF ConfigFits
<1>5. PICK s : s = Context!Finished(session)
  OBVIOUS
<1>6. /\ s \in SessionStates /\ s.pending = session.pending - 1 /\ s.mutating = (session.pending > 1)
      /\ s.loading = session.loading /\ s.sequence = session.sequence /\ s.revision = session.revision
      /\ s.config = session.config /\ s.gate = session.gate /\ s.results = session.results
  BY <1>1, <1>3, <1>5, SessionFinishes
<1>7. session' = [s EXCEPT !.revision = @ + 1, !.config = IF Context!Done(t) THEN t.arg ELSE @]
  BY <1>4, <1>5, <1>6 DEF Context!UpdateReturns
<1>8. /\ session' \in SessionStates /\ session'.pending = session.pending - 1 /\ session'.mutating = (session.pending > 1)
      /\ session'.loading = session.loading /\ session'.sequence = session.sequence /\ session'.revision = session.revision + 1
      /\ session'.config = (IF Context!Done(t) THEN t.arg ELSE session.config) /\ session'.gate = session.gate /\ session'.results = session.results
  <2>1. PICK c : c = IF Context!Done(t) THEN t.arg ELSE session.config
    OBVIOUS
  <2>2. s.revision + 1 \in Nat /\ c \in Configs \cup {None} /\ session' = [s EXCEPT !.revision = @ + 1, !.config = c]
    BY <1>1, <1>6, <1>7, <2>1 DEF SessionStates
  <2>3. session' \in SessionStates
    BY <1>6, <2>2 DEF SessionStates
  <2> QED BY <1>1, <1>6, <2>1, <2>2, <2>3 DEF SessionStates
<1>9. PartsTyped' /\ FlowsStand' /\ BusyFits'
  BY <1>1, <1>8, OperationEnds DEF PartsTyped, Context!Operations
<1>10. ConfigFits'
  <2>1. \A u \in tasks' : u.kind = "update" => ~Context!Current(u)
    BY <1>1, BusyIs DEF UpdatesApart
  <2>2. \A u \in tasks : Context!Current(u) => u.revision # session.revision + 1
    BY <1>1 DEF FlowsStand, FlowStands, FlowFits, Flows
  <2>3. ASSUME ~past'.failed, ~past'.left
        PROVE  (\A u \in tasks' : u.kind # "update") /\ session'.config = engine'.config
    <3>1. ~past.failed /\ ~past.left /\ \A u \in tasks : u.kind = "update" => Context!Current(u) /\ (u.answer = "done" => engine.config = u.arg)
      BY <1>1, <2>3 DEF ConfigFits
    <3>2. Context!Done(t)
      BY <1>1, <3>1, AnswerIs
    <3> QED BY <1>1, <1>8, <2>1, <3>1, <3>2 DEF Context!Done, Context!Calm
  <2>4. \A u \in tasks' : Context!Current(u)' => Context!Current(u) /\ u \in tasks
    BY <1>1 DEF Context!Current, Context!Calm
  <2> QED BY <1>8, <2>1, <2>2, <2>3, <2>4 DEF ConfigFits
<1>11. ResultsFit'
  <2>1. session.gate \in Nat
    BY <1>1
  <2> QED BY <1>1, <1>8, <1>9, <2>1, ResultsRemain DEF Context!Calm
<1>12. t \notin OfSelection
  BY <1>1 DEF OfSelection
<1> QED BY <1>1, <1>9, <1>10, <1>11, <1>12, OthersRemainAtEnd

\* The settings are not touched by the end of another operation.
LEMMA ConfigRemainsAtEnd ==
  ASSUME ContextInvariant, Context!Calm, NEW t \in tasks, t.kind # "update", tasks' = tasks \ {t},
         session'.revision = session.revision, session'.config = session.config, past'.failed = past.failed, past'.left = past.left
  PROVE  ConfigFits'
<1>1. \A u \in tasks : u.kind = "update" /\ Context!Current(u) => u \in tasks'
  OBVIOUS
<1> QED BY <1>1, ConfigRemains DEF ContextInvariant, Context!Calm

\* The newest search shows its results, which are of the query in the field.
LEMMA SearchReturnsKeeps ==
  ASSUME ContextInvariant, NEW t \in tasks, t.answer # None, Context!Current(t), Context!SearchReturns(t), Context!Calm
  PROVE  ContextInvariant'
<1>. USE DEF ContextInvariant
<1>1. /\ t \in Flows /\ FlowFits(t) /\ FlowStands(t) /\ t.step = "search" /\ t.kind \in {"search", "review", "open"} /\ t.query \in Queries
      /\ session \in SessionStates /\ page \in PageStates /\ past \in PastStates /\ tasks' = tasks \ {t}
  BY AnswerIs DEF Context!SearchReturns, FlowFits, PartsTyped, Context!Ends
<1>2. t \in Context!Running
  BY <1>1 DEF Context!Running, Context!Operations
<1>3. session.pending >= 1
  BY <1>2, RunningCounts DEF BusyFits
<1>5. PICK s : s = Context!Finished(session)
  OBVIOUS
<1>6. /\ s \in SessionStates /\ s.pending = session.pending - 1 /\ s.mutating = (session.pending > 1)
      /\ s.loading = session.loading /\ s.sequence = session.sequence /\ s.revision = session.revision
      /\ s.config = session.config /\ s.gate = session.gate /\ s.results = session.results
  BY <1>1, <1>3, <1>5, SessionFinishes
<1>7. PICK shows \in BOOLEAN : shows = (Context!Done(t) /\ t.gate = session.gate)
  OBVIOUS
<1>8. PICK list : list = [queries |-> {t.query}, pages |-> 1]
  OBVIOUS
<1>9. /\ session' = [s EXCEPT !.results = IF shows THEN list ELSE @]
      /\ page' = IF shows /\ Context!OnPage(t) THEN [page EXCEPT !.clean = TRUE] ELSE page
      /\ past' = [past EXCEPT !.repeated = @ \/ (shows /\ t.kind # "search")]
  BY <1>5, <1>7, <1>8 DEF Context!SearchReturns
<1>10. list \in ResultLists /\ list.queries = {t.query}
  BY <1>1, <1>8 DEF ResultLists
<1>11. /\ session' \in SessionStates /\ session'.pending = session.pending - 1 /\ session'.mutating = (session.pending > 1)
      /\ session'.loading = session.loading /\ session'.sequence = session.sequence /\ session'.revision = session.revision
      /\ session'.config = session.config /\ session'.gate = session.gate
      /\ session'.results = (IF shows THEN list ELSE session.results)
  BY <1>6, <1>9, <1>10 DEF SessionStates
<1>12. /\ page' \in PageStates /\ page'.number = page.number /\ page'.query = page.query /\ page'.attempt = page.attempt
       /\ page'.tries = page.tries /\ page'.selected = page.selected /\ page'.history = page.history
       /\ (~shows => page'.clean = page.clean)
  BY <1>1, <1>9 DEF PageStates
<1>13. /\ past' \in PastStates /\ past'.failed = past.failed /\ past'.left = past.left
       /\ past'.acknowledged = past.acknowledged /\ past'.overlapped = past.overlapped /\ past'.forgotten = past.forgotten
       /\ past'.repeated = (past.repeated \/ (shows /\ t.kind # "search"))
  <2>1. PICK f \in BOOLEAN : f = (shows /\ t.kind # "search")
    OBVIOUS
  <2>2. past' = [past EXCEPT !.repeated = @ \/ f]
    BY <1>9, <2>1
  <2> QED BY <1>1, <2>1, <2>2 DEF PastStates
<1>14. PartsTyped' /\ FlowsStand' /\ BusyFits'
  <2>1. session'.revision >= session.revision
    BY <1>1, <1>11 DEF SessionStates
  <2> QED BY <1>1, <1>11, <1>12, <1>13, <2>1, OperationEnds DEF Context!Operations
<1>15. ConfigFits'
  BY <1>1, <1>11, <1>13, ConfigRemainsAtEnd
<1>16. ResultsFit'
  <2>1. \A u \in tasks' : u \in tasks /\ (Context!Current(u)' => Context!Current(u))
    BY <1>1 DEF Context!Current, Context!Calm
  <2>2. ASSUME page'.query # None, ~past'.repeated, session'.results # None, page'.clean PROVE session'.results.queries = {page'.query}
    <3>1. CASE shows
      <4>1. t.kind = "search" /\ ~past.repeated
        BY <1>13, <2>2, <3>1
      <4>2. t.query = page.query
        BY <1>7, <1>12, <2>2, <3>1, <4>1 DEF ResultsFit
      <4> QED BY <1>10, <1>11, <1>12, <3>1, <4>2
    <3>2. CASE ~shows
      BY <1>11, <1>12, <1>13, <2>2, <3>2 DEF ResultsFit
    <3> QED BY <3>1, <3>2
  <2>3. ASSUME page'.query # None, ~past'.repeated, NEW u \in tasks', Context!Current(u)', u.kind \in {"search", "more"}, u.gate = session'.gate
        PROVE  u.query = page'.query
    BY <1>11, <1>12, <1>13, <2>1, <2>3 DEF ResultsFit
  <2> QED BY <2>2, <2>3 DEF ResultsFit
<1>17. t \notin OfSelection
  BY <1>1 DEF OfSelection
<1> QED BY <1>1, <1>12, <1>13, <1>14, <1>15, <1>16, <1>17, OthersRemainAtEnd

\* More results of the newest search are of the same query.
LEMMA MoreReturnsKeeps ==
  ASSUME ContextInvariant, NEW t \in tasks, t.answer # None, Context!Current(t), Context!MoreReturns(t), Context!Calm
  PROVE  ContextInvariant'
<1>. USE DEF ContextInvariant
<1>1. /\ t \in Flows /\ FlowFits(t) /\ FlowStands(t) /\ t.step = "more" /\ t.kind = "more" /\ t.query \in Queries
      /\ session \in SessionStates /\ page \in PageStates /\ past \in PastStates /\ tasks' = tasks \ {t} /\ page' = page /\ past' = past
  BY AnswerIs DEF Context!MoreReturns, FlowFits, PartsTyped, Context!Ends
<1>2. t \in Context!Running
  BY <1>1 DEF Context!Running, Context!Operations
<1>3. session.pending >= 1
  BY <1>2, RunningCounts DEF BusyFits
<1>5. PICK s : s = Context!Finished(session)
  OBVIOUS
<1>6. /\ s \in SessionStates /\ s.pending = session.pending - 1 /\ s.mutating = (session.pending > 1)
      /\ s.loading = session.loading /\ s.sequence = session.sequence /\ s.revision = session.revision
      /\ s.config = session.config /\ s.gate = session.gate /\ s.results = session.results
  BY <1>1, <1>3, <1>5, SessionFinishes
<1>8. PICK list : list = [queries |-> {t.query} \cup (IF session.results = None THEN {} ELSE session.results.queries), pages |-> 2]
  OBVIOUS
<1>9. session' = [s EXCEPT !.results = IF ~Context!Done(t) \/ t.gate # session.gate THEN @ ELSE list]
  BY <1>5, <1>6, <1>8 DEF Context!MoreReturns
<1>10. list \in ResultLists /\ list.queries = {t.query} \cup (IF session.results = None THEN {} ELSE session.results.queries)
  BY <1>1, <1>8 DEF ResultLists, SessionStates
<1>11. /\ session' \in SessionStates /\ session'.pending = session.pending - 1 /\ session'.mutating = (session.pending > 1)
      /\ session'.loading = session.loading /\ session'.sequence = session.sequence /\ session'.revision = session.revision
      /\ session'.config = session.config /\ session'.gate = session.gate
      /\ (session'.results = session.results \/ (t.gate = session.gate /\ session'.results = list))
  BY <1>6, <1>9, <1>10 DEF SessionStates
<1>14. PartsTyped' /\ FlowsStand' /\ BusyFits'
  <2>1. session'.revision >= session.revision
    BY <1>1, <1>11 DEF SessionStates
  <2> QED BY <1>1, <1>11, <2>1, OperationEnds DEF Context!Operations
<1>15. ConfigFits'
  BY <1>1, <1>11, ConfigRemainsAtEnd
<1>16. ResultsFit'
  <2>1. \A u \in tasks' : u \in tasks /\ (Context!Current(u)' => Context!Current(u))
    BY <1>1 DEF Context!Current, Context!Calm
  <2>2. ASSUME page'.query # None, ~past'.repeated, session'.results # None, page'.clean PROVE session'.results.queries = {page'.query}
    <3>1. CASE t.gate = session.gate /\ session'.results = list
      <4>1. t.query = page.query
        BY <1>1, <2>2, <3>1 DEF ResultsFit
      <4>2. session.results # None => session.results.queries = {page.query}
        BY <1>1, <2>2 DEF ResultsFit
      <4> QED BY <1>1, <1>10, <3>1, <4>1, <4>2
    <3>2. CASE session'.results = session.results
      BY <1>1, <2>2, <3>2 DEF ResultsFit
    <3> QED BY <1>11, <3>1, <3>2
  <2>3. ASSUME page'.query # None, ~past'.repeated, NEW u \in tasks', Context!Current(u)', u.kind \in {"search", "more"}, u.gate = session'.gate
        PROVE  u.query = page'.query
    BY <1>1, <1>11, <2>1, <2>3 DEF ResultsFit
  <2> QED BY <2>2, <2>3 DEF ResultsFit
<1>17. t \notin OfSelection
  BY <1>1 DEF OfSelection
<1> QED BY <1>1, <1>14, <1>15, <1>16, <1>17, OthersRemainAtEnd

\* An operation ends, and an answer was not what it needed or it needs nothing more.
LEMMA OperationLeaves ==
  ASSUME ContextInvariant, NEW t \in tasks, t.answer # None, Context!Current(t), t.step \in Context!Operations \ {"update", "search", "more"}, Context!Calm,
         tasks' = tasks \ {t}, session' = Context!Finished(session), page' \in PageStates, past' = past,
         page'.number = page.number, page'.query = page.query, page'.clean = page.clean, page'.attempt = page.attempt,
         page'.tries = page.tries
  PROVE  /\ PartsTyped' /\ FlowsStand' /\ BusyFits' /\ ConfigFits' /\ ResultsFit' /\ CapturesFit'
         /\ page'.selected = page.selected /\ page'.history = page.history /\ (t \notin OfSelection \/ past.failed) => HistoryFits'
<1>. USE DEF ContextInvariant
<1>1. /\ t \in Flows /\ FlowFits(t) /\ FlowStands(t) /\ t.kind # "update" /\ session \in SessionStates /\ session.revision \in Nat
      /\ session.gate \in Nat /\ past \in PastStates
  BY AnswerIs DEF FlowFits, PartsTyped, SessionStates
<1>2. t \in Context!Running
  BY DEF Context!Running
<1>3. session.pending >= 1
  BY <1>2, RunningCounts DEF BusyFits
<1>4. /\ session' \in SessionStates /\ session'.pending = session.pending - 1 /\ session'.mutating = (session.pending > 1)
      /\ session'.loading = session.loading /\ session'.sequence = session.sequence /\ session'.revision = session.revision
      /\ session'.config = session.config /\ session'.gate = session.gate /\ session'.results = session.results
  BY <1>1, <1>3, SessionFinishes
<1>5. PartsTyped' /\ FlowsStand' /\ BusyFits'
  BY <1>1, <1>4, OperationEnds
<1>6. ConfigFits'
  BY <1>1, <1>4, ConfigRemainsAtEnd
<1>7. ResultsFit'
  BY <1>1, <1>4, <1>5, ResultsRemain DEF Context!Calm
<1>8. Issued' \subseteq Issued
  BY IssuedRemains DEF Context!Calm
<1>9. \A s \in tasks' : s.kind = "capture" /\ s.step = "refresh" => s.request \in past'.acknowledged
  BY DEF CapturesFit
<1>10. CapturesFit'
  BY <1>8, <1>9, CapturesRemain
<1>11. page'.selected = page.selected /\ page'.history = page.history /\ (t \notin OfSelection \/ past.failed) => HistoryFits'
  BY OthersRemainAtEnd
<1> QED BY <1>5, <1>6, <1>7, <1>10, <1>11

\* An operation goes on with another, which counts for it.
LEMMA OperationContinues ==
  ASSUME ContextInvariant, NEW t \in tasks, t.answer # None, Context!Current(t), t.step \in Context!Operations \ {"update", "search", "more"}, Context!Calm,
         UNCHANGED <<page, past>>, session' \in SessionStates, session'.pending = session.pending, session'.mutating = session.mutating,
         session'.loading = session.loading, session'.sequence = session.sequence, session'.revision = session.revision,
         session'.config = session.config, session'.gate >= session.gate, session'.results \in {session.results, None},
         NEW n, tasks' = (tasks \ {t}) \cup {n}, FlowFits(n), n.number = t.number, n.generation = t.generation, n.page = t.page,
         n.kind = t.kind, n.arg = t.arg, n.step \in Context!Operations, n.answer = None, n.gate <= session'.gate, n.sequence = t.sequence,
         n.revision = t.revision, n.request = t.request
  PROVE  ContextInvariant'
<1>. USE DEF ContextInvariant
<1>1. /\ t \in Flows /\ FlowFits(t) /\ FlowStands(t) /\ t.kind \notin {"update", "search", "more"}
      /\ session \in SessionStates /\ session.gate \in Nat
  BY AnswerIs DEF FlowFits, PartsTyped, SessionStates, Context!Operations
<1>2. PartsTyped'
  BY DEF PartsTyped, Context!Calm
<1>3. Onward
  <2>1. session.gate \in Nat /\ session.sequence \in Nat /\ session.revision \in Nat /\ page.number \in Nat
    BY DEF PartsTyped, SessionStates, PageStates
  <2> QED BY <2>1 DEF Onward, SessionGrows, Context!Calm
<1>4. FlowStands(n)'
  <2>1. FlowFits(n)'
    BY DEF FlowFits
  <2>2. t.sequence <= session'.sequence /\ t.revision <= session'.revision
    BY <1>1 DEF FlowStands
  <2>3. n.generation <= generation' /\ n.page <= page'.number /\ (n.number > actions' \/ (n.number < 0 /\ n.number >= -generation'))
    BY <1>1 DEF FlowStands, Context!Calm
  <2> QED BY <2>1, <2>2, <2>3 DEF FlowStands
<1>5. n.answer # "failed"
  BY PartsAssumption DEF Context!ContextAssumption
<1>6. FlowsStand' /\ n \notin tasks \ {t}
  BY <1>2, <1>3, <1>4, <1>5, FlowContinues DEF Context!Calm
<1>7. t \in Context!Running /\ Context!Running' = (Context!Running \ {t}) \cup {n} /\ n \notin Context!Running \ {t}
  BY <1>6 DEF Context!Running, Context!Current, Context!Calm
<1>8. Counts(session', Context!Running')
  <2>1. IsFiniteSet(Context!Running) /\ session.pending = Cardinality(Context!Running) /\ (session.mutating <=> Context!Running # {})
    BY RunningCounts, ContextCounts DEF BusyFits, Context!BusyIsTrue
  <2>2. IsFiniteSet(Context!Running \ {t}) /\ Cardinality(Context!Running \ {t}) = Cardinality(Context!Running) - 1
    BY <1>7, <2>1, FS_RemoveElement
  <2>3. Cardinality(Context!Running') = Cardinality(Context!Running \ {t}) + 1
    BY <1>7, <2>2, FS_AddElement
  <2>4. Cardinality(Context!Running) \in Nat
    BY <2>1, FS_CardinalityType
  <2>5. session'.pending = Cardinality(Context!Running')
    BY <2>1, <2>2, <2>3, <2>4
  <2>6. session'.mutating <=> Context!Running' # {}
    BY <1>7, <2>1
  <2> QED BY <2>5, <2>6 DEF Counts
<1>9. t.step # "refresh" /\ n.step # "refresh" /\ n.kind # "update"
  BY <1>1 DEF Context!Operations
<1>10. BusyFits'
  BY <1>8, <1>9, BusyRemains DEF Context!Calm
<1>11. ConfigFits'
  BY <1>1, <1>9, ConfigRemains DEF Context!Calm
<1>12. ResultsFit'
  BY <1>1, <1>2, ResultsRemain DEF Context!Calm
<1>13. Issued' \subseteq Issued
  BY IssuedRemains DEF Context!Calm
<1>14. \A s \in tasks' : s.kind = "capture" /\ s.step = "refresh" => s.request \in past'.acknowledged
  BY <1>9 DEF CapturesFit
<1>15. CapturesFit'
  BY <1>13, <1>14, CapturesRemain
<1>16. HistoryFits'
  BY HistoryContinues DEF Context!Calm
<1> QED BY <1>2, <1>6, <1>10, <1>11, <1>12, <1>15, <1>16

\* A source that changed repeats the search of the click.
LEMMA ResolveReturnsKeeps ==
  ASSUME ContextInvariant, NEW t \in tasks, t.answer # None, Context!Current(t), Context!ResolveReturns(t), Context!Calm
  PROVE  ContextInvariant'
<1>. USE DEF ContextInvariant
<1>1. /\ t \in Flows /\ FlowFits(t) /\ FlowStands(t) /\ t.step = "resolve" /\ t.kind = "open" /\ t.step \in Context!Operations \ {"update", "search", "more"}
      /\ session \in SessionStates /\ session.gate \in Nat /\ page \in PageStates /\ past \in PastStates /\ page' = page /\ past' = past
  BY AnswerIs DEF Context!ResolveReturns, FlowFits, PartsTyped, SessionStates, Context!Operations
<1>2. CASE tasks' = tasks \ {t} /\ session' = Context!Finished(session)
  <2>1. t \notin OfSelection
    BY <1>1 DEF OfSelection
  <2> QED BY <1>1, <1>2, <2>1, OperationLeaves
<1>3. CASE t.query # None /\ tasks' = (tasks \ {t}) \cup {Context!SearchTask(t, session)} /\ session' = Context!Searching(Context!Finished(session))
  <2>1. PICK n : n = Context!SearchTask(t, session)
    OBVIOUS
  <2>2. /\ n \in Flows /\ n.number = t.number /\ n.generation = t.generation /\ n.page = t.page /\ n.kind = "open" /\ n.arg = t.arg
        /\ n.step = "search" /\ n.answer = None /\ n.gate = session.gate + 1 /\ n.sequence = t.sequence /\ n.revision = t.revision
        /\ n.request = t.request /\ n.query \in Queries
    <3>1. t.query \in Queries
      BY <1>1, <1>3 DEF Flows
    <3> QED BY <1>1, <2>1, <3>1, SearchTaskIs
  <2>3. FlowFits(n)
    BY <2>2, PartsAssumption DEF FlowFits, Context!ContextAssumption
  <2>4. t \in Context!Running
    BY <1>1 DEF Context!Running
  <2>5. session.pending >= 1 /\ session.pending \in Nat /\ session.mutating = TRUE
    BY <2>4, RunningCounts, <1>1, ContextCounts DEF BusyFits, Context!BusyIsTrue, SessionStates
  <2>6. PICK s : s = Context!Finished(session)
    OBVIOUS
  <2>7. /\ s \in SessionStates /\ s.pending = session.pending - 1 /\ s.loading = session.loading /\ s.sequence = session.sequence
        /\ s.revision = session.revision /\ s.config = session.config /\ s.gate = session.gate
    BY <1>1, <2>5, <2>6, SessionFinishes
  <2>8. session' = Context!Searching(s)
    BY <1>3, <2>6
  <2>9. /\ session' \in SessionStates /\ session'.pending = session.pending /\ session'.mutating /\ session'.loading = session.loading
        /\ session'.sequence = session.sequence /\ session'.revision = session.revision /\ session'.config = session.config
        /\ session'.gate = session.gate + 1 /\ session'.results = None
    BY <2>5, <2>7, <2>8, SearchingIs
  <2>10. session'.mutating = session.mutating
    BY <2>5, <2>9 DEF SessionStates
  <2>11. session'.gate >= session.gate /\ n.gate <= session'.gate /\ tasks' = (tasks \ {t}) \cup {n} /\ n.step \in Context!Operations
    BY <1>1, <1>3, <2>1, <2>2, <2>9 DEF Context!Operations
  <2> QED BY <1>1, <2>2, <2>3, <2>9, <2>10, <2>11, OperationContinues
<1> QED BY <1>2, <1>3 DEF Context!ResolveReturns, Context!Ends, Context!Continues

\* A card is registered, and captured next.
LEMMA RegisterReturnsKeeps ==
  ASSUME ContextInvariant, NEW t \in tasks, t.answer # None, Context!Current(t), Context!RegisterReturns(t), Context!Calm
  PROVE  ContextInvariant'
<1>. USE DEF ContextInvariant
<1>1. /\ t \in Flows /\ FlowFits(t) /\ FlowStands(t) /\ t.step = "register" /\ t.kind = "capture" /\ t.step \in Context!Operations \ {"update", "search", "more"}
      /\ session \in SessionStates /\ session.gate \in Nat /\ page \in PageStates /\ past \in PastStates /\ page' = page /\ past' = past
  BY AnswerIs DEF Context!RegisterReturns, FlowFits, PartsTyped, SessionStates, Context!Operations
<1>2. CASE ~Context!Done(t)
  <2>1. tasks' = tasks \ {t} /\ session' = Context!Finished(session)
    BY <1>2 DEF Context!RegisterReturns, Context!Ends
  <2>2. t \notin OfSelection
    BY <1>1 DEF OfSelection
  <2> QED BY <1>1, <2>1, <2>2, OperationLeaves
<1>3. CASE Context!Done(t)
  <2>1. PICK n : n = [t EXCEPT !.step = "capture", !.answer = None]
    OBVIOUS
  <2>2. tasks' = (tasks \ {t}) \cup {n} /\ session' = session
    BY <1>3, <2>1 DEF Context!RegisterReturns, Context!Continues
  <2>3. "capture" \in ContextSteps /\ "capture" \in Context!Operations /\ None \in Outcomes \cup {None}
    BY DEF ContextSteps, Context!Operations
  <2>4. n \in Flows
    BY <1>1, <2>1, <2>3 DEF Flows
  <2>5. /\ n.number = t.number /\ n.generation = t.generation /\ n.page = t.page /\ n.kind = "capture" /\ n.arg = t.arg
        /\ n.step = "capture" /\ n.answer = None /\ n.gate = t.gate /\ n.sequence = t.sequence /\ n.revision = t.revision
        /\ n.request = t.request
    BY <1>1, <2>1, <2>4 DEF Flows
  <2>6. FlowFits(n)
    BY <1>1, <2>4, <2>5, PartsAssumption DEF FlowFits, Context!ContextAssumption
  <2>7. n.gate <= session'.gate /\ session'.gate >= session.gate
    BY <1>1, <2>2, <2>5 DEF FlowStands
  <2> QED BY <1>1, <2>2, <2>3, <2>5, <2>6, <2>7, OperationContinues
<1> QED BY <1>2, <1>3

\* A capture, a review or a change is over, and everything is read again.
LEMMA ChangeReturnsKeeps ==
  ASSUME ContextInvariant, NEW t \in tasks, t.answer # None, Context!Current(t), Context!ChangeReturns(t), Context!Calm
  PROVE  ContextInvariant'
<1>. USE DEF ContextInvariant
<1>1. /\ t \in Flows /\ FlowFits(t) /\ FlowStands(t) /\ t.step \in {"capture", "review", "change"} /\ t.kind = t.step
      /\ t.step \in Context!Operations \ {"update", "search", "more"} /\ (Context!Done(t) \/ past.failed)
      /\ session \in SessionStates /\ session.gate \in Nat /\ session.sequence \in Nat /\ session.revision \in Nat
      /\ page \in PageStates /\ page.number \in Nat /\ past \in PastStates
  BY AnswerIs DEF Context!ChangeReturns, FlowFits, PartsTyped, SessionStates, PageStates, Context!Operations
<1>2. CASE ~Context!Done(t)
  <2>1. /\ tasks' = tasks \ {t} /\ session' = Context!Finished(session) /\ past' = past
        /\ page' \in {page, [page EXCEPT !.editing = FALSE]}
    BY <1>2 DEF Context!ChangeReturns, Context!Ends
  <2>2. /\ page' \in PageStates /\ page'.number = page.number /\ page'.query = page.query /\ page'.clean = page.clean
        /\ page'.attempt = page.attempt /\ page'.tries = page.tries /\ page'.selected = page.selected /\ page'.history = page.history
    <3>1. CASE page' = page
      BY <1>1, <3>1
    <3>2. CASE page' = [page EXCEPT !.editing = FALSE]
      BY <1>1, <3>2 DEF PageStates
    <3> QED BY <2>1, <3>1, <3>2
  <2> QED BY <1>1, <1>2, <2>1, <2>2, OperationLeaves
<1>3. CASE Context!Done(t)
  <2>1. PICK n : n = Context!RefreshTask(t, session)
    OBVIOUS
  <2>2. PICK s : s = Context!Finished(session)
    OBVIOUS
  <2>3. /\ tasks' = (tasks \ {t}) \cup {n} /\ session' = Context!Refreshing(s) /\ page' = page
        /\ past' = IF t.step = "capture" THEN [past EXCEPT !.acknowledged = @ \cup {t.request}] ELSE past
    BY <1>3, <2>1, <2>2 DEF Context!ChangeReturns, Context!Continues
  <2>4. /\ n \in Flows /\ n.number = t.number /\ n.generation = t.generation /\ n.page = t.page /\ n.kind = t.kind /\ n.arg = t.arg
        /\ n.step = "refresh" /\ n.answer = None /\ n.gate = t.gate /\ n.sequence = session.sequence + 1
        /\ n.revision = session.revision /\ n.request = t.request
    BY <1>1, <2>1, RefreshTaskIs
  <2>5. FlowFits(n)
    BY <1>1, <2>4, PartsAssumption DEF FlowFits, Context!ContextAssumption
  <2>6. t \in Context!Running /\ IsFiniteSet(Context!Running) /\ Counts(session, Context!Running)
    BY <1>1, RunningCounts, BusyIs DEF Context!Running, BusyFits
  <2>7. session.pending >= 1 /\ Counts(s, Context!Running \ {t})
    BY <1>1, <2>2, <2>6, CountShrinks
  <2>8. /\ s \in SessionStates /\ s.pending = session.pending - 1 /\ s.sequence = session.sequence
        /\ s.revision = session.revision /\ s.config = session.config /\ s.gate = session.gate
    BY <1>1, <2>2, <2>7, SessionFinishes
  <2>9. /\ session' \in SessionStates /\ session'.pending = s.pending /\ session'.mutating = s.mutating /\ session'.loading
        /\ session'.sequence = session.sequence + 1 /\ session'.revision = session.revision /\ session'.config = session.config
        /\ session'.gate = session.gate + 1 /\ session'.results = None
    BY <2>3, <2>8, RefreshingIs
  <2>10. /\ past' \in PastStates /\ past'.failed = past.failed /\ past'.left = past.left /\ past'.repeated = past.repeated
         /\ past'.overlapped = past.overlapped /\ past'.forgotten = past.forgotten /\ past.acknowledged \subseteq past'.acknowledged
         /\ (t.step = "capture" => t.request \in past'.acknowledged)
    <3>1. CASE t.step = "capture"
      <4>1. t.request \in Requests /\ past' = [past EXCEPT !.acknowledged = @ \cup {t.request}]
        BY <1>1, <2>3, <3>1 DEF FlowFits
      <4> QED BY <1>1, <4>1 DEF PastStates
    <3>2. CASE t.step # "capture"
      BY <1>1, <2>3, <3>2
    <3> QED BY <3>1, <3>2
  <2>11. PartsTyped'
    BY <2>3, <2>9, <2>10 DEF PartsTyped, Context!Calm
  <2>12. Onward
    BY <1>1, <2>3, <2>9, <2>10 DEF Onward, SessionGrows, Context!Calm
  <2>13. FlowStands(n)'
    <3>1. FlowFits(n)'
      BY <2>5 DEF FlowFits
    <3>2. n.gate <= session'.gate \/ ~Context!Current(n)
      BY <1>1, <2>4, <2>9 DEF FlowStands, Flows
    <3>3. n.sequence <= session'.sequence /\ n.revision <= session'.revision
      BY <1>1, <2>4, <2>9
    <3>4. n.generation <= generation' /\ n.page <= page'.number /\ (n.number > actions' \/ (n.number < 0 /\ n.number >= -generation'))
      BY <1>1, <2>3, <2>4 DEF FlowStands, Context!Calm
    <3> QED BY <3>1, <3>2, <3>3, <3>4 DEF FlowStands, Context!Current, Context!Calm
  <2>14. FlowsStand'
    <3>1. n.answer # "failed"
      BY <2>4, PartsAssumption DEF Context!ContextAssumption
    <3> QED BY <2>3, <2>4, <2>11, <2>12, <2>13, <3>1, FlowContinues DEF Context!Calm
  <2>15. Context!Running' = Context!Running \ {t}
    BY <2>3, <2>4 DEF Context!Running, Context!Current, Context!Calm, Context!Operations
  <2>16. Counts(session', Context!Running')
    BY <2>7, <2>9, <2>15 DEF Counts
  <2>17. BusyFits'
    <3>1. Context!Current(n) /\ n \in tasks' /\ tasks' \subseteq tasks \cup {n} /\ n.kind # "update"
      BY <1>1, <2>3, <2>4 DEF Context!Current
    <3> QED BY <2>4, <2>9, <2>16, <3>1, BusyRefreshes DEF Context!Calm
  <2>18. ConfigFits'
    <3>1. n.kind # "update" /\ n.answer # "done" /\ t.kind # "update"
      BY <1>1, <2>4, PartsAssumption DEF Context!ContextAssumption
    <3> QED BY <2>3, <2>9, <2>10, <3>1, ConfigRemains DEF Context!Calm
  <2>19. ResultsFit'
    <3>1. n.kind \notin {"search", "more"} /\ session'.gate >= session.gate
      BY <1>1, <2>4, <2>9
    <3> QED BY <2>3, <2>9, <2>10, <2>11, <3>1, ResultsRemain DEF Context!Calm
  <2>20. CapturesFit'
    <3>1. Issued' \subseteq Issued
      BY <2>3, <2>4, IssuedRemains DEF Context!Calm
    <3>2. \A u \in tasks' : u.kind = "capture" /\ u.step = "refresh" => u.request \in past'.acknowledged
      BY <1>1, <2>3, <2>4, <2>10 DEF CapturesFit
    <3> QED BY <2>3, <2>10, <3>1, <3>2, CapturesRemain
  <2>21. HistoryFits'
    BY <2>3, <2>4, <2>10, HistoryContinues DEF Context!Calm
  <2> QED BY <2>11, <2>14, <2>17, <2>18, <2>19, <2>20, <2>21
<1> QED BY <1>2, <1>3

\* The history that comes is of the selected memory, if nothing overlapped.
LEMMA HistoryReturnsKeeps ==
  ASSUME ContextInvariant, NEW t \in tasks, t.answer # None, Context!Current(t), Context!HistoryReturns(t), Context!Calm
  PROVE  ContextInvariant'
<1>. USE DEF ContextInvariant
<1>1. /\ t \in Flows /\ FlowFits(t) /\ FlowStands(t) /\ t.step = "history" /\ t.kind \in {"select", "change"} /\ t.arg \in Memories
      /\ t.step \in Context!Operations \ {"update", "search", "more"} /\ (Context!Done(t) \/ past.failed)
      /\ page \in PageStates /\ tasks' = tasks \ {t} /\ session' = Context!Finished(session) /\ past' = past
  BY AnswerIs DEF Context!HistoryReturns, FlowFits, PartsTyped, Context!Operations, Context!Ends
<1>2. CASE ~Context!OnPage(t)
  <2>1. page' = page /\ t \notin OfSelection
    BY <1>2 DEF Context!HistoryReturns, OfSelection
  <2> QED BY <1>1, <2>1, OperationLeaves
<1>3. CASE Context!OnPage(t)
  <2>1. PICK h : h = IF Context!Done(t) THEN t.arg ELSE page.history
    OBVIOUS
  <2>2. PICK e \in BOOLEAN : e = (page.editing /\ t.kind # "change")
    OBVIOUS
  <2>3. page' = [page EXCEPT !.history = h, !.editing = e]
    BY <1>3, <2>1, <2>2 DEF Context!HistoryReturns
  <2>4. h \in Memories \cup {None}
    BY <1>1, <2>1 DEF PageStates
  <2>5. /\ page' \in PageStates /\ page'.number = page.number /\ page'.query = page.query /\ page'.clean = page.clean
        /\ page'.attempt = page.attempt /\ page'.tries = page.tries /\ page'.selected = page.selected /\ page'.history = h
    BY <1>1, <2>2, <2>3, <2>4 DEF PageStates
  <2>6. PartsTyped' /\ FlowsStand' /\ BusyFits' /\ ConfigFits' /\ ResultsFit' /\ CapturesFit'
    BY <1>1, <2>5, OperationLeaves
  <2>7. HistoryFits'
    <3>1. t \in OfSelection /\ OfSelection' = OfSelection \ {t}
      BY <1>1, <1>3, <2>5 DEF OfSelection, Context!OnPage, Context!Current, Context!Calm
    <3>2. CASE past.failed \/ past.overlapped
      BY <1>1, <3>2 DEF HistoryFits
    <3>3. CASE ~past.failed /\ ~past.overlapped
      <4>1. t.arg = page.selected /\ OfSelection' = {}
        BY <3>1, <3>3 DEF HistoryFits
      <4>2. page'.history = page'.selected
        BY <1>1, <2>1, <2>5, <3>3, <4>1
      <4> QED BY <4>1, <4>2 DEF HistoryFits
    <3> QED BY <3>2, <3>3
  <2> QED BY <2>6, <2>7
<1> QED BY <1>2, <1>3

\* The answer reaches its flow.
LEMMA ReturnKeeps ==
  ASSUME ContextInvariant, NEW t \in tasks, Context!Return(t)
  PROVE  ContextInvariant'
<1>1. t.answer # None /\ Context!Calm
  BY DEF Context!Return
<1>2. CASE Context!ReturnsLate(t)
  BY <1>1, <1>2, LateKeeps
<1>3. CASE Context!Current(t) /\ Context!RefreshReturns(t)
  BY <1>1, <1>3, RefreshReturnsKeeps
<1>4. CASE Context!Current(t) /\ Context!UpdateReturns(t)
  BY <1>1, <1>4, UpdateReturnsKeeps
<1>5. CASE Context!Current(t) /\ Context!SearchReturns(t)
  BY <1>1, <1>5, SearchReturnsKeeps
<1>6. CASE Context!Current(t) /\ Context!MoreReturns(t)
  BY <1>1, <1>6, MoreReturnsKeeps
<1>7. CASE Context!Current(t) /\ Context!ResolveReturns(t)
  BY <1>1, <1>7, ResolveReturnsKeeps
<1>8. CASE Context!Current(t) /\ Context!RegisterReturns(t)
  BY <1>1, <1>8, RegisterReturnsKeeps
<1>9. CASE Context!Current(t) /\ Context!ChangeReturns(t)
  BY <1>1, <1>9, ChangeReturnsKeeps
<1>10. CASE Context!Current(t) /\ Context!HistoryReturns(t)
  BY <1>1, <1>10, HistoryReturnsKeeps
<1> QED BY <1>2, <1>3, <1>4, <1>5, <1>6, <1>7, <1>8, <1>9, <1>10 DEF Context!Return

-----------------------------------------------------------------------------
(* Beginning anew, and what follows. *)

\* A session begins.
LEMMA FreshIs ==
  /\ Context!Refreshing(Context!Fresh) \in SessionStates
  /\ Context!Refreshing(Context!Fresh).pending = 0 /\ ~Context!Refreshing(Context!Fresh).mutating /\ Context!Refreshing(Context!Fresh).loading
  /\ Context!Refreshing(Context!Fresh).sequence = 1 /\ Context!Refreshing(Context!Fresh).revision = 1 /\ Context!Refreshing(Context!Fresh).config = None
  /\ Context!Refreshing(Context!Fresh).gate = 1 /\ Context!Refreshing(Context!Fresh).results = None
<1>1. PICK s : s = Context!Fresh
  OBVIOUS
<1>2. None \in ResultLists \cup {None} /\ None \in Configs \cup {None}
  OBVIOUS
<1>3. /\ s \in SessionStates /\ s.pending = 0 /\ ~s.mutating /\ s.sequence = 0 /\ s.revision = 1 /\ s.config = None /\ s.gate = 0
  BY <1>1, <1>2 DEF Context!Fresh, SessionStates
<1> QED BY <1>1, <1>3, RefreshingIs

\* A session begins with a refresh.
LEMMA LoadsIs ==
  ASSUME NEW g \in Nat
  PROVE  LET n == Context!Loads(g)
         IN /\ FlowFits(n) /\ n.number = -g /\ n.generation = g /\ n.page = 0 /\ n.kind = "refresh" /\ n.step = "refresh"
            /\ n.answer = None /\ n.gate = 0 /\ n.sequence = 1 /\ n.revision = 1
<1>1. /\ Context!Loads(g) \in Flows /\ Context!Loads(g).kind = "refresh" /\ Context!Loads(g).step = "refresh" /\ Context!Loads(g).answer = None
  BY DEF Context!Loads, Flows, ContextKinds, ContextSteps
<1>2. FlowFits(Context!Loads(g))
  BY <1>1, PartsAssumption DEF FlowFits, Context!ContextAssumption
<1> QED BY <1>2 DEF Context!Loads

\* A page begins: nothing that ran before is of it.
LEMMA PageBegins ==
  ASSUME ContextInvariant, NEW s \in Context!Sections, page' = Context!Blank(s, page.number + 1), engine' = engine,
         \A n \in tasks' : n \in tasks \/ n.kind = "refresh",
         past'.acknowledged = past.acknowledged, past'.forgotten = past.forgotten
  PROVE  page' \in PageStates /\ page'.number = page.number + 1 /\ ResultsFit' /\ CapturesFit' /\ HistoryFits'
<1>. USE DEF ContextInvariant
<1>1. page.number \in Nat
  BY DEF PartsTyped, PageStates
<1>2. /\ page' \in PageStates /\ page'.number = page.number + 1 /\ page'.query = None /\ page'.attempt = None /\ page'.tries = 0
      /\ page'.selected = None /\ page'.history = None
  BY <1>1 DEF Context!Blank, PageStates
<1>3. ResultsFit'
  BY <1>2 DEF ResultsFit
<1>4. CapturesFit'
  <2>1. Issued' \subseteq Issued
    BY <1>2 DEF Issued
  <2>2. \A c \in Issued : c.request[1] \in Nat /\ c.request[1] <= page.number
    <3>1. \A c \in Issued : c \in Attempts
      BY DEF Issued, FlowsStand, FlowStands, FlowFits, PartsTyped, PageStates, Attempts
    <3> QED BY <3>1 DEF CapturesFit, Attempts, Requests
  <2>3. \A c \in Issued : c.request[1] <= page'.number /\ c.request[1] # page'.number
    BY <1>1, <1>2, <2>2
  <2>4. \A r : Settled(r)' <=> Settled(r)
    BY DEF Settled
  <2>5. \A c, d \in Issued' : c.request = d.request => c.form = d.form
    BY <2>1 DEF CapturesFit
  <2>6. \A c, d \in Issued' : c.form = d.form /\ d.request[1] = c.request[1] /\ d.request[2] = c.request[2] + 1 => Settled(c.request)'
    BY <2>1, <2>4 DEF CapturesFit
  <2>7. \A c \in Issued' : c.request # <<page'.number, page'.tries>>
    BY <2>1, <2>3
  <2>8. \A t \in tasks' : t.kind = "capture" /\ t.step = "refresh" => t.request \in past'.acknowledged
    BY DEF CapturesFit
  <2> QED BY <1>2, <2>1, <2>3, <2>5, <2>6, <2>7, <2>8 DEF CapturesFit
<1>5. HistoryFits'
  <2>1. OfSelection' = {}
    BY <1>1, <1>2 DEF OfSelection, Context!OnPage, FlowsStand, FlowStands, FlowFits, Flows
  <2> QED BY <1>2, <2>1 DEF HistoryFits
<1> QED BY <1>2, <1>3, <1>4, <1>5

\* A section is chosen: the session goes on.
LEMMA ChooseSectionKeeps ==
  ASSUME ContextInvariant, NEW s \in Context!Sections, Context!ChooseSection(s)
  PROVE  ContextInvariant'
<1>. USE DEF ContextInvariant
<1>1. /\ moves > 0 /\ moves' = moves - 1 /\ page' = Context!Blank(s, page.number + 1) /\ past' = [past EXCEPT !.overlapped = FALSE]
      /\ UNCHANGED <<generation, session, tasks, engine, actions, faults>>
  BY DEF Context!ChooseSection
<1>2. /\ past \in PastStates /\ moves \in Nat /\ page.number \in Nat /\ session.gate \in Nat /\ session.sequence \in Nat
      /\ session.revision \in Nat
  BY DEF PartsTyped, PageStates, SessionStates
<1>3. /\ past' \in PastStates /\ past'.failed = past.failed /\ past'.left = past.left /\ past'.repeated = past.repeated
      /\ past'.acknowledged = past.acknowledged /\ past'.forgotten = past.forgotten
  BY <1>1, <1>2 DEF PastStates
<1>4. page' \in PageStates /\ page'.number = page.number + 1 /\ ResultsFit' /\ CapturesFit' /\ HistoryFits'
  BY <1>1, <1>3, PageBegins
<1>5. PartsTyped'
  BY <1>1, <1>2, <1>3, <1>4 DEF PartsTyped
<1>6. Onward
  BY <1>1, <1>2, <1>3, <1>4 DEF Onward, SessionGrows
<1>7. FlowsStand'
  BY <1>1, <1>5, <1>6, FlowEnds
<1>8. Context!Running' = Context!Running
  BY <1>1 DEF Context!Running, Context!Current
<1>9. BusyFits'
  BY <1>1, <1>8, BusyIs, BusyRemains DEF Counts
<1>10. ConfigFits'
  BY <1>1, <1>3, ConfigRemains
<1> QED BY <1>4, <1>5, <1>7, <1>9, <1>10

\* The session begins anew: no flow of the old one is of it.
LEMMA RemountKeeps ==
  ASSUME ContextInvariant, Context!Remount
  PROVE  ContextInvariant'
<1>. USE DEF ContextInvariant
<1>1. PICK n : n = Context!Loads(generation + 1)
  OBVIOUS
<1>2. PICK l \in BOOLEAN : l = (\E t \in tasks : t.kind = "update")
  OBVIOUS
<1>3. /\ moves > 0 /\ moves' = moves - 1 /\ generation' = generation + 1 /\ session' = Context!Refreshing(Context!Fresh)
      /\ page' = Context!Blank(page.section, page.number + 1) /\ tasks' = tasks \cup {n}
      /\ past' = [past EXCEPT !.left = @ \/ l, !.repeated = FALSE, !.overlapped = FALSE]
      /\ UNCHANGED <<engine, actions, faults>>
  BY <1>1, <1>2 DEF Context!Remount
<1>4. past \in PastStates /\ moves \in Nat /\ page.number \in Nat /\ page.section \in Context!Sections /\ generation \in Nat /\ actions \in Nat
  BY DEF PartsTyped, PageStates
<1>5. /\ past' \in PastStates /\ past'.failed = past.failed /\ past'.left = (past.left \/ l)
      /\ past'.acknowledged = past.acknowledged /\ past'.forgotten = past.forgotten
  <2>1. PICK k \in BOOLEAN : k = (past.left \/ l)
    OBVIOUS
  <2>2. past' = [past EXCEPT !.left = k, !.repeated = FALSE, !.overlapped = FALSE]
    BY <1>3, <2>1
  <2> QED BY <1>4, <2>1, <2>2 DEF PastStates
<1>6. /\ FlowFits(n) /\ n.number = -(generation + 1) /\ n.generation = generation + 1 /\ n.page = 0 /\ n.kind = "refresh"
      /\ n.step = "refresh" /\ n.answer = None /\ n.gate = 0 /\ n.sequence = 1 /\ n.revision = 1
  BY <1>1, <1>4, LoadsIs
<1>7. /\ session' \in SessionStates /\ session'.pending = 0 /\ ~session'.mutating /\ session'.loading /\ session'.sequence = 1
      /\ session'.revision = 1 /\ session'.config = None /\ session'.gate = 1 /\ session'.results = None
  BY <1>3, FreshIs
<1>8. page' \in PageStates /\ page'.number = page.number + 1 /\ ResultsFit' /\ CapturesFit' /\ HistoryFits'
  BY <1>3, <1>4, <1>5, <1>6, PageBegins
<1>9. PartsTyped'
  BY <1>3, <1>4, <1>5, <1>7, <1>8 DEF PartsTyped
<1>10. \A t \in tasks : /\ t.generation \in Nat /\ t.generation <= generation /\ t.page \in Nat /\ t.page <= page.number
                        /\ t.number \in Int /\ FlowFits(t) /\ (t.answer = "failed" => past.failed)
                        /\ (t.number > actions \/ (t.number < 0 /\ t.number >= -generation))
  BY DEF FlowsStand, FlowStands, FlowFits, Flows
<1>11. \A t \in tasks : ~Context!Current(t)' /\ t.number # n.number
  BY <1>3, <1>4, <1>6, <1>10 DEF Context!Current
<1>12. FlowsStand'
  <2>1. \A t \in tasks : FlowStands(t)' /\ (t.answer = "failed" => past'.failed)
    BY <1>3, <1>4, <1>5, <1>8, <1>10, <1>11 DEF FlowStands, FlowFits
  <2>2. FlowStands(n)' /\ n.answer # "failed"
    BY <1>3, <1>4, <1>6, <1>7, <1>8, PartsAssumption DEF FlowStands, FlowFits, Context!ContextAssumption
  <2>3. IsFiniteSet(tasks')
    BY <1>3, FS_AddElement DEF FlowsStand
  <2>4. \A s, t \in tasks' : s.number = t.number => s = t
    BY <1>3, <1>11 DEF FlowsStand
  <2> QED BY <1>3, <2>1, <2>2, <2>3, <2>4 DEF FlowsStand
<1>13. \A t \in tasks' : Context!Current(t)' <=> t = n
  BY <1>3, <1>6, <1>11 DEF Context!Current
<1>14. BusyFits'
  <2>1. Context!Running' = {}
    BY <1>6, <1>13 DEF Context!Running, Context!Operations
  <2>2. Cardinality(Context!Running') = 0
    BY <2>1, FS_EmptySet
  <2>3. n \in tasks' /\ Context!Current(n)' /\ n.step = "refresh" /\ n.sequence = session'.sequence
    BY <1>3, <1>6, <1>7, <1>13
  <2>4. Context!BusyIsTrue'
    BY <1>7, <2>1, <2>2, <2>3, ContextCounts DEF Context!BusyIsTrue
  <2> QED BY <1>13, <2>4 DEF BusyFits
<1>15. ConfigFits'
  <2>1. \A u \in tasks' : u.kind = "update" => ~Context!Current(u)'
    BY <1>6, <1>13
  <2>2. ~past'.left => \A u \in tasks' : u.kind # "update"
    BY <1>2, <1>3, <1>5, <1>6
  <2>3. n.answer # "done"
    BY <1>6, PartsAssumption DEF Context!ContextAssumption
  <2>4. \A t \in tasks' : ~(Context!Current(t)' /\ t.answer = "done")
    BY <1>13, <2>3
  <2> QED BY <1>7, <2>1, <2>2, <2>4 DEF ConfigFits
<1> QED BY <1>8, <1>9, <1>12, <1>14, <1>15

\* At first.
LEMMA ContextInitFits == Context!Init => ContextInvariant
<1>. SUFFICES ASSUME Context!Init PROVE ContextInvariant
  OBVIOUS
<1>1. PICK n : n = Context!Loads(1)
  OBVIOUS
<1>2. /\ generation = 1 /\ session = Context!Refreshing(Context!Fresh) /\ tasks = {n} /\ actions \in Nat /\ moves \in Nat /\ faults \in Nat
      /\ past = [acknowledged |-> {}, failed |-> FALSE, left |-> FALSE, repeated |-> FALSE, forgotten |-> FALSE, overlapped |-> FALSE]
      /\ engine \in [config : Stored, cards : {{}}]
  BY <1>1, PartsAssumption DEF Context!Init, Context!ContextAssumption
<1>3. PICK s \in Context!Sections : page = Context!Blank(s, 0)
  BY DEF Context!Init
<1>4. /\ page \in PageStates /\ page.number = 0 /\ page.query = None /\ page.attempt = None /\ page.selected = None /\ page.history = None
  BY <1>3 DEF Context!Blank, PageStates
<1>5. /\ session \in SessionStates /\ session.pending = 0 /\ ~session.mutating /\ session.loading /\ session.sequence = 1
      /\ session.revision = 1 /\ session.config = None /\ session.gate = 1 /\ session.results = None
  BY <1>2, FreshIs
<1>6. /\ FlowFits(n) /\ n.number = -1 /\ n.generation = 1 /\ n.page = 0 /\ n.kind = "refresh"
      /\ n.step = "refresh" /\ n.answer = None /\ n.gate = 0 /\ n.sequence = 1 /\ n.revision = 1
  BY <1>1, LoadsIs
<1>7. engine \in [config : Configs, cards : SUBSET Attempts] /\ engine.cards = {}
  BY <1>2, PartsAssumption DEF Context!ContextAssumption
<1>8. PartsTyped
  <2>1. past \in PastStates
    BY <1>2 DEF PastStates
  <2> QED BY <1>2, <1>4, <1>5, <1>7, <2>1 DEF PartsTyped
<1>9. FlowsStand
  <2>1. FlowStands(n) /\ n.answer # "failed"
    BY <1>2, <1>4, <1>5, <1>6, PartsAssumption DEF FlowStands, Context!ContextAssumption
  <2>2. IsFiniteSet(tasks)
    BY <1>2, FS_Singleton
  <2> QED BY <1>2, <2>1, <2>2 DEF FlowsStand
<1>10. BusyFits
  <2>1. Context!Running = {} /\ Cardinality({}) = 0
    BY <1>2, <1>6, FS_EmptySet DEF Context!Running, Context!Operations
  <2>2. Context!BusyIsTrue
    BY <1>2, <1>5, <1>6, <2>1, ContextCounts DEF Context!BusyIsTrue, Context!Current
  <2> QED BY <1>2, <2>2 DEF BusyFits
<1>11. ConfigFits
  <2>1. n.answer # "done" /\ n.kind # "update"
    BY <1>6, PartsAssumption DEF Context!ContextAssumption
  <2> QED BY <1>2, <1>5, <2>1 DEF ConfigFits
<1>12. ResultsFit
  BY <1>4 DEF ResultsFit
<1>13. CapturesFit
  <2>1. Issued = {}
    BY <1>2, <1>4, <1>6, <1>7 DEF Issued
  <2> QED BY <1>2, <1>4, <1>6, <2>1 DEF CapturesFit
<1>14. HistoryFits
  <2>1. OfSelection = {}
    BY <1>2, <1>6 DEF OfSelection
  <2> QED BY <1>4, <2>1 DEF HistoryFits
<1> QED BY <1>8, <1>9, <1>10, <1>11, <1>12, <1>13, <1>14 DEF ContextInvariant

\* Every step of the client keeps it.
LEMMA ContextNextKeeps == ContextInvariant /\ [Context!Next]_(Context!vars) => ContextInvariant'
<1>. SUFFICES ASSUME ContextInvariant, [Context!Next]_(Context!vars) PROVE ContextInvariant'
  OBVIOUS
<1>1. CASE UNCHANGED Context!vars
  BY <1>1, ContextCounts DEF Context!vars, ContextInvariant, PartsTyped, FlowsStand, FlowStands, FlowFits,
     BusyFits, Context!BusyIsTrue, Context!Running, ConfigFits,
              ResultsFit, CapturesFit, Issued, Settled, HistoryFits, OfSelection, Context!OnPage, Context!Current
<1>2. CASE Context!Remount
  BY <1>2, RemountKeeps
<1>3. CASE \E s \in Context!Sections : Context!ChooseSection(s)
  BY <1>3, ChooseSectionKeeps
<1>4. CASE Context!Acting
  <2>1. CASE Context!Refresh
    BY <2>1, RefreshKeeps
  <2>2. CASE Context!Search
    BY <2>2, SearchKeeps
  <2>3. CASE Context!LoadMore
    BY <2>3, LoadMoreKeeps
  <2>4. CASE Context!OpenSource
    BY <2>4, OpenSourceKeeps
  <2>5. CASE Context!Review
    BY <2>5, ReviewKeeps
  <2>6. CASE Context!Change
    BY <2>6, ChangeKeeps
  <2>7. CASE \E c \in Configs : Context!UpdateConfig(c)
    BY <2>7, UpdateConfigKeeps
  <2>8. CASE \E q \in Queries : Context!Type(q)
    BY <2>8, TypeKeeps
  <2>9. CASE \E f \in Forms : Context!Capture(f)
    BY <2>9, CaptureKeeps
  <2>10. CASE \E m \in Memories, edit \in BOOLEAN : Context!Select(m, edit)
    BY <2>10, SelectKeeps
  <2> QED BY <1>4, <2>1, <2>2, <2>3, <2>4, <2>5, <2>6, <2>7, <2>8, <2>9, <2>10 DEF Context!Acting
<1>5. CASE \E t \in tasks : Context!Serve(t) \/ Context!Fail(t) \/ Context!Return(t)
  BY <1>5, ServeKeeps, FailKeeps, ReturnKeeps
<1> QED BY <1>1, <1>2, <1>3, <1>4, <1>5 DEF Context!Next

\* It says what is promised.
LEMMA ContextPromised == ContextInvariant => Context!ContextIsSound
<1>. SUFFICES ASSUME ContextInvariant PROVE Context!ContextIsSound
  OBVIOUS
<1>. USE DEF ContextInvariant
<1>1. Context!TypeOK
  <2>1. session.config \in Configs \cup {None} /\ session.pending \in Nat /\ page.section \in Context!Sections
    BY DEF PartsTyped, SessionStates, PageStates
  <2>2. session.results = None \/ (session.results.queries \subseteq Queries /\ session.results.pages \in 1..2)
    BY DEF PartsTyped, SessionStates, ResultLists
  <2>3. \A t \in tasks : t.step \in Context!Operations \cup {"refresh"} /\ t.answer \in {None, "done", "changed", "failed"}
    BY DEF FlowsStand, FlowStands, FlowFits, Flows, ContextSteps, Outcomes
  <2> QED BY <2>1, <2>2, <2>3 DEF Context!TypeOK
<1>2. Context!BusyIsTrue
  BY DEF BusyFits
<1>3. Context!ConfigIsStored
  BY DEF Context!ConfigIsStored, ConfigFits
<1>4. Context!ResultsMatchInput
  BY DEF Context!ResultsMatchInput, Context!ShownResults, ResultsFit
<1>5. Context!CapturesOnce
  BY DEF Context!CapturesOnce, CapturesFit, Issued, Settled
<1>6. Context!HistoryIsOfSelected
  BY DEF Context!HistoryIsOfSelected, HistoryFits, OfSelection
<1> QED BY <1>1, <1>2, <1>3, <1>4, <1>5, <1>6 DEF Context!ContextIsSound

-----------------------------------------------------------------------------
(* The zoomed canvas. *)

ZoomTyped ==
  /\ zoom \in Zoom!Levels /\ left \in Int /\ canvas \in Widths /\ window \in Widths
  /\ zooming \in BOOLEAN /\ anchored \in BOOLEAN /\ settling \in BOOLEAN /\ snapping \in BOOLEAN
  /\ locked \in BOOLEAN /\ unlocking \in BOOLEAN /\ pinched \in BOOLEAN
  /\ frame \in Zoom!Levels \cup {None} /\ asked \in Zoom!Levels \cup {None}
  /\ pane \in [at : Zoom!Positions, held : Zoom!Positions \cup {None}]

\* A requested frame and a held point are a gesture's, which its timer ends.
GestureFits == anchored \/ frame # None => settling

\* At rest, the zoom is one the user may keep, and text is held only under a zoomed canvas.
RestFits ==
  ~Zoom!Gesturing /\ ~unlocking =>
    /\ zoom >= 1 /\ (zoom = 1 => left = 0) /\ zooming = (zoom > 1)
    /\ pane.held # None => zoom > 1

\* After a command nothing of a gesture is left.
AskedFits == asked # None => ~Zoom!Gesturing /\ ~unlocking /\ ~locked /\ zoom = asked

ZoomInvariant == ZoomTyped /\ GestureFits /\ RestFits /\ AskedFits

\* A position within bounds is a number, and an interval has a member nearest to any number.
LEMMA BoundsAre ==
  ASSUME NEW level \in Zoom!Levels, NEW size \in Widths, NEW wide \in Widths
  PROVE  /\ Zoom!Bounds(level, size, wide) \subseteq Int
         /\ \A x \in Int : Zoom!Clamped(x, Zoom!Bounds(level, size, wide)) \in Int
<1>1. level \in Int /\ size \in Int /\ wide \in Int /\ MaxZoom \in Nat
  BY PartsAssumption DEF Zoom!ZoomAssumption, Zoom!Levels
<1>2. PICK rest \in Int : rest = wide - size * level
  BY <1>1
<1>3. PICK a \in Int, b \in Int : a <= b /\ Zoom!Bounds(level, size, wide) = a..b
  BY <1>2 DEF Zoom!Bounds
<1>4. ASSUME NEW x \in Int PROVE \E y \in a..b : \A z \in a..b : (y - x) * (y - x) <= (z - x) * (z - x)
  <2>1. CASE x < a
    <3>1. ASSUME NEW z \in a..b PROVE (a - x) * (a - x) <= (z - x) * (z - x)
      <4>1. a - x \in Nat /\ z - x \in Nat /\ a - x <= z - x
        BY <2>1, <1>3
      <4>2. \A m, n \in Nat : m <= n => m * m <= n * n
        OBVIOUS
      <4> QED BY <4>1, <4>2
    <3>2. a \in a..b
      BY <1>3
    <3> QED BY <3>1, <3>2
  <2>2. CASE x > b
    <3>1. ASSUME NEW z \in a..b PROVE (b - x) * (b - x) <= (z - x) * (z - x)
      <4>1. x - b \in Nat /\ x - z \in Nat /\ x - b <= x - z
        BY <2>2, <1>3
      <4>2. \A m, n \in Nat : m <= n => m * m <= n * n
        OBVIOUS
      <4>3. (x - b) * (x - b) <= (x - z) * (x - z)
        BY <4>1, <4>2
      <4> QED BY <4>3, <1>3
    <3> QED BY <3>1, <1>3
  <2>3. CASE x \in a..b
    <3>1. ASSUME NEW z \in a..b PROVE (x - x) * (x - x) <= (z - x) * (z - x)
      <4>1. \A m \in Int : 0 <= m * m
        OBVIOUS
      <4>2. z - x \in Int /\ x - x = 0
        OBVIOUS
      <4> QED BY <4>1, <4>2
    <3> QED BY <3>1, <2>3
  <2> QED BY <2>1, <2>2, <2>3, <1>3
<1>5. ASSUME NEW x \in Int PROVE Zoom!Clamped(x, Zoom!Bounds(level, size, wide)) \in Int
  <2> DEFINE Nearest(y) == \A z \in a..b : (y - x) * (y - x) <= (z - x) * (z - x)
  <2>1. \E y \in a..b : Nearest(y)
    BY <1>4
  <2>2. (CHOOSE y \in a..b : Nearest(y)) \in a..b
    <3> HIDE DEF Nearest
    <3> QED BY <2>1
  <2>3. Zoom!Clamped(x, a..b) \in a..b
    BY <2>2 DEF Zoom!Clamped
  <2> QED BY <2>3, <1>3
<1> QED BY <1>3, <1>5

\* What is shown of a zoom the user may keep.
LEMMA ShownIsCommitted ==
  ASSUME NEW level \in Int, level <= MaxZoom, NEW x \in Int, canvas' \in Widths, window' \in Widths,
         Zoom!ShowCommitted(level, x)
  PROVE  /\ zoom' \in Zoom!Levels /\ left' \in Int /\ zooming' \in BOOLEAN
         /\ zoom' = (IF level < 1 THEN 1 ELSE level)
         /\ zoom' >= 1 /\ (zoom' = 1 => left' = 0) /\ zooming' = (zoom' > 1)
<1>1. MaxZoom \in Nat /\ MaxZoom > 1
  BY PartsAssumption DEF Zoom!ZoomAssumption, Zoom!Normal
<1>2. zoom' = (IF level < 1 THEN 1 ELSE level) /\ zooming' = (zoom' > 1)
      /\ left' = IF zoom' = 1 THEN 0 ELSE Zoom!Clamped(x, Zoom!Bounds(zoom', canvas', window'))
  BY DEF Zoom!ShowCommitted, Zoom!ClampCommitted, Zoom!Normal
<1>3. zoom' \in Zoom!Levels
  BY <1>1, <1>2 DEF Zoom!Levels
<1>4. left' \in Int
  BY <1>2, <1>3, BoundsAre
<1> QED BY <1>1, <1>2, <1>3, <1>4

\* Locks and releases keep panes panes.
LEMMA PanesAre ==
  ASSUME NEW p \in [at : Zoom!Positions, held : Zoom!Positions \cup {None}]
  PROVE  /\ Zoom!Restore(p) \in [at : Zoom!Positions, held : Zoom!Positions \cup {None}]
         /\ Zoom!Restore(p).held = p.held
         /\ Zoom!Restore(Zoom!Capture(p)) \in [at : Zoom!Positions, held : Zoom!Positions \cup {None}]
         /\ Zoom!Release(Zoom!Restore(p)) \in [at : Zoom!Positions, held : Zoom!Positions \cup {None}]
         /\ Zoom!Release(Zoom!Restore(p)).held = None
<1> DEFINE Panes == [at : Zoom!Positions, held : Zoom!Positions \cup {None}]
<1>1. \A q \in Panes : Zoom!Restore(q) \in Panes /\ Zoom!Restore(q).held = q.held
  BY DEF Zoom!Restore
<1>2. Zoom!Capture(p) \in Panes
  BY DEF Zoom!Capture
<1>3. \A q \in Panes : Zoom!Release(q) \in Panes /\ Zoom!Release(q).held = None
  BY DEF Zoom!Release
<1> HIDE DEF Panes
<1>4. p \in Panes
  BY DEF Panes
<1>5. Zoom!Restore(p) \in Panes /\ Zoom!Restore(p).held = p.held
  BY <1>1, <1>4
<1>6. Zoom!Restore(Zoom!Capture(p)) \in Panes
  BY <1>1, <1>2
<1>7. Zoom!Release(Zoom!Restore(p)) \in Panes /\ Zoom!Release(Zoom!Restore(p)).held = None
  BY <1>3, <1>5
<1> QED BY <1>5, <1>6, <1>7 DEF Panes

\* At first, nothing is zoomed.
LEMMA ZoomInitFits == Zoom!Init => ZoomInvariant
<1> SUFFICES ASSUME Zoom!Init PROVE ZoomInvariant
  OBVIOUS
<1>1. MaxZoom \in Nat /\ MaxZoom > 1 /\ None \notin Int
  BY PartsAssumption DEF Zoom!ZoomAssumption, Zoom!Normal
<1>2. /\ zoom = 1 /\ left = 0 /\ window \in Widths /\ canvas = window
      /\ zooming = FALSE /\ frame = None /\ anchored = FALSE /\ settling = FALSE /\ snapping = FALSE
      /\ locked = FALSE /\ unlocking = FALSE /\ pinched = FALSE
      /\ pane = [at |-> 0, held |-> None] /\ asked = None
  BY DEF Zoom!Init, Zoom!Normal
<1>3. 0 \in Zoom!Positions /\ 1 \in Zoom!Levels
  BY <1>1 DEF Zoom!Levels, Zoom!Positions
<1>4. ZoomTyped
  <2>1. pane \in [at : Zoom!Positions, held : Zoom!Positions \cup {None}]
    BY <1>2, <1>3
  <2>2. zoom \in Zoom!Levels /\ left \in Int /\ canvas \in Widths /\ window \in Widths
    BY <1>2, <1>3
  <2> QED BY <1>2, <2>1, <2>2 DEF ZoomTyped
<1>5. ~(zoom > 1) /\ zooming = FALSE
  BY <1>2
<1>6. RestFits
  <2>1. (zoom > 1) = FALSE
    BY <1>2
  <2>2. zooming = (zoom > 1)
    BY <1>5, <2>1
  <2>3. zoom >= 1 /\ pane.held = None
    BY <1>2
  <2> QED BY <1>2, <2>2, <2>3 DEF RestFits
<1> QED BY <1>2, <1>4, <1>6 DEF ZoomInvariant, GestureFits, AskedFits

\* Every step keeps the invariant.
LEMMA ZoomNextKeeps ==
  ASSUME ZoomInvariant, [Zoom!Next]_(Zoom!vars)
  PROVE  ZoomInvariant'
<1> DEFINE Panes == [at : Zoom!Positions, held : Zoom!Positions \cup {None}]
<1>0. MaxZoom \in Nat /\ MaxZoom > 1 /\ None \notin Int /\ Widths \subseteq Nat \ {0}
  BY PartsAssumption DEF Zoom!ZoomAssumption, Zoom!Normal
<1>t. ZoomTyped /\ GestureFits /\ RestFits /\ AskedFits
  BY DEF ZoomInvariant
<1>l. Zoom!Levels \subseteq Int /\ None \notin Zoom!Levels /\ None \notin Zoom!Positions /\ 0 \in Zoom!Levels /\ 1 \in Zoom!Levels /\ 0 \in Zoom!Positions
  BY <1>0 DEF Zoom!Levels, Zoom!Positions
<1>p. pane \in Panes /\ zoom \in Int /\ left \in Int /\ zoom \in Zoom!Levels /\ canvas \in Widths /\ window \in Widths
  BY <1>t, <1>l DEF ZoomTyped
<1>r. /\ Zoom!Restore(pane) \in Panes /\ Zoom!Restore(pane).held = pane.held
      /\ Zoom!Restore(Zoom!Capture(pane)) \in Panes
      /\ Zoom!Release(Zoom!Restore(pane)) \in Panes /\ Zoom!Release(Zoom!Restore(pane)).held = None
  BY <1>p, PanesAre
\* What a lock leaves.
<1>k. ASSUME Zoom!Lock PROVE locked' = TRUE /\ unlocking' = TRUE /\ pane' \in Panes
  BY <1>k, <1>r DEF Zoom!Lock
<1>s. ASSUME NEW level \in Zoom!Levels, Zoom!Schedule(level), asked' = None, pinched' \in BOOLEAN PROVE ZoomInvariant'
  <2>1. locked' = TRUE /\ unlocking' = TRUE /\ pane' \in Panes
    BY <1>s, <1>k DEF Zoom!Schedule
  <2> QED BY <1>s, <1>t, <2>1 DEF ZoomInvariant, ZoomTyped, GestureFits, RestFits, AskedFits, Zoom!Schedule, Zoom!Gesturing
<1>1. ASSUME NEW level \in Zoom!Levels, Zoom!ZoomWheel(level) PROVE ZoomInvariant'
  BY <1>1, <1>s, <1>t DEF Zoom!ZoomWheel, ZoomTyped
<1>2. ASSUME NEW level \in Zoom!Levels, Zoom!Pinch(level) PROVE ZoomInvariant'
  <2>1. CASE Zoom!Schedule(level)
    BY <1>2, <1>s, <2>1 DEF Zoom!Pinch
  <2>2. CASE ~Zoom!Schedule(level)
    <3>1. Zoom!Lock /\ zooming' = TRUE /\ settling' = TRUE /\ asked' = None /\ pinched' = TRUE
          /\ UNCHANGED <<zoom, left, canvas, window, frame, anchored, snapping>>
      BY <1>2, <2>2 DEF Zoom!Pinch
    <3>2. locked' = TRUE /\ unlocking' = TRUE /\ pane' \in Panes
      BY <3>1, <1>k
    <3> QED BY <1>t, <3>1, <3>2 DEF ZoomInvariant, ZoomTyped, GestureFits, RestFits, AskedFits, Zoom!Gesturing
  <2> QED BY <2>1, <2>2
<1>3. ASSUME NEW level \in Zoom!Levels, Zoom!Command(level) PROVE ZoomInvariant'
  <2>1. zoom' \in Zoom!Levels /\ zoom' >= 1 /\ asked' = zoom'
    BY <1>3, <1>0, <1>p DEF Zoom!Command, Zoom!ClampCommitted, Zoom!Normal, Zoom!Levels
  <2>2. left' \in Int /\ (zoom' = 1 => left' = 0)
    BY <1>3, <1>p, <2>1, BoundsAre DEF Zoom!Command, Zoom!Normal
  <2>3. zooming' = (zoom' > 1) /\ zooming' \in BOOLEAN /\ UNCHANGED <<canvas, window>>
    BY <1>3 DEF Zoom!Command, Zoom!Normal, Zoom!SameSizes
  <2>4. pane' \in Panes /\ (pane'.held # None => zoom' > 1)
    BY <1>3, <1>r DEF Zoom!Command, Zoom!Normal
  <2>5. frame' = None /\ settling' = FALSE /\ snapping' = FALSE /\ anchored' = FALSE
        /\ locked' = FALSE /\ unlocking' = FALSE /\ pinched' = FALSE
    BY <1>3 DEF Zoom!Command
  <2>6. ZoomTyped'
    BY <1>p, <2>1, <2>2, <2>3, <2>4, <2>5 DEF ZoomTyped
  <2> QED BY <2>1, <2>2, <2>3, <2>4, <2>5, <2>6 DEF ZoomInvariant, GestureFits, RestFits, AskedFits, Zoom!Gesturing
\* Steps that move only text, or a zoomed canvas.
<1>m. ASSUME pane' \in Panes, left' \in Int, zooming' \in BOOLEAN,
             UNCHANGED <<zoom, canvas, window, frame, anchored, settling, snapping, locked, unlocking, pinched, asked>>,
             \/ pane'.held = pane.held /\ UNCHANGED <<left, zooming>>
             \/ zoom > 1 /\ zooming' = TRUE
             \/ pane'.held = None /\ UNCHANGED <<left, zooming>>
             \/ pane.held # None /\ UNCHANGED <<left, zooming>>
      PROVE  ZoomInvariant'
  <2>1. ZoomTyped' /\ GestureFits' /\ AskedFits'
    BY <1>m, <1>t DEF ZoomTyped, GestureFits, AskedFits, Zoom!Gesturing
  <2>2. RestFits'
    BY <1>m, <1>t, <1>p DEF RestFits, Zoom!Gesturing
  <2> QED BY <2>1, <2>2 DEF ZoomInvariant
<1>4. CASE Zoom!Wheel
  <2>0. UNCHANGED <<zoom, canvas, window, frame, anchored, settling, snapping, locked, unlocking, pinched, asked>>
    BY <1>4 DEF Zoom!Wheel, Zoom!timers
  <2>1. CASE pinched \/ Zoom!Frozen
    <3>1. pane' = Zoom!Restore(pane) /\ UNCHANGED <<left, zooming>>
      BY <1>4, <2>1 DEF Zoom!Wheel
    <3> QED BY <3>1, <2>0, <1>m, <1>r, <1>p, <1>t DEF ZoomTyped
  <2>2. CASE ~(pinched \/ Zoom!Frozen) /\ zoom > 1
    <3>1. Zoom!PanOrScroll
      BY <1>4, <2>2 DEF Zoom!Wheel, Zoom!Normal
    <3>2. CASE \E x \in Zoom!Bounds(zoom, canvas, window) \ {left} :
                 left' = x /\ zooming' = TRUE /\ pane' = Zoom!Restore(Zoom!Capture(pane))
      <4>1. left' \in Int /\ zooming' = TRUE /\ pane' \in Panes
        BY <3>2, <1>p, <1>r, BoundsAre
      <4> QED BY <4>1, <2>0, <2>2, <1>m
    <3>3. CASE UNCHANGED <<left, zooming>> /\ \E q \in Zoom!Positions : pane' = [at |-> q, held |-> q]
      <4>1. pane' \in Panes /\ left' \in Int /\ zooming' \in BOOLEAN
        BY <3>3, <1>p, <1>t DEF ZoomTyped
      <4>2. RestFits'
        BY <3>3, <2>0, <2>2, <1>t, <1>p DEF RestFits, Zoom!Gesturing
      <4>3. ZoomTyped' /\ GestureFits' /\ AskedFits'
        BY <4>1, <2>0, <1>t DEF ZoomTyped, GestureFits, AskedFits, Zoom!Gesturing
      <4> QED BY <4>2, <4>3 DEF ZoomInvariant
    <3> QED BY <3>1, <3>2, <3>3 DEF Zoom!PanOrScroll
  <2>3. CASE ~(pinched \/ Zoom!Frozen) /\ ~(zoom > 1)
    <3>1. UNCHANGED <<left, zooming>> /\ \E q \in Zoom!Positions : pane' = [pane EXCEPT !.at = q]
      BY <1>4, <2>3 DEF Zoom!Wheel, Zoom!Normal
    <3>2. pane' \in Panes /\ pane'.held = pane.held
      BY <3>1, <1>p
    <3> QED BY <3>1, <3>2, <2>0, <1>m, <1>p, <1>t DEF ZoomTyped
  <2> QED BY <2>1, <2>2, <2>3
<1>5. ASSUME NEW q \in Zoom!Positions, Zoom!Scroll(q) PROVE ZoomInvariant'
  <2>1. UNCHANGED <<zoom, left, canvas, window, zooming, frame, anchored, settling, snapping, locked, unlocking, pinched, asked>>
    BY <1>5 DEF Zoom!Scroll, Zoom!view, Zoom!timers
  <2>2. pane' \in Panes /\ (pane'.held = pane.held \/ pane.held # None)
    <3>1. CASE pane.held = None
      BY <1>5, <3>1, <1>p DEF Zoom!Scroll
    <3>2. CASE pane.held # None /\ Zoom!Frozen
      BY <1>5, <3>2, <1>r DEF Zoom!Scroll
    <3>3. CASE pane.held # None /\ ~Zoom!Frozen
      BY <1>5, <3>3, <1>p DEF Zoom!Scroll
    <3> QED BY <3>1, <3>2, <3>3
  <2> QED BY <2>1, <2>2, <1>m, <1>p, <1>t DEF ZoomTyped
<1>6. CASE Zoom!ReplacePane
  <2>1. pane' \in Panes /\ pane'.held = None
    BY <1>6, <1>l DEF Zoom!ReplacePane
  <2> QED BY <1>6, <2>1, <1>m, <1>p, <1>t DEF ZoomTyped, Zoom!ReplacePane, Zoom!view, Zoom!timers
<1>7. CASE Zoom!PlaceCursor
  <2>1. pane' \in Panes /\ zoom > 1
    BY <1>7, <1>p DEF Zoom!PlaceCursor, Zoom!Normal
  <2>2. UNCHANGED <<zoom, left, canvas, window, zooming, frame, anchored, settling, snapping, locked, unlocking, pinched, asked>>
    BY <1>7 DEF Zoom!PlaceCursor, Zoom!view, Zoom!timers
  <2>3. RestFits'
    BY <2>1, <2>2, <1>t, <1>p DEF RestFits, Zoom!Gesturing
  <2>4. ZoomTyped' /\ GestureFits' /\ AskedFits'
    BY <2>1, <2>2, <1>t DEF ZoomTyped, GestureFits, AskedFits, Zoom!Gesturing
  <2> QED BY <2>3, <2>4 DEF ZoomInvariant
<1>8. ASSUME NEW wide \in Widths, Zoom!Resize(wide) PROVE ZoomInvariant'
  <2>0. window' = wide /\ UNCHANGED <<frame, anchored, settling, snapping, locked, unlocking, pinched, pane, asked>>
    BY <1>8 DEF Zoom!Resize, Zoom!timers
  <2>1. CASE anchored \/ frame # None \/ snapping
    <3>1. UNCHANGED <<zoom, left, canvas, zooming>>
      BY <1>8, <2>1 DEF Zoom!Resize
    <3> QED BY <2>0, <3>1, <1>t DEF ZoomInvariant, ZoomTyped, GestureFits, RestFits, AskedFits, Zoom!Gesturing
  <2>2. CASE ~(anchored \/ frame # None \/ snapping)
    <3>1. canvas' = wide /\ Zoom!ShowCommitted(zoom, left)
      BY <1>8, <2>2 DEF Zoom!Resize
    <3>2. zoom <= MaxZoom
      BY <1>p, <1>0 DEF Zoom!Levels
    <3>3. /\ zoom' \in Zoom!Levels /\ left' \in Int /\ zooming' \in BOOLEAN
          /\ zoom' = (IF zoom < 1 THEN 1 ELSE zoom)
          /\ zoom' >= 1 /\ (zoom' = 1 => left' = 0) /\ zooming' = (zoom' > 1)
      BY <2>0, <3>1, <3>2, <1>p, ShownIsCommitted
    <3>4. ZoomTyped' /\ GestureFits'
      BY <2>0, <3>1, <3>3, <1>t DEF ZoomTyped, GestureFits
    <3>5. RestFits'
      BY <2>0, <3>3, <1>t, <1>p DEF RestFits, Zoom!Gesturing
    <3>6. AskedFits'
      BY <2>0, <3>3, <1>t, <1>p DEF AskedFits, RestFits, Zoom!Gesturing
    <3> QED BY <3>4, <3>5, <3>6 DEF ZoomInvariant
  <2> QED BY <2>1, <2>2
<1>9. CASE Zoom!ShowFrame
  <2>1. frame # None /\ frame \in Zoom!Levels /\ Zoom!ShowElastic(frame) /\ frame' = None
        /\ UNCHANGED <<anchored, settling, snapping, locked, unlocking, pinched, pane, asked>>
    BY <1>9, <1>t DEF Zoom!ShowFrame, ZoomTyped
  <2>2. zoom' \in Zoom!Levels /\ left' \in Int /\ zooming' = TRUE /\ UNCHANGED <<canvas, window>>
    BY <2>1, <1>p, BoundsAre DEF Zoom!ShowElastic
  <2> QED BY <2>1, <2>2, <1>t DEF ZoomInvariant, ZoomTyped, GestureFits, RestFits, AskedFits, Zoom!Gesturing
<1>10. CASE Zoom!Settle
  <2>1. /\ settling /\ settling' = FALSE /\ frame' = None /\ anchored' = FALSE /\ UNCHANGED <<canvas, window, pinched, asked>>
        /\ locked' = TRUE /\ unlocking' = TRUE /\ pane' \in Panes
    BY <1>10, <1>k DEF Zoom!Settle, Zoom!SameSizes
  <2> DEFINE level == IF frame = None THEN zoom ELSE frame
  <2>2. level \in Zoom!Levels
    BY <1>t DEF ZoomTyped
  <2>3. PICK x \in IF frame = None THEN {left} ELSE Zoom!Bounds(level, canvas, window) :
          IF level = 1 THEN Zoom!ShowCommitted(1, 0) /\ UNCHANGED snapping
          ELSE /\ zoom' = level /\ left' = x /\ zooming' = TRUE
               /\ snapping' = (snapping \/ level < 1)
    BY <1>10 DEF Zoom!Settle, Zoom!Normal
  <2>4. x \in Int
    BY <1>p, <2>2, BoundsAre
  <2>5. zoom' \in Zoom!Levels /\ left' \in Int /\ zooming' \in BOOLEAN /\ snapping' \in BOOLEAN
    <3>1. CASE level = 1
      BY <2>3, <3>1, <2>1, <1>0, <1>p, <1>t, ShownIsCommitted DEF ZoomTyped
    <3>2. CASE level # 1
      BY <2>3, <3>2, <2>2, <2>4
    <3> QED BY <3>1, <3>2
  <2>6. ZoomTyped'
    BY <1>t, <2>1, <2>5 DEF ZoomTyped
  <2>7. asked' = None
    BY <2>1, <1>t DEF AskedFits, Zoom!Gesturing
  <2> QED BY <2>1, <2>6, <2>7 DEF ZoomInvariant, GestureFits, RestFits, AskedFits
<1>11. CASE Zoom!Snap
  <2>1. /\ snapping /\ UNCHANGED <<frame, anchored, settling, pinched, asked>>
        /\ locked' = TRUE /\ unlocking' = TRUE /\ pane' \in Panes
    BY <1>11, <1>k DEF Zoom!Snap
  <2>2. zoom' \in Zoom!Levels /\ left' \in Int /\ zooming' \in BOOLEAN /\ snapping' \in BOOLEAN /\ UNCHANGED <<canvas, window>>
    <3>1. CASE Zoom!ShowElastic(0) /\ UNCHANGED snapping
      BY <3>1, <1>l, <1>p, <1>t, BoundsAre DEF Zoom!ShowElastic, ZoomTyped
    <3>2. CASE Zoom!SameSizes /\ Zoom!ShowCommitted(1, 0) /\ snapping' = FALSE
      <4>1. UNCHANGED <<canvas, window>>
        BY <3>2 DEF Zoom!SameSizes
      <4>2. zoom' \in Zoom!Levels /\ left' \in Int /\ zooming' \in BOOLEAN
        BY <3>2, <4>1, <1>0, <1>p, ShownIsCommitted
      <4> QED BY <3>2, <4>1, <4>2
    <3> QED BY <1>11, <3>1, <3>2 DEF Zoom!Snap, Zoom!Normal
  <2>3. ZoomTyped'
    BY <1>t, <2>1, <2>2 DEF ZoomTyped
  <2>4. asked' = None
    BY <2>1, <1>t DEF AskedFits, Zoom!Gesturing
  <2> QED BY <2>1, <2>3, <2>4, <1>t DEF ZoomInvariant, GestureFits, RestFits, AskedFits
<1>12. CASE Zoom!Unlock
  <2>1. /\ unlocking /\ ~locked /\ ~settling /\ unlocking' = FALSE
        /\ UNCHANGED <<frame, anchored, settling, snapping, locked, pinched, asked, canvas, window>>
    BY <1>12 DEF Zoom!Unlock, Zoom!SameSizes
  <2>2. asked' = None
    BY <2>1, <1>t DEF AskedFits
  <2>3. CASE zoom <= 1
    <3>1. Zoom!ShowCommitted(1, 0) /\ pane' = Zoom!Release(Zoom!Restore(pane))
      BY <1>12, <2>3 DEF Zoom!Unlock, Zoom!Normal
    <3>2. zoom' \in Zoom!Levels /\ zoom' = 1 /\ left' \in Int /\ left' = 0 /\ zooming' \in BOOLEAN /\ zooming' = (zoom' > 1)
      BY <2>1, <3>1, <1>0, <1>p, ShownIsCommitted
    <3>3. pane' \in Panes /\ pane'.held = None
      BY <3>1, <1>r
    <3>4. ZoomTyped'
      BY <2>1, <3>2, <3>3, <1>t DEF ZoomTyped
    <3>5. GestureFits' /\ AskedFits'
      BY <2>1, <2>2, <1>t DEF GestureFits, AskedFits
    <3>6. RestFits'
      BY <3>2, <3>3 DEF RestFits
    <3> QED BY <3>4, <3>5, <3>6 DEF ZoomInvariant
  <2>4. CASE ~(zoom <= 1)
    <3>1. zooming' = TRUE /\ pane' = Zoom!Restore(pane) /\ UNCHANGED <<zoom, left>> /\ zoom > 1
      BY <1>12, <2>4, <1>p DEF Zoom!Unlock, Zoom!Normal
    <3>2. ZoomTyped'
      BY <2>1, <3>1, <1>r, <1>t DEF ZoomTyped
    <3>3. GestureFits' /\ AskedFits'
      BY <2>1, <2>2, <1>t DEF GestureFits, AskedFits
    <3>4. zoom' > 1 /\ zoom' \in Int /\ zooming' = (zoom' > 1)
      BY <3>1, <1>p
    <3>5. RestFits'
      BY <3>4 DEF RestFits
    <3> QED BY <3>2, <3>3, <3>5 DEF ZoomInvariant
  <2> QED BY <2>3, <2>4
<1>13. CASE Zoom!PinchPasses
  BY <1>13, <1>t DEF ZoomInvariant, ZoomTyped, GestureFits, RestFits, AskedFits, Zoom!PinchPasses, Zoom!view, Zoom!timers, Zoom!Gesturing
<1>14. CASE Zoom!LockPasses
  BY <1>14, <1>t DEF ZoomInvariant, ZoomTyped, GestureFits, RestFits, AskedFits, Zoom!LockPasses, Zoom!view, Zoom!Gesturing
<1>15. CASE UNCHANGED Zoom!vars
  BY <1>15, <1>t DEF ZoomInvariant, ZoomTyped, GestureFits, RestFits, AskedFits, Zoom!vars, Zoom!view, Zoom!timers, Zoom!Gesturing
<1>16. CASE Zoom!Quiet
  BY <1>16, <1>15 DEF Zoom!Quiet
<1> QED
  BY <1>1, <1>2, <1>3, <1>4, <1>5, <1>6, <1>7, <1>8, <1>9, <1>10, <1>11, <1>12, <1>13, <1>14, <1>15, <1>16
  DEF Zoom!Next, Zoom!Input, Zoom!Timer

\* The invariant says what is promised.
LEMMA ZoomPromised == ZoomInvariant => Zoom!TypeOK /\ Zoom!RestIsCommitted /\ Zoom!CommandsStay
<1> SUFFICES ASSUME ZoomInvariant PROVE Zoom!TypeOK /\ Zoom!RestIsCommitted /\ Zoom!CommandsStay
  OBVIOUS
<1>1. Zoom!TypeOK
  BY DEF ZoomInvariant, ZoomTyped, Zoom!TypeOK
<1>2. Zoom!RestIsCommitted
  BY DEF ZoomInvariant, RestFits, Zoom!RestIsCommitted, Zoom!Normal
<1>3. Zoom!CommandsStay
  BY DEF ZoomInvariant, AskedFits, Zoom!CommandsStay
<1> QED BY <1>1, <1>2, <1>3

-----------------------------------------------------------------------------
(* The native menu and the recent documents. *)

\* A history is a sequence of distinct documents.
HistoryOf(h, n) ==
  /\ n \in Nat /\ n <= Limit /\ h \in [1..n -> Documents]
  /\ \A i, j \in 1..n : h[i] = h[j] => i = j

\* In the phase an installation is in, what is built is held, and shown and active are the same menu but
\* between the two steps that replace them.
PhaseFits ==
  IF current = None THEN leases = {} /\ shown = active
  ELSE /\ current \in Menu!Installations /\ (current.phase # "building" => current.bank \in Menu!Banks)
       /\ current.phase = "building" => leases = {} /\ shown = active
       /\ current.phase = "built" =>
            /\ leases = {Menu!Menu} /\ shown = active
            /\ handlers[current.bank] = Menu!Menu /\ (active # None => active.bank # current.bank)
       /\ current.phase = "installed" =>
            /\ leases \subseteq {Menu!Menu, current.previous} \ {None} /\ shown = Menu!Menu
       /\ current.phase = "closing" => leases \subseteq {Menu!Menu} /\ shown = active

MenuTyped ==
  /\ history \in Menu!Histories /\ entries \in Menu!Histories /\ repository \in Menu!Contexts
  /\ opening \in Documents \cup {None} /\ lost \in BOOLEAN
  /\ wanted \in Menu!Contents \cup {None} /\ pending \in Menu!Contents \cup {None}
  /\ handlers \in [Menu!Banks -> Menu!Menus \cup {None}]
  /\ shown \in Menu!Menus \cup {None} /\ active \in Menu!Menus \cup {None}
  /\ None \notin leases

\* The native side finds the handlers of the menu it shows, so that a click means what was shown.
HandlersFit == shown # None => handlers[shown.bank] = shown
ClicksFit == \A click \in clicks : click.path = click.meant

MenuInvariant == MenuTyped /\ PhaseFits /\ HandlersFit /\ ClicksFit

\* The instance counts as the library does.
LEMMA MenuCounts == \A S : Menu!Cardinality(S) = Cardinality(S)
BY DEF Menu!Cardinality, Cardinality

\* The constants.
LEMMA MenuConstants == Limit \in Nat /\ Limit >= 1 /\ None \notin Menu!Menus /\ None \notin Menu!Installations
BY PartsAssumption DEF Menu!MenuAssumption

\* The histories are the sequences of at most so many distinct documents.
LEMMA HistoriesAre == \A h : h \in Menu!Histories <=> \E n \in Nat : HistoryOf(h, n)
<1>1. ASSUME NEW h, h \in Menu!Histories PROVE \E n \in Nat : HistoryOf(h, n)
  <2>1. PICK n \in 0..Limit : h \in [1..n -> Documents] /\ Menu!IsInjective(h)
    BY <1>1 DEF Menu!Histories
  <2>2. n \in Nat /\ n <= Limit
    BY <2>1, MenuConstants
  <2> QED BY <2>1, <2>2 DEF HistoryOf, Menu!IsInjective
<1>2. ASSUME NEW h, NEW n \in Nat, HistoryOf(h, n) PROVE h \in Menu!Histories
  <2>1. n \in 0..Limit
    BY <1>2, MenuConstants DEF HistoryOf
  <2>2. h \in [1..n -> Documents] /\ Menu!IsInjective(h)
    BY <1>2 DEF HistoryOf, Menu!IsInjective
  <2> QED BY <2>1, <2>2 DEF Menu!Histories
<1> QED BY <1>1, <1>2

\* Removing a document leaves a history without it.
LEMMA RemovedIs ==
  ASSUME NEW h \in Menu!Histories, NEW d
  PROVE  \E n \in Nat : HistoryOf(Menu!Removed(h, d), n) /\ \A i \in 1..n : Menu!Removed(h, d)[i] # d
<1>1. PICK n \in Nat : HistoryOf(h, n)
  BY HistoriesAre
<1>2. Len(h) = n /\ DOMAIN h = 1..n
  BY <1>1 DEF HistoryOf
<1>3. CASE d \notin Menu!Range(h)
  <2>1. Menu!Removed(h, d) = h
    BY <1>3 DEF Menu!Removed
  <2>2. \A i \in 1..n : h[i] # d
    BY <1>3, <1>2 DEF Menu!Range
  <2> QED BY <1>1, <2>1, <2>2
<1>4. CASE d \in Menu!Range(h)
  <2>1. PICK k \in 1..n : h[k] = d
    BY <1>4, <1>2 DEF Menu!Range
  <2> DEFINE r == Menu!Removed(h, d)
  <2>2. r = [i \in 1..(n - 1) |-> IF \E j \in 1..i : h[j] = d THEN h[i + 1] ELSE h[i]]
    BY <1>4, <1>2 DEF Menu!Removed
  <2>3. ASSUME NEW i \in 1..(n - 1) PROVE r[i] = (IF k <= i THEN h[i + 1] ELSE h[i])
    <3>1. (\E j \in 1..i : h[j] = d) <=> k <= i
      BY <1>1, <2>1 DEF HistoryOf
    <3> QED BY <3>1, <2>2
  <2> HIDE DEF r
  <2>4. n - 1 \in Nat /\ n - 1 <= Limit
    BY <2>1, <1>1, MenuConstants DEF HistoryOf
  <2>5. ASSUME NEW i \in 1..(n - 1) PROVE r[i] \in Documents /\ r[i] # d
    <3>1. i \in 1..n /\ i + 1 \in 1..n
      OBVIOUS
    <3>2. h[i] \in Documents /\ h[i + 1] \in Documents /\ (h[i] = d => i = k) /\ (h[i + 1] = d => i + 1 = k)
      BY <3>1, <2>1, <1>1 DEF HistoryOf
    <3> QED BY <3>2, <2>3
  <2>6. r \in [1..(n - 1) -> Documents]
    <3>1. r = [i \in 1..(n - 1) |-> r[i]]
      BY <2>2
    <3> QED BY <3>1, <2>5
  <2>7. ASSUME NEW i \in 1..(n - 1), NEW j \in 1..(n - 1), r[i] = r[j] PROVE i = j
    <3> DEFINE at(m) == IF k <= m THEN m + 1 ELSE m
    <3>1. at(i) \in 1..n /\ at(j) \in 1..n /\ r[i] = h[at(i)] /\ r[j] = h[at(j)]
      BY <2>3
    <3>2. at(i) = at(j)
      BY <3>1, <2>7, <1>1 DEF HistoryOf
    <3> QED BY <3>2, <2>1
  <2>8. HistoryOf(r, n - 1)
    BY <2>4, <2>6, <2>7 DEF HistoryOf
  <2> QED BY <2>4, <2>5, <2>8 DEF r
<1> QED BY <1>3, <1>4

\* Recording a document puts it first.
LEMMA RecordedIs ==
  ASSUME NEW h \in Menu!Histories, NEW d \in Documents
  PROVE  Menu!Recorded(h, d) \in Menu!Histories
<1> DEFINE others == Menu!Removed(h, d)
           all == <<d>> \o others
<1>1. PICK n \in Nat : HistoryOf(others, n) /\ \A i \in 1..n : others[i] # d
  BY RemovedIs
<1> HIDE DEF others
<1>2. others \in Seq(Documents) /\ Len(others) = n
  BY <1>1 DEF HistoryOf
<1>3. all \in Seq(Documents) /\ Len(all) = n + 1 /\ all[1] = d /\ \A i \in 2..(n + 1) : all[i] = others[i - 1]
  BY <1>2
<1> DEFINE m == IF Len(all) > Limit THEN Limit ELSE Len(all)
<1>4. m \in Nat /\ m <= Limit /\ m <= n + 1 /\ m >= 1
  BY <1>3, MenuConstants
<1>5. Menu!Recorded(h, d) = SubSeq(all, 1, m)
  BY DEF Menu!Recorded, others
<1> HIDE DEF all, m
<1> DEFINE s == SubSeq(all, 1, m)
<1>6. s = [i \in 1..m |-> all[i]]
  BY <1>3, <1>4
<1> HIDE DEF s
<1>7. ASSUME NEW i \in 1..m PROVE all[i] \in Documents
  BY <1>3, <1>4
<1>8. s \in [1..m -> Documents]
  BY <1>6, <1>7
<1>9. ASSUME NEW i \in 1..m, NEW j \in 1..m, all[i] = all[j] PROVE i = j
  <2>1. CASE i = 1 /\ j # 1
    <3>1. j - 1 \in 1..n /\ j \in 2..(n + 1)
      BY <2>1, <1>4
    <3> QED BY <3>1, <2>1, <1>1, <1>3, <1>9
  <2>2. CASE i # 1 /\ j = 1
    <3>1. i - 1 \in 1..n /\ i \in 2..(n + 1)
      BY <2>2, <1>4
    <3> QED BY <3>1, <2>2, <1>1, <1>3, <1>9
  <2>3. CASE i # 1 /\ j # 1
    <3>1. i - 1 \in 1..n /\ i \in 2..(n + 1) /\ j - 1 \in 1..n /\ j \in 2..(n + 1)
      BY <2>3, <1>4
    <3>2. others[i - 1] = others[j - 1]
      BY <3>1, <1>3, <1>9
    <3>3. i - 1 = j - 1
      BY <3>1, <3>2, <1>1 DEF HistoryOf
    <3> QED BY <3>3
  <2> QED BY <2>1, <2>2, <2>3
<1>10. HistoryOf(s, m)
  BY <1>4, <1>6, <1>8, <1>9 DEF HistoryOf
<1> QED BY <1>4, <1>5, <1>10, HistoriesAre DEF s

\* A history may be empty.
LEMMA EmptyIs == <<>> \in Menu!Histories
<1>1. HistoryOf(<<>>, 0)
  BY MenuConstants DEF HistoryOf
<1> QED BY <1>1, HistoriesAre

\* What histories may become.
LEMMA HistoriesChange ==
  ASSUME NEW h \in Menu!Histories, NEW d
  PROVE  Menu!Removed(h, d) \in Menu!Histories /\ (d \in Documents => Menu!Recorded(h, d) \in Menu!Histories)
BY RemovedIs, RecordedIs, HistoriesAre

\* A history holds documents.
LEMMA HistoryHolds == \A h \in Menu!Histories : Menu!Range(h) \subseteq Documents
BY HistoriesAre DEF HistoryOf, Menu!Range

\* The menu in hand.
LEMMA MenuIs ==
  ASSUME NEW c \in Menu!Installations, NEW b \in Menu!Banks
  PROVE  [bank |-> b, entries |-> c.content.entries, content |-> c.content] \in Menu!Menus
<1>1. c.content \in Menu!Contents /\ c.content.entries \in Menu!Histories
  BY DEF Menu!Installations, Menu!Contents
<1> QED BY <1>1 DEF Menu!Menus

\* At first, there is no menu.
LEMMA MenuInitFits == Menu!Init => MenuInvariant
<1> SUFFICES ASSUME Menu!Init PROVE MenuInvariant
  OBVIOUS
<1>1. history \in Menu!Histories /\ entries = history
  BY PartsAssumption DEF Menu!Init, Menu!MenuAssumption
<1>2. repository \in Menu!Contexts
  BY DEF Menu!Init, Menu!Contexts
<1>3. /\ opening = None /\ wanted = None /\ pending = None /\ current = None /\ shown = None /\ active = None
      /\ leases = {} /\ clicks = {} /\ lost = FALSE
  BY DEF Menu!Init
<1>4. handlers \in [Menu!Banks -> Menu!Menus \cup {None}]
  BY DEF Menu!Init
<1>5. MenuTyped
  BY <1>1, <1>2, <1>3, <1>4 DEF MenuTyped
<1>6. PhaseFits /\ HandlersFit /\ ClicksFit
  BY <1>3 DEF PhaseFits, HandlersFit, ClicksFit
<1> QED BY <1>5, <1>6 DEF MenuInvariant

\* Steps that leave the installer alone.
LEMMA OutsideKeeps ==
  ASSUME MenuInvariant, UNCHANGED Menu!installer,
         history' \in Menu!Histories, entries' \in Menu!Histories, repository' \in Menu!Contexts,
         opening' \in Documents \cup {None}, wanted' \in Menu!Contents \cup {None}, ClicksFit'
  PROVE  MenuInvariant'
<1>1. UNCHANGED <<pending, current, handlers, shown, active, leases, lost>>
  BY DEF Menu!installer
<1>2. UNCHANGED Menu!Menu
  BY <1>1 DEF Menu!Menu
<1>3. MenuTyped'
  BY <1>1 DEF MenuInvariant, MenuTyped
<1>4. PhaseFits' /\ HandlersFit'
  BY <1>1, <1>2 DEF MenuInvariant, PhaseFits, HandlersFit
<1> QED BY <1>3, <1>4 DEF MenuInvariant

\* What users, other windows and the session do.
LEMMA MenuUseKeeps ==
  ASSUME MenuInvariant,
         \/ Menu!User \/ Menu!OtherWindow \/ Menu!RepositoryChanges \/ Menu!Refresh \/ Menu!Opened
         \/ \E click \in clicks : Menu!Deliver(click)
  PROVE  MenuInvariant'
<1>t. /\ history \in Menu!Histories /\ entries \in Menu!Histories /\ repository \in Menu!Contexts
      /\ opening \in Documents \cup {None} /\ wanted \in Menu!Contents \cup {None}
      /\ \A click \in clicks : click.path = click.meant
  BY DEF MenuInvariant, MenuTyped, ClicksFit
<1>1. ASSUME NEW i \in 1..Limit, Menu!Click(i) PROVE MenuInvariant'
  <2>1. shown # None /\ handlers[shown.bank] = shown
    BY <1>1 DEF Menu!Click, MenuInvariant, HandlersFit
  <2>2. \A click \in clicks' : click.path = click.meant
    BY <1>1, <2>1, <1>t DEF Menu!Click
  <2>3. UNCHANGED <<history, entries, repository, opening, wanted, Menu!installer>>
    BY <1>1 DEF Menu!Click
  <2> QED BY <2>2, <2>3, <1>t, OutsideKeeps DEF ClicksFit
<1>2. CASE Menu!Clear
  <2>1. history' \in Menu!Histories /\ entries' \in Menu!Histories
    BY <1>2, <1>t, EmptyIs DEF Menu!Clear
  <2>2. UNCHANGED <<repository, opening, wanted, Menu!installer, clicks>>
    BY <1>2 DEF Menu!Clear
  <2> QED BY <2>1, <2>2, <1>t, OutsideKeeps DEF ClicksFit
<1>3. ASSUME NEW c \in Menu!RepositoryCommands, Menu!Command(c) PROVE MenuInvariant'
  <2>1. repository' \in Menu!Contexts
    BY <1>3, <1>t DEF Menu!Command, Menu!Contexts
  <2>2. UNCHANGED <<history, entries, opening, wanted, Menu!installer, clicks>>
    BY <1>3 DEF Menu!Command
  <2> QED BY <2>1, <2>2, <1>t, OutsideKeeps DEF ClicksFit
<1>4. CASE Menu!OtherWindow
  <2>1. history' \in Menu!Histories
    BY <1>4, <1>t, HistoriesChange, EmptyIs DEF Menu!OtherWindow
  <2>2. UNCHANGED <<entries, repository, opening, wanted, Menu!installer, clicks>>
    BY <1>4 DEF Menu!OtherWindow
  <2> QED BY <2>1, <2>2, <1>t, OutsideKeeps DEF ClicksFit
<1>5. CASE Menu!RepositoryChanges
  <2>1. repository' \in Menu!Contexts
    BY <1>5 DEF Menu!RepositoryChanges
  <2>2. UNCHANGED <<history, entries, opening, wanted, Menu!installer, clicks>>
    BY <1>5 DEF Menu!RepositoryChanges
  <2> QED BY <2>1, <2>2, <1>t, OutsideKeeps DEF ClicksFit
<1>6. CASE Menu!Refresh
  BY <1>6, <1>t, OutsideKeeps DEF Menu!Refresh, ClicksFit
<1>7. CASE Menu!Opened
  <2>1. opening \in Documents /\ opening' = None
    BY <1>7, <1>t DEF Menu!Opened
  <2>2. history' \in Menu!Histories /\ entries' \in Menu!Histories
    BY <1>7, <2>1, <1>t, HistoriesChange DEF Menu!Opened
  <2>3. UNCHANGED <<repository, wanted, Menu!installer, clicks>>
    BY <1>7 DEF Menu!Opened
  <2> QED BY <2>1, <2>2, <2>3, <1>t, OutsideKeeps DEF ClicksFit
<1>8. ASSUME NEW click \in clicks, Menu!Deliver(click) PROVE MenuInvariant'
  <2>1. opening' \in Documents \cup {None}
    BY <1>8, <1>t, HistoryHolds DEF Menu!Deliver
  <2>2. \A c \in clicks' : c.path = c.meant
    BY <1>8, <1>t DEF Menu!Deliver
  <2>3. UNCHANGED <<history, entries, repository, wanted, Menu!installer>>
    BY <1>8 DEF Menu!Deliver
  <2> QED BY <2>1, <2>2, <2>3, <1>t, OutsideKeeps DEF ClicksFit
<1> QED BY <1>1, <1>2, <1>3, <1>4, <1>5, <1>6, <1>7, <1>8 DEF Menu!User

\* What the installer and the effect of the window do.
LEMMA MenuInstallKeeps ==
  ASSUME MenuInvariant, Menu!Render \/ Menu!Installer
  PROVE  MenuInvariant'
<1>t. MenuTyped /\ PhaseFits /\ HandlersFit /\ ClicksFit
  BY DEF MenuInvariant
<1>i. ASSUME current # None
      PROVE  /\ current \in Menu!Installations /\ current.content \in Menu!Contents /\ current.cancelled \in BOOLEAN
             /\ current.phase \in {"building", "built", "installed", "closing"} /\ current.bank \in Menu!Banks \cup {None}
             /\ current.previous \in Menu!Menus \cup {None}
  <2>1. current \in Menu!Installations
    BY <1>i, <1>t DEF PhaseFits
  <2> QED BY <2>1 DEF Menu!Installations
<1>c. None \notin Menu!Menus /\ None \notin Menu!Installations
  BY MenuConstants
<1>b. Menu!Bank \in Menu!Banks /\ (active # None => active.bank # Menu!Bank)
  BY DEF Menu!Bank, Menu!Banks
\* The menu in hand is a menu.
<1>m. ASSUME current # None, current.bank \in Menu!Banks PROVE Menu!Menu \in Menu!Menus /\ Menu!Menu.bank = current.bank
  BY <1>m, <1>i, MenuIs DEF Menu!Menu
<1>1. CASE Menu!Render
  <2>1. /\ wanted' = Menu!Content /\ pending' = Menu!Content
        /\ current' = IF current = None THEN None ELSE [current EXCEPT !.cancelled = TRUE]
        /\ UNCHANGED <<history, entries, repository, opening, handlers, shown, active, leases, clicks, lost>>
    BY <1>1 DEF Menu!Render
  <2>2. Menu!Content \in Menu!Contents
    BY <1>t DEF MenuTyped, Menu!Content, Menu!Contents
  <2>3. MenuTyped'
    BY <1>t, <2>1, <2>2 DEF MenuTyped
  <2>4. PhaseFits'
    <3>1. CASE current = None
      BY <3>1, <2>1, <1>t DEF PhaseFits
    <3>2. CASE current # None
      <4>1. current' \in Menu!Installations
        BY <3>2, <2>1, <1>i DEF Menu!Installations
      <4>2. current' # None /\ current'.phase = current.phase /\ current'.bank = current.bank
            /\ current'.content = current.content /\ current'.previous = current.previous
        BY <3>2, <2>1, <4>1, <1>i, <1>c DEF Menu!Installations
      <4>3. Menu!Menu' = Menu!Menu
        BY <4>2 DEF Menu!Menu
      <4> QED BY <3>2, <4>1, <4>2, <4>3, <2>1, <1>t DEF PhaseFits
    <3> QED BY <3>1, <3>2
  <2> QED BY <2>1, <2>3, <2>4, <1>t DEF MenuInvariant, HandlersFit, ClicksFit
<1>2. CASE Menu!Take
  <2>1. /\ pending # None /\ current = None /\ pending' = None /\ lost' = FALSE
        /\ current' = [content |-> pending, phase |-> "building", bank |-> None, previous |-> None, cancelled |-> FALSE]
        /\ UNCHANGED <<history, entries, repository, opening, wanted, handlers, shown, active, leases, clicks>>
    BY <1>2 DEF Menu!Take
  <2>2. pending \in Menu!Contents
    BY <2>1, <1>t DEF MenuTyped
  <2>3. current' \in Menu!Installations /\ current'.phase = "building"
    <3>1. None \in Menu!Banks \cup {None} /\ None \in Menu!Menus \cup {None}
      OBVIOUS
    <3> QED BY <2>1, <2>2, <3>1 DEF Menu!Installations
  <2>4. MenuTyped'
    BY <1>t, <2>1 DEF MenuTyped
  <2>5. PhaseFits'
    BY <1>t, <1>c, <2>1, <2>3 DEF PhaseFits
  <2> QED BY <2>1, <2>4, <2>5, <1>t DEF MenuInvariant, HandlersFit, ClicksFit
<1>3. CASE Menu!Build
  <2> DEFINE menu == [bank |-> Menu!Bank, entries |-> current.content.entries, content |-> current.content]
  <2>1. /\ current # None /\ current.phase = "building"
        /\ handlers' = [handlers EXCEPT ![Menu!Bank] = menu] /\ leases' = leases \cup {menu}
        /\ current' = [current EXCEPT !.phase = IF current.cancelled THEN "closing" ELSE "built", !.bank = Menu!Bank]
        /\ UNCHANGED <<history, entries, repository, opening, wanted, pending, shown, active, clicks, lost>>
    BY <1>3 DEF Menu!Build
  <2>2. menu \in Menu!Menus /\ menu.bank = Menu!Bank
    BY <2>1, <1>i, <1>b, MenuIs
  <2>3. leases = {} /\ shown = active
    BY <2>1, <1>t DEF PhaseFits
  <2>4. current' \in Menu!Installations /\ current'.phase \in {"closing", "built"} /\ current'.bank = Menu!Bank
        /\ current'.content = current.content
    BY <2>1, <1>i, <1>b DEF Menu!Installations
  <2>5. Menu!Menu' = menu
    BY <2>4 DEF Menu!Menu
  <2>6. handlers' \in [Menu!Banks -> Menu!Menus \cup {None}] /\ handlers'[Menu!Bank] = menu
        /\ \A b \in Menu!Banks : b # Menu!Bank => handlers'[b] = handlers[b]
    BY <2>1, <2>2, <1>b, <1>t DEF MenuTyped
  <2> HIDE DEF menu
  <2>7. MenuTyped'
    BY <1>t, <1>c, <2>1, <2>2, <2>3, <2>6 DEF MenuTyped
  <2>8. PhaseFits'
    BY <1>c, <1>b, <2>1, <2>3, <2>4, <2>5, <2>6 DEF PhaseFits
  <2>9. HandlersFit'
    <3>1. ASSUME shown # None PROVE shown.bank \in Menu!Banks /\ shown.bank # Menu!Bank
      BY <3>1, <1>t, <1>b, <2>3 DEF MenuTyped, Menu!Menus
    <3> QED BY <3>1, <2>1, <2>6, <1>t DEF HandlersFit
  <2> QED BY <2>1, <2>7, <2>8, <2>9, <1>t DEF MenuInvariant, ClicksFit
<1>4. CASE Menu!Install
  <2>1. /\ current # None /\ current.phase = "built" /\ shown' = Menu!Menu
        /\ leases' = (IF shown = None THEN leases ELSE leases \cup {shown})
        /\ current' = [current EXCEPT !.phase = "installed", !.previous = shown]
        /\ UNCHANGED <<history, entries, repository, opening, wanted, pending, handlers, active, clicks, lost>>
    BY <1>4 DEF Menu!Install
  <2>2. /\ leases = {Menu!Menu} /\ handlers[current.bank] = Menu!Menu /\ current.bank \in Menu!Banks
        /\ Menu!Menu \in Menu!Menus /\ Menu!Menu.bank = current.bank
    BY <2>1, <1>t, <1>m DEF PhaseFits
  <2>3. current' \in Menu!Installations /\ current'.phase = "installed" /\ current'.bank = current.bank
        /\ current'.content = current.content /\ current'.previous = shown
    BY <2>1, <1>i, <1>t DEF MenuTyped, Menu!Installations
  <2>4. Menu!Menu' = Menu!Menu
    BY <2>3 DEF Menu!Menu
  <2>5. None \notin leases' /\ leases' \subseteq {Menu!Menu, shown} \ {None}
    BY <2>1, <2>2, <1>c
  <2>6. MenuTyped'
    BY <1>t, <2>1, <2>2, <2>5 DEF MenuTyped
  <2>7. PhaseFits'
    BY <1>c, <2>1, <2>2, <2>3, <2>4, <2>5 DEF PhaseFits
  <2>8. HandlersFit'
    BY <2>1, <2>2 DEF HandlersFit
  <2> QED BY <2>1, <2>6, <2>7, <2>8, <1>t DEF MenuInvariant, ClicksFit
<1>5. CASE Menu!Activate
  <2>1. /\ current # None /\ current.phase = "installed" /\ active' = Menu!Menu
        /\ leases' = leases \ {current.previous} /\ current' = [current EXCEPT !.phase = "closing"]
        /\ UNCHANGED <<history, entries, repository, opening, wanted, pending, handlers, shown, clicks, lost>>
    BY <1>5 DEF Menu!Activate
  <2>2. /\ leases \subseteq {Menu!Menu, current.previous} \ {None} /\ shown = Menu!Menu /\ current.bank \in Menu!Banks
        /\ Menu!Menu \in Menu!Menus
    BY <2>1, <1>t, <1>m DEF PhaseFits
  <2>3. current' \in Menu!Installations /\ current'.phase = "closing" /\ current'.bank = current.bank
        /\ current'.content = current.content
    BY <2>1, <1>i DEF Menu!Installations
  <2>4. Menu!Menu' = Menu!Menu
    BY <2>3 DEF Menu!Menu
  <2>5. MenuTyped'
    BY <1>t, <2>1, <2>2 DEF MenuTyped
  <2>6. PhaseFits'
    BY <1>c, <2>1, <2>2, <2>3, <2>4 DEF PhaseFits
  <2> QED BY <2>1, <2>5, <2>6, <1>t DEF MenuInvariant, HandlersFit, ClicksFit
<1>6. CASE Menu!Close
  <2>1. /\ current # None /\ current.phase = "closing" /\ leases' = leases \ {Menu!Menu} /\ current' = None
        /\ UNCHANGED <<history, entries, repository, opening, wanted, pending, handlers, shown, active, clicks, lost>>
    BY <1>6 DEF Menu!Close
  <2>2. leases' = {} /\ shown = active
    BY <2>1, <1>t DEF PhaseFits
  <2>3. MenuTyped' /\ PhaseFits'
    BY <1>t, <2>1, <2>2 DEF MenuTyped, PhaseFits
  <2> QED BY <2>1, <2>3, <1>t DEF MenuInvariant, HandlersFit, ClicksFit
<1>7. CASE Menu!Fail
  <2> DEFINE menu == [bank |-> Menu!Bank, entries |-> current.content.entries, content |-> current.content]
  <2>1. current # None /\ lost' = TRUE
        /\ UNCHANGED <<history, entries, repository, opening, wanted, pending, shown, active, leases, clicks>>
    BY <1>7 DEF Menu!Fail
  <2>2. menu \in Menu!Menus /\ menu.bank = Menu!Bank
    BY <2>1, <1>i, <1>b, MenuIs
  <2>3. CASE current.phase = "building" /\ current' = None /\ (UNCHANGED handlers \/ handlers' = [handlers EXCEPT ![Menu!Bank] = menu])
    <3>1. leases = {} /\ shown = active
      BY <2>1, <2>3, <1>t DEF PhaseFits
    <3>2. handlers' \in [Menu!Banks -> Menu!Menus \cup {None}] /\ \A b \in Menu!Banks : b # Menu!Bank => handlers'[b] = handlers[b]
      BY <2>2, <2>3, <1>b, <1>t DEF MenuTyped
    <3>3. MenuTyped' /\ PhaseFits'
      BY <1>t, <2>1, <2>3, <3>1, <3>2 DEF MenuTyped, PhaseFits
    <3>4. HandlersFit'
      <4>1. ASSUME shown # None PROVE shown.bank \in Menu!Banks /\ shown.bank # Menu!Bank
        BY <4>1, <1>t, <1>b, <3>1 DEF MenuTyped, Menu!Menus
      <4> QED BY <4>1, <2>1, <3>2, <1>t DEF HandlersFit
    <3> QED BY <2>1, <3>3, <3>4, <1>t DEF MenuInvariant, ClicksFit
  <2>4. CASE current.phase = "built" /\ current' = [current EXCEPT !.phase = "closing"] /\ UNCHANGED handlers
    <3>1. leases = {Menu!Menu} /\ shown = active /\ current.bank \in Menu!Banks
      BY <2>1, <2>4, <1>t DEF PhaseFits
    <3>2. current' \in Menu!Installations /\ current'.phase = "closing" /\ current'.bank = current.bank
          /\ current'.content = current.content
      BY <2>1, <2>4, <1>i DEF Menu!Installations
    <3>3. Menu!Menu' = Menu!Menu
      BY <3>2 DEF Menu!Menu
    <3>4. MenuTyped'
      BY <1>t, <2>1, <2>4 DEF MenuTyped
    <3>5. PhaseFits'
      BY <1>c, <2>1, <3>1, <3>2, <3>3 DEF PhaseFits
    <3> QED BY <2>1, <2>4, <3>4, <3>5, <1>t DEF MenuInvariant, HandlersFit, ClicksFit
  <2> QED BY <1>7, <2>3, <2>4 DEF Menu!Fail
<1> QED BY <1>1, <1>2, <1>3, <1>4, <1>5, <1>6, <1>7 DEF Menu!Installer

\* Every step keeps the invariant.
LEMMA MenuNextKeeps ==
  ASSUME MenuInvariant, [Menu!Next]_(Menu!vars)
  PROVE  MenuInvariant'
<1>1. CASE UNCHANGED Menu!vars
  <2>1. UNCHANGED <<history, entries, repository, opening, wanted, pending, current, handlers, shown, active, leases, clicks, lost>>
    BY <1>1 DEF Menu!vars
  <2>2. UNCHANGED Menu!installer
    BY <2>1 DEF Menu!installer
  <2> QED BY <2>1, <2>2, OutsideKeeps DEF MenuInvariant, MenuTyped, ClicksFit
<1>2. CASE Menu!Next
  BY <1>1, <1>2, MenuUseKeeps, MenuInstallKeeps DEF Menu!Next, Menu!Quiet
<1> QED BY <1>1, <1>2

\* The invariant says what is promised.
LEMMA MenuPromised ==
  MenuInvariant => Menu!TypeOK /\ Menu!ClicksOpenWhatIsShown /\ Menu!LeasesAreClosed /\ Menu!ItemsAreVisible
<1> SUFFICES ASSUME MenuInvariant
             PROVE  Menu!TypeOK /\ Menu!ClicksOpenWhatIsShown /\ Menu!LeasesAreClosed /\ Menu!ItemsAreVisible
  OBVIOUS
<1>1. Cardinality(leases) <= 2
  <2>1. \E a, b : leases \subseteq {a, b}
    BY DEF MenuInvariant, PhaseFits, Menu!Installations
  <2>2. PICK a, b : leases \subseteq {a, b}
    BY <2>1
  <2>3. IsFiniteSet({a, b}) /\ Cardinality({a, b}) <= 2
    <3>1. IsFiniteSet({a}) /\ Cardinality({a}) = 1
      BY FS_Singleton
    <3>2. {a, b} = {a} \cup {b}
      OBVIOUS
    <3>3. IsFiniteSet({a} \cup {b}) /\ Cardinality({a} \cup {b}) = IF b \in {a} THEN Cardinality({a}) ELSE Cardinality({a}) + 1
      BY <3>1, FS_AddElement
    <3> QED BY <3>1, <3>2, <3>3
  <2>4. Cardinality(leases) <= Cardinality({a, b}) /\ IsFiniteSet(leases)
    BY <2>2, <2>3, FS_Subset
  <2>5. Cardinality({a, b}) \in Nat /\ Cardinality(leases) \in Nat
    BY <2>3, <2>4, FS_CardinalityType
  <2> QED BY <2>3, <2>4, <2>5
<1>2. Menu!TypeOK
  BY <1>1, MenuCounts DEF MenuInvariant, MenuTyped, Menu!TypeOK
<1>3. Menu!ClicksOpenWhatIsShown
  BY DEF MenuInvariant, ClicksFit, Menu!ClicksOpenWhatIsShown
<1>4. Menu!LeasesAreClosed
  BY DEF MenuInvariant, PhaseFits, Menu!LeasesAreClosed
<1>5. Menu!ItemsAreVisible
  BY DEF Menu!ItemsAreVisible, Menu!RepositoryItems, Menu!Visible
<1> QED BY <1>2, <1>3, <1>4, <1>5

-----------------------------------------------------------------------------
(* The system. *)

\* Of the behaviours of other parts nothing is said here.
PartsInvariant ==
  /\ part = "zoom" => ZoomInvariant
  /\ part = "menu" => MenuInvariant
  /\ part = "context" => ContextInvariant

\* At first, the invariant of the part holds.
LEMMA PartsInvariantInit == Init => PartsInvariant
BY ZoomInitFits, MenuInitFits, ContextInitFits DEF Init, PartsInvariant

\* A step is one of the part, and the part remains.
LEMMA StepIsOfPart ==
  ASSUME [Next]_vars
  PROVE  /\ part' = part
         /\ part = "zoom" => [Zoom!Next]_(Zoom!vars)
         /\ part = "menu" => [Menu!Next]_(Menu!vars)
         /\ part = "context" => [Context!Next]_(Context!vars)
<1>1. CASE Next
  BY <1>1 DEF Next
<1>2. CASE UNCHANGED vars
  <2>1. part' = part
    BY <1>2 DEF vars
  <2>2. UNCHANGED Zoom!vars
    BY <1>2 DEF vars, zoomVars, Zoom!vars, Zoom!view, Zoom!timers
  <2>3. UNCHANGED Menu!vars
    BY <1>2 DEF vars, menuVars, Menu!vars
  <2>4. UNCHANGED Context!vars
    BY <1>2 DEF vars, contextVars, Context!vars
  <2> QED BY <2>1, <2>2, <2>3, <2>4
<1> QED BY <1>1, <1>2

\* Every step keeps the invariant of the part.
LEMMA PartsInvariantStep == PartsInvariant /\ [Next]_vars => PartsInvariant'
<1>1. SUFFICES ASSUME PartsInvariant, [Next]_vars PROVE PartsInvariant'
  OBVIOUS
<1>2. ASSUME part = "zoom" PROVE ZoomInvariant'
  BY <1>1, <1>2, StepIsOfPart, ZoomNextKeeps DEF PartsInvariant
<1>3. ASSUME part = "menu" PROVE MenuInvariant'
  BY <1>1, <1>3, StepIsOfPart, MenuNextKeeps DEF PartsInvariant
<1>4. ASSUME part = "context" PROVE ContextInvariant'
  BY <1>1, <1>4, StepIsOfPart, ContextNextKeeps DEF PartsInvariant
<1> QED BY <1>1, <1>2, <1>3, <1>4, StepIsOfPart DEF PartsInvariant

\* So it always holds.
THEOREM PartsInvariantHolds == FairSpec => []PartsInvariant
<1>1. Init => PartsInvariant
  BY PartsInvariantInit
<1>2. PartsInvariant /\ [Next]_vars => PartsInvariant'
  BY PartsInvariantStep
<1> QED BY <1>1, <1>2, PTL DEF FairSpec

-----------------------------------------------------------------------------
(* What the run checks. *)

\* At rest the zoom is one the user may keep and nothing of a gesture is left, also after a command
\* (settleZoomAfterGesture, runAppZoomCommand); a click opens what the menu showed, or nothing, and the
\* installer at rest holds no menu (NativeMenuInstaller, RecentMenuActions).
THEOREM InputIsSoundHolds == FairSpec => []InputIsSound
<1>1. PartsInvariant => InputIsSound
  BY ZoomPromised, MenuPromised DEF PartsInvariant, InputIsSound
<1> QED BY <1>1, PartsInvariantHolds, PTL

\* The Context page is busy exactly while something runs, shows the stored configuration and the results of its
\* query, and captures a card once however often it is retried (useContextOsSession).
THEOREM ContextIsSoundHolds == FairSpec => []ContextIsSound
<1>1. PartsInvariant => ContextIsSound
  BY ContextPromised DEF PartsInvariant, ContextIsSound
<1> QED BY <1>1, PartsInvariantHolds, PTL
==============================================================================

------------------------------ MODULE Diagrams ------------------------------
(***************************************************************************)
(* Diagrams of documents: previews in the live editor, which share renders    *)
(* through a cache, blocks of the reading view, which do not, and the queue   *)
(* in front of each of the two engines, Mermaid in the window and PlantUML on *)
(* a server that may only be asked for sources the user approved.           *)
(*                                                                         *)
(* A render that began cannot be taken back: it keeps its slot until it       *)
(* ends, whoever still waits for it.  The promises between a call and the     *)
(* steps it leads to are one step here, but for the one between the start of  *)
(* a job and its render, where the job may turn out to be cancelled.         *)
(***************************************************************************)
EXTENDS Integers, Sequences, FiniteSets, Functions

CONSTANTS
  Sources, Remote,       \* diagrams, those for PlantUML
  Previews, Blocks,      \* consumers in the live editor and in the reading view
  None,
  Concurrency, Pending,  \* renders at once, jobs in the line of a queue
  Units,                 \* sources a queue may hold; all have the same length here
  Entries,               \* diagrams a cache keeps, and renders it has under way
  MaxAsks, MaxFaults     \* bounds on what is mounted, changed and retried, and on failures

DiagramsAssumption ==
  /\ Remote \subseteq Sources /\ None \notin Sources \cup Previews \cup Blocks
  /\ {Concurrency, Pending, Units, Entries} \subseteq Nat \ {0}
  /\ {MaxAsks, MaxFaults} \subseteq Nat

VARIABLES
  views,      \* what every consumer shows and waits for
  jobs,       \* renders a queue accepted and has not ended
  line,       \* the ones that wait for a slot
  active,     \* slots taken
  retained,   \* sources held by a queue
  pending,    \* the render of a cache for a source
  completed,  \* diagrams a cache keeps, least recently used first
  approved,   \* sources that may be sent to the server
  asks, faults

queues == <<jobs, line, active, retained>>
vars == <<views, queues, pending, completed, approved, asks, faults>>

Engines == {"mermaid", "plantuml"}
Consumers == Previews \cup Blocks
Engine(s) == IF s \in Remote THEN "plantuml" ELSE "mermaid"
Of(engine, S) == {s \in S : Engine(s) = engine}
Allowed(s) == s \in Remote => s \in approved

Gone == [source |-> None, mode |-> "gone", shown |-> None, job |-> None]
Job(id) == CHOOSE j \in jobs : j.id = id
Asking == asks > 0 /\ asks' = asks - 1 /\ UNCHANGED faults
Free == UNCHANGED <<asks, faults>>

-----------------------------------------------------------------------------
(* DiagramRenderQueue *)

Full(engine) == \/ active[engine] >= Concurrency /\ Len(line[engine]) >= Pending
                \/ retained[engine] + 1 > Units

\* run, of a queue that is not full.
Accept(job) ==
  LET e == Engine(job.source)
      starts == active[e] < Concurrency
  IN /\ retained' = [retained EXCEPT ![e] = @ + 1]
     /\ active' = [active EXCEPT ![e] = IF starts THEN @ + 1 ELSE @]
     /\ line' = [line EXCEPT ![e] = IF starts THEN @ ELSE Append(@, job.id)]
     /\ jobs' = jobs \cup {[job EXCEPT !.state = IF starts THEN "started" ELSE "waiting"]}

\* cancel: a job that waits leaves the line, one that runs keeps its slot.
Cancel(job) ==
  LET e == Engine(job.source)
  IN IF job.state = "waiting"
     THEN /\ line' = [line EXCEPT ![e] = SelectSeq(@, LAMBDA id : id # job.id)]
          /\ retained' = [retained EXCEPT ![e] = @ - 1]
          /\ jobs' = jobs \ {job}
          /\ UNCHANGED active
     ELSE /\ jobs' = (jobs \ {job}) \cup {[job EXCEPT !.aborted = TRUE, !.owners = {}]}
          /\ UNCHANGED <<line, active, retained>>

\* finish: the slot goes to the next of the line.
Finish(job) ==
  LET e == Engine(job.source)
      next == {j \in jobs : line[e] # <<>> /\ j.id = Head(line[e])}
  IN /\ retained' = [retained EXCEPT ![e] = @ - 1]
     /\ active' = [active EXCEPT ![e] = IF next = {} THEN @ - 1 ELSE @]
     /\ line' = [line EXCEPT ![e] = IF next = {} THEN @ ELSE Tail(@)]
     /\ jobs' = (jobs \ ({job} \cup next)) \cup {[j EXCEPT !.state = "started"] : j \in next}

-----------------------------------------------------------------------------
(* DiagramRenderCache and the two renderers *)

NewJob(c, s, cached) ==
  [id |-> CHOOSE i \in 1..(Cardinality(jobs) + 1) : \A j \in jobs : j.id # i,
   source |-> s, owners |-> {c}, cached |-> cached, aborted |-> FALSE, state |-> "new"]

Waits(c, s, id) == views' = [views EXCEPT ![c] = [source |-> s, mode |-> "waiting", shown |-> None, job |-> id]]
Shows(c, s) == views' = [views EXCEPT ![c] = [source |-> s, mode |-> "shown", shown |-> s, job |-> None]]
Busy(c, s) == views' = [views EXCEPT ![c] = [source |-> s, mode |-> "failed", shown |-> None, job |-> None]]

\* getOrRender, for a preview.
Get(c, s) ==
  LET e == Engine(s)
      under == {r \in Of(e, Sources) : pending[r] # None}
      job == NewJob(c, s, TRUE)
  IN IF s \in Range(completed[e])
     THEN completed' = [completed EXCEPT ![e] = Append(SelectSeq(@, LAMBDA r : r # s), s)] /\ Shows(c, s) /\ UNCHANGED <<queues, pending>>
     ELSE /\ UNCHANGED completed
          /\ IF pending[s] # None
             THEN /\ jobs' = {IF j.id = pending[s] THEN [j EXCEPT !.owners = @ \cup {c}] ELSE j : j \in jobs}
                  /\ Waits(c, s, pending[s]) /\ UNCHANGED <<line, active, retained, pending>>
             ELSE IF Cardinality(under) >= Entries \/ Full(e) THEN Busy(c, s) /\ UNCHANGED <<queues, pending>>
             ELSE Accept(job) /\ Waits(c, s, job.id) /\ pending' = [pending EXCEPT ![s] = job.id]

\* renderMermaidSvg and renderPlantUmlSvg, for a block.
Render(c, s) ==
  /\ LET job == NewJob(c, s, FALSE)
     IN IF Full(Engine(s)) THEN Busy(c, s) /\ UNCHANGED queues ELSE Accept(job) /\ Waits(c, s, job.id)
  /\ UNCHANGED <<pending, completed>>

\* Mutant: who leaves cancels the render for everybody.
LeaveAlone(c) ==
  IF views[c].mode # "waiting" THEN UNCHANGED <<queues, pending>>
  ELSE LET job == Job(views[c].job)
       IN Cancel(job) /\ pending' = [pending EXCEPT ![job.source] = IF @ = job.id THEN None ELSE @]

\* A consumer's signal is aborted: the last one that waits for a render cancels it.
Leave(c) ==
  IF views[c].mode # "waiting" THEN UNCHANGED <<queues, pending>>
  ELSE LET job == Job(views[c].job)
       IN IF job.owners = {c}
          THEN Cancel(job) /\ pending' = [pending EXCEPT ![job.source] = IF @ = job.id THEN None ELSE @]
          ELSE jobs' = (jobs \ {job}) \cup {[job EXCEPT !.owners = @ \ {c}]} /\ UNCHANGED <<line, active, retained, pending>>

\* Its render is called, unless it was cancelled meanwhile.
Begin(job) ==
  /\ job.state = "started"
  /\ IF job.aborted THEN Finish(job)
     ELSE jobs' = (jobs \ {job}) \cup {[job EXCEPT !.state = "rendering"]} /\ UNCHANGED <<line, active, retained>>
  /\ Free /\ UNCHANGED <<views, pending, completed, approved>>

Kept(e, s) ==
  LET all == Append(completed[e], s)
  IN IF Len(all) > Entries THEN Tail(all) ELSE all

\* The engine answers.  Who waited shows the diagram; a cache keeps one that was not cancelled.
Rendered(job) ==
  /\ job.state = "rendering" /\ Finish(job) /\ Free
  /\ views' = [c \in Consumers |-> IF c \in job.owners THEN [views[c] EXCEPT !.mode = "shown", !.shown = job.source, !.job = None] ELSE views[c]]
  /\ pending' = [pending EXCEPT ![job.source] = IF @ = job.id THEN None ELSE @]
  /\ completed' = IF job.cached /\ ~job.aborted THEN [completed EXCEPT ![Engine(job.source)] = Kept(Engine(job.source), job.source)]
                  ELSE completed
  /\ UNCHANGED approved

\* It fails; the server's answer may fail to come, or is not waited for any longer.
Fails(job) ==
  /\ job.state = "rendering" /\ Finish(job)
  /\ IF job.source \in Remote THEN Free ELSE faults > 0 /\ faults' = faults - 1 /\ UNCHANGED asks
  /\ views' = [c \in Consumers |-> IF c \in job.owners THEN [views[c] EXCEPT !.mode = "failed", !.job = None] ELSE views[c]]
  /\ pending' = [pending EXCEPT ![job.source] = IF @ = job.id THEN None ELSE @]
  /\ UNCHANGED <<completed, approved>>

-----------------------------------------------------------------------------
(* MermaidPreviewWidget, PlantUmlPreviewWidget; MermaidBlock, PlantUmlBlock *)

Mode(c, mode, s) == views' = [views EXCEPT ![c] = [source |-> s, mode |-> mode, shown |-> None, job |-> None]]
Unqueued == UNCHANGED <<queues, pending, completed>>

\* toDOM
MountPreview(c, s) ==
  /\ Asking /\ c \in Previews /\ views[c] = Gone
  /\ IF Allowed(s) THEN Get(c, s) ELSE Mode(c, "consent", s) /\ Unqueued
  /\ UNCHANGED approved

\* A block of Mermaid waits until it is near the viewport.
MountBlock(c, s) ==
  /\ Asking /\ c \in Blocks /\ views[c] = Gone
  /\ IF s \in Remote /\ s \in approved THEN Render(c, s)
     ELSE Mode(c, IF s \in Remote THEN "consent" ELSE "far", s) /\ Unqueued
  /\ UNCHANGED approved

\* Near it, it renders when the window is idle.
ComesNear(c) ==
  /\ views[c].mode = "far" /\ Mode(c, "due", views[c].source)
  /\ Free /\ Unqueued /\ UNCHANGED approved

Idle(c) ==
  /\ views[c].mode = "due" /\ Render(c, views[c].source)
  /\ Free /\ UNCHANGED approved

\* validateMermaidSource: a pasted text is checked in the queue, for nobody who could leave it; one
\* paste is checked at a time, and a full queue refuses it.
Validate(s) ==
  /\ Asking /\ s \notin Remote /\ ~Full("mermaid") /\ \A j \in jobs : None \notin j.owners
  /\ Accept(NewJob(None, s, FALSE))
  /\ UNCHANGED <<views, pending, completed, approved>>

\* Another source for a block of the same engine: what was asked for is given up.  (A block of
\* PlantUML asks again at once; here another step may come between.)
Change(c, s) ==
  /\ Asking /\ c \in Blocks /\ views[c] # Gone /\ s # views[c].source /\ Engine(s) = Engine(views[c].source)
  /\ Leave(c)
  /\ Mode(c, IF s \in Remote THEN (IF s \in approved THEN "due" ELSE "consent") ELSE IF views[c].mode = "far" THEN "far" ELSE "due", s)
  /\ UNCHANGED <<completed, approved>>

\* The button that sends the source to the server.
Approve(c) ==
  /\ views[c].mode = "consent" /\ approved' = approved \cup {views[c].source}
  /\ IF c \in Previews THEN Get(c, views[c].source) ELSE Render(c, views[c].source)
  /\ Free

Retry(c) ==
  /\ Asking /\ views[c].mode = "failed"
  /\ IF c \in Previews THEN Get(c, views[c].source) ELSE Mode(c, "due", views[c].source) /\ Unqueued
  /\ UNCHANGED approved

\* destroy, or the end of the block's effect.
Unmount(c) ==
  /\ views[c] # Gone /\ Leave(c) /\ views' = [views EXCEPT ![c] = Gone]
  /\ Free /\ UNCHANGED <<completed, approved>>

-----------------------------------------------------------------------------

Init ==
  /\ views = [c \in Consumers |-> Gone]
  /\ jobs = {} /\ line = [e \in Engines |-> <<>>]
  /\ active = [e \in Engines |-> 0] /\ retained = [e \in Engines |-> 0]
  /\ pending = [s \in Sources |-> None]
  /\ completed = [e \in Engines |-> <<>>]
  /\ approved = {}
  /\ asks = MaxAsks /\ faults = MaxFaults

Engine_ == \E j \in jobs : Begin(j) \/ Rendered(j) \/ Fails(j)
Next ==
  \/ Engine_
  \/ \E c \in Consumers : ComesNear(c) \/ Idle(c) \/ Approve(c) \/ Retry(c) \/ Unmount(c)
  \/ \E s \in Sources : Validate(s)
  \/ \E c \in Consumers, s \in Sources : MountPreview(c, s) \/ MountBlock(c, s) \/ Change(c, s)

Spec == Init /\ [][Next]_vars /\ WF_vars(Engine_) /\ WF_vars(\E c \in Blocks : Idle(c))
-----------------------------------------------------------------------------
\* A consumer has a source unless it is gone, and waits for a render of a known state.
TypeOK ==
  /\ \A c \in Consumers : views[c].source \in Sources \cup {None} /\ (views[c].mode = "gone") = (views[c].source = None)
  /\ \A j \in jobs : j.source \in Sources /\ j.owners \subseteq Consumers \cup {None} /\ {j.cached, j.aborted} \subseteq BOOLEAN
  /\ active \in [Engines -> 0..Concurrency] /\ retained \in [Engines -> 0..Units] /\ approved \subseteq Remote
  /\ \A e \in Engines : Len(line[e]) <= Pending /\ Len(completed[e]) <= Entries
  /\ asks \in 0..MaxAsks /\ faults \in 0..MaxFaults

\* The counters of a queue are what it holds, a job waits only while all slots are taken, and the
\* limits hold however renders are cancelled (DiagramRenderQueue).
QueueIsExact ==
  \A e \in Engines :
    LET mine == {j \in jobs : Engine(j.source) = e}
    IN /\ active[e] = Cardinality({j \in mine : j.state # "waiting"})
       /\ retained[e] = Cardinality(mine) /\ retained[e] <= Units
       /\ Range(line[e]) = {j.id : j \in {i \in mine : i.state = "waiting"}} /\ Len(line[e]) <= Pending
       /\ active[e] <= Concurrency /\ (line[e] # <<>> => active[e] = Concurrency)

\* Whoever waits waits for a render of its own source that was not cancelled, though others left it;
\* and a render nobody waits for is cancelled (DiagramRenderCache).
WaitersAreServed ==
  /\ \A c \in Consumers : views[c].mode = "waiting" =>
       \E j \in jobs : j.id = views[c].job /\ c \in j.owners /\ ~j.aborted /\ j.source = views[c].source
  /\ \A j \in jobs : j.aborted <=> j.owners = {}
  /\ \A j, k \in jobs : j.id = k.id => j = k

\* Previews of one source share one render, and a cache keeps at most so many (getOrRender).
RendersAreShared ==
  /\ \A j, k \in jobs : j.cached /\ k.cached /\ ~j.aborted /\ ~k.aborted /\ j.source = k.source => j = k
  /\ \A s \in Sources : pending[s] # None => \E j \in jobs : j.id = pending[s] /\ j.cached /\ ~j.aborted /\ j.source = s
  /\ \A e \in Engines : Len(completed[e]) <= Entries /\ IsInjective(completed[e])

\* No consumer shows the diagram of a source it no longer has (renderPreview).
ShownIsCurrent == \A c \in Consumers : views[c].shown \in {None, views[c].source}

\* The server is only asked for sources the user approved (plantUmlRemoteConsent).
OnlyApproved == \A j \in jobs : j.source \in Remote => j.source \in approved

DiagramsAreSound == TypeOK /\ QueueIsExact /\ WaitersAreServed /\ RendersAreShared /\ ShownIsCurrent /\ OnlyApproved

\* Whoever asked sees a diagram or an error, while the engines answer or their time passes.
AllIsAnswered == <>[](\A c \in Consumers : views[c].mode \notin {"waiting", "due"})
=============================================================================

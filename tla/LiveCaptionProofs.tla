------------------------- MODULE LiveCaptionProofs -------------------------
(***************************************************************************)
(* Theorems about LiveCaption, for any numbers of sessions, runs and       *)
(* utterances and every bound: what is finished is saved, once and in the  *)
(* order it was spoken, and nothing is captured in secret, whatever the    *)
(* helpers say and whoever stops waiting for them.                         *)
(***************************************************************************)
EXTENDS LiveCaption, FiniteSetTheorems, TLAPS

Used(w) == workers[w].at # "unused"
Alive(w) == workers[w].at \notin {"unused", "done"}

\* The run that is to be waited for or was just launched, unless a stop gave it up.
InHand == {service.run, control.run} \ ({None} \cup abandoned)

Showing == status.state \in {"starting", "capturing"} \/ StrayFailure

-----------------------------------------------------------------------------
(* The inductive invariant. *)

Fns == {"start", "pause", "resume", "stop", "exit"}
Points == {"stop", "wait", "settle", "create", "launch", "keep"}
Statuses ==
  [session : Sessions \cup {None}, state : Active \cup {"", "stopped", "failed"}, generation : Nat,
   final : Nat, heard : Nat, partial : Texts \cup {None}]

\* Every variable has its type; a run that was not started has no past.
Typed ==
  /\ status \in Statuses
  /\ history \in [Sessions -> Active \cup {"none", "stopped", "failed", "deleted"}]
  /\ texts \in [Sessions -> Seq(Texts)]
  /\ service \in [run : Runs \cup {None}, generation : Nat, halt : {"stop", "exit", None},
                  exiting : BOOLEAN, ended : BOOLEAN]
  /\ waiting \subseteq Fns
  /\ control \in [fn : Fns \cup {None}, at : Points \cup {None}, run : Runs \cup {None}]
  /\ workers \in [Runs -> Workers] /\ abandoned \subseteq Runs
  /\ capture \in [queued : Runs \cup {None}, by : Runs \cup {None}, on : BOOLEAN,
                  sender : Runs \cup {None}]
  /\ flags \in [ready : BOOLEAN, error : BOOLEAN]
  /\ \A w \in Runs : ~Used(w) => workers[w] = Unused

\* A call waits for, or has launched, the only run there is; nothing runs while the
\* session is paused.
LockMatchesCall ==
  /\ control.fn = None <=> control.at = None
  /\ control.run # None <=> control.at \in {"wait", "keep"}
  /\ control.at \in {"wait", "settle", "create", "launch", "keep"} => service.run = None
  /\ control.at \in {"create", "launch"} => control.fn = "start"
  /\ status.state = "paused" => service.run = None /\ control.at \notin {"launch", "keep"}

\* Runs are started in the order of their numbers, and those of a session that still
\* run in the order of their generations.
RunsInOrder ==
  /\ \A w \in Runs : Used(w) =>
       /\ workers[w].session # None /\ status.session # None
       /\ history[workers[w].session] # "none"
  /\ \A w \in ({service.run, control.run} \ {None}) \cup abandoned : Used(w)
  /\ \A v, w \in Runs : Used(v) /\ ~Used(w) => v < w
  /\ \A w \in Runs : Alive(w) => workers[w].generation <= service.generation
  /\ \A v, w \in Runs : Alive(v) /\ Alive(w) /\ v < w /\ workers[v].session = workers[w].session =>
       workers[v].generation < workers[w].generation

\* Whatever runs is in hand, or a stop gave it up.
NoneForgotten == \A w \in Runs : Alive(w) => w \in InHand \cup abandoned

\* A session has no texts before it began, and no run before its first is launched.
SessionsBegin ==
  /\ \A s \in Sessions : history[s] = "none" => texts[s] = <<>>
  /\ status.session # None => history[status.session] # "none"
  /\ status.session = None => status.state = ""
  /\ control.at = "launch" =>
       /\ status.session # None /\ status.generation = 0 /\ status.final = 0
       /\ \A w \in Runs : Used(w) => workers[w].session # status.session
       /\ Showing

\* The run in hand is the one the panel shows, and only it finished texts of its generation.
HandIsShown ==
  \A w \in InHand : Alive(w) =>
    /\ workers[w].session = status.session /\ workers[w].generation = status.generation
    /\ \/ status.final < Number(workers[w].generation, 1)
       \/ \E m \in workers[w].finals : status.final = Number(workers[w].generation, m)
    /\ Showing

\* A text is numbered by the generation of its run, which orders it among the runs of
\* its session, and the last number is remembered.
TextsAreNumbered ==
  /\ status.generation <= service.generation
  /\ \E k \in 0..service.generation, m \in 0..MaxTexts : status.final = Number(k, m)
  /\ status.session # None =>
       \A i \in DOMAIN texts[status.session] : texts[status.session][i].sequence <= status.final
  /\ \A s \in Sessions : \A i \in DOMAIN texts[s] :
       \E k \in 0..service.generation :
         /\ texts[s][i].sequence = Number(k, texts[s][i].n)
         /\ \A w \in Runs : Alive(w) /\ workers[w].session = s =>
              \/ texts[s][i].run < w /\ k < workers[w].generation
              \/ texts[s][i].run = w /\ k = workers[w].generation
              \/ texts[s][i].run > w /\ k > workers[w].generation

\* The text that may change is the last one heard, after all that is saved.
PartialFollows ==
  status.partial # None =>
    /\ status.partial.sequence = status.heard /\ status.heard > status.final
    /\ workers[status.partial.run].session = status.session
    /\ Showing \/ status.partial.run \in abandoned

\* A capture is, or will be, that of a run whose supervisor has not ended it yet.
CaptureIsSupervised ==
  \A w \in {capture.queued, capture.by} \ {None} : workers[w].at \in {"loop", "begin", "tick", "ended"}

\* The bounds leave a run and a session for every start and resume.
Holding(points) == IF control.fn = "start" /\ control.at \in points THEN {"holding"} ELSE {}
NeedRun == (waiting \cap {"start", "resume"}) \cup Holding({"stop", "wait", "settle", "create", "launch"})
NeedSession == (waiting \cap {"start"}) \cup Holding({"stop", "wait", "settle", "create"})
BoundsSuffice ==
  /\ Cardinality(NeedRun) <= Cardinality(Unstarted)
  /\ Cardinality(NeedSession) <= Cardinality(NewSessions)

CaptionInvariant ==
  /\ Typed /\ LockMatchesCall /\ RunsInOrder /\ NoneForgotten /\ SessionsBegin /\ HandIsShown
  /\ TextsAreNumbered /\ PartialFollows /\ CaptureIsSupervised /\ BoundsSuffice
  /\ TextsInOrder /\ FinalsAreSaved

-----------------------------------------------------------------------------
(* Numbers of texts, and the records of the runs. *)

\* A number tells its generation and its utterance, and orders both.
LEMMA Numbers ==
  ASSUME NEW g \in Nat, NEW h \in Nat, NEW n \in 0..MaxTexts, NEW m \in 0..MaxTexts
  PROVE  /\ Number(g, n) \in Nat
         /\ Number(g, n) \div Epoch = g
         /\ Number(g, n) < Number(h, m) <=> g < h \/ (g = h /\ n < m)
         /\ Number(0, 0) = 0
<1>1. MaxTexts \in Nat /\ Epoch \in Nat /\ n < Epoch /\ m < Epoch /\ Epoch > 0
  BY CaptionAssumption DEF Epoch
<1>2. Number(g, n) = g * Epoch + n /\ Number(h, m) = h * Epoch + m /\ Number(0, 0) = 0 * Epoch + 0
  BY DEF Number
<1>. HIDE DEF Epoch, Number
<1>3. g * Epoch \in Nat /\ h * Epoch \in Nat /\ 0 * Epoch = 0
  BY <1>1
<1>4. (g * Epoch + n) \div Epoch = g
  BY <1>1
<1>5. ASSUME g < h PROVE g * Epoch + Epoch <= h * Epoch
  <2>1. PICK d \in Nat : h = g + 1 + d
    <3>1. h - g - 1 \in Nat /\ h = g + 1 + (h - g - 1)
      BY <1>5
    <3>. QED BY <3>1
  <2>2. h * Epoch = g * Epoch + Epoch + d * Epoch /\ d * Epoch \in Nat
    BY <1>1, <2>1
  <2>. QED BY <1>1, <1>3, <2>2
<1>6. ASSUME h < g PROVE h * Epoch + Epoch <= g * Epoch
  <2>1. PICK d \in Nat : g = h + 1 + d
    <3>1. g - h - 1 \in Nat /\ g = h + 1 + (g - h - 1)
      BY <1>6
    <3>. QED BY <3>1
  <2>2. g * Epoch = h * Epoch + Epoch + d * Epoch /\ d * Epoch \in Nat
    BY <1>1, <2>1
  <2>. QED BY <1>1, <1>3, <2>2
<1>7. CASE g < h
  BY <1>1, <1>2, <1>3, <1>4, <1>5, <1>7
<1>8. CASE h < g
  BY <1>1, <1>2, <1>3, <1>4, <1>6, <1>8
<1>9. CASE g = h
  BY <1>1, <1>2, <1>3, <1>4, <1>9
<1>. QED BY <1>7, <1>8, <1>9

\* The operator First takes the least of the runs, or sessions, that are left.
LEMMA FirstIsLeast ==
  ASSUME NEW N \in Nat, NEW S \in SUBSET (1..N), S # {}
  PROVE  First(S) \in S /\ \A y \in S : First(S) <= y
<1>. DEFINE UpTo(x) == {y \in S : y <= x}
            Prefixes == {UpTo(x) : x \in S}
<1>1. Prefixes \subseteq FiniteSubsetsOf(S)
  <2>1. IsFiniteSet(S)
    <3>1. IsFiniteSet(1..N)
      BY FS_Interval, 1 \in Int, N \in Int
    <3>. QED BY <3>1, FS_Subset
  <2>. QED BY <2>1, FS_Subset DEF FiniteSubsetsOf
<1>2. PICK P \in Prefixes : \A Q \in Prefixes : <<Q, P>> \notin StrictSubsetOrdering(S)
  <2>1. Prefixes # {} /\ IsWellFoundedOn(StrictSubsetOrdering(S), FiniteSubsetsOf(S))
    BY FS_StrictSubsetOrderingWellFounded
  <2>. HIDE DEF Prefixes
  <2>. QED BY <1>1, <2>1, WFMin
<1>3. PICK x \in S : P = UpTo(x)
  OBVIOUS
<1>4. ASSUME NEW y \in S PROVE x <= y
  <2>1. SUFFICES ASSUME y < x PROVE FALSE
    OBVIOUS
  <2>2. UpTo(y) \subseteq UpTo(x) /\ x \in UpTo(x) /\ x \notin UpTo(y)
    <3>1. x \in Nat /\ y \in Nat /\ \A z \in S : z \in Nat
      OBVIOUS
    <3>. HIDE DEF UpTo, Prefixes
    <3>2. \A z \in UpTo(y) : z \in S /\ z <= x
      BY <2>1, <3>1 DEF UpTo
    <3>3. UpTo(y) \subseteq UpTo(x)
      BY <3>2 DEF UpTo
    <3>4. x \in UpTo(x)
      BY <3>1 DEF UpTo
    <3>5. x \notin UpTo(y)
      BY <2>1, <3>1 DEF UpTo
    <3>. QED BY <3>3, <3>4, <3>5
  <2>3. <<UpTo(y), UpTo(x)>> \in StrictSubsetOrdering(S)
    BY <2>2 DEF StrictSubsetOrdering
  <2>. QED BY <1>2, <1>3, <2>3
<1>. QED BY <1>4 DEF First

-----------------------------------------------------------------------------
(* What a step does to the runs. *)

\* The runs go on: none begins, none forgets what it finished or that it failed, and one
\* that is done stays done.
Continuing ==
  /\ workers' \in [Runs -> Workers]
  /\ \A v \in Runs :
       /\ Used(v)' <=> Used(v)
       /\ ~Used(v) => workers'[v] = workers[v]
       /\ workers'[v].session = workers[v].session
       /\ Alive(v)' => Alive(v) /\ workers'[v].generation = workers[v].generation
       /\ workers[v].finals \subseteq workers'[v].finals
       /\ workers'[v].finals # workers[v].finals => Final(v)
       /\ workers[v].failed => workers'[v].failed

\* The first run that was not started yet begins, and a call takes it in hand.
Beginning(w, generation) ==
  /\ w \in Runs /\ ~Used(w) /\ \A v \in Runs : ~Used(v) => w <= v
  /\ status.session \in Sessions /\ generation \in Nat
  /\ control'.run = w
  /\ workers' = [workers EXCEPT ![w] = [Unused EXCEPT !.at = "loop", !.session = status.session,
                                                      !.generation = generation]]

\* A worker moves on by itself, and leaves the calls alone.
LEMMA WorkerContinues ==
  ASSUME Typed, NEW w \in Runs, WorkerStep(w)
  PROVE  /\ Alive(w)
         /\ UNCHANGED <<service, waiting, control, abandoned>>
         /\ Continuing
         /\ \A v \in Runs \ {w} : workers'[v] = workers[v]
         /\ workers'[w].at \in {"loop", "begin", "tick", "ended"} \/ Leave(w) \/ Report(w)
<1>1. /\ workers' \in [Runs -> Workers] /\ \A v \in Runs \ {w} : workers'[v] = workers[v]
      /\ workers'[w].at # "unused" /\ workers'[w].session = workers[w].session
      /\ workers'[w].at # "done" => workers'[w].generation = workers[w].generation
      /\ workers'[w].finals = workers[w].finals \/ Final(w)
      /\ workers[w].finals \subseteq workers'[w].finals /\ (workers[w].failed => workers'[w].failed)
      /\ Alive(w) /\ UNCHANGED <<service, waiting, control, abandoned>>
      /\ workers'[w].at \in {"loop", "begin", "tick", "ended"} \/ Leave(w) \/ Report(w)
  <2>0. workers[w] \in Workers /\ workers \in [Runs -> Workers]
    BY DEF Typed
  <2>. USE <2>0 DEF Worker, In, SameCalls, Workers, Alive, Onward
  <2>1. CASE Supervise(w)
    BY <2>1 DEF Supervise
  <2>2. CASE ReadyTimeout(w)
    BY <2>2 DEF ReadyTimeout
  <2>3. CASE Deadline(w)
    BY <2>3 DEF Deadline
  <2>4. CASE EngineReady(w)
    BY <2>4 DEF EngineReady
  <2>5. CASE BeginCapture(w)
    BY <2>5 DEF BeginCapture
  <2>6. CASE Partial(w)
    BY <2>6 DEF Partial, Speaking
  <2>7. CASE Final(w)
    <3>1. PICK n \in 1..MaxTexts :
            LET spoken == [workers[w] EXCEPT !.at = Onward, !.finals = @ \cup {n}] IN
            \/ workers' = [workers EXCEPT ![w] = spoken]
            \/ workers' = [workers EXCEPT ![w] = [spoken EXCEPT !.failed = TRUE, !.cancel = TRUE]]
      BY <2>7 DEF Final
    <3>2. Alive(w) /\ UNCHANGED <<service, waiting, control, abandoned>>
      BY <2>7 DEF Final, Speaking
    <3>3. [workers[w] EXCEPT !.at = Onward, !.finals = @ \cup {n}] \in Workers
      OBVIOUS
    <3>4. CASE workers' = [workers EXCEPT ![w] = [workers[w] EXCEPT !.at = Onward, !.finals = @ \cup {n}]]
      BY <2>7, <3>2, <3>3, <3>4
    <3>5. CASE workers' = [workers EXCEPT ![w] = [[workers[w] EXCEPT !.at = Onward, !.finals = @ \cup {n}]
                                                    EXCEPT !.failed = TRUE, !.cancel = TRUE]]
      <4>. DEFINE spoken == [workers[w] EXCEPT !.at = Onward, !.finals = @ \cup {n}]
      <4>1. /\ spoken \in Workers /\ spoken.at = Onward /\ spoken.session = workers[w].session
            /\ spoken.generation = workers[w].generation /\ workers[w].finals \subseteq spoken.finals
        BY <3>3
      <4>2. workers' = [workers EXCEPT ![w] = [spoken EXCEPT !.failed = TRUE, !.cancel = TRUE]]
        BY <3>5
      <4>. HIDE DEF spoken
      <4>. QED BY <2>7, <3>2, <4>1, <4>2
    <3>. QED BY <3>1, <3>4, <3>5
  <2>8. CASE Stopped(w)
    BY <2>8 DEF Stopped
  <2>9. CASE EngineFails(w)
    <3>1. PICK failed \in BOOLEAN :
            \/ workers' = [workers EXCEPT ![w] = [@ EXCEPT !.failed = TRUE, !.cancel = TRUE, !.at = Onward]]
            \/ workers' = [workers EXCEPT ![w] = [@ EXCEPT !.failed = failed, !.at = "ended"]]
               /\ (workers[w].failed => failed)
      BY <2>9 DEF EngineFails
    <3>2. Alive(w) /\ UNCHANGED <<service, waiting, control, abandoned>>
      BY <2>9 DEF EngineFails
    <3>3. CASE workers' = [workers EXCEPT ![w] = [@ EXCEPT !.failed = TRUE, !.cancel = TRUE, !.at = Onward]]
      BY <3>2, <3>3
    <3>4. CASE /\ workers' = [workers EXCEPT ![w] = [@ EXCEPT !.failed = failed, !.at = "ended"]]
               /\ workers[w].failed => failed
      BY <3>2, <3>4
    <3>. QED BY <3>1, <3>3, <3>4
  <2>10. CASE Tick(w)
    <3>1. \/ workers' = [workers EXCEPT ![w] = [@ EXCEPT !.at = "loop"]]
          \/ workers' = [workers EXCEPT ![w] = [@ EXCEPT !.at = "loop", !.failed = TRUE, !.cancel = TRUE]]
      BY <2>10 DEF Tick
    <3>2. Alive(w) /\ UNCHANGED <<service, waiting, control, abandoned>>
      BY <2>10 DEF Tick
    <3>3. CASE workers' = [workers EXCEPT ![w] = [@ EXCEPT !.at = "loop"]]
      BY <3>2, <3>3
    <3>4. CASE workers' = [workers EXCEPT ![w] = [@ EXCEPT !.at = "loop", !.failed = TRUE, !.cancel = TRUE]]
      BY <3>2, <3>4
    <3>. QED BY <3>1, <3>3, <3>4
  <2>11. CASE Leave(w)
    BY <2>11 DEF Leave
  <2>12. CASE Report(w)
    BY <2>12 DEF Report
  <2>. QED BY <2>1, <2>2, <2>3, <2>4, <2>5, <2>6, <2>7, <2>8, <2>9, <2>10, <2>11, <2>12 DEF WorkerStep
<1>. QED BY <1>1 DEF Continuing, Used, Alive

\* There is a run for whoever may need one.
LEMMA RunIsLeft ==
  ASSUME BoundsSuffice, NeedRun # {}
  PROVE  First(Unstarted) \in Unstarted /\ \A v \in Unstarted : First(Unstarted) <= v
<1>1. IsFiniteSet(NeedRun)
  <2>1. NeedRun \in SUBSET {"start", "resume", "holding"}
    BY DEF NeedRun, Holding
  <2>2. IsFiniteSet({"start", "resume", "holding"})
    <3>1. IsFiniteSet({"start"} \cup {"resume"} \cup {"holding"})
      BY FS_Singleton, FS_AddElement
    <3>. QED BY <3>1
  <2>. QED BY <2>1, <2>2, FS_Subset
<1>2. MaxRuns \in Nat /\ Unstarted \in SUBSET (1..MaxRuns)
  BY CaptionAssumption DEF Unstarted, Runs
<1>3. Unstarted # {}
  <2>1. Cardinality(NeedRun) \in Nat /\ Cardinality(NeedRun) # 0
    BY <1>1, FS_EmptySet, FS_CardinalityType
  <2>. QED BY <2>1, FS_EmptySet DEF BoundsSuffice
<1>. QED BY <1>2, <1>3, FirstIsLeast

\* And a session.
LEMMA SessionIsLeft ==
  ASSUME BoundsSuffice, NeedSession # {}
  PROVE  First(NewSessions) \in NewSessions
<1>1. IsFiniteSet(NeedSession)
  <2>1. NeedSession \in SUBSET {"start", "holding"}
    BY DEF NeedSession, Holding
  <2>2. IsFiniteSet({"start", "holding"})
    <3>1. IsFiniteSet({"start"} \cup {"holding"})
      BY FS_Singleton, FS_AddElement
    <3>. QED BY <3>1
  <2>. QED BY <2>1, <2>2, FS_Subset
<1>2. MaxSessions \in Nat /\ NewSessions \in SUBSET (1..MaxSessions)
  BY CaptionAssumption DEF NewSessions, Sessions
<1>3. NewSessions # {}
  <2>1. Cardinality(NeedSession) \in Nat /\ Cardinality(NeedSession) # 0
    BY <1>1, FS_EmptySet, FS_CardinalityType
  <2>. QED BY <2>1, FS_EmptySet DEF BoundsSuffice
<1>. QED BY <1>2, <1>3, FirstIsLeast

\* A call or a window starts a run or cancels one.
LEMMA RunsChange ==
  ASSUME CaptionInvariant, [Next]_vars
  PROVE  \/ Continuing /\ control'.run \in {control.run, service.run, None}
         \/ Resume /\ Beginning(First(Unstarted), service.generation + 1)
         \/ LaunchNew /\ Beginning(First(Unstarted), 0)
<1>. DEFINE Calls == [fn : Fns \cup {None}, at : Points \cup {None}, run : Runs \cup {None}]
            Kept == control'.run \in {control.run, service.run, None}
<1>1. /\ workers \in [Runs -> Workers] /\ service.generation \in Nat /\ control \in Calls
      /\ status.session \in Sessions \cup {None} /\ service.run \in Runs \cup {None}
  BY DEF CaptionInvariant, Typed, Statuses
<1>2. ASSUME workers' = workers PROVE Continuing
  BY <1>1, <1>2 DEF Continuing, Used, Alive
<1>3. ASSUME NEW w \in Runs, WorkerStep(w) PROVE Continuing /\ Kept
  BY <1>3, WorkerContinues DEF CaptionInvariant
<1>4. ASSUME workers' = Cancelled(service.run) PROVE Continuing
  <2>1. CASE service.run = None
    <3>1. Cancelled(service.run) = workers
      BY <2>1 DEF Cancelled
    <3>. QED BY <1>2, <1>4, <3>1
  <2>2. CASE service.run # None
    <3>1. service.run \in Runs /\ workers[service.run] \in Workers /\ Used(service.run)
      BY <1>1, <2>2 DEF CaptionInvariant, RunsInOrder
    <3>2. workers' = [workers EXCEPT ![service.run] = [workers[service.run] EXCEPT !.cancel = TRUE]]
      BY <1>4, <2>2, <3>1 DEF Cancelled
    <3>. QED BY <1>1, <3>1, <3>2 DEF Continuing, Used, Alive, Workers
  <2>. QED BY <2>1, <2>2
<1>5. ASSUME NEW generation \in Nat, status.session # None, NeedRun # {},
             Launch(First(Unstarted), status.session, generation), control'.run = First(Unstarted)
      PROVE  Beginning(First(Unstarted), generation)
  <2>1. First(Unstarted) \in Unstarted /\ \A v \in Unstarted : First(Unstarted) <= v
    BY <1>5, RunIsLeft DEF CaptionInvariant
  <2>. QED BY <1>1, <1>5, <2>1 DEF Launch, Beginning, Unstarted, Used
<1>6. CASE Resume
  <2>1. NeedRun # {} /\ status.session # None
    BY <1>6 DEF Resume, NeedRun, CaptionInvariant, SessionsBegin
  <2>2. \/ /\ Launch(First(Unstarted), status.session, service.generation + 1)
           /\ control' = [fn |-> "resume", at |-> "keep", run |-> First(Unstarted)]
        \/ UNCHANGED <<workers, control>>
    BY <1>6 DEF Resume
  <2>3. service.generation + 1 \in Nat
    BY <1>1
  <2>. QED BY <1>2, <1>5, <1>6, <2>1, <2>2, <2>3
<1>7. CASE LaunchNew
  <2>1. NeedRun # {} /\ status.session # None
    BY <1>7 DEF LaunchNew, NeedRun, Holding, CaptionInvariant, LockMatchesCall, SessionsBegin
  <2>2. \/ /\ Launch(First(Unstarted), status.session, 0)
           /\ control' = [control EXCEPT !.at = "keep", !.run = First(Unstarted)]
        \/ UNCHANGED workers /\ control' = Idle
    BY <1>7 DEF LaunchNew, Release
  <2>3. CASE UNCHANGED workers /\ control' = Idle
    BY <1>2, <2>3 DEF Idle
  <2>4. CASE /\ Launch(First(Unstarted), status.session, 0)
             /\ control' = [control EXCEPT !.at = "keep", !.run = First(Unstarted)]
    <3>1. control'.run = First(Unstarted)
      BY <1>1, <2>4
    <3>. QED BY <1>5, <1>7, <2>1, <2>4, <3>1
  <2>. QED BY <2>2, <2>3, <2>4
<1>8. CASE HaltRun \/ StopRun
  BY <1>1, <1>4, <1>8 DEF HaltRun, StopRun
<1>9. CASE CaptureStart \/ CaptureBegins \/ CaptureFails \/ CloseWindow \/ RequestExit \/ UNCHANGED vars
  BY <1>2, <1>9 DEF CaptureStart, CaptureBegins, CaptureFails, CloseWindow, RequestExit, vars
<1>10. ASSUME \E fn \in Fns : Ask(fn) \/ Refuse(fn) \/ Acquire(fn) PROVE Continuing /\ Kept
  BY <1>2, <1>10 DEF Ask, Refuse, Acquire
<1>11. ASSUME \E s \in Sessions : Delete(s) PROVE Continuing /\ Kept
  BY <1>2, <1>11 DEF Delete
<1>12. CASE AwaitWorker \/ Settle \/ Create \/ Keep
  <2>1. workers' = workers
    BY <1>12 DEF AwaitWorker, Settle, Create, Keep
  <2>2. CASE AwaitWorker
    <3>1. control' = [control EXCEPT !.at = "settle", !.run = None]
      BY <2>2 DEF AwaitWorker
    <3>. QED BY <1>1, <1>2, <2>1, <3>1
  <2>3. CASE Settle
    <3>1. control' = Idle \/ control' = [control EXCEPT !.at = "create"]
      BY <2>3 DEF Settle, Release, Go
    <3>. QED BY <1>1, <1>2, <2>1, <3>1 DEF Idle
  <2>4. CASE Create
    <3>1. control' = Idle \/ control' = [control EXCEPT !.at = "launch"]
      BY <2>4 DEF Create, Release, Go
    <3>. QED BY <1>1, <1>2, <2>1, <3>1 DEF Idle
  <2>5. CASE Keep
    BY <1>2, <2>1, <2>5 DEF Keep, Release, Idle
  <2>. QED BY <1>12, <2>2, <2>3, <2>4, <2>5
<1>. QED
  BY <1>2, <1>3, <1>6, <1>7, <1>8, <1>9, <1>10, <1>11, <1>12 DEF Next, ControlStep, Fns

-----------------------------------------------------------------------------
(* The variables stay in their domains. *)

LEMMA TypedWorkers ==
  ASSUME CaptionInvariant, [Next]_vars
  PROVE  workers' \in [Runs -> Workers] /\ \A w \in Runs : ~Used(w)' => workers'[w] = Unused
<1>1. Typed /\ \A w \in Runs : ~Used(w) => workers[w] = Unused
  BY DEF CaptionInvariant, Typed
<1>2. CASE Continuing
  BY <1>1, <1>2 DEF Continuing
<1>3. ASSUME NEW w, NEW generation, Beginning(w, generation)
      PROVE  workers' \in [Runs -> Workers] /\ \A v \in Runs : ~Used(v)' => workers'[v] = Unused
  <2>1. [Unused EXCEPT !.at = "loop", !.session = status.session, !.generation = generation] \in Workers
    BY <1>3 DEF Beginning, Unused, Workers
  <2>2. w \in Runs /\ workers \in [Runs -> Workers]
    BY <1>1, <1>3 DEF Beginning, Typed
  <2>3. workers'[w].at = "loop" /\ \A v \in Runs \ {w} : workers'[v] = workers[v]
    BY <1>3, <2>2 DEF Beginning, Unused
  <2>. QED BY <1>1, <1>3, <2>1, <2>2, <2>3 DEF Beginning, Used
<1>. QED BY <1>2, <1>3, RunsChange

LEMMA TypedStatus ==
  ASSUME CaptionInvariant, [Next]_vars
  PROVE  status' \in Statuses
<1>1. Typed /\ status \in Statuses /\ service.generation \in Nat
  BY DEF CaptionInvariant, Typed
<1>2. CASE UNCHANGED status
  BY <1>1, <1>2
<1>3. CASE Resume
  <2>1. \/ UNCHANGED status
        \/ status' = [status EXCEPT !.generation = service.generation + 1, !.state = "starting"]
    BY <1>3 DEF Resume
  <2>2. service.generation + 1 \in Nat
    BY <1>1
  <2>. QED BY <1>1, <2>1, <2>2 DEF Statuses, Active
<1>4. CASE Settle
  <2>1. Settled \in {"paused", "stopped"}
    BY DEF Settled
  <2>2. UNCHANGED status \/ status' = [status EXCEPT !.state = Settled, !.partial = None]
    BY <1>4 DEF Settle
  <2>. QED BY <1>1, <2>1, <2>2 DEF Statuses, Active
<1>5. CASE Create
  <2>1. NeedSession # {}
    BY <1>5 DEF Create, NeedSession, Holding, CaptionInvariant, LockMatchesCall
  <2>2. First(NewSessions) \in Sessions
    BY <2>1, SessionIsLeft DEF CaptionInvariant, NewSessions
  <2>3. \/ UNCHANGED status
        \/ status' = [session |-> First(NewSessions), state |-> "starting", generation |-> 0, final |-> 0,
                      heard |-> 0, partial |-> None]
    BY <1>5 DEF Create
  <2>4. [session |-> First(NewSessions), state |-> "starting", generation |-> 0, final |-> 0,
         heard |-> 0, partial |-> None] \in Statuses
    BY <2>2 DEF Statuses, Active
  <2>. QED BY <1>1, <2>3, <2>4
<1>6. CASE LaunchNew
  BY <1>1, <1>6 DEF LaunchNew, Statuses, Active
<1>7. ASSUME NEW w \in Runs, NEW n \in 1..MaxTexts
      PROVE  Text(w, n) \in Texts /\ Text(w, n).sequence \in Nat
  <2>1. workers[w].generation \in Nat /\ n \in 0..MaxTexts /\ MaxTexts \in Nat
    BY <1>1, CaptionAssumption DEF Typed, Workers
  <2>2. Number(workers[w].generation, n) \in Nat
    BY <2>1, Numbers
  <2>. QED BY <2>2 DEF Text, Texts
<1>8. ASSUME NEW w \in Runs, Partial(w) PROVE status' \in Statuses
  <2>1. PICK n \in 1..MaxTexts : Heard(w, Text(w, n))
    BY <1>8 DEF Partial
  <2>. QED BY <1>1, <1>7, <2>1 DEF Heard, Statuses
<1>9. ASSUME NEW w \in Runs, Final(w) PROVE status' \in Statuses
  <2>1. PICK n \in 1..MaxTexts : status' = Saved(Text(w, n)) \/ UNCHANGED status
    BY <1>9 DEF Final
  <2>. QED BY <1>1, <1>7, <2>1 DEF Saved, Statuses
<1>10. ASSUME NEW w \in Runs, Tick(w) \/ Report(w) PROVE status' \in Statuses
  BY <1>1, <1>10 DEF Tick, Report, Statuses, Active
<1>. QED
  BY <1>2, <1>3, <1>4, <1>5, <1>6, <1>8, <1>9, <1>10
  DEF Next, vars, Ask, CloseWindow, RequestExit, HaltRun, Delete, ControlStep, Refuse, Acquire, StopRun,
      AwaitWorker, Keep, CaptureStart, CaptureBegins, CaptureFails, WorkerStep, Supervise, ReadyTimeout,
      Deadline, EngineReady, BeginCapture, Stopped, EngineFails, Leave

LEMMA TypedTables ==
  ASSUME CaptionInvariant, [Next]_vars
  PROVE  /\ history' \in [Sessions -> Active \cup {"none", "stopped", "failed", "deleted"}]
         /\ texts' \in [Sessions -> Seq(Texts)]
<1>1. /\ Typed /\ history \in [Sessions -> Active \cup {"none", "stopped", "failed", "deleted"}]
      /\ texts \in [Sessions -> Seq(Texts)]
      /\ status.session \in Sessions \cup {None} /\ workers \in [Runs -> Workers]
  BY DEF CaptionInvariant, Typed, Statuses
<1>2. CASE UNCHANGED <<history, texts>>
  BY <1>1, <1>2
<1>3. ASSUME NEW s \in Sessions, Delete(s)
      PROVE  /\ history' \in [Sessions -> Active \cup {"none", "stopped", "failed", "deleted"}]
             /\ texts' \in [Sessions -> Seq(Texts)]
  BY <1>1, <1>3 DEF Delete
<1>4. CASE Settle \/ LaunchNew
  BY <1>1, <1>4 DEF Settle, LaunchNew, Settled, Active
<1>5. CASE Create
  BY <1>1, <1>5 DEF Create, Active
<1>6. ASSUME NEW w \in Runs, Tick(w) \/ Report(w)
      PROVE  /\ history' \in [Sessions -> Active \cup {"none", "stopped", "failed", "deleted"}]
             /\ texts' = texts
  BY <1>1, <1>6 DEF Tick, Report, Active
<1>7. ASSUME NEW w \in Runs, Final(w)
      PROVE  history' = history /\ texts' \in [Sessions -> Seq(Texts)]
  <2>1. PICK n \in 1..MaxTexts :
          \/ texts' = texts
          \/ texts' = Appended(status.session, Text(w, n)) /\ Current(w, Text(w, n))
    BY <1>7 DEF Final
  <2>2. workers[w].session \in Sessions \/ workers[w].session = None
    BY <1>1 DEF Workers
  <2>3. workers[w].generation \in Nat /\ n \in 0..MaxTexts /\ MaxTexts \in Nat
    BY <1>1, CaptionAssumption DEF Workers
  <2>4. Text(w, n) \in Texts
    BY <2>3, Numbers DEF Text, Texts
  <2>5. Used(w)
    BY <1>7 DEF Final, Speaking, In, Used
  <2>6. CASE texts' = texts
    BY <1>1, <1>7, <2>6 DEF Final
  <2>7. CASE texts' = Appended(status.session, Text(w, n)) /\ Current(w, Text(w, n))
    <3>1. status.session \in Sessions
      BY <1>1, <2>5, <2>7 DEF Current, CaptionInvariant, RunsInOrder
    <3>2. Append(texts[status.session], Text(w, n)) \in Seq(Texts)
      BY <1>1, <2>4, <3>1
    <3>. QED BY <1>1, <1>7, <2>7, <3>1, <3>2 DEF Appended, Final
  <2>. QED BY <2>1, <2>6, <2>7
<1>. QED
  BY <1>1, <1>2, <1>3, <1>4, <1>5, <1>6, <1>7
  DEF Next, vars, Ask, CloseWindow, RequestExit, HaltRun, ControlStep, Refuse, Acquire, StopRun, Resume,
      AwaitWorker, Keep, CaptureStart, CaptureBegins, CaptureFails, WorkerStep, Supervise, ReadyTimeout,
      Deadline, EngineReady, BeginCapture, Partial, Stopped, EngineFails, Leave, SameCalls

LEMMA TypedCalls ==
  ASSUME CaptionInvariant, [Next]_vars
  PROVE  /\ service' \in [run : Runs \cup {None}, generation : Nat, halt : {"stop", "exit", None},
                          exiting : BOOLEAN, ended : BOOLEAN]
         /\ waiting' \subseteq Fns
         /\ control' \in [fn : Fns \cup {None}, at : Points \cup {None}, run : Runs \cup {None}]
         /\ abandoned' \subseteq Runs
<1>. DEFINE Services == [run : Runs \cup {None}, generation : Nat, halt : {"stop", "exit", None},
                         exiting : BOOLEAN, ended : BOOLEAN]
            Calls == [fn : Fns \cup {None}, at : Points \cup {None}, run : Runs \cup {None}]
            Goal == service' \in Services /\ waiting' \subseteq Fns /\ control' \in Calls /\ abandoned' \subseteq Runs
<1>1. Typed /\ service \in Services /\ waiting \subseteq Fns /\ control \in Calls /\ abandoned \subseteq Runs
  BY DEF CaptionInvariant, Typed
<1>2. Idle \in Calls
  BY DEF Idle
<1>3. CASE UNCHANGED <<service, waiting, control, abandoned>>
  BY <1>1, <1>3
<1>4. ASSUME NEW fn \in Fns, Ask(fn) \/ Refuse(fn) PROVE Goal
  BY <1>1, <1>4 DEF Ask, Refuse
<1>5. ASSUME NEW fn \in Fns, Acquire(fn) PROVE Goal
  BY <1>1, <1>5 DEF Acquire, Points
<1>6. CASE CloseWindow \/ RequestExit
  BY <1>1, <1>6 DEF CloseWindow, RequestExit
<1>7. CASE HaltRun
  BY <1>1, <1>7 DEF HaltRun, Fns
<1>8. CASE Resume
  <2>1. NeedRun # {}
    BY <1>8 DEF Resume, NeedRun
  <2>2. First(Unstarted) \in Runs
    BY <2>1, RunIsLeft DEF CaptionInvariant, Unstarted
  <2>3. [fn |-> "resume", at |-> "keep", run |-> First(Unstarted)] \in Calls
    BY <2>2 DEF Fns, Points
  <2>4. service.generation + 1 \in Nat
    BY <1>1
  <2>5. /\ control' = control \/ control' = [fn |-> "resume", at |-> "keep", run |-> First(Unstarted)]
        /\ service' = [service EXCEPT !.generation = service.generation + 1]
        /\ waiting' \subseteq waiting /\ abandoned' = abandoned
    BY <1>8 DEF Resume
  <2>. QED BY <1>1, <2>3, <2>4, <2>5
<1>9. CASE StopRun
  <2>1. control' = [control EXCEPT !.at = IF service.run = None THEN "settle" ELSE "wait", !.run = service.run]
    BY <1>9 DEF StopRun
  <2>2. service' = [service EXCEPT !.run = None] /\ waiting' = waiting /\ abandoned' = abandoned
    BY <1>9 DEF StopRun
  <2>. QED BY <1>1, <2>1, <2>2 DEF Points
<1>10. CASE AwaitWorker
  <2>1. control.at = "wait" => control.run \in Runs
    BY <1>1 DEF CaptionInvariant, LockMatchesCall
  <2>2. /\ control' = [control EXCEPT !.at = "settle", !.run = None]
        /\ abandoned' \subseteq Runs
    BY <1>1, <1>10, <2>1 DEF AwaitWorker
  <2>3. control' \in Calls
    BY <1>1, <2>2 DEF Points
  <2>. QED BY <1>1, <1>10, <2>2, <2>3 DEF AwaitWorker
<1>11. CASE Settle
  <2>1. control' = Idle \/ control' = [control EXCEPT !.at = "create"]
    BY <1>11 DEF Settle, Release, Go
  <2>2. control' \in Calls
    BY <1>1, <1>2, <2>1 DEF Points
  <2>3. service' = [service EXCEPT !.ended = (control.fn = "exit")] /\ waiting' = waiting /\ abandoned' = abandoned
    BY <1>11 DEF Settle
  <2>4. (control.fn = "exit") \in BOOLEAN
    OBVIOUS
  <2>. QED BY <1>1, <2>2, <2>3, <2>4
<1>12. CASE Create
  <2>1. control' = Idle \/ control' = [control EXCEPT !.at = "launch"]
    BY <1>12 DEF Create, Release, Go
  <2>. QED BY <1>1, <1>2, <1>12, <2>1 DEF Create, Points
<1>13. CASE LaunchNew
  <2>1. NeedRun # {}
    BY <1>13 DEF LaunchNew, NeedRun, Holding, CaptionInvariant, LockMatchesCall
  <2>2. First(Unstarted) \in Runs
    BY <2>1, RunIsLeft DEF CaptionInvariant, Unstarted
  <2>3. control' = Idle \/ control' = [control EXCEPT !.at = "keep", !.run = First(Unstarted)]
    BY <1>13 DEF LaunchNew, Release
  <2>. QED BY <1>1, <1>2, <1>13, <2>2, <2>3 DEF LaunchNew, Points
<1>14. CASE Keep
  BY <1>1, <1>2, <1>14 DEF Keep, Release
<1>15. ASSUME NEW w \in Runs, WorkerStep(w) PROVE Goal
  BY <1>1, <1>3, <1>15, WorkerContinues
<1>. QED
  BY <1>3, <1>4, <1>5, <1>6, <1>7, <1>8, <1>9, <1>10, <1>11, <1>12, <1>13, <1>14, <1>15
  DEF Next, vars, Fns, Delete, ControlStep, CaptureStart, CaptureBegins, CaptureFails

LEMMA TypedCapture ==
  ASSUME CaptionInvariant, [Next]_vars
  PROVE  /\ capture' \in [queued : Runs \cup {None}, by : Runs \cup {None}, on : BOOLEAN,
                          sender : Runs \cup {None}]
         /\ flags' \in [ready : BOOLEAN, error : BOOLEAN]
<1>. DEFINE Captures == [queued : Runs \cup {None}, by : Runs \cup {None}, on : BOOLEAN,
                         sender : Runs \cup {None}]
            Flags == [ready : BOOLEAN, error : BOOLEAN]
<1>1. capture \in Captures /\ flags \in Flags /\ Off \in Captures
  BY DEF CaptionInvariant, Typed, Off
<1>2. CASE UNCHANGED <<capture, flags>>
  BY <1>1, <1>2
<1>3. CASE CloseWindow \/ RequestExit
  BY <1>1, <1>3 DEF CloseWindow, RequestExit, Halt, Off
<1>4. ASSUME NEW fn \in Fns, Acquire(fn) PROVE capture' \in Captures /\ flags' \in Flags
  BY <1>1, <1>4 DEF Acquire
<1>5. ASSUME NEW w \in Runs, NEW s, NEW generation, Launch(w, s, generation)
      PROVE  capture' \in Captures /\ flags' \in Flags
  BY <1>1, <1>5 DEF Launch
<1>6. CASE Resume \/ LaunchNew
  <2>1. NeedRun # {}
    BY <1>6 DEF Resume, LaunchNew, NeedRun, Holding, CaptionInvariant, LockMatchesCall
  <2>2. First(Unstarted) \in Runs
    BY <2>1, RunIsLeft DEF CaptionInvariant, Unstarted
  <2>. QED BY <1>2, <1>5, <1>6, <2>2 DEF Resume, LaunchNew
<1>7. CASE CaptureStart \/ CaptureBegins \/ CaptureFails
  BY <1>1, <1>7 DEF CaptureStart, CaptureBegins, CaptureFails
<1>8. ASSUME NEW w \in Runs, WorkerStep(w) PROVE capture' \in Captures /\ flags' \in Flags
  <2>1. UNCHANGED flags /\ capture' \in {capture, Off, [capture EXCEPT !.queued = w]}
    BY <1>8 DEF WorkerStep, Supervise, ReadyTimeout, Deadline, EngineReady, BeginCapture, Partial, Final,
                Stopped, EngineFails, Tick, Leave, Report
  <2>. QED BY <1>1, <2>1
<1>. QED
  BY <1>2, <1>3, <1>4, <1>6, <1>7, <1>8
  DEF Next, vars, Fns, Ask, Delete, HaltRun, ControlStep, Refuse, StopRun, AwaitWorker, Settle, Create, Keep

LEMMA TypedStep ==
  ASSUME CaptionInvariant, [Next]_vars PROVE Typed'
BY TypedWorkers, TypedStatus, TypedTables, TypedCalls, TypedCapture
DEF Typed, Statuses, Texts, Workers, Sessions, Runs, Fns, Points, Active

-----------------------------------------------------------------------------
(* Calls and runs. *)

\* The control lock passes from call to call with the run it waits for.
LEMMA LockStep ==
  ASSUME CaptionInvariant, [Next]_vars PROVE LockMatchesCall'
<1>1. Typed /\ LockMatchesCall
  BY DEF CaptionInvariant
<1>2. /\ control \in [fn : Fns \cup {None}, at : Points \cup {None}, run : Runs \cup {None}]
      /\ service.run \in Runs \cup {None} /\ service.halt \in {"stop", "exit", None}
      /\ DOMAIN service = {"run", "generation", "halt", "exiting", "ended"}
      /\ status \in Statuses /\ waiting \subseteq Fns
  BY <1>1 DEF Typed
<1>3. None \notin Fns /\ None \notin Points /\ None \notin Runs
  BY CaptionAssumption DEF Fns, Points, Runs
<1>4. CASE UNCHANGED <<service, control, status>>
  BY <1>1, <1>4 DEF LockMatchesCall
<1>5. ASSUME control' = control, service'.run = service.run,
             status'.state = "paused" => status.state = "paused"
      PROVE  LockMatchesCall'
  BY <1>1, <1>5 DEF LockMatchesCall
<1>6. CASE Resume
  <2>1. CASE UNCHANGED <<status, control>>
    <3>1. service'.run = service.run
      BY <1>6, <1>2 DEF Resume
    <3>. QED BY <1>5, <2>1, <3>1
  <2>2. CASE /\ status' = [status EXCEPT !.generation = service.generation + 1, !.state = "starting"]
             /\ control' = [fn |-> "resume", at |-> "keep", run |-> First(Unstarted)]
    <3>1. First(Unstarted) \in Runs
      <4>1. NeedRun # {}
        BY <1>6 DEF Resume, NeedRun
      <4>. QED BY <4>1, RunIsLeft DEF CaptionInvariant, Unstarted
    <3>2. service'.run = service.run /\ service.run = None
      BY <1>1, <1>2, <1>6 DEF Resume, LockMatchesCall
    <3>3. status'.state = "starting"
      BY <1>2, <2>2 DEF Statuses
    <3>. QED BY <1>3, <2>2, <3>1, <3>2, <3>3 DEF LockMatchesCall, Fns, Points
  <2>. QED BY <1>6, <2>1, <2>2 DEF Resume
<1>7. ASSUME NEW fn \in Fns, Ask(fn) \/ Refuse(fn) PROVE LockMatchesCall'
  BY <1>4, <1>7 DEF Ask, Refuse
<1>8. ASSUME NEW fn \in Fns, Acquire(fn) PROVE LockMatchesCall'
  BY <1>1, <1>3, <1>8 DEF Acquire, LockMatchesCall, Fns, Points
<1>9. CASE CloseWindow \/ RequestExit \/ HaltRun
  <2>1. control' = control /\ status' = status /\ service'.run = service.run
    BY <1>2, <1>9 DEF CloseWindow, RequestExit, HaltRun
  <2>. QED BY <1>5, <2>1
<1>10. CASE StopRun
  <2>1. /\ control'.fn = control.fn /\ control'.run = service.run
        /\ control'.at = IF service.run = None THEN "settle" ELSE "wait"
        /\ service'.run = None /\ status' = status
    BY <1>2, <1>10 DEF StopRun
  <2>2. control.at # None /\ control.fn # None
    BY <1>1, <1>3, <1>10 DEF StopRun, LockMatchesCall, Points
  <2>. QED BY <1>1, <1>3, <2>1, <2>2 DEF LockMatchesCall, Points
<1>11. CASE AwaitWorker
  <2>1. /\ control'.fn = control.fn /\ control'.run = None /\ control'.at = "settle"
        /\ service' = service /\ status' = status /\ control.at = "wait"
    BY <1>2, <1>11 DEF AwaitWorker
  <2>. QED BY <1>1, <1>3, <2>1 DEF LockMatchesCall, Points
<1>12. CASE Settle
  <2>1. /\ \/ control' = Idle
           \/ control.fn = "start" /\ control' = [control EXCEPT !.at = "create"]
        /\ service'.run = service.run /\ control.at = "settle"
    BY <1>2, <1>12 DEF Settle, Release, Go
  <2>2. service.run = None /\ control.run = None
    BY <1>1, <2>1 DEF LockMatchesCall
  <2>3. \/ control'.fn = None /\ control'.at = None /\ control'.run = None
        \/ control'.fn = "start" /\ control'.at = "create" /\ control'.run = None
    BY <1>2, <2>1, <2>2 DEF Idle
  <2>. QED BY <1>3, <2>1, <2>2, <2>3 DEF LockMatchesCall, Fns, Points
<1>13. CASE Create
  <2>1. /\ \/ control' = Idle /\ status' = status
           \/ control' = [control EXCEPT !.at = "launch"] /\ status'.state = "starting"
        /\ service' = service /\ control.at = "create"
    BY <1>13 DEF Create, Release, Go
  <2>2. service.run = None /\ control.run = None /\ control.fn = "start"
    BY <1>1, <2>1 DEF LockMatchesCall
  <2>3. \/ control'.fn = None /\ control'.at = None /\ control'.run = None /\ status' = status
        \/ control'.fn = "start" /\ control'.at = "launch" /\ control'.run = None /\ status'.state = "starting"
    BY <1>2, <2>1, <2>2 DEF Idle
  <2>. QED BY <1>3, <2>1, <2>2, <2>3 DEF LockMatchesCall, Fns, Points
<1>14. CASE LaunchNew
  <2>1. /\ \/ control' = Idle
           \/ control' = [control EXCEPT !.at = "keep", !.run = First(Unstarted)] /\ status' = status
        /\ service' = service /\ control.at = "launch"
    BY <1>14 DEF LaunchNew, Release
  <2>2. service.run = None /\ control.run = None /\ control.fn = "start" /\ status.state # "paused"
    BY <1>1, <2>1 DEF LockMatchesCall
  <2>3. First(Unstarted) \in Runs
    <3>1. NeedRun # {}
      BY <2>1, <2>2 DEF NeedRun, Holding
    <3>. QED BY <3>1, RunIsLeft DEF CaptionInvariant, Unstarted
  <2>4. \/ control'.fn = None /\ control'.at = None /\ control'.run = None
        \/ control'.fn = "start" /\ control'.at = "keep" /\ control'.run \in Runs /\ status' = status
    <3>1. CASE control' = Idle
      BY <3>1 DEF Idle
    <3>2. CASE control' = [control EXCEPT !.at = "keep", !.run = First(Unstarted)] /\ status' = status
      BY <1>2, <2>2, <2>3, <3>2
    <3>. QED BY <2>1, <3>1, <3>2
  <2>. QED BY <1>3, <2>1, <2>2, <2>4 DEF LockMatchesCall, Fns, Points
<1>15. CASE Keep
  <2>1. control' = Idle /\ status' = status /\ control.at = "keep"
    BY <1>15 DEF Keep, Release
  <2>2. status.state # "paused"
    BY <1>1, <2>1 DEF LockMatchesCall
  <2>. QED BY <1>3, <2>1, <2>2 DEF LockMatchesCall, Idle, Points
<1>16. ASSUME NEW w \in Runs, WorkerStep(w) PROVE LockMatchesCall'
  <2>1. UNCHANGED <<service, control>>
    BY <1>1, <1>16, WorkerContinues
  <2>2. UNCHANGED status \/ Partial(w) \/ Final(w) \/ Tick(w) \/ Report(w)
    BY <1>16 DEF WorkerStep, Supervise, ReadyTimeout, Deadline, EngineReady, BeginCapture, Stopped, EngineFails, Leave
  <2>3. status'.state = "paused" => status.state = "paused"
    <3>1. CASE Partial(w)
      BY <1>2, <3>1 DEF Partial, Heard, Statuses
    <3>2. CASE Final(w)
      BY <1>2, <3>2 DEF Final, Saved, Statuses
    <3>3. CASE Tick(w) \/ Report(w)
      BY <1>2, <3>3 DEF Tick, Report, Statuses
    <3>. QED BY <2>2, <3>1, <3>2, <3>3
  <2>. QED BY <1>5, <2>1, <2>3
<1>. QED
  BY <1>4, <1>6, <1>7, <1>8, <1>9, <1>10, <1>11, <1>12, <1>13, <1>14, <1>15, <1>16
  DEF Next, vars, Fns, Delete, ControlStep, CaptureStart, CaptureBegins, CaptureFails

-----------------------------------------------------------------------------
(* What a step never takes back. *)

\* A session that began stays, and one that was deleted stays deleted.
LEMMA HistoryKeeps ==
  ASSUME CaptionInvariant, [Next]_vars
  PROVE  \A s \in Sessions : /\ history'[s] = "none" => history[s] = "none"
                             /\ history[s] = "deleted" => history'[s] = "deleted"
<1>. DEFINE Goal == \A s \in Sessions : /\ history'[s] = "none" => history[s] = "none"
                                        /\ history[s] = "deleted" => history'[s] = "deleted"
<1>1. history \in [Sessions -> Active \cup {"none", "stopped", "failed", "deleted"}]
  BY DEF CaptionInvariant, Typed
<1>2. CASE UNCHANGED history
  BY <1>2
<1>3. ASSUME NEW s \in Sessions, Delete(s) PROVE Goal
  BY <1>1, <1>3 DEF Delete
<1>4. CASE Settle
  BY <1>1, <1>4 DEF Settle, Settled
<1>5. CASE Create
  <2>1. NeedSession # {}
    BY <1>5 DEF Create, NeedSession, Holding, CaptionInvariant, LockMatchesCall
  <2>2. First(NewSessions) \in Sessions /\ history[First(NewSessions)] = "none"
    BY <2>1, SessionIsLeft DEF CaptionInvariant, NewSessions
  <2>. QED BY <1>1, <1>5, <2>2 DEF Create
<1>6. CASE LaunchNew
  BY <1>1, <1>6 DEF LaunchNew
<1>7. ASSUME NEW w \in Runs, Tick(w) PROVE Goal
  BY <1>1, <1>7 DEF Tick
<1>8. ASSUME NEW w \in Runs, Report(w) PROVE Goal
  BY <1>1, <1>8 DEF Report
<1>. QED
  BY <1>2, <1>3, <1>4, <1>5, <1>6, <1>7, <1>8
  DEF Next, vars, Ask, CloseWindow, RequestExit, HaltRun, ControlStep, Refuse, Acquire, StopRun, Resume,
      AwaitWorker, Keep, CaptureStart, CaptureBegins, CaptureFails, WorkerStep, Supervise, ReadyTimeout,
      Deadline, EngineReady, BeginCapture, Partial, Final, Stopped, EngineFails, Leave

\* Only a resume takes a generation, and takes the next one.
LEMMA GenerationGrows ==
  ASSUME CaptionInvariant, [Next]_vars
  PROVE  /\ service.generation \in Nat /\ service'.generation \in Nat
         /\ service.generation <= service'.generation
         /\ Resume => service'.generation = service.generation + 1
<1>1. service \in [run : Runs \cup {None}, generation : Nat, halt : {"stop", "exit", None},
                   exiting : BOOLEAN, ended : BOOLEAN]
  BY DEF CaptionInvariant, Typed
<1>2. ASSUME service'.generation = service.generation
      PROVE  service'.generation \in Nat /\ service.generation <= service'.generation
  BY <1>1, <1>2
<1>3. CASE Resume
  BY <1>1, <1>3 DEF Resume
<1>4. ASSUME NEW w \in Runs, WorkerStep(w) PROVE service'.generation = service.generation
  BY <1>4, WorkerContinues DEF CaptionInvariant
<1>5. ASSUME CloseWindow \/ RequestExit \/ HaltRun \/ StopRun \/ Settle \/ Keep
      PROVE  service'.generation = service.generation
  <2>1. CASE CloseWindow \/ RequestExit \/ HaltRun
    BY <1>1, <2>1 DEF CloseWindow, RequestExit, HaltRun
  <2>2. CASE StopRun \/ Keep
    BY <1>1, <2>2 DEF StopRun, Keep
  <2>3. CASE Settle
    <3>1. service' = [service EXCEPT !.ended = (control.fn = "exit")]
      BY <2>3 DEF Settle
    <3>. QED BY <1>1, <3>1
  <2>. QED BY <1>5, <2>1, <2>2, <2>3
<1>. QED
  BY <1>1, <1>2, <1>3, <1>4, <1>5
  DEF Next, vars, Ask, ControlStep, Refuse, Acquire, Delete, AwaitWorker, Create, LaunchNew,
      CaptureStart, CaptureBegins, CaptureFails

\* A run leaves the hands of a call once it is done or given up, and only a new one gets there.
LEMMA HandsChange ==
  ASSUME CaptionInvariant, [Next]_vars
  PROVE  /\ \/ \A w \in {service'.run, control'.run} \ {None} : w \in {service.run, control.run}
            \/ /\ service'.run = None /\ service.run = None /\ control.run = None
               /\ \/ Resume /\ Beginning(control'.run, service.generation + 1)
                  \/ LaunchNew /\ Beginning(control'.run, 0)
         /\ abandoned \subseteq abandoned' /\ abandoned' \subseteq abandoned \cup ({control.run} \ {None})
         /\ \A w \in {service.run, control.run} \ {None} :
              \/ w \in {service'.run, control'.run} \cup abandoned'
              \/ workers[w].at = "done"
<1>. DEFINE Goal ==
         /\ abandoned \subseteq abandoned' /\ abandoned' \subseteq abandoned \cup ({control.run} \ {None})
         /\ service'.run \in {service.run, control.run, None}
         /\ \A w \in {service.run, control.run} \ {None} :
              \/ w \in {service'.run, control'.run} \cup abandoned'
              \/ workers[w].at = "done"
<1>1. /\ Typed /\ LockMatchesCall
      /\ service \in [run : Runs \cup {None}, generation : Nat, halt : {"stop", "exit", None},
                      exiting : BOOLEAN, ended : BOOLEAN]
      /\ control \in [fn : Fns \cup {None}, at : Points \cup {None}, run : Runs \cup {None}]
  BY DEF CaptionInvariant, Typed
<1>2. None \notin Points /\ None \notin Fns
  BY CaptionAssumption DEF Fns, Points
<1>3. ASSUME service'.run = service.run, control'.run = control.run, abandoned' = abandoned PROVE Goal
  BY <1>3
<1>4. ASSUME NEW w \in Runs, WorkerStep(w) PROVE Goal
  BY <1>1, <1>3, <1>4, WorkerContinues
<1>5. ASSUME CloseWindow \/ RequestExit \/ HaltRun PROVE Goal
  <2>1. service'.run = service.run /\ control'.run = control.run /\ abandoned' = abandoned
    BY <1>1, <1>5 DEF CloseWindow, RequestExit, HaltRun
  <2>. QED BY <1>3, <2>1
<1>6. ASSUME Resume \/ LaunchNew PROVE Goal
  <2>1. service.run = None /\ control.run = None
    BY <1>1, <1>2, <1>6 DEF Resume, LaunchNew, LockMatchesCall, Points
  <2>2. service'.run = service.run /\ abandoned' = abandoned
    BY <1>1, <1>6 DEF Resume, LaunchNew
  <2>. QED BY <2>1, <2>2
<1>7. ASSUME NEW fn \in Fns, Ask(fn) \/ Refuse(fn) \/ Acquire(fn) PROVE Goal
  <2>1. service' = service /\ abandoned' = abandoned
    BY <1>7 DEF Ask, Refuse, Acquire
  <2>2. control'.run = control.run
    BY <1>1, <1>2, <1>7 DEF Ask, Refuse, Acquire, LockMatchesCall, Points
  <2>. QED BY <1>3, <2>1, <2>2
<1>8. ASSUME StopRun PROVE Goal
  <2>1. service'.run = None /\ control'.run = service.run /\ abandoned' = abandoned /\ control.run = None
    BY <1>1, <1>8 DEF StopRun, LockMatchesCall
  <2>. QED BY <2>1
<1>9. ASSUME AwaitWorker PROVE Goal
  <2>1. service' = service /\ service.run = None
    BY <1>1, <1>9 DEF AwaitWorker, LockMatchesCall
  <2>2. /\ abandoned \subseteq abandoned' /\ abandoned' \subseteq abandoned \cup {control.run}
        /\ workers[control.run].at = "done" \/ control.run \in abandoned'
    BY <1>9 DEF AwaitWorker
  <2>3. control.run # None
    BY <1>1, <1>9 DEF AwaitWorker, LockMatchesCall
  <2>. QED BY <2>1, <2>2, <2>3
<1>10. ASSUME Settle \/ Create PROVE Goal
  <2>1. service'.run = service.run /\ service.run = None /\ control.run = None /\ abandoned' = abandoned
    BY <1>1, <1>10 DEF Settle, Create, LockMatchesCall
  <2>. QED BY <2>1
<1>11. ASSUME Keep PROVE Goal
  <2>1. service'.run = control.run /\ service.run = None /\ abandoned' = abandoned
    BY <1>1, <1>11 DEF Keep, LockMatchesCall
  <2>. QED BY <2>1
<1>12. Goal
  BY <1>3, <1>4, <1>5, <1>6, <1>7, <1>8, <1>9, <1>10, <1>11
  DEF Next, vars, ControlStep, Delete, CaptureStart, CaptureBegins, CaptureFails, Fns
<1>13. ASSUME Beginning(control'.run, 0) \/ Beginning(control'.run, service.generation + 1), Resume \/ LaunchNew
       PROVE  service'.run = None /\ service.run = None /\ control.run = None
  <2>1. service.run = None /\ control.run = None
    BY <1>1, <1>2, <1>13 DEF Resume, LaunchNew, LockMatchesCall, Points
  <2>2. service'.run = service.run
    BY <1>1, <1>13 DEF Resume, LaunchNew
  <2>. QED BY <2>1, <2>2
<1>14. ASSUME NEW generation, Beginning(First(Unstarted), generation) PROVE control'.run = First(Unstarted)
  BY <1>14 DEF Beginning
<1>. QED BY <1>12, <1>13, <1>14, RunsChange

\* Only these write what the panel shows.
LEMMA StatusChanges ==
  ASSUME [Next]_vars
  PROVE  \/ UNCHANGED status
         \/ Resume \/ Settle \/ Create \/ LaunchNew
         \/ \E w \in Runs : Partial(w) \/ Final(w) \/ Tick(w) \/ Report(w)
BY DEF Next, vars, Ask, CloseWindow, RequestExit, HaltRun, Delete, ControlStep, Refuse, Acquire, StopRun,
       AwaitWorker, Keep, CaptureStart, CaptureBegins, CaptureFails, WorkerStep, Supervise, ReadyTimeout,
       Deadline, EngineReady, BeginCapture, Stopped, EngineFails, Leave

\* The session shown changes when another is created, its generation when it is resumed, and its last
\* number when a text is finished.
LEMMA SessionStays ==
  ASSUME CaptionInvariant, [Next]_vars, ~Create
  PROVE  /\ status'.session = status.session
         /\ ~Resume => status'.generation = status.generation
         /\ (\A w \in Runs : ~Final(w)) => status'.final = status.final
<1>1. status \in Statuses
  BY DEF CaptionInvariant, Typed
<1>2. CASE Resume
  <2>1. \/ UNCHANGED status
        \/ status' = [status EXCEPT !.generation = service.generation + 1, !.state = "starting"]
    BY <1>2 DEF Resume
  <2>. QED BY <1>1, <1>2, <2>1 DEF Statuses
<1>3. CASE Settle
  <2>1. UNCHANGED status \/ status' = [status EXCEPT !.state = Settled, !.partial = None]
    BY <1>3 DEF Settle
  <2>. QED BY <1>1, <2>1 DEF Statuses
<1>4. CASE LaunchNew
  BY <1>1, <1>4 DEF LaunchNew, Statuses
<1>5. ASSUME NEW w \in Runs, Partial(w)
      PROVE  status'.session = status.session /\ status'.generation = status.generation /\ status'.final = status.final
  BY <1>1, <1>5 DEF Partial, Heard, Statuses
<1>6. ASSUME NEW w \in Runs, Final(w)
      PROVE  status'.session = status.session /\ status'.generation = status.generation
  <2>1. PICK n \in 1..MaxTexts : UNCHANGED status \/ status' = Saved(Text(w, n))
    BY <1>6 DEF Final
  <2>. QED BY <1>1, <2>1 DEF Saved, Statuses
<1>7. ASSUME NEW w \in Runs, Tick(w) \/ Report(w)
      PROVE  status'.session = status.session /\ status'.generation = status.generation /\ status'.final = status.final
  BY <1>1, <1>7 DEF Tick, Report, Statuses
<1>. QED BY <1>2, <1>3, <1>4, <1>5, <1>6, <1>7, StatusChanges

LEMMA Created ==
  ASSUME CaptionInvariant, Create
  PROVE  /\ First(NewSessions) \in Sessions /\ history[First(NewSessions)] = "none"
         /\ control.fn = "start" /\ control.at = "create" /\ service.run = None /\ control.run = None
         /\ UNCHANGED <<texts, service, waiting, workers, abandoned, capture, flags>>
         /\ \/ /\ UNCHANGED status /\ control' = Idle
            \/ /\ status' = [session |-> First(NewSessions), state |-> "starting", generation |-> 0,
                             final |-> 0, heard |-> 0, partial |-> None]
               /\ control' = [control EXCEPT !.at = "launch"]
               /\ history' = [history EXCEPT ![First(NewSessions)] = "starting"]
<1>1. NeedSession # {}
  BY DEF Create, NeedSession, Holding, CaptionInvariant, LockMatchesCall
<1>2. First(NewSessions) \in NewSessions
  BY <1>1, SessionIsLeft DEF CaptionInvariant
<1>3. control.fn = "start" /\ control.at = "create" /\ service.run = None /\ control.run = None
  BY DEF Create, CaptionInvariant, LockMatchesCall
<1>. QED BY <1>2, <1>3 DEF Create, NewSessions, Release, Go

-----------------------------------------------------------------------------
(* Runs begin and end in order. *)

\* Runs begin in the order of their numbers, a later one of a session with a later generation.
LEMMA OrderStep ==
  ASSUME CaptionInvariant, [Next]_vars PROVE RunsInOrder'
<1>1. Typed /\ LockMatchesCall /\ RunsInOrder /\ SessionsBegin
  BY DEF CaptionInvariant
<1>2. /\ workers \in [Runs -> Workers] /\ status.session \in Sessions \cup {None}
      /\ service.run \in Runs \cup {None} /\ control.run \in Runs \cup {None}
      /\ \A w \in Runs : workers[w].generation \in Nat /\ workers[w].session \in Sessions \cup {None}
  BY <1>1 DEF Typed, Statuses, Workers
<1>3. Runs \subseteq Nat /\ None \notin Sessions
  BY CaptionAssumption DEF Runs, Sessions
<1>4. status.session # None => status'.session # None
  BY <1>3, Created, SessionStays
<1>5. /\ service.generation \in Nat /\ service'.generation \in Nat
      /\ service.generation <= service'.generation
      /\ Resume => service'.generation = service.generation + 1
  BY GenerationGrows
<1>6. \A w \in {service'.run, control'.run} \ {None} :
        \/ w \in {service.run, control.run}
        \/ Beginning(w, service.generation + 1) \/ Beginning(w, 0)
  BY HandsChange
<1>7. abandoned \subseteq Runs /\ abandoned' \subseteq abandoned \cup ({control.run} \ {None})
  BY <1>1, HandsChange DEF Typed
<1>8. CASE Continuing
  <2>1. \A w \in Runs : Used(w)' => /\ workers'[w].session # None /\ status'.session # None
                                    /\ history'[workers'[w].session] # "none"
    BY <1>1, <1>2, <1>4, <1>8, HistoryKeeps DEF Continuing, RunsInOrder
  <2>2. \A w \in ({service'.run, control'.run} \ {None}) \cup abandoned' : Used(w)'
    <3>1. ASSUME NEW w, Beginning(w, service.generation + 1) \/ Beginning(w, 0)
          PROVE  w \in Runs /\ workers'[w].at = "loop"
      <4>1. PICK k : w \in Runs /\ workers' = [workers EXCEPT ![w] = [Unused EXCEPT !.at = "loop",
                                               !.session = status.session, !.generation = k]]
        BY <3>1 DEF Beginning
      <4>. QED BY <1>2, <4>1 DEF Unused
    <3>. QED BY <1>1, <1>2, <1>6, <1>8, <1>7, <3>1 DEF Continuing, RunsInOrder, Used
  <2>3. \A v, w \in Runs : Used(v)' /\ ~Used(w)' => v < w
    BY <1>1, <1>8 DEF Continuing, RunsInOrder
  <2>4. \A w \in Runs : Alive(w)' => workers'[w].generation <= service'.generation
    BY <1>1, <1>2, <1>5, <1>8 DEF Continuing, RunsInOrder
  <2>5. \A v, w \in Runs : Alive(v)' /\ Alive(w)' /\ v < w /\ workers'[v].session = workers'[w].session =>
          workers'[v].generation < workers'[w].generation
    BY <1>1, <1>8 DEF Continuing, RunsInOrder
  <2>. QED BY <2>1, <2>2, <2>3, <2>4, <2>5 DEF RunsInOrder
<1>9. ASSUME NEW u, NEW generation, Beginning(u, generation), generation <= service'.generation,
             \A v \in Runs : Alive(v) /\ workers[v].session = status.session => workers[v].generation < generation
      PROVE  RunsInOrder'
  <2>1. /\ u \in Runs /\ ~Used(u) /\ \A v \in Runs : ~Used(v) => u <= v
        /\ status.session \in Sessions /\ generation \in Nat /\ status.session # None
        /\ workers'[u].at = "loop" /\ workers'[u].session = status.session /\ workers'[u].generation = generation
        /\ \A v \in Runs \ {u} : workers'[v] = workers[v]
    BY <1>2, <1>3, <1>9 DEF Beginning, Unused
  <2>2. \A v \in Runs : /\ Used(v)' <=> v = u \/ Used(v)
                        /\ Alive(v)' <=> v = u \/ Alive(v)
    BY <2>1 DEF Used, Alive
  <2>3. \A w \in Runs : Used(w)' => /\ workers'[w].session # None /\ status'.session # None
                                    /\ history'[workers'[w].session] # "none"
    <3>1. history'[status.session] # "none"
      BY <1>1, <2>1, HistoryKeeps DEF SessionsBegin
    <3>2. \A w \in Runs \ {u} : Used(w) => history'[workers[w].session] # "none" /\ workers[w].session # None
      BY <1>1, <1>2, HistoryKeeps DEF RunsInOrder
    <3>. QED BY <1>4, <2>1, <2>2, <3>1, <3>2
  <2>4. \A w \in ({service'.run, control'.run} \ {None}) \cup abandoned' : Used(w)'
    <3>1. ASSUME NEW w, Beginning(w, service.generation + 1) \/ Beginning(w, 0)
          PROVE  w \in Runs /\ workers'[w].at = "loop"
      <4>1. PICK k : w \in Runs /\ workers' = [workers EXCEPT ![w] = [Unused EXCEPT !.at = "loop",
                                               !.session = status.session, !.generation = k]]
        BY <3>1 DEF Beginning
      <4>. QED BY <1>2, <4>1 DEF Unused
    <3>. QED BY <1>1, <1>2, <1>6, <1>7, <2>2, <3>1 DEF RunsInOrder, Used
  <2>5. \A v, w \in Runs : Used(v)' /\ ~Used(w)' => v < w
    BY <1>1, <1>3, <2>1, <2>2 DEF RunsInOrder
  <2>6. \A w \in Runs : Alive(w)' => workers'[w].generation <= service'.generation
    BY <1>1, <1>2, <1>5, <1>9, <2>1, <2>2 DEF RunsInOrder
  <2>7. \A v, w \in Runs : Alive(v)' /\ Alive(w)' /\ v < w /\ workers'[v].session = workers'[w].session =>
          workers'[v].generation < workers'[w].generation
    <3>1. SUFFICES ASSUME NEW v \in Runs, NEW w \in Runs, Alive(v)', Alive(w)', v < w,
                          workers'[v].session = workers'[w].session
                   PROVE  workers'[v].generation < workers'[w].generation
      OBVIOUS
    <3>2. CASE w = u
      BY <1>3, <1>9, <2>1, <2>2, <3>1, <3>2
    <3>3. CASE v = u
      <4>1. v \in Nat /\ w \in Nat /\ ~(w < v) /\ w # u
        BY <1>3, <3>1, <3>3
      <4>2. Used(w) /\ ~Used(v)
        BY <2>1, <2>2, <3>1, <3>3, <4>1 DEF Alive, Used
      <4>3. w < v
        BY <1>1, <4>2 DEF RunsInOrder
      <4>. QED BY <4>1, <4>3
    <3>4. CASE v # u /\ w # u
      BY <1>1, <2>1, <2>2, <3>1, <3>4 DEF RunsInOrder
    <3>. QED BY <3>2, <3>3, <3>4
  <2>. QED BY <2>3, <2>4, <2>5, <2>6, <2>7 DEF RunsInOrder
<1>10. CASE Resume /\ Beginning(First(Unstarted), service.generation + 1)
  BY <1>1, <1>2, <1>5, <1>9, <1>10 DEF RunsInOrder
<1>11. CASE LaunchNew /\ Beginning(First(Unstarted), 0)
  <2>1. \A v \in Runs : Used(v) => workers[v].session # status.session
    BY <1>1, <1>11 DEF LaunchNew, SessionsBegin
  <2>. QED BY <1>5, <1>9, <1>11, <2>1 DEF Alive, Used
<1>. QED BY <1>8, <1>10, <1>11, RunsChange

\* Whatever runs stays in hand until it is done or given up.
LEMMA NoneForgottenStep ==
  ASSUME CaptionInvariant, [Next]_vars PROVE NoneForgotten'
<1>1. \A w \in Runs : Alive(w) => w \in {service.run, control.run} \cup abandoned
  BY DEF CaptionInvariant, NoneForgotten, InHand
<1>2. \A w \in Runs : w # None
  BY CaptionAssumption DEF Runs
<1>3. \A w \in Runs : Alive(w) => w \in {service'.run, control'.run} \cup abandoned'
  BY <1>1, <1>2, HandsChange DEF Alive
<1>4. CASE Continuing
  BY <1>2, <1>3, <1>4 DEF Continuing, NoneForgotten, InHand
<1>5. ASSUME NEW u, NEW generation, Beginning(u, generation) PROVE NoneForgotten'
  <2>1. \A v \in Runs \ {u} : workers'[v] = workers[v]
    BY <1>5 DEF Beginning, CaptionInvariant, Typed
  <2>2. control'.run = u
    BY <1>5 DEF Beginning
  <2>. QED BY <1>2, <1>3, <2>1, <2>2 DEF NoneForgotten, InHand, Alive
<1>. QED BY <1>4, <1>5, RunsChange

\* A failure that was reported by a run nobody waits for stays reported.
LEMMA FailureStays ==
  ASSUME CaptionInvariant, [Next]_vars, StrayFailure PROVE StrayFailure'
<1>1. PICK w \in abandoned : workers[w].at = "done" /\ workers[w].failed
  BY DEF StrayFailure
<1>2. w \in Runs /\ w \in abandoned'
  BY <1>1, HandsChange DEF CaptionInvariant, Typed
<1>3. CASE Continuing
  BY <1>1, <1>2, <1>3 DEF Continuing, StrayFailure, Used, Alive
<1>4. ASSUME NEW u, NEW generation, Beginning(u, generation) PROVE StrayFailure'
  <2>1. workers'[w] = workers[w]
    BY <1>1, <1>2, <1>4 DEF Beginning, Used, CaptionInvariant, Typed
  <2>. QED BY <1>1, <1>2, <2>1 DEF StrayFailure
<1>. QED BY <1>3, <1>4, RunsChange

\* A capture is that of a run whose supervisor has not ended it.
LEMMA CaptureStep ==
  ASSUME CaptionInvariant, [Next]_vars PROVE CaptureIsSupervised'
<1>. DEFINE Living == {"loop", "begin", "tick", "ended"}
<1>1. /\ Typed /\ \A w \in {capture.queued, capture.by} \ {None} : workers[w].at \in Living
      /\ workers \in [Runs -> Workers]
      /\ capture \in [queued : Runs \cup {None}, by : Runs \cup {None}, on : BOOLEAN,
                      sender : Runs \cup {None}]
      /\ {capture.queued, capture.by} \subseteq Runs \cup {None}
  BY DEF CaptionInvariant, Typed, CaptureIsSupervised
<1>2. ASSUME {capture'.queued, capture'.by} \subseteq {capture.queued, capture.by, None},
             \A w \in Runs : workers'[w].at \in {workers[w].at, "loop"}
      PROVE  CaptureIsSupervised'
  BY <1>1, <1>2 DEF CaptureIsSupervised
<1>3. ASSUME workers' = Cancelled(service.run) PROVE \A w \in Runs : workers'[w].at = workers[w].at
  BY <1>1, <1>3 DEF Cancelled, Workers
<1>4. ASSUME NEW w \in Runs, NEW s, NEW generation, Launch(w, s, generation)
      PROVE  /\ {capture'.queued, capture'.by} \subseteq {capture.queued, capture.by}
             /\ \A v \in Runs : workers'[v].at \in {workers[v].at, "loop"}
  BY <1>1, <1>4 DEF Launch, Unused
<1>5. CASE Resume \/ LaunchNew
  <2>1. NeedRun # {}
    BY <1>5 DEF Resume, LaunchNew, NeedRun, Holding, CaptionInvariant, LockMatchesCall
  <2>2. First(Unstarted) \in Runs
    BY <2>1, RunIsLeft DEF CaptionInvariant, Unstarted
  <2>3. \/ UNCHANGED <<workers, capture>>
        \/ \E s, generation : Launch(First(Unstarted), s, generation)
    BY <1>5 DEF Resume, LaunchNew
  <2>. QED BY <1>2, <1>4, <2>2, <2>3
<1>6. CASE HaltRun \/ StopRun
  <2>1. capture' = capture /\ workers' = Cancelled(service.run)
    BY <1>6 DEF HaltRun, StopRun
  <2>. QED BY <1>2, <1>3, <2>1
<1>7. CASE CloseWindow \/ RequestExit
  <2>1. workers' = workers /\ capture' = [Off EXCEPT !.queued = capture.queued]
    BY <1>7 DEF CloseWindow, RequestExit, Halt
  <2>2. {capture'.queued, capture'.by} \subseteq {capture.queued, None}
    BY <2>1 DEF Off
  <2>. QED BY <1>2, <2>1, <2>2
<1>8. ASSUME NEW fn \in Fns, Acquire(fn) PROVE CaptureIsSupervised'
  <2>1. workers' = workers /\ capture' = Off
    BY <1>8 DEF Acquire
  <2>. QED BY <1>2, <2>1 DEF Off
<1>9. CASE CaptureStart \/ CaptureBegins \/ CaptureFails
  <2>1. workers' = workers
    BY <1>9 DEF CaptureStart, CaptureBegins, CaptureFails
  <2>2. {capture'.queued, capture'.by} \subseteq {capture.queued, capture.by, None}
    BY <1>1, <1>9 DEF CaptureStart, CaptureBegins, CaptureFails
  <2>. QED BY <1>2, <2>1, <2>2
<1>10. ASSUME NEW w \in Runs, WorkerStep(w) PROVE CaptureIsSupervised'
  <2>1. \A v \in Runs \ {w} : workers'[v] = workers[v]
    BY <1>1, <1>10, WorkerContinues
  <2>2. ASSUME workers'[w].at \in Living, {capture'.queued, capture'.by} \subseteq {capture.queued, capture.by, w, None}
        PROVE  CaptureIsSupervised'
    BY <1>1, <2>1, <2>2 DEF CaptureIsSupervised
  <2>3. CASE BeginCapture(w)
    <3>1. capture' = [capture EXCEPT !.queued = w]
      BY <2>3 DEF BeginCapture
    <3>2. {capture'.queued, capture'.by} \subseteq {capture.queued, capture.by, w, None}
      BY <1>1, <3>1
    <3>3. workers'[w].at \in Living
      BY <1>1, <2>3 DEF BeginCapture, Worker, Onward, Workers
    <3>. QED BY <2>2, <3>2, <3>3
  <2>4. CASE Leave(w) \/ Report(w)
    BY <2>4 DEF Leave, Report, Off, CaptureIsSupervised
  <2>5. CASE ~(BeginCapture(w) \/ Leave(w) \/ Report(w))
    <3>1. workers'[w].at \in Living
      BY <1>1, <1>10, <2>5, WorkerContinues
    <3>2. capture' = capture \/ capture' = Off
      BY <1>10, <2>5 DEF WorkerStep, Supervise, ReadyTimeout, Deadline, EngineReady, Partial, Final, Stopped,
                         EngineFails, Tick
    <3>. QED BY <2>2, <3>1, <3>2 DEF Off
  <2>. QED BY <2>3, <2>4, <2>5
<1>11. CASE UNCHANGED <<workers, capture>>
  BY <1>2, <1>11
<1>. QED
  BY <1>5, <1>6, <1>7, <1>8, <1>9, <1>10, <1>11
  DEF Next, vars, Fns, Ask, Delete, ControlStep, Refuse, AwaitWorker, Settle, Create, Keep

-----------------------------------------------------------------------------
(* What the panel shows. *)

\* A final text is saved after all the others of the session, or changes nothing.
LEMMA FinalSaves ==
  ASSUME CaptionInvariant, NEW w \in Runs, Final(w)
  PROVE  \E n \in 1..MaxTexts :
           LET text == Text(w, n)
               fresh == Current(w, text) /\ text.sequence > status.final
           IN
           /\ Speaking(w) /\ \A m \in workers[w].finals : m < n
           /\ workers'[w].finals = workers[w].finals \cup {n}
           /\ UNCHANGED history
           /\ \/ UNCHANGED <<status, texts>> /\ (fresh => workers'[w].failed)
              \/ fresh /\ texts' = Appended(status.session, text) /\ status' = Saved(text)
<1>1. workers \in [Runs -> Workers]
  BY DEF CaptionInvariant, Typed
<1>2. PICK n \in 1..MaxTexts :
        LET text == Text(w, n)
            spoken == [workers[w] EXCEPT !.at = Onward, !.finals = @ \cup {n}]
            fresh == Current(w, text) /\ text.sequence > status.final
        IN
        /\ Speaking(w) /\ \A m \in workers[w].finals : m < n
        /\ UNCHANGED history
        /\ \/ UNCHANGED <<status, texts>> /\ ~fresh /\ Worker(w, spoken)
           \/ fresh /\ texts' = Appended(status.session, text) /\ status' = Saved(text) /\ Worker(w, spoken)
           \/ UNCHANGED <<status, texts>> /\ fresh /\ Worker(w, [spoken EXCEPT !.failed = TRUE, !.cancel = TRUE])
  BY <1>1 DEF Final
<1>. DEFINE spoken == [workers[w] EXCEPT !.at = Onward, !.finals = @ \cup {n}]
<1>3. ASSUME Worker(w, spoken) PROVE workers'[w].finals = workers[w].finals \cup {n}
  BY <1>1, <1>3 DEF Worker, Workers
<1>4. ASSUME Worker(w, [spoken EXCEPT !.failed = TRUE, !.cancel = TRUE])
      PROVE  workers'[w].finals = workers[w].finals \cup {n} /\ workers'[w].failed
  BY <1>1, <1>4 DEF Worker, Workers
<1>. HIDE DEF spoken
<1>. QED BY <1>2, <1>3, <1>4 DEF spoken

\* At most one run is in hand, and none while a call settles, creates or launches.
LEMMA HandIsOne ==
  ASSUME CaptionInvariant
  PROVE  /\ \A v, w \in InHand : v = w
         /\ Resume \/ Settle \/ Create \/ LaunchNew => InHand = {}
<1>1. LockMatchesCall /\ None \notin Points
  BY CaptionAssumption DEF CaptionInvariant, Points
<1>2. control.run # None => service.run = None
  BY <1>1 DEF LockMatchesCall
<1>3. Resume \/ Settle \/ Create \/ LaunchNew => service.run = None /\ control.run = None
  BY <1>1 DEF LockMatchesCall, Points, Resume, Settle, Create, LaunchNew
<1>. QED BY <1>2, <1>3 DEF InHand

\* The panel says that a session goes on until its stop or the failure of its run, or a stray one.
LEMMA ShowingStays ==
  ASSUME CaptionInvariant, [Next]_vars, Showing
  PROVE  \/ Showing' \/ \E w \in InHand : Report(w) /\ workers[w].failed
         \/ Settle /\ status'.partial = None
         \/ LaunchNew /\ status' = [status EXCEPT !.state = "failed"]
<1>1. status \in Statuses /\ workers \in [Runs -> Workers]
  BY DEF CaptionInvariant, Typed
<1>2. CASE StrayFailure
  BY <1>2, FailureStays DEF Showing
<1>3. CASE status'.state = status.state
  BY <1>3, FailureStays DEF Showing
<1>4. CASE Resume
  <2>1. UNCHANGED status \/ status' = [status EXCEPT !.generation = service.generation + 1, !.state = "starting"]
    BY <1>4 DEF Resume
  <2>. QED BY <1>1, <1>3, <2>1 DEF Showing, Statuses
<1>5. CASE Settle
  <2>1. UNCHANGED status \/ status' = [status EXCEPT !.state = Settled, !.partial = None]
    BY <1>5 DEF Settle
  <2>. QED BY <1>1, <1>3, <1>5, <2>1 DEF Statuses
<1>6. CASE Create
  <2>1. UNCHANGED status \/ status'.state = "starting"
    BY <1>6 DEF Create
  <2>. QED BY <1>3, <2>1 DEF Showing
<1>7. CASE LaunchNew
  BY <1>3, <1>7 DEF LaunchNew
<1>8. ASSUME NEW w \in Runs, Partial(w) PROVE status'.state = status.state
  BY <1>1, <1>8 DEF Partial, Heard, Statuses
<1>9. ASSUME NEW w \in Runs, Final(w) PROVE status'.state = status.state
  <2>1. \E n \in 1..MaxTexts : UNCHANGED status \/ status' = Saved(Text(w, n))
    BY <1>9 DEF Final
  <2>. QED BY <1>1, <2>1 DEF Saved, Statuses
<1>10. ASSUME NEW w \in Runs, Tick(w) PROVE status'.state = status.state \/ status'.state = "capturing"
  BY <1>1, <1>10 DEF Tick, Statuses
<1>11. ASSUME NEW w \in Runs, Report(w)
       PROVE  status'.state = status.state \/ Showing' \/ (w \in InHand /\ workers[w].failed)
  <2>1. CASE ~workers[w].failed
    BY <1>11, <2>1 DEF Report
  <2>2. CASE workers[w].failed /\ w \notin InHand
    <3>1. w \in abandoned'
      <4>1. Alive(w)
        BY <1>11 DEF Report, In, Alive
      <4>2. w \in abandoned
        BY <2>2, <4>1 DEF CaptionInvariant, NoneForgotten
      <4>. QED BY <4>2, HandsChange
    <3>2. workers'[w].at = "done" /\ workers'[w].failed
      BY <1>1, <1>11, <2>2 DEF Report, Worker, Workers
    <3>. QED BY <3>1, <3>2 DEF Showing, StrayFailure
  <2>. QED BY <2>1, <2>2
<1>. QED BY <1>3, <1>4, <1>5, <1>6, <1>7, <1>8, <1>9, <1>10, <1>11, StatusChanges DEF Showing

\* A launch is only reached by the start that created its session.
LEMMA LaunchFollows ==
  ASSUME CaptionInvariant, [Next]_vars, control'.at = "launch"
  PROVE  Create \/ (UNCHANGED control /\ Continuing /\ InHand = {} /\ ~Resume /\ ~Settle /\ ~LaunchNew)
<1>1. control \in [fn : Fns \cup {None}, at : Points \cup {None}, run : Runs \cup {None}]
  BY DEF CaptionInvariant, Typed
<1>2. LockMatchesCall /\ None \notin Points
  BY CaptionAssumption DEF CaptionInvariant, Points
<1>3. CASE UNCHANGED control
  <2>1. control.at = "launch" /\ control.fn = "start" /\ service.run = None /\ control.run = None /\ control.fn # None
    BY <1>2, <1>3 DEF LockMatchesCall, Points
  <2>2. ~Resume /\ ~Settle
    BY <2>1 DEF Resume, Settle
  <2>3. ~LaunchNew
    <3>1. SUFFICES ASSUME LaunchNew PROVE FALSE
      OBVIOUS
    <3>2. control' = Idle \/ control' = [control EXCEPT !.at = "keep", !.run = First(Unstarted)]
      BY <3>1 DEF LaunchNew, Release
    <3>3. control'.at = None \/ control'.at = "keep"
      <4>1. CASE control' = Idle
        BY <4>1 DEF Idle
      <4>2. CASE control' = [control EXCEPT !.at = "keep", !.run = First(Unstarted)]
        BY <1>1, <4>2
      <4>. QED BY <3>2, <4>1, <4>2
    <3>. QED BY <1>2, <1>3, <2>1, <3>3 DEF Points
  <2>. QED BY <1>3, <2>1, <2>2, <2>3, RunsChange DEF InHand
<1>4. ASSUME NEW w \in Runs, WorkerStep(w) PROVE UNCHANGED control
  BY <1>4, WorkerContinues DEF CaptionInvariant
<1>5. ~(StopRun \/ AwaitWorker)
  <2>1. ~StopRun
    BY <1>1 DEF StopRun
  <2>2. ~AwaitWorker
    BY <1>1 DEF AwaitWorker
  <2>. QED BY <2>1, <2>2
<1>6. Idle.at # "launch" /\ Idle.at = None
  BY <1>2 DEF Idle, Points
<1>7. CASE Resume
  BY <1>3, <1>7 DEF Resume
<1>8. CASE Settle
  <2>1. control' = Idle \/ control' = [control EXCEPT !.at = "create"]
    BY <1>8 DEF Settle, Release, Go
  <2>. QED BY <1>1, <1>6, <2>1
<1>9. CASE LaunchNew
  <2>1. control' = Idle \/ control' = [control EXCEPT !.at = "keep", !.run = First(Unstarted)]
    BY <1>9 DEF LaunchNew, Release
  <2>. QED BY <1>1, <1>6, <2>1
<1>10. ASSUME NEW fn, Acquire(fn) PROVE FALSE
  BY <1>10 DEF Acquire
<1>. QED
  BY <1>3, <1>4, <1>5, <1>6, <1>7, <1>8, <1>9, <1>10
  DEF Next, vars, Ask, CloseWindow, RequestExit, HaltRun, Delete, ControlStep, Refuse, Keep, Release,
      CaptureStart, CaptureBegins, CaptureFails

\* A session begins without texts and runs.
LEMMA SessionsStep ==
  ASSUME CaptionInvariant, [Next]_vars PROVE SessionsBegin'
<1>1. Typed /\ RunsInOrder /\ SessionsBegin /\ status \in Statuses
      /\ texts \in [Sessions -> Seq(Texts)] /\ status.session \in Sessions \cup {None}
      /\ workers \in [Runs -> Workers]
      /\ history \in [Sessions -> Active \cup {"none", "stopped", "failed", "deleted"}]
      /\ control \in [fn : Fns \cup {None}, at : Points \cup {None}, run : Runs \cup {None}]
  BY DEF CaptionInvariant, Typed, Statuses
<1>2. None \notin Sessions
  BY CaptionAssumption DEF Sessions
<1>3. ASSUME NEW s \in Sessions, history'[s] = "none" PROVE texts'[s] = <<>>
  <2>1. texts[s] = <<>> /\ history[s] = "none"
    BY <1>1, <1>3, HistoryKeeps DEF SessionsBegin
  <2>2. ASSUME NEW t \in Sessions, Delete(t) PROVE texts'[s] = <<>>
    BY <1>1, <2>1, <2>2 DEF Delete
  <2>3. ASSUME NEW w \in Runs, Final(w) PROVE texts'[s] = <<>>
    <3>1. PICK n \in 1..MaxTexts :
            \/ texts' = texts
            \/ texts' = Appended(status.session, Text(w, n))
      BY <2>3, FinalSaves
    <3>2. status.session \in Sessions /\ status.session # s
      <4>1. Used(w)
        BY <2>3 DEF Final, Speaking, In, Used
      <4>. QED BY <1>1, <2>1, <4>1 DEF RunsInOrder, SessionsBegin
    <3>. QED BY <1>1, <2>1, <3>1, <3>2 DEF Appended
  <2>. QED
    BY <2>1, <2>2, <2>3
    DEF Next, vars, Ask, CloseWindow, RequestExit, HaltRun, ControlStep, Refuse, Acquire, StopRun, Resume,
        AwaitWorker, Keep, Settle, Create, LaunchNew, CaptureStart, CaptureBegins, CaptureFails, WorkerStep,
        Supervise, ReadyTimeout, Deadline, EngineReady, BeginCapture, Partial, Stopped, EngineFails, Tick,
        Leave, Report
<1>4. CASE Create
  <2>1. /\ First(NewSessions) \in Sessions /\ history[First(NewSessions)] = "none"
        /\ UNCHANGED <<workers, abandoned>>
    BY <1>4, Created
  <2>2. CASE UNCHANGED status /\ control' = Idle
    <3>1. control'.at # "launch"
      BY <2>2, CaptionAssumption DEF Idle
    <3>2. status.session # None => history'[status.session] # "none"
      BY <1>1, HistoryKeeps DEF SessionsBegin
    <3>. QED BY <1>1, <1>3, <2>2, <3>1, <3>2 DEF SessionsBegin
  <2>3. CASE /\ status' = [session |-> First(NewSessions), state |-> "starting", generation |-> 0,
                           final |-> 0, heard |-> 0, partial |-> None]
             /\ history' = [history EXCEPT ![First(NewSessions)] = "starting"]
    <3>1. /\ status'.session = First(NewSessions) /\ status'.state = "starting" /\ status'.generation = 0
          /\ status'.final = 0 /\ history'[status'.session] = "starting" /\ status'.session # None
      BY <1>1, <1>2, <2>1, <2>3
    <3>2. \A w \in Runs : Used(w)' => workers'[w].session # status'.session
      <4>1. \A w \in Runs : Used(w)' <=> Used(w)
        BY <2>1 DEF Used
      <4>. QED BY <1>1, <2>1, <3>1, <4>1 DEF RunsInOrder
    <3>3. Showing'
      BY <3>1 DEF Showing
    <3>. QED BY <1>3, <3>1, <3>2, <3>3 DEF SessionsBegin
  <2>. QED BY <1>4, <2>2, <2>3, Created
<1>5. CASE ~Create
  <2>1. status'.session = status.session
    BY <1>5, SessionStays
  <2>2. status'.session # None => history'[status'.session] # "none"
    BY <1>1, <2>1, HistoryKeeps DEF SessionsBegin
  <2>3. ASSUME status.session = None PROVE status'.state = ""
    <3>1. status.state = "" /\ \A w \in Runs : ~Used(w)
      BY <1>1, <2>3 DEF SessionsBegin, RunsInOrder
    <3>2. ~Resume /\ ~LaunchNew
      BY <1>1, <2>3, <3>1 DEF Resume, LaunchNew, SessionsBegin
    <3>3. Settle => UNCHANGED status
      BY <2>3 DEF Settle
    <3>4. \A w \in Runs : ~WorkerStep(w)
      BY <1>1, <3>1, WorkerContinues DEF Alive, Used
    <3>5. \A w \in Runs : ~(Partial(w) \/ Final(w) \/ Tick(w) \/ Report(w))
      BY <3>4 DEF WorkerStep
    <3>. QED BY <1>5, <3>1, <3>2, <3>3, <3>5, StatusChanges
  <2>4. ASSUME control'.at = "launch"
        PROVE  /\ status'.session # None /\ status'.generation = 0 /\ status'.final = 0
               /\ \A w \in Runs : Used(w)' => workers'[w].session # status'.session
               /\ Showing'
    <3>1. control.at = "launch" /\ Continuing /\ InHand = {} /\ ~Resume /\ ~Settle /\ ~LaunchNew
      BY <1>5, <2>4, LaunchFollows
    <3>2. /\ status.session # None /\ status.generation = 0 /\ status.final = 0
          /\ \A w \in Runs : Used(w) => workers[w].session # status.session
          /\ Showing
      BY <1>1, <3>1 DEF SessionsBegin
    <3>3. status'.generation = 0
      BY <1>5, <3>1, <3>2, SessionStays
    <3>4. status'.final = 0
      <4>1. ASSUME NEW w \in Runs, Final(w) PROVE status' = status
        <5>1. Used(w)
          BY <4>1 DEF Final, Speaking, In, Used
        <5>2. \A n \in 1..MaxTexts : ~Current(w, Text(w, n))
          BY <3>2, <5>1 DEF Current
        <5>. QED BY <4>1, <5>2, FinalSaves
      <4>. QED BY <1>5, <3>2, <4>1, SessionStays
    <3>5. Showing'
      BY <3>1, <3>2, ShowingStays
    <3>6. \A w \in Runs : Used(w)' => workers'[w].session # status'.session
      BY <2>1, <3>1, <3>2 DEF Continuing
    <3>. QED BY <2>1, <3>2, <3>3, <3>4, <3>5, <3>6
  <2>. QED BY <1>3, <2>1, <2>2, <2>3, <2>4 DEF SessionsBegin
<1>. QED BY <1>4, <1>5

\* What the panel shows is the run in hand.
LEMMA HandStep ==
  ASSUME CaptionInvariant, [Next]_vars PROVE HandIsShown'
<1>1. Typed /\ RunsInOrder /\ HandIsShown /\ TextsAreNumbered /\ status \in Statuses
      /\ workers \in [Runs -> Workers] /\ Runs \subseteq Nat
      /\ \A w \in Runs : workers[w].generation \in Nat /\ workers[w].finals \subseteq 1..MaxTexts
  <2>1. Runs \subseteq Nat
    BY CaptionAssumption DEF Runs
  <2>2. Typed /\ RunsInOrder /\ HandIsShown /\ TextsAreNumbered
    BY DEF CaptionInvariant
  <2>3. status \in Statuses /\ workers \in [Runs -> Workers]
    BY <2>2 DEF Typed
  <2>. QED BY <2>1, <2>2, <2>3 DEF Workers
<1>2. MaxTexts \in Nat /\ MaxTexts > 0
  BY CaptionAssumption
<1>3. ASSUME NEW generation, Beginning(First(Unstarted), generation), Resume \/ LaunchNew,
             status'.session = status.session, status'.generation = generation,
             status'.final < Number(generation, 1), status'.state \in {"starting", "capturing"} \/ Showing'
      PROVE  HandIsShown'
  <2>1. control'.run = First(Unstarted)
    BY <1>3 DEF Beginning
  <2>2. /\ workers'[First(Unstarted)].session = status.session
        /\ workers'[First(Unstarted)].generation = generation
    BY <1>1, <1>3 DEF Beginning, Unused
  <2>3. \A w \in InHand' : w = First(Unstarted)
    <3>1. {service.run, control.run} \ ({None} \cup abandoned) = {} /\ abandoned \subseteq abandoned'
      BY <1>3, HandIsOne, HandsChange DEF InHand
    <3>2. CASE \A w \in {service'.run, control'.run} \ {None} : w \in {service.run, control.run}
      BY <3>1, <3>2 DEF InHand
    <3>3. CASE service'.run = None
      BY <2>1, <3>3 DEF InHand
    <3>. QED BY <3>2, <3>3, HandsChange
  <2>. QED BY <1>3, <2>2, <2>3 DEF HandIsShown, Showing
<1>4. CASE Resume /\ Beginning(First(Unstarted), service.generation + 1)
  <2>1. status' = [status EXCEPT !.generation = service.generation + 1, !.state = "starting"]
    <3>1. workers' # workers
      BY <1>1, <1>4 DEF Beginning, Unused, Used
    <3>. QED BY <1>4, <3>1 DEF Resume
  <2>2. PICK k \in 0..service.generation, m \in 0..MaxTexts : status.final = Number(k, m)
    BY <1>1 DEF TextsAreNumbered
  <2>3. status.final < Number(service.generation + 1, 1)
    <3>1. service.generation \in Nat
      BY <1>1 DEF Typed
    <3>2. k \in Nat /\ service.generation + 1 \in Nat /\ 1 \in 0..MaxTexts /\ k < service.generation + 1
      BY <1>2, <3>1
    <3>. QED BY <2>2, <3>2, Numbers
  <2>4. /\ status'.session = status.session /\ status'.generation = service.generation + 1
        /\ status'.final = status.final /\ status'.state = "starting"
    BY <1>1, <2>1 DEF Statuses
  <2>. QED BY <1>3, <1>4, <2>3, <2>4
<1>5. CASE LaunchNew /\ Beginning(First(Unstarted), 0)
  <2>1. UNCHANGED status /\ control.at = "launch"
    <3>1. workers' # workers
      BY <1>1, <1>5 DEF Beginning, Unused, Used
    <3>. QED BY <1>5, <3>1 DEF LaunchNew
  <2>2. status.generation = 0 /\ status.final = 0 /\ Showing
    BY <2>1 DEF CaptionInvariant, SessionsBegin
  <2>3. Showing'
    BY <2>1, <2>2, FailureStays DEF Showing
  <2>4. 0 < Number(0, 1)
    <3>1. 1 \in 0..MaxTexts /\ 0 \in 0..MaxTexts
      BY <1>2
    <3>2. Number(0, 0) = 0 /\ Number(0, 0) < Number(0, 1)
      BY <3>1, Numbers
    <3>. QED BY <3>2
  <2>. QED BY <1>3, <1>5, <2>1, <2>2, <2>3, <2>4
<1>6. CASE Continuing /\ control'.run \in {control.run, service.run, None}
  <2>1. SUFFICES ASSUME NEW w \in InHand', Alive(w)'
                 PROVE  /\ workers'[w].session = status'.session /\ workers'[w].generation = status'.generation
                        /\ \/ status'.final < Number(workers'[w].generation, 1)
                           \/ \E m \in workers'[w].finals : status'.final = Number(workers'[w].generation, m)
                        /\ Showing'
    BY DEF HandIsShown
  <2>2. w \in InHand /\ w \in Runs
    <3>1. service'.run = None /\ service.run = None /\ control.run = None => control'.run = None
      BY <1>6
    <3>2. \A v \in {service'.run, control'.run} \ {None} : v \in {service.run, control.run}
      BY <3>1, HandsChange
    <3>3. w \in InHand
      BY <3>2, HandsChange DEF InHand
    <3>. QED BY <1>1, <3>3 DEF InHand, Typed
  <2>3. Alive(w) /\ workers'[w].generation = workers[w].generation /\ workers'[w].session = workers[w].session
        /\ workers[w].finals \subseteq workers'[w].finals
    BY <1>6, <2>1, <2>2 DEF Continuing
  <2>4. /\ workers[w].session = status.session /\ workers[w].generation = status.generation
        /\ \/ status.final < Number(workers[w].generation, 1)
           \/ \E m \in workers[w].finals : status.final = Number(workers[w].generation, m)
        /\ Showing
    BY <1>1, <2>2, <2>3 DEF HandIsShown
  <2>5. ~Resume /\ ~Settle /\ ~Create /\ ~LaunchNew
    BY <2>2, HandIsOne
  <2>6. status'.session = status.session /\ status'.generation = status.generation
    BY <2>5, SessionStays
  <2>7. Showing'
    <3>1. ASSUME NEW v \in InHand, Report(v) PROVE FALSE
      <4>1. v = w
        BY <2>2, HandIsOne
      <4>2. workers'[w].at = "done"
        BY <1>1, <2>2, <3>1, <4>1 DEF Report, Worker, Workers
      <4>. QED BY <2>1, <4>2 DEF Alive
    <3>. QED BY <2>4, <2>5, <3>1, ShowingStays
  <2>8. CASE status'.final = status.final
    BY <2>3, <2>4, <2>6, <2>7, <2>8
  <2>9. CASE status'.final # status.final
    <3>1. PICK v \in Runs : Final(v)
      BY <2>5, <2>9, SessionStays
    <3>2. PICK n \in 1..MaxTexts :
            /\ Speaking(v) /\ Current(v, Text(v, n)) /\ status' = Saved(Text(v, n))
            /\ workers'[v].finals = workers[v].finals \cup {n}
      BY <2>9, <3>1, FinalSaves
    <3>3. Text(v, n).sequence = Number(workers[v].generation, n)
          /\ Text(v, n).sequence \div Epoch = workers[v].generation
      <4>1. n \in 0..MaxTexts
        BY <1>2
      <4>. QED BY <1>1, <4>1, Numbers DEF Text
    <3>4. workers[v].session = status.session /\ workers[v].generation = status.generation
      BY <3>2, <3>3 DEF Current
    <3>5. v = w
      <4>1. Alive(v)
        BY <3>2 DEF Speaking, In, Alive
      <4>2. v \in Nat /\ w \in Nat /\ workers[v].generation \in Nat
        BY <1>1, <2>2
      <4>3. ~(v < w) /\ ~(w < v)
        BY <1>1, <2>2, <2>3, <2>4, <3>4, <4>1, <4>2 DEF RunsInOrder
      <4>. QED BY <4>2, <4>3
    <3>6. status'.final = Number(workers[w].generation, n) /\ n \in workers'[w].finals
      BY <1>1, <3>2, <3>3, <3>5 DEF Saved, Statuses
    <3>. QED BY <2>3, <2>4, <2>6, <2>7, <3>6
  <2>. QED BY <2>8, <2>9
<1>. QED BY <1>4, <1>5, <1>6, RunsChange

\* The text that may change follows what is saved.
LEMMA PartialStep ==
  ASSUME CaptionInvariant, [Next]_vars PROVE PartialFollows'
<1>1. Typed /\ PartialFollows /\ SessionsBegin /\ status \in Statuses /\ workers \in [Runs -> Workers]
      /\ status.final \in Nat /\ status.heard \in Nat /\ abandoned \subseteq abandoned'
  BY HandsChange DEF CaptionInvariant, Typed, Statuses
<1>2. None \notin Sessions
  BY CaptionAssumption DEF Sessions
<1>3. ASSUME status.partial # None
      PROVE  /\ status.partial.run \in Runs
             /\ workers'[status.partial.run].session = status.session
             /\ status.partial.sequence = status.heard /\ status.heard > status.final
             /\ Showing \/ status.partial.run \in abandoned
  <2>1. /\ status.partial.run \in Runs /\ workers[status.partial.run].session = status.session
        /\ status.partial.sequence = status.heard /\ status.heard > status.final
        /\ Showing \/ status.partial.run \in abandoned
    BY <1>1, <1>3 DEF PartialFollows, Statuses, Texts
  <2>2. CASE Continuing
    BY <2>1, <2>2 DEF Continuing
  <2>3. ASSUME NEW u, NEW generation, Beginning(u, generation)
        PROVE  workers'[status.partial.run].session = status.session
    <3>1. u # status.partial.run
      BY <1>1, <1>2, <2>1, <2>3 DEF Beginning, Typed, Used, Unused
    <3>. QED BY <1>1, <2>1, <2>3, <3>1 DEF Beginning
  <2>. QED BY <2>1, <2>2, <2>3, RunsChange
<1>4. ASSUME status'.partial = status.partial, status'.heard = status.heard, status'.final = status.final,
             status'.session = status.session, Showing => Showing'
      PROVE  PartialFollows'
  BY <1>1, <1>3, <1>4 DEF PartialFollows
<1>5. ASSUME status'.partial = None PROVE PartialFollows'
  BY <1>5 DEF PartialFollows
<1>6. ASSUME Showing, ~Settle, ~LaunchNew, \A w \in InHand : ~(Report(w) /\ workers[w].failed) PROVE Showing'
  BY <1>6, ShowingStays
<1>7. CASE UNCHANGED status
  BY <1>4, <1>7, FailureStays DEF Showing
<1>8. CASE Resume
  <2>1. UNCHANGED status \/ status' = [status EXCEPT !.generation = service.generation + 1, !.state = "starting"]
    BY <1>8 DEF Resume
  <2>2. CASE status' = [status EXCEPT !.generation = service.generation + 1, !.state = "starting"]
    BY <1>1, <1>4, <2>2 DEF Statuses, Showing
  <2>. QED BY <1>7, <2>1, <2>2
<1>9. CASE Settle
  <2>1. UNCHANGED status \/ status' = [status EXCEPT !.state = Settled, !.partial = None]
    BY <1>9 DEF Settle
  <2>. QED BY <1>1, <1>5, <1>7, <2>1 DEF Statuses
<1>10. CASE Create
  <2>1. UNCHANGED status \/ status'.partial = None
    BY <1>10 DEF Create
  <2>. QED BY <1>5, <1>7, <2>1
<1>11. CASE LaunchNew
  <2>1. \A w \in Runs : Used(w) => workers[w].session # status.session
    BY <1>11 DEF LaunchNew, CaptionInvariant, SessionsBegin
  <2>2. status.session # None
    BY <1>11 DEF LaunchNew, CaptionInvariant, SessionsBegin
  <2>3. status.partial = None
    <3>1. SUFFICES ASSUME status.partial # None PROVE FALSE
      OBVIOUS
    <3>2. status.partial.run \in Runs
      BY <1>1, <3>1 DEF Statuses, Texts
    <3>3. ~Used(status.partial.run)
      BY <1>1, <2>1, <3>1, <3>2 DEF PartialFollows
    <3>4. workers[status.partial.run].session = None
      BY <1>1, <3>2, <3>3 DEF Typed, Unused
    <3>. QED BY <1>1, <2>2, <3>1, <3>4 DEF PartialFollows
  <2>4. status'.partial = status.partial
    BY <1>1, <1>11 DEF LaunchNew, Statuses
  <2>. QED BY <1>5, <2>3, <2>4
<1>12. ASSUME NEW w \in Runs, Partial(w) PROVE PartialFollows'
  <2>1. PICK n \in 1..MaxTexts : Heard(w, Text(w, n))
    BY <1>12 DEF Partial
  <2>2. CASE UNCHANGED status
    BY <1>7, <2>2
  <2>3. CASE /\ Current(w, Text(w, n)) /\ Text(w, n).sequence > status.final
             /\ status' = [status EXCEPT !.heard = Text(w, n).sequence, !.partial = Text(w, n)]
    <3>1. /\ status'.partial = Text(w, n) /\ status'.heard = Text(w, n).sequence /\ status'.final = status.final
          /\ status'.session = status.session /\ status'.state = status.state
          /\ Text(w, n).run = w
      BY <1>1, <2>3 DEF Statuses, Text
    <3>2. workers'[w].session = status.session
      BY <1>1, <1>12, <2>3, WorkerContinues DEF Current, Continuing, WorkerStep
    <3>3. Showing \/ w \in abandoned
      BY <1>12 DEF CaptionInvariant, NoneForgotten, HandIsShown, Partial, Speaking, In, Alive
    <3>4. Showing' \/ w \in abandoned'
      BY <1>1, <3>1, <3>3, FailureStays DEF Showing
    <3>. QED BY <2>3, <3>1, <3>2, <3>4 DEF PartialFollows
  <2>. QED BY <2>1, <2>2, <2>3 DEF Heard
<1>13. ASSUME NEW w \in Runs, Final(w) PROVE PartialFollows'
  <2>1. PICK n \in 1..MaxTexts : UNCHANGED status \/ status' = Saved(Text(w, n))
    BY <1>13 DEF Final
  <2>2. Text(w, n).sequence \in Nat
    <3>1. n \in 0..MaxTexts /\ workers[w].generation \in Nat
      BY <1>1, CaptionAssumption DEF Workers
    <3>. QED BY <3>1, Numbers DEF Text
  <2>3. CASE status' = Saved(Text(w, n)) /\ status.heard <= Text(w, n).sequence
    BY <1>1, <1>5, <2>3 DEF Saved, Statuses
  <2>4. CASE status' = Saved(Text(w, n)) /\ ~(status.heard <= Text(w, n).sequence)
    <3>1. /\ status'.partial = status.partial /\ status'.heard = status.heard /\ status'.session = status.session
          /\ status'.final = Text(w, n).sequence /\ status'.state = status.state /\ status'.heard > status'.final
      <4>1. status' = [status EXCEPT !.final = Text(w, n).sequence, !.partial = status.partial]
        BY <2>4 DEF Saved
      <4>2. /\ status'.partial = status.partial /\ status'.heard = status.heard /\ status'.session = status.session
            /\ status'.final = Text(w, n).sequence /\ status'.state = status.state
        BY <1>1, <4>1 DEF Statuses
      <4>3. status.heard > Text(w, n).sequence
        BY <1>1, <2>2, <2>4
      <4>. QED BY <4>2, <4>3
    <3>2. Showing => Showing'
      BY <3>1, FailureStays DEF Showing
    <3>. QED BY <1>1, <1>3, <3>1, <3>2 DEF PartialFollows
  <2>. QED BY <1>7, <2>1, <2>3, <2>4
<1>14. ASSUME NEW w \in Runs, Tick(w) PROVE PartialFollows'
  BY <1>1, <1>4, <1>14, FailureStays DEF Tick, Statuses, Showing
<1>15. ASSUME NEW w \in Runs, Report(w) PROVE PartialFollows'
  BY <1>1, <1>5, <1>7, <1>15 DEF Report, Statuses
<1>. QED BY <1>7, <1>8, <1>9, <1>10, <1>11, <1>12, <1>13, <1>14, <1>15, StatusChanges

-----------------------------------------------------------------------------
(* The finished texts. *)

\* What a fresh final text of run w is, and what precedes it.
LEMMA FreshFinal ==
  ASSUME CaptionInvariant, NEW w \in Runs, NEW n \in 1..MaxTexts, Speaking(w),
         Current(w, Text(w, n)), Text(w, n).sequence > status.final
  PROVE  /\ status.session = workers[w].session /\ status.session \in Sessions
         /\ workers[w].generation = status.generation
         /\ Text(w, n).sequence = Number(workers[w].generation, n) /\ Text(w, n) \in Texts
         /\ Appended(status.session, Text(w, n)) =
              [texts EXCEPT ![status.session] = Append(@, Text(w, n))]
         /\ \A i \in DOMAIN texts[status.session] :
              \/ texts[status.session][i].run < w
              \/ texts[status.session][i].run = w /\ texts[status.session][i].n < n
<1>1. /\ Typed /\ RunsInOrder /\ TextsAreNumbered /\ Alive(w) /\ Used(w)
      /\ workers[w].generation \in Nat /\ workers[w].session \in Sessions \cup {None}
      /\ status.final \in Nat
  BY DEF CaptionInvariant, Speaking, In, Alive, Used, Typed, Workers, Statuses
<1>2. Text(w, n).sequence = Number(workers[w].generation, n)
      /\ Text(w, n).sequence \div Epoch = workers[w].generation
      /\ Text(w, n).sequence \in Nat
  <2>1. n \in 0..MaxTexts
    BY CaptionAssumption
  <2>. QED BY <1>1, <2>1, Numbers DEF Text
<1>3. status.session = workers[w].session /\ workers[w].generation = status.generation
      /\ status.session \in Sessions
  BY <1>1, <1>2 DEF Current, RunsInOrder
<1>4. Text(w, n) \in Texts
  BY <1>2 DEF Text, Texts
<1>5. ASSUME NEW i \in DOMAIN texts[status.session]
      PROVE  /\ texts[status.session][i].sequence # Text(w, n).sequence
             /\ \/ texts[status.session][i].run < w
                \/ texts[status.session][i].run = w /\ texts[status.session][i].n < n
  <2>. DEFINE t == texts[status.session][i]
  <2>1. t \in Texts
    BY <1>1, <1>3 DEF Typed
  <2>2. t.sequence \in Nat /\ t.run \in Nat /\ t.n \in 1..MaxTexts /\ w \in Nat
    BY <2>1, CaptionAssumption DEF Texts, Runs
  <2>3. t.sequence <= status.final /\ t.sequence < Text(w, n).sequence
    <3>1. t.sequence <= status.final
      BY <1>1, <1>3, CaptionAssumption DEF TextsAreNumbered, Sessions
    <3>. QED BY <1>1, <1>2, <2>2, <3>1
  <2>4. PICK k \in 0..service.generation :
          /\ t.sequence = Number(k, t.n)
          /\ \A v \in Runs : Alive(v) /\ workers[v].session = status.session =>
               \/ t.run < v /\ k < workers[v].generation
               \/ t.run = v /\ k = workers[v].generation
               \/ t.run > v /\ k > workers[v].generation
    BY <1>1, <1>3 DEF TextsAreNumbered
  <2>5. \/ t.run < w
        \/ t.run = w /\ k = workers[w].generation
        \/ k > workers[w].generation
    BY <1>1, <1>3, <2>4
  <2>6. k \in Nat /\ t.n \in 0..MaxTexts /\ n \in 0..MaxTexts
    <3>1. service.generation \in Nat
      BY <1>1 DEF Typed
    <3>. QED BY <2>2, <3>1, CaptionAssumption
  <2>7. k < workers[w].generation \/ (k = workers[w].generation /\ t.n < n)
    BY <1>1, <1>2, <2>3, <2>4, <2>6, Numbers
  <2>. QED BY <1>1, <2>2, <2>3, <2>5, <2>6, <2>7
<1>6. Appended(status.session, Text(w, n)) = [texts EXCEPT ![status.session] = Append(@, Text(w, n))]
  BY <1>5 DEF Appended
<1>. QED BY <1>2, <1>3, <1>4, <1>5, <1>6

\* Only a deletion and a final text write the texts.
LEMMA TextsChange ==
  ASSUME CaptionInvariant, [Next]_vars
  PROVE  \/ UNCHANGED texts
         \/ \E s \in Sessions : Delete(s)
         \/ \E w \in Runs : Final(w)
BY DEF Next, vars, Ask, CloseWindow, RequestExit, HaltRun, ControlStep, Refuse, Acquire, StopRun, Resume,
       AwaitWorker, Keep, Settle, Create, LaunchNew, CaptureStart, CaptureBegins, CaptureFails, WorkerStep,
       Supervise, ReadyTimeout, Deadline, EngineReady, BeginCapture, Partial, Stopped, EngineFails, Tick,
       Leave, Report

\* The run of a saved text keeps its session.
LEMMA RunsOfTexts ==
  ASSUME CaptionInvariant, [Next]_vars, NEW s \in Sessions, NEW i \in DOMAIN texts[s]
  PROVE  /\ texts[s][i] \in Texts /\ texts[s][i].run \in Runs /\ Used(texts[s][i].run)
         /\ workers[texts[s][i].run].session = s /\ workers'[texts[s][i].run].session = s
<1>1. /\ Typed /\ texts \in [Sessions -> Seq(Texts)] /\ None \notin Sessions
      /\ workers[texts[s][i].run].session = s
  BY CaptionAssumption DEF CaptionInvariant, Typed, TextsInOrder, Sessions
<1>2. texts[s][i] \in Texts
  BY <1>1
<1>3. texts[s][i].run \in Runs
  BY <1>2 DEF Texts
<1>4. Used(texts[s][i].run)
  BY <1>1, <1>3 DEF Typed, Unused
<1>5. CASE Continuing
  BY <1>1, <1>2, <1>3, <1>4, <1>5 DEF Continuing
<1>6. ASSUME NEW u, NEW generation, Beginning(u, generation)
      PROVE  workers'[texts[s][i].run].session = s
  BY <1>1, <1>3, <1>4, <1>6 DEF Beginning, Typed
<1>. QED BY <1>1, <1>2, <1>3, <1>4, <1>5, <1>6, RunsChange

\* The texts of a session stay in the order they were spoken.
LEMMA TextsOrderStep ==
  ASSUME CaptionInvariant, [Next]_vars PROVE TextsInOrder'
<1>1. TextsInOrder /\ texts \in [Sessions -> Seq(Texts)] /\ Runs \subseteq Nat
  BY CaptionAssumption DEF CaptionInvariant, Typed, Runs
<1>2. ASSUME NEW s \in Sessions, texts'[s] = texts[s]
      PROVE  \A i, j \in DOMAIN texts'[s] :
               /\ workers'[texts'[s][i].run].session = s
               /\ i < j => \/ texts'[s][i].run < texts'[s][j].run
                           \/ texts'[s][i].run = texts'[s][j].run /\ texts'[s][i].n < texts'[s][j].n
  BY <1>1, <1>2, RunsOfTexts DEF TextsInOrder
<1>3. CASE UNCHANGED texts
  BY <1>2, <1>3 DEF TextsInOrder
<1>4. ASSUME NEW t \in Sessions, Delete(t) PROVE TextsInOrder'
  <2>1. \A s \in Sessions : texts'[s] = texts[s] \/ texts'[s] = <<>>
    BY <1>1, <1>4 DEF Delete
  <2>. QED BY <1>2, <2>1 DEF TextsInOrder
<1>5. ASSUME NEW w \in Runs, Final(w) PROVE TextsInOrder'
  <2>1. PICK n \in 1..MaxTexts :
          /\ Speaking(w)
          /\ \/ UNCHANGED texts
             \/ /\ Current(w, Text(w, n)) /\ Text(w, n).sequence > status.final
                /\ texts' = Appended(status.session, Text(w, n))
    BY <1>5, FinalSaves
  <2>2. CASE UNCHANGED texts
    BY <1>3, <2>2
  <2>3. CASE /\ Current(w, Text(w, n)) /\ Text(w, n).sequence > status.final
             /\ texts' = Appended(status.session, Text(w, n))
    <3>. DEFINE s == status.session
    <3>1. /\ s = workers[w].session /\ s \in Sessions /\ Text(w, n) \in Texts
          /\ texts' = [texts EXCEPT ![s] = Append(texts[s], Text(w, n))]
          /\ \A i \in DOMAIN texts[s] : \/ texts[s][i].run < w
                                        \/ texts[s][i].run = w /\ texts[s][i].n < n
      BY <2>1, <2>3, FreshFinal
    <3>. HIDE DEF s
    <3>2. \A r \in Sessions \ {s} : texts'[r] = texts[r]
      BY <1>1, <3>1
    <3>3. texts'[s] = Append(texts[s], Text(w, n)) /\ texts[s] \in Seq(Texts)
      BY <1>1, <3>1
    <3>4. /\ Len(texts[s]) \in Nat /\ DOMAIN texts[s] = 1..Len(texts[s])
          /\ DOMAIN texts'[s] = 1..(Len(texts[s]) + 1)
          /\ texts'[s][Len(texts[s]) + 1] = Text(w, n)
          /\ \A i \in 1..Len(texts[s]) : texts'[s][i] = texts[s][i]
      BY <3>1, <3>3
    <3>5. Text(w, n).run = w /\ Text(w, n).n = n
      BY DEF Text
    <3>6. workers'[w].session = s
      BY <1>5, <3>1, WorkerContinues DEF CaptionInvariant, Continuing, WorkerStep
    <3>7. ASSUME NEW i \in DOMAIN texts'[s], NEW j \in DOMAIN texts'[s]
          PROVE  /\ workers'[texts'[s][i].run].session = s
                 /\ i < j => \/ texts'[s][i].run < texts'[s][j].run
                             \/ texts'[s][i].run = texts'[s][j].run /\ texts'[s][i].n < texts'[s][j].n
      <4>1. workers'[texts'[s][i].run].session = s
        <5>1. CASE i \in DOMAIN texts[s]
          BY <3>1, <3>4, <5>1, RunsOfTexts
        <5>2. CASE i = Len(texts[s]) + 1
          BY <3>4, <3>5, <3>6, <5>2
        <5>. QED BY <3>4, <5>1, <5>2
      <4>2. ASSUME i < j
            PROVE  \/ texts'[s][i].run < texts'[s][j].run
                   \/ texts'[s][i].run = texts'[s][j].run /\ texts'[s][i].n < texts'[s][j].n
        <5>1. i \in DOMAIN texts[s] /\ texts'[s][i] = texts[s][i]
          BY <3>4, <4>2
        <5>2. CASE j \in DOMAIN texts[s]
          <6>1. texts'[s][j] = texts[s][j]
            BY <3>4, <5>2
          <6>. QED BY <1>1, <3>1, <4>2, <5>1, <5>2, <6>1 DEF TextsInOrder
        <5>3. CASE j = Len(texts[s]) + 1
          <6>1. texts'[s][j].run = w /\ texts'[s][j].n = n
            BY <3>4, <3>5, <5>3
          <6>2. texts[s][i].run < w \/ (texts[s][i].run = w /\ texts[s][i].n < n)
            BY <3>1, <5>1
          <6>. QED BY <5>1, <6>1, <6>2
        <5>. QED BY <3>4, <5>2, <5>3
      <4>. QED BY <4>1, <4>2
    <3>. QED BY <1>2, <3>2, <3>7 DEF TextsInOrder
  <2>. QED BY <2>1, <2>2, <2>3
<1>. QED BY <1>3, <1>4, <1>5, TextsChange

\* The texts are numbered by the generations of their runs.
LEMMA NumberedStep ==
  ASSUME CaptionInvariant, [Next]_vars PROVE TextsAreNumbered'
<1>1. /\ Typed /\ RunsInOrder /\ SessionsBegin /\ TextsAreNumbered
      /\ texts \in [Sessions -> Seq(Texts)] /\ workers \in [Runs -> Workers] /\ status \in Statuses
      /\ status.generation \in Nat /\ status.final \in Nat /\ Runs \subseteq Nat
      /\ status.session \in Sessions \cup {None}
  <2>1. Runs \subseteq Nat
    BY CaptionAssumption DEF Runs
  <2>2. Typed /\ RunsInOrder /\ SessionsBegin /\ TextsAreNumbered
    BY DEF CaptionInvariant
  <2>3. texts \in [Sessions -> Seq(Texts)] /\ workers \in [Runs -> Workers] /\ status \in Statuses
    BY <2>2 DEF Typed
  <2>. QED BY <2>1, <2>2, <2>3 DEF Statuses
<1>2. /\ service.generation \in Nat /\ service'.generation \in Nat
      /\ service.generation <= service'.generation
      /\ Resume => service'.generation = service.generation + 1
  BY GenerationGrows
<1>3. 0..service.generation \subseteq 0..service'.generation
  BY <1>2
<1>4. status'.generation <= service'.generation
  <2>1. CASE Create
    <3>1. UNCHANGED status \/ status'.generation = 0
      BY <2>1, Created
    <3>. QED BY <1>1, <1>2, <3>1 DEF TextsAreNumbered
  <2>2. CASE Resume
    <3>1. UNCHANGED status \/ status' = [status EXCEPT !.generation = service.generation + 1, !.state = "starting"]
      BY <2>2 DEF Resume
    <3>2. status'.generation \in {status.generation, service.generation + 1}
      BY <1>1, <3>1 DEF Statuses
    <3>. QED BY <1>1, <1>2, <2>2, <3>2 DEF TextsAreNumbered
  <2>3. CASE ~Create /\ ~Resume
    BY <1>1, <1>2, <2>3, SessionStays DEF TextsAreNumbered
  <2>. QED BY <2>1, <2>2, <2>3
<1>5. ASSUME NEW w \in Runs, Final(w)
      PROVE  \/ UNCHANGED <<status, texts>>
             \/ \E n \in 1..MaxTexts :
                  /\ Speaking(w) /\ Current(w, Text(w, n)) /\ Text(w, n).sequence > status.final
                  /\ texts' = [texts EXCEPT ![status.session] = Append(@, Text(w, n))]
                  /\ status.session = workers[w].session /\ status.session \in Sessions
                  /\ status'.final = Text(w, n).sequence
                  /\ Text(w, n).sequence = Number(workers[w].generation, n) /\ Text(w, n) \in Texts
                  /\ workers[w].generation \in 0..service.generation
  <2>1. PICK n \in 1..MaxTexts :
          /\ Speaking(w)
          /\ \/ UNCHANGED <<status, texts>>
             \/ /\ Current(w, Text(w, n)) /\ Text(w, n).sequence > status.final
                /\ texts' = Appended(status.session, Text(w, n)) /\ status' = Saved(Text(w, n))
    BY <1>5, FinalSaves
  <2>2. CASE /\ Current(w, Text(w, n)) /\ Text(w, n).sequence > status.final
             /\ texts' = Appended(status.session, Text(w, n)) /\ status' = Saved(Text(w, n))
    <3>1. /\ status.session = workers[w].session /\ status.session \in Sessions /\ Text(w, n) \in Texts
          /\ texts' = [texts EXCEPT ![status.session] = Append(@, Text(w, n))]
          /\ Text(w, n).sequence = Number(workers[w].generation, n)
      BY <2>1, <2>2, FreshFinal
    <3>2. status'.final = Text(w, n).sequence
      BY <1>1, <2>2 DEF Saved, Statuses
    <3>3. workers[w].generation \in 0..service.generation
      <4>1. Alive(w) /\ workers[w].generation \in Nat
        BY <1>1, <2>1 DEF Speaking, In, Alive, Workers
      <4>. QED BY <1>1, <1>2, <4>1 DEF RunsInOrder
    <3>. QED BY <2>1, <2>2, <3>1, <3>2, <3>3
  <2>. QED BY <2>1, <2>2
<1>6. \E k \in 0..service'.generation, m \in 0..MaxTexts : status'.final = Number(k, m)
  <2>1. CASE status'.final = status.final
    BY <1>1, <1>3, <2>1 DEF TextsAreNumbered
  <2>2. CASE Create /\ status'.final # status.final
    <3>1. status'.final = 0
      BY <2>2, Created
    <3>2. 0 \in 0..MaxTexts /\ 0 \in 0..service'.generation /\ Number(0, 0) = 0
      <4>1. 0 \in 0..MaxTexts /\ 0 \in 0..service'.generation
        BY <1>2, CaptionAssumption
      <4>. QED BY <4>1, Numbers
    <3>. QED BY <3>1, <3>2
  <2>3. CASE ~Create /\ status'.final # status.final
    <3>1. PICK w \in Runs : Final(w)
      BY <2>3, SessionStays
    <3>2. PICK n \in 1..MaxTexts : /\ status'.final = Number(workers[w].generation, n)
                                   /\ workers[w].generation \in 0..service.generation
      BY <1>5, <2>3, <3>1
    <3>3. n \in 0..MaxTexts
      BY CaptionAssumption
    <3>. QED BY <1>3, <3>2, <3>3
  <2>. QED BY <2>1, <2>2, <2>3
<1>7. status'.session # None =>
        \A i \in DOMAIN texts'[status'.session] : texts'[status'.session][i].sequence <= status'.final
  <2>1. CASE Create
    <3>1. UNCHANGED texts
      BY <2>1, Created
    <3>2. UNCHANGED status \/ status'.session = First(NewSessions)
      BY <2>1, Created
    <3>3. texts[First(NewSessions)] = <<>>
      BY <1>1, <2>1, Created DEF SessionsBegin
    <3>. QED BY <1>1, <3>1, <3>2, <3>3 DEF TextsAreNumbered
  <2>2. CASE ~Create /\ status.session \in Sessions
    <3>1. status'.session = status.session
      BY <2>2, SessionStays
    <3>2. \A i \in DOMAIN texts[status.session] : texts[status.session][i].sequence <= status.final
      <4>1. status.session # None
        BY <2>2, CaptionAssumption DEF Sessions
      <4>. QED BY <1>1, <4>1 DEF TextsAreNumbered
    <3>3. ASSUME NEW t \in Sessions, Delete(t)
          PROVE  status' = status /\ (texts'[status.session] = texts[status.session] \/ texts'[status.session] = <<>>)
      BY <1>1, <2>2, <3>3 DEF Delete
    <3>4. ASSUME NEW w \in Runs, Final(w)
          PROVE  \A i \in DOMAIN texts'[status.session] : texts'[status.session][i].sequence <= status'.final
      <4>1. CASE UNCHANGED <<status, texts>>
        BY <3>2, <4>1
      <4>2. ASSUME NEW n \in 1..MaxTexts, Text(w, n).sequence > status.final, Text(w, n) \in Texts,
                   texts' = [texts EXCEPT ![status.session] = Append(@, Text(w, n))],
                   status'.final = Text(w, n).sequence
            PROVE  \A i \in DOMAIN texts'[status.session] : texts'[status.session][i].sequence <= status'.final
        <5>1. texts'[status.session] = Append(texts[status.session], Text(w, n)) /\ texts[status.session] \in Seq(Texts)
          BY <1>1, <2>2, <4>2
        <5>2. ASSUME NEW i \in DOMAIN texts'[status.session]
              PROVE  texts'[status.session][i].sequence <= status'.final
          <6>1. CASE i \in DOMAIN texts[status.session]
            <7>1. texts'[status.session][i] = texts[status.session][i] /\ texts[status.session][i] \in Texts
              BY <5>1, <6>1
            <7>2. texts[status.session][i].sequence \in Nat /\ Text(w, n).sequence \in Nat
              BY <4>2, <7>1 DEF Texts
            <7>3. texts[status.session][i].sequence <= status.final /\ status.final \in Nat
              BY <1>1, <3>2, <6>1 DEF Statuses
            <7>4. texts'[status.session][i].sequence = texts[status.session][i].sequence
              BY <7>1
            <7>. QED BY <4>2, <7>2, <7>3, <7>4
          <6>2. CASE i \notin DOMAIN texts[status.session]
            <7>1. texts'[status.session][i] = Text(w, n)
              BY <4>2, <5>1, <5>2, <6>2
            <7>2. Text(w, n).sequence \in Nat
              BY <4>2 DEF Texts
            <7>. QED BY <4>2, <7>1, <7>2
          <6>. QED BY <6>1, <6>2
        <5>. QED BY <5>2
      <4>. QED BY <1>5, <3>4, <4>1, <4>2
    <3>5. CASE \A w \in Runs : ~Final(w)
      <4>1. status'.final = status.final
        BY <2>2, <3>5, SessionStays
      <4>. QED BY <3>1, <3>2, <3>3, <3>5, <4>1, TextsChange
    <3>. QED BY <3>1, <3>4, <3>5
  <2>3. CASE ~Create /\ status.session = None
    BY <2>3, SessionStays
  <2>. QED BY <1>1, <2>1, <2>2, <2>3
<1>. DEFINE Ordered(t, s) ==
       \E k \in 0..service'.generation :
         /\ t.sequence = Number(k, t.n)
         /\ \A w \in Runs : Alive(w)' /\ workers'[w].session = s =>
              \/ t.run < w /\ k < workers'[w].generation
              \/ t.run = w /\ k = workers'[w].generation
              \/ t.run > w /\ k > workers'[w].generation
<1>8. ASSUME NEW s \in Sessions, NEW i \in DOMAIN texts[s] PROVE Ordered(texts[s][i], s)
  <2>1. PICK k \in 0..service.generation :
          /\ texts[s][i].sequence = Number(k, texts[s][i].n)
          /\ \A w \in Runs : Alive(w) /\ workers[w].session = s =>
               \/ texts[s][i].run < w /\ k < workers[w].generation
               \/ texts[s][i].run = w /\ k = workers[w].generation
               \/ texts[s][i].run > w /\ k > workers[w].generation
    BY <1>1 DEF TextsAreNumbered
  <2>2. texts[s][i].run \in Runs /\ Used(texts[s][i].run) /\ workers[texts[s][i].run].session = s
    BY RunsOfTexts
  <2>3. SUFFICES ASSUME NEW w \in Runs, Alive(w)', workers'[w].session = s
                 PROVE  \/ texts[s][i].run < w /\ k < workers'[w].generation
                        \/ texts[s][i].run = w /\ k = workers'[w].generation
                        \/ texts[s][i].run > w /\ k > workers'[w].generation
    BY <1>3, <2>1
  <2>4. CASE Continuing
    BY <2>1, <2>3, <2>4 DEF Continuing
  <2>5. ASSUME NEW u, NEW generation, Beginning(u, generation), w # u
        PROVE  workers'[w] = workers[w]
    BY <1>1, <2>5 DEF Beginning
  <2>6. ASSUME NEW u, NEW generation, Beginning(u, generation), w = u
        PROVE  /\ texts[s][i].run < w /\ workers'[w].generation = generation
               /\ status.session = s
    <3>1. ~Used(u) /\ u \in Runs /\ workers'[u].generation = generation /\ workers'[u].session = status.session
      BY <1>1, <2>6 DEF Beginning, Unused
    <3>. QED BY <1>1, <2>2, <2>3, <2>6, <3>1 DEF RunsInOrder
  <2>7. CASE Resume /\ Beginning(First(Unstarted), service.generation + 1)
    <3>1. k < service.generation + 1
      BY <1>2
    <3>. QED BY <2>1, <2>3, <2>5, <2>6, <2>7, <3>1 DEF Alive
  <2>8. CASE LaunchNew /\ Beginning(First(Unstarted), 0)
    <3>1. status.session # s
      BY <1>1, <2>2, <2>8 DEF LaunchNew, SessionsBegin
    <3>. QED BY <2>1, <2>3, <2>5, <2>6, <2>8, <3>1 DEF Alive
  <2>. QED BY <2>4, <2>7, <2>8, RunsChange
<1>9. ASSUME NEW v \in Runs, NEW n \in 1..MaxTexts, Final(v), Speaking(v),
             Text(v, n).sequence = Number(workers[v].generation, n),
             workers[v].generation \in 0..service.generation
      PROVE  Ordered(Text(v, n), workers[v].session)
  <2>1. Text(v, n).run = v /\ Text(v, n).n = n
    BY DEF Text
  <2>2. Continuing
    BY <1>1, <1>9, WorkerContinues DEF WorkerStep
  <2>3. SUFFICES ASSUME NEW w \in Runs, Alive(w)', workers'[w].session = workers[v].session
                 PROVE  \/ v < w /\ workers[v].generation < workers'[w].generation
                        \/ v = w /\ workers[v].generation = workers'[w].generation
                        \/ v > w /\ workers[v].generation > workers'[w].generation
    BY <1>3, <1>9, <2>1
  <2>4. /\ Alive(v) /\ Alive(w) /\ workers[w].session = workers[v].session
        /\ workers'[w].generation = workers[w].generation
        /\ v \in Nat /\ w \in Nat
    BY <1>1, <1>9, <2>2, <2>3 DEF Continuing, Speaking, In, Alive
  <2>. QED BY <1>1, <2>4 DEF RunsInOrder
<1>10. ASSUME NEW s \in Sessions, NEW i \in DOMAIN texts'[s] PROVE Ordered(texts'[s][i], s)
  <2>. HIDE DEF Ordered
  <2>1. CASE UNCHANGED texts
    BY <1>8, <1>10, <2>1
  <2>2. ASSUME NEW t \in Sessions, Delete(t) PROVE Ordered(texts'[s][i], s)
    <3>1. texts'[s] = texts[s] \/ texts'[s] = <<>>
      BY <1>1, <2>2 DEF Delete
    <3>. QED BY <1>8, <1>10, <3>1
  <2>3. ASSUME NEW w \in Runs, Final(w) PROVE Ordered(texts'[s][i], s)
    <3>1. CASE UNCHANGED texts
      BY <2>1, <3>1
    <3>2. ASSUME NEW n \in 1..MaxTexts, Speaking(w), Text(w, n) \in Texts,
                 texts' = [texts EXCEPT ![status.session] = Append(@, Text(w, n))],
                 status.session = workers[w].session, status.session \in Sessions,
                 Text(w, n).sequence = Number(workers[w].generation, n),
                 workers[w].generation \in 0..service.generation
          PROVE  Ordered(texts'[s][i], s)
      <4>1. CASE s # status.session
        BY <1>1, <1>8, <1>10, <3>2, <4>1
      <4>2. CASE s = status.session
        <5>1. texts'[s] = Append(texts[s], Text(w, n)) /\ texts[s] \in Seq(Texts)
          BY <1>1, <3>2, <4>2
        <5>2. CASE i \in DOMAIN texts[s]
          <6>1. texts'[s][i] = texts[s][i]
            BY <5>1, <5>2
          <6>. QED BY <1>8, <5>2, <6>1
        <5>3. CASE i \notin DOMAIN texts[s]
          <6>1. texts'[s][i] = Text(w, n)
            BY <1>10, <3>2, <5>1, <5>3
          <6>. QED BY <1>9, <2>3, <3>2, <4>2, <6>1
        <5>. QED BY <5>2, <5>3
      <4>. QED BY <4>1, <4>2
    <3>. QED BY <1>5, <2>3, <3>1, <3>2
  <2>. QED BY <2>1, <2>2, <2>3, TextsChange
<1>. QED BY <1>4, <1>6, <1>7, <1>10 DEF TextsAreNumbered

\* Every final text of a run that nobody gave up is saved, unless it failed.
LEMMA FinalsStep ==
  ASSUME CaptionInvariant, [Next]_vars PROVE FinalsAreSaved'
<1>1. /\ Typed /\ RunsInOrder /\ FinalsAreSaved /\ texts \in [Sessions -> Seq(Texts)]
      /\ workers \in [Runs -> Workers] /\ abandoned \subseteq abandoned'
      /\ history \in [Sessions -> Active \cup {"none", "stopped", "failed", "deleted"}]
      /\ status.final \in Nat
  BY HandsChange DEF CaptionInvariant, Typed, Statuses
<1>. DEFINE Saved2(w, n) ==
       \/ workers[w].failed
       \/ history[workers[w].session] = "deleted"
       \/ \E i \in DOMAIN texts[workers[w].session] :
            texts[workers[w].session][i].run = w /\ texts[workers[w].session][i].n = n
<1>2. SUFFICES ASSUME NEW w \in Runs \ abandoned', NEW n \in workers'[w].finals PROVE Saved2(w, n)'
  BY DEF FinalsAreSaved
<1>3. w \in Runs \ abandoned
  BY <1>1
<1>4. ASSUME n \in workers[w].finals, workers'[w].session = workers[w].session,
             workers[w].failed => workers'[w].failed
      PROVE  Saved2(w, n)'
  <2>1. Saved2(w, n) /\ workers[w].session \in Sessions
    <3>1. Used(w)
      BY <1>1, <1>3, <1>4 DEF Typed, Unused
    <3>. QED BY <1>1, <1>3, <1>4, <3>1 DEF FinalsAreSaved, RunsInOrder, Workers
  <2>2. CASE UNCHANGED texts
    BY <1>4, <2>1, <2>2, HistoryKeeps
  <2>3. ASSUME NEW s \in Sessions, Delete(s) PROVE Saved2(w, n)'
    BY <1>1, <1>4, <2>1, <2>3 DEF Delete
  <2>4. ASSUME NEW v \in Runs, Final(v) PROVE Saved2(w, n)'
    <3>1. \E m \in 1..MaxTexts : UNCHANGED texts \/ texts' = Appended(status.session, Text(v, m))
      BY <2>4, FinalSaves
    <3>2. PICK m \in 1..MaxTexts :
            UNCHANGED texts \/ texts' = [texts EXCEPT ![status.session] = Append(@, Text(v, m))]
      BY <3>1 DEF Appended
    <3>3. CASE texts' = [texts EXCEPT ![status.session] = Append(@, Text(v, m))]
      <4>1. texts[workers[w].session] \in Seq(Texts)
        BY <1>1, <2>1
      <4>2. \/ texts'[workers[w].session] = texts[workers[w].session]
            \/ texts'[workers[w].session] = Append(texts[workers[w].session], Text(v, m))
        BY <1>1, <2>1, <3>3
      <4>3. \A i \in DOMAIN texts[workers[w].session] :
              /\ i \in DOMAIN texts'[workers[w].session]
              /\ texts'[workers[w].session][i] = texts[workers[w].session][i]
        BY <4>1, <4>2
      <4>. QED BY <1>4, <2>1, <4>3, HistoryKeeps
    <3>. QED BY <2>2, <3>2, <3>3
  <2>. QED BY <2>2, <2>3, <2>4, TextsChange
<1>5. ASSUME NEW u, NEW generation, Beginning(u, generation) PROVE Saved2(w, n)'
  <2>1. u # w
    BY <1>1, <1>2, <1>5 DEF Beginning, Unused
  <2>2. workers'[w] = workers[w]
    BY <1>1, <1>5, <2>1 DEF Beginning
  <2>. QED BY <1>2, <1>4, <2>2
<1>6. CASE Continuing /\ n \in workers[w].finals
  BY <1>3, <1>4, <1>6 DEF Continuing
<1>7. CASE Continuing /\ n \notin workers[w].finals
  <2>1. Final(w)
    BY <1>2, <1>3, <1>7 DEF Continuing
  <2>2. PICK m \in 1..MaxTexts :
          /\ Speaking(w) /\ \A l \in workers[w].finals : l < m
          /\ workers'[w].finals = workers[w].finals \cup {m}
          /\ \/ Current(w, Text(w, m)) /\ Text(w, m).sequence > status.final => workers'[w].failed
             \/ /\ Current(w, Text(w, m)) /\ Text(w, m).sequence > status.final
                /\ texts' = Appended(status.session, Text(w, m))
    BY <1>3, <2>1, FinalSaves
  <2>3. n = m /\ n \in 1..MaxTexts
    BY <1>2, <1>7, <2>2
  <2>4. /\ Alive(w) /\ workers[w].generation \in Nat /\ workers[w].finals \subseteq 1..MaxTexts
    BY <1>1, <1>3, <2>2 DEF Speaking, In, Alive, Workers
  <2>5. /\ workers[w].session = status.session /\ workers[w].generation = status.generation
        /\ \/ status.final < Number(workers[w].generation, 1)
           \/ \E l \in workers[w].finals : status.final = Number(workers[w].generation, l)
    BY <1>3, <2>4 DEF CaptionInvariant, NoneForgotten, HandIsShown
  <2>6. /\ Text(w, n).sequence = Number(workers[w].generation, n)
        /\ Text(w, n).sequence \div Epoch = workers[w].generation
        /\ Text(w, n).run = w /\ Text(w, n).n = n
    <3>1. n \in 0..MaxTexts
      BY <2>3, CaptionAssumption
    <3>. QED BY <2>4, <3>1, Numbers DEF Text
  <2>7. Current(w, Text(w, n)) /\ Text(w, n).sequence > status.final
    <3>1. Number(workers[w].generation, n) > status.final
      <4>1. 1 \in 0..MaxTexts /\ n \in 0..MaxTexts /\ n >= 1
        BY <2>3, CaptionAssumption
      <4>2. Number(workers[w].generation, 1) \in Nat /\ Number(workers[w].generation, n) \in Nat
        BY <2>4, <4>1, Numbers
      <4>3. CASE status.final < Number(workers[w].generation, 1)
        <5>1. n = 1 \/ Number(workers[w].generation, 1) < Number(workers[w].generation, n)
          BY <2>4, <4>1, Numbers
        <5>. QED BY <1>1, <4>2, <4>3, <5>1
      <4>4. ASSUME NEW l \in workers[w].finals, status.final = Number(workers[w].generation, l)
            PROVE  status.final < Number(workers[w].generation, n)
        <5>1. l \in 0..MaxTexts /\ l < n
          <6>1. l \in 1..MaxTexts /\ MaxTexts \in Nat
            BY <2>4, CaptionAssumption
          <6>. QED BY <2>2, <2>3, <6>1
        <5>2. Number(workers[w].generation, l) < Number(workers[w].generation, n)
          BY <2>4, <4>1, <5>1, Numbers
        <5>. QED BY <4>4, <5>2
      <4>. QED BY <1>1, <2>5, <4>2, <4>3, <4>4
    <3>. QED BY <2>5, <2>6, <3>1 DEF Current
  <2>8. CASE workers'[w].failed
    BY <2>8
  <2>9. CASE texts' = Appended(status.session, Text(w, n))
    <3>1. status.session \in Sessions /\ texts' = [texts EXCEPT ![status.session] = Append(@, Text(w, n))]
      BY <1>3, <2>2, <2>3, <2>7, <2>9, FreshFinal
    <3>2. texts[status.session] \in Seq(Texts)
      BY <1>1, <3>1
    <3>3. texts'[status.session] = Append(texts[status.session], Text(w, n))
      BY <1>1, <3>1
    <3>4. /\ Len(texts[status.session]) + 1 \in DOMAIN texts'[status.session]
          /\ texts'[status.session][Len(texts[status.session]) + 1] = Text(w, n)
      BY <3>2, <3>3
    <3>5. workers'[w].session = status.session
      BY <1>3, <1>7, <2>5 DEF Continuing
    <3>. QED BY <2>6, <3>4, <3>5
  <2>. QED BY <2>2, <2>3, <2>7, <2>8, <2>9
<1>. QED BY <1>5, <1>6, <1>7, RunsChange

-----------------------------------------------------------------------------
(* The bounds. *)

\* Runs and sessions are finite sets.
LEMMA BoundsAreFinite ==
  ASSUME Typed
  PROVE  /\ IsFiniteSet(NeedRun) /\ IsFiniteSet(NeedSession)
         /\ IsFiniteSet(Unstarted) /\ IsFiniteSet(NewSessions)
         /\ NeedSession \subseteq NeedRun
         /\ NeedRun \subseteq {"start", "resume", "holding"}
<1>1. IsFiniteSet({"start", "resume", "holding"})
  <2>1. IsFiniteSet({"start"} \cup {"resume"} \cup {"holding"})
    BY FS_Singleton, FS_AddElement
  <2>. QED BY <2>1
<1>2. NeedRun \subseteq {"start", "resume", "holding"} /\ NeedSession \subseteq NeedRun
  BY DEF NeedRun, NeedSession, Holding
<1>3. IsFiniteSet(1..MaxRuns) /\ IsFiniteSet(1..MaxSessions)
  <2>1. MaxRuns \in Int /\ MaxSessions \in Int /\ 1 \in Int
    BY CaptionAssumption
  <2>. QED BY <2>1, FS_Interval
<1>4. Unstarted \subseteq 1..MaxRuns /\ NewSessions \subseteq 1..MaxSessions
  BY DEF Unstarted, NewSessions, Runs, Sessions
<1>. QED BY <1>1, <1>2, <1>3, <1>4, FS_Subset

\* Whoever goes without what it might have needed leaves it to the others.
LEMMA Fewer ==
  ASSUME NEW S, NEW T, NEW x, IsFiniteSet(S), IsFiniteSet(T), Cardinality(S) <= Cardinality(T)
  PROVE  /\ \A R \in SUBSET S : Cardinality(R) <= Cardinality(T)
         /\ x \in S => \A y : Cardinality(S \ {x}) <= Cardinality(T \ {y})
         /\ \A y : x \in S => Cardinality((S \ {x}) \cup {y}) <= Cardinality(T)
<1>1. Cardinality(S) \in Nat /\ Cardinality(T) \in Nat
  BY FS_CardinalityType
<1>2. ASSUME NEW R \in SUBSET S PROVE Cardinality(R) <= Cardinality(T)
  <2>1. IsFiniteSet(R) /\ Cardinality(R) <= Cardinality(S)
    BY FS_Subset
  <2>. QED BY <1>1, <2>1, FS_CardinalityType
<1>3. ASSUME x \in S PROVE Cardinality(S \ {x}) = Cardinality(S) - 1 /\ IsFiniteSet(S \ {x})
  BY <1>3, FS_RemoveElement
<1>4. ASSUME x \in S, NEW y PROVE Cardinality(S \ {x}) <= Cardinality(T \ {y})
  <2>1. Cardinality(T \ {y}) \in {Cardinality(T), Cardinality(T) - 1}
    BY FS_RemoveElement
  <2>. QED BY <1>1, <1>3, <1>4, <2>1
<1>5. ASSUME x \in S, NEW y PROVE Cardinality((S \ {x}) \cup {y}) <= Cardinality(T)
  <2>1. Cardinality((S \ {x}) \cup {y}) \in {Cardinality(S \ {x}), Cardinality(S \ {x}) + 1}
    BY <1>3, <1>5, FS_AddElement
  <2>. QED BY <1>1, <1>3, <1>5, <2>1
<1>. QED BY <1>2, <1>4, <1>5

\* Only the start takes a session.
LEMMA SessionsLeft ==
  ASSUME CaptionInvariant, [Next]_vars, ~Create
  PROVE  \A s \in Sessions : history[s] = "none" => history'[s] = "none"
<1>1. /\ history \in [Sessions -> Active \cup {"none", "stopped", "failed", "deleted"}]
      /\ status.session # None => history[status.session] # "none"
  BY DEF CaptionInvariant, Typed, SessionsBegin
<1>2. CASE UNCHANGED history
  BY <1>2
<1>3. ASSUME NEW s \in Sessions, Delete(s)
      PROVE  \A r \in Sessions : history[r] = "none" => history'[r] = "none"
  BY <1>1, <1>3 DEF Delete
<1>4. CASE Settle
  BY <1>1, <1>4 DEF Settle
<1>5. CASE LaunchNew
  <2>1. status.session # None
    BY <1>5 DEF LaunchNew, CaptionInvariant, SessionsBegin
  <2>. QED BY <1>1, <1>5, <2>1 DEF LaunchNew
<1>6. ASSUME NEW w \in Runs, Tick(w) \/ Report(w)
      PROVE  \A s \in Sessions : history[s] = "none" => history'[s] = "none"
  <2>1. history[workers[w].session] # "none"
    BY <1>6 DEF CaptionInvariant, RunsInOrder, Used, Tick, Report, In
  <2>2. CASE Tick(w)
    BY <1>1, <2>1, <2>2 DEF Tick
  <2>3. CASE Report(w)
    BY <1>1, <2>1, <2>3 DEF Report
  <2>. QED BY <1>6, <2>2, <2>3
<1>. QED
  BY <1>2, <1>3, <1>4, <1>5, <1>6
  DEF Next, vars, Ask, CloseWindow, RequestExit, HaltRun, ControlStep, Refuse, Acquire, StopRun, Resume,
      AwaitWorker, Keep, CaptureStart, CaptureBegins, CaptureFails, WorkerStep, Supervise, ReadyTimeout,
      Deadline, EngineReady, BeginCapture, Partial, Final, Stopped, EngineFails, Leave

\* There is a run and a session for every call that may need one.
LEMMA BoundsStep ==
  ASSUME CaptionInvariant, [Next]_vars PROVE BoundsSuffice'
<1>1. /\ Typed /\ LockMatchesCall /\ BoundsSuffice
      /\ control \in [fn : Fns \cup {None}, at : Points \cup {None}, run : Runs \cup {None}]
      /\ None \notin Fns /\ None \notin Points
  BY CaptionAssumption DEF CaptionInvariant, Typed, Fns, Points
<1>2. /\ IsFiniteSet(NeedRun) /\ IsFiniteSet(NeedSession) /\ IsFiniteSet(Unstarted) /\ IsFiniteSet(NewSessions)
      /\ Cardinality(NeedRun) <= Cardinality(Unstarted) /\ Cardinality(NeedSession) <= Cardinality(NewSessions)
  BY <1>1, BoundsAreFinite DEF BoundsSuffice
<1>3. Unstarted' = Unstarted \/ \E u : Unstarted' = Unstarted \ {u} /\ (Resume \/ LaunchNew)
  <2>1. CASE Continuing
    BY <2>1 DEF Continuing, Unstarted, Used
  <2>2. ASSUME NEW u, NEW generation, Beginning(u, generation) PROVE Unstarted' = Unstarted \ {u}
    BY <1>1, <2>2 DEF Beginning, Unstarted, Unused, Typed
  <2>. QED BY <2>1, <2>2, RunsChange
<1>4. ~Create => NewSessions' = NewSessions
  BY HistoryKeeps, SessionsLeft DEF NewSessions
<1>5. ASSUME NeedRun' \subseteq NeedRun, NeedSession' \subseteq NeedSession, ~Create, ~Resume, ~LaunchNew
      PROVE  BoundsSuffice'
  BY <1>2, <1>3, <1>4, <1>5, Fewer DEF BoundsSuffice
<1>6. ASSUME waiting' \cap {"start", "resume"} \subseteq waiting, control'.fn = control.fn, control'.at = control.at,
             ~Create, ~Resume, ~LaunchNew
      PROVE  BoundsSuffice'
  BY <1>5, <1>6 DEF NeedRun, NeedSession, Holding
<1>7. CASE UNCHANGED <<waiting, control>> /\ ~Create /\ ~Resume /\ ~LaunchNew
  BY <1>6, <1>7
<1>8. ASSUME NEW fn \in {"start", "pause", "resume", "stop"}, Ask(fn) PROVE BoundsSuffice'
  <2>1. /\ waiting' = waiting \cup {fn} /\ UNCHANGED <<control, workers, history, service>>
        /\ Affordable(fn)
    BY <1>8 DEF Ask
  <2>2. Unstarted' = Unstarted /\ NewSessions' = NewSessions
    BY <2>1 DEF Unstarted, NewSessions
  <2>3. CASE fn \notin {"start", "resume"}
    <3>1. NeedRun' = NeedRun /\ NeedSession' = NeedSession
      BY <2>1, <2>3 DEF NeedRun, NeedSession, Holding
    <3>. QED BY <1>2, <2>2, <3>1 DEF BoundsSuffice
  <2>4. CASE fn \in {"start", "resume"}
    <3>1. Cardinality(NeedRun) \in Nat /\ Launching \in Nat /\ Cardinality(NeedRun) <= Launching
      <4>. DEFINE W == waiting \cap {"start", "resume"}
      <4>1. IsFiniteSet(W) /\ Cardinality(W) \in Nat
        <5>1. W \in SUBSET NeedRun
          BY DEF NeedRun
        <5>. QED BY <1>2, <5>1, FS_Subset, FS_CardinalityType
      <4>2. CASE control.fn = "start"
        <5>1. NeedRun = W \/ NeedRun = W \cup {"holding"}
          BY DEF NeedRun, Holding
        <5>2. Launching = Cardinality(W) + 1
          BY <4>2 DEF Launching
        <5>3. Cardinality(W \cup {"holding"}) \in {Cardinality(W), Cardinality(W) + 1}
          BY <4>1, FS_AddElement
        <5>. HIDE DEF W
        <5>. QED BY <4>1, <5>1, <5>2, <5>3
      <4>3. CASE control.fn # "start"
        <5>1. NeedRun = W
          BY <4>3 DEF NeedRun, Holding
        <5>2. Launching = Cardinality(W) + 0
          BY <4>3 DEF Launching
        <5>. HIDE DEF W
        <5>. QED BY <4>1, <5>1, <5>2
      <4>. QED BY <4>2, <4>3
    <3>2. NeedRun' = NeedRun \cup {fn}
      BY <2>1, <2>4 DEF NeedRun, Holding
    <3>3. Cardinality(NeedRun \cup {fn}) \in {Cardinality(NeedRun), Cardinality(NeedRun) + 1}
      BY <1>2, FS_AddElement
    <3>4. Launching < Cardinality(Unstarted) /\ Cardinality(Unstarted) \in Nat
      BY <1>2, <2>1, <2>4, FS_CardinalityType DEF Affordable
    <3>5. Cardinality(NeedRun') <= Cardinality(Unstarted)
      BY <3>1, <3>2, <3>3, <3>4
    <3>6. CASE fn = "resume"
      <4>1. NeedSession' = NeedSession
        BY <2>1, <3>6 DEF NeedSession, Holding
      <4>. QED BY <1>2, <2>2, <3>5, <4>1 DEF BoundsSuffice
    <3>7. CASE fn = "start"
      <4>1. NeedSession' = NeedSession \cup {"start"}
        BY <2>1, <3>7 DEF NeedSession, Holding
      <4>2. Cardinality(NeedSession) <= Cardinality(NeedRun) /\ Cardinality(NeedSession) \in Nat
        BY <1>1, <1>2, BoundsAreFinite, FS_Subset, FS_CardinalityType
      <4>3. Cardinality(NeedSession \cup {"start"}) \in {Cardinality(NeedSession), Cardinality(NeedSession) + 1}
        BY <1>2, FS_AddElement
      <4>4. Launching < Cardinality(NewSessions) /\ Cardinality(NewSessions) \in Nat
        BY <1>2, <2>1, <3>7, FS_CardinalityType DEF Affordable
      <4>5. Cardinality(NeedSession') <= Cardinality(NewSessions)
        BY <3>1, <4>1, <4>2, <4>3, <4>4
      <4>. QED BY <2>2, <3>5, <4>5 DEF BoundsSuffice
    <3>. QED BY <2>4, <3>6, <3>7
  <2>. QED BY <2>3, <2>4
<1>9. CASE Resume
  <2>1. /\ control.fn = None /\ "resume" \in NeedRun /\ waiting' = waiting \ {"resume"}
        /\ control'.fn # "start"
    BY <1>1, <1>9 DEF Resume, NeedRun, Fns
  <2>2. NeedRun' = NeedRun \ {"resume"} /\ NeedSession' = NeedSession
    BY <1>1, <2>1 DEF NeedRun, NeedSession, Holding, Fns
  <2>3. ~Create
    BY <1>1, <2>1 DEF Create, LockMatchesCall, Points
  <2>4. Cardinality(NeedRun') <= Cardinality(Unstarted')
    BY <1>2, <1>3, <2>1, <2>2, Fewer
  <2>. QED BY <1>2, <1>4, <2>2, <2>3, <2>4 DEF BoundsSuffice
<1>10. ASSUME NEW fn \in {"start", "resume"}, Refuse(fn) PROVE BoundsSuffice'
  <2>1. waiting' \subseteq waiting /\ UNCHANGED <<control, workers, history, service>>
    BY <1>10 DEF Refuse
  <2>2. NeedRun' \subseteq NeedRun /\ NeedSession' \subseteq NeedSession
    BY <2>1 DEF NeedRun, NeedSession, Holding
  <2>3. Unstarted' = Unstarted /\ NewSessions' = NewSessions
    BY <2>1 DEF Unstarted, NewSessions
  <2>. QED BY <1>2, <2>2, <2>3, Fewer DEF BoundsSuffice
<1>11. ASSUME NEW fn \in {"start", "pause", "stop", "exit"}, Acquire(fn) PROVE BoundsSuffice'
  <2>1. /\ fn \in waiting /\ waiting' = waiting \ {fn} /\ UNCHANGED <<workers, history, service>>
        /\ control.fn = None /\ control' = [fn |-> fn, at |-> "stop", run |-> None]
    BY <1>11 DEF Acquire
  <2>2. Unstarted' = Unstarted /\ NewSessions' = NewSessions
    BY <2>1 DEF Unstarted, NewSessions
  <2>3. CASE fn # "start"
    <3>1. NeedRun' \subseteq NeedRun /\ NeedSession' \subseteq NeedSession
      BY <2>1, <2>3 DEF NeedRun, NeedSession, Holding
    <3>. QED BY <1>2, <2>2, <3>1, Fewer DEF BoundsSuffice
  <2>4. CASE fn = "start"
    <3>1. /\ "start" \in NeedRun /\ NeedRun' = (NeedRun \ {"start"}) \cup {"holding"}
          /\ "start" \in NeedSession /\ NeedSession' = (NeedSession \ {"start"}) \cup {"holding"}
      BY <1>1, <2>1, <2>4 DEF NeedRun, NeedSession, Holding, Fns
    <3>. QED BY <1>2, <2>2, <3>1, Fewer DEF BoundsSuffice
  <2>. QED BY <2>3, <2>4
<1>12. ASSUME waiting' = waiting, ~Create, ~Resume, ~LaunchNew,
              \/ control'.fn = None
              \/ control'.fn = control.fn /\ control.at \in {"stop", "wait", "settle"}
       PROVE  BoundsSuffice'
  <2>1. NeedRun' \subseteq NeedRun /\ NeedSession' \subseteq NeedSession
    BY <1>1, <1>12 DEF NeedRun, NeedSession, Holding, Fns
  <2>. QED BY <1>5, <1>12, <2>1
<1>13. CASE StopRun
  <2>1. control.at = "stop" /\ waiting' = waiting /\ control'.fn = control.fn
    BY <1>1, <1>13 DEF StopRun
  <2>2. ~Create /\ ~Resume /\ ~LaunchNew
    BY <1>1, <2>1 DEF Create, Resume, LaunchNew, LockMatchesCall
  <2>. QED BY <1>12, <2>1, <2>2
<1>14. CASE AwaitWorker
  <2>1. control.at = "wait" /\ waiting' = waiting /\ control'.fn = control.fn
    BY <1>1, <1>14 DEF AwaitWorker
  <2>2. ~Create /\ ~Resume /\ ~LaunchNew
    BY <1>1, <2>1 DEF Create, Resume, LaunchNew, LockMatchesCall
  <2>. QED BY <1>12, <2>1, <2>2
<1>15. CASE Settle
  <2>1. control.at = "settle" /\ waiting' = waiting
    BY <1>15 DEF Settle
  <2>2. control' = Idle \/ control' = [control EXCEPT !.at = "create"]
    BY <1>15 DEF Settle, Release, Go
  <2>3. control'.fn = None \/ control'.fn = control.fn
    BY <1>1, <2>2 DEF Idle
  <2>4. ~Create /\ ~Resume /\ ~LaunchNew
    BY <1>1, <2>1 DEF Create, Resume, LaunchNew, LockMatchesCall
  <2>. QED BY <1>12, <2>1, <2>3, <2>4
<1>16. CASE Keep
  <2>1. control.at = "keep" /\ waiting' = waiting /\ control'.fn = None
    BY <1>16 DEF Keep, Release, Idle
  <2>2. ~Create /\ ~Resume /\ ~LaunchNew
    BY <1>1, <2>1 DEF Create, Resume, LaunchNew, LockMatchesCall
  <2>. QED BY <1>12, <2>1, <2>2
<1>17. CASE Create
  <2>1. /\ control.fn = "start" /\ control.at = "create" /\ waiting' = waiting /\ workers' = workers
        /\ control' = Idle \/ control' = [control EXCEPT !.at = "launch"]
    BY <1>17, Created
  <2>2. control'.fn = None \/ (control'.fn = "start" /\ control'.at = "launch")
    BY <1>1, <2>1 DEF Idle
  <2>3. /\ "holding" \in NeedSession /\ NeedSession' = NeedSession \ {"holding"}
        /\ NeedRun' \subseteq NeedRun
    BY <1>1, <2>1, <2>2 DEF NeedRun, NeedSession, Holding, Fns
  <2>4. Unstarted' = Unstarted
    BY <2>1 DEF Unstarted
  <2>5. NewSessions' = NewSessions \/ NewSessions' = NewSessions \ {First(NewSessions)}
    <3>1. history' = history \/ history' = [history EXCEPT ![First(NewSessions)] = "starting"]
      BY <1>17 DEF Create
    <3>2. history \in [Sessions -> Active \cup {"none", "stopped", "failed", "deleted"}]
      BY <1>1 DEF Typed
    <3>. QED BY <3>1, <3>2 DEF NewSessions
  <2>6. Cardinality(NeedSession') <= Cardinality(NewSessions')
    BY <1>2, <2>3, <2>5, Fewer
  <2>7. Cardinality(NeedRun') <= Cardinality(Unstarted')
    BY <1>2, <2>3, <2>4, Fewer
  <2>. QED BY <2>6, <2>7 DEF BoundsSuffice
<1>18. CASE LaunchNew
  <2>1. control.fn = "start" /\ control.at = "launch" /\ waiting' = waiting
    BY <1>1, <1>18 DEF LaunchNew, LockMatchesCall
  <2>2. control' = Idle \/ control' = [control EXCEPT !.at = "keep", !.run = First(Unstarted)]
    BY <1>18 DEF LaunchNew, Release
  <2>3. control'.fn = None \/ (control'.fn = "start" /\ control'.at = "keep")
    <3>1. CASE control' = Idle
      BY <3>1 DEF Idle
    <3>2. CASE control' = [control EXCEPT !.at = "keep", !.run = First(Unstarted)]
      BY <1>1, <2>1, <3>2
    <3>. QED BY <2>2, <3>1, <3>2
  <2>4. /\ "holding" \in NeedRun /\ NeedRun' = NeedRun \ {"holding"}
        /\ NeedSession' \subseteq NeedSession
    BY <1>1, <2>1, <2>3 DEF NeedRun, NeedSession, Holding, Fns
  <2>5. NewSessions' = NewSessions
    BY <1>4, <2>1 DEF Create
  <2>6. Cardinality(NeedRun') <= Cardinality(Unstarted')
    <3>1. CASE Unstarted' = Unstarted
      BY <1>2, <2>4, <3>1, Fewer
    <3>2. ASSUME NEW u, Unstarted' = Unstarted \ {u} PROVE Cardinality(NeedRun') <= Cardinality(Unstarted')
      BY <1>2, <2>4, <3>2, Fewer
    <3>. QED BY <1>3, <3>1, <3>2
  <2>7. Cardinality(NeedSession') <= Cardinality(NewSessions')
    BY <1>2, <2>4, <2>5, Fewer
  <2>. QED BY <2>6, <2>7 DEF BoundsSuffice
<1>19. CASE HaltRun
  <2>1. UNCHANGED <<control, history>> /\ waiting' = waiting \cup {service.halt}
    BY <1>19 DEF HaltRun
  <2>2. service.halt \notin {"start", "resume"}
    BY <1>19, CaptionAssumption DEF HaltRun, CaptionInvariant, Typed
  <2>3. NeedRun' = NeedRun /\ NeedSession' = NeedSession
    BY <2>1, <2>2 DEF NeedRun, NeedSession, Holding
  <2>4. NewSessions' = NewSessions
    BY <2>1 DEF NewSessions
  <2>5. workers' = Cancelled(service.run) /\ workers \in [Runs -> Workers]
    BY <1>1, <1>19 DEF HaltRun, Typed
  <2>6. \A w \in Runs : workers'[w].at = workers[w].at
    BY <2>5 DEF Cancelled, Workers
  <2>7. Unstarted' = Unstarted
    BY <2>6 DEF Unstarted
  <2>. QED BY <1>2, <2>3, <2>4, <2>7 DEF BoundsSuffice
<1>20. ASSUME NEW w \in Runs, WorkerStep(w) PROVE UNCHANGED <<waiting, control>>
  BY <1>20 DEF WorkerStep, SameCalls, Supervise, ReadyTimeout, Deadline, EngineReady, BeginCapture, Partial,
     Final, Stopped, EngineFails, Tick, Leave, Report
<1>21. ASSUME waiting' = waiting, control' = control PROVE BoundsSuffice'
  BY <1>7, <1>9, <1>17, <1>18, <1>21
<1>22. ASSUME UNCHANGED vars \/ CloseWindow \/ RequestExit \/ (\E s \in Sessions : Delete(s))
              \/ CaptureStart \/ CaptureBegins \/ CaptureFails \/ (\E w \in Runs : WorkerStep(w))
       PROVE  BoundsSuffice'
  <2>1. waiting' = waiting /\ control' = control
    BY <1>20, <1>22 DEF vars, CloseWindow, RequestExit, Delete, CaptureStart, CaptureBegins, CaptureFails
  <2>. QED BY <1>21, <2>1
<1>23. CASE ControlStep
  BY <1>9, <1>10, <1>11, <1>17, <1>18, <1>13, <1>14, <1>15, <1>16, <1>23 DEF ControlStep
<1>. QED BY <1>8, <1>19, <1>22, <1>23 DEF Next

-----------------------------------------------------------------------------
(* The theorems. *)

\* In the beginning nothing runs, nothing is shown and nothing is saved.
LEMMA CaptionInvariantInit == Init => CaptionInvariant
<1>. SUFFICES ASSUME Init PROVE CaptionInvariant
  OBVIOUS
<1>1. /\ status = [session |-> None, state |-> "", generation |-> 0, final |-> 0, heard |-> 0, partial |-> None]
      /\ history = [s \in Sessions |-> "none"] /\ texts = [s \in Sessions |-> <<>>]
      /\ service = [run |-> None, generation |-> 0, halt |-> None, exiting |-> FALSE, ended |-> FALSE]
      /\ waiting = {} /\ control = [fn |-> None, at |-> None, run |-> None]
      /\ workers = [w \in Runs |-> Unused] /\ abandoned = {}
      /\ capture = [queued |-> None, by |-> None, on |-> FALSE, sender |-> None]
      /\ flags = [ready |-> FALSE, error |-> FALSE]
  BY DEF Init, Idle, Off
<1>2. /\ MaxTexts \in Nat /\ 0 \in 0..MaxTexts
      /\ None \notin Fns /\ None \notin Points
  BY CaptionAssumption DEF Fns, Points
<1>3. \A w \in Runs : ~Used(w) /\ ~Alive(w) /\ workers[w] = Unused
  BY <1>1 DEF Used, Alive, Unused
<1>4. /\ \A s \in Sessions : texts[s] = <<>> /\ DOMAIN texts[s] = {}
       /\ <<>> \in Seq(Texts)
  <2>1. \A s \in Sessions : texts[s] = <<>>
    BY <1>1
  <2>2. DOMAIN <<>> = {}
    OBVIOUS
  <2>3. <<>> \in Seq(Texts)
    OBVIOUS
  <2>. QED BY <2>1, <2>2, <2>3
<1>5. Typed
  <2>1. Unused \in Workers
    BY DEF Unused, Workers
  <2>2. [s \in Sessions |-> <<>>] \in [Sessions -> Seq(Texts)]
    BY <1>4
  <2>3. texts \in [Sessions -> Seq(Texts)]
    BY <1>1, <2>2
  <2>4. status \in Statuses
    BY <1>1 DEF Statuses
  <2>5. history \in [Sessions -> Active \cup {"none", "stopped", "failed", "deleted"}]
    BY <1>1
  <2>6. workers \in [Runs -> Workers]
    BY <1>1, <2>1
  <2>7. /\ service \in [run : Runs \cup {None}, generation : Nat, halt : {"stop", "exit", None},
                        exiting : BOOLEAN, ended : BOOLEAN]
        /\ control \in [fn : Fns \cup {None}, at : Points \cup {None}, run : Runs \cup {None}]
        /\ capture \in [queued : Runs \cup {None}, by : Runs \cup {None}, on : BOOLEAN,
                        sender : Runs \cup {None}]
        /\ flags \in [ready : BOOLEAN, error : BOOLEAN]
    BY <1>1
  <2>. QED BY <1>1, <1>3, <2>3, <2>4, <2>5, <2>6, <2>7 DEF Typed
<1>6. LockMatchesCall
  BY <1>1, <1>2 DEF LockMatchesCall, Points
<1>7. RunsInOrder /\ NoneForgotten
  BY <1>1, <1>3 DEF RunsInOrder, NoneForgotten
<1>8. SessionsBegin
  BY <1>1, <1>2 DEF SessionsBegin, Points
<1>9. HandIsShown
  BY <1>1 DEF HandIsShown, InHand
<1>10. TextsAreNumbered
  <2>1. Number(0, 0) = 0 /\ 0 \in 0..0
    BY <1>2, Numbers DEF Number, Epoch
  <2>2. status.generation = 0 /\ status.final = 0 /\ status.session = None /\ service.generation = 0
    BY <1>1
  <2>. QED BY <1>2, <1>4, <2>1, <2>2 DEF TextsAreNumbered
<1>11. PartialFollows /\ CaptureIsSupervised
  BY <1>1 DEF PartialFollows, CaptureIsSupervised
<1>12. BoundsSuffice
  <2>1. NeedRun = {} /\ NeedSession = {}
    BY <1>1, <1>2 DEF NeedRun, NeedSession, Holding, Fns
  <2>2. Cardinality(NeedRun) = 0 /\ Cardinality(NeedSession) = 0
    BY <2>1, FS_EmptySet
  <2>3. Cardinality(Unstarted) \in Nat /\ Cardinality(NewSessions) \in Nat
    BY <1>5, BoundsAreFinite, FS_CardinalityType
  <2>. QED BY <2>2, <2>3 DEF BoundsSuffice
<1>13. TextsInOrder
  BY <1>4 DEF TextsInOrder
<1>14. FinalsAreSaved
  BY <1>3 DEF FinalsAreSaved, Unused
<1>. QED BY <1>5, <1>6, <1>7, <1>8, <1>9, <1>10, <1>11, <1>12, <1>13, <1>14 DEF CaptionInvariant

\* Every step of Live Caption keeps the invariant, a part at a time.
LEMMA CaptionInvariantStep == CaptionInvariant /\ [Next]_vars => CaptionInvariant'
<1>. SUFFICES ASSUME CaptionInvariant, [Next]_vars PROVE CaptionInvariant'
  OBVIOUS
<1>1. Typed' /\ LockMatchesCall' /\ RunsInOrder' /\ NoneForgotten'
  BY TypedStep, LockStep, OrderStep, NoneForgottenStep
<1>2. SessionsBegin' /\ HandIsShown' /\ TextsAreNumbered' /\ PartialFollows'
  BY SessionsStep, HandStep, NumberedStep, PartialStep
<1>3. CaptureIsSupervised' /\ BoundsSuffice' /\ TextsInOrder' /\ FinalsAreSaved'
  BY CaptureStep, BoundsStep, TextsOrderStep, FinalsStep
<1>. QED BY <1>1, <1>2, <1>3 DEF CaptionInvariant

\* Whatever the helpers say, the storage refuses and the calls stop waiting for, the
\* invariant holds in every state.
THEOREM CaptionInvariantHolds == Spec => []CaptionInvariant
BY CaptionInvariantInit, CaptionInvariantStep, PTL DEF Spec

\* Every state has its type, and no more than one run is waited for or in hand: every
\* other supervisor that still runs is one a stop gave up.
THEOREM TypeIsCorrect == Spec => []TypeOK
<1>1. CaptionInvariant => TypeOK
  <2>. SUFFICES ASSUME CaptionInvariant PROVE TypeOK
    OBVIOUS
  <2>1. Typed /\ NoneForgotten
    BY DEF CaptionInvariant
  <2>2. \A w \in Runs : workers[w].at \notin {"unused", "done"} => w \in {service.run, control.run} \cup abandoned
    BY <2>1 DEF NoneForgotten, Alive, InHand
  <2>3. /\ status.session \in Sessions \cup {None} /\ status.generation \in Nat
        /\ status.state \in Active \cup {"", "stopped", "failed"}
        /\ status.final \in Nat /\ status.heard \in Nat /\ status.partial \in Texts \cup {None}
    BY <2>1 DEF Typed, Statuses
  <2>4. /\ service.run \in Runs \cup {None} /\ service.generation \in Nat
        /\ control.run \in Runs \cup {None}
        /\ {capture.queued, capture.by, capture.sender} \subseteq Runs \cup {None}
    BY <2>1 DEF Typed
  <2>. QED BY <2>1, <2>2, <2>3, <2>4 DEF TypeOK, Typed, Fns
<1>. QED BY <1>1, CaptionInvariantHolds, PTL

\* What a helper finished is in the table of its session, unless the run failed, the session
\* was deleted or nobody waits for the run any more.
THEOREM FinalsAreSavedHolds == Spec => []FinalsAreSaved
<1>1. CaptionInvariant => FinalsAreSaved
  BY DEF CaptionInvariant
<1>. QED BY <1>1, CaptionInvariantHolds, PTL

\* The texts of a session stand in the order they were spoken, each once and each of a run of it.
THEOREM TextsInOrderHolds == Spec => []TextsInOrder
<1>1. CaptionInvariant => TextsInOrder
  BY DEF CaptionInvariant
<1>. QED BY <1>1, CaptionInvariantHolds, PTL

\* The text that may still change is of the session shown and follows all that it saved.
THEOREM OneProjectionHolds == Spec => []OneProjection
<1>1. CaptionInvariant => OneProjection
  <2>. SUFFICES ASSUME CaptionInvariant, status.partial # None PROVE
         /\ \A i \in DOMAIN texts[status.session] : texts[status.session][i].sequence < status.partial.sequence
         /\ workers[status.partial.run].session = status.session
         /\ status.state \in {"starting", "capturing"} \/ status.partial.run \in abandoned \/ StrayFailure
    BY DEF OneProjection
  <2>1. /\ status.partial.sequence = status.heard /\ status.heard > status.final
        /\ workers[status.partial.run].session = status.session
        /\ Showing \/ status.partial.run \in abandoned
    BY DEF CaptionInvariant, PartialFollows
  <2>2. /\ status \in Statuses /\ texts \in [Sessions -> Seq(Texts)] /\ workers \in [Runs -> Workers]
        /\ status.partial \in Texts
    BY DEF CaptionInvariant, Typed, Statuses
  <2>3. status.session # None
    <3>1. SUFFICES ASSUME status.session = None PROVE FALSE
      OBVIOUS
    <3>2. \A w \in Runs : ~Used(w)
      BY <3>1 DEF CaptionInvariant, RunsInOrder
    <3>3. abandoned = {}
      BY <3>2 DEF CaptionInvariant, RunsInOrder, Typed
    <3>4. ~Showing
      BY <3>1, <3>3 DEF CaptionInvariant, SessionsBegin, Showing, StrayFailure
    <3>. QED BY <2>1, <3>3, <3>4
  <2>4. \A i \in DOMAIN texts[status.session] : texts[status.session][i].sequence <= status.final
    BY <2>3 DEF CaptionInvariant, TextsAreNumbered
  <2>5. \A i \in DOMAIN texts[status.session] : texts[status.session][i].sequence \in Nat
    <3>1. texts[status.session] \in Seq(Texts)
      BY <2>2, <2>3 DEF Statuses
    <3>2. \A i \in DOMAIN texts[status.session] : texts[status.session][i] \in Texts
      BY <3>1
    <3>. QED BY <3>2 DEF Texts
  <2>6. status.final \in Nat /\ status.heard \in Nat
    BY <2>2 DEF Statuses
  <2>7. \A i \in DOMAIN texts[status.session] : texts[status.session][i].sequence < status.partial.sequence
    BY <2>1, <2>4, <2>5, <2>6
  <2>. QED BY <2>1, <2>7 DEF Showing
<1>. QED BY <1>1, CaptionInvariantHolds, PTL

\* Nothing is captured that the panel does not show, unless a stop gave the run up, or one that
\* it gave up reported its failure over what is shown.
THEOREM NoHiddenCaptureHolds == Spec => []NoHiddenCapture
<1>1. CaptionInvariant => NoHiddenCapture
  <2>. SUFFICES ASSUME CaptionInvariant, capture.by # None, capture.by \notin abandoned
       PROVE  \/ status.state \in {"starting", "capturing"} /\ workers[capture.by].session = status.session
              \/ StrayFailure
    BY DEF NoHiddenCapture
  <2>1. capture.by \in Runs /\ Alive(capture.by)
    BY DEF CaptionInvariant, Typed, CaptureIsSupervised, Alive
  <2>2. capture.by \in InHand
    BY <2>1 DEF CaptionInvariant, NoneForgotten
  <2>3. workers[capture.by].session = status.session /\ Showing
    BY <2>1, <2>2 DEF CaptionInvariant, HandIsShown
  <2>. QED BY <2>3 DEF Showing
<1>. QED BY <1>1, CaptionInvariantHolds, PTL
=============================================================================

---------------------------- MODULE LiveCaption ----------------------------
(***************************************************************************)
(* Live Caption: the session control (live_caption/mod.rs), the supervisor  *)
(* thread of every recognition helper (live_caption/runtime.rs), the native *)
(* capture as they use it, and the finished texts (live_caption/store.rs).  *)
(*                                                                         *)
(* Calls are serialized by the control lock, but windows that close halt    *)
(* the capture past it, every run has a worker of its own, and the capture, *)
(* its ready flag and its error flag are globals of the process.  A stop    *)
(* waits ten seconds for the worker it cancelled, and goes on without it.   *)
(*                                                                         *)
(* A text is the number of its utterance in the run; sequence numbers carry *)
(* the capture generation above it, as in the code.  Time is left out: the  *)
(* deadlines of a helper pass whenever they do.                             *)
(***************************************************************************)
EXTENDS Naturals, Sequences, FiniteSets

CONSTANTS
  MaxSessions,  \* caption sessions
  MaxRuns,      \* starts and resumes of the helper
  MaxTexts,     \* utterances of a run
  MaxCalls,     \* requests, window closings and deletions
  MaxFaults,    \* failures of assets, storage, capture and helper
  MaxStalls,    \* stops that stop waiting
  None          \* no session, run or text

ASSUME CaptionAssumption ==
  /\ {MaxSessions, MaxRuns, MaxTexts} \subseteq Nat \ {0}
  /\ {MaxCalls, MaxFaults, MaxStalls} \subseteq Nat
  /\ None \notin Nat \cup {"start", "resume", "pause", "stop", "exit"}
                      \cup {"wait", "settle", "create", "launch", "keep"}

VARIABLES
  status,     \* the status every window is shown
  history,    \* the table sessions
  texts,      \* the table segments, in the order of its ids
  service,    \* the run in hand, the generation, a halt on its way, and the exit
  waiting,    \* calls that wait for the control lock
  control,    \* the call that holds it
  workers,    \* the supervisor of every run, with what its helper said
  abandoned,  \* runs a stop no longer waited for
  capture,    \* the native capture: its start in the main queue, the run it is for, whether
              \* it delivers, and the run whose helper it writes to (AUDIO)
  flags,      \* CAPTURE_READY and CAPTURE_ERROR
  budget

vars == <<status, history, texts, service, waiting, control, workers, abandoned, capture, flags, budget>>

Sessions == 1..MaxSessions
Runs == 1..MaxRuns
Active == {"starting", "capturing", "paused"}

Epoch == MaxTexts + 1
Number(generation, n) == generation * Epoch + n
Text(w, n) == [run |-> w, n |-> n, sequence |-> Number(workers[w].generation, n)]
Texts == [run : Runs, n : 1..MaxTexts, sequence : Nat]

Unused == [at |-> "unused", session |-> None, generation |-> 0, ready |-> FALSE,
           cancel |-> FALSE, closed |-> FALSE, failed |-> FALSE, finals |-> {}]
Workers ==
  [at : {"unused", "loop", "begin", "tick", "ended", "reaped", "done"}, session : Sessions \cup {None},
   generation : Nat, ready : BOOLEAN, cancel : BOOLEAN, closed : BOOLEAN, failed : BOOLEAN,
   finals : SUBSET (1..MaxTexts)]

Off == [queued |-> None, by |-> None, on |-> FALSE, sender |-> None]

Spend(kind) == budget[kind] > 0 /\ budget' = [budget EXCEPT ![kind] = @ - 1]
NoFault == UNCHANGED budget

Idle == [fn |-> None, at |-> None, run |-> None]

-----------------------------------------------------------------------------

Init ==
  /\ status = [session |-> None, state |-> "", generation |-> 0, final |-> 0,
               heard |-> 0, partial |-> None]
  /\ history = [s \in Sessions |-> "none"]
  /\ texts = [s \in Sessions |-> <<>>]
  /\ service = [run |-> None, generation |-> 0, halt |-> None, exiting |-> FALSE, ended |-> FALSE]
  /\ waiting = {} /\ control = Idle
  /\ workers = [w \in Runs |-> Unused]
  /\ abandoned = {}
  /\ capture = Off
  /\ flags = [ready |-> FALSE, error |-> FALSE]
  /\ budget = [calls |-> MaxCalls, faults |-> MaxFaults, stalls |-> MaxStalls]

-----------------------------------------------------------------------------
(* Requests and windows. *)

Unstarted == {w \in Runs : workers[w].at = "unused"}
NewSessions == {s \in Sessions : history[s] = "none"}
Launching == Cardinality(waiting \cap {"start", "resume"}) + (IF control.fn = "start" THEN 1 ELSE 0)

\* The bounds leave a run and a session for every call that may need them.
Affordable(fn) ==
  /\ fn \in {"start", "resume"} => Launching < Cardinality(Unstarted)
  /\ fn = "start" => Launching < Cardinality(NewSessions)

\* caption_request; a start looks at the exit before it waits for the lock.
Ask(fn) ==
  /\ fn \notin waiting /\ Affordable(fn)
  /\ fn = "start" => ~service.exiting
  /\ waiting' = waiting \cup {fn}
  /\ Spend("calls")
  /\ UNCHANGED <<status, history, texts, service, control, workers, abandoned, capture, flags>>

Cancelled(w) == IF w = None THEN workers ELSE [workers EXCEPT ![w].cancel = TRUE]

\* halt runs on the main thread, past the control lock: it stops the capture, but not a
\* start that is still queued for this thread, and cancels the run afterwards.
Halt == service.halt = None /\ capture' = [Off EXCEPT !.queued = capture.queued]

CloseWindow ==
  /\ Halt
  /\ service' = [service EXCEPT !.halt = "stop"]
  /\ Spend("calls")
  /\ UNCHANGED <<status, history, texts, waiting, control, workers, abandoned, flags>>

RequestExit ==
  /\ ~service.exiting
  /\ Halt
  /\ service' = [service EXCEPT !.halt = "exit", !.exiting = TRUE]
  /\ Spend("calls")
  /\ UNCHANGED <<status, history, texts, waiting, control, workers, abandoned, flags>>

\* The rest of halt; then a task asks for the stop.
HaltRun ==
  /\ service.halt # None
  /\ workers' = Cancelled(service.run)
  /\ waiting' = waiting \cup {service.halt}
  /\ service' = [service EXCEPT !.halt = None]
  /\ UNCHANGED <<status, history, texts, control, abandoned, capture, flags, budget>>

\* Request::Delete, under the status lock.
Delete(s) ==
  /\ history[s] \notin {"none", "deleted"}
  /\ ~(status.session = s /\ status.state \in Active)
  /\ history' = [history EXCEPT ![s] = "deleted"]
  /\ texts' = [texts EXCEPT ![s] = <<>>]
  /\ Spend("calls")
  /\ UNCHANGED <<status, service, waiting, control, workers, abandoned, capture, flags>>

-----------------------------------------------------------------------------
(* The call that holds the control lock. *)

Release == control' = Idle
Go(at) == control' = [control EXCEPT !.at = at]

\* A new helper with its pipes, threads and ingress; the flags are reset.
Launch(w, s, generation) ==
  /\ workers' = [workers EXCEPT ![w] = [Unused EXCEPT !.at = "loop", !.session = s, !.generation = generation]]
  /\ flags' = [ready |-> FALSE, error |-> FALSE]
  /\ capture' = [capture EXCEPT !.sender = w]

First(S) == CHOOSE x \in S : \A y \in S : x <= y

\* Mutant: the second run of a session keeps the generation of the first.
ResumeSame ==
  /\ control.fn = None /\ "resume" \in waiting /\ status.state = "paused"
  /\ waiting' = waiting \ {"resume"}
  /\ Launch(First(Unstarted), status.session, service.generation)
  /\ status' = [status EXCEPT !.generation = service.generation, !.state = "starting"]
  /\ control' = [fn |-> "resume", at |-> "keep", run |-> First(Unstarted)]
  /\ NoFault
  /\ UNCHANGED <<history, texts, service, abandoned>>

\* Request::Resume, under the status lock; a failed launch has used the generation up.
Resume ==
  LET generation == service.generation + 1 IN
  /\ control.fn = None /\ "resume" \in waiting /\ status.state = "paused"
  /\ waiting' = waiting \ {"resume"}
  /\ service' = [service EXCEPT !.generation = generation]
  /\ \/ /\ Launch(First(Unstarted), status.session, generation)
        /\ status' = [status EXCEPT !.generation = generation, !.state = "starting"]
        /\ control' = [fn |-> "resume", at |-> "keep", run |-> First(Unstarted)]
        /\ NoFault
     \/ Spend("faults") /\ UNCHANGED <<status, control, workers, flags, capture>>
  /\ UNCHANGED <<history, texts, abandoned>>

\* A start of an active session opens its window; a resume needs a paused one.
Refuse(fn) ==
  /\ control.fn = None /\ fn \in waiting
  /\ \/ fn = "start" /\ status.state \in Active
     \/ fn = "resume" /\ status.state # "paused"
  /\ waiting' = waiting \ {fn}
  /\ UNCHANGED <<status, history, texts, service, control, workers, abandoned, capture, flags, budget>>

\* Whoever gets the lock stops: the capture ends at once, and then the worker is told.
Acquire(fn) ==
  /\ control.fn = None /\ fn \in waiting \ {"resume"}
  /\ fn = "start" => status.state \notin Active
  /\ waiting' = waiting \ {fn}
  /\ control' = [fn |-> fn, at |-> "stop", run |-> None]
  /\ capture' = Off
  /\ UNCHANGED <<status, history, texts, service, workers, abandoned, flags, budget>>

StopRun ==
  /\ control.at = "stop"
  /\ workers' = Cancelled(service.run)
  /\ service' = [service EXCEPT !.run = None]
  /\ control' = [control EXCEPT !.at = IF service.run = None THEN "settle" ELSE "wait", !.run = service.run]
  /\ UNCHANGED <<status, history, texts, waiting, abandoned, capture, flags, budget>>

\* Mutant: nobody waits for the worker.
AwaitNothing ==
  /\ control.at = "wait"
  /\ control' = [control EXCEPT !.at = "settle", !.run = None]
  /\ NoFault /\ UNCHANGED abandoned
  /\ UNCHANGED <<status, history, texts, service, waiting, workers, capture, flags>>

\* Its end is awaited for ten seconds.
AwaitWorker ==
  /\ control.at = "wait"
  /\ control' = [control EXCEPT !.at = "settle", !.run = None]
  /\ \/ workers[control.run].at = "done" /\ NoFault /\ UNCHANGED abandoned
     \/ Spend("stalls") /\ abandoned' = abandoned \cup {control.run}
  /\ UNCHANGED <<status, history, texts, service, waiting, workers, capture, flags>>

Settled == IF control.fn = "pause" THEN "paused" ELSE "stopped"

\* The rest of stop.  It fails when storage does, and when the session shown was deleted: its interval
\* would refer to no session.  The exit goes on whatever stop says.
Settle ==
  LET s == status.session
      Ended == IF control.fn = "start" THEN Go("create") ELSE Release
  IN
  /\ control.at = "settle"
  /\ service' = [service EXCEPT !.ended = control.fn = "exit"]
  /\ \/ s = None /\ Ended /\ NoFault /\ UNCHANGED <<history, status>>
     \/ /\ s # None /\ history[s] # "deleted"
        /\ history' = [history EXCEPT ![s] = Settled]
        /\ status' = [status EXCEPT !.state = Settled, !.partial = None]
        /\ Ended /\ NoFault
     \/ /\ s # None
        /\ IF history[s] = "deleted" THEN NoFault ELSE Spend("faults")
        /\ Release /\ UNCHANGED <<history, status>>
  /\ UNCHANGED <<texts, waiting, workers, abandoned, capture, flags>>

\* The rest of Request::Start: assets, a new session, the helper.
Create ==
  LET s == First(NewSessions) IN
  /\ control.at = "create"
  /\ \/ /\ history' = [history EXCEPT ![s] = "starting"]
        /\ status' = [session |-> s, state |-> "starting", generation |-> 0, final |-> 0,
                      heard |-> 0, partial |-> None]
        /\ Go("launch") /\ NoFault
     \/ /\ history' \in {history, [history EXCEPT ![s] = "starting"]}
        /\ Release /\ Spend("faults") /\ UNCHANGED status
  /\ UNCHANGED <<texts, service, waiting, workers, abandoned, capture, flags>>

\* A failed launch is shown only once it is stored, which a deleted session refuses.
LaunchNew ==
  /\ control.at = "launch"
  /\ \/ /\ Launch(First(Unstarted), status.session, 0)
        /\ control' = [control EXCEPT !.at = "keep", !.run = First(Unstarted)]
        /\ NoFault /\ UNCHANGED <<history, status>>
     \/ /\ \/ UNCHANGED <<history, status>>
           \/ /\ history[status.session] # "deleted"
              /\ history' = [history EXCEPT ![status.session] = "failed"]
              /\ status' = [status EXCEPT !.state = "failed"]
        /\ Release /\ Spend("faults") /\ UNCHANGED <<workers, flags, capture>>
  /\ UNCHANGED <<texts, service, waiting, abandoned>>

\* Only now can a halt find the run.
Keep ==
  /\ control.at = "keep"
  /\ service' = [service EXCEPT !.run = control.run]
  /\ Release
  /\ UNCHANGED <<status, history, texts, waiting, workers, abandoned, capture, flags, budget>>

-----------------------------------------------------------------------------
(* The native capture. *)

\* The main thread gets to the start it was sent.
CaptureStart ==
  /\ capture.queued # None /\ service.halt = None
  /\ capture' = [capture EXCEPT !.queued = None, !.by = capture.queued, !.on = FALSE]
  /\ UNCHANGED <<status, history, texts, service, waiting, control, workers, abandoned, flags, budget>>

\* Permissions and devices answer some time after the worker asked.
CaptureBegins ==
  /\ capture.by # None /\ ~capture.on
  /\ capture' = [capture EXCEPT !.on = TRUE]
  /\ flags' = [flags EXCEPT !.ready = TRUE]
  /\ UNCHANGED <<status, history, texts, service, waiting, control, workers, abandoned, budget>>

\* A denied permission, a lost device, a gap, a full queue, a suspended system.
CaptureFails ==
  /\ capture.by # None
  /\ capture' \in {capture, [capture EXCEPT !.by = None, !.on = FALSE]}
  /\ flags' = [flags EXCEPT !.error = TRUE]
  /\ Spend("faults")
  /\ UNCHANGED <<status, history, texts, service, waiting, control, workers, abandoned>>

-----------------------------------------------------------------------------
(* The worker of a run. *)

In(w, at) == workers[w].at = at
Worker(w, record) == workers' = [workers EXCEPT ![w] = record]
SameCalls == UNCHANGED <<service, waiting, control, abandoned>>

\* The capture is there and the panel does not say so yet: the bottom of the loop does.
Begins == flags.ready /\ status.state = "starting"
Onward == IF Begins THEN "tick" ELSE "loop"

\* The top of the loop: a capture error, or the ready timeout, fails the run; the first
\* look at a cancelled run closes the capture.
Supervise(w) ==
  LET failed == workers[w].failed \/ flags.error IN
  /\ In(w, "loop")
  /\ failed # workers[w].failed \/ (workers[w].cancel /\ ~workers[w].closed)
  /\ Worker(w, [workers[w] EXCEPT !.failed = failed, !.cancel = TRUE, !.closed = TRUE])
  /\ capture' = IF workers[w].closed THEN capture ELSE Off
  /\ SameCalls /\ UNCHANGED <<status, history, texts, flags, budget>>

ReadyTimeout(w) ==
  /\ In(w, "loop") /\ ~workers[w].ready /\ ~workers[w].cancel
  /\ Worker(w, [workers[w] EXCEPT !.failed = TRUE, !.cancel = TRUE, !.closed = TRUE])
  /\ capture' = Off
  /\ SameCalls /\ UNCHANGED <<status, history, texts, flags, budget>>

\* Mutant: a helper that does not end is waited for.
DeadlineNever(w) == FALSE /\ UNCHANGED vars

\* Eight seconds after the capture was closed.
Deadline(w) ==
  /\ In(w, "loop") /\ workers[w].closed
  /\ Worker(w, [workers[w] EXCEPT !.failed = TRUE, !.at = "ended"])
  /\ SameCalls /\ UNCHANGED <<status, history, texts, capture, flags, budget>>

\* The helper has loaded; the cancellation is looked at before the capture begins.
EngineReady(w) ==
  /\ In(w, "loop") /\ ~workers[w].ready /\ ~workers[w].cancel
  /\ Worker(w, [workers[w] EXCEPT !.at = "begin"])
  /\ SameCalls /\ UNCHANGED <<status, history, texts, capture, flags, budget>>

BeginCapture(w) ==
  /\ In(w, "begin")
  /\ Worker(w, [workers[w] EXCEPT !.ready = TRUE, !.at = Onward])
  /\ capture' = [capture EXCEPT !.queued = w]
  /\ SameCalls /\ UNCHANGED <<status, history, texts, flags, budget>>

\* Mutant: generations are enough to tell captures apart.
CurrentGeneration(w, text) == status.generation = text.sequence \div Epoch

\* The guards of accept_partial and accept_final.
Current(w, text) ==
  /\ status.session = workers[w].session
  /\ status.generation = text.sequence \div Epoch

Speaking(w) == In(w, "loop") /\ workers[w].ready

Heard(w, text) ==
  status' = IF Current(w, text) /\ text.sequence > status.final /\ text.sequence >= status.heard
            THEN [status EXCEPT !.heard = text.sequence, !.partial = text] ELSE status

\* A hypothesis of any utterance, late or early: tests.rs drives the service that way.
\* An utterance that has no words after all gets an empty one, a text like the others
\* here, and no final.
Partial(w) ==
  /\ Speaking(w)
  /\ \E n \in 1..MaxTexts : Heard(w, Text(w, n))
  /\ Worker(w, [workers[w] EXCEPT !.at = Onward])
  /\ SameCalls /\ UNCHANGED <<history, texts, capture, flags, budget>>

\* append: INSERT OR IGNORE
Appended(s, text) ==
  IF \E i \in DOMAIN texts[s] : texts[s][i].sequence = text.sequence
  THEN texts ELSE [texts EXCEPT ![s] = Append(@, text)]

\* Mutant: the partial stays when its final is saved.
SavedKeeping(text) == [status EXCEPT !.final = text.sequence]

Saved(text) ==
  [status EXCEPT !.final = text.sequence, !.partial = IF status.heard <= text.sequence THEN None ELSE @]

\* accept_final, under the status lock and then the storage lock.
Final(w) ==
  \E n \in 1..MaxTexts :
    LET text == Text(w, n)
        spoken == [workers[w] EXCEPT !.at = Onward, !.finals = @ \cup {n}]
        fresh == Current(w, text) /\ text.sequence > status.final
    IN
    /\ Speaking(w) /\ \A m \in workers[w].finals : m < n
    /\ \/ ~fresh /\ Worker(w, spoken) /\ NoFault /\ UNCHANGED <<status, texts>>
       \/ /\ fresh /\ history[status.session] # "deleted"
          /\ texts' = Appended(status.session, text)
          /\ status' = Saved(text)
          /\ Worker(w, spoken) /\ NoFault
       \/ /\ fresh
          /\ IF history[status.session] = "deleted" THEN NoFault ELSE Spend("faults")
          /\ Worker(w, [spoken EXCEPT !.failed = TRUE, !.cancel = TRUE])
          /\ UNCHANGED <<status, texts>>
    /\ SameCalls /\ UNCHANGED <<history, capture, flags>>

\* The helper ends when its input was closed, by whichever stop; nobody told this worker
\* to end yet, then its run has failed.
Stopped(w) ==
  /\ In(w, "loop") /\ capture.sender # w
  /\ Worker(w, [workers[w] EXCEPT !.failed = @ \/ ~workers[w].cancel, !.at = "ended"])
  /\ SameCalls /\ UNCHANGED <<status, history, texts, capture, flags, budget>>

\* It reports an error, breaks the protocol, or is gone, which is no failure of a run that
\* was told to end unless its exit code says so.
EngineFails(w) ==
  /\ In(w, "loop")
  /\ \/ Worker(w, [workers[w] EXCEPT !.failed = TRUE, !.cancel = TRUE, !.at = Onward])
     \/ \E failed \in {TRUE, ~workers[w].cancel} :
          Worker(w, [workers[w] EXCEPT !.failed = @ \/ failed, !.at = "ended"])
  /\ Spend("faults")
  /\ SameCalls /\ UNCHANGED <<status, history, texts, capture, flags>>

\* The bottom of the loop, after an event or a tenth of a second without one.
Tick(w) ==
  /\ In(w, "tick") \/ (In(w, "loop") /\ Begins)
  /\ status' = IF Begins THEN [status EXCEPT !.state = "capturing"] ELSE status
  /\ \/ /\ Begins => history[workers[w].session] # "deleted"
        /\ history' = IF Begins THEN [history EXCEPT ![workers[w].session] = "capturing"] ELSE history
        /\ Worker(w, [workers[w] EXCEPT !.at = "loop"]) /\ NoFault
     \/ /\ Begins
        /\ IF history[workers[w].session] = "deleted" THEN NoFault ELSE Spend("faults")
        /\ Worker(w, [workers[w] EXCEPT !.at = "loop", !.failed = TRUE, !.cancel = TRUE])
        /\ UNCHANGED history
  /\ SameCalls /\ UNCHANGED <<texts, capture, flags>>

\* The helper is killed and its threads are joined.
Leave(w) ==
  /\ In(w, "ended")
  /\ Worker(w, [workers[w] EXCEPT !.cancel = TRUE, !.at = "reaped"])
  /\ capture' = Off
  /\ SameCalls /\ UNCHANGED <<status, history, texts, flags, budget>>

\* A failure is shown and stored as far as storage allows, and whoever waits is told; the
\* locals of the thread end with it.
Report(w) ==
  LET s == workers[w].session IN
  /\ In(w, "reaped")
  /\ IF workers[w].failed
       THEN /\ status' = [status EXCEPT !.state = "failed", !.partial = None]
            /\ \/ history' = [history EXCEPT ![s] = IF @ = "deleted" THEN @ ELSE "failed"] /\ NoFault
               \/ Spend("faults") /\ UNCHANGED history
       ELSE UNCHANGED <<status, history, budget>>
  /\ Worker(w, [workers[w] EXCEPT !.at = "done", !.generation = 0, !.ready = FALSE, !.closed = FALSE])
  /\ capture' = Off
  /\ SameCalls /\ UNCHANGED <<texts, flags>>

-----------------------------------------------------------------------------

WorkerStep(w) ==
  \/ Supervise(w) \/ ReadyTimeout(w) \/ Deadline(w) \/ EngineReady(w) \/ BeginCapture(w)
  \/ Partial(w) \/ Final(w) \/ Stopped(w) \/ EngineFails(w)
  \/ Tick(w) \/ Leave(w) \/ Report(w)

ControlStep ==
  \/ Resume \/ (\E fn \in {"start", "resume"} : Refuse(fn))
  \/ (\E fn \in {"start", "pause", "stop", "exit"} : Acquire(fn))
  \/ StopRun \/ AwaitWorker \/ Settle \/ Create \/ LaunchNew \/ Keep

Next ==
  /\ ~service.ended
  /\ \/ \E fn \in {"start", "pause", "resume", "stop"} : Ask(fn)
     \/ CloseWindow \/ RequestExit \/ HaltRun
     \/ \E s \in Sessions : Delete(s)
     \/ ControlStep
     \/ CaptureStart \/ CaptureBegins \/ CaptureFails
     \/ \E w \in Runs : WorkerStep(w)

Spec == Init /\ [][Next]_vars

\* The threads of the process run; the helper and the capture may stay silent.
FairSpec ==
  /\ Spec
  /\ \A w \in Runs :
       WF_vars(~service.ended /\ (Supervise(w) \/ Deadline(w) \/ BeginCapture(w) \/ Tick(w) \/ Leave(w) \/ Report(w)))

-----------------------------------------------------------------------------
(* Properties. *)

\* Every state has its type, and only one run at a time is waited for or in hand.
TypeOK ==
  /\ status.session \in Sessions \cup {None} /\ status.generation \in Nat
  /\ status.state \in Active \cup {"", "stopped", "failed"}
  /\ status.final \in Nat /\ status.heard \in Nat /\ status.partial \in Texts \cup {None}
  /\ history \in [Sessions -> Active \cup {"none", "stopped", "failed", "deleted"}]
  /\ texts \in [Sessions -> Seq(Texts)]
  /\ service.run \in Runs \cup {None} /\ service.generation \in Nat
  /\ waiting \subseteq {"start", "pause", "resume", "stop", "exit"}
  /\ control.run \in Runs \cup {None}
  /\ workers \in [Runs -> Workers] /\ abandoned \subseteq Runs
  /\ {capture.queued, capture.by, capture.sender} \subseteq Runs \cup {None}
  /\ \A w \in Runs : workers[w].at \notin {"unused", "done"} => w \in {service.run, control.run} \cup abandoned

\* What a helper finished is saved, unless its run failed: no pause, resume or closing
\* window costs a final text.
FinalsAreSaved ==
  \A w \in Runs \ abandoned : \A n \in workers[w].finals :
    \/ workers[w].failed
    \/ history[workers[w].session] = "deleted"
    \/ \E i \in DOMAIN texts[workers[w].session] :
         texts[workers[w].session][i].run = w /\ texts[workers[w].session][i].n = n

\* The texts of a session are those of its own runs, in the order they were spoken, each
\* once, though a worker that nobody waits for any more may speak until it is killed,
\* while its session goes on in another run or another session has begun.
TextsInOrder ==
  \A s \in Sessions : \A i, j \in DOMAIN texts[s] :
    /\ workers[texts[s][i].run].session = s
    /\ i < j => \/ texts[s][i].run < texts[s][j].run
                \/ texts[s][i].run = texts[s][j].run /\ texts[s][i].n < texts[s][j].n

\* A run that outlived the ten seconds reports its failure as that of the run at hand.
StrayFailure == \E w \in abandoned : workers[w].at = "done" /\ workers[w].failed

\* The text that may still change continues the saved ones, never repeats them, and is
\* gone once the session is.
OneProjection ==
  status.partial # None =>
    /\ \A i \in DOMAIN texts[status.session] : texts[status.session][i].sequence < status.partial.sequence
    /\ workers[status.partial.run].session = status.session
    /\ status.state \in {"starting", "capturing"} \/ status.partial.run \in abandoned \/ StrayFailure

\* Nothing is captured unless the panel says so, of the session it shows: a window that
\* closes while the helper loads, a stop or an exit leave no capture behind.
NoHiddenCapture ==
  capture.by # None =>
    \/ status.state \in {"starting", "capturing"} /\ workers[capture.by].session = status.session
    \/ capture.by \in abandoned
    \/ StrayFailure

\* A helper that was told to end, or whose run failed, is killed and reaped, whether or
\* not it answers: its supervisor closes the capture and keeps the deadline.
WorkersEnd == \A w \in Runs : workers[w].cancel ~> (workers[w].at = "done" \/ service.ended)
=============================================================================

--------------------------- MODULE CaptionTranslator ---------------------------
(***************************************************************************)
(* The hidden window that translates captions (CaptionTranslator): it claims  *)
(* one segment at a time under a lease and completes it (store.rs), with an  *)
(* engine it makes when it needs one (BergamotWorker).                     *)
(***************************************************************************)
EXTENDS Naturals, FiniteSets, FiniteSetsExt

CONSTANTS
  None,
  Segments,                     \* identifiers of segments
  MaxVisits, MaxRetries,        \* bounds on how often translations are switched, and tried again
  MaxFailures, MaxNaps          \* and on failures, and on leases that run out

TranslatorAssumption ==
  /\ Segments \subseteq Nat /\ {MaxVisits, MaxRetries, MaxFailures, MaxNaps} \subseteq Nat
  /\ None \notin Nat \cup [id : Segments, lease : Nat] \cup [id : Segments, lease : Nat, chinese : BOOLEAN]

VARIABLES
  segments,                     \* the rows of the store
  leases,                       \* how many were given
  consumer,                     \* whether it is open, and its loop
  abandoned,                    \* jobs of loops that were disposed
  engine,                       \* the engine of the loop
  budget

vars == <<segments, leases, consumer, abandoned, engine, budget>>

Spend(what) == budget[what] > 0 /\ budget' = [budget EXCEPT ![what] = @ - 1]

Attempts == 3

-----------------------------------------------------------------------------
(* store.rs *)

\* Mutant: a segment is claimed although another claim of it lasts.
WaitingAny(row) == ~row.chinese /\ row.tries < Attempts

Waiting(row) == ~row.chinese /\ row.tries < Attempts /\ (row.lease = None \/ row.expired)

Claimed(i) == [segments EXCEPT ![i].tries = @ + 1, ![i].lease = leases, ![i].expired = FALSE]

\* A job only counts under the lease it was claimed with, while it lasts.
Completed(job, chinese) ==
  IF segments[job.id].lease = job.lease /\ ~segments[job.id].expired
  THEN [segments EXCEPT ![job.id] = [@ EXCEPT !.chinese = chinese, !.failed = ~chinese, !.lease = None]]
  ELSE segments

\* What is untranslated is tried again, unless a lease is on it.
Retry ==
  /\ Spend("retries")
  /\ segments' = [i \in Segments |-> IF ~segments[i].chinese /\ segments[i].lease = None
                                      THEN [segments[i] EXCEPT !.tries = 0, !.failed = FALSE] ELSE segments[i]]
  /\ UNCHANGED <<leases, consumer, abandoned, engine>>

\* A lease runs out after two minutes: of a loop that was disposed, or of a computer that slept.
Expire(i) ==
  /\ segments[i].lease # None /\ ~segments[i].expired
  /\ IF consumer.job # None /\ segments[i].lease = consumer.job.lease THEN Spend("naps") ELSE UNCHANGED budget
  /\ segments' = [segments EXCEPT ![i].expired = TRUE] /\ UNCHANGED <<leases, consumer, abandoned, engine>>

\* The desktop starts again: no lease of before counts.
Restart ==
  /\ Spend("visits")
  /\ segments' = [i \in Segments |-> IF segments[i].chinese THEN segments[i] ELSE [segments[i] EXCEPT !.lease = None, !.expired = FALSE]]
  /\ consumer' = [open |-> TRUE, step |-> "claim", job |-> None] /\ abandoned' = {} /\ engine' = FALSE
  /\ UNCHANGED leases

-----------------------------------------------------------------------------
(* CaptionTranslator *)

At(step, job) == consumer' = [consumer EXCEPT !.step = step, !.job = job]

Claim ==
  /\ consumer.open /\ consumer.step = "claim"
  /\ LET claimable == {i \in Segments : Waiting(segments[i])}
     IN /\ claimable # {}
        /\ segments' = Claimed(Min(claimable)) /\ leases' = leases + 1 /\ At("translate", [id |-> Min(claimable), lease |-> leases])
  /\ UNCHANGED <<abandoned, engine, budget>>

\* Nothing to translate for 90 seconds, or the store failed: the engine goes.
Drop ==
  /\ consumer.open /\ consumer.step = "claim" /\ engine /\ engine' = FALSE
  /\ UNCHANGED <<segments, leases, consumer, abandoned, budget>>

\* The engine answers, or fails or is silent for 90 seconds and is disposed.
Translate(chinese) ==
  /\ consumer.open /\ consumer.step = "translate"
  /\ consumer' = [consumer EXCEPT !.step = "complete", !.job = [id |-> @.id, lease |-> @.lease, chinese |-> chinese]]
  /\ engine' = chinese /\ IF chinese THEN UNCHANGED budget ELSE Spend("failures")
  /\ UNCHANGED <<segments, leases, abandoned>>

Complete ==
  /\ consumer.open /\ consumer.step = "complete"
  /\ segments' = Completed(consumer.job, consumer.job.chinese) /\ At("claim", None)
  /\ UNCHANGED <<leases, abandoned, engine, budget>>

NotCompleted ==
  /\ consumer.open /\ consumer.step = "complete" /\ Spend("failures")
  /\ At("claim", None) /\ engine' = FALSE /\ UNCHANGED <<segments, leases, abandoned>>

\* Translations are switched off: the loop ends where it is, and only a completion that was sent arrives;
\* switched on, another loop begins.
Switch ==
  /\ Spend("visits") /\ engine' = FALSE
  /\ abandoned' = abandoned \cup (IF consumer.step = "complete" THEN {consumer.job} ELSE {})
  /\ consumer' = [open |-> ~consumer.open, step |-> "claim", job |-> None]
  /\ UNCHANGED <<segments, leases>>

Arrives(job) ==
  /\ job \in abandoned /\ abandoned' = abandoned \ {job} /\ segments' \in {segments, Completed(job, job.chinese)}
  /\ UNCHANGED <<leases, consumer, engine, budget>>

-----------------------------------------------------------------------------

Init ==
  /\ segments = [i \in Segments |-> [chinese |-> FALSE, failed |-> FALSE, tries |-> 0, lease |-> None, expired |-> FALSE]]
  /\ leases = 1 /\ consumer = [open |-> TRUE, step |-> "claim", job |-> None] /\ abandoned = {} /\ engine = FALSE
  /\ budget = [visits |-> MaxVisits, retries |-> MaxRetries, failures |-> MaxFailures, naps |-> MaxNaps]

Loop == Claim \/ Complete \/ NotCompleted \/ \E chinese \in BOOLEAN : Translate(chinese)
Lapse == \E i \in Segments : Expire(i)

Next == Loop \/ Lapse \/ Drop \/ Retry \/ Restart \/ Switch \/ \E job \in abandoned : Arrives(job)

Spec == Init /\ [][Next]_vars /\ WF_vars(Loop) /\ WF_vars(Lapse)
-----------------------------------------------------------------------------
\* A row counts its tries up to the last one, and leases are numbered as they are given.
TypeOK ==
  /\ segments \in [Segments -> [chinese : BOOLEAN, failed : BOOLEAN, tries : 0..Attempts,
                                lease : 1..(leases - 1) \cup {None}, expired : BOOLEAN]]
  /\ leases \in Nat \ {0} /\ {consumer.open, engine} \subseteq BOOLEAN
  /\ \A job \in abandoned \cup ({consumer.job} \ {None}) : job.id \in Segments /\ job.lease < leases
  /\ \A what \in DOMAIN budget : budget[what] \in Nat

\* No lease is on two segments, a translated one has none, and the loop works on a segment that is not
\* translated, under the lease it was given last or under none that counts.  (One that was left under its
\* third lease stays as it is: Retry skips it, until the desktop starts again.)
TranslatorIsSound ==
  /\ TypeOK
  /\ \A i, j \in Segments : i # j /\ segments[i].lease # None => segments[i].lease # segments[j].lease
  /\ \A i \in Segments : /\ segments[i].chinese => segments[i].lease = None
                         /\ segments[i].lease # None => segments[i].tries \in 1..Attempts
  /\ consumer.job # None => LET row == segments[consumer.job.id] IN ~row.chinese /\ row.lease = consumer.job.lease

\* A lease that lasts is not given to another loop, and a translation is never written over.
LeasesLast ==
  \A i \in Segments :
    /\ segments[i].lease # None /\ ~segments[i].expired => segments'[i].lease \in {segments[i].lease, None}
    /\ segments[i].chinese => segments'[i] = segments[i]

\* While translations are wanted, every segment is translated or was tried three times.
Rests == consumer.open => \A i \in Segments : segments[i].chinese \/ segments[i].tries = Attempts
=============================================================================

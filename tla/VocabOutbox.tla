---------------------------- MODULE VocabOutbox ----------------------------
(***************************************************************************)
(* The delivery queue of vocabulary favorites (vocab_outbox.rs) and the     *)
(* Vocab application it delivers to (vocab_bridge.rs, from the outside).    *)
(*                                                                         *)
(* A click on the star puts a capture into a database; one worker claims a  *)
(* due capture, sends it and records the answer, each in a transaction of   *)
(* its own, so that the process can die, the storage fail and an answer get *)
(* lost between any two of them.                                            *)
(*                                                                         *)
(* A capture is sent under the request identity of its card.  Time is left   *)
(* out: a claim or a backoff is over whenever it is.                        *)
(***************************************************************************)
EXTENDS Naturals, FiniteSets

CONSTANTS
  Requests,    \* request identities
  Captures,    \* the favorites a user may ask for
  None,        \* no capture, no receipt
  MaxPending,  \* captures the queue admits
  Keep,        \* receipts of delivered captures that are kept
  Batch,       \* deliveries before the worker waits again
  MaxFaults    \* bound on failures of storage and delivery, and crashes

OutboxAssumption ==
  /\ None \notin Requests \cup Captures \cup {"saved", "queued", "error"}
  /\ {MaxPending, Keep, Batch} \subseteq Nat \ {0}
  /\ MaxFaults \in Nat

VARIABLES
  rows,       \* the table captures, by rowid
  worker,     \* the delivery thread
  seen,       \* the requests Vocab has carried out
  requested,  \* what the user clicked for every request identity
  shown,      \* the receipt its card follows
  faults      \* failures and crashes left

vars == <<rows, worker, seen, requested, shown, faults>>

Row(id, capture) == [id |-> id, capture |-> capture, state |-> "queued", due |-> TRUE]
Rows == [id : Requests, capture : Captures, state : {"queued", "saved", "error"}, due : BOOLEAN]

Waiting == [at |-> "wait", id |-> None, left |-> Batch, answer |-> None]
Workers ==
  [at : {"wait", "poll", "send", "record", "prune"}, id : Requests \cup {None},
   left : 0..Batch, answer : {"saved", "queued", "error", None}]

Indices(P(_)) == {i \in DOMAIN rows : P(rows[i])}
Unsaved == Indices(LAMBDA r : r.state # "saved")
IndexOf(id) == {i \in DOMAIN rows : rows[i].id = id}
StateOf(id) == {rows[i].state : i \in IndexOf(id)}

\* The rowid of the next capture.
Rowid == IF DOMAIN rows = {} THEN 1 ELSE 1 + CHOOSE i \in DOMAIN rows : \A j \in DOMAIN rows : j <= i

Fault == faults > 0 /\ faults' = faults - 1
NoFault == UNCHANGED faults

-----------------------------------------------------------------------------

Init ==
  /\ rows = <<>>
  /\ worker = Waiting
  /\ seen = {}
  /\ requested = [id \in Requests |-> None]
  /\ shown = [id \in Requests |-> None]
  /\ faults = MaxFaults

-----------------------------------------------------------------------------
(* The star. *)

\* Mutant: a failed capture does not count.
RoomForQueued == Cardinality(Indices(LAMBDA r : r.state = "queued")) < MaxPending

Room == Cardinality(Unsaved) < MaxPending

\* Mutant: a failed capture is not found by its content.
ExistingQueued(id, capture) ==
  IF IndexOf(id) # {} THEN IndexOf(id)
                      ELSE {i \in Unsaved : rows[i].capture = capture /\ rows[i].state = "queued"}

\* The capture a request is answered with: its own, or one of the same content that is
\* still to be delivered.
Existing(id, capture) ==
  IF IndexOf(id) # {} THEN IndexOf(id)
                      ELSE {i \in Unsaved : rows[i].capture = capture}

\* receipt: the transaction is committed, and reading what it left may fail.
Receipt(id, owner) ==
  \/ shown' = [shown EXCEPT ![id] = owner] /\ NoFault
  \/ Fault /\ UNCHANGED shown

\* enqueue: an explicit retry revives a failed capture under its old identity.
Enqueue(id, capture) ==
  \/ \E i \in Existing(id, capture) :
       /\ rows' = IF rows[i].state = "error" THEN [rows EXCEPT ![i].state = "queued", ![i].due = TRUE] ELSE rows
       /\ Receipt(id, rows[i].id)
  \/ /\ Existing(id, capture) = {} /\ Room
     /\ rows' = [i \in DOMAIN rows \cup {Rowid} |-> IF i = Rowid THEN Row(id, capture) ELSE rows[i]]
     /\ Receipt(id, id)

\* A card keeps its identity and capture; it asks again only after a failure.
Click(id, capture) ==
  /\ requested[id] \in {None, capture}
  /\ shown[id] = None \/ "error" \in StateOf(shown[id])
  /\ requested' = [requested EXCEPT ![id] = capture]
  /\ \/ Enqueue(id, capture)
     \/ Existing(id, capture) = {} /\ ~Room /\ UNCHANGED <<rows, shown, faults>>
     \/ Fault /\ UNCHANGED <<rows, shown>>
  /\ UNCHANGED <<worker, seen>>

-----------------------------------------------------------------------------
(* The worker. *)

Wait == worker' = Waiting

\* recv_timeout: a wake-up, or thirty seconds
WakeUp ==
  /\ worker.at = "wait"
  /\ worker' = [Waiting EXCEPT !.at = "poll"]
  /\ UNCHANGED <<rows, seen, requested, shown, faults>>

Due == Indices(LAMBDA r : r.state = "queued" /\ r.due)

\* Mutant: a storage failure ends the worker's loop.
ClaimOrStop ==
  /\ worker.at = "poll"
  /\ \/ /\ worker.left > 0 /\ NoFault
        /\ \E i \in Due :
             /\ \A j \in Due : i <= j
             /\ rows' = [rows EXCEPT ![i].due = FALSE]
             /\ worker' = [worker EXCEPT !.at = "send", !.id = rows[i].id, !.left = @ - 1]
     \/ (worker.left = 0 \/ Due = {}) /\ Wait /\ NoFault /\ UNCHANGED rows
     \/ Fault /\ worker' = [worker EXCEPT !.at = "stopped"] /\ UNCHANGED rows
  /\ UNCHANGED <<seen, requested, shown>>

\* The first transaction of deliver_one: the oldest due capture is claimed.
Claim ==
  /\ worker.at = "poll"
  /\ \/ /\ worker.left > 0 /\ NoFault
        /\ \E i \in Due :
             /\ \A j \in Due : i <= j
             /\ rows' = [rows EXCEPT ![i].due = FALSE]
             /\ worker' = [worker EXCEPT !.at = "send", !.id = rows[i].id, !.left = @ - 1]
     \/ (worker.left = 0 \/ Due = {}) /\ Wait /\ NoFault /\ UNCHANGED rows
     \/ Fault /\ Wait /\ UNCHANGED rows
  /\ UNCHANGED <<seen, requested, shown>>

Told(answer) == worker' = [worker EXCEPT !.at = "record", !.answer = answer]

\* exchange, with a Vocab that carries a request out once: an exact acknowledgment; no connection or no answer in time, whether or not
\* Vocab has acted; or an answer that is none.
Send ==
  /\ worker.at = "send"
  /\ \/ /\ seen' = seen \cup {worker.id}
        /\ \/ Told("saved") /\ NoFault
           \/ Fault /\ \E answer \in {"queued", "error"} : Told(answer)
     \/ Fault /\ (\E answer \in {"queued", "error"} : Told(answer)) /\ UNCHANGED seen
  /\ UNCHANGED <<rows, requested, shown>>

\* The answer is stored; when that fails the claim runs out and the capture is sent again.
Record ==
  /\ worker.at = "record"
  /\ \/ /\ rows' = [i \in DOMAIN rows |-> IF rows[i].id = worker.id
                                            THEN [rows[i] EXCEPT !.state = worker.answer, !.due = FALSE]
                                            ELSE rows[i]]
        /\ worker' = [worker EXCEPT !.at = IF worker.answer = "saved" THEN "prune" ELSE "poll"]
        /\ NoFault
     \/ Fault /\ Wait /\ UNCHANGED rows
  /\ UNCHANGED <<seen, requested, shown>>

Newer(i) == {j \in Indices(LAMBDA r : r.state = "saved") : i < j}

\* Mutant: the oldest captures go, delivered or not.
PruneOldest ==
  /\ worker.at = "prune"
  /\ rows' = [i \in {i \in DOMAIN rows : Cardinality({j \in DOMAIN rows : i < j}) < Keep} |-> rows[i]]
  /\ worker' = [worker EXCEPT !.at = "poll"] /\ NoFault
  /\ UNCHANGED <<seen, requested, shown>>

\* Receipts beyond the newest are deleted, in a statement of its own.
Prune ==
  /\ worker.at = "prune"
  /\ \/ /\ rows' = [i \in Unsaved \cup {i \in DOMAIN rows : Cardinality(Newer(i)) < Keep} |-> rows[i]]
        /\ worker' = [worker EXCEPT !.at = "poll"] /\ NoFault
     \/ Fault /\ Wait /\ UNCHANGED rows
  /\ UNCHANGED <<seen, requested, shown>>

-----------------------------------------------------------------------------
(* Time, the user and the process. *)

\* A claim or a backoff is over.
BecomeDue(i) ==
  /\ i \in DOMAIN rows /\ rows[i].state = "queued" /\ ~rows[i].due
  /\ rows' = [rows EXCEPT ![i].due = TRUE]
  /\ UNCHANGED <<worker, seen, requested, shown, faults>>

\* The process ends, and the next one starts a worker.
Restart ==
  /\ worker.at # "wait" /\ Wait
  /\ Fault
  /\ UNCHANGED <<rows, seen, requested, shown>>

-----------------------------------------------------------------------------

Work == WakeUp \/ Claim \/ Send \/ Record \/ Prune

Next ==
  \/ \E id \in Requests, capture \in Captures : Click(id, capture)
  \/ Work
  \/ \E i \in DOMAIN rows : BecomeDue(i)
  \/ Restart

Spec == Init /\ [][Next]_vars

\* The worker runs, and every claim and backoff ends.
FairSpec ==
  /\ Spec
  /\ WF_vars(Work)
  /\ \A id \in Requests : WF_vars(\E i \in IndexOf(id) : BecomeDue(i))

-----------------------------------------------------------------------------
(* Properties. *)

\* Every state has its type, and the queue its bound: a revived capture counts as well.
TypeOK ==
  /\ rows \in [DOMAIN rows -> Rows] /\ DOMAIN rows \subseteq Nat /\ IsFiniteSet(DOMAIN rows)
  /\ worker \in Workers
  /\ seen \subseteq Requests
  /\ requested \in [Requests -> Captures \cup {None}] /\ shown \in [Requests -> Requests \cup {None}]
  /\ Cardinality(Unsaved) <= MaxPending

\* No request is in the table twice, and no capture twice among what is to be delivered.
OneOutstanding ==
  \A i, j \in DOMAIN rows : i # j =>
    /\ rows[i].id # rows[j].id
    /\ {i, j} \subseteq Unsaved => rows[i].capture # rows[j].capture

\* Whatever fails on the way, a capture the user was given a receipt for stays in the
\* queue until Vocab has seen it: no crash loses it, none is pruned or reported saved
\* before, and no answer but an acknowledgment counts.
NothingIsLost ==
  \A id \in Requests : shown[id] # None =>
    (\E i \in IndexOf(shown[id]) : rows[i].state # "saved") \/ shown[id] \in seen

\* Every capture is delivered, or fails where the user sees it.
CapturesSettle == \A id \in Requests : "queued" \in StateOf(id) ~> "queued" \notin StateOf(id)
=============================================================================

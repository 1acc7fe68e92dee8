--------------------------- MODULE DocumentSave ---------------------------
(***************************************************************************)
(* The protocol that native document calls follow (document_save.rs,       *)
(* workspace_io.rs and the path mutations of main.rs and                   *)
(* workspace_entries.rs).                                                  *)
(*                                                                         *)
(* A write takes the lifecycle lock for reading, then the lock of its      *)
(* document (and, on macOS, file coordination); it snapshots the file,     *)
(* checks it against the request, stages the new bytes in a temporary      *)
(* file, snapshots again and refuses if anything moved, and then links or  *)
(* renames the temporary file into place and synchronises the directory.   *)
(* A path mutation takes the lifecycle lock for writing.  Other programs   *)
(* change files at any time; a power failure may undo what no directory    *)
(* synchronisation has made durable.  All paths are in one directory.      *)
(***************************************************************************)
EXTENDS DocumentRequests

CONSTANTS
  Coordinated,  \* TRUE: other programs write through the system's file coordination
  MaxCalls,     \* bound: native calls
  MaxForeign,   \* bound: changes made by other programs
  MaxOutages    \* bound: power failures

ASSUME CoordinatedAssumption == Coordinated \in BOOLEAN
ASSUME BoundsAssumption == MaxCalls \in Nat /\ MaxForeign \in Nat /\ MaxOutages \in Nat

\* stamp stands for the inode, owner, mode and change time that unchanged()
\* compares: every write gives the file a fresh one.
Absent == [content |-> NoFile, stamp |-> 0]
Files == [content : Contents, stamp : Nat] \cup {Absent}

VARIABLES
  folder,     \* the file at every path
  disk,       \* the states of the folder a power failure may fall back to
  pc,         \* per caller: how far its call has come, or the answer it got
  call,       \* per caller: its request
  seen,       \* per caller: the snapshot the call decided on
  checkedAt,  \* history variable: per caller, the clock when it checked that snapshot again
  clock,      \* source of stamps
  promised,   \* history variable: paths whose present version was acknowledged as written
  budget      \* bound: calls, foreign changes and outages still allowed

vars == <<folder, disk, pc, call, seen, checkedAt, clock, promised, budget>>

Answered == {"idle", "ok", "refused", "uncertain"}
HoldsDocument == {"locked", "compared", "staged", "checked", "replaced"}
HoldsAccess == {"admitted"} \cup HoldsDocument
HoldsMutation == {"exclusive", "cleared"}
Points == Answered \cup {"waiting"} \cup HoldsAccess \cup HoldsMutation

Visible(f) == [p \in Paths |-> f[p].content]

\* Mutant: a removed file keeps an identity.
WrittenAlways(v) == [content |-> v, stamp |-> clock + 1]

\* The file a write or a foreign change leaves behind.
Written(v) == IF v = NoFile THEN Absent ELSE [content |-> v, stamp |-> clock + 1]

\* The folder changes: its former states stay possible after a power failure.
Changes(f, touched) ==
  /\ folder' = f
  /\ disk' = disk \cup {Visible(f)}
  /\ clock' = clock + 1
  /\ promised' = promised \ touched

SameFolder == UNCHANGED <<folder, disk, clock, promised>>

\* A step of a call, and its answer: the caller's frame is gone with it.
Goto(c, point) ==
  /\ pc' = [pc EXCEPT ![c] = point]
  /\ UNCHANGED call

Answer(c, told) ==
  /\ pc' = [pc EXCEPT ![c] = told]
  /\ call' = [call EXCEPT ![c] = NoCall]
  /\ seen' = [seen EXCEPT ![c] = Absent]
  /\ checkedAt' = [checkedAt EXCEPT ![c] = 0]

SameFrame == UNCHANGED <<seen, checkedAt>>

File(c) == folder[call[c].path]

Init ==
  /\ \E fs \in [Paths -> Versions] :
       /\ folder = [p \in Paths |->
                      IF fs[p] = NoFile THEN Absent ELSE [content |-> fs[p], stamp |-> 1]]
       /\ disk = {fs}
  /\ pc = [c \in Callers |-> "idle"]
  /\ call = [c \in Callers |-> NoCall]
  /\ seen = [c \in Callers |-> Absent]
  /\ checkedAt = [c \in Callers |-> 0]
  /\ clock = 1
  /\ promised = {}
  /\ budget = [calls |-> MaxCalls, foreign |-> MaxForeign, outages |-> MaxOutages]

Invoke(c) ==
  /\ pc[c] \in Answered
  /\ budget.calls > 0
  /\ budget' = [budget EXCEPT !.calls = @ - 1]
  /\ \E r \in Requests : call' = [call EXCEPT ![c] = r]
  /\ pc' = [pc EXCEPT ![c] = "waiting"]
  /\ SameFrame
  /\ SameFolder

-----------------------------------------------------------------------------
(* Writes. *)

\* workspace_io::document_access; create_workspace_markdown then looks for the
\* file before it asks for the document lock.
AdmitWrite(c) ==
  /\ pc[c] = "waiting"
  /\ call[c] \in Writes
  /\ \A d \in Callers : pc[d] \notin HoldsMutation
  /\ IF call[c].op = "create" /\ File(c) # Absent
       THEN Answer(c, "refused")
       ELSE Goto(c, "admitted") /\ SameFrame
  /\ SameFolder
  /\ UNCHANGED budget

\* with_document_lock: stripes shared by several documents only add waiting.
Lock(c) ==
  /\ pc[c] = "admitted"
  /\ \A d \in Callers : pc[d] \in HoldsDocument => call[d].path # call[c].path
  /\ Goto(c, "locked")
  /\ SameFrame
  /\ SameFolder
  /\ UNCHANGED budget

\* apply_sync_change: the file must be the one the plan saw.  A deletion has
\* nothing to stage and goes straight to its second snapshot.
CompareDownload(c) ==
  /\ pc[c] = "locked"
  /\ call[c].op = "download"
  /\ IF File(c).content # call[c].expected
       THEN Answer(c, "refused")
     ELSE IF call[c].content # NoFile
       THEN Goto(c, "compared") /\ SameFrame
     ELSE /\ Goto(c, "staged")
          /\ seen' = [seen EXCEPT ![c] = File(c)]
          /\ UNCHANGED checkedAt
  /\ SameFolder
  /\ UNCHANGED budget

\* save_coordinated: the original snapshot, its checks, and the staged bytes.
Stage(c) ==
  /\ \/ pc[c] = "locked" /\ call[c].op # "download"
     \/ pc[c] = "compared"
  /\ IF Accepts(call[c], File(c).content)
       THEN /\ Goto(c, "staged")
            /\ seen' = [seen EXCEPT ![c] = File(c)]
            /\ UNCHANGED checkedAt
       ELSE Answer(c, "refused")
  /\ SameFolder
  /\ UNCHANGED budget

\* Writing or synchronising the temporary file fails; it is removed again.
FailStaging(c) ==
  /\ pc[c] = "staged"
  /\ Answer(c, "refused")
  /\ SameFolder
  /\ UNCHANGED budget

\* Mutant: a file that changed is waited for instead of refused.
RecheckWaits(c) ==
  /\ pc[c] = "staged"
  /\ File(c) = seen[c]
  /\ Goto(c, "checked")
  /\ checkedAt' = [checkedAt EXCEPT ![c] = clock]
  /\ UNCHANGED seen
  /\ SameFolder
  /\ UNCHANGED budget

\* Mutant: the file is not looked at again before it is replaced.
RecheckNothing(c) ==
  /\ pc[c] = "staged"
  /\ Goto(c, "checked")
  /\ checkedAt' = [checkedAt EXCEPT ![c] = clock]
  /\ UNCHANGED seen
  /\ SameFolder
  /\ UNCHANGED budget

\* The second snapshot must be the first one, unchanged.
Recheck(c) ==
  /\ pc[c] = "staged"
  /\ IF File(c) = seen[c]
       THEN /\ Goto(c, "checked")
            /\ checkedAt' = [checkedAt EXCEPT ![c] = clock]
            /\ UNCHANGED seen
       ELSE Answer(c, "refused")
  /\ SameFolder
  /\ UNCHANGED budget

\* The new version appears at the path.
Put(c) == Changes([folder EXCEPT ![call[c].path] = Written(call[c].content)], {call[c].path})

\* Mutant: a new file is renamed into place like a replacement.
PublishByRename(c) ==
  /\ pc[c] = "checked"
  /\ IF call[c].content = NoFile /\ File(c) = Absent
       THEN Answer(c, "refused") /\ SameFolder
       ELSE Goto(c, "replaced") /\ SameFrame /\ Put(c)
  /\ UNCHANGED budget

\* A new file is linked, which fails when the path exists; an existing one is
\* replaced by rename, or removed, whatever it has become since the recheck.
Publish(c) ==
  /\ pc[c] = "checked"
  /\ LET linkFails == seen[c] = Absent /\ File(c) # Absent
         removeFails == call[c].content = NoFile /\ File(c) = Absent
     IN IF linkFails \/ removeFails
          THEN Answer(c, "refused") /\ SameFolder
          ELSE Goto(c, "replaced") /\ SameFrame /\ Put(c)
  /\ UNCHANGED budget

\* The write is acknowledged; it holds unless another program has been faster.
Promise(c) ==
  promised' = IF File(c).content = call[c].content
                THEN promised \cup {call[c].path} ELSE promised

\* Mutant: the directory is not synchronised before the answer.
SyncNothing(c) ==
  /\ pc[c] = "replaced"
  /\ Answer(c, "ok")
  /\ Promise(c)
  /\ UNCHANGED <<folder, disk, clock, budget>>

\* The parent directory is synchronised and the write acknowledged.
SyncDirectory(c) ==
  /\ pc[c] = "replaced"
  /\ Answer(c, "ok")
  /\ disk' = {Visible(folder)}
  /\ Promise(c)
  /\ UNCHANGED <<folder, clock, budget>>

\* workspace.saveDurabilityUncertain.
FailSync(c) ==
  /\ pc[c] = "replaced"
  /\ Answer(c, "uncertain")
  /\ SameFolder
  /\ UNCHANGED budget

-----------------------------------------------------------------------------
(* Path mutations: rename, move and delete. *)

\* Mutant: a mutation waits for other mutations only.
AdmitMutationAmongWrites(c) ==
  /\ pc[c] = "waiting"
  /\ call[c] \in Mutations
  /\ \A d \in Callers : pc[d] \notin HoldsMutation
  /\ Goto(c, "exclusive")
  /\ SameFrame
  /\ SameFolder
  /\ UNCHANGED budget

\* workspace_io::path_mutation.
AdmitMutation(c) ==
  /\ pc[c] = "waiting"
  /\ call[c] \in Mutations
  /\ \A d \in Callers : pc[d] \notin HoldsAccess \cup HoldsMutation
  /\ Goto(c, "exclusive")
  /\ SameFrame
  /\ SameFolder
  /\ UNCHANGED budget

\* rename_exclusive and remove_file fail under the same conditions that the
\* command checked before, should another program have acted in between.
Possible(r) ==
  /\ folder[r.path] # Absent
  /\ r.op = "rename" => folder[r.to] = Absent

CheckMutation(c) ==
  /\ pc[c] = "exclusive"
  /\ IF Possible(call[c])
       THEN Goto(c, "cleared") /\ SameFrame
       ELSE Answer(c, "refused")
  /\ SameFolder
  /\ UNCHANGED budget

Mutated(r) ==
  IF r.op = "rename"
    THEN Changes([folder EXCEPT ![r.path] = Absent, ![r.to] = folder[r.path]], {r.path, r.to})
    ELSE Changes([folder EXCEPT ![r.path] = Absent], {r.path})

Mutate(c) ==
  /\ pc[c] = "cleared"
  /\ IF Possible(call[c])
       THEN Answer(c, "ok") /\ Mutated(call[c])
       ELSE Answer(c, "refused") /\ SameFolder
  /\ UNCHANGED budget

-----------------------------------------------------------------------------
(* The surroundings. *)

\* Another program writes or deletes a file; with file coordination it waits
\* for the write that holds the document.
ForeignWrite ==
  /\ budget.foreign > 0
  /\ budget' = [budget EXCEPT !.foreign = @ - 1]
  /\ \E p \in Paths, v \in Versions :
       /\ Coordinated => \A c \in Callers : pc[c] \in HoldsDocument => call[c].path # p
       /\ Changes([folder EXCEPT ![p] = Written(v)], {p})
  /\ UNCHANGED <<pc, call, seen, checkedAt>>

\* The machine stops: every call is gone, unsynchronised changes may be.
PowerFailure ==
  /\ budget.outages > 0
  /\ budget' = [budget EXCEPT !.outages = @ - 1]
  /\ \E fs \in disk :
       /\ folder' = [p \in Paths |-> Written(fs[p])]
       /\ disk' = {fs}
  /\ clock' = clock + 1
  /\ pc' = [c \in Callers |-> "idle"]
  /\ call' = [c \in Callers |-> NoCall]
  /\ seen' = [c \in Callers |-> Absent]
  /\ checkedAt' = [c \in Callers |-> 0]
  /\ UNCHANGED promised

Advance(c) ==
  \/ AdmitWrite(c) \/ Lock(c) \/ CompareDownload(c) \/ Stage(c)
  \/ Recheck(c) \/ Publish(c) \/ SyncDirectory(c)

Write(c) == Advance(c) \/ FailStaging(c) \/ FailSync(c)

Mutation(c) == AdmitMutation(c) \/ CheckMutation(c) \/ Mutate(c)

\* Nobody calls any more; with it, a state without successor is a deadlock of locks.
Quiet ==
  /\ \A c \in Callers : pc[c] \in Answered
  /\ UNCHANGED vars

Next ==
  \/ \E c \in Callers : Invoke(c) \/ Write(c) \/ Mutation(c)
  \/ ForeignWrite
  \/ PowerFailure
  \/ Quiet

Spec == Init /\ [][Next]_vars

\* Native threads run, and a lock that stays free is granted; no I/O error is owed.
Fairness == \A c \in Callers : WF_vars(Advance(c)) /\ WF_vars(Mutation(c))
FairSpec == Spec /\ Fairness

-----------------------------------------------------------------------------
(* Properties. *)

\* Every variable stays in its domain.
TypeOK ==
  /\ folder \in [Paths -> Files]
  /\ disk \subseteq [Paths -> Versions]
  /\ pc \in [Callers -> Points]
  /\ call \in [Callers -> Requests \cup {NoCall}]
  /\ seen \in [Callers -> Files]
  /\ checkedAt \in [Callers -> Nat]
  /\ clock \in Nat
  /\ promised \subseteq Paths
  /\ budget \in [calls : Nat, foreign : Nat, outages : Nat]

\* The inductive invariant behind the theorems: who holds a lock, for which kind
\* of call, and what a call has established about its file.
CallsMatchPoints ==
  \A c \in Callers :
    /\ pc[c] \in Answered <=> call[c] = NoCall
    /\ pc[c] \in HoldsAccess => call[c] \in Writes
    /\ pc[c] \in HoldsMutation => call[c] \in Mutations

LocksExclude ==
  \A c, d \in Callers : c # d =>
    /\ pc[c] \in HoldsMutation => pc[d] \notin HoldsAccess \cup HoldsMutation
    /\ pc[c] \in HoldsDocument /\ pc[d] \in HoldsDocument => call[c].path # call[d].path

SnapshotsAccepted ==
  \A c \in Callers :
    /\ pc[c] \in {"staged", "checked"} => Accepts(call[c], seen[c].content)
    /\ Coordinated /\ pc[c] = "checked" => File(c) = seen[c]

DiskHoldsFolder == Visible(folder) \in disk

SaveInvariant ==
  TypeOK /\ CallsMatchPoints /\ LocksExclude /\ SnapshotsAccepted /\ DiskHoldsFolder

\* What a power failure can leave behind agrees with every version whose write
\* was acknowledged and that nobody has touched since: save answers only after
\* the directory was synchronised (document_save.rs:284).
AcknowledgedIsDurable ==
  \A p \in promised : \A fs \in disk : fs[p] = folder[p].content

\* Even a program that ignores file coordination loses a version to a
\* replacement only when it wrote that version after the second snapshot
\* (document_save.rs:265): a change made at any time before is detected.
OnlyTheWindowIsExposed ==
  [][\A c \in Callers :
       LET lost == File(c)
       IN pc[c] = "checked" /\ pc'[c] = "replaced" /\ lost # Absent /\ lost # seen[c]
            => lost.stamp > checkedAt[c]]_vars

\* A call that was asked to create its document, or found none, never replaces
\* a file that somebody else created meanwhile (document_save.rs:273).
NewFilesNeverReplace ==
  [][\A c \in Callers :
       pc[c] = "checked" /\ pc'[c] = "replaced" /\ seen[c] = Absent => File(c) = Absent]_vars

\* No call waits for ever: locks are taken in one order and every refusal gives
\* them back (workspace_io.rs:8, document_save.rs:71).
EveryCallReturns == \A c \in Callers : pc[c] = "waiting" ~> pc[c] \in Answered

-----------------------------------------------------------------------------
(* The calls are atomic when other programs use file coordination.         *)

StageAt(point) ==
  IF point \in Answered THEN point
  ELSE IF point = "replaced" THEN "performed" ELSE "called"

Atomic == INSTANCE AtomicDocuments WITH
  files <- Visible(folder),
  disk <- disk,
  stage <- [c \in Callers |-> StageAt(pc[c])],
  call <- call

\* Every native write behaves as one compare-and-replace at one instant, and
\* path mutations and writes never overlap (workspace_io.rs:5, document_save.rs:10).
WritesAreAtomic == Atomic!AtomicSpec
=============================================================================

------------------------- MODULE AtomicDocuments -------------------------
(***************************************************************************)
(* What the native document calls promise, without locks, snapshots or     *)
(* staging files: a call takes effect at one instant between invocation    *)
(* and answer, only if the folder allows it at that instant, and a write   *)
(* is acknowledged only when a power failure can no longer undo it.        *)
(***************************************************************************)
EXTENDS DocumentRequests

VARIABLES
  files,  \* the version of every path
  disk,   \* the states of the folder a power failure may fall back to
  stage,  \* per caller: "called", "performed", or what it is told
  call    \* per caller: the request it waits for

atomicVars == <<files, disk, stage, call>>

Answers == {"idle", "ok", "refused", "uncertain"}

\* When a request may take effect.
Allowed(fs, r) ==
  /\ r.op = "rename" => fs[r.path] # NoFile /\ fs[r.to] = NoFile
  /\ r.op = "delete" => fs[r.path] # NoFile
  /\ r \in Writes => Accepts(r, fs[r.path])

\* The folder after the request took effect.
Effect(fs, r) ==
  CASE r.op = "rename" -> [fs EXCEPT ![r.path] = NoFile, ![r.to] = fs[r.path]]
    [] r.op = "delete" -> [fs EXCEPT ![r.path] = NoFile]
    [] OTHER -> [fs EXCEPT ![r.path] = r.content]

AtomicInit ==
  /\ files \in [Paths -> Versions]
  /\ disk = {files}
  /\ stage = [c \in Callers |-> "idle"]
  /\ call = [c \in Callers |-> NoCall]

\* What a caller is told, and that it waits no longer.
Answer(c, told) ==
  /\ stage' = [stage EXCEPT ![c] = told]
  /\ call' = [call EXCEPT ![c] = NoCall]

Invoke(c) ==
  /\ stage[c] \in Answers
  /\ stage' = [stage EXCEPT ![c] = "called"]
  /\ \E r \in Requests : call' = [call EXCEPT ![c] = r]
  /\ UNCHANGED <<files, disk>>

\* The one instant at which a call takes effect; path mutations answer at once.
Perform(c) ==
  /\ stage[c] = "called"
  /\ Allowed(files, call[c])
  /\ files' = Effect(files, call[c])
  /\ disk' = disk \cup {files'}
  /\ IF call[c] \in Writes
       THEN stage' = [stage EXCEPT ![c] = "performed"] /\ UNCHANGED call
       ELSE Answer(c, "ok")

\* A refused call changes nothing.
Refuse(c) ==
  /\ stage[c] = "called"
  /\ Answer(c, "refused")
  /\ UNCHANGED <<files, disk>>

Acknowledge(c) ==
  /\ stage[c] = "performed"
  /\ Answer(c, "ok")
  /\ disk' = {files}
  /\ UNCHANGED files

AnswerUncertain(c) ==
  /\ stage[c] = "performed"
  /\ Answer(c, "uncertain")
  /\ UNCHANGED <<files, disk>>

\* Another program changes a file.
Foreign ==
  /\ \E p \in Paths, v \in Versions : files' = [files EXCEPT ![p] = v]
  /\ disk' = disk \cup {files'}
  /\ UNCHANGED <<stage, call>>

Outage ==
  /\ files' \in disk
  /\ disk' = {files'}
  /\ stage' = [c \in Callers |-> "idle"]
  /\ call' = [c \in Callers |-> NoCall]

AtomicNext ==
  \/ \E c \in Callers :
       Invoke(c) \/ Perform(c) \/ Refuse(c) \/ Acknowledge(c) \/ AnswerUncertain(c)
  \/ Foreign
  \/ Outage

AtomicSpec == AtomicInit /\ [][AtomicNext]_atomicVars
=============================================================================

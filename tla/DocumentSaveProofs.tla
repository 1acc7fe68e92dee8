------------------------ MODULE DocumentSaveProofs ------------------------
(***************************************************************************)
(* Proofs about DocumentSave, for every set of documents, contents and     *)
(* callers: its inductive invariant, and that native calls are atomic when *)
(* other programs use file coordination.                                   *)
(***************************************************************************)
EXTENDS DocumentSave, TLAPS

USE DEF Answered, HoldsDocument, HoldsAccess, HoldsMutation, Points

\* The fields that the two kinds of request have.
LEMMA RequestFields ==
  ASSUME NEW r \in Requests
  PROVE  /\ r.path \in Paths
         /\ r # NoCall
         /\ r \in Writes => /\ r.op \in {"save", "create", "download"}
                            /\ r.content \in Versions
                            /\ r \notin Mutations
         /\ r \in Mutations => r.op \in {"rename", "delete"} /\ r \notin Writes
         /\ r.op = "rename" => r.to \in Paths
BY DEF Requests, Writes, Mutations, Saves, Creations, Downloads, Moves, Deletions, Versions, NoCall

\* A download that deletes names the existing version it expects.
LEMMA DeletionExpectsVersion ==
  ASSUME NEW r \in Writes, r.op = "download", r.content = NoFile
  PROVE  Accepts(r, r.expected)
BY VersionsAssumption DEF Writes, Saves, Creations, Downloads, Versions, Accepts

\* Every step of a call leaves the file identities well formed.
LEMMA WrittenTyped ==
  ASSUME TypeOK, NEW v \in Versions
  PROVE  Written(v) \in Files /\ Written(v).content = v
BY DEF TypeOK, Written, Files, Absent, Versions

\* What Changes does to the typed variables.
LEMMA ChangesTyped ==
  ASSUME TypeOK, NEW f \in [Paths -> Files], NEW touched, Changes(f, touched)
  PROVE  /\ folder' \in [Paths -> Files]
         /\ folder' = f
         /\ disk' \subseteq [Paths -> Versions]
         /\ Visible(folder') \in disk'
         /\ clock' \in Nat
         /\ promised' \subseteq Paths
BY DEF TypeOK, Changes, Visible, Files, Absent, Versions

\* A file that is there has a content.
LEMMA PresentHasContent ==
  ASSUME NEW f \in Files
  PROVE  /\ f.content \in Versions
         /\ f = Absent <=> f.content = NoFile
BY VersionsAssumption DEF Files, Absent, Versions

\* The variables stay in their domains.
LEMMA TypeStep == TypeOK /\ CallsMatchPoints /\ [Next]_vars => TypeOK'
<1> SUFFICES ASSUME TypeOK, CallsMatchPoints, [Next]_vars
             PROVE  TypeOK'
  OBVIOUS
<1> Absent \in Files
  BY DEF Files
<1>1. ASSUME NEW c \in Callers, Invoke(c) PROVE TypeOK'
  BY <1>1 DEF Invoke, TypeOK, SameFrame, SameFolder
<1>3. ASSUME NEW c \in Callers, Write(c) PROVE TypeOK'
  <2> USE DEF Goto, Answer, SameFrame, SameFolder
  <2>1. CASE AdmitWrite(c)
    BY <2>1 DEF AdmitWrite, TypeOK
  <2>2. CASE Lock(c)
    BY <2>2 DEF Lock, TypeOK
  <2>3. File(c) \in Files \/ call[c] = NoCall
    BY RequestFields DEF TypeOK, File
  <2>4. CASE CompareDownload(c)
    <3> pc[c] = "locked" /\ call[c] \in Requests
      BY <2>4 DEF CompareDownload, TypeOK, CallsMatchPoints
    <3> QED BY <2>3, <2>4, RequestFields DEF CompareDownload, TypeOK
  <2>5. CASE Stage(c)
    <3> call[c] \in Requests
      BY <2>5 DEF Stage, TypeOK, CallsMatchPoints
    <3> QED BY <2>3, <2>5, RequestFields DEF Stage, TypeOK
  <2>6. CASE FailStaging(c)
    BY <2>6 DEF FailStaging, TypeOK
  <2>7. CASE Recheck(c)
    BY <2>7 DEF Recheck, TypeOK
  <2>8. CASE Publish(c)
    <3>1. call[c] \in Writes /\ call[c] \in Requests
      BY <2>8 DEF Publish, TypeOK, CallsMatchPoints, Requests
    <3>2. CASE SameFolder /\ Answer(c, "refused")
      BY <2>8, <3>2 DEF Publish, TypeOK
    <3>3. CASE Goto(c, "replaced") /\ SameFrame /\ Put(c)
      <4>1. [folder EXCEPT ![call[c].path] = Written(call[c].content)] \in [Paths -> Files]
        BY <3>1, RequestFields, WrittenTyped DEF TypeOK
      <4> QED BY <2>8, <3>3, <4>1, ChangesTyped DEF Publish, Put, TypeOK
    <3> QED BY <2>8, <3>2, <3>3 DEF Publish
  <2>9. CASE SyncDirectory(c)
    <3>1. call[c] \in Requests
      BY <2>9 DEF SyncDirectory, TypeOK, CallsMatchPoints
    <3> QED BY <2>9, <3>1, RequestFields, PresentHasContent
            DEF SyncDirectory, Promise, TypeOK, Visible
  <2>10. CASE FailSync(c)
    BY <2>10 DEF FailSync, TypeOK
  <2> QED BY <1>3, <2>1, <2>2, <2>4, <2>5, <2>6, <2>7, <2>8, <2>9, <2>10 DEF Write, Advance
<1>4. ASSUME NEW c \in Callers, Mutation(c) PROVE TypeOK'
  <2> USE DEF Goto, Answer, SameFrame, SameFolder
  <2>1. CASE AdmitMutation(c)
    BY <2>1 DEF AdmitMutation, TypeOK
  <2>2. CASE CheckMutation(c)
    BY <2>2 DEF CheckMutation, TypeOK
  <2>3. CASE Mutate(c)
    <3>1. call[c] \in Requests
      BY <2>3 DEF Mutate, TypeOK, CallsMatchPoints
    <3>2. CASE Answer(c, "refused") /\ SameFolder
      BY <2>3, <3>2 DEF Mutate, TypeOK
    <3>3. CASE Answer(c, "ok") /\ Mutated(call[c])
      <4>1. call[c].op = "rename" =>
              [folder EXCEPT ![call[c].path] = Absent, ![call[c].to] = folder[call[c].path]]
                \in [Paths -> Files]
        BY <3>1, RequestFields DEF TypeOK
      <4>2. [folder EXCEPT ![call[c].path] = Absent] \in [Paths -> Files]
        BY DEF TypeOK
      <4> QED BY <2>3, <3>3, <4>1, <4>2, ChangesTyped DEF Mutate, Mutated, TypeOK
    <3> QED BY <2>3, <3>2, <3>3 DEF Mutate
  <2> QED BY <1>4, <2>1, <2>2, <2>3 DEF Mutation
<1>5. CASE ForeignWrite
  <2>1. PICK p \in Paths, v \in Versions : Changes([folder EXCEPT ![p] = Written(v)], {p})
    BY <1>5 DEF ForeignWrite
  <2>2. [folder EXCEPT ![p] = Written(v)] \in [Paths -> Files]
    BY WrittenTyped DEF TypeOK
  <2>3. /\ budget' \in [calls : Nat, foreign : Nat, outages : Nat]
        /\ UNCHANGED <<pc, call, seen, checkedAt>>
    BY <1>5 DEF ForeignWrite, TypeOK
  <2>4. folder' \in [Paths -> Files] /\ disk' \subseteq [Paths -> Versions]
          /\ clock' \in Nat /\ promised' \subseteq Paths
    BY <2>1, <2>2, ChangesTyped
  <2> QED BY <2>3, <2>4 DEF TypeOK
<1>6. CASE PowerFailure
  <2>1. PICK fs \in disk : folder' = [p \in Paths |-> Written(fs[p])] /\ disk' = {fs}
    BY <1>6 DEF PowerFailure
  <2>2. fs \in [Paths -> Versions]
    BY <2>1 DEF TypeOK
  <2> QED BY <1>6, <2>1, <2>2, WrittenTyped DEF PowerFailure, TypeOK
<1>7. CASE UNCHANGED vars
  BY <1>7 DEF vars, TypeOK
<1> QED BY <1>1, <1>3, <1>4, <1>5, <1>6, <1>7 DEF Next, Quiet

\* A call keeps its kind from point to point.
LEMMA CallsStep == TypeOK /\ CallsMatchPoints /\ [Next]_vars => CallsMatchPoints'
<1> SUFFICES ASSUME TypeOK, CallsMatchPoints, [Next]_vars
             PROVE  CallsMatchPoints'
  OBVIOUS
<1> USE DEF Goto, Answer, TypeOK, CallsMatchPoints
<1>1. ASSUME NEW c \in Callers, Invoke(c) PROVE CallsMatchPoints'
  BY <1>1, RequestFields DEF Invoke
<1>2. ASSUME NEW c \in Callers, Write(c) PROVE CallsMatchPoints'
  <2>1. CASE AdmitWrite(c)
    BY <2>1 DEF AdmitWrite
  <2>2. CASE Lock(c)
    BY <2>2 DEF Lock
  <2>3. CASE CompareDownload(c)
    BY <2>3 DEF CompareDownload
  <2>4. CASE Stage(c)
    BY <2>4 DEF Stage
  <2>5. CASE FailStaging(c)
    BY <2>5 DEF FailStaging
  <2>6. CASE Recheck(c)
    BY <2>6 DEF Recheck
  <2>7. CASE Publish(c)
    BY <2>7 DEF Publish
  <2>8. CASE SyncDirectory(c)
    BY <2>8 DEF SyncDirectory
  <2>9. CASE FailSync(c)
    BY <2>9 DEF FailSync
  <2> QED BY <1>2, <2>1, <2>2, <2>3, <2>4, <2>5, <2>6, <2>7, <2>8, <2>9 DEF Write, Advance
<1>3. ASSUME NEW c \in Callers, Mutation(c) PROVE CallsMatchPoints'
  <2>1. CASE AdmitMutation(c)
    BY <2>1 DEF AdmitMutation
  <2>2. CASE CheckMutation(c)
    BY <2>2 DEF CheckMutation
  <2>3. CASE Mutate(c)
    BY <2>3 DEF Mutate
  <2> QED BY <1>3, <2>1, <2>2, <2>3 DEF Mutation
<1>4. CASE ForeignWrite
  BY <1>4 DEF ForeignWrite
<1>5. CASE PowerFailure
  BY <1>5 DEF PowerFailure
<1>6. CASE UNCHANGED vars
  BY <1>6 DEF vars
<1> QED BY <1>1, <1>2, <1>3, <1>4, <1>5, <1>6 DEF Next, Quiet

\* The locks exclude: a call enters a lock only when nobody is in its way.
LEMMA LocksStep ==
  TypeOK /\ CallsMatchPoints /\ LocksExclude /\ [Next]_vars => LocksExclude'
<1> SUFFICES ASSUME TypeOK, CallsMatchPoints, LocksExclude, [Next]_vars
             PROVE  LocksExclude'
  OBVIOUS
<1> USE DEF Goto, Answer, LocksExclude
<1> pc \in [Callers -> Points] /\ call \in [Callers -> Requests \cup {NoCall}]
  BY DEF TypeOK
<1>1. ASSUME NEW c \in Callers, Invoke(c) PROVE LocksExclude'
  BY <1>1 DEF Invoke
<1>2. ASSUME NEW c \in Callers, Write(c) PROVE LocksExclude'
  <2>1. CASE AdmitWrite(c)
    BY <2>1 DEF AdmitWrite
  <2>2. CASE Lock(c)
    BY <2>2 DEF Lock
  <2>3. CASE CompareDownload(c)
    BY <2>3 DEF CompareDownload
  <2>4. CASE Stage(c)
    BY <2>4 DEF Stage
  <2>5. CASE FailStaging(c)
    BY <2>5 DEF FailStaging
  <2>6. CASE Recheck(c)
    BY <2>6 DEF Recheck
  <2>7. CASE Publish(c)
    BY <2>7 DEF Publish
  <2>8. CASE SyncDirectory(c)
    BY <2>8 DEF SyncDirectory
  <2>9. CASE FailSync(c)
    BY <2>9 DEF FailSync
  <2> QED BY <1>2, <2>1, <2>2, <2>3, <2>4, <2>5, <2>6, <2>7, <2>8, <2>9 DEF Write, Advance
<1>3. ASSUME NEW c \in Callers, Mutation(c) PROVE LocksExclude'
  <2>1. CASE AdmitMutation(c)
    BY <2>1 DEF AdmitMutation
  <2>2. CASE CheckMutation(c)
    BY <2>2 DEF CheckMutation
  <2>3. CASE Mutate(c)
    BY <2>3 DEF Mutate
  <2> QED BY <1>3, <2>1, <2>2, <2>3 DEF Mutation
<1>4. CASE ForeignWrite
  BY <1>4 DEF ForeignWrite
<1>5. CASE PowerFailure
  BY <1>5 DEF PowerFailure
<1>6. CASE UNCHANGED vars
  BY <1>6 DEF vars
<1> QED BY <1>1, <1>2, <1>3, <1>4, <1>5, <1>6 DEF Next, Quiet

\* What a call has established about its file stays true while it holds the lock.
LEMMA SnapshotsStep ==
  TypeOK /\ CallsMatchPoints /\ LocksExclude /\ SnapshotsAccepted /\ [Next]_vars
    => SnapshotsAccepted'
<1> SUFFICES ASSUME TypeOK, CallsMatchPoints, LocksExclude, SnapshotsAccepted, [Next]_vars
             PROVE  SnapshotsAccepted'
  OBVIOUS
<1> USE DEF Goto, Answer, SameFolder, SameFrame, SnapshotsAccepted, File
<1>0. /\ pc \in [Callers -> Points] /\ call \in [Callers -> Requests \cup {NoCall}]
      /\ seen \in [Callers -> Files] /\ folder \in [Paths -> Files]
  BY DEF TypeOK
<1>1. ASSUME NEW c \in Callers, Invoke(c) PROVE SnapshotsAccepted'
  BY <1>0, <1>1 DEF Invoke
<1>2. ASSUME NEW c \in Callers, Write(c) PROVE SnapshotsAccepted'
  <2>1. CASE AdmitWrite(c)
    BY <1>0, <2>1 DEF AdmitWrite
  <2>2. CASE Lock(c)
    BY <1>0, <2>2 DEF Lock
  <2>3. CASE CompareDownload(c)
    <3>1. call[c] \in Writes
      BY <2>3 DEF CompareDownload, CallsMatchPoints
    <3> QED BY <1>0, <2>3, <3>1, DeletionExpectsVersion DEF CompareDownload
  <2>4. CASE Stage(c)
    BY <1>0, <2>4 DEF Stage
  <2>5. CASE FailStaging(c)
    BY <1>0, <2>5 DEF FailStaging
  <2>6. CASE Recheck(c)
    BY <1>0, <2>6 DEF Recheck
  <2>7. CASE Publish(c)
    <3>1. CASE Answer(c, "refused") /\ SameFolder
      BY <1>0, <3>1
    <3>2. CASE Goto(c, "replaced") /\ SameFrame /\ Put(c)
      <4>1. \A d \in Callers : d # c /\ pc[d] = "checked" => call[d].path # call[c].path
        BY <2>7 DEF Publish, LocksExclude
      <4>2. folder' = [folder EXCEPT ![call[c].path] = Written(call[c].content)]
        BY <3>2 DEF Put, Changes
      <4> QED BY <1>0, <3>2, <4>1, <4>2
    <3> QED BY <2>7, <3>1, <3>2 DEF Publish
  <2>8. CASE SyncDirectory(c)
    BY <1>0, <2>8 DEF SyncDirectory
  <2>9. CASE FailSync(c)
    BY <1>0, <2>9 DEF FailSync
  <2> QED BY <1>2, <2>1, <2>2, <2>3, <2>4, <2>5, <2>6, <2>7, <2>8, <2>9 DEF Write, Advance
<1>3. ASSUME NEW c \in Callers, Mutation(c) PROVE SnapshotsAccepted'
  <2>1. CASE AdmitMutation(c)
    BY <1>0, <2>1 DEF AdmitMutation
  <2>2. CASE CheckMutation(c)
    BY <1>0, <2>2 DEF CheckMutation
  <2>3. CASE Mutate(c)
    <3>1. \A d \in Callers : pc'[d] \notin {"staged", "checked"}
      BY <1>0, <2>3 DEF Mutate, LocksExclude
    <3> QED BY <3>1
  <2> QED BY <1>3, <2>1, <2>2, <2>3 DEF Mutation
<1>4. CASE ForeignWrite
  <2>1. PICK p \in Paths, v \in Versions :
          /\ Coordinated => \A c \in Callers : pc[c] \in HoldsDocument => call[c].path # p
          /\ folder' = [folder EXCEPT ![p] = Written(v)]
    BY <1>4 DEF ForeignWrite, Changes
  <2>2. UNCHANGED <<pc, call, seen>>
    BY <1>4 DEF ForeignWrite
  <2> QED BY <1>0, <2>1, <2>2
<1>5. CASE PowerFailure
  BY <1>5 DEF PowerFailure
<1>6. CASE UNCHANGED vars
  BY <1>6 DEF vars
<1> QED BY <1>1, <1>2, <1>3, <1>4, <1>5, <1>6 DEF Next, Quiet

\* The folder itself is among the states a power failure may leave.
LEMMA DiskStep == TypeOK /\ CallsMatchPoints /\ DiskHoldsFolder /\ [Next]_vars => DiskHoldsFolder'
<1> SUFFICES ASSUME TypeOK, CallsMatchPoints, DiskHoldsFolder, [Next]_vars
             PROVE  DiskHoldsFolder'
  OBVIOUS
<1>1. CASE UNCHANGED <<folder, disk>>
  BY <1>1 DEF DiskHoldsFolder, Visible
<1>2. ASSUME NEW f, NEW touched, Changes(f, touched) PROVE DiskHoldsFolder'
  BY <1>2 DEF Changes, DiskHoldsFolder, Visible
<1>3. ASSUME NEW c \in Callers, SyncDirectory(c) PROVE DiskHoldsFolder'
  BY <1>3 DEF SyncDirectory, DiskHoldsFolder, Visible
<1>4. CASE PowerFailure
  <2>1. PICK fs \in disk : folder' = [p \in Paths |-> Written(fs[p])] /\ disk' = {fs}
    BY <1>4 DEF PowerFailure
  <2>2. fs \in [Paths -> Versions]
    BY <2>1 DEF TypeOK
  <2>3. \A p \in Paths : Written(fs[p]).content = fs[p]
    BY <2>2, WrittenTyped
  <2>4. Visible(folder') = fs
    BY <2>1, <2>2, <2>3 DEF Visible
  <2> QED BY <2>1, <2>4 DEF DiskHoldsFolder, Visible
<1>5. ASSUME NEW c \in Callers, Write(c) PROVE DiskHoldsFolder'
  <2>1. CASE Publish(c)
    BY <1>1, <1>2, <2>1 DEF Publish, Put, SameFolder
  <2> QED BY <1>1, <1>3, <1>5, <2>1
          DEF Write, Advance, AdmitWrite, Lock, CompareDownload, Stage, FailStaging, Recheck, FailSync,
              SameFolder
<1>6. ASSUME NEW c \in Callers, Mutation(c) PROVE DiskHoldsFolder'
  BY <1>1, <1>2, <1>6 DEF Mutation, AdmitMutation, CheckMutation, Mutate, Mutated, SameFolder
<1>7. CASE ForeignWrite
  BY <1>2, <1>7 DEF ForeignWrite
<1> QED BY <1>1, <1>4, <1>5, <1>6, <1>7 DEF Next, Invoke, Quiet, SameFolder, vars

\* The initial states satisfy the invariant, and promise nothing yet.
LEMMA InitEstablishes == Init => SaveInvariant /\ AcknowledgedIsDurable
<1> SUFFICES ASSUME Init PROVE SaveInvariant /\ AcknowledgedIsDurable
  OBVIOUS
<1>1. PICK fs \in [Paths -> Versions] :
        /\ folder = [p \in Paths |->
                       IF fs[p] = NoFile THEN Absent ELSE [content |-> fs[p], stamp |-> 1]]
        /\ disk = {fs}
  BY DEF Init
<1>2. folder \in [Paths -> Files]
  BY <1>1 DEF Files, Versions
<1>3. Visible(folder) = fs
  BY <1>1 DEF Visible, Absent
<1>4. TypeOK
  BY <1>1, <1>2, BoundsAssumption DEF Init, TypeOK, Files
<1>5. CallsMatchPoints /\ LocksExclude /\ SnapshotsAccepted
  BY DEF Init, CallsMatchPoints, LocksExclude, SnapshotsAccepted
<1> QED BY <1>1, <1>3, <1>4, <1>5 DEF Init, SaveInvariant, DiskHoldsFolder, AcknowledgedIsDurable

\* Every step keeps the whole invariant.
LEMMA InvariantStep == SaveInvariant /\ [Next]_vars => SaveInvariant'
BY TypeStep, CallsStep, LocksStep, SnapshotsStep, DiskStep DEF SaveInvariant

\* The inductive invariant of the protocol: writes exclude each other on one
\* document, path mutations exclude everything (workspace_io.rs:5), and a write
\* about to publish holds a snapshot its request accepts.
THEOREM SaveInvariantHolds == Spec => []SaveInvariant
<1>1. Init => SaveInvariant
  BY InitEstablishes
<1>2. SaveInvariant /\ [Next]_vars => SaveInvariant'
  BY InvariantStep
<1> QED BY <1>1, <1>2, PTL DEF Spec

\* Every variable stays in its domain.
THEOREM TypeCorrect == Spec => []TypeOK
<1>1. SaveInvariant => TypeOK
  BY DEF SaveInvariant
<1> QED BY <1>1, SaveInvariantHolds, PTL

\* No power failure undoes an acknowledged write that nobody has touched since
\* (document_save.rs:284).
THEOREM AcknowledgedIsDurableHolds == Spec => []AcknowledgedIsDurable
<1>1. Init => AcknowledgedIsDurable
  BY InitEstablishes
<1>2. TypeOK /\ TypeOK' /\ AcknowledgedIsDurable /\ [Next]_vars => AcknowledgedIsDurable'
  <2> SUFFICES ASSUME TypeOK, TypeOK', AcknowledgedIsDurable, [Next]_vars
               PROVE  AcknowledgedIsDurable'
    OBVIOUS
  <2>1. CASE UNCHANGED <<folder, disk, promised>>
    BY <2>1 DEF AcknowledgedIsDurable
  <2>2. ASSUME NEW f, NEW touched, Changes(f, touched),
               \A p \in Paths \ touched : f[p] = folder[p]
        PROVE  AcknowledgedIsDurable'
    <3> SUFFICES ASSUME NEW p \in promised \ touched, NEW fs \in disk \cup {Visible(f)}
                 PROVE  fs[p] = f[p].content
      BY <2>2 DEF AcknowledgedIsDurable, Changes
    <3>1. p \in Paths /\ f[p] = folder[p]
      BY <2>2 DEF TypeOK
    <3> QED BY <3>1 DEF AcknowledgedIsDurable, Visible
  <2>3. ASSUME NEW c \in Callers, SyncDirectory(c) PROVE AcknowledgedIsDurable'
    BY <2>3 DEF SyncDirectory, AcknowledgedIsDurable, Visible, TypeOK
  <2>4. CASE PowerFailure
    <3>1. PICK fs \in disk : folder' = [p \in Paths |-> Written(fs[p])] /\ disk' = {fs}
      BY <2>4 DEF PowerFailure
    <3>2. \A p \in Paths : Written(fs[p]).content = fs[p]
      BY <3>1, WrittenTyped DEF TypeOK
    <3> QED BY <3>1, <3>2 DEF AcknowledgedIsDurable, TypeOK
  <2>5. ASSUME NEW c \in Callers, Write(c) PROVE AcknowledgedIsDurable'
    <3>1. CASE Publish(c)
      <4>1. CASE SameFolder
        BY <2>1, <4>1 DEF SameFolder
      <4>2. CASE Put(c)
        <5>1. \A p \in Paths \ {call[c].path} :
                [folder EXCEPT ![call[c].path] = Written(call[c].content)][p] = folder[p]
          BY DEF TypeOK
        <5> QED BY <2>2, <4>2, <5>1 DEF Put
      <4> QED BY <3>1, <4>1, <4>2 DEF Publish
    <3> QED BY <2>1, <2>3, <2>5, <3>1
            DEF Write, Advance, AdmitWrite, Lock, CompareDownload, Stage, FailStaging, Recheck, FailSync,
                SameFolder
  <2>6. ASSUME NEW c \in Callers, Mutation(c) PROVE AcknowledgedIsDurable'
    <3>1. CASE SameFolder
      BY <2>1, <3>1 DEF SameFolder
    <3>2. CASE Mutated(call[c])
      <4> DEFINE r == call[c]
      <4>1. \A p \in Paths \ {r.path, r.to} :
              [folder EXCEPT ![r.path] = Absent, ![r.to] = folder[r.path]][p] = folder[p]
        BY DEF TypeOK
      <4>2. \A p \in Paths \ {r.path} : [folder EXCEPT ![r.path] = Absent][p] = folder[p]
        BY DEF TypeOK
      <4> HIDE DEF r
      <4> QED BY <2>2, <3>2, <4>1, <4>2 DEF Mutated, r
    <3> QED BY <2>6, <3>1, <3>2 DEF Mutation, AdmitMutation, CheckMutation, Mutate
  <2>7. CASE ForeignWrite
    <3>1. PICK q \in Paths, v \in Versions : Changes([folder EXCEPT ![q] = Written(v)], {q})
      BY <2>7 DEF ForeignWrite
    <3>2. \A p \in Paths \ {q} : [folder EXCEPT ![q] = Written(v)][p] = folder[p]
      BY DEF TypeOK
    <3> QED BY <2>2, <3>1, <3>2
  <2> QED BY <2>1, <2>4, <2>5, <2>6, <2>7 DEF Next, Invoke, Quiet, SameFolder, vars
<1> QED BY <1>1, <1>2, TypeCorrect, PTL DEF Spec

-----------------------------------------------------------------------------
(* Refinement. *)

\* The two modules speak of the same requests.
LEMMA SameRequests ==
  /\ Atomic!Versions = Versions
  /\ Atomic!NoCall = NoCall
  /\ Atomic!Writes = Writes
  /\ Atomic!Requests = Requests
  /\ \A r, v : Atomic!Accepts(r, v) <=> Accepts(r, v)
BY DEF Atomic!Versions, Versions, Atomic!NoCall, NoCall, Atomic!Writes, Writes,
       Atomic!Requests, Requests, Atomic!Accepts, Accepts, Atomic!Saves, Saves,
       Atomic!Creations, Creations, Atomic!Downloads, Downloads, Atomic!Mutations, Mutations,
       Atomic!Moves, Moves, Atomic!Deletions, Deletions

\* The stage of every caller, as the refinement mapping gives it.
stageMap == [c \in Callers |-> StageAt(pc[c])]

\* A step to another point of a call moves its stage and no other.
LEMMA StageMoves ==
  ASSUME TypeOK, NEW c \in Callers, NEW point \in Points, pc' = [pc EXCEPT ![c] = point]
  PROVE  /\ stageMap' = [stageMap EXCEPT ![c] = StageAt(point)]
         /\ StageAt(point) = StageAt(pc[c]) => stageMap' = stageMap
BY DEF TypeOK, stageMap, StageAt

\* What a reader sees after one file changed.
LEMMA VisiblePut ==
  ASSUME TypeOK, NEW p \in Paths, NEW v \in Versions
  PROVE  Visible([folder EXCEPT ![p] = Written(v)]) = [Visible(folder) EXCEPT ![p] = v]
BY WrittenTyped DEF TypeOK, Visible

\* What a reader sees of a folder is one version per path.
LEMMA VisibleTyped == TypeOK => Visible(folder) \in [Paths -> Versions]
BY PresentHasContent DEF TypeOK, Visible

\* Every step is a step of the atomic calls, or invisible.
LEMMA StepRefines ==
  Coordinated /\ SaveInvariant /\ [Next]_vars => [Atomic!AtomicNext]_(Atomic!atomicVars)
<1> SUFFICES ASSUME Coordinated, SaveInvariant, [Next]_vars
             PROVE  Atomic!AtomicNext \/ UNCHANGED Atomic!atomicVars
  OBVIOUS
<1> TypeOK
  BY DEF SaveInvariant
<1> DEFINE Quiescent == UNCHANGED <<Visible(folder), disk, stageMap, call>>
<1>a. Quiescent => UNCHANGED Atomic!atomicVars
  BY DEF Atomic!atomicVars, stageMap
<1>b. SameFolder => UNCHANGED <<Visible(folder), disk>>
  BY DEF SameFolder, Visible
<1>c. ASSUME NEW c \in Callers, NEW x \in Points, StageAt(pc[c]) = StageAt(x),
             Goto(c, x), SameFolder
      PROVE  Quiescent
  BY <1>b, <1>c, StageMoves DEF Goto
<1>d. ASSUME NEW c \in Callers, StageAt(pc[c]) = "called", Answer(c, "refused"), SameFolder
      PROVE  Atomic!Refuse(c)
  <2>1. stageMap[c] = "called" /\ stageMap' = [stageMap EXCEPT ![c] = "refused"]
    BY <1>d, StageMoves DEF stageMap, Answer, StageAt
  <2> QED BY <1>b, <1>d, <2>1, SameRequests DEF Atomic!Refuse, Atomic!Answer, Answer, stageMap
<1>e. ASSUME NEW c \in Callers, Atomic!Refuse(c) PROVE Atomic!AtomicNext
  BY <1>e DEF Atomic!AtomicNext
<1> HIDE DEF Quiescent
<1>1. ASSUME NEW c \in Callers, Invoke(c) PROVE Atomic!Invoke(c)
  <2>1. stageMap[c] \in Atomic!Answers /\ stageMap' = [stageMap EXCEPT ![c] = "called"]
    BY <1>1, StageMoves DEF Invoke, stageMap, StageAt, Atomic!Answers, TypeOK
  <2> QED BY <1>1, <1>b, <2>1, SameRequests DEF Invoke, Atomic!Invoke, stageMap
<1>2. ASSUME NEW c \in Callers, Write(c)
      PROVE  Atomic!AtomicNext \/ Quiescent
  <2> USE DEF StageAt
  <2>1. CASE AdmitWrite(c)
    BY <1>c, <1>d, <1>e, <2>1 DEF AdmitWrite
  <2>2. CASE Lock(c)
    BY <1>c, <2>2 DEF Lock
  <2>3. CASE CompareDownload(c)
    BY <1>c, <1>d, <1>e, <2>3 DEF CompareDownload
  <2>4. CASE Stage(c)
    BY <1>c, <1>d, <1>e, <2>4 DEF Stage
  <2>5. CASE FailStaging(c)
    BY <1>d, <1>e, <2>5 DEF FailStaging
  <2>6. CASE Recheck(c)
    BY <1>c, <1>d, <1>e, <2>6 DEF Recheck
  <2>7. CASE Publish(c)
    <3>1. CASE Answer(c, "refused") /\ SameFolder
      BY <1>d, <1>e, <2>7, <3>1 DEF Publish
    <3>2. CASE Goto(c, "replaced") /\ Put(c)
      <4> DEFINE r == call[c]
      <4>1. r \in Writes /\ r \in Requests /\ Accepts(r, File(c).content)
        BY <2>7 DEF Publish, SaveInvariant, CallsMatchPoints, SnapshotsAccepted, Requests
      <4>2. r.path \in Paths /\ r.content \in Versions /\ r.op \notin {"rename", "delete"}
        BY <4>1, RequestFields
      <4>3. Visible(folder') = [Visible(folder) EXCEPT ![r.path] = r.content]
        BY <3>2, <4>2, VisiblePut DEF Put, Changes
      <4>4. disk' = disk \cup {Visible(folder')}
        BY <3>2 DEF Put, Changes
      <4>5. stageMap[c] = "called" /\ stageMap' = [stageMap EXCEPT ![c] = "performed"]
        BY <2>7, <3>2, StageMoves DEF Publish, stageMap, Goto
      <4>6. Atomic!Allowed(Visible(folder), r)
        BY <4>1, <4>2, SameRequests DEF Atomic!Allowed, Visible, File
      <4>7. Atomic!Effect(Visible(folder), r) = [Visible(folder) EXCEPT ![r.path] = r.content]
        BY <4>2 DEF Atomic!Effect
      <4>8. Visible(folder)' = Visible(folder')
        BY DEF Visible
      <4> QED BY <3>2, <4>1, <4>3, <4>4, <4>5, <4>6, <4>7, <4>8, SameRequests
              DEF Goto, Atomic!Perform, Atomic!AtomicNext, stageMap
    <3> QED BY <2>7, <3>1, <3>2 DEF Publish
  <2>8. CASE SyncDirectory(c)
    <3>1. stageMap[c] = "performed" /\ stageMap' = [stageMap EXCEPT ![c] = "ok"]
      BY <2>8, StageMoves DEF SyncDirectory, stageMap, Answer
    <3>2. Atomic!Acknowledge(c)
      BY <2>8, <3>1, SameRequests DEF SyncDirectory, Answer, Visible, Atomic!Acknowledge, Atomic!Answer, stageMap
    <3> QED BY <3>2 DEF Atomic!AtomicNext
  <2>9. CASE FailSync(c)
    <3>1. stageMap[c] = "performed" /\ stageMap' = [stageMap EXCEPT ![c] = "uncertain"]
      BY <2>9, StageMoves DEF FailSync, stageMap, Answer
    <3>2. Atomic!AnswerUncertain(c)
      BY <1>b, <2>9, <3>1, SameRequests
         DEF FailSync, Answer, Atomic!AnswerUncertain, Atomic!Answer, stageMap
    <3> QED BY <3>2 DEF Atomic!AtomicNext
  <2> QED BY <1>2, <2>1, <2>2, <2>3, <2>4, <2>5, <2>6, <2>7, <2>8, <2>9 DEF Write, Advance
<1>3. ASSUME NEW c \in Callers, Mutation(c)
      PROVE  Atomic!AtomicNext \/ Quiescent
  <2>1. CASE AdmitMutation(c)
    BY <1>c, <2>1 DEF AdmitMutation, StageAt
  <2>2. CASE CheckMutation(c)
    BY <1>c, <1>d, <1>e, <2>2 DEF CheckMutation, StageAt
  <2>3. CASE Mutate(c)
    <3>1. CASE Answer(c, "refused") /\ SameFolder
      BY <1>d, <1>e, <2>3, <3>1 DEF Mutate, StageAt
    <3>2. CASE Answer(c, "ok") /\ Mutated(call[c]) /\ Possible(call[c])
      <4> DEFINE r == call[c]
      <4>1. r \in Mutations /\ r \in Requests
        BY <2>3 DEF Mutate, SaveInvariant, CallsMatchPoints, Requests
      <4>2. /\ r.path \in Paths /\ r \notin Writes
            /\ r.op \in {"rename", "delete"}
            /\ r.op = "rename" => r.to \in Paths
        BY <4>1, RequestFields
      <4>3. Visible(folder') = Atomic!Effect(Visible(folder), r)
        <5>1. CASE r.op = "rename"
          <6>1. folder' = [folder EXCEPT ![r.path] = Absent, ![r.to] = folder[r.path]]
            BY <3>2, <5>1 DEF Mutated, Changes
          <6>2. Visible(folder') =
                  [Visible(folder) EXCEPT ![r.path] = NoFile, ![r.to] = Visible(folder)[r.path]]
            BY <4>2, <5>1, <6>1 DEF Visible, TypeOK, Absent
          <6> QED BY <5>1, <6>2 DEF Atomic!Effect
        <5>2. CASE r.op = "delete"
          <6>1. folder' = [folder EXCEPT ![r.path] = Absent]
            BY <3>2, <5>2 DEF Mutated, Changes
          <6>2. Visible(folder') = [Visible(folder) EXCEPT ![r.path] = NoFile]
            BY <4>2, <6>1 DEF Visible, TypeOK, Absent
          <6> QED BY <5>2, <6>2 DEF Atomic!Effect
        <5> QED BY <4>2, <5>1, <5>2
      <4>4. disk' = disk \cup {Visible(folder')}
        BY <3>2 DEF Mutated, Changes
      <4>5. stageMap[c] = "called" /\ stageMap' = [stageMap EXCEPT ![c] = "ok"]
        BY <2>3, <3>2, StageMoves DEF Mutate, stageMap, Answer, StageAt
      <4>6. Atomic!Allowed(Visible(folder), r)
        BY <3>2, <4>2, PresentHasContent, SameRequests DEF Atomic!Allowed, Possible, Visible, TypeOK
      <4>8. Visible(folder)' = Visible(folder')
        BY DEF Visible
      <4> QED BY <3>2, <4>2, <4>3, <4>4, <4>5, <4>6, <4>8, SameRequests
              DEF Answer, Atomic!Answer, Atomic!Perform, Atomic!AtomicNext, stageMap
    <3> QED BY <2>3, <3>1, <3>2 DEF Mutate
  <2> QED BY <1>3, <2>1, <2>2, <2>3 DEF Mutation
<1>4. CASE ForeignWrite
  <2>1. PICK p \in Paths, v \in Versions : Changes([folder EXCEPT ![p] = Written(v)], {p})
    BY <1>4 DEF ForeignWrite
  <2>2. Visible(folder)' = [Visible(folder) EXCEPT ![p] = v] /\ disk' = disk \cup {Visible(folder)'}
    BY <2>1, VisiblePut DEF Changes, Visible
  <2>3. UNCHANGED <<stageMap, call>>
    BY <1>4 DEF ForeignWrite, stageMap
  <2>4. Atomic!Foreign
    BY <2>2, <2>3, SameRequests DEF Atomic!Foreign, stageMap
  <2> QED BY <2>4 DEF Atomic!AtomicNext
<1>5. CASE PowerFailure
  <2>1. PICK fs \in disk : folder' = [p \in Paths |-> Written(fs[p])] /\ disk' = {fs}
    BY <1>5 DEF PowerFailure
  <2>2. fs \in [Paths -> Versions]
    BY <2>1 DEF TypeOK
  <2>3. Visible(folder)' = fs
    BY <2>1, <2>2, WrittenTyped DEF Visible
  <2>4. stageMap' = [c \in Callers |-> "idle"] /\ call' = [c \in Callers |-> NoCall]
    BY <1>5 DEF PowerFailure, stageMap, StageAt
  <2>5. Atomic!Outage
    BY <2>1, <2>3, <2>4, SameRequests DEF Atomic!Outage, stageMap
  <2> QED BY <2>5 DEF Atomic!AtomicNext
<1>6. CASE UNCHANGED vars
  BY <1>a, <1>6 DEF vars, Quiescent, Visible, stageMap
<1> QED BY <1>a, <1>1, <1>2, <1>3, <1>4, <1>5, <1>6 DEF Next, Quiet, Atomic!AtomicNext

\* When other programs use the system's file coordination, native calls are
\* atomic compare-and-replace operations, and a write is acknowledged only once
\* it is durable, for any number of documents and callers.
THEOREM CallsAreAtomic ==
  ASSUME Coordinated
  PROVE  Spec => WritesAreAtomic
<1>1. Init => Atomic!AtomicInit
  <2> SUFFICES ASSUME Init PROVE Atomic!AtomicInit
    OBVIOUS
  <2>1. TypeOK /\ Visible(folder) \in [Paths -> Versions]
    BY InitEstablishes, VisibleTyped DEF SaveInvariant
  <2>2. disk = {Visible(folder)}
    BY DEF Init, Visible, Absent
  <2>3. [c \in Callers |-> StageAt(pc[c])] = [c \in Callers |-> "idle"]
    BY DEF Init, StageAt
  <2> QED BY <2>1, <2>2, <2>3, SameRequests DEF Init, Atomic!AtomicInit
<1>2. SaveInvariant /\ [Next]_vars => [Atomic!AtomicNext]_(Atomic!atomicVars)
  BY StepRefines
<1> QED BY <1>1, <1>2, SaveInvariantHolds, PTL DEF Spec, WritesAreAtomic, Atomic!AtomicSpec
-----------------------------------------------------------------------------
(* What programs that ignore file coordination can lose. *)

\* No file is newer than the clock, and the file of a call that looked twice is still
\* the one it saw, gone, or written after the second look.
StampsTell ==
  /\ \A p \in Paths : folder[p].stamp <= clock
  /\ \A c \in Callers : pc[c] = "checked" =>
       /\ checkedAt[c] <= clock
       /\ File(c) = seen[c] \/ File(c) = Absent \/ File(c).stamp > checkedAt[c]

\* A file that is put in the place of another is gone or newer than the clock was.
LEMMA WrittenIsNew ==
  ASSUME TypeOK, NEW v \in Versions
  PROVE  /\ Written(v).stamp \in Nat /\ Written(v).stamp <= clock + 1
         /\ Written(v) = Absent \/ Written(v).stamp > clock
BY DEF TypeOK, Written, Absent

\* A call whose step leaves the files alone keeps what it knows of them.
LEMMA StampsStay ==
  ASSUME TypeOK, StampsTell, UNCHANGED <<folder, clock>>,
         \A c \in Callers : pc'[c] = "checked" =>
           pc[c] = "checked" /\ UNCHANGED <<call[c], seen[c], checkedAt[c]>>
  PROVE  StampsTell'
BY DEF StampsTell, File

\* Every step keeps what the stamps tell.
LEMMA StampsStep == SaveInvariant /\ StampsTell /\ [Next]_vars => StampsTell'
<1> SUFFICES ASSUME SaveInvariant, StampsTell, [Next]_vars
             PROVE  StampsTell'
  OBVIOUS
<1> TypeOK /\ CallsMatchPoints /\ LocksExclude
  BY DEF SaveInvariant
<1>0. /\ pc \in [Callers -> Points] /\ call \in [Callers -> Requests \cup {NoCall}]
      /\ seen \in [Callers -> Files] /\ checkedAt \in [Callers -> Nat]
      /\ folder \in [Paths -> Files] /\ clock \in Nat
      /\ \A p \in Paths : folder[p].stamp \in Nat
  BY DEF TypeOK, Files, Absent
<1>1. ASSUME NEW c \in Callers, Invoke(c) PROVE StampsTell'
  BY <1>0, <1>1, StampsStay DEF Invoke, SameFrame, SameFolder
<1>2. ASSUME NEW c \in Callers, Write(c) PROVE StampsTell'
  <2> USE DEF Goto, Answer, SameFrame, SameFolder
  <2>1. CASE AdmitWrite(c)
    BY <1>0, <2>1, StampsStay DEF AdmitWrite
  <2>2. CASE Lock(c)
    BY <1>0, <2>2, StampsStay DEF Lock
  <2>3. CASE CompareDownload(c)
    BY <1>0, <2>3, StampsStay DEF CompareDownload
  <2>4. CASE Stage(c)
    BY <1>0, <2>4, StampsStay DEF Stage
  <2>5. CASE FailStaging(c)
    BY <1>0, <2>5, StampsStay DEF FailStaging
  <2>6. CASE Recheck(c)
    <3>1. CASE File(c) = seen[c]
      BY <1>0, <2>6, <3>1 DEF Recheck, StampsTell, File
    <3>2. CASE File(c) # seen[c]
      BY <1>0, <2>6, <3>2, StampsStay DEF Recheck
    <3> QED BY <3>1, <3>2
  <2>7. CASE Publish(c)
    <3>1. CASE Answer(c, "refused") /\ SameFolder
      BY <1>0, <3>1, StampsStay
    <3>2. CASE Goto(c, "replaced") /\ SameFrame /\ Put(c)
      <4>1. call[c] \in Requests /\ call[c] \in Writes
        BY <1>0, <2>7 DEF Publish, CallsMatchPoints, Requests
      <4>2. \A d \in Callers : pc'[d] = "checked" => pc[d] = "checked" /\ call[d].path # call[c].path
        BY <1>0, <2>7, <3>2 DEF Publish, LocksExclude
      <4>3. folder' = [folder EXCEPT ![call[c].path] = Written(call[c].content)] /\ clock' = clock + 1
        BY <3>2 DEF Put, Changes
      <4>4. \A p \in Paths : folder'[p].stamp <= clock'
        BY <1>0, <4>1, <4>3, RequestFields, WrittenIsNew DEF StampsTell
      <4>5. \A d \in Callers : pc'[d] = "checked" => File(d)' = File(d)
        BY <1>0, <3>2, <4>2, <4>3 DEF File
      <4> QED BY <1>0, <3>2, <4>2, <4>3, <4>4, <4>5 DEF StampsTell
    <3> QED BY <2>7, <3>1, <3>2 DEF Publish
  <2>8. CASE SyncDirectory(c)
    BY <1>0, <2>8, StampsStay DEF SyncDirectory
  <2>9. CASE FailSync(c)
    BY <1>0, <2>9, StampsStay DEF FailSync
  <2> QED BY <1>2, <2>1, <2>2, <2>3, <2>4, <2>5, <2>6, <2>7, <2>8, <2>9 DEF Write, Advance
<1>3. ASSUME NEW c \in Callers, Mutation(c) PROVE StampsTell'
  <2> USE DEF Goto, Answer, SameFrame, SameFolder
  <2>1. CASE AdmitMutation(c)
    BY <1>0, <2>1, StampsStay DEF AdmitMutation
  <2>2. CASE CheckMutation(c)
    BY <1>0, <2>2, StampsStay DEF CheckMutation
  <2>3. CASE Mutate(c)
    <3>1. CASE Answer(c, "refused") /\ SameFolder
      BY <1>0, <3>1, StampsStay
    <3>2. CASE Answer(c, "ok") /\ Mutated(call[c])
      <4>1. \A d \in Callers : pc'[d] # "checked"
        BY <1>0, <2>3, <3>2 DEF Mutate, LocksExclude
      <4>2. clock' = clock + 1 /\ \A p \in Paths : folder'[p] \in {folder[q] : q \in Paths} \cup {Absent}
        <5>1. call[c] \in Requests
          BY <1>0, <2>3 DEF Mutate, CallsMatchPoints
        <5> QED BY <1>0, <3>2, <5>1, RequestFields DEF Mutated, Changes
      <4>3. \A p \in Paths : folder'[p].stamp <= clock'
        BY <1>0, <4>2 DEF StampsTell, Absent
      <4> QED BY <4>1, <4>3 DEF StampsTell
    <3> QED BY <2>3, <3>1, <3>2 DEF Mutate
  <2> QED BY <1>3, <2>1, <2>2, <2>3 DEF Mutation
<1>4. CASE ForeignWrite
  <2>1. PICK p \in Paths, v \in Versions : Changes([folder EXCEPT ![p] = Written(v)], {p})
    BY <1>4 DEF ForeignWrite
  <2>2. UNCHANGED <<pc, call, seen, checkedAt>>
    BY <1>4 DEF ForeignWrite
  <2>3. folder' = [folder EXCEPT ![p] = Written(v)] /\ clock' = clock + 1
    BY <2>1 DEF Changes
  <2>4. \A q \in Paths : folder'[q].stamp <= clock'
    BY <1>0, <2>3, WrittenIsNew DEF StampsTell
  <2>5. ASSUME NEW c \in Callers, pc[c] = "checked"
        PROVE  /\ checkedAt[c] <= clock'
               /\ File(c)' = seen[c] \/ File(c)' = Absent \/ File(c)'.stamp > checkedAt[c]
    <3>1. call[c] \in Requests /\ call[c].path \in Paths
      BY <1>0, <2>5, RequestFields DEF CallsMatchPoints, Requests
    <3>2. checkedAt[c] <= clock /\ checkedAt[c] \in Nat
      BY <1>0, <2>5 DEF StampsTell
    <3>3. CASE call[c].path = p
      BY <1>0, <2>2, <2>3, <3>1, <3>2, <3>3, WrittenIsNew DEF File
    <3>4. CASE call[c].path # p
      BY <1>0, <2>2, <2>3, <2>5, <3>1, <3>2, <3>4 DEF File, StampsTell
    <3> QED BY <3>3, <3>4, <1>0, <2>3, <3>2
  <2> QED BY <2>2, <2>4, <2>5 DEF StampsTell
<1>5. CASE PowerFailure
  <2>1. PICK fs \in disk : folder' = [p \in Paths |-> Written(fs[p])]
    BY <1>5 DEF PowerFailure
  <2>2. \A p \in Paths : fs[p] \in Versions
    BY <2>1 DEF TypeOK
  <2>3. clock' = clock + 1 /\ \A c \in Callers : pc'[c] # "checked"
    BY <1>5 DEF PowerFailure
  <2>4. \A p \in Paths : folder'[p].stamp <= clock'
    BY <2>1, <2>2, <2>3, WrittenIsNew
  <2> QED BY <2>3, <2>4 DEF StampsTell
<1>6. CASE UNCHANGED vars
  BY <1>6 DEF vars, StampsTell, File
<1> QED BY <1>1, <1>2, <1>3, <1>4, <1>5, <1>6 DEF Next, Quiet

\* Only publishing takes a call from its second look to its replacement.
LEMMA OnlyPublishReplaces ==
  ASSUME TypeOK, [Next]_vars, NEW c \in Callers, pc[c] = "checked", pc'[c] = "replaced"
  PROVE  Publish(c) /\ Goto(c, "replaced")
<1> pc \in [Callers -> Points]
  BY DEF TypeOK
<1> USE DEF Goto, Answer
<1>1. CASE ForeignWrite \/ PowerFailure \/ UNCHANGED vars
  BY <1>1 DEF ForeignWrite, PowerFailure, vars
<1>2. ASSUME NEW d \in Callers, Invoke(d) \/ Mutation(d) PROVE FALSE
  BY <1>2 DEF Invoke, Mutation, AdmitMutation, CheckMutation, Mutate
<1>3. ASSUME NEW d \in Callers, Write(d) PROVE Publish(c) /\ Goto(c, "replaced")
  BY <1>3 DEF Write, Advance, AdmitWrite, Lock, CompareDownload, Stage, FailStaging, Recheck,
              Publish, SyncDirectory, FailSync
<1> QED BY <1>1, <1>2, <1>3 DEF Next, Quiet

\* A program that ignores file coordination loses a version to a replacement only when it
\* wrote it after the second snapshot (document_save.rs:265).
THEOREM OnlyTheWindowIsExposedHolds == Spec => OnlyTheWindowIsExposed
<1>1. Init => StampsTell
  <2> SUFFICES ASSUME Init PROVE StampsTell
    OBVIOUS
  <2>1. \A p \in Paths : folder[p].stamp \in {0, 1}
    BY DEF Init, Absent
  <2> QED BY <2>1 DEF Init, StampsTell
<1>2. SaveInvariant /\ StampsTell /\ [Next]_vars => StampsTell'
  BY StampsStep
<1>3. SaveInvariant /\ StampsTell /\ [Next]_vars =>
        [\A c \in Callers :
           LET lost == File(c)
           IN pc[c] = "checked" /\ pc'[c] = "replaced" /\ lost # Absent /\ lost # seen[c]
                => lost.stamp > checkedAt[c]]_vars
  BY DEF StampsTell
<1> QED BY <1>1, <1>2, <1>3, SaveInvariantHolds, PTL DEF Spec, OnlyTheWindowIsExposed

\* A call that was asked to create its document, or found none, never replaces a file
\* that somebody else created meanwhile (document_save.rs:273).
THEOREM NewFilesNeverReplaceHolds == Spec => NewFilesNeverReplace
<1>1. TypeOK /\ [Next]_vars =>
        [\A c \in Callers :
           pc[c] = "checked" /\ pc'[c] = "replaced" /\ seen[c] = Absent => File(c) = Absent]_vars
  <2> SUFFICES ASSUME TypeOK, [Next]_vars, NEW c \in Callers,
                      pc[c] = "checked", pc'[c] = "replaced", seen[c] = Absent
               PROVE  File(c) = Absent
    OBVIOUS
  <2>1. Publish(c) /\ pc'[c] # "refused"
    BY OnlyPublishReplaces
  <2> QED BY <2>1 DEF Publish, Answer, TypeOK
<1> QED BY <1>1, TypeCorrect, PTL DEF Spec, NewFilesNeverReplace
=============================================================================

-------------------------- MODULE CloudSyncProofs --------------------------
(***************************************************************************)
(* Theorems about CloudSync, for every set of paths and contents, both     *)
(* providers and every bound.                                              *)
(***************************************************************************)
EXTENDS CloudSync, TLAPS

USE DEF store, world, plan

\* Appending a commit keeps the older ones and their numbers.
LEMMA HistoryGrows ==
  ASSUME TypeOK,
         history' = history \/ \E f \in Manifests : history' = Append(history, f)
  PROVE  /\ history' \in Seq(Manifests) /\ history' # <<>>
         /\ HeadCommit' >= HeadCommit
         /\ \A i \in 1 .. HeadCommit : i \in 1 .. HeadCommit' /\ history'[i] = history[i]
         /\ expected \in 1 .. HeadCommit' /\ commit \in 1 .. HeadCommit'
         /\ history' # history => HeadCommit' = HeadCommit + 1
<1>1. CASE history' = history
  BY <1>1 DEF TypeOK, HeadCommit
<1>2. CASE \E f \in Manifests : history' = Append(history, f)
  <2>1. PICK f \in Manifests : history' = Append(history, f)
    BY <1>2
  <2>2. Len(history) \in Nat \ {0}
    BY DEF TypeOK
  <2>3. /\ history' \in Seq(Manifests) /\ Len(history') = Len(history) + 1
        /\ \A i \in 1 .. Len(history) : history'[i] = history[i]
    BY <2>1 DEF TypeOK
  <2>4. history' # <<>>
    BY <2>2, <2>3
  <2>. QED BY <2>2, <2>3, <2>4 DEF TypeOK, HeadCommit
<1>. QED BY <1>1, <1>2

\* The frozen commit and the tip hold manifests.
LEMMA CommitTypes ==
  ASSUME TypeOK
  PROVE  /\ Len(history) \in Nat \ {0}
         /\ \A i \in 1 .. Len(history) : history[i] \in Manifests
         /\ Tip \in Manifests /\ Remote \in Manifests
BY DEF TypeOK, Tip, HeadCommit, Remote

\* Every budget the environment spends stays a budget.
LEMMA Spend ==
  ASSUME NEW b \in Budgets
  PROVE  /\ b.local > 0 => [b EXCEPT !.local = @ - 1] \in Budgets
         /\ b.remote > 0 => [b EXCEPT !.remote = @ - 1] \in Budgets
         /\ b.faults > 0 => [b EXCEPT !.faults = @ - 1] \in Budgets
         /\ b.links > 0 => [b EXCEPT !.links = @ - 1] \in Budgets
BY DEF Budgets

\* The absence of a file is one of its versions, and a folder may hold no file.
LEMMA NoFileIsVersion == NoFile \in Versions /\ EmptyManifest \in Manifests
BY DEF Versions, EmptyManifest, Manifests

\* The branch after a publication is the branch with one more commit.
LEMMA CommittedIsAppend ==
  ASSUME TypeOK, NEW changes \in Changes
  PROVE  \E f \in Manifests : Committed(history, changes) = Append(history, f)
<1>. DEFINE f == [p \in Paths |-> IF p \in DOMAIN changes THEN changes[p]
                                 ELSE history[Len(history)][p]]
<1>1. PICK S \in SUBSET Paths : changes \in [S -> Versions]
  BY DEF Changes
<1>2. \A p \in Paths : history[Len(history)][p] \in Versions
  BY CommitTypes DEF Manifests
<1>3. f \in Manifests
  BY <1>1, <1>2 DEF Manifests
<1>. QED BY <1>3 DEF Committed

\* Reading one more upload (sync_coordinator's upload loop) keeps a set of changes.
LEMMA UploadsTyped ==
  ASSUME TypeOK, NEW p \in Paths, ReadUpload(p)
  PROVE  uploads' \in Changes
<1>1. PICK S \in SUBSET Paths : uploads \in [S -> Versions]
  BY DEF TypeOK, Changes
<1>2. scanned[p] \in Versions
  BY DEF TypeOK, Manifests
<1>3. uploads' \in [S \cup {p} -> Versions]
  BY <1>1, <1>2 DEF ReadUpload
<1>. QED BY <1>3 DEF Changes

\* The manifest that an acknowledged publication saves is a manifest.
LEMMA WithUploadsTyped ==
  ASSUME TypeOK
  PROVE  WithUploads \in Manifests
<1>1. PICK S \in SUBSET Paths : uploads \in [S -> Versions]
  BY DEF TypeOK, Changes
<1>. QED BY <1>1 DEF WithUploads, TypeOK, Manifests

\* A call that ends leaves the variables of an operation well typed.
LEMMA EndRunTyped ==
  ASSUME TypeOK, EndRun, history' = history
  PROVE  /\ phase' = "idle" /\ mode' \in {"sync", "pull"} /\ todo' \subseteq Paths
         /\ baseline' \in Manifests /\ scanned' \in Manifests /\ acknowledged' \in Manifests
         /\ expected' \in 1 .. HeadCommit' /\ commit' \in 1 .. HeadCommit'
         /\ uploads' \in Changes
<1>1. Len(history) \in Nat \ {0}
  BY CommitTypes
<1>2. <<>> \in Changes
  <2>1. <<>> \in [{} -> Versions]
    OBVIOUS
  <2>. QED BY <2>1 DEF Changes
<1>. QED BY <1>1, <1>2, NoFileIsVersion DEF EndRun, HeadCommit

\* Every variable keeps its type, whatever the interleaving.
THEOREM TypeCorrect == Spec => []TypeOK
<1>1. Init => TypeOK
  <2>. SUFFICES ASSUME Init PROVE TypeOK
    OBVIOUS
  <2>1. PICK files \in Manifests : history = <<files>>
    BY DEF Init
  <2>2. history \in Seq(Manifests) /\ history # <<>> /\ Len(history) = 1
    BY <2>1
  <2>3. <<>> \in Changes
    <3>1. <<>> \in [{} -> Versions]
      OBVIOUS
    <3>. QED BY <3>1 DEF Changes
  <2>4. local \in Manifests /\ seenLocal \in [Paths -> SUBSET Versions]
    BY DEF Init, Manifests
  <2>. QED
    BY <2>2, <2>3, <2>4, NoFileIsVersion, BoundsAssumption, ProviderAssumption
    DEF Budgets, Init, NoRun, NoBinding, Bindings, TypeOK, HeadCommit
<1>2. TypeOK /\ [Next]_vars => TypeOK'
  <2>. SUFFICES ASSUME TypeOK, [Next]_vars PROVE TypeOK'
    OBVIOUS
  <2>. provider' = provider
    BY DEF Next, vars
  <2>. USE CommitTypes
  <2>1. ASSUME NEW p \in Paths, NEW v \in Versions, EditLocal(p, v) PROVE TypeOK'
    <3>1. budget' \in Budgets
      BY <2>1, Spend DEF TypeOK, EditLocal
    <3>2. local' \in Manifests /\ seenLocal' \in [Paths -> SUBSET Versions]
      BY <2>1 DEF TypeOK, EditLocal, WriteLocal, Manifests
    <3>. QED BY <2>1, <3>1, <3>2 DEF TypeOK, EditLocal, run, HeadCommit
  <2>2. ASSUME NEW p \in Paths, NEW v \in Versions, EditRemote(p, v) PROVE TypeOK'
    <3>1. [Tip EXCEPT ![p] = v] \in Manifests
      BY DEF Manifests
    <3>2. budget' \in Budgets
      BY <2>2, Spend DEF TypeOK, EditRemote
    <3>. QED BY <2>2, <3>1, <3>2, HistoryGrows DEF TypeOK, EditRemote, run, store
  <2>3. ASSUME NEW pub \in late, LateArrival(pub) PROVE TypeOK'
    <3>1. pub.changes \in Changes
      BY DEF TypeOK, Publications
    <3>2. history' = history \/ \E f \in Manifests : history' = Append(history, f)
      BY <2>3, <3>1, CommittedIsAppend DEF LateArrival
    <3>. QED BY <2>3, <3>2, HistoryGrows DEF TypeOK, LateArrival, run, store
  <2>4. ASSUME NEW pub \in late, LateLost(pub) PROVE TypeOK'
    BY <2>4 DEF TypeOK, LateLost, run, store, HeadCommit
  <2>5. CASE StartLink
    BY <2>5 DEF TypeOK, StartLink, store, HeadCommit
  <2>6. CASE SaveLink
    <3>1. budget' \in Budgets
      BY <2>6, Spend DEF TypeOK, SaveLink
    <3>2. binding' \in Bindings
      BY <2>6 DEF TypeOK, SaveLink, Bindings, HeadCommit
    <3>. QED BY <2>6, <3>1, <3>2, EndRunTyped DEF TypeOK, SaveLink, store
  <2>7. ASSUME NEW m \in {"sync", "pull"}, StartSync(m) PROVE TypeOK'
    BY <2>7, NoFileIsVersion DEF TypeOK, StartSync, store, HeadCommit, Bindings
  <2>8. ASSUME NEW p \in Paths, ScanFile(p) PROVE TypeOK'
    BY <2>8 DEF TypeOK, ScanFile, store, HeadCommit, Manifests
  <2>9. CASE Freeze
    BY <2>9 DEF TypeOK, Freeze, store, HeadCommit
  <2>10. CASE StopInConflict
    BY <2>10, EndRunTyped DEF TypeOK, StopInConflict, store, HeadCommit
  <2>11. ASSUME NEW p \in Paths, AcknowledgeConverged(p) PROVE TypeOK'
    BY <2>11 DEF TypeOK, AcknowledgeConverged, store, HeadCommit, Manifests
  <2>12. ASSUME NEW p \in Paths, Download(p) PROVE TypeOK'
    BY <2>12 DEF TypeOK, Download, WriteLocal, HeadCommit, Manifests
  <2>13. CASE CheckpointDownload
    BY <2>13 DEF TypeOK, CheckpointDownload, Checkpointed, Bindings, store, HeadCommit
  <2>14. ASSUME NEW p \in Paths, ReadUpload(p) PROVE TypeOK'
    BY <2>14, UploadsTyped DEF TypeOK, ReadUpload, store, HeadCommit
  <2>15. ASSUME NEW p \in Paths, StopWithError(p) PROVE TypeOK'
    BY <2>15, EndRunTyped DEF TypeOK, StopWithError, store, HeadCommit
  <2>16. CASE FinishWithoutUploads
    <3>1. binding' \in Bindings
      BY <2>16 DEF TypeOK, FinishWithoutUploads, Checkpointed, Bindings, HeadCommit
    <3>. QED BY <2>16, <3>1, EndRunTyped DEF TypeOK, FinishWithoutUploads, store
  <2>17. CASE Publish
    BY <2>17 DEF TypeOK, Publish, store, HeadCommit
  <2>18. CASE ServerCommits
    <3>1. \E f \in Manifests : history' = Append(history, f)
      BY <2>18, CommittedIsAppend DEF TypeOK, ServerCommits
    <3>. QED BY <2>18, <3>1, HistoryGrows DEF TypeOK, ServerCommits, store, HeadCommit
  <2>19. CASE ServerRejects
    BY <2>19, EndRunTyped DEF TypeOK, ServerRejects, store, HeadCommit
  <2>20. CASE ReadAcknowledgment
    <3>1. WithUploads \in Manifests
      BY WithUploadsTyped
    <3>2. binding' \in Bindings
      BY <2>20, <3>1 DEF TypeOK, ReadAcknowledgment, Checkpointed, Bindings, HeadCommit
    <3>. QED BY <2>20, <3>2, EndRunTyped DEF TypeOK, ReadAcknowledgment, store
  <2>21. CASE Interrupt
    <3>1. budget' \in Budgets
      BY <2>21, Spend DEF TypeOK, Interrupt
    <3>2. late' \subseteq Publications
      BY <2>21 DEF TypeOK, Interrupt, Publication, Publications, HeadCommit
    <3>. QED BY <2>21, <3>1, <3>2, EndRunTyped DEF TypeOK, Interrupt, store
  <2>22. CASE UNCHANGED vars
    BY <2>22 DEF TypeOK, vars, run, HeadCommit
  <2>. QED
    BY <2>1, <2>2, <2>3, <2>4, <2>5, <2>6, <2>7, <2>8, <2>9, <2>10, <2>11, <2>12, <2>13,
       <2>14, <2>15, <2>16, <2>17, <2>18, <2>19, <2>20, <2>21, <2>22
    DEF Next, Environment, RunStep
<1>. QED BY <1>1, <1>2, PTL DEF Spec

-----------------------------------------------------------------------------
(* The inductive invariant. *)

\* Commits and the versions a path had are never forgotten.
Grows ==
  /\ HeadCommit' >= HeadCommit
  /\ \A i \in 1 .. HeadCommit : i \in 1 .. HeadCommit' /\ history'[i] = history[i]
  /\ \A p \in Paths : seenLocal[p] \subseteq seenLocal'[p]

\* A step that at most appends one commit makes the history grow.
LEMMA HistoryGrown ==
  ASSUME TypeOK, UNCHANGED seenLocal,
         history' = history \/ \E f \in Manifests : history' = Append(history, f)
  PROVE  Grows
BY HistoryGrows DEF Grows

\* A step that writes one file of the workspace makes what it has seen grow.
LEMMA LocalWritten ==
  ASSUME TypeOK, UNCHANGED history, NEW p \in Paths, NEW v \in Versions, WriteLocal(p, v)
  PROVE  /\ Grows
         /\ v \in seenLocal'[p]
         /\ RunIsShared => \A q \in Paths : local'[q] \in seenLocal'[q]
BY CommitTypes DEF TypeOK, Grows, WriteLocal, RunIsShared, Manifests, HeadCommit

\* What both sides have seen stays seen.
LEMMA SharedPersists ==
  ASSUME TypeOK, Grows, NEW p \in Paths, NEW v
  PROVE  /\ Shared(p, v) => Shared(p, v)'
         /\ InWorkspace(p, v) => InWorkspace(p, v)'
         /\ InHistory(p, v) => InHistory(p, v)'
BY CommitTypes DEF Grows, Shared, InWorkspace, InHistory, HeadCommit

\* The stored baseline stays true while nobody writes the binding.
LEMMA BindingPersists ==
  ASSUME TypeOK, Grows, UNCHANGED binding, BaselineIsShared, CommitMatchesBaseline
  PROVE  BaselineIsShared' /\ CommitMatchesBaseline'
<1>1. BaselineIsShared'
  BY SharedPersists DEF BaselineIsShared
<1>2. CommitMatchesBaseline'
  BY CommitTypes DEF CommitMatchesBaseline, Grows, HeadCommit, TypeOK, Bindings
<1>. QED BY <1>1, <1>2

\* Publications left in the network stay safe while both sides only grow.
LEMMA LatePersists ==
  ASSUME TypeOK, Grows, late' \subseteq late, LatePublicationsAreSafe
  PROVE  LatePublicationsAreSafe'
<1>. SUFFICES ASSUME NEW pub \in late, pub \in late'
              PROVE  /\ pub.expected <= HeadCommit'
                     /\ \A p \in DOMAIN pub.changes : InWorkspace(p, history[pub.expected][p])'
  BY DEF LatePublicationsAreSafe
<1>1. pub.expected \in 1 .. HeadCommit /\ DOMAIN pub.changes \subseteq Paths
  BY CommitTypes DEF LatePublicationsAreSafe, TypeOK, Publications, Changes, HeadCommit
<1>2. pub.expected \in 1 .. HeadCommit' /\ history'[pub.expected] = history[pub.expected]
  BY <1>1 DEF Grows
<1>. QED BY <1>1, <1>2, SharedPersists, CommitTypes DEF LatePublicationsAreSafe, InWorkspace, Grows, HeadCommit

\* A run's own facts survive what the world does meanwhile.
LEMMA WorldStep ==
  ASSUME TypeOK, SyncInvariant, Grows, UNCHANGED <<provider, binding, run>>, late' \subseteq late,
         \A p \in Paths : local'[p] \in seenLocal'[p]
  PROVE  SyncInvariant'
<1>1. BaselineIsShared' /\ CommitMatchesBaseline'
  BY BindingPersists DEF SyncInvariant
<1>2. LatePublicationsAreSafe'
  BY LatePersists DEF SyncInvariant
<1>3. RunIsShared'
  BY SharedPersists DEF SyncInvariant, RunIsShared, run
<1>4. Remote' = Remote /\ history'[commit] = history[commit]
  BY CommitTypes DEF run, Remote, Grows, TypeOK
<1>5. VisitedPathsAgree'
  BY <1>4 DEF SyncInvariant, VisitedPathsAgree, run, Transferring, ActionOf
<1>6. LandedCommitHoldsUploads'
  BY <1>4 DEF SyncInvariant, LandedCommitHoldsUploads, run, WithUploads, CoversBranch
<1>. QED BY <1>1, <1>2, <1>3, <1>5, <1>6 DEF SyncInvariant

\* The end of an operation forgets its variables.
LEMMA EndStep ==
  ASSUME TypeOK, SyncInvariant, EndRun, UNCHANGED <<store, history>>,
         BaselineIsShared', CommitMatchesBaseline', LatePublicationsAreSafe'
  PROVE  SyncInvariant'
<1>1. RunIsShared'
  BY DEF SyncInvariant, RunIsShared, EndRun, store, Shared, InHistory, InWorkspace, EmptyManifest
<1>2. VisitedPathsAgree'
  BY DEF VisitedPathsAgree, EndRun, Transferring
<1>3. LandedCommitHoldsUploads'
  BY DEF LandedCommitHoldsUploads, EndRun
<1>. QED BY <1>1, <1>2, <1>3 DEF SyncInvariant

\* A step of an operation that writes neither side nor the binding.
LEMMA QuietStep ==
  ASSUME TypeOK, SyncInvariant, UNCHANGED <<store, history, late, binding>>
  PROVE  /\ Grows
         /\ BaselineIsShared' /\ CommitMatchesBaseline' /\ LatePublicationsAreSafe'
         /\ \A p \in Paths : local'[p] \in seenLocal'[p]
         /\ \A p \in Paths : \A v : Shared(p, v)' <=> Shared(p, v)
         /\ \A p \in Paths : \A v : InWorkspace(p, v)' <=> InWorkspace(p, v)
<1>1. Grows
  BY HistoryGrown DEF store
<1>. QED
  BY <1>1, BindingPersists, LatePersists
  DEF SyncInvariant, RunIsShared, store, Shared, InHistory, InWorkspace, HeadCommit

\* Every action of the engine, of the user, of other devices and of the network
\* preserves the inductive invariant.
LEMMA StepPreservesInvariant ==
  ASSUME TypeOK, SyncInvariant, [Next]_vars
  PROVE  SyncInvariant'
<1>. provider' = provider
  BY DEF Next, vars
<1>. USE CommitTypes
<1>1. ASSUME NEW p \in Paths, NEW v \in Versions, EditLocal(p, v) PROVE SyncInvariant'
  BY <1>1, LocalWritten, WorldStep DEF EditLocal, SyncInvariant
<1>2. ASSUME NEW p \in Paths, NEW v \in Versions, EditRemote(p, v) PROVE SyncInvariant'
  <2>1. [Tip EXCEPT ![p] = v] \in Manifests
    BY DEF Manifests
  <2>. QED
    BY <1>2, <2>1, HistoryGrown, WorldStep DEF EditRemote, SyncInvariant, RunIsShared, store
<1>3. ASSUME NEW pub \in late, LateArrival(pub) PROVE SyncInvariant'
  <2>1. pub.changes \in Changes
    BY DEF TypeOK, Publications
  <2>2. history' = history \/ \E f \in Manifests : history' = Append(history, f)
    BY <1>3, <2>1, CommittedIsAppend DEF LateArrival
  <2>. QED
    BY <1>3, <2>2, HistoryGrown, WorldStep DEF LateArrival, SyncInvariant, RunIsShared, store
<1>4. ASSUME NEW pub \in late, LateLost(pub) PROVE SyncInvariant'
  BY <1>4, HistoryGrown, WorldStep DEF LateLost, SyncInvariant, RunIsShared, store
<1>5. CASE StartLink
  <2>1. phase = "idle" /\ phase' = "link"
    BY <1>5 DEF StartLink
  <2>. QED
    BY <1>5, <2>1, QuietStep
    DEF StartLink, SyncInvariant, RunIsShared, VisitedPathsAgree, LandedCommitHoldsUploads,
        Transferring
<1>6. CASE SaveLink
  <2>1. BaselineIsShared' /\ CommitMatchesBaseline'
    BY <1>6 DEF SaveLink, BaselineIsShared, CommitMatchesBaseline, Remote, TypeOK, HeadCommit
  <2>2. LatePublicationsAreSafe'
    BY <1>6, HistoryGrown, LatePersists DEF SaveLink, store, SyncInvariant
  <2>. QED
    BY <1>6, <2>1, <2>2, EndStep DEF SaveLink
<1>7. ASSUME NEW m \in {"sync", "pull"}, StartSync(m) PROVE SyncInvariant'
  <2>1. \A p \in Paths : Shared(p, baseline'[p])
    BY <1>7 DEF StartSync, SyncInvariant, BaselineIsShared, EmptyManifest, Shared, InHistory, InWorkspace
  <2>. QED
    BY <1>7, <2>1, QuietStep
    DEF StartSync, SyncInvariant, RunIsShared, VisitedPathsAgree, LandedCommitHoldsUploads,
        Transferring
<1>8. ASSUME NEW p \in Paths, ScanFile(p) PROVE SyncInvariant'
  <2>1. \A q \in Paths : InWorkspace(q, scanned'[q])
    BY <1>8 DEF ScanFile, SyncInvariant, RunIsShared, InWorkspace, TypeOK, Manifests
  <2>. QED
    BY <1>8, <2>1, QuietStep
    DEF ScanFile, SyncInvariant, RunIsShared, VisitedPathsAgree, LandedCommitHoldsUploads,
        Transferring
<1>9. CASE Freeze
  <2>1. \A p \in Paths : ActionOf(p)' # "Conflict"
    BY <1>9 DEF Freeze, Conflicts, ActionOf, Remote, Tip, store, Action
  <2>2. RunIsShared'
    BY <1>9, QuietStep DEF Freeze, SyncInvariant, RunIsShared
  <2>3. VisitedPathsAgree'
    BY <1>9, <2>1 DEF Freeze, SyncInvariant, VisitedPathsAgree, Transferring
  <2>. QED
    BY <1>9, <2>2, <2>3, QuietStep DEF Freeze, SyncInvariant, LandedCommitHoldsUploads
<1>10. CASE StopInConflict
  BY <1>10, QuietStep, EndStep DEF StopInConflict
<1>11. ASSUME NEW p \in Paths, AcknowledgeConverged(p) PROVE SyncInvariant'
  <2>1. scanned[p] = Remote[p]
    BY <1>11 DEF AcknowledgeConverged, ActionOf, Action, Plan
  <2>2. Shared(p, Remote[p])
    BY <2>1 DEF SyncInvariant, RunIsShared, Shared, InHistory, Remote, TypeOK, HeadCommit
  <2>3. RunIsShared'
    BY <1>11, <2>2, QuietStep DEF AcknowledgeConverged, SyncInvariant, RunIsShared, TypeOK, Manifests
  <2>4. VisitedPathsAgree'
    BY <1>11
    DEF AcknowledgeConverged, SyncInvariant, VisitedPathsAgree, Transferring, ActionOf, Remote,
        store, TypeOK, Manifests
  <2>. QED
    BY <1>11, <2>3, <2>4, QuietStep
    DEF AcknowledgeConverged, SyncInvariant, LandedCommitHoldsUploads
<1>12. ASSUME NEW p \in Paths, Download(p) PROVE SyncInvariant'
  <2>1. Remote[p] \in Versions
    BY DEF Manifests
  <2>2. /\ Grows /\ Remote[p] \in seenLocal'[p]
        /\ \A q \in Paths : local'[q] \in seenLocal'[q]
    BY <1>12, <2>1, LocalWritten DEF Download, SyncInvariant
  <2>3. BaselineIsShared' /\ CommitMatchesBaseline' /\ LatePublicationsAreSafe'
    BY <1>12, <2>2, BindingPersists, LatePersists DEF Download, SyncInvariant
  <2>4. Shared(p, Remote[p])'
    BY <1>12, <2>2, <2>1
    DEF Download, Shared, InHistory, InWorkspace, Remote, TypeOK, HeadCommit
  <2>5. ASSUME NEW q \in Paths PROVE Shared(q, acknowledged[q])'
    <3>1. CASE q = p
      <4>1. acknowledged'[q] = Remote'[p]
        BY <1>12, <3>1 DEF Download, TypeOK, Manifests, Remote
      <4>. QED BY <2>4, <3>1, <4>1 DEF Shared, InHistory, InWorkspace
    <3>2. CASE q # p
      <4>1. acknowledged'[q] = acknowledged[q]
        BY <1>12, <3>2 DEF Download, TypeOK, Manifests
      <4>2. Shared(q, acknowledged[q])
        BY DEF SyncInvariant, RunIsShared
      <4>3. Shared(q, acknowledged[q]) => \A v : v = acknowledged[q] => Shared(q, v)'
        BY <2>2, SharedPersists
      <4>. QED BY <4>1, <4>2, <4>3 DEF Shared, InHistory, InWorkspace
    <3>. QED BY <3>1, <3>2
  <2>6. RunIsShared'
    BY <1>12, <2>2, <2>5, SharedPersists DEF Download, SyncInvariant, RunIsShared
  <2>7. VisitedPathsAgree'
    BY <1>12
    DEF Download, SyncInvariant, VisitedPathsAgree, Transferring, ActionOf, Remote, TypeOK, Manifests
  <2>. QED
    BY <1>12, <2>3, <2>6, <2>7 DEF Download, SyncInvariant, LandedCommitHoldsUploads
<1>13. CASE CheckpointDownload
  <2>1. BaselineIsShared' /\ CommitMatchesBaseline'
    BY <1>13
    DEF CheckpointDownload, Checkpointed, SyncInvariant, RunIsShared, BaselineIsShared,
        CommitMatchesBaseline, store, Shared, InHistory, InWorkspace, HeadCommit
  <2>2. LatePublicationsAreSafe'
    BY <1>13, HistoryGrown, LatePersists DEF CheckpointDownload, store, SyncInvariant
  <2>3. RunIsShared'
    BY <1>13, HistoryGrown, SharedPersists
    DEF CheckpointDownload, SyncInvariant, RunIsShared, store
  <2>4. VisitedPathsAgree'
    BY <1>13
    DEF CheckpointDownload, SyncInvariant, VisitedPathsAgree, Transferring, ActionOf, Remote, store
  <2>. QED
    BY <1>13, <2>1, <2>2, <2>3, <2>4
    DEF CheckpointDownload, SyncInvariant, LandedCommitHoldsUploads
<1>14. ASSUME NEW p \in Paths, ReadUpload(p) PROVE SyncInvariant'
  <2>1. mode = "sync" /\ Remote[p] = baseline[p]
    BY <1>14 DEF ReadUpload, ActionOf, Action, Plan, TypeOK
  <2>2. Remote' = Remote /\ \A q \in Paths : ActionOf(q)' = ActionOf(q)
    BY <1>14 DEF ReadUpload, Remote, ActionOf, store
  <2>3. VisitedPathsAgree'
    BY <1>14, <2>1, <2>2 DEF ReadUpload, SyncInvariant, VisitedPathsAgree, Transferring
  <2>4. RunIsShared'
    BY <1>14, QuietStep DEF ReadUpload, SyncInvariant, RunIsShared
  <2>. QED
    BY <1>14, <2>3, <2>4, QuietStep DEF ReadUpload, SyncInvariant, LandedCommitHoldsUploads
<1>15. ASSUME NEW p \in Paths, StopWithError(p) PROVE SyncInvariant'
  BY <1>15, QuietStep, EndStep DEF StopWithError
<1>16. CASE FinishWithoutUploads
  <2>1. acknowledged = Remote
    BY <1>16
    DEF FinishWithoutUploads, SyncInvariant, VisitedPathsAgree, Transferring, TypeOK, Manifests
  <2>2. BaselineIsShared'
    BY <1>16
    DEF FinishWithoutUploads, Checkpointed, SyncInvariant, RunIsShared, BaselineIsShared,
        store, Shared, InHistory, InWorkspace, HeadCommit
  <2>3. CommitMatchesBaseline'
    BY <1>16, <2>1
    DEF FinishWithoutUploads, Checkpointed, CommitMatchesBaseline, Remote, TypeOK, HeadCommit
  <2>4. LatePublicationsAreSafe'
    BY <1>16, HistoryGrown, LatePersists DEF FinishWithoutUploads, store, SyncInvariant
  <2>. QED
    BY <1>16, <2>2, <2>3, <2>4, EndStep DEF FinishWithoutUploads
<1>17. CASE Publish
  BY <1>17, QuietStep
  DEF Publish, SyncInvariant, RunIsShared, VisitedPathsAgree, LandedCommitHoldsUploads,
      Transferring, ActionOf, Remote, store
<1>18. CASE ServerCommits
  <2>. DEFINE f == [p \in Paths |-> IF p \in DOMAIN uploads THEN uploads[p] ELSE Tip[p]]
  <2>1. history' = Append(history, f)
    BY <1>18 DEF ServerCommits, Committed, Tip, HeadCommit
  <2>2. \E g \in Manifests : history' = Append(history, g)
    BY <1>18, CommittedIsAppend DEF ServerCommits, TypeOK
  <2>3. Grows
    BY <1>18, <2>2, HistoryGrown DEF ServerCommits, store
  <2>4. BaselineIsShared' /\ CommitMatchesBaseline' /\ LatePublicationsAreSafe'
    BY <1>18, <2>3, BindingPersists, LatePersists DEF ServerCommits, SyncInvariant
  <2>5. RunIsShared'
    BY <1>18, <2>3, SharedPersists DEF ServerCommits, SyncInvariant, RunIsShared, store
  <2>6. Remote' = Remote /\ \A q \in Paths : ActionOf(q)' = ActionOf(q)
    BY <1>18, <2>3 DEF ServerCommits, Remote, ActionOf, Grows, TypeOK
  <2>7. VisitedPathsAgree'
    BY <1>18, <2>6 DEF ServerCommits, SyncInvariant, VisitedPathsAgree, Transferring
  <2>8. history'[commit'] = f
    BY <1>18, <2>1 DEF ServerCommits, HeadCommit, TypeOK
  <2>9. DOMAIN uploads \subseteq Paths
    BY DEF TypeOK, Changes
  <2>10. \A p \in DOMAIN uploads : history'[commit'][p] = uploads[p]
    BY <2>8, <2>9
  <2>11. ASSUME CoversBranch PROVE f = WithUploads
    <3>1. Tip = Remote
      BY <1>18, <2>11 DEF CoversBranch, ServerCommits, Accepts, Publication, Tip, Remote, HeadCommit
    <3>2. \A p \in Paths : p \notin DOMAIN uploads => acknowledged[p] = Remote[p]
      BY <1>18 DEF ServerCommits, SyncInvariant, VisitedPathsAgree, Transferring
    <3>. QED BY <3>1, <3>2 DEF WithUploads
  <2>12. LandedCommitHoldsUploads'
    BY <1>18, <2>8, <2>10, <2>11
    DEF LandedCommitHoldsUploads, ServerCommits, WithUploads, CoversBranch
  <2>. QED BY <2>4, <2>5, <2>7, <2>12 DEF SyncInvariant
<1>19. CASE ServerRejects
  BY <1>19, QuietStep, EndStep DEF ServerRejects
<1>20. CASE ReadAcknowledgment
  <2>1. \A p \in Paths : Shared(p, WithUploads[p])
    <3>. SUFFICES ASSUME NEW p \in Paths PROVE Shared(p, WithUploads[p])
      OBVIOUS
    <3>1. CASE p \in DOMAIN uploads
      BY <1>20, <3>1
      DEF ReadAcknowledgment, WithUploads, SyncInvariant, RunIsShared, VisitedPathsAgree,
          LandedCommitHoldsUploads, Shared, InHistory, TypeOK, HeadCommit
    <3>2. CASE p \notin DOMAIN uploads
      BY <3>2 DEF WithUploads, SyncInvariant, RunIsShared
    <3>. QED BY <3>1, <3>2
  <2>2. BaselineIsShared'
    BY <1>20, <2>1
    DEF ReadAcknowledgment, Checkpointed, BaselineIsShared, store, Shared, InHistory,
        InWorkspace, HeadCommit
  <2>3. CommitMatchesBaseline'
    BY <1>20
    DEF ReadAcknowledgment, Checkpointed, CommitMatchesBaseline, SyncInvariant,
        LandedCommitHoldsUploads, TypeOK, HeadCommit
  <2>4. LatePublicationsAreSafe'
    BY <1>20, HistoryGrown, LatePersists DEF ReadAcknowledgment, store, SyncInvariant
  <2>. QED
    BY <1>20, <2>2, <2>3, <2>4, EndStep DEF ReadAcknowledgment
<1>21. CASE Interrupt
  <2>1. \A p \in DOMAIN uploads : InWorkspace(p, history[expected][p])
    <3>1. DOMAIN uploads \subseteq Paths
      BY DEF TypeOK, Changes
    <3>. QED BY <3>1 DEF SyncInvariant, VisitedPathsAgree, RunIsShared, Shared, Remote
  <2>2. LatePublicationsAreSafe'
    BY <1>21, <2>1
    DEF Interrupt, SyncInvariant, LatePublicationsAreSafe, Publication, store, InWorkspace,
        HeadCommit, TypeOK
  <2>3. BaselineIsShared' /\ CommitMatchesBaseline'
    BY <1>21, HistoryGrown, BindingPersists DEF Interrupt, store, SyncInvariant
  <2>. QED
    BY <1>21, <2>2, <2>3, EndStep DEF Interrupt
<1>22. CASE UNCHANGED vars
  BY <1>22, HistoryGrown, WorldStep DEF vars, SyncInvariant, RunIsShared
<1>. QED
  BY <1>1, <1>2, <1>3, <1>4, <1>5, <1>6, <1>7, <1>8, <1>9, <1>10, <1>11, <1>12, <1>13,
     <1>14, <1>15, <1>16, <1>17, <1>18, <1>19, <1>20, <1>21, <1>22
  DEF Next, Environment, RunStep

\* In every behaviour: the stored baseline holds only versions both sides had,
\* and a recorded commit has exactly the recorded files.
THEOREM SyncInvariantHolds == Spec => []SyncInvariant
<1>1. Init => SyncInvariant
  BY DEF Init, NoRun, NoBinding, SyncInvariant, BaselineIsShared, CommitMatchesBaseline,
         RunIsShared, VisitedPathsAgree, LandedCommitHoldsUploads, LatePublicationsAreSafe,
         Transferring, EmptyManifest, Shared, InHistory, InWorkspace
<1>2. TypeOK /\ SyncInvariant /\ [Next]_vars => SyncInvariant'
  BY StepPreservesInvariant
<1>. QED BY <1>1, <1>2, TypeCorrect, PTL DEF Spec

\* The stored baseline only ever holds versions that were in the workspace and on
\* the branch.
THEOREM BaselineSharedHolds == Spec => []BaselineIsShared
BY SyncInvariantHolds, PTL DEF SyncInvariant

\* A binding that names a commit describes exactly the files of that commit.
THEOREM CommitMatchesHolds == Spec => []CommitMatchesBaseline
BY SyncInvariantHolds, PTL DEF SyncInvariant

\* A clean status is true: no local and no remote change means equal files.
THEOREM CleanStatusHolds == Spec => []CleanStatusIsTrue
<1>1. TypeOK /\ SyncInvariant => CleanStatusIsTrue
  <2>. SUFFICES ASSUME TypeOK, SyncInvariant, LocalChanges = {}, ~RemoteChanged
                PROVE  local = Tip
    BY DEF CleanStatusIsTrue
  <2>1. binding.lastCommit = HeadCommit /\ HeadCommit # 0
    BY CommitTypes DEF RemoteChanged, HeadCommit
  <2>2. binding.manifest = Tip
    BY <2>1 DEF SyncInvariant, CommitMatchesBaseline, Tip
  <2>3. \A p \in Paths : local[p] = Tip[p]
    BY <2>2 DEF LocalChanges
  <2>. QED BY <2>3, CommitTypes DEF TypeOK, Manifests
<1>. QED BY <1>1, TypeCorrect, SyncInvariantHolds, PTL

-----------------------------------------------------------------------------
(* Action properties. *)

\* A download replaces a file only by a plan that found it unchanged since the
\* baseline, which the branch has held, or on the user's order to discard it.
LEMMA StepKeepsLocalWork ==
  ASSUME TypeOK, SyncInvariant, [Next]_vars, NEW p \in Paths, local'[p] # local[p]
  PROVE  \/ \E v \in Versions : EditLocal(p, v)
         \/ InHistory(p, local[p])
         \/ mode = "pull" /\ local[p] = scanned[p]
<1>1. \/ \E q \in Paths, v \in Versions : EditLocal(q, v)
      \/ \E q \in Paths : Download(q)
  BY DEF Next, Environment, RunStep, vars, store, EditRemote, LateArrival, LateLost, StartLink,
         SaveLink, StartSync, ScanFile, Freeze, StopInConflict, AcknowledgeConverged,
         CheckpointDownload, ReadUpload, StopWithError, FinishWithoutUploads, Publish,
         ServerCommits, ServerRejects, ReadAcknowledgment, Interrupt
<1>2. CASE \E q \in Paths, v \in Versions : EditLocal(q, v)
  BY <1>2 DEF EditLocal, WriteLocal, TypeOK, Manifests
<1>3. CASE \E q \in Paths : Download(q)
  <2>1. Download(p)
    BY <1>3 DEF Download, WriteLocal, TypeOK, Manifests
  <2>2. CASE mode = "pull"
    BY <2>1, <2>2 DEF Download
  <2>3. CASE mode # "pull"
    <3>1. local[p] = baseline[p]
      BY <2>1, <2>3 DEF Download, ActionOf, Action, Plan
    <3>. QED BY <3>1 DEF SyncInvariant, RunIsShared, Shared
  <2>. QED BY <2>2, <2>3
<1>. QED BY <1>1, <1>2, <1>3

\* A sync never destroys the only copy of what the user wrote.
THEOREM LocalWorkSurvivesHolds == Spec => LocalWorkSurvives
<1>1. TypeOK /\ SyncInvariant /\ [Next]_vars =>
        [\A p \in Paths : local'[p] # local[p] =>
           \/ \E v \in Versions : EditLocal(p, v)
           \/ InHistory(p, local[p])
           \/ mode = "pull" /\ local[p] = scanned[p]]_vars
  BY StepKeepsLocalWork
<1>. QED BY <1>1, TypeCorrect, SyncInvariantHolds, PTL DEF Spec, LocalWorkSurvives

\* An accepted publication finds its files as they were when it was computed.
LEMMA AcceptedOverFrozen ==
  ASSUME TypeOK, NEW pub \in Publications, pub.expected <= HeadCommit,
         Accepts(history, pub), NEW p \in DOMAIN pub.changes
  PROVE  Tip[p] = NoFile \/ Tip[p] = history[pub.expected][p]
BY CommitTypes DEF Accepts, Tip, HeadCommit, Publications

\* Whatever changes a file on the branch is another device's commit, or replaces
\* a version the workspace has held.
LEMMA StepKeepsRemoteWork ==
  ASSUME TypeOK, SyncInvariant, [Next]_vars, NEW p \in Paths, Tip'[p] # Tip[p]
  PROVE  \/ \E v \in Versions : EditRemote(p, v)
         \/ InWorkspace(p, Tip[p])
<1>1. \/ \E q \in Paths, v \in Versions : EditRemote(q, v)
      \/ \E pub \in late : LateArrival(pub)
      \/ ServerCommits
  BY DEF Next, Environment, RunStep, vars, store, EditLocal, LateLost, StartLink,
         SaveLink, StartSync, ScanFile, Freeze, StopInConflict, AcknowledgeConverged, Download,
         CheckpointDownload, ReadUpload, StopWithError, FinishWithoutUploads, Publish,
         ServerRejects, ReadAcknowledgment, Interrupt, Tip, HeadCommit
<1>2. CASE \E q \in Paths, v \in Versions : EditRemote(q, v)
  <2>1. PICK q \in Paths, v \in Versions : EditRemote(q, v)
    BY <1>2
  <2>2. Tip' = [Tip EXCEPT ![q] = v]
    BY <2>1, CommitTypes DEF EditRemote, Tip, HeadCommit, TypeOK
  <2>3. q = p
    BY <2>2, CommitTypes DEF Manifests
  <2>. QED BY <2>1, <2>3
<1>3. ASSUME NEW pub \in Publications, Accepts(history, pub), pub.expected <= HeadCommit,
             history' = Committed(history, pub.changes),
             \A q \in DOMAIN pub.changes : InWorkspace(q, history[pub.expected][q])
      PROVE  InWorkspace(p, Tip[p])
  <2>1. Tip' = [q \in Paths |-> IF q \in DOMAIN pub.changes THEN pub.changes[q] ELSE Tip[q]]
    BY <1>3, CommitTypes DEF Committed, Tip, HeadCommit, TypeOK
  <2>2. p \in DOMAIN pub.changes
    BY <2>1
  <2>. QED BY <1>3, <2>2, AcceptedOverFrozen DEF InWorkspace
<1>4. CASE \E pub \in late : LateArrival(pub)
  <2>1. PICK pub \in late : LateArrival(pub)
    BY <1>4
  <2>2. Accepts(history, pub) /\ history' = Committed(history, pub.changes)
    BY <2>1 DEF LateArrival, Tip, HeadCommit
  <2>. QED BY <1>3, <2>2 DEF SyncInvariant, LatePublicationsAreSafe, TypeOK
<1>5. CASE ServerCommits
  <2>1. Publication \in Publications /\ expected <= HeadCommit
    BY CommitTypes DEF Publication, Publications, TypeOK, HeadCommit
  <2>2. \A q \in DOMAIN uploads : InWorkspace(q, history[expected][q])
    <3>1. DOMAIN uploads \subseteq Paths
      BY DEF TypeOK, Changes
    <3>. QED BY <3>1 DEF SyncInvariant, VisitedPathsAgree, RunIsShared, Shared, Remote
  <2>3. Accepts(history, Publication) /\ history' = Committed(history, Publication.changes)
    BY <1>5 DEF ServerCommits, Publication
  <2>. QED BY <1>3, <2>1, <2>2, <2>3 DEF Publication
<1>. QED BY <1>1, <1>2, <1>4, <1>5

\* A publication never destroys a version this workspace has not held.
THEOREM RemoteWorkSurvivesHolds == Spec => RemoteWorkSurvives
<1>1. TypeOK /\ SyncInvariant /\ [Next]_vars =>
        [\A p \in Paths : Tip'[p] # Tip[p] =>
           \/ \E v \in Versions : EditRemote(p, v)
           \/ InWorkspace(p, Tip[p])]_vars
  BY StepKeepsRemoteWork
<1>. QED BY <1>1, TypeCorrect, SyncInvariantHolds, PTL DEF Spec, RemoteWorkSurvives

-----------------------------------------------------------------------------
(* What diverged stays diverged. *)

\* A step of the world, while no operation and no link writes the binding.
LEMMA WorldKeepsDivergence ==
  ASSUME TypeOK, SyncInvariant, DivergenceInvariant, Grows, UNCHANGED <<binding, run>>,
         late' \subseteq late, budget'.links = budget.links
  PROVE  DivergenceInvariant'
<1>1. \A p \in Paths : Base(p)' = Base(p)
  BY DEF Base
<1>2. LinksAreCounted'
  BY DEF DivergenceInvariant, LinksAreCounted, run
<1>3. BaselineIsStored'
  BY <1>1 DEF DivergenceInvariant, BaselineIsStored, run, Transferring, TypeOK, Changes
<1>4. CommitsFollow'
  BY DEF DivergenceInvariant, CommitsFollow, run, Transferring
<1>5. LateReplacesBase'
  <2>. SUFFICES ASSUME ~Relinked', NEW pub \in late', NEW p \in DOMAIN pub.changes,
                       Untouched(pub, p)'
                PROVE  Base(p)' = history'[pub.expected][p]
    BY DEF LateReplacesBase
  <2>1. pub \in late /\ p \in Paths /\ pub.expected \in 1 .. HeadCommit
    BY CommitTypes
    DEF SyncInvariant, LatePublicationsAreSafe, TypeOK, Publications, Changes, HeadCommit
  <2>2. Untouched(pub, p)
    BY <2>1, CommitTypes DEF Untouched, Grows, HeadCommit
  <2>3. ~Relinked
    BY DEF Relinked
  <2>4. Base(p) = history[pub.expected][p]
    BY <2>1, <2>2, <2>3 DEF DivergenceInvariant, LateReplacesBase
  <2>. QED BY <1>1, <2>1, <2>4 DEF Grows
<1>. QED BY <1>2, <1>3, <1>4, <1>5 DEF DivergenceInvariant

\* An operation that ends leaves what it knew of the baseline behind.
LEMMA EndKeepsDivergence ==
  ASSUME DivergenceInvariant, EndRun, LinksAreCounted', LateReplacesBase'
  PROVE  DivergenceInvariant'
BY DEF DivergenceInvariant, EndRun, BaselineIsStored, CommitsFollow, Transferring

\* Steps that write neither the binding nor what late publications depend on.
LEMMA BindingKeepsDivergence ==
  ASSUME TypeOK, DivergenceInvariant, UNCHANGED <<history, late, binding, budget>>
  PROVE  /\ LateReplacesBase'
         /\ \A p : Base(p)' = Base(p)
         /\ binding.linked \/ phase' \in {"idle", "link"} => LinksAreCounted'
BY DEF DivergenceInvariant, LateReplacesBase, Relinked, Untouched, Base, HeadCommit, LinksAreCounted

\* A checkpoint moves the baseline of a path only to a version that the branch
\* had at the frozen commit or later.
LEMMA CheckpointKeepsDivergence ==
  ASSUME TypeOK, SyncInvariant, DivergenceInvariant, Transferring,
         UNCHANGED <<history, late, budget>>, binding'.linked = TRUE,
         \A p \in Paths : \/ Base(p)' = Base(p)
                          \/ \E i \in expected .. HeadCommit : Base(p)' = history[i][p]
  PROVE  LateReplacesBase' /\ LinksAreCounted'
<1>1. LinksAreCounted'
  BY DEF DivergenceInvariant, LinksAreCounted, Transferring
<1>2. LateReplacesBase'
  <2>. SUFFICES ASSUME ~Relinked', NEW pub \in late', NEW p \in DOMAIN pub.changes,
                       Untouched(pub, p)'
                PROVE  Base(p)' = history'[pub.expected][p]
    BY DEF LateReplacesBase
  <2>1. pub \in late /\ p \in Paths /\ pub.expected \in 1 .. HeadCommit
    BY CommitTypes
    DEF SyncInvariant, LatePublicationsAreSafe, TypeOK, Publications, Changes, HeadCommit
  <2>2. Untouched(pub, p) /\ ~Relinked /\ pub.expected <= expected
    BY <2>1 DEF Untouched, Relinked, HeadCommit, DivergenceInvariant, CommitsFollow
  <2>3. Base(p) = history[pub.expected][p]
    BY <2>1, <2>2 DEF DivergenceInvariant, LateReplacesBase
  <2>4. \A i \in expected .. HeadCommit : history[i][p] = history[pub.expected][p]
    BY <2>1, <2>2, CommitTypes DEF Untouched, TypeOK, HeadCommit
  <2>. QED BY <2>1, <2>3, <2>4
<1>. QED BY <1>1, <1>2

\* What an operation may checkpoint is, path by path, the stored baseline or a
\* version of the frozen commit.
LEMMA AcknowledgedIsKnown ==
  ASSUME TypeOK, SyncInvariant, DivergenceInvariant, Transferring, NEW p \in Paths
  PROVE  acknowledged[p] = Base(p) \/ acknowledged[p] = history[expected][p]
BY DEF SyncInvariant, VisitedPathsAgree, DivergenceInvariant, BaselineIsStored, Remote

\* Every action preserves what the last property rests on.
LEMMA DivergenceStep ==
  ASSUME TypeOK, SyncInvariant, DivergenceInvariant, [Next]_vars
  PROVE  DivergenceInvariant'
<1>. USE CommitTypes
<1>1. ASSUME NEW p \in Paths, NEW v \in Versions, EditLocal(p, v) PROVE DivergenceInvariant'
  <2>1. budget'.links = budget.links
    BY <1>1 DEF EditLocal, TypeOK, Budgets
  <2>. QED BY <1>1, <2>1, LocalWritten, WorldKeepsDivergence DEF EditLocal
<1>2. ASSUME NEW p \in Paths, NEW v \in Versions, EditRemote(p, v) PROVE DivergenceInvariant'
  <2>1. [Tip EXCEPT ![p] = v] \in Manifests
    BY DEF Manifests
  <2>2. budget'.links = budget.links
    BY <1>2 DEF EditRemote, TypeOK, Budgets
  <2>. QED BY <1>2, <2>1, <2>2, HistoryGrown, WorldKeepsDivergence DEF EditRemote, store
<1>3. ASSUME NEW pub \in late, LateArrival(pub) PROVE DivergenceInvariant'
  <2>1. pub.changes \in Changes
    BY DEF TypeOK, Publications
  <2>2. history' = history \/ \E f \in Manifests : history' = Append(history, f)
    BY <1>3, <2>1, CommittedIsAppend DEF LateArrival
  <2>. QED BY <1>3, <2>2, HistoryGrown, WorldKeepsDivergence DEF LateArrival, store
<1>4. ASSUME NEW pub \in late, LateLost(pub) PROVE DivergenceInvariant'
  BY <1>4, HistoryGrown, WorldKeepsDivergence DEF LateLost, store
<1>5. CASE StartLink
  BY <1>5, BindingKeepsDivergence
  DEF StartLink, DivergenceInvariant, BaselineIsStored, CommitsFollow, Transferring
<1>6. CASE SaveLink
  <2>1. budget.links \in Nat /\ MaxLinks \in Nat /\ budget'.links = budget.links - 1
    BY <1>6, BoundsAssumption DEF SaveLink, TypeOK, Budgets
  <2>2. budget.links <= MaxLinks
    BY DEF DivergenceInvariant, LinksAreCounted
  <2>3. LinksAreCounted'
    BY <1>6, <2>1, <2>2 DEF SaveLink, LinksAreCounted
  <2>4. LateReplacesBase'
    BY <1>6, <2>1 DEF SaveLink, LateReplacesBase, Relinked, DivergenceInvariant, LinksAreCounted
  <2>. QED BY <1>6, <2>3, <2>4, EndKeepsDivergence DEF SaveLink
<1>7. ASSUME NEW m \in {"sync", "pull"}, StartSync(m) PROVE DivergenceInvariant'
  <2>1. \A p \in Paths : baseline'[p] = Base(p)'
    BY <1>7 DEF StartSync, Base, EmptyManifest
  <2>. QED
    BY <1>7, <2>1, BindingKeepsDivergence
    DEF StartSync, DivergenceInvariant, BaselineIsStored, CommitsFollow, Transferring
<1>8. ASSUME NEW p \in Paths, ScanFile(p) PROVE DivergenceInvariant'
  BY <1>8, BindingKeepsDivergence
  DEF ScanFile, DivergenceInvariant, BaselineIsStored, CommitsFollow, Transferring, LinksAreCounted
<1>9. CASE Freeze
  <2>1. DOMAIN uploads = {}
    BY <1>9 DEF Freeze, SyncInvariant, VisitedPathsAgree, Transferring
  <2>2. BaselineIsStored'
    BY <1>9, <2>1, BindingKeepsDivergence
    DEF Freeze, DivergenceInvariant, BaselineIsStored, Transferring
  <2>3. CommitsFollow'
    BY <1>9
    DEF Freeze, CommitsFollow, Transferring, SyncInvariant, LatePublicationsAreSafe
  <2>. QED
    BY <1>9, <2>2, <2>3, BindingKeepsDivergence
    DEF Freeze, DivergenceInvariant, LinksAreCounted
<1>10. CASE StopInConflict
  BY <1>10, BindingKeepsDivergence, EndKeepsDivergence DEF StopInConflict, EndRun
<1>11. ASSUME NEW p \in Paths, AcknowledgeConverged(p) PROVE DivergenceInvariant'
  <2>1. p \notin DOMAIN uploads \/ acknowledged[p] = Remote[p]
    BY <1>11
    DEF AcknowledgeConverged, SyncInvariant, VisitedPathsAgree, DivergenceInvariant,
        BaselineIsStored, Transferring
  <2>2. BaselineIsStored'
    BY <1>11, <2>1, BindingKeepsDivergence
    DEF AcknowledgeConverged, DivergenceInvariant, BaselineIsStored, Transferring, TypeOK,
        Manifests, Changes
  <2>. QED
    BY <1>11, <2>2, BindingKeepsDivergence
    DEF AcknowledgeConverged, DivergenceInvariant, CommitsFollow, Transferring, LinksAreCounted
<1>12. ASSUME NEW p \in Paths, Download(p) PROVE DivergenceInvariant'
  <2>1. p \notin DOMAIN uploads \/ acknowledged[p] = Remote[p]
    BY <1>12
    DEF Download, SyncInvariant, VisitedPathsAgree, DivergenceInvariant,
        BaselineIsStored, Transferring
  <2>2. BaselineIsStored'
    BY <1>12, <2>1, BindingKeepsDivergence
    DEF Download, DivergenceInvariant, BaselineIsStored, Transferring, TypeOK, Manifests, Changes
  <2>. QED
    BY <1>12, <2>2, BindingKeepsDivergence
    DEF Download, DivergenceInvariant, CommitsFollow, Transferring, LinksAreCounted
<1>13. CASE CheckpointDownload
  <2>1. \A p \in Paths : Base(p)' = acknowledged[p]
    BY <1>13 DEF CheckpointDownload, Checkpointed, Base
  <2>2. LateReplacesBase' /\ LinksAreCounted'
    BY <1>13, <2>1, AcknowledgedIsKnown, CheckpointKeepsDivergence
    DEF CheckpointDownload, Checkpointed, Transferring, TypeOK, HeadCommit
  <2>3. BaselineIsStored'
    BY <1>13, <2>1
    DEF CheckpointDownload, DivergenceInvariant, BaselineIsStored, Transferring, TypeOK, Changes
  <2>. QED
    BY <1>13, <2>2, <2>3
    DEF CheckpointDownload, DivergenceInvariant, CommitsFollow, Transferring
<1>14. ASSUME NEW p \in Paths, ReadUpload(p) PROVE DivergenceInvariant'
  <2>1. BaselineIsStored'
    BY <1>14, BindingKeepsDivergence
    DEF ReadUpload, IsNext, DivergenceInvariant, BaselineIsStored, Transferring, TypeOK, Changes
  <2>. QED
    BY <1>14, <2>1, BindingKeepsDivergence
    DEF ReadUpload, DivergenceInvariant, CommitsFollow, Transferring, LinksAreCounted
<1>15. ASSUME NEW p \in Paths, StopWithError(p) PROVE DivergenceInvariant'
  BY <1>15, BindingKeepsDivergence, EndKeepsDivergence DEF StopWithError, EndRun
<1>16. CASE FinishWithoutUploads
  <2>1. \A p \in Paths : Base(p)' = acknowledged[p]
    BY <1>16 DEF FinishWithoutUploads, Checkpointed, Base
  <2>2. LateReplacesBase' /\ LinksAreCounted'
    BY <1>16, <2>1, AcknowledgedIsKnown, CheckpointKeepsDivergence
    DEF FinishWithoutUploads, Checkpointed, Transferring, TypeOK, HeadCommit
  <2>. QED BY <1>16, <2>2, EndKeepsDivergence DEF FinishWithoutUploads
<1>17. CASE Publish
  BY <1>17, BindingKeepsDivergence
  DEF Publish, DivergenceInvariant, BaselineIsStored, CommitsFollow, Transferring, LinksAreCounted
<1>18. CASE ServerCommits
  <2>1. \E f \in Manifests : history' = Append(history, f)
    BY <1>18, CommittedIsAppend DEF ServerCommits, TypeOK
  <2>2. Grows
    BY <1>18, <2>1, HistoryGrown DEF ServerCommits, store
  <2>3. \A p : Base(p)' = Base(p)
    BY <1>18 DEF ServerCommits, Base
  <2>4. BaselineIsStored'
    BY <1>18, <2>3 DEF ServerCommits, DivergenceInvariant, BaselineIsStored, Transferring
  <2>5. CommitsFollow'
    BY <1>18
    DEF ServerCommits, DivergenceInvariant, CommitsFollow, Transferring, TypeOK, HeadCommit
  <2>6. LinksAreCounted'
    BY <1>18 DEF ServerCommits, DivergenceInvariant, LinksAreCounted
  <2>7. LateReplacesBase'
    <3>. SUFFICES ASSUME ~Relinked', NEW pub \in late', NEW p \in DOMAIN pub.changes,
                         Untouched(pub, p)'
                  PROVE  Base(p)' = history'[pub.expected][p]
      BY DEF LateReplacesBase
    <3>1. pub \in late /\ pub.expected \in 1 .. HeadCommit
      BY <1>18
      DEF ServerCommits, SyncInvariant, LatePublicationsAreSafe, TypeOK, Publications, HeadCommit
    <3>2. Untouched(pub, p)
      BY <2>2, <3>1 DEF Untouched, Grows, HeadCommit
    <3>3. ~Relinked
      BY <1>18 DEF ServerCommits, Relinked
    <3>4. Base(p) = history[pub.expected][p]
      BY <3>1, <3>2, <3>3 DEF DivergenceInvariant, LateReplacesBase
    <3>. QED BY <2>2, <2>3, <3>1, <3>4 DEF Grows
  <2>. QED BY <2>4, <2>5, <2>6, <2>7 DEF DivergenceInvariant
<1>19. CASE ServerRejects
  BY <1>19, BindingKeepsDivergence, EndKeepsDivergence DEF ServerRejects, EndRun
<1>20. CASE ReadAcknowledgment
  <2>1. Transferring /\ expected <= commit /\ commit \in 1 .. HeadCommit /\ expected \in 1 .. HeadCommit
    BY <1>20 DEF ReadAcknowledgment, Transferring, DivergenceInvariant, CommitsFollow, TypeOK
  <2>2. ASSUME NEW p \in Paths
        PROVE  \/ Base(p)' = Base(p)
               \/ \E i \in expected .. HeadCommit : Base(p)' = history[i][p]
    <3>1. Base(p)' = IF p \in DOMAIN uploads THEN uploads[p] ELSE acknowledged[p]
      BY <1>20 DEF ReadAcknowledgment, Checkpointed, Base, WithUploads
    <3>2. CASE p \in DOMAIN uploads
      <4>1. Base(p)' = history[commit][p]
        BY <1>20, <3>1, <3>2 DEF ReadAcknowledgment, SyncInvariant, LandedCommitHoldsUploads
      <4>2. commit \in expected .. HeadCommit
        BY <2>1 DEF HeadCommit
      <4>. QED BY <4>1, <4>2
    <3>3. CASE p \notin DOMAIN uploads
      BY <2>1, <3>1, <3>3, AcknowledgedIsKnown DEF HeadCommit
    <3>. QED BY <3>2, <3>3
  <2>3. LateReplacesBase' /\ LinksAreCounted'
    BY <1>20, <2>1, <2>2, CheckpointKeepsDivergence DEF ReadAcknowledgment, Checkpointed
  <2>. QED BY <1>20, <2>3, EndKeepsDivergence DEF ReadAcknowledgment
<1>21. CASE Interrupt
  <2>1. budget'.links = budget.links
    BY <1>21 DEF Interrupt, TypeOK, Budgets
  <2>2. binding.linked \/ phase # "await"
    BY DEF DivergenceInvariant, LinksAreCounted
  <2>3. LinksAreCounted'
    BY <1>21, <2>1, <2>2 DEF Interrupt, DivergenceInvariant, LinksAreCounted, EndRun
  <2>4. LateReplacesBase'
    <3>. SUFFICES ASSUME ~Relinked', NEW pub \in late', NEW p \in DOMAIN pub.changes,
                         Untouched(pub, p)'
                  PROVE  Base(p)' = history'[pub.expected][p]
      BY DEF LateReplacesBase
    <3>1. ~Relinked /\ Base(p)' = Base(p) /\ history' = history
      BY <1>21, <2>1 DEF Interrupt, Relinked, Base
    <3>2. CASE pub \in late
      BY <3>1, <3>2 DEF DivergenceInvariant, LateReplacesBase, Untouched, HeadCommit
    <3>3. CASE phase = "await" /\ pub = Publication
      <4>1. p \in DOMAIN uploads /\ pub.expected = expected
        BY <3>3 DEF Publication
      <4>2. Remote[p] = baseline[p] /\ baseline[p] = Base(p)
        BY <3>3, <4>1
        DEF SyncInvariant, VisitedPathsAgree, DivergenceInvariant, BaselineIsStored, Transferring
      <4>. QED BY <3>1, <4>1, <4>2 DEF Remote
    <3>. QED BY <1>21, <3>2, <3>3 DEF Interrupt
  <2>. QED BY <1>21, <2>3, <2>4, EndKeepsDivergence DEF Interrupt
<1>22. CASE UNCHANGED vars
  BY <1>22, HistoryGrown, WorldKeepsDivergence DEF vars
<1>. QED
  BY <1>1, <1>2, <1>3, <1>4, <1>5, <1>6, <1>7, <1>8, <1>9, <1>10, <1>11, <1>12, <1>13,
     <1>14, <1>15, <1>16, <1>17, <1>18, <1>19, <1>20, <1>21, <1>22
  DEF Next, Environment, RunStep

\* No step but the user's, another device's, a pull's or, after another link, a
\* late publication's changes a path on which both sides left the baseline.
LEMMA StepKeepsDiverged ==
  ASSUME TypeOK, SyncInvariant, DivergenceInvariant, [Next]_vars, NEW p \in Paths, Diverged(p),
         ~ \E v \in Versions : EditLocal(p, v) \/ EditRemote(p, v),
         mode # "pull",
         ~(Relinked /\ \E pub \in late : LateArrival(pub))
  PROVE  local'[p] = local[p] /\ (Tip'[p] = Tip[p] \/ (provider = "gitlab" /\ Tip[p] = NoFile))
<1>. USE CommitTypes
<1>1. local'[p] = local[p]
  <2>. SUFFICES ASSUME local'[p] # local[p] PROVE FALSE
    OBVIOUS
  <2>1. \/ \E q \in Paths, v \in Versions : EditLocal(q, v)
        \/ \E q \in Paths : Download(q)
    BY DEF Next, Environment, RunStep, vars, EditRemote, LateArrival, LateLost, StartLink,
           SaveLink, StartSync, ScanFile, Freeze, StopInConflict, AcknowledgeConverged,
           CheckpointDownload, ReadUpload, StopWithError, FinishWithoutUploads, Publish,
           ServerCommits, ServerRejects, ReadAcknowledgment, Interrupt
  <2>2. CASE \E q \in Paths, v \in Versions : EditLocal(q, v)
    BY <2>2 DEF EditLocal, WriteLocal, TypeOK, Manifests
  <2>3. CASE \E q \in Paths : Download(q)
    <3>1. Download(p)
      BY <2>3 DEF Download, WriteLocal, TypeOK, Manifests
    <3>2. local[p] = baseline[p]
      BY <3>1 DEF Download, ActionOf, Action, Plan
    <3>3. baseline[p] = Base(p)
      BY <3>1 DEF Download, IsNext, DivergenceInvariant, BaselineIsStored, Transferring
    <3>. QED BY <3>2, <3>3 DEF Diverged
  <2>. QED BY <2>1, <2>2, <2>3
<1>2. Tip'[p] = Tip[p] \/ (provider = "gitlab" /\ Tip[p] = NoFile)
  <2>. SUFFICES ASSUME Tip'[p] # Tip[p] PROVE provider = "gitlab" /\ Tip[p] = NoFile
    OBVIOUS
  <2>1. \/ \E q \in Paths, v \in Versions : EditRemote(q, v)
        \/ \E pub \in late : LateArrival(pub)
        \/ ServerCommits
    BY DEF Next, Environment, RunStep, vars, EditLocal, LateLost, StartLink,
           SaveLink, StartSync, ScanFile, Freeze, StopInConflict, AcknowledgeConverged, Download,
           CheckpointDownload, ReadUpload, StopWithError, FinishWithoutUploads, Publish,
           ServerRejects, ReadAcknowledgment, Interrupt, Tip, HeadCommit
  <2>2. CASE \E q \in Paths, v \in Versions : EditRemote(q, v)
    <3>1. PICK q \in Paths, v \in Versions : EditRemote(q, v)
      BY <2>2
    <3>2. Tip' = [Tip EXCEPT ![q] = v]
      BY <3>1 DEF EditRemote, Tip, HeadCommit, TypeOK
    <3>3. q = p
      BY <3>2 DEF Manifests
    <3>. QED BY <3>1, <3>3
  <2>3. ASSUME NEW pub \in Publications, Accepts(history, pub), pub.expected <= HeadCommit,
               history' = Committed(history, pub.changes),
               p \in DOMAIN pub.changes => (Untouched(pub, p) => Base(p) = history[pub.expected][p])
        PROVE  provider = "gitlab" /\ Tip[p] = NoFile
    <3>1. Tip' = [q \in Paths |-> IF q \in DOMAIN pub.changes THEN pub.changes[q] ELSE Tip[q]]
      BY <2>3 DEF Committed, Tip, HeadCommit, TypeOK
    <3>2. p \in DOMAIN pub.changes
      BY <3>1
    <3>3. CASE Untouched(pub, p)
      BY <2>3, <3>2, <3>3 DEF Untouched, Diverged, Tip, HeadCommit, Publications
    <3>4. CASE ~Untouched(pub, p)
      <4>1. provider # "github"
        BY <2>3, <3>4 DEF Accepts, Untouched, HeadCommit, Publications
      <4>2. history[HeadCommit][p] = NoFile
        BY <2>3, <3>2, <3>4, <4>1 DEF Accepts, Untouched, HeadCommit
      <4>. QED BY <4>1, <4>2 DEF Tip, TypeOK
    <3>. QED BY <3>3, <3>4
  <2>4. CASE \E pub \in late : LateArrival(pub)
    <3>1. PICK pub \in late : LateArrival(pub)
      BY <2>4
    <3>2. Accepts(history, pub) /\ history' = Committed(history, pub.changes)
      BY <3>1 DEF LateArrival, Tip, HeadCommit
    <3>3. ~Relinked
      BY <2>4
    <3>. QED
      BY <2>3, <3>2, <3>3
      DEF SyncInvariant, LatePublicationsAreSafe, TypeOK, DivergenceInvariant, LateReplacesBase
  <2>5. CASE ServerCommits
    <3>1. Publication \in Publications /\ expected <= HeadCommit
      BY DEF Publication, Publications, TypeOK, HeadCommit
    <3>2. p \in DOMAIN uploads => Base(p) = history[expected][p]
      BY <2>5
      DEF ServerCommits, SyncInvariant, VisitedPathsAgree, DivergenceInvariant, BaselineIsStored,
          Transferring, Remote
    <3>3. Accepts(history, Publication) /\ history' = Committed(history, Publication.changes)
      BY <2>5 DEF ServerCommits, Publication
    <3>. QED BY <2>3, <3>1, <3>2, <3>3 DEF Publication
  <2>. QED BY <2>1, <2>2, <2>4, <2>5
<1>. QED BY <1>1, <1>2

\* A path that diverged keeps both its versions: no run, retry or late publication
\* picks a winner, with the two exceptions the property names.
THEOREM DivergedVersionsStayHolds == Spec => DivergedVersionsStay
<1>1. Init => DivergenceInvariant
  BY BoundsAssumption
  DEF Init, NoRun, NoBinding, DivergenceInvariant, LinksAreCounted, BaselineIsStored,
      CommitsFollow, LateReplacesBase, Transferring
<1>2. TypeOK /\ SyncInvariant /\ DivergenceInvariant /\ [Next]_vars => DivergenceInvariant'
  BY DivergenceStep
<1>3. TypeOK /\ SyncInvariant /\ DivergenceInvariant /\ [Next]_vars =>
        [\A p \in Paths : Diverged(p) =>
           \/ /\ local'[p] = local[p]
              /\ (Tip'[p] = Tip[p] \/ (provider = "gitlab" /\ Tip[p] = NoFile))
           \/ \E v \in Versions : EditLocal(p, v) \/ EditRemote(p, v)
           \/ mode = "pull"
           \/ Relinked /\ \E pub \in late : LateArrival(pub)]_vars
  BY StepKeepsDiverged
<1>. QED
  BY <1>1, <1>2, <1>3, TypeCorrect, SyncInvariantHolds, PTL DEF Spec, DivergedVersionsStay
=============================================================================

----------------------------- MODULE CloudSync -----------------------------
(***************************************************************************)
(* Cloud Sync of one workspace with one GitHub or GitLab branch:           *)
(* repository/mod.rs (synchronize_workspace, link, NativeSync),            *)
(* repository/sync_coordinator.rs, repository/sync_plan.rs and             *)
(* repository/conditional_publish.rs.                                      *)
(*                                                                         *)
(* Four parties act on the two replicas: the user (and every other local   *)
(* program) edits the workspace, other devices commit to the branch, a     *)
(* sync operation runs step by step, and publications whose answer was     *)
(* never read may still reach the server long after the operation that     *)
(* sent them has ended.  A file is one of a few contents, or NoFile: the   *)
(* code treats absence as a version of its own.  A content stands for the  *)
(* bytes and for their SHA-256 digest alike.                               *)
(***************************************************************************)
EXTENDS Integers, Sequences, FiniteSets

CONSTANTS
  Paths,                \* workspace paths that policy.rs lets through, in map order
  Contents,             \* file contents
  NoFile,               \* the version of a path that does not exist
  Providers,            \* the providers tried, of "github" and "gitlab"
  GithubFiles,          \* MAX_PUBLICATION_FILES of sync_coordinator.rs, made small for
  GitlabFiles,          \* a GitHub and for a GitLab branch
  MaxLocalEdits,        \* bound: edits made in the workspace
  MaxRemoteEdits,       \* bound: commits made by other devices
  MaxFaults,            \* bound: operations that fail or crash half-way
  MaxLinks              \* bound: times the workspace is linked

ASSUME PathsAssumption == Paths \subseteq Nat /\ IsFiniteSet(Paths)
ASSUME ContentsAssumption == NoFile \notin Contents
ASSUME ProviderAssumption == Providers \subseteq {"github", "gitlab"}
ASSUME LimitAssumption == GithubFiles \in Nat /\ GitlabFiles \in Nat
ASSUME BoundsAssumption ==
  /\ MaxLocalEdits \in Nat
  /\ MaxRemoteEdits \in Nat
  /\ MaxFaults \in Nat
  /\ MaxLinks \in Nat

Versions == Contents \cup {NoFile}

\* A Manifest: the version of every path; the map of the code omits NoFile.
Manifests == [Paths -> Versions]
EmptyManifest == [p \in Paths |-> NoFile]

VARIABLES
  provider,     \* of the branch; it never changes
  local,        \* the files of the workspace
  seenLocal,    \* history variable: every version each path had in the workspace
  history,      \* the commits of the remote branch, each the files it holds
  late,         \* publications nobody waits for that the server may still process
  binding,      \* the workspace's row in the Cloud Sync store
  phase,        \* where the admitted operation stands; "idle" when none runs
  mode,         \* "sync" (sync now, push: upload) or "pull" (discard local)
  todo,         \* paths the current loop has still to visit
  baseline,     \* the common baseline the operation read from the binding
  scanned,      \* local manifest the operation planned with
  expected,     \* the frozen remote commit
  acknowledged, \* the baseline the operation may checkpoint
  uploads,      \* what the operation will publish, path by path
  commit,       \* commit the server made of the publication
  budget        \* bound: edits, faults and links still allowed

store == <<local, seenLocal>>
world == <<local, seenLocal, history, late>>
plan == <<mode, baseline, scanned>>
run == <<phase, mode, todo, baseline, scanned, expected, acknowledged, uploads, commit>>
vars == <<provider, local, seenLocal, history, late, binding, run, budget>>

MaxPublicationFiles == IF provider = "github" THEN GithubFiles ELSE GitlabFiles

HeadCommit == Len(history)
Tip == history[HeadCommit]
Remote == history[expected]     \* remote manifest enumerated at the frozen commit

\* A publication carries the frozen commit it was computed from and, for each
\* path it changes, the new version (NoFile deletes).
Changes == UNION {[S -> Versions] : S \in SUBSET Paths}
Publications == [expected : Nat \ {0}, changes : Changes]

Budgets == [local : Nat, remote : Nat, faults : Nat, links : Nat]

Bindings == [linked : BOOLEAN, manifest : Manifests, lastCommit : Nat, hasSynced : BOOLEAN]

-----------------------------------------------------------------------------
(* The three-way plan. *)

\* Mutant: a missing file is not a version.
PlanPresentFiles(b, l, r) ==
  IF l = r THEN "Converged"
  ELSE IF l \in {b, NoFile} THEN "Download"
  ELSE IF r = b THEN "Upload"
  ELSE "Conflict"

\* sync_plan::plan for one path.
Plan(b, l, r) ==
  IF l = r THEN "Converged"
  ELSE IF l = b THEN "Download"
  ELSE IF r = b THEN "Upload"
  ELSE "Conflict"

\* The actions of an operation: a pull turns every difference into a download.
Action(m, b, l, r) ==
  IF m = "pull"
    THEN IF l = r THEN "Converged" ELSE "Download"
    ELSE Plan(b, l, r)

ActionOf(p) == Action(mode, baseline[p], scanned[p], Remote[p])

Conflicts(m, b, l, r) == {p \in Paths : Action(m, b[p], l[p], r[p]) = "Conflict"}

\* The path a BTreeMap iteration visits next.
IsNext(p) == p \in todo /\ \A q \in todo : p <= q

-----------------------------------------------------------------------------
(* The server, as the code in src/ relies on it. *)

\* Mutant: a file guard is read again at the tip.
AcceptsFresh(h, pub) ==
  \A p \in DOMAIN pub.changes : h[pub.expected][p] = NoFile => h[Len(h)][p] = NoFile

\* createCommitOnBranch requires the branch to be at expectedHeadOid; a GitLab
\* commit requires every file it updates or deletes to be untouched since the
\* frozen commit (last_commit_id) and every file it creates to be absent.
Accepts(h, pub) ==
  IF provider = "github"
    THEN Len(h) = pub.expected
    ELSE \A p \in DOMAIN pub.changes :
           IF h[pub.expected][p] = NoFile
             THEN h[Len(h)][p] = NoFile
             ELSE \A i \in pub.expected .. Len(h) : h[i][p] = h[pub.expected][p]

\* The branch after a commit of the given changes.
Committed(h, changes) ==
  Append(h, [p \in Paths |-> IF p \in DOMAIN changes THEN changes[p] ELSE h[Len(h)][p]])

-----------------------------------------------------------------------------

NoBinding ==
  [linked |-> FALSE, manifest |-> EmptyManifest, lastCommit |-> 0, hasSynced |-> FALSE]

\* An operation's variables are locals of a call: none survives its end.
NoRun ==
  /\ phase = "idle" /\ mode = "sync" /\ todo = {} /\ uploads = <<>>
  /\ baseline = EmptyManifest /\ scanned = EmptyManifest /\ acknowledged = EmptyManifest
  /\ expected = 1 /\ commit = 1

EndRun ==
  /\ phase' = "idle" /\ mode' = "sync" /\ todo' = {} /\ uploads' = <<>>
  /\ baseline' = EmptyManifest /\ scanned' = EmptyManifest /\ acknowledged' = EmptyManifest
  /\ expected' = 1 /\ commit' = 1

Init ==
  /\ provider \in Providers
  /\ local \in Manifests
  /\ seenLocal = [p \in Paths |-> {local[p]}]
  /\ \E files \in Manifests : history = <<files>>
  /\ late = {}
  /\ binding = NoBinding
  /\ NoRun
  /\ budget = [local |-> MaxLocalEdits, remote |-> MaxRemoteEdits,
               faults |-> MaxFaults, links |-> MaxLinks]

-----------------------------------------------------------------------------
(* The world around an operation. *)

WriteLocal(p, v) ==
  /\ local' = [local EXCEPT ![p] = v]
  /\ seenLocal' = [seenLocal EXCEPT ![p] = @ \cup {v}]

\* The user saves, creates or deletes a file, at any moment of an operation.
EditLocal(p, v) ==
  /\ budget.local > 0
  /\ v # local[p]
  /\ WriteLocal(p, v)
  /\ budget' = [budget EXCEPT !.local = @ - 1]
  /\ UNCHANGED <<history, late, binding, run>>

\* Another device commits to the branch.
EditRemote(p, v) ==
  /\ budget.remote > 0
  /\ v # Tip[p]
  /\ history' = Append(history, [Tip EXCEPT ![p] = v])
  /\ budget' = [budget EXCEPT !.remote = @ - 1]
  /\ UNCHANGED <<store, late, binding, run>>

\* The server processes a publication whose sender has given up on it.
LateArrival(pub) ==
  /\ pub \in late
  /\ late' = late \ {pub}
  /\ history' = IF Accepts(history, pub) THEN Committed(history, pub.changes) ELSE history
  /\ UNCHANGED <<store, binding, run, budget>>

\* ... or the request was lost before it reached the server.
LateLost(pub) ==
  /\ pub \in late
  /\ late' = late \ {pub}
  /\ UNCHANGED <<store, history, binding, run, budget>>

-----------------------------------------------------------------------------
(* Linking the workspace: freeze the head, list it, store the binding. *)

StartLink ==
  /\ phase = "idle" /\ budget.links > 0
  /\ phase' = "link"
  /\ expected' = HeadCommit
  /\ UNCHANGED <<plan, world, binding, todo, acknowledged, uploads, commit, budget>>

SaveLink ==
  /\ phase = "link" /\ budget.links > 0
  /\ binding' = [linked |-> TRUE, manifest |-> Remote, lastCommit |-> expected,
                 hasSynced |-> FALSE]
  /\ budget' = [budget EXCEPT !.links = @ - 1]
  /\ EndRun
  /\ UNCHANGED <<world>>

-----------------------------------------------------------------------------
(* One synchronisation: synchronize_workspace and synchronize. *)

\* Admission (with_repository_operation) lets one operation in at a time.
StartSync(m) ==
  /\ phase = "idle" /\ binding.linked
  /\ phase' = "scan" /\ mode' = m
  /\ baseline' = IF binding.hasSynced THEN binding.manifest ELSE EmptyManifest
  /\ todo' = Paths
  /\ UNCHANGED <<world, binding, scanned, expected, acknowledged, uploads, commit, budget>>

\* local_manifest digests the files one after the other.
ScanFile(p) ==
  /\ phase = "scan" /\ IsNext(p)
  /\ scanned' = [scanned EXCEPT ![p] = local[p]]
  /\ todo' = todo \ {p}
  /\ UNCHANGED <<world, binding, phase, mode, baseline, expected, acknowledged, uploads,
                 commit, budget>>

\* Read the head, list it, plan: no path is in conflict.
Freeze ==
  /\ phase = "scan" /\ todo = {}
  /\ Conflicts(mode, baseline, scanned, Tip) = {}
  /\ phase' = "transfer"
  /\ expected' = HeadCommit
  /\ todo' = Paths
  /\ acknowledged' = baseline
  /\ UNCHANGED <<plan, world, binding, uploads, commit, budget>>

\* A conflict on any path ends the operation before it writes anything.
StopInConflict ==
  /\ phase = "scan" /\ todo = {}
  /\ Conflicts(mode, baseline, scanned, Tip) # {}
  /\ EndRun
  /\ UNCHANGED <<world, binding, budget>>

\* Action::Converged: both sides already hold this version.
AcknowledgeConverged(p) ==
  /\ phase = "transfer" /\ IsNext(p) /\ ActionOf(p) = "Converged"
  /\ acknowledged' = [acknowledged EXCEPT ![p] = Remote[p]]
  /\ todo' = todo \ {p}
  /\ UNCHANGED <<plan, world, binding, phase, expected, uploads, commit, budget>>

\* Mutant: the file is replaced whatever it holds by now.
DownloadBlind(p) ==
  /\ phase = "transfer" /\ IsNext(p) /\ ActionOf(p) = "Download"
  /\ WriteLocal(p, Remote[p])
  /\ acknowledged' = [acknowledged EXCEPT ![p] = Remote[p]]
  /\ todo' = todo \ {p}
  /\ phase' = "checkpoint"
  /\ UNCHANGED <<plan, history, late, binding, expected, uploads, commit, budget>>

\* Action::Download: apply_local replaces or deletes the file only while it
\* still has the scanned version; a checkpoint follows.
Download(p) ==
  /\ phase = "transfer" /\ IsNext(p) /\ ActionOf(p) = "Download"
  /\ local[p] = scanned[p]
  /\ WriteLocal(p, Remote[p])
  /\ acknowledged' = [acknowledged EXCEPT ![p] = Remote[p]]
  /\ todo' = todo \ {p}
  /\ phase' = "checkpoint"
  /\ UNCHANGED <<plan, history, late, binding, expected, uploads, commit, budget>>

\* NativeSync::checkpoint of a binding; a partial one never names a commit.
Checkpointed(manifest, sha, complete) ==
  [linked |-> TRUE, manifest |-> manifest,
   lastCommit |-> IF complete THEN sha ELSE 0, hasSynced |-> TRUE]

CheckpointDownload ==
  /\ phase = "checkpoint"
  /\ binding' = Checkpointed(acknowledged, expected, FALSE)
  /\ phase' = "transfer"
  /\ UNCHANGED <<plan, world, todo, expected, acknowledged, uploads, commit, budget>>

\* Action::Upload: read the bytes again; they must be the ones the plan saw.
\* A deletion is not looked at again.
ReadUpload(p) ==
  /\ phase = "transfer" /\ IsNext(p) /\ ActionOf(p) = "Upload"
  /\ Cardinality(DOMAIN uploads) < MaxPublicationFiles
  /\ scanned[p] # NoFile => local[p] = scanned[p]
  /\ uploads' = [q \in DOMAIN uploads \cup {p} |-> IF q = p THEN scanned[p] ELSE uploads[q]]
  /\ todo' = todo \ {p}
  /\ UNCHANGED <<plan, world, binding, phase, expected, acknowledged, commit, budget>>

\* The guards of apply_local and read_local: a file that is no longer what the
\* plan saw, or one upload too many, ends the operation with an error.
StopWithError(p) ==
  /\ phase = "transfer" /\ IsNext(p)
  /\ \/ ActionOf(p) = "Download" /\ local[p] # scanned[p]
     \/ ActionOf(p) = "Upload" /\ scanned[p] # NoFile /\ local[p] # scanned[p]
     \/ ActionOf(p) = "Upload" /\ Cardinality(DOMAIN uploads) >= MaxPublicationFiles
  /\ EndRun
  /\ UNCHANGED <<world, binding, budget>>

\* Mutant: an operation that had nothing to publish is never complete.
FinishPending ==
  /\ phase = "transfer" /\ todo = {} /\ DOMAIN uploads = {}
  /\ binding' = Checkpointed(acknowledged, expected, FALSE)
  /\ EndRun
  /\ UNCHANGED <<world, budget>>

\* Nothing to publish: both sides now agree on the frozen commit.
FinishWithoutUploads ==
  /\ phase = "transfer" /\ todo = {} /\ DOMAIN uploads = {}
  /\ binding' = Checkpointed(acknowledged, expected, TRUE)
  /\ EndRun
  /\ UNCHANGED <<world, budget>>

\* The baseline once the acknowledgment is read.
WithUploads ==
  [p \in Paths |-> IF p \in DOMAIN uploads THEN uploads[p] ELSE acknowledged[p]]

\* Mutant: the baseline advances before the server has answered.
PublishEager ==
  /\ phase = "transfer" /\ todo = {} /\ DOMAIN uploads # {}
  /\ phase' = "await"
  /\ binding' = Checkpointed(WithUploads, expected, FALSE)
  /\ UNCHANGED <<plan, world, todo, expected, acknowledged, uploads, commit, budget>>

\* The publication is sent; the operation waits for its answer.
Publish ==
  /\ phase = "transfer" /\ todo = {} /\ DOMAIN uploads # {}
  /\ phase' = "await"
  /\ UNCHANGED <<plan, world, binding, todo, expected, acknowledged, uploads, commit, budget>>

Publication == [expected |-> expected, changes |-> uploads]

\* Mutant: the new commit is numbered past the head.
ServerCommitsLater ==
  /\ phase = "await" /\ Accepts(history, Publication)
  /\ history' = Committed(history, uploads)
  /\ phase' = "landed" /\ commit' = HeadCommit + 2
  /\ UNCHANGED <<plan, store, late, binding, todo, expected, acknowledged, uploads, budget>>

\* The server accepts or refuses the publication that is waited for.
ServerCommits ==
  /\ phase = "await" /\ Accepts(history, Publication)
  /\ history' = Committed(history, uploads)
  /\ phase' = "landed" /\ commit' = HeadCommit + 1
  /\ UNCHANGED <<plan, store, late, binding, todo, expected, acknowledged, uploads, budget>>

ServerRejects ==
  /\ phase = "await" /\ ~Accepts(history, Publication)
  /\ EndRun
  /\ UNCHANGED <<world, binding, budget>>

\* Mutant: a GitLab commit is taken for the whole branch.
CoversAlways == TRUE

\* A GitHub commit covers the whole branch (FullSnapshot); a GitLab commit only
\* the submitted files (ChangedPaths), and then the head is not yet reconciled.
CoversBranch == provider = "github"

ReadAcknowledgment ==
  /\ phase = "landed"
  /\ binding' = Checkpointed(WithUploads, commit, CoversBranch)
  /\ EndRun
  /\ UNCHANGED <<world, budget>>

\* Any step may fail (disk, network, store, timeout) and the process may crash:
\* what was written stays, the rest of the operation is forgotten.  A publication
\* that was sent is not recalled.
Interrupt ==
  /\ phase # "idle" /\ budget.faults > 0
  /\ late' = IF phase = "await" THEN late \cup {Publication} ELSE late
  /\ budget' = [budget EXCEPT !.faults = @ - 1]
  /\ EndRun
  /\ UNCHANGED <<store, history, binding>>

-----------------------------------------------------------------------------

Environment ==
  \/ \E p \in Paths, v \in Versions : EditLocal(p, v) \/ EditRemote(p, v)
  \/ \E pub \in late : LateArrival(pub) \/ LateLost(pub)

RunStep ==
  \/ SaveLink
  \/ \E p \in Paths : \/ ScanFile(p) \/ AcknowledgeConverged(p) \/ Download(p)
                      \/ ReadUpload(p) \/ StopWithError(p)
  \/ Freeze \/ StopInConflict \/ CheckpointDownload \/ FinishWithoutUploads
  \/ Publish \/ ServerCommits \/ ServerRejects \/ ReadAcknowledgment

Next ==
  /\ \/ Environment
     \/ StartLink
     \/ \E m \in {"sync", "pull"} : StartSync(m)
     \/ RunStep
     \/ Interrupt
  /\ UNCHANGED provider

Spec == Init /\ [][Next]_vars

\* The operation runs on a thread of its own whose every request has a timeout,
\* a request does not stay in the network for ever, and the user retries: each
\* end of an operation is followed by another Sync or Pull.  Edits, faults and
\* links are finite (budget).
Fairness ==
  /\ WF_vars(RunStep /\ UNCHANGED provider)
  /\ WF_vars((\E m \in {"sync", "pull"} : StartSync(m)) /\ UNCHANGED provider)
  /\ WF_vars((\E pub \in late : LateArrival(pub) \/ LateLost(pub)) /\ UNCHANGED provider)

FairSpec == Spec /\ Fairness

-----------------------------------------------------------------------------
(* Safety. *)

\* Every variable keeps its type.
TypeOK ==
  /\ provider \in {"github", "gitlab"}
  /\ local \in Manifests
  /\ seenLocal \in [Paths -> SUBSET Versions]
  /\ history \in Seq(Manifests) /\ history # <<>>
  /\ late \subseteq Publications
  /\ binding \in Bindings
  /\ phase \in {"idle", "link", "scan", "transfer", "checkpoint", "await", "landed"}
  /\ mode \in {"sync", "pull"}
  /\ todo \subseteq Paths
  /\ baseline \in Manifests /\ scanned \in Manifests /\ acknowledged \in Manifests
  /\ expected \in 1 .. HeadCommit /\ commit \in 1 .. HeadCommit
  /\ uploads \in Changes
  /\ budget \in Budgets

\* A version of p that some commit of the branch holds, or absence.
InHistory(p, v) == v = NoFile \/ \E i \in 1 .. HeadCommit : history[i][p] = v

\* A version of p that the workspace held at some time, or absence.
InWorkspace(p, v) == v = NoFile \/ v \in seenLocal[p]

Shared(p, v) == InHistory(p, v) /\ InWorkspace(p, v)

\* "Only acknowledged bytes advance the baseline": once an operation has
\* checkpointed, every version in the stored baseline was both in the workspace
\* and on the branch, whatever failed, crashed or arrived late since.
BaselineIsShared ==
  binding.hasSynced =>
    \A p \in Paths : Shared(p, binding.manifest[p])

\* A binding that names a commit has exactly that commit's files as baseline: a
\* partial download or a GitLab publication, which may have landed on top of
\* other devices' commits, never advertises a head it has not reconciled.
CommitMatchesBaseline ==
  binding.lastCommit # 0 =>
    /\ binding.lastCommit <= HeadCommit
    /\ binding.manifest = history[binding.lastCommit]

\* Mutant: the head is not compared once a workspace has synced.
RemoteChangedFirstTimeOnly == ~binding.hasSynced /\ Tip # binding.manifest

\* get_sync_status: manifest_change_count and remote_changed.
LocalChanges == {p \in Paths : local[p] # binding.manifest[p]}
RemoteChanged ==
  \/ binding.lastCommit # HeadCommit
  \/ ~binding.hasSynced /\ Tip # binding.manifest

\* When the status dialog shows neither local nor remote changes, the workspace
\* holds exactly the files of the branch.
CleanStatusIsTrue ==
  (binding.linked /\ LocalChanges = {} /\ ~RemoteChanged) => local = Tip

(* Why the four hold: the invariant below is inductive (CloudSyncProofs). *)

Transferring == phase \in {"transfer", "checkpoint", "await", "landed"}

\* What a run has read and what it may checkpoint comes from both sides.
RunIsShared ==
  \A p \in Paths : /\ local[p] \in seenLocal[p]
                   /\ InWorkspace(p, scanned[p])
                   /\ Shared(p, baseline[p])
                   /\ Shared(p, acknowledged[p])

\* The transfer loop: a visited path is acknowledged at the frozen version, or is
\* to be published, as scanned, over a frozen version that equals the baseline.
VisitedPathsAgree ==
  /\ ~Transferring => DOMAIN uploads = {}
  /\ phase \in {"await", "landed"} => todo = {}
  /\ \A p \in DOMAIN uploads : uploads[p] = scanned[p] /\ Remote[p] = baseline[p]
  /\ Transferring => \A p \in Paths :
       /\ ActionOf(p) # "Conflict"
       /\ p \notin todo \cup DOMAIN uploads => acknowledged[p] = Remote[p]

\* The commit whose acknowledgment is awaited holds what was published, and on
\* GitHub nothing else than the frozen commit did.
LandedCommitHoldsUploads ==
  phase = "landed" =>
    /\ \A p \in DOMAIN uploads : history[commit][p] = uploads[p]
    /\ CoversBranch => history[commit] = WithUploads

\* A late publication replaces versions this workspace has held.
LatePublicationsAreSafe ==
  \A pub \in late :
    /\ pub.expected <= HeadCommit
    /\ \A p \in DOMAIN pub.changes : InWorkspace(p, history[pub.expected][p])

SyncInvariant ==
  /\ BaselineIsShared
  /\ CommitMatchesBaseline
  /\ RunIsShared
  /\ VisitedPathsAgree
  /\ LandedCommitHoldsUploads
  /\ LatePublicationsAreSafe

\* A sync never destroys the only copy of what the user wrote: a step that is not
\* the user's own edit replaces or deletes a file only if the replaced version is
\* on the branch's history, or if the user asked for a pull and the file is
\* still the one the pull found when it scanned the workspace.
LocalWorkSurvives ==
  [][\A p \in Paths : local'[p] # local[p] =>
       \/ \E v \in Versions : EditLocal(p, v)
       \/ InHistory(p, local[p])
       \/ mode = "pull" /\ local[p] = scanned[p]]_vars

\* A publication, answered or late, never replaces or deletes a version on the
\* branch that this workspace has not held: other devices' commits survive.
RemoteWorkSurvives ==
  [][\A p \in Paths : Tip'[p] # Tip[p] =>
       \/ \E v \in Versions : EditRemote(p, v)
       \/ InWorkspace(p, Tip[p])]_vars

\* The version of p that both sides are taken to have had (synchronize_workspace's baseline).
Base(p) == IF binding.hasSynced THEN binding.manifest[p] ELSE NoFile

\* The workspace was linked again, which forgets the baseline.
Relinked == budget.links + 1 < MaxLinks

\* A path that diverged (both sides left the stored baseline, differently) keeps
\* both its versions until the user edits it, another device commits it, or the
\* user pulls: no run, retry or late publication picks a winner.  There are two
\* exceptions: GitLab's create has no version to compare and can undo a deletion,
\* and linking again forgets the baseline, so that a publication sent before it
\* still lands on a path that now counts as diverged.
Diverged(p) == local[p] # Base(p) /\ Tip[p] # Base(p) /\ local[p] # Tip[p]

DivergedVersionsStay ==
  [][\A p \in Paths : Diverged(p) =>
       \/ /\ local'[p] = local[p]
          /\ (Tip'[p] = Tip[p] \/ (provider = "gitlab" /\ Tip[p] = NoFile))
       \/ \E v \in Versions : EditLocal(p, v) \/ EditRemote(p, v)
       \/ mode = "pull"
       \/ Relinked /\ \E pub \in late : LateArrival(pub)]_vars

(* Why it holds: with SyncInvariant, the following is inductive (CloudSyncProofs). *)

\* Syncs need a link, and the bound counts the links.
LinksAreCounted ==
  /\ budget.links <= MaxLinks
  /\ binding.linked <=> budget.links < MaxLinks
  /\ ~binding.linked => late = {} /\ phase \in {"idle", "link"}

\* The baseline a run planned with stays the stored one for every path it has not
\* downloaded or found converged.
BaselineIsStored ==
  /\ phase = "scan" => \A p \in Paths : baseline[p] = Base(p)
  /\ Transferring => \A p \in todo \cup DOMAIN uploads : acknowledged[p] = baseline[p] /\ baseline[p] = Base(p)

\* A run freezes no commit older than those of earlier runs, and its own is newer.
CommitsFollow ==
  /\ Transferring => \A pub \in late : pub.expected <= expected
  /\ phase = "landed" => expected <= commit

\* No commit since the frozen one changed p.
Untouched(pub, p) == \A i \in pub.expected .. HeadCommit : history[i][p] = history[pub.expected][p]

\* Until the workspace is linked again, a late publication can only replace the stored baseline.
LateReplacesBase ==
  ~Relinked => \A pub \in late : \A p \in DOMAIN pub.changes :
    Untouched(pub, p) => Base(p) = history[pub.expected][p]

DivergenceInvariant == LinksAreCounted /\ BaselineIsStored /\ CommitsFollow /\ LateReplacesBase

-----------------------------------------------------------------------------
(* Liveness. *)

InConflict == \E p \in Paths : Diverged(p)
Clean == local = Tip /\ binding.hasSynced /\ LocalChanges = {} /\ ~RemoteChanged

\* Once edits and faults cease, retrying Sync settles a linked workspace: either
\* a path diverged and every retry reports it, or both sides and the baseline
\* become equal and stay so.  No failure, lost answer or late publication leaves
\* a state that retries cannot leave.
RetriesSettle == <>[](binding.linked => InConflict \/ Clean)
=============================================================================

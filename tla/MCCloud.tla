------------------------------ MODULE MCCloud -------------------------------
(***************************************************************************)
(* Syncing, the commands of a window for it, and the tree of files that    *)
(* they change, checked as one system for the runs that need them: a       *)
(* behaviour is one of syncs, of the repository commands or of the tree.   *)
(***************************************************************************)
EXTENDS Naturals, FiniteSets, Sequences

CONSTANTS
  None, MaxFaults,
  Paths, Contents, NoFile, Providers, GithubFiles, GitlabFiles, MaxLocalEdits, MaxRemoteEdits, MaxLinks,
  Workspaces, Linked, Documents, Draft, MaxCommands, MaxSwitches, MaxEdits, MaxRefusals,
  Roots, Names, Inner, MaxMutations, MaxOutside, MaxMoves

Before ==
  [r \in Roots |-> IF r = "p" THEN {[path |-> <<1>>, folder |-> TRUE], [path |-> <<1, 2>>, folder |-> FALSE]}
                    ELSE {[path |-> <<2>>, folder |-> FALSE]}]

\* The workspace of the documents.
Home == [d \in Documents |-> CHOOSE w \in Linked : TRUE]

VARIABLES part, late, faults,
  provider, local, seenLocal, history, binding, phase, mode, todo, baseline, scanned, expected, acknowledged, uploads,
  commit, budget,
  workspace, scope, identity, fresh, ui, native, documents, gate, stale, broken, tasks, commands, switches, edits,
  disk, trees, root, items, mutation, poll, reported, opening, download, behind, mutations, outside, moves

Syncs == INSTANCE CloudSync
Repository == INSTANCE RepositoryWorkflow WITH MaxFaults <- MaxRefusals
Tree == INSTANCE WorkspaceTree WITH MaxFaults <- MaxRefusals

\* What the components assume of their constants.
ASSUME PartsAssumption ==
  /\ Syncs!PathsAssumption /\ Syncs!ContentsAssumption /\ Syncs!ProviderAssumption
  /\ Repository!WorkflowAssumption /\ Tree!TreeAssumption

syncsVars == <<provider, local, seenLocal, history, binding, phase, mode, todo, baseline, scanned, expected, acknowledged, uploads,
  commit, budget>>
repositoryVars == <<workspace, scope, identity, fresh, ui, native, documents, gate, stale, broken, tasks, commands, switches, edits>>
treeVars == <<disk, trees, root, items, mutation, poll, reported, opening, download, behind, mutations, outside, moves>>
vars == <<part, late, faults, syncsVars, repositoryVars, treeVars>>

syncsState == Syncs!vars
repositoryState == Repository!vars
treeState == Tree!vars

\* A component that is not the one of the behaviour.
syncsIdle ==
  /\ provider = None /\ local = None /\ seenLocal = None /\ history = None /\ binding = None /\ phase = None /\ mode = None
  /\ todo = None /\ baseline = None /\ scanned = None /\ expected = None /\ acknowledged = None /\ uploads = None
  /\ commit = None /\ budget = None
repositoryIdle ==
  /\ workspace = None /\ scope = None /\ identity = None /\ fresh = None /\ ui = None /\ native = None
  /\ documents = None /\ gate = None /\ stale = None /\ broken = None /\ tasks = None /\ commands = None /\ switches = None
  /\ edits = None
treeIdle ==
  /\ disk = None /\ trees = None /\ root = None /\ items = None /\ mutation = None /\ poll = None
  /\ reported = None /\ opening = None /\ download = None /\ behind = None /\ mutations = None /\ outside = None
  /\ moves = None

Init ==
  \/ part = "syncs" /\ Syncs!Init /\ faults = None /\ repositoryIdle /\ treeIdle
  \/ part = "repository" /\ Repository!Init /\ syncsIdle /\ treeIdle
  \/ part = "tree" /\ Tree!Init /\ late = None /\ syncsIdle /\ repositoryIdle

Next ==
  \/ part = "syncs" /\ Syncs!Next /\ UNCHANGED <<part, faults, repositoryVars, treeVars>>
  \/ part = "repository" /\ Repository!Next /\ UNCHANGED <<part, syncsVars, treeVars>>
  \/ part = "tree" /\ Tree!Next /\ UNCHANGED <<part, late, syncsVars, repositoryVars>>

Of(name, A) == part = name /\ A

FairSpec ==
  /\ Init /\ [][Next]_vars
  /\ WF_syncsState(Of("syncs", Syncs!RunStep /\ UNCHANGED provider))
  /\ WF_syncsState(Of("syncs", (\E m \in {"sync", "pull"} : Syncs!StartSync(m)) /\ UNCHANGED provider))
  /\ WF_syncsState(Of("syncs", (\E pub \in late : Syncs!LateArrival(pub) \/ Syncs!LateLost(pub)) /\ UNCHANGED provider))
  /\ WF_repositoryState(Of("repository", \E t \in tasks : Repository!Returned(t)))
  /\ WF_treeState(Of("tree", Tree!Polling)) /\ WF_treeState(Of("tree", Tree!Commanded)) /\ WF_treeState(Of("tree", Tree!Answered))

-----------------------------------------------------------------------------

\* At rest the window shows the stored account and binding, no reading of a workspace that was left
\* becomes the binding or status of the open one, and one sync runs at a time (useRepositoryWorkflow);
\* of what a sync, link, connection or disconnection shows that outlives its workspace nothing is
\* said (StatusIsOfWorkspace).  The tree of files shows what commands changed, whatever listings
\* come late (workspacePathMutations).
WorkspaceIsSound ==
  /\ part = "repository" => Repository!TypeOK /\ Repository!IdentityIsCurrent /\ Repository!ReadingsStay /\ Repository!OneSync
  /\ part = "tree" => Tree!TreeIsSound

\* The status dialog shows the status of the open workspace: no late answer reopens it for another one
\* (docs/engineering/audit.md, ENG-16).
StatusIsOfWorkspace == part = "repository" => Repository!StatusIsOfWorkspace

\* When a sync begins, all its workspace's documents are stored as they are shown: saved one after
\* another while the user types and saves, none that was typed into since its save, or that became
\* dirty after the batch was made up, is passed over (saveWorkspaceDocuments).  StoredAsShown names
\* the one exception.
SyncsAreOfSaved ==
  [][part = "repository" => \A t \in tasks' \ tasks : t.step = "sync" /\ t.answer = None => Repository!StoredAsShown(t.root)]_vars

\* Once edits and faults cease, retrying Sync settles a linked workspace: either a path diverged and every
\* retry reports it, or both sides and the baseline become equal and stay so; and no
\* command, listing or opening of a window stays under way.
CloudWorkEnds ==
  <>[](/\ part = "syncs" /\ binding.linked => Syncs!InConflict \/ Syncs!Clean
       /\ part = "repository" => ~ui.busy /\ ~ui.syncing
       /\ part = "tree" => Tree!Rests)
=============================================================================

------------------------ MODULE DocumentRequests ------------------------
(***************************************************************************)
(* The native calls that change the documents of a workspace folder:       *)
(* document_save.rs (save, create_workspace_markdown, apply_sync_change)   *)
(* and the path mutations of main.rs and workspace_entries.rs.             *)
(***************************************************************************)
EXTENDS Integers, FiniteSets

CONSTANTS
  Paths,        \* documents of one folder
  Contents,     \* document contents; a content also stands for its revision and digest
  NoFile,       \* the version of a path that does not exist
  AnyRevision,  \* expected_revision = None
  Callers       \* threads that run native commands

ASSUME VersionsAssumption == NoFile \notin Contents /\ AnyRevision \notin Contents \cup {NoFile}

Versions == Contents \cup {NoFile}

\* expected is a revision for a save, and for a download the version the plan
\* saw, where NoFile says that the path must not exist.  A download of NoFile
\* deletes.
Saves == [op : {"save"}, path : Paths, target : {"Existing", "ReplaceOrCreate"},
          expected : Contents \cup {AnyRevision}, content : Contents]
Creations == [op : {"create"}, path : Paths, target : {"CreateNew"},
              expected : {AnyRevision}, content : Contents]
Downloads == [op : {"download"}, path : Paths, target : {"Existing"},
              expected : Contents, content : Versions]
             \cup [op : {"download"}, path : Paths, target : {"CreateNew"},
                   expected : {NoFile}, content : Contents]
Moves == [op : {"rename"}, path : Paths, to : Paths]
Deletions == [op : {"delete"}, path : Paths]

Writes == Saves \cup Creations \cup Downloads
Mutations == Moves \cup Deletions
Requests == Writes \cup Mutations
NoCall == [op |-> "none"]

\* save_coordinated's checks: the versions of its path a write may replace.
Accepts(r, v) ==
  /\ r.target = "CreateNew" => v = NoFile
  /\ (r.target = "Existing" \/ r.expected \in Contents) => v # NoFile
  /\ r.expected \in Contents => v = r.expected
=============================================================================

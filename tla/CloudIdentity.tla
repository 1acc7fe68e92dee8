--------------------------- MODULE CloudIdentity ---------------------------
(***************************************************************************)
(* The credential lifecycle of Cloud Sync: repository_identity.rs with its  *)
(* DisconnectJournal, and secret_store.rs below it.                         *)
(*                                                                         *)
(* A token lives in the system keychain, or in the fallback file of a debug *)
(* build; the account metadata and the mark of an unfinished disconnect are *)
(* files of the configuration folder.  No transaction spans them: a         *)
(* disconnect writes the mark, deletes every credential, forgets the        *)
(* account and removes the mark last, and whoever finds the mark goes on.   *)
(*                                                                         *)
(* Calls do not interleave (with_repository_operation admits one, and       *)
(* IDENTITY_LOCK guards each), but the process can die between any two      *)
(* steps, each step can fail, and a loss of power takes the folder back to  *)
(* any state a file had since the folder was last synced.                   *)
(***************************************************************************)
EXTENDS Naturals, FiniteSets

CONSTANTS
  Tokens,     \* what a user can connect with
  None,       \* no token, account, call or answer
  MaxFaults,  \* bound on failing steps, crashes and losses of power
  MaxCalls    \* bound on calls other than the account refresh

Providers == {"github", "gitlab"}

IdentityAssumption ==
  /\ None \notin Tokens \cup Providers \cup {"torn", "error"}
  /\ "error" \notin Tokens
  /\ MaxFaults \in Nat /\ MaxCalls \in Nat

VARIABLES
  build,     \* a debug build has the fallback file
  keychain,  \* the token of every provider in the system keychain
  folder,    \* the configuration folder as the process sees it
  durable,   \* what each of its files may be after a loss of power
  op,        \* the call at work
  answer,    \* what the last call answered
  told,      \* whether the user knows the account to be disconnected
  asked,     \* whether the user wants it disconnected
  revoked,   \* tokens a disconnect was accepted for
  faults, calls

vars == <<build, keychain, folder, durable, op, answer, told, asked, revoked, faults, calls>>

Secrets == [Providers -> Tokens \cup {None}]
NoSecrets == [p \in Providers |-> None]

\* staged: an unpublished copy of the fallback file that a crash left behind
Folders == [mark : BOOLEAN, account : Providers \cup {None, "torn"}, fallback : Secrets, staged : BOOLEAN]
HasFallback == build = "debug"

Files == {"mark", "account", "fallback", "staged"}

Deleting == {"github", "gitlab", "clear"}

Calls ==
  [fn : {"connect", "disconnect", "account"},
   at : {"keychain", "tidy", "stage", "publish", "verify", "write", "written",
         "check", "mark", "intent", "forget", "unmark"} \cup Deleting,
   provider : Providers \cup {None}, token : Tokens \cup {None}, intact : BOOLEAN]

Call(fn, at, p, t) == [fn |-> fn, at |-> at, provider |-> p, token |-> t, intact |-> TRUE]

-----------------------------------------------------------------------------
(* The folder. *)

Fresh(f, d) == [file \in Files |-> d[file] \cup {f[file]}]

\* Changes that reached the folder, not the disk.
Put(f) == folder' = f /\ durable' = Fresh(f, durable)

\* ... and the disk: sync_directory.  Nobody syncs the bytes of the account file.
PutAndSync(f) ==
  /\ folder' = f
  /\ durable' = [file \in Files |->
       {f[file]} \cup (IF file = "account" /\ f.account # None THEN durable.account \cap {"torn"} ELSE {})]

\* A step that fails may have changed the folder to one of these.
PutSome(fs) == \E f \in fs \cup {folder} : Put(f)

SameFolder == UNCHANGED <<folder, durable>>

Fault == faults > 0 /\ faults' = faults - 1
NoFault == UNCHANGED faults

At(at) == op # None /\ op.at = at
Goto(at) == op' = [op EXCEPT !.at = at] /\ UNCHANGED <<answer, told, asked, revoked, calls>>

Return(value) ==
  /\ op' = None
  /\ answer' = [fn |-> op.fn, value |-> value]
  /\ UNCHANGED <<asked, revoked, calls>>

Fail == Return("error") /\ UNCHANGED told

\* credential_file::clear removes the file and what was staged.
Cleared == [folder EXCEPT !.fallback = NoSecrets, !.staged = FALSE]
PartlyCleared == {Cleared, [folder EXCEPT !.fallback = NoSecrets], [folder EXCEPT !.staged = FALSE]}

\* Mutant: a keychain that cannot be read is taken for an empty one.
ReadSecretAsAbsent(p, r) ==
  \/ /\ keychain[p] # None /\ NoFault
     /\ r = keychain[p]
     /\ PutAndSync(Cleared) \/ PutSome(PartlyCleared)
  \/ /\ keychain[p] = None /\ NoFault
     /\ r = (IF HasFallback THEN folder.fallback[p] ELSE None)
     /\ SameFolder
  \/ /\ Fault
     /\ r = (IF HasFallback THEN folder.fallback[p] ELSE None)
     /\ SameFolder

\* read_repository_secret: the keychain wins and clears the fallback, whose own
\* failure does not matter; absence needs a keychain that could be read.
ReadSecret(p, r) ==
  \/ /\ keychain[p] # None /\ NoFault
     /\ r = keychain[p]
     /\ PutAndSync(Cleared) \/ PutSome(PartlyCleared)
  \/ /\ keychain[p] = None /\ NoFault
     /\ r = (IF HasFallback THEN folder.fallback[p] ELSE None)
     /\ SameFolder
  \/ /\ Fault
     /\ r \in {"error"} \cup (IF HasFallback /\ folder.fallback[p] # None THEN {folder.fallback[p]} ELSE {})
     /\ SameFolder

-----------------------------------------------------------------------------

Init ==
  /\ build \in {"debug", "release"}
  /\ keychain = NoSecrets
  /\ folder = [mark |-> FALSE, account |-> None, fallback |-> NoSecrets, staged |-> FALSE]
  /\ durable = [file \in Files |-> {folder[file]}]
  /\ op = None /\ answer = None
  /\ told = FALSE /\ asked = FALSE /\ revoked = {}
  /\ faults = MaxFaults /\ calls = MaxCalls

Spend == calls > 0 /\ calls' = calls - 1

-----------------------------------------------------------------------------
(* Connecting. *)

\* ensure_available, the provider's answer, and ensure_available again.
Connect(p, t) ==
  /\ op = None /\ ~folder.mark
  /\ op' = Call("connect", "keychain", p, t) /\ answer' = None
  /\ told' = FALSE
  /\ asked' = (asked /\ TRUE \in durable.mark)
  /\ revoked' = revoked \ {t}
  /\ Spend /\ NoFault /\ SameFolder /\ UNCHANGED keychain

\* save_repository_secret: the keychain, when it reads back what was written.
SaveKeychain ==
  /\ At("keychain")
  /\ \/ /\ keychain' = [keychain EXCEPT ![op.provider] = op.token] /\ NoFault
        /\ Goto("tidy")
     \/ /\ keychain' \in {keychain, [keychain EXCEPT ![op.provider] = op.token]} /\ Fault
        /\ IF HasFallback THEN Goto("stage") ELSE Fail
  /\ SameFolder

Tidy ==
  /\ At("tidy")
  /\ \/ PutAndSync(Cleared) /\ Goto("verify") /\ NoFault
     \/ PutSome(PartlyCleared) /\ Fail /\ Fault
  /\ UNCHANGED keychain

\* write_with: a fresh sibling, renamed over the fallback file.
Stage ==
  /\ At("stage")
  /\ \/ Put([folder EXCEPT !.staged = TRUE]) /\ Goto("publish") /\ NoFault
     \/ SameFolder /\ Fail /\ Fault
  /\ UNCHANGED keychain

Publish ==
  LET published == [folder EXCEPT !.fallback[op.provider] = op.token, !.staged = FALSE] IN
  /\ At("publish")
  /\ \/ PutAndSync(published) /\ Goto("verify") /\ NoFault
     \/ (Put(published) \/ Put([folder EXCEPT !.staged = FALSE])) /\ Fail /\ Fault
  /\ UNCHANGED keychain

Verify ==
  /\ At("verify")
  /\ \E r \in Tokens \cup {None, "error"} :
       ReadSecret(op.provider, r) /\ IF r = op.token THEN Goto("write") ELSE Fail
  /\ UNCHANGED keychain

\* fs::write truncates the account file and fills it.
Truncate ==
  /\ At("write")
  /\ \/ Put([folder EXCEPT !.account = "torn"]) /\ Goto("written") /\ NoFault
     \/ SameFolder /\ Fail /\ Fault
  /\ UNCHANGED keychain

WriteAccount ==
  /\ At("written")
  /\ \/ Put([folder EXCEPT !.account = op.provider]) /\ Return(op.token) /\ UNCHANGED told /\ NoFault
     \/ SameFolder /\ Fail /\ Fault
  /\ UNCHANGED keychain

-----------------------------------------------------------------------------
(* Disconnecting. *)

Disconnect ==
  /\ op = None
  /\ op' = Call("disconnect", IF folder.mark THEN "intent" ELSE "mark", None, None) /\ answer' = None
  /\ asked' = TRUE
  /\ Spend /\ NoFault /\ SameFolder /\ UNCHANGED <<keychain, told, revoked>>

\* create_new, write_all and sync_all of the mark
Mark ==
  /\ At("mark")
  /\ \/ Put([folder EXCEPT !.mark = TRUE]) /\ Goto("intent") /\ NoFault
     \/ PutSome({[folder EXCEPT !.mark = TRUE]}) /\ Fail /\ Fault
  /\ UNCHANGED keychain

Accept ==
  /\ op' = [op EXCEPT !.at = "github"]
  /\ revoked' = revoked \cup {t \in Tokens : \E p \in Providers : t \in {keychain[p], folder.fallback[p]}}
  /\ UNCHANGED <<answer, told, asked, calls>>

\* Mutant: a mark that exists is taken for one that is durable.
TrustIntent ==
  /\ At("intent")
  /\ Accept /\ NoFault /\ SameFolder
  /\ UNCHANGED keychain

\* The mark is durable before a credential is touched, on a retry too.
SyncIntent ==
  /\ At("intent")
  /\ \/ PutAndSync(folder) /\ Accept /\ NoFault
     \/ SameFolder /\ Fail /\ Fault
  /\ UNCHANGED keychain

\* delete_repository_secrets_using: every location is tried whatever failed before.
DeleteSecret(p, next) ==
  /\ At(p)
  /\ \/ /\ keychain' = [keychain EXCEPT ![p] = None] /\ NoFault
        /\ op' = [op EXCEPT !.at = next]
     \/ /\ keychain' \in {keychain, [keychain EXCEPT ![p] = None]} /\ Fault
        /\ op' = [op EXCEPT !.at = next, !.intact = FALSE]
  /\ SameFolder /\ UNCHANGED <<answer, told, asked, revoked, calls>>

\* Mutant: the fallback alone decides whether the credentials are gone.
ClearForgiving ==
  /\ At("clear")
  /\ \/ PutAndSync(Cleared) /\ NoFault /\ Goto("forget")
     \/ PutSome(PartlyCleared) /\ Fail /\ Fault
  /\ UNCHANGED keychain

ClearFallback ==
  /\ At("clear")
  /\ \/ PutAndSync(Cleared) /\ NoFault /\ IF op.intact THEN Goto("forget") ELSE Fail
     \/ PutSome(PartlyCleared) /\ Fail /\ Fault
  /\ UNCHANGED keychain

ForgetAccount ==
  LET forgotten == [folder EXCEPT !.account = None] IN
  /\ At("forget")
  /\ \/ PutAndSync(forgotten) /\ Goto("unmark") /\ NoFault
     \/ PutSome({forgotten}) /\ Fail /\ Fault
  /\ UNCHANGED keychain

Unmark ==
  LET unmarked == [folder EXCEPT !.mark = FALSE] IN
  /\ At("unmark")
  /\ \/ PutAndSync(unmarked) /\ Return(None) /\ told' = TRUE /\ NoFault
     \/ PutSome({unmarked}) /\ Fail /\ Fault
  /\ UNCHANGED keychain

-----------------------------------------------------------------------------
(* Reading. *)

\* Mutant: without an account there is nothing to go on with.
RefreshKnown ==
  /\ op = None /\ folder.account \in Providers
  /\ op' = IF folder.mark THEN Call("account", "intent", None, None)
           ELSE Call("account", "check", folder.account, None)
  /\ answer' = None
  /\ NoFault /\ SameFolder /\ UNCHANGED <<keychain, told, asked, revoked, calls>>

\* Mutant: an account file that cannot be parsed is used.
RefreshTorn ==
  /\ op = None /\ (folder.mark \/ folder.account # None)
  /\ op' = IF folder.mark THEN Call("account", "intent", None, None)
           ELSE Call("account", "check", folder.account, None)
  /\ answer' = None
  /\ NoFault /\ SameFolder /\ UNCHANGED <<keychain, told, asked, revoked, calls>>

\* read_connected_account goes on with an unfinished disconnect, with or without an account.
Refresh ==
  /\ op = None /\ (folder.mark \/ folder.account \in Providers)
  /\ op' = IF folder.mark THEN Call("account", "intent", None, None)
           ELSE Call("account", "check", folder.account, None)
  /\ answer' = None
  /\ NoFault /\ SameFolder /\ UNCHANGED <<keychain, told, asked, revoked, calls>>

\* An account without a credential is cleaned up like a disconnect; one whose
\* credential could not be read is kept.
CheckSecret ==
  /\ At("check")
  /\ \E r \in Tokens \cup {None, "error"} :
       /\ ReadSecret(op.provider, r)
       /\ CASE r = None -> Goto("mark")
            [] r = "error" -> Fail
            [] OTHER -> Return(r) /\ UNCHANGED told
  /\ UNCHANGED keychain

\* Mutant: the mark is not looked at.
GetTokenAnyway(p) ==
  /\ op = None
  /\ \E r \in Tokens \cup {None, "error"} :
       ReadSecret(p, r) /\ answer' = [fn |-> "token", value |-> IF r = None THEN "error" ELSE r]
  /\ Spend /\ UNCHANGED <<keychain, op, told, asked, revoked>>

\* repository_token
GetToken(p) ==
  /\ op = None /\ ~folder.mark
  /\ \E r \in Tokens \cup {None, "error"} :
       ReadSecret(p, r) /\ answer' = [fn |-> "token", value |-> IF r = None THEN "error" ELSE r]
  /\ Spend /\ UNCHANGED <<keychain, op, told, asked, revoked>>

-----------------------------------------------------------------------------
(* The rest of the world. *)

Crash ==
  /\ op # None /\ op' = None /\ answer' = None
  /\ Fault /\ SameFolder /\ UNCHANGED <<keychain, told, asked, revoked, calls>>

PowerFailure ==
  /\ op' = None /\ answer' = None
  /\ \E f \in Folders :
       /\ \A file \in Files : f[file] \in durable[file]
       /\ folder' = f
       /\ durable' = [file \in Files |-> {f[file]}]
  /\ Fault /\ UNCHANGED <<keychain, told, asked, revoked, calls>>

\* The operating system writes everything back.
Flush ==
  /\ durable # [file \in Files |-> {folder[file]}]
  /\ durable' = [file \in Files |-> {folder[file]}]
  /\ UNCHANGED <<keychain, folder, op, answer, told, asked, revoked, faults, calls>>

-----------------------------------------------------------------------------

Step ==
  \/ SaveKeychain \/ Tidy \/ Stage \/ Publish \/ Verify \/ Truncate \/ WriteAccount
  \/ Mark \/ SyncIntent \/ DeleteSecret("github", "gitlab") \/ DeleteSecret("gitlab", "clear")
  \/ ClearFallback \/ ForgetAccount \/ Unmark \/ CheckSecret

Next ==
  /\ UNCHANGED build
  /\ \/ \E p \in Providers, t \in Tokens : Connect(p, t)
     \/ Disconnect \/ Refresh \/ Step
     \/ \E p \in Providers : GetToken(p)
     \/ Crash \/ PowerFailure \/ Flush

Spec == Init /\ [][Next]_vars

\* A call that started goes on, and the window asks for the account again.
FairSpec == Spec /\ WF_vars((Step \/ Refresh) /\ UNCHANGED build)

-----------------------------------------------------------------------------
(* Properties. *)

\* Every state has its type, and the folder is one the disk may have.
TypeOK ==
  /\ build \in {"debug", "release"}
  /\ keychain \in Secrets
  /\ folder \in Folders
  /\ DOMAIN durable = Files /\ \A file \in Files : folder[file] \in durable[file]
  /\ durable.mark \subseteq BOOLEAN /\ durable.staged \subseteq BOOLEAN
  /\ durable.account \subseteq Providers \cup {None, "torn"} /\ durable.fallback \subseteq Secrets
  /\ op \in Calls \cup {None}
  /\ answer # None => answer.value \in Tokens \cup {None, "error"}
  /\ {told, asked} \subseteq BOOLEAN /\ revoked \subseteq Tokens
  /\ faults \in Nat /\ calls \in Nat

Stored(t) == \E p \in Providers : keychain[p] = t \/ \E s \in durable.fallback : s[p] = t

\* While a revoked token is left anywhere, no crash or loss of power can hide that the
\* disconnect is unfinished: intent before deletion, and removed last.
RevokedAreLocked == \A t \in revoked : Stored(t) => durable.mark = {TRUE}

\* A token the user revoked is never handed out again, unless they connect with it again.
RevokedStayUnused == answer # None /\ answer.fn = "token" => answer.value \notin revoked

\* Once a disconnect was answered, no credential, staged copy or account is left in any
\* store, and a loss of power brings none back.
DisconnectedIsClean ==
  told => /\ keychain = NoSecrets
          /\ durable.account = {None} /\ durable.fallback = {NoSecrets} /\ durable.staged = {FALSE}

\* The credential of the account that is shown is only deleted for a user who asked for
\* it; a keychain that cannot be read is no reason.
AccountsAreKept ==
  [][~HasFallback => \A p \in Providers :
       keychain[p] # None /\ keychain'[p] = None /\ folder.account = p => asked]_vars

\* Once begun, a disconnect is carried through, whatever fails on the way.
CleanupCompletes == folder.mark ~> ~folder.mark
=============================================================================

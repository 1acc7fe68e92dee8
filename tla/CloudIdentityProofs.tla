------------------------- MODULE CloudIdentityProofs --------------------------
(***************************************************************************)
(* Theorems about CloudIdentity, for any tokens and any number of calls,   *)
(* faults and crashes: no crash hides that a revoked token is left, none   *)
(* is handed out again, an answered disconnect left nothing behind, and a  *)
(* credential goes only for a user who asked for it.                       *)
(***************************************************************************)
EXTENDS CloudIdentity, TLAPS

-----------------------------------------------------------------------------
(* The inductive invariant. *)

Connecting == {"keychain", "tidy", "stage", "publish", "verify", "write", "written"}
Cleaning == Deleting \cup {"forget", "unmark"}

\* Nothing a connect adds is revoked, and no disconnect was answered since it began.
ConnectFits ==
  op # None /\ op.at \in Connecting =>
    /\ op.fn = "connect" /\ op.provider \in Providers /\ op.token \in Tokens \ revoked /\ ~told
    /\ op.at \in {"stage", "publish"} => HasFallback
    /\ ~HasFallback /\ op.at \in {"tidy", "verify", "write", "written"} => keychain[op.provider] # None

\* An account is checked as long as no disconnect has begun.
CheckFits == op # None /\ op.at = "check" => op.provider = folder.account /\ op.provider \in Providers /\ ~folder.mark

\* Credentials are deleted under a durable mark, and what a clean-up has passed is gone.
CleanupFits ==
  op # None =>
    /\ op.at = "intent" => folder.mark
    /\ op.at \in Cleaning => durable.mark = {TRUE}
    /\ ~HasFallback /\ op.at \in Cleaning \cup {"mark", "intent"} => asked
    /\ op.at \notin {"gitlab", "clear"} => op.intact
    /\ op.at \in {"gitlab", "clear"} /\ op.intact => keychain["github"] = None
    /\ op.at = "clear" /\ op.intact => keychain["gitlab"] = None
    /\ op.at \in {"forget", "unmark"} =>
         keychain = NoSecrets /\ durable.fallback = {NoSecrets} /\ durable.staged = {FALSE}
    /\ op.at = "unmark" => durable.account = {None}

\* Without a fallback only a user's disconnect leaves a mark, and an account whose credential is gone
\* is one that a disconnect is about to forget.
AccountsHaveCredentials ==
  ~HasFallback =>
    /\ TRUE \in durable.mark => asked
    /\ \A p \in durable.account \cap Providers : keychain[p] = None => durable.mark = {TRUE}

\* Of the stores, and of the call at work.
StoresAreSafe == RevokedAreLocked /\ DisconnectedIsClean /\ AccountsHaveCredentials
CallIsSafe ==
  /\ op # None => answer = None
  /\ RevokedStayUnused /\ ConnectFits /\ CheckFits /\ CleanupFits

IdentityInvariant == TypeOK /\ StoresAreSafe /\ CallIsSafe

-----------------------------------------------------------------------------
(* The folder and the disk. *)

\* The folder is one the disk may have.
FolderTyped ==
  /\ folder \in Folders /\ DOMAIN durable = Files
  /\ folder.mark \in durable.mark /\ folder.account \in durable.account
  /\ folder.fallback \in durable.fallback /\ folder.staged \in durable.staged
  /\ durable.mark \subseteq BOOLEAN /\ durable.staged \subseteq BOOLEAN
  /\ durable.account \subseteq Providers \cup {None, "torn"} /\ durable.fallback \subseteq Secrets

\* What TypeOK says of the folder, file by file.
LEMMA FolderType == TypeOK => FolderTyped
BY DEF TypeOK, FolderTyped, Files

\* What it says of the rest.
RestTyped ==
  /\ build \in {"debug", "release"} /\ keychain \in Secrets /\ op \in Calls \cup {None}
  /\ (answer # None => answer.value \in Tokens \cup {None, "error"})
  /\ told \in BOOLEAN /\ asked \in BOOLEAN /\ revoked \subseteq Tokens /\ faults \in Nat /\ calls \in Nat

\* Both make up TypeOK, before a step and after it.
LEMMA TypeParts == (TypeOK <=> FolderTyped /\ RestTyped) /\ (TypeOK' <=> FolderTyped' /\ RestTyped')
BY DEF TypeOK, FolderTyped, RestTyped, Files

\* No secrets are secrets.
LEMMA NoSecretsTyped == NoSecrets \in Secrets
BY DEF NoSecrets, Secrets

\* Changes that only reached the folder leave what was durable possible.
LEMMA Putting ==
  ASSUME NEW f \in Folders, FolderTyped, Put(f)
  PROVE  /\ folder' = f /\ FolderTyped'
         /\ durable'.mark = durable.mark \cup {f.mark} /\ durable'.account = durable.account \cup {f.account}
         /\ durable'.fallback = durable.fallback \cup {f.fallback} /\ durable'.staged = durable.staged \cup {f.staged}
BY DEF FolderTyped, Put, Fresh, Files, Folders

\* A sync leaves the folder alone possible, but for the bytes of the account.
LEMMA Syncing ==
  ASSUME NEW f \in Folders, FolderTyped, PutAndSync(f)
  PROVE  /\ folder' = f /\ FolderTyped'
         /\ durable'.mark = {f.mark} /\ durable'.fallback = {f.fallback} /\ durable'.staged = {f.staged}
         /\ durable'.account \subseteq {f.account} \cup (durable.account \cap {"torn"})
         /\ f.account = None => durable'.account = {None}
<1>1. /\ folder' = f /\ DOMAIN durable' = Files
      /\ durable'.mark = {f.mark} /\ durable'.fallback = {f.fallback} /\ durable'.staged = {f.staged}
  BY DEF PutAndSync, Files
<1>2. durable'.account = {f.account} \cup (IF f.account # None THEN durable.account \cap {"torn"} ELSE {})
  BY DEF PutAndSync, Files
<1>3. /\ durable'.account \subseteq {f.account} \cup (durable.account \cap {"torn"}) /\ f.account \in durable'.account
      /\ f.account = None => durable'.account = {None}
  BY <1>2
<1>4. /\ f.mark \in BOOLEAN /\ f.account \in Providers \cup {None, "torn"} /\ f.fallback \in Secrets /\ f.staged \in BOOLEAN
  BY DEF Folders
<1>5. FolderTyped'
  BY <1>1, <1>3, <1>4 DEF FolderTyped
<1> QED
  BY <1>1, <1>3, <1>5

\* A step that leaves the mark and the account, and at most clears the fallback.
Shrinks ==
  /\ FolderTyped' /\ folder'.mark = folder.mark /\ folder'.account = folder.account
  /\ folder'.fallback \in {folder.fallback, NoSecrets}
  /\ durable'.mark \subseteq durable.mark /\ durable'.account \subseteq durable.account
  /\ durable'.fallback \subseteq durable.fallback \cup {NoSecrets} /\ durable'.staged \subseteq durable.staged \cup {FALSE}

\* Nothing is such a step.
LEMMA SameShrinks == ASSUME FolderTyped, SameFolder PROVE Shrinks
BY DEF FolderTyped, SameFolder, Shrinks

\* So is clearing the fallback, whether it succeeds or not.
LEMMA ClearShrinks == ASSUME FolderTyped, PutAndSync(Cleared) \/ PutSome(PartlyCleared) PROVE Shrinks
<1>1. /\ Cleared \in Folders /\ folder \in Folders
      /\ \A f \in PartlyCleared \cup {folder, Cleared} : f \in Folders /\ f.mark = folder.mark /\ f.account = folder.account
           /\ f.fallback \in {folder.fallback, NoSecrets} /\ f.staged \in {folder.staged, FALSE}
  <2> DEFINE g == [folder EXCEPT !.fallback = NoSecrets]
             h == [folder EXCEPT !.staged = FALSE]
             Fine(f) == /\ f \in Folders /\ f.mark = folder.mark /\ f.account = folder.account
                        /\ f.fallback \in {folder.fallback, NoSecrets} /\ f.staged \in {folder.staged, FALSE}
  <2>1. Fine(folder)
    BY DEF FolderTyped
  <2>2. Fine(Cleared)
    BY NoSecretsTyped DEF FolderTyped, Cleared, Folders
  <2>3. Fine(g)
    BY NoSecretsTyped DEF FolderTyped, Folders
  <2>4. Fine(h)
    BY DEF FolderTyped, Folders
  <2>5. PartlyCleared = {Cleared, g, h}
    BY DEF PartlyCleared
  <2> HIDE DEF g, h
  <2> QED
    BY <2>1, <2>2, <2>3, <2>4, <2>5
<1>2. CASE PutAndSync(Cleared)
  <2>1. /\ folder' = Cleared /\ FolderTyped'
        /\ durable'.mark = {Cleared.mark} /\ durable'.fallback = {Cleared.fallback} /\ durable'.staged = {Cleared.staged}
        /\ durable'.account \subseteq {Cleared.account} \cup (durable.account \cap {"torn"})
    BY <1>1, <1>2, Syncing
  <2>2. /\ Cleared.mark = folder.mark /\ Cleared.account = folder.account
        /\ Cleared.fallback \in {folder.fallback, NoSecrets} /\ Cleared.staged \in {folder.staged, FALSE}
    BY <1>1
  <2> QED
    BY <2>1, <2>2 DEF FolderTyped, Shrinks
<1>3. ASSUME NEW f \in PartlyCleared \cup {folder}, Put(f) PROVE Shrinks
  <2>1. /\ f \in Folders /\ f.mark = folder.mark /\ f.account = folder.account
        /\ f.fallback \in {folder.fallback, NoSecrets} /\ f.staged \in {folder.staged, FALSE}
    BY <1>1
  <2>2. /\ folder' = f /\ FolderTyped'
        /\ durable'.mark = durable.mark \cup {f.mark} /\ durable'.account = durable.account \cup {f.account}
        /\ durable'.fallback = durable.fallback \cup {f.fallback} /\ durable'.staged = durable.staged \cup {f.staged}
    BY <1>3, <2>1, Putting
  <2> QED
    BY <2>1, <2>2 DEF FolderTyped, Shrinks
<1> QED
  BY <1>2, <1>3 DEF PutSome

\* A read gives what a store holds, and clears at most the fallback.
LEMMA Reading ==
  ASSUME NEW p \in Providers, NEW r, TypeOK, IdentityAssumption, ReadSecret(p, r)
  PROVE  /\ Shrinks /\ faults' \in Nat /\ r \in Tokens \cup {None, "error"}
         /\ r \in Tokens => (keychain[p] = r \/ folder.fallback[p] = r)
         /\ r = None => keychain[p] = None
         /\ ~HasFallback /\ r \in Tokens => keychain[p] = r
<1>1. FolderTyped /\ keychain \in Secrets /\ folder.fallback \in Secrets /\ faults \in Nat
  BY FolderType DEF TypeOK, Folders
<1>2. None \notin Tokens /\ "error" \notin Tokens
  BY DEF IdentityAssumption
<1>3. CASE keychain[p] # None /\ NoFault /\ r = keychain[p] /\ (PutAndSync(Cleared) \/ PutSome(PartlyCleared))
  BY <1>1, <1>2, <1>3, ClearShrinks DEF NoFault, Secrets
<1>4. CASE keychain[p] = None /\ NoFault /\ r = (IF HasFallback THEN folder.fallback[p] ELSE None) /\ SameFolder
  BY <1>1, <1>2, <1>4, SameShrinks DEF NoFault, Secrets
<1>5. CASE /\ Fault
           /\ r \in {"error"} \cup (IF HasFallback /\ folder.fallback[p] # None THEN {folder.fallback[p]} ELSE {})
           /\ SameFolder
  <2>1. Shrinks /\ faults' \in Nat
    BY <1>1, <1>5, SameShrinks DEF Fault
  <2>2. r = "error" \/ (HasFallback /\ r = folder.fallback[p] /\ r # None)
    BY <1>5
  <2>3. "error" # None
    BY DEF IdentityAssumption
  <2> QED
    BY <1>1, <1>2, <2>1, <2>2, <2>3 DEF Secrets
<1> QED
  BY <1>3, <1>4, <1>5 DEF ReadSecret

-----------------------------------------------------------------------------
(* What most steps share. *)

Steps == Connecting \cup Cleaning \cup {"check", "mark", "intent"}

\* A step that changes no credential and at most clears the fallback.
LEMMA StoresShrink ==
  ASSUME IdentityAssumption, IdentityInvariant, Shrinks, UNCHANGED <<build, keychain, told, asked, revoked>>
  PROVE  StoresAreSafe'
<1> USE DEF IdentityInvariant, StoresAreSafe
<1>1. RevokedAreLocked'
  <2>1. \A t \in Tokens : Stored(t)' => Stored(t) \/ t = None
    BY DEF Shrinks, Stored, NoSecrets, TypeOK, Secrets
  <2> SUFFICES ASSUME NEW t \in revoked, Stored(t)' PROVE durable'.mark = {TRUE}
    BY DEF RevokedAreLocked
  <2>2. t \in Tokens /\ t # None
    BY DEF TypeOK, IdentityAssumption
  <2>3. durable.mark = {TRUE}
    BY <2>1, <2>2 DEF RevokedAreLocked
  <2> QED
    BY <2>3 DEF Shrinks, FolderTyped
<1>2. DisconnectedIsClean'
  <2> SUFFICES ASSUME told
               PROVE  /\ keychain' = NoSecrets /\ durable'.account = {None}
                      /\ durable'.fallback = {NoSecrets} /\ durable'.staged = {FALSE}
    BY DEF DisconnectedIsClean
  <2>1. /\ keychain = NoSecrets /\ durable.account = {None}
        /\ durable.fallback = {NoSecrets} /\ durable.staged = {FALSE}
    BY DEF DisconnectedIsClean
  <2>2. /\ folder'.account \in durable'.account /\ folder'.fallback \in durable'.fallback
        /\ folder'.staged \in durable'.staged
        /\ durable'.account \subseteq durable.account /\ durable'.fallback \subseteq durable.fallback \cup {NoSecrets}
        /\ durable'.staged \subseteq durable.staged \cup {FALSE}
    BY DEF Shrinks, FolderTyped
  <2>3. durable'.account = {None}
    BY <2>1, <2>2
  <2>4. durable'.fallback = {NoSecrets}
    BY <2>1, <2>2
  <2>5. durable'.staged = {FALSE}
    BY <2>1, <2>2
  <2> QED
    BY <2>1, <2>3, <2>4, <2>5
<1>3. AccountsHaveCredentials'
  BY DEF Shrinks, AccountsHaveCredentials, FolderTyped, HasFallback
<1> QED
  BY <1>1, <1>2, <1>3

\* A call that answered is over, and answered no request for a token.
LEMMA Returned ==
  ASSUME IdentityAssumption, IdentityInvariant, op # None,
         NEW v \in Tokens \cup {None, "error"}, Return(v)
  PROVE  /\ CallIsSafe' /\ op' = None /\ answer'.value = v /\ UNCHANGED <<asked, revoked, calls>>
BY DEF IdentityInvariant, TypeOK, Calls, Return, CallIsSafe, RevokedStayUnused, ConnectFits, CheckFits, CleanupFits

\* So is one that failed.
LEMMA Failed ==
  ASSUME IdentityAssumption, IdentityInvariant, op # None, Fail
  PROVE  /\ CallIsSafe' /\ op' = None /\ answer'.value = "error" /\ UNCHANGED <<told, asked, revoked, calls>>
BY Returned DEF Fail

\* A call that goes on is the same call, and answers nothing yet.
LEMMA Gone ==
  ASSUME IdentityInvariant, op # None, NEW at \in Steps, Goto(at)
  PROVE  /\ op' \in Calls /\ op'.at = at /\ op'.fn = op.fn /\ op'.provider = op.provider /\ op'.token = op.token
         /\ op'.intact = op.intact /\ answer = None /\ UNCHANGED <<answer, told, asked, revoked, calls>>
         /\ RevokedStayUnused'
<1>1. op \in Calls /\ answer = None
  BY DEF IdentityInvariant, TypeOK, CallIsSafe
<1> QED
  BY <1>1 DEF Goto, Calls, Steps, Connecting, Cleaning, RevokedStayUnused

-----------------------------------------------------------------------------
(* Connecting keeps the invariant. *)

\* Nothing revoked is left when a connect begins.
LEMMA ConnectKeeps ==
  ASSUME IdentityAssumption, IdentityInvariant, UNCHANGED build, NEW p \in Providers, NEW t \in Tokens, Connect(p, t)
  PROVE  IdentityInvariant'
<1> USE DEF IdentityInvariant
<1>1. FolderTyped /\ RestTyped
  BY TypeParts
<1>2. /\ op' = Call("connect", "keychain", p, t) /\ answer' = None /\ told' = FALSE
      /\ asked' = (asked /\ TRUE \in durable.mark) /\ revoked' = revoked \ {t}
      /\ calls > 0 /\ calls' = calls - 1 /\ UNCHANGED <<faults, folder, durable, keychain, build>>
      /\ folder.mark = FALSE
  BY <1>1 DEF Connect, Spend, NoFault, SameFolder, FolderTyped, Folders
<1>3. op' \in Calls /\ op'.fn = "connect" /\ op'.at = "keychain" /\ op'.provider = p /\ op'.token = t /\ op'.intact
  BY <1>2 DEF Call, Calls
<1>4. TypeOK'
  <2>1. asked' \in BOOLEAN
    BY <1>1, <1>2 DEF RestTyped
  <2>2. FolderTyped'
    BY <1>1, <1>2 DEF FolderTyped
  <2>3. build' \in {"debug", "release"} /\ keychain' \in Secrets /\ revoked' \subseteq Tokens
    BY <1>1, <1>2 DEF RestTyped
  <2>4. faults' \in Nat /\ calls' \in Nat
    BY <1>1, <1>2 DEF RestTyped
  <2>5. told' \in BOOLEAN /\ answer' = None
    BY <1>2
  <2>6. RestTyped'
    BY <1>3, <2>1, <2>3, <2>4, <2>5, Zenon DEF RestTyped
  <2> QED
    BY <2>2, <2>6, TypeParts
<1>5. StoresAreSafe'
  <2>1. durable.mark # {TRUE}
    BY <1>1, <1>2 DEF FolderTyped
  <2>2. RevokedAreLocked'
    BY <1>2, <2>1 DEF StoresAreSafe, RevokedAreLocked, Stored
  <2> QED
    BY <1>2, <2>1, <2>2 DEF StoresAreSafe, DisconnectedIsClean, AccountsHaveCredentials, HasFallback
<1>6. CallIsSafe'
  BY <1>2, <1>3 DEF CallIsSafe, RevokedStayUnused, ConnectFits, CheckFits, CleanupFits, Connecting, Cleaning, Deleting, HasFallback
<1> QED
  BY <1>4, <1>5, <1>6

\* What the steps of a connect rely on.
LEMMA ConnectingFacts ==
  ASSUME IdentityAssumption, IdentityInvariant, op # None, op.at \in Connecting
  PROVE  /\ FolderTyped /\ RestTyped /\ op \in Calls /\ op.fn = "connect" /\ op.provider \in Providers
         /\ op.token \in Tokens /\ op.token \notin revoked /\ op.token # None /\ told = FALSE
         /\ op.intact /\ answer = None /\ (op.at \in {"stage", "publish"} => HasFallback)
         /\ (~HasFallback /\ op.at \in {"tidy", "verify", "write", "written"} => keychain[op.provider] # None)
BY TypeParts DEF IdentityInvariant, CallIsSafe, ConnectFits, CleanupFits, RestTyped, Connecting, IdentityAssumption

\* A connect that goes on to one of its steps is sound if a credential that must be there is.
LEMMA ConnectGoesOn ==
  ASSUME IdentityAssumption, IdentityInvariant, op # None, op.at \in Connecting, UNCHANGED build,
         NEW at \in Connecting, Goto(at), at \in {"stage", "publish"} => HasFallback,
         ~HasFallback /\ at \in {"tidy", "verify", "write", "written"} => keychain'[op.provider] # None
  PROVE  CallIsSafe' /\ op' \in Calls /\ UNCHANGED <<answer, told, asked, revoked, calls>>
<1>1. at \in Steps
  BY DEF Steps
<1>2. /\ op' \in Calls /\ op'.at = at /\ op'.fn = op.fn /\ op'.provider = op.provider /\ op'.token = op.token
      /\ op'.intact = op.intact /\ answer = None /\ UNCHANGED <<answer, told, asked, revoked, calls>>
      /\ RevokedStayUnused'
  BY <1>1, Gone
<1> QED
  BY <1>2, ConnectingFacts DEF CallIsSafe, ConnectFits, CheckFits, CleanupFits, Connecting, Cleaning, Deleting, HasFallback

\* Storing a token that is not revoked, and taking away none, is safe.
LEMMA TokenStored ==
  ASSUME IdentityAssumption, IdentityInvariant, op # None, op.at \in Connecting, SameFolder, UNCHANGED <<build, told, asked, revoked>>,
         keychain' \in {keychain, [keychain EXCEPT ![op.provider] = op.token]}
  PROVE  StoresAreSafe' /\ keychain' \in Secrets
<1> USE DEF IdentityInvariant, StoresAreSafe, SameFolder
<1>1. /\ keychain \in Secrets /\ op.provider \in Providers /\ op.token \in Tokens
      /\ op.token \notin revoked /\ op.token # None /\ told = FALSE
  BY ConnectingFacts DEF RestTyped
<1>2. /\ keychain' \in Secrets
      /\ \A p \in Providers : keychain'[p] = keychain[p] \/ keychain'[p] = op.token
  BY <1>1 DEF Secrets
<1>3. RevokedAreLocked'
  BY <1>1, <1>2 DEF RevokedAreLocked, Stored
<1>4. AccountsHaveCredentials'
  BY <1>1, <1>2 DEF AccountsHaveCredentials, HasFallback
<1> QED
  BY <1>1, <1>2, <1>3, <1>4 DEF DisconnectedIsClean

\* The keychain is written, or the connect fails.
LEMMA SaveKeychainKeeps ==
  ASSUME IdentityAssumption, IdentityInvariant, UNCHANGED build, SaveKeychain
  PROVE  IdentityInvariant'
<1>1. op # None /\ op.at = "keychain" /\ op.at \in Connecting /\ SameFolder
  BY DEF SaveKeychain, At, Connecting
<1>2. /\ FolderTyped /\ RestTyped /\ op \in Calls /\ op.provider \in Providers
      /\ op.token \in Tokens /\ op.token # None
  BY <1>1, ConnectingFacts
<1>3. FolderTyped'
  BY <1>1, <1>2 DEF SameFolder, FolderTyped
<1>4. CASE keychain' = [keychain EXCEPT ![op.provider] = op.token] /\ NoFault /\ Goto("tidy")
  <2>1. keychain'[op.provider] # None
    BY <1>2, <1>4 DEF RestTyped, Secrets
  <2>2. CallIsSafe' /\ op' \in Calls /\ UNCHANGED <<answer, told, asked, revoked, calls>>
    BY <1>1, <1>4, <2>1, ConnectGoesOn DEF Connecting
  <2>3. StoresAreSafe' /\ keychain' \in Secrets
    BY <1>1, <1>4, <2>2, TokenStored
  <2> QED
    BY <1>2, <1>3, <1>4, <2>2, <2>3, TypeParts DEF RestTyped, NoFault, IdentityInvariant
<1>5. CASE /\ keychain' \in {keychain, [keychain EXCEPT ![op.provider] = op.token]} /\ Fault
           /\ IF HasFallback THEN Goto("stage") ELSE Fail
  <2>1. /\ CallIsSafe' /\ op' \in Calls \cup {None} /\ (answer' # None => answer'.value \in Tokens \cup {None, "error"})
        /\ UNCHANGED <<told, asked, revoked, calls>>
    <3>1. CASE HasFallback /\ Goto("stage")
      BY <1>1, <1>2, <3>1, ConnectGoesOn DEF Connecting, RestTyped
    <3>2. CASE Fail
      BY <1>1, <3>2, Failed
    <3> QED
      BY <1>5, <3>1, <3>2
  <2>2. StoresAreSafe' /\ keychain' \in Secrets
    BY <1>1, <1>5, <2>1, TokenStored
  <2> QED
    BY <1>2, <1>3, <1>5, <2>1, <2>2, TypeParts DEF RestTyped, Fault, IdentityInvariant
<1> QED
  BY <1>4, <1>5 DEF SaveKeychain

\* A connect may write its token, its account and what it stages into the folder.
LEMMA FolderWritten ==
  ASSUME IdentityAssumption, IdentityInvariant, op # None, op.at \in Connecting,
         UNCHANGED <<build, keychain, told, asked, revoked>>,
         NEW f \in Folders, f.mark = folder.mark,
         f.fallback \in {folder.fallback, [folder.fallback EXCEPT ![op.provider] = op.token]},
         f.account \in {folder.account, "torn"} \/ (f.account = op.provider /\ (HasFallback \/ keychain[op.provider] # None)),
         Put(f) \/ PutAndSync(f)
  PROVE  StoresAreSafe' /\ FolderTyped'
<1>1. /\ FolderTyped /\ RestTyped /\ op.provider \in Providers
      /\ op.token \in Tokens /\ op.token \notin revoked /\ op.token # None /\ told = FALSE
  BY ConnectingFacts
<1>2. /\ FolderTyped' /\ folder' = f
      /\ durable'.mark \subseteq durable.mark /\ durable'.account \subseteq durable.account \cup {f.account}
      /\ durable'.fallback \subseteq durable.fallback \cup {f.fallback}
  <2>1. f.mark \in durable.mark
    BY <1>1 DEF FolderTyped
  <2>2. CASE Put(f)
    BY <1>1, <2>1, <2>2, Putting
  <2>3. CASE PutAndSync(f)
    BY <1>1, <2>1, <2>3, Syncing
  <2> QED
    BY <2>2, <2>3
<1>3. durable.mark = {TRUE} => durable'.mark = {TRUE}
  BY <1>2 DEF FolderTyped
<1>4. RevokedAreLocked'
  <2>1. \A p \in Providers : f.fallback[p] = folder.fallback[p] \/ f.fallback[p] = op.token
    BY <1>1 DEF FolderTyped, Folders, Secrets
  <2>2. \A t \in revoked : Stored(t)' => Stored(t)
    BY <1>1, <1>2, <2>1 DEF Stored, FolderTyped
  <2> SUFFICES ASSUME NEW t \in revoked, Stored(t)' PROVE durable'.mark = {TRUE}
    BY DEF RevokedAreLocked
  <2> QED
    BY <2>2, <1>3 DEF IdentityInvariant, StoresAreSafe, RevokedAreLocked
<1>5. AccountsHaveCredentials'
  <2> SUFFICES ASSUME ~HasFallback PROVE AccountsHaveCredentials'
    BY DEF AccountsHaveCredentials, HasFallback
  <2>1. TRUE \in durable'.mark => asked'
    BY <1>2 DEF IdentityInvariant, StoresAreSafe, AccountsHaveCredentials
  <2>2. ASSUME NEW p \in durable'.account \cap Providers, keychain'[p] = None PROVE durable'.mark = {TRUE}
    <3>1. p \in durable.account
      BY <1>1, <1>2, <2>2 DEF Providers, FolderTyped
    <3> QED
      BY <1>3, <2>2, <3>1 DEF IdentityInvariant, StoresAreSafe, AccountsHaveCredentials
  <2> QED
    BY <2>1, <2>2 DEF AccountsHaveCredentials
<1>6. DisconnectedIsClean'
  BY <1>1 DEF DisconnectedIsClean
<1> QED
  BY <1>2, <1>4, <1>5, <1>6 DEF StoresAreSafe

\* A step of a connect that keeps the stores safe, and goes on or fails.
LEMMA ConnectStepKeeps ==
  ASSUME IdentityAssumption, IdentityInvariant, op # None, op.at \in Connecting, UNCHANGED <<build, keychain>>,
         FolderTyped', UNCHANGED <<told, asked, revoked>> => StoresAreSafe', faults' \in Nat,
         NEW at \in Connecting, Goto(at) \/ Fail, at \in {"stage", "publish"} => HasFallback,
         ~HasFallback /\ at \in {"tidy", "verify", "write", "written"} => keychain[op.provider] # None
  PROVE  IdentityInvariant'
<1>1. RestTyped /\ answer = None
  BY ConnectingFacts
<1>2. /\ CallIsSafe' /\ op' \in Calls \cup {None} /\ (answer' # None => answer'.value \in Tokens \cup {None, "error"})
      /\ UNCHANGED <<told, asked, revoked, calls>>
  <2>1. CASE Goto(at)
    BY <1>1, <2>1, ConnectGoesOn
  <2>2. CASE Fail
    BY <2>2, Failed
  <2> QED
    BY <2>1, <2>2
<1>3. RestTyped'
  BY <1>1, <1>2 DEF RestTyped
<1> QED
  BY <1>2, <1>3, TypeParts DEF IdentityInvariant

\* The fallback is cleared once the keychain has the token.
LEMMA TidyKeeps == ASSUME IdentityAssumption, IdentityInvariant, UNCHANGED build, Tidy PROVE IdentityInvariant'
<1>1. op # None /\ op.at = "tidy" /\ op.at \in Connecting /\ UNCHANGED keychain
  BY DEF Tidy, At, Connecting
<1>2. FolderTyped /\ RestTyped /\ (~HasFallback => keychain[op.provider] # None)
  BY <1>1, ConnectingFacts
<1>3. Shrinks
  BY <1>2, ClearShrinks DEF Tidy
<1>4. UNCHANGED <<told, asked, revoked>> => StoresAreSafe'
  BY <1>1, <1>3, StoresShrink
<1>5. faults' \in Nat /\ (Goto("verify") \/ Fail)
  BY <1>2 DEF Tidy, Fault, NoFault, RestTyped
<1> QED
  BY <1>1, <1>2, <1>3, <1>4, <1>5, ConnectStepKeeps DEF Shrinks, Connecting

\* A copy of the fallback file is staged.
LEMMA StageKeeps == ASSUME IdentityAssumption, IdentityInvariant, UNCHANGED build, Stage PROVE IdentityInvariant'
<1>1. op # None /\ op.at = "stage" /\ op.at \in Connecting /\ UNCHANGED keychain
  BY DEF Stage, At, Connecting
<1>2. FolderTyped /\ RestTyped /\ HasFallback
  BY <1>1, ConnectingFacts
<1>3. faults' \in Nat /\ (Goto("publish") \/ Fail)
  BY <1>2 DEF Stage, Fault, NoFault, RestTyped
<1>4. FolderTyped' /\ (UNCHANGED <<told, asked, revoked>> => StoresAreSafe')
  <2>1. CASE Put([folder EXCEPT !.staged = TRUE])
    <3> DEFINE f == [folder EXCEPT !.staged = TRUE]
    <3>1. f \in Folders /\ f.mark = folder.mark /\ f.fallback = folder.fallback /\ f.account = folder.account
      BY <1>2 DEF FolderTyped, Folders
    <3>2. Put(f)
      BY <2>1
    <3> HIDE DEF f
    <3>3. FolderTyped'
      BY <1>2, <3>1, <3>2, Putting
    <3> QED
      BY <1>1, <3>1, <3>2, <3>3, FolderWritten
  <2>2. CASE SameFolder
    BY <1>1, <1>2, <2>2, SameShrinks, StoresShrink DEF Shrinks
  <2> QED
    BY <2>1, <2>2 DEF Stage
<1> QED
  BY <1>1, <1>2, <1>3, <1>4, ConnectStepKeeps DEF Connecting

\* The copy replaces the fallback file.
LEMMA PublishKeeps == ASSUME IdentityAssumption, IdentityInvariant, UNCHANGED build, Publish PROVE IdentityInvariant'
<1> DEFINE g == [folder EXCEPT !.fallback[op.provider] = op.token, !.staged = FALSE]
           h == [folder EXCEPT !.staged = FALSE]
<1>1. op # None /\ op.at = "publish" /\ op.at \in Connecting /\ UNCHANGED keychain
  BY DEF Publish, At, Connecting
<1>2. FolderTyped /\ RestTyped /\ op.provider \in Providers /\ op.token \in Tokens
  BY <1>1, ConnectingFacts
<1>3. /\ faults' \in Nat /\ (Goto("verify") \/ Fail)
      /\ PutAndSync(g) \/ Put(g) \/ Put(h)
  BY <1>2 DEF Publish, Fault, NoFault, RestTyped
<1>4. /\ g \in Folders /\ g.mark = folder.mark /\ g.account = folder.account
      /\ g.fallback = [folder.fallback EXCEPT ![op.provider] = op.token]
      /\ h \in Folders /\ h.mark = folder.mark /\ h.account = folder.account /\ h.fallback = folder.fallback
  BY <1>2 DEF FolderTyped, Folders, Secrets
<1> HIDE DEF g, h
<1>5. FolderTyped' /\ (UNCHANGED <<told, asked, revoked>> => StoresAreSafe')
  <2>1. CASE PutAndSync(g)
    BY <1>1, <1>2, <1>4, <2>1, FolderWritten, Syncing
  <2>2. CASE Put(g)
    BY <1>1, <1>2, <1>4, <2>2, FolderWritten, Putting
  <2>3. CASE Put(h)
    BY <1>1, <1>2, <1>4, <2>3, FolderWritten, Putting
  <2> QED
    BY <1>3, <2>1, <2>2, <2>3
<1>6. HasFallback
  BY <1>1, ConnectingFacts
<1> QED
  BY <1>1, <1>3, <1>5, <1>6, ConnectStepKeeps DEF Connecting

\* The token is read back.
LEMMA VerifyKeeps == ASSUME IdentityAssumption, IdentityInvariant, UNCHANGED build, Verify PROVE IdentityInvariant'
<1>1. op # None /\ op.at = "verify" /\ op.at \in Connecting /\ UNCHANGED keychain
  BY DEF Verify, At, Connecting
<1>2. FolderTyped /\ RestTyped /\ TypeOK /\ op.provider \in Providers /\ (~HasFallback => keychain[op.provider] # None)
  BY <1>1, ConnectingFacts DEF IdentityInvariant
<1>3. PICK r \in Tokens \cup {None, "error"} : ReadSecret(op.provider, r) /\ IF r = op.token THEN Goto("write") ELSE Fail
  BY DEF Verify
<1>4. Shrinks /\ faults' \in Nat
  BY <1>2, <1>3, Reading
<1>5. UNCHANGED <<told, asked, revoked>> => StoresAreSafe'
  BY <1>1, <1>4, StoresShrink
<1> QED
  BY <1>1, <1>2, <1>3, <1>4, <1>5, ConnectStepKeeps DEF Shrinks, Connecting

\* The account file is emptied.
LEMMA TruncateKeeps == ASSUME IdentityAssumption, IdentityInvariant, UNCHANGED build, Truncate PROVE IdentityInvariant'
<1> DEFINE f == [folder EXCEPT !.account = "torn"]
<1>1. op # None /\ op.at = "write" /\ op.at \in Connecting /\ UNCHANGED keychain
  BY DEF Truncate, At, Connecting
<1>2. FolderTyped /\ RestTyped /\ (~HasFallback => keychain[op.provider] # None)
  BY <1>1, ConnectingFacts
<1>3. faults' \in Nat /\ (Goto("written") \/ Fail) /\ (Put(f) \/ SameFolder)
  BY <1>2 DEF Truncate, Fault, NoFault, RestTyped
<1>4. f \in Folders /\ f.mark = folder.mark /\ f.fallback = folder.fallback /\ f.account = "torn"
  BY <1>2 DEF FolderTyped, Folders
<1> HIDE DEF f
<1>5. FolderTyped' /\ (UNCHANGED <<told, asked, revoked>> => StoresAreSafe')
  <2>1. CASE Put(f)
    BY <1>1, <1>2, <1>4, <2>1, FolderWritten, Putting
  <2>2. CASE SameFolder
    BY <1>1, <1>2, <2>2, SameShrinks, StoresShrink DEF Shrinks
  <2> QED
    BY <1>3, <2>1, <2>2
<1> QED
  BY <1>1, <1>2, <1>3, <1>5, ConnectStepKeeps DEF Connecting

\* The account is written, and the connect answers.
LEMMA WriteAccountKeeps == ASSUME IdentityAssumption, IdentityInvariant, UNCHANGED build, WriteAccount PROVE IdentityInvariant'
<1> DEFINE f == [folder EXCEPT !.account = op.provider]
<1>1. op # None /\ op.at = "written" /\ op.at \in Connecting /\ UNCHANGED keychain
  BY DEF WriteAccount, At, Connecting
<1>2. /\ FolderTyped /\ RestTyped /\ (~HasFallback => keychain[op.provider] # None)
      /\ op.provider \in Providers /\ op.token \in Tokens
  BY <1>1, ConnectingFacts
<1>3. f \in Folders /\ f.mark = folder.mark /\ f.fallback = folder.fallback /\ f.account = op.provider
  BY <1>2 DEF FolderTyped, Folders
<1>4. CASE Put(f) /\ Return(op.token) /\ UNCHANGED told /\ NoFault
  <2> HIDE DEF f
  <2>1. /\ CallIsSafe' /\ op' = None /\ answer'.value = op.token /\ UNCHANGED <<told, asked, revoked, calls>>
    BY <1>1, <1>2, <1>4, Returned
  <2>2. FolderTyped' /\ StoresAreSafe'
    BY <1>1, <1>2, <1>3, <1>4, <2>1, FolderWritten, Putting
  <2>3. RestTyped'
    BY <1>1, <1>2, <1>4, <2>1 DEF RestTyped, NoFault
  <2> QED
    BY <2>1, <2>2, <2>3, TypeParts DEF IdentityInvariant
<1>5. CASE SameFolder /\ Fail /\ Fault
  <2>1. faults' \in Nat
    BY <1>2, <1>5 DEF Fault, RestTyped
  <2>2. Shrinks
    BY <1>2, <1>5, SameShrinks
  <2>3. FolderTyped'
    BY <2>2 DEF Shrinks
  <2> QED
    BY <1>1, <1>2, <1>5, <2>1, <2>2, <2>3, StoresShrink, ConnectStepKeeps DEF Connecting
<1> QED
  BY <1>4, <1>5 DEF WriteAccount

-----------------------------------------------------------------------------
(* So does disconnecting. *)

\* A disconnect begins, or goes on where another was interrupted.
LEMMA DisconnectKeeps ==
  ASSUME IdentityAssumption, IdentityInvariant, UNCHANGED build, Disconnect
  PROVE  IdentityInvariant'
<1>1. FolderTyped /\ RestTyped
  BY TypeParts DEF IdentityInvariant
<1>2. /\ op' = Call("disconnect", IF folder.mark THEN "intent" ELSE "mark", None, None) /\ answer' = None
      /\ asked' = TRUE /\ calls > 0 /\ calls' = calls - 1
      /\ UNCHANGED <<faults, folder, durable, keychain, told, revoked>>
  BY DEF Disconnect, Spend, NoFault, SameFolder
<1>3. /\ op' \in Calls /\ op'.fn = "disconnect" /\ op'.intact /\ op'.at \in {"intent", "mark"}
      /\ (op'.at = "intent" => folder.mark)
  BY <1>2 DEF Call, Calls
<1>4. FolderTyped' /\ RestTyped'
  BY <1>1, <1>2, <1>3 DEF FolderTyped, RestTyped
<1>5. StoresAreSafe'
  BY <1>2 DEF IdentityInvariant, StoresAreSafe, RevokedAreLocked, Stored, DisconnectedIsClean, AccountsHaveCredentials, HasFallback
<1>6. CallIsSafe'
  BY <1>2, <1>3 DEF CallIsSafe, RevokedStayUnused, ConnectFits, CheckFits, CleanupFits, Connecting, Cleaning, Deleting
<1> QED
  BY <1>4, <1>5, <1>6, TypeParts DEF IdentityInvariant

\* What the steps of a clean-up rely on.
LEMMA CleaningFacts ==
  ASSUME IdentityInvariant, op # None, op.at \in Cleaning \cup {"mark", "intent"}
  PROVE  /\ FolderTyped /\ RestTyped /\ op \in Calls /\ answer = None
         /\ (~HasFallback => asked) /\ (op.at \in Cleaning => durable.mark = {TRUE} /\ folder.mark)
         /\ (op.at = "intent" => folder.mark) /\ (op.at \notin {"gitlab", "clear"} => op.intact)
         /\ (op.at \in {"gitlab", "clear"} /\ op.intact => keychain["github"] = None)
         /\ (op.at = "clear" /\ op.intact => keychain["gitlab"] = None)
         /\ (op.at \in {"forget", "unmark"} =>
               keychain = NoSecrets /\ durable.fallback = {NoSecrets} /\ durable.staged = {FALSE})
         /\ (op.at = "unmark" => durable.account = {None})
BY TypeParts DEF IdentityInvariant, CallIsSafe, CleanupFits, RestTyped, FolderTyped, Cleaning, Deleting

\* A step of a clean-up that keeps the stores safe and fails.
LEMMA CleanupFails ==
  ASSUME IdentityAssumption, IdentityInvariant, op # None, UNCHANGED build, Fail, FolderTyped', StoresAreSafe',
         keychain' \in Secrets, faults' \in Nat
  PROVE  IdentityInvariant'
<1>1. CallIsSafe' /\ op' = None /\ answer'.value = "error" /\ UNCHANGED <<told, asked, revoked, calls>>
  BY Failed
<1>2. RestTyped
  BY TypeParts DEF IdentityInvariant
<1>3. RestTyped'
  BY <1>1, <1>2 DEF RestTyped
<1> QED
  BY <1>1, <1>3, TypeParts DEF IdentityInvariant

\* Writing the mark is safe for whoever asked for it, in a build with a fallback for anybody.
LEMMA Marking ==
  ASSUME IdentityInvariant, ~HasFallback => asked, UNCHANGED <<build, keychain, told, asked, revoked>>,
         Put([folder EXCEPT !.mark = TRUE])
  PROVE  StoresAreSafe' /\ FolderTyped' /\ folder'.mark
<1> DEFINE f == [folder EXCEPT !.mark = TRUE]
<1>1. FolderTyped
  BY TypeParts DEF IdentityInvariant
<1>2. f \in Folders /\ f.mark = TRUE /\ f.account = folder.account /\ f.fallback = folder.fallback /\ f.staged = folder.staged
  BY <1>1 DEF FolderTyped, Folders
<1>3. Put(f)
  OBVIOUS
<1> HIDE DEF f
<1>4. /\ folder' = f /\ FolderTyped'
      /\ durable'.mark = durable.mark \cup {TRUE} /\ durable'.account = durable.account
      /\ durable'.fallback = durable.fallback /\ durable'.staged = durable.staged
  <2>1. /\ folder' = f /\ FolderTyped'
        /\ durable'.mark = durable.mark \cup {f.mark} /\ durable'.account = durable.account \cup {f.account}
        /\ durable'.fallback = durable.fallback \cup {f.fallback} /\ durable'.staged = durable.staged \cup {f.staged}
    BY <1>1, <1>2, <1>3, Putting
  <2>2. /\ folder.account \in durable.account /\ folder.fallback \in durable.fallback
        /\ folder.staged \in durable.staged
    BY <1>1 DEF FolderTyped
  <2> QED
    BY <1>2, <2>1, <2>2
<1>5. RevokedAreLocked'
  BY <1>4 DEF IdentityInvariant, StoresAreSafe, RevokedAreLocked, Stored
<1>6. DisconnectedIsClean' /\ AccountsHaveCredentials'
  BY <1>4 DEF IdentityInvariant, StoresAreSafe, DisconnectedIsClean, AccountsHaveCredentials, HasFallback
<1> QED
  BY <1>2, <1>4, <1>5, <1>6 DEF StoresAreSafe

\* The mark is written.
LEMMA MarkKeeps == ASSUME IdentityAssumption, IdentityInvariant, UNCHANGED build, Mark PROVE IdentityInvariant'
<1> DEFINE f == [folder EXCEPT !.mark = TRUE]
<1>1. op # None /\ op.at = "mark" /\ UNCHANGED keychain
  BY DEF Mark, At
<1>2. /\ FolderTyped /\ RestTyped /\ op \in Calls /\ (~HasFallback => asked) /\ op.intact
  BY <1>1, CleaningFacts
<1>3. CASE Put(f) /\ Goto("intent") /\ NoFault
  <2> HIDE DEF f
  <2>1. /\ op' \in Calls /\ op'.at = "intent" /\ op'.fn = op.fn /\ op'.intact
        /\ answer = None /\ UNCHANGED <<answer, told, asked, revoked, calls>> /\ RevokedStayUnused'
    BY <1>1, <1>2, <1>3, Gone DEF Steps
  <2>2. StoresAreSafe' /\ FolderTyped' /\ folder'.mark
    BY <1>1, <1>2, <1>3, <2>1, Marking DEF f
  <2>3. CallIsSafe'
    BY <1>2, <2>1, <2>2 DEF CallIsSafe, ConnectFits, CheckFits, CleanupFits, Connecting, Cleaning, Deleting, HasFallback
  <2>4. RestTyped'
    BY <1>1, <1>2, <1>3, <2>1 DEF RestTyped, NoFault
  <2> QED
    BY <2>2, <2>3, <2>4, TypeParts DEF IdentityInvariant
<1>4. CASE PutSome({f}) /\ Fail /\ Fault
  <2>1. UNCHANGED <<told, asked, revoked>>
    BY <1>1, <1>4, Failed
  <2>2. CASE Put(f)
    BY <1>1, <1>2, <1>4, <2>1, <2>2, Marking, CleanupFails DEF Fault, RestTyped
  <2>3. CASE Put(folder)
    <3>1. Shrinks
      <4>1. /\ folder \in Folders /\ folder.mark \in durable.mark /\ folder.account \in durable.account
            /\ folder.fallback \in durable.fallback /\ folder.staged \in durable.staged
        BY <1>2 DEF FolderTyped
      <4>2. /\ folder' = folder /\ FolderTyped'
            /\ durable'.mark = durable.mark \cup {folder.mark} /\ durable'.account = durable.account \cup {folder.account}
            /\ durable'.fallback = durable.fallback \cup {folder.fallback}
            /\ durable'.staged = durable.staged \cup {folder.staged}
        BY <1>2, <2>3, <4>1, Putting
      <4> QED
        BY <4>1, <4>2 DEF Shrinks
    <3>2. StoresAreSafe' /\ FolderTyped'
      BY <1>1, <2>1, <3>1, StoresShrink DEF Shrinks
    <3>3. faults' \in Nat /\ keychain' \in Secrets
      BY <1>1, <1>2, <1>4 DEF Fault, RestTyped
    <3> QED
      BY <1>1, <1>4, <3>2, <3>3, CleanupFails
  <2> QED
    BY <1>4, <2>2, <2>3 DEF PutSome
<1> QED
  BY <1>3, <1>4 DEF Mark

\* A durable mark, and from here on the tokens are revoked.
LEMMA SyncIntentKeeps ==
  ASSUME IdentityAssumption, IdentityInvariant, UNCHANGED build, SyncIntent
  PROVE  IdentityInvariant'
<1>1. op # None /\ op.at = "intent" /\ UNCHANGED keychain
  BY DEF SyncIntent, At
<1>2. /\ FolderTyped /\ RestTyped /\ op \in Calls /\ (~HasFallback => asked) /\ op.intact /\ folder.mark /\ answer = None
  BY <1>1, CleaningFacts
<1>3. CASE PutAndSync(folder) /\ Accept /\ NoFault
  <2>1. /\ op' = [op EXCEPT !.at = "github"] /\ UNCHANGED <<answer, told, asked, calls>>
        /\ revoked' = revoked \cup {t \in Tokens : \E p \in Providers : t \in {keychain[p], folder.fallback[p]}}
    BY <1>3 DEF Accept
  <2>2. op' \in Calls /\ op'.at = "github" /\ op'.fn = op.fn /\ op'.intact
    BY <1>2, <2>1 DEF Calls, Deleting
  <2>3. folder \in Folders /\ folder.mark = TRUE
    BY <1>2 DEF FolderTyped, Folders
  <2>4. /\ folder' = folder /\ FolderTyped'
        /\ durable'.mark = {TRUE} /\ durable'.fallback = {folder.fallback} /\ durable'.staged = {folder.staged}
        /\ durable'.account \subseteq {folder.account} \cup (durable.account \cap {"torn"})
        /\ folder.account = None => durable'.account = {None}
    BY <1>2, <1>3, <2>3, Syncing
  <2>5. StoresAreSafe'
    <3>1. RevokedAreLocked'
      BY <2>4 DEF RevokedAreLocked
    <3>2. DisconnectedIsClean'
      <4>1. /\ folder.account \in durable.account /\ folder.fallback \in durable.fallback
            /\ folder.staged \in durable.staged
        BY <1>2 DEF FolderTyped
      <4> SUFFICES ASSUME told
                   PROVE  /\ keychain' = NoSecrets /\ durable'.account = {None}
                          /\ durable'.fallback = {NoSecrets} /\ durable'.staged = {FALSE}
        BY <2>1 DEF DisconnectedIsClean
      <4>2. /\ keychain = NoSecrets /\ durable.account = {None}
            /\ durable.fallback = {NoSecrets} /\ durable.staged = {FALSE}
        BY DEF IdentityInvariant, StoresAreSafe, DisconnectedIsClean
      <4> QED
        BY <1>1, <2>4, <4>1, <4>2
    <3>3. AccountsHaveCredentials'
      BY <1>2, <2>1, <2>4 DEF AccountsHaveCredentials, HasFallback
    <3> QED
      BY <3>1, <3>2, <3>3 DEF StoresAreSafe
  <2>6. CallIsSafe'
    BY <1>2, <2>1, <2>2, <2>4
       DEF CallIsSafe, RevokedStayUnused, ConnectFits, CheckFits, CleanupFits, Connecting, Cleaning, Deleting, HasFallback
  <2>7. RestTyped'
    BY <1>1, <1>2, <1>3, <2>1, <2>2 DEF RestTyped, NoFault
  <2> QED
    BY <2>4, <2>5, <2>6, <2>7, TypeParts DEF IdentityInvariant
<1>4. CASE SameFolder /\ Fail /\ Fault
  <2>1. Shrinks /\ UNCHANGED <<told, asked, revoked>>
    BY <1>1, <1>2, <1>4, SameShrinks, Failed
  <2>2. faults' \in Nat
    BY <1>2, <1>4 DEF Fault, RestTyped
  <2>3. StoresAreSafe' /\ FolderTyped'
    BY <1>1, <2>1, StoresShrink DEF Shrinks
  <2> QED
    BY <1>1, <1>2, <1>4, <2>2, <2>3, CleanupFails DEF RestTyped
<1> QED
  BY <1>3, <1>4 DEF SyncIntent

\* A credential is deleted, or not; the other is tried all the same.
LEMMA DeleteSecretKeeps ==
  ASSUME IdentityAssumption, IdentityInvariant, UNCHANGED build,
         NEW p \in Providers, NEW next \in {"gitlab", "clear"}, (p = "github") <=> (next = "gitlab"), DeleteSecret(p, next)
  PROVE  IdentityInvariant'
<1>1. /\ op # None /\ op.at = p /\ op.at \in Deleting /\ UNCHANGED <<folder, durable, answer, told, asked, revoked, calls>>
      /\ p \in {"github", "gitlab"} /\ (p = "gitlab" <=> next = "clear")
  BY DEF DeleteSecret, At, Deleting, SameFolder, Providers
<1>2. /\ FolderTyped /\ RestTyped /\ op \in Calls /\ (~HasFallback => asked) /\ durable.mark = {TRUE} /\ answer = None
      /\ (p = "github" => op.intact) /\ (p = "gitlab" /\ op.intact => keychain["github"] = None)
  BY <1>1, CleaningFacts DEF Cleaning, Deleting
<1>3. /\ keychain' \in {keychain, [keychain EXCEPT ![p] = None]} /\ faults' \in Nat
      /\ op'.intact => keychain' = [keychain EXCEPT ![p] = None]
      /\ op'.intact => op.intact
      /\ op' \in Calls /\ op'.at = next
  <2>1. CASE keychain' = [keychain EXCEPT ![p] = None] /\ NoFault /\ op' = [op EXCEPT !.at = next]
    BY <1>2, <2>1 DEF NoFault, RestTyped, Calls, Deleting
  <2>2. CASE /\ keychain' \in {keychain, [keychain EXCEPT ![p] = None]} /\ Fault
             /\ op' = [op EXCEPT !.at = next, !.intact = FALSE]
    <3>1. op' \in Calls /\ op'.at = next /\ op'.intact = FALSE
      BY <1>2, <2>2 DEF Calls, Deleting
    <3>2. faults' \in Nat
      BY <1>2, <2>2 DEF Fault, RestTyped
    <3> QED
      BY <2>2, <3>1, <3>2
  <2> QED
    BY <2>1, <2>2 DEF DeleteSecret
<1>4. /\ keychain' \in Secrets
      /\ \A q \in Providers : keychain'[q] \in {keychain[q], None}
      /\ op'.intact => keychain'[p] = None
  BY <1>2, <1>3 DEF RestTyped, Secrets
<1>5. FolderTyped' /\ RestTyped'
  BY <1>1, <1>2, <1>3, <1>4 DEF FolderTyped, RestTyped
<1>6. StoresAreSafe'
  <2>1. RevokedAreLocked'
    BY <1>1, <1>2 DEF RevokedAreLocked
  <2>2. told => keychain' = NoSecrets
    BY <1>2, <1>3, <1>4 DEF IdentityInvariant, StoresAreSafe, DisconnectedIsClean, NoSecrets, Secrets
  <2>3. DisconnectedIsClean'
    BY <1>1, <2>2 DEF IdentityInvariant, StoresAreSafe, DisconnectedIsClean
  <2>4. AccountsHaveCredentials'
    BY <1>1, <1>2 DEF AccountsHaveCredentials, HasFallback
  <2> QED
    BY <2>1, <2>3, <2>4 DEF StoresAreSafe
<1>7. CallIsSafe'
  <2>1. op'.at = "clear" /\ op'.intact => keychain'["gitlab"] = None /\ keychain'["github"] = None
    BY <1>1, <1>2, <1>3, <1>4 DEF Providers
  <2>2. op'.at = "gitlab" /\ op'.intact => keychain'["github"] = None
    BY <1>1, <1>3, <1>4
  <2> QED
    BY <1>1, <1>2, <1>3, <2>1, <2>2
       DEF CallIsSafe, RevokedStayUnused, ConnectFits, CheckFits, CleanupFits, Connecting, Cleaning, Deleting, HasFallback
<1> QED
  BY <1>5, <1>6, <1>7, TypeParts DEF IdentityInvariant

\* The fallback is cleared, and the clean-up goes on if both credentials could be deleted.
LEMMA ClearFallbackKeeps ==
  ASSUME IdentityAssumption, IdentityInvariant, UNCHANGED build, ClearFallback
  PROVE  IdentityInvariant'
<1>1. op # None /\ op.at = "clear" /\ UNCHANGED keychain
  BY DEF ClearFallback, At
<1>2. /\ FolderTyped /\ RestTyped /\ op \in Calls /\ (~HasFallback => asked) /\ durable.mark = {TRUE} /\ folder.mark
      /\ answer = None /\ (op.intact => keychain["github"] = None /\ keychain["gitlab"] = None)
  BY <1>1, CleaningFacts DEF Cleaning, Deleting
<1>3. Shrinks /\ faults' \in Nat
  BY <1>2, ClearShrinks DEF ClearFallback, Fault, NoFault, RestTyped
<1>4. FolderTyped' /\ keychain' \in Secrets
  BY <1>1, <1>2, <1>3 DEF Shrinks, RestTyped
<1>5. CASE PutAndSync(Cleared) /\ NoFault /\ op.intact /\ Goto("forget")
  <2>1. /\ op' \in Calls /\ op'.at = "forget" /\ op'.fn = op.fn /\ op'.intact = op.intact
        /\ UNCHANGED <<answer, told, asked, revoked, calls>> /\ RevokedStayUnused'
    BY <1>1, <1>5, Gone DEF Steps, Cleaning
  <2>2. StoresAreSafe'
    BY <1>1, <1>3, <2>1, StoresShrink
  <2>3. Cleared \in Folders /\ Cleared.fallback = NoSecrets /\ Cleared.staged = FALSE /\ Cleared.mark = folder.mark
    BY <1>2, NoSecretsTyped DEF FolderTyped, Cleared, Folders
  <2>4. durable'.fallback = {NoSecrets} /\ durable'.staged = {FALSE} /\ durable'.mark = {TRUE}
    <3>1. folder.mark = TRUE
      BY <1>2 DEF FolderTyped
    <3> QED
      BY <1>2, <1>5, <2>3, <3>1, Syncing
  <2>5. keychain' = NoSecrets
    BY <1>1, <1>2, <1>5 DEF NoSecrets, RestTyped, Secrets, Providers
  <2>6. CallIsSafe'
    BY <1>2, <1>5, <2>1, <2>4, <2>5
       DEF CallIsSafe, ConnectFits, CheckFits, CleanupFits, Connecting, Cleaning, Deleting, HasFallback
  <2>7. RestTyped'
    BY <1>2, <1>3, <1>4, <2>1 DEF RestTyped
  <2> QED
    BY <1>4, <2>2, <2>6, <2>7, TypeParts DEF IdentityInvariant
<1>6. CASE Fail
  <2>1. UNCHANGED <<told, asked, revoked>>
    BY <1>1, <1>6, Failed
  <2>2. StoresAreSafe'
    BY <1>1, <1>3, <2>1, StoresShrink
  <2> QED
    BY <1>1, <1>3, <1>4, <1>6, <2>2, CleanupFails
<1> QED
  BY <1>5, <1>6 DEF ClearFallback

\* Whoever writes the folder during a clean-up whose tokens are gone leaves nothing behind.
LEMMA CleanFolder ==
  ASSUME IdentityAssumption, IdentityInvariant, op # None, op.at \in {"forget", "unmark"},
         UNCHANGED <<build, keychain, told, asked, revoked>>,
         NEW f \in Folders, f.fallback = folder.fallback, f.staged = folder.staged,
         f.mark = folder.mark \/ op.at = "unmark", f.account \in {folder.account, None},
         Put(f) \/ PutAndSync(f)
  PROVE  /\ FolderTyped' /\ StoresAreSafe' /\ folder' = f
         /\ durable'.fallback = {NoSecrets} /\ durable'.staged = {FALSE}
<1>1. /\ FolderTyped /\ RestTyped /\ (~HasFallback => asked) /\ durable.mark = {TRUE}
      /\ keychain = NoSecrets /\ durable.fallback = {NoSecrets} /\ durable.staged = {FALSE}
      /\ (op.at = "unmark" => durable.account = {None})
  BY CleaningFacts DEF Cleaning
<1>2. /\ folder.fallback \in durable.fallback /\ folder.staged \in durable.staged
      /\ folder.mark \in durable.mark /\ folder.account \in durable.account
  BY <1>1 DEF FolderTyped
<1>3. f.fallback = NoSecrets /\ f.staged = FALSE
  BY <1>1, <1>2
<1>4. /\ FolderTyped' /\ folder' = f
      /\ durable'.fallback = {NoSecrets} /\ durable'.staged = {FALSE}
      /\ durable'.mark \subseteq durable.mark \cup {f.mark} /\ durable'.account \subseteq durable.account \cup {f.account}
  <2>1. CASE Put(f)
    BY <1>1, <1>3, <2>1, Putting
  <2>2. CASE PutAndSync(f)
    BY <1>1, <1>3, <2>2, Syncing
  <2> QED
    BY <2>1, <2>2
<1>5. \A t \in Tokens : ~Stored(t)'
  BY <1>1, <1>4 DEF Stored, NoSecrets, IdentityAssumption
<1>6. RevokedAreLocked'
  BY <1>1, <1>5 DEF RevokedAreLocked, RestTyped
<1>7. DisconnectedIsClean'
  <2> SUFFICES ASSUME told PROVE durable'.account = {None}
    BY <1>1, <1>4 DEF DisconnectedIsClean
  <2>1. durable.account = {None}
    BY DEF IdentityInvariant, StoresAreSafe, DisconnectedIsClean
  <2>2. durable'.account \subseteq {None} /\ folder'.account \in durable'.account
    BY <1>2, <1>4, <2>1 DEF FolderTyped
  <2> QED
    BY <2>2
<1>8. AccountsHaveCredentials'
  <2> SUFFICES ASSUME ~HasFallback, NEW p \in durable'.account \cap Providers PROVE durable'.mark = {TRUE}
    BY <1>1 DEF AccountsHaveCredentials, HasFallback
  <2>1. None \notin Providers
    BY DEF IdentityAssumption
  <2>2. op.at # "unmark"
    BY <1>1, <1>2, <1>4, <2>1
  <2>3. durable'.mark \subseteq {TRUE}
    BY <1>1, <1>2, <1>4, <2>2
  <2> QED
    BY <1>4, <2>3 DEF FolderTyped
<1> QED
  BY <1>4, <1>6, <1>7, <1>8 DEF StoresAreSafe

\* The account is forgotten.
LEMMA ForgetAccountKeeps ==
  ASSUME IdentityAssumption, IdentityInvariant, UNCHANGED build, ForgetAccount
  PROVE  IdentityInvariant'
<1> DEFINE f == [folder EXCEPT !.account = None]
<1>1. op # None /\ op.at = "forget" /\ UNCHANGED keychain
  BY DEF ForgetAccount, At
<1>2. /\ FolderTyped /\ RestTyped /\ op \in Calls /\ (~HasFallback => asked) /\ durable.mark = {TRUE} /\ folder.mark
      /\ answer = None /\ op.intact /\ keychain = NoSecrets
  BY <1>1, CleaningFacts DEF Cleaning, Deleting
<1>3. /\ faults' \in Nat
      /\ (PutAndSync(f) /\ Goto("unmark")) \/ ((Put(f) \/ Put(folder)) /\ Fail)
  BY <1>2 DEF ForgetAccount, Fault, NoFault, RestTyped, PutSome
<1>4. /\ f \in Folders /\ f.mark = folder.mark /\ f.fallback = folder.fallback /\ f.staged = folder.staged /\ f.account = None
      /\ folder \in Folders /\ folder.mark = TRUE
  BY <1>2 DEF FolderTyped, Folders
<1> HIDE DEF f
<1>5. CASE PutAndSync(f) /\ Goto("unmark")
  <2>1. /\ op' \in Calls /\ op'.at = "unmark" /\ op'.fn = op.fn /\ op'.intact = op.intact
        /\ UNCHANGED <<answer, told, asked, revoked, calls>> /\ RevokedStayUnused'
    BY <1>1, <1>5, Gone DEF Steps, Cleaning
  <2>2. FolderTyped' /\ StoresAreSafe' /\ durable'.fallback = {NoSecrets} /\ durable'.staged = {FALSE}
    BY <1>1, <1>4, <1>5, <2>1, CleanFolder
  <2>3. durable'.account = {None} /\ durable'.mark = {TRUE}
    BY <1>2, <1>4, <1>5, Syncing
  <2>4. CallIsSafe'
    BY <1>1, <1>2, <2>1, <2>2, <2>3
       DEF CallIsSafe, ConnectFits, CheckFits, CleanupFits, Connecting, Cleaning, Deleting, HasFallback
  <2>5. RestTyped'
    BY <1>1, <1>2, <1>3, <2>1 DEF RestTyped
  <2> QED
    BY <2>2, <2>4, <2>5, TypeParts DEF IdentityInvariant
<1>6. CASE (Put(f) \/ Put(folder)) /\ Fail
  <2>1. UNCHANGED <<told, asked, revoked>>
    BY <1>1, <1>6, Failed
  <2>2. FolderTyped' /\ StoresAreSafe'
    BY <1>1, <1>4, <1>6, <2>1, CleanFolder
  <2> QED
    BY <1>1, <1>2, <1>3, <1>6, <2>2, CleanupFails DEF RestTyped
<1> QED
  BY <1>3, <1>5, <1>6

\* The mark goes last, and the disconnect answers.
LEMMA UnmarkKeeps ==
  ASSUME IdentityAssumption, IdentityInvariant, UNCHANGED build, Unmark
  PROVE  IdentityInvariant'
<1> DEFINE f == [folder EXCEPT !.mark = FALSE]
<1>1. op # None /\ op.at = "unmark" /\ UNCHANGED keychain
  BY DEF Unmark, At
<1>2. /\ FolderTyped /\ RestTyped /\ op \in Calls /\ (~HasFallback => asked) /\ durable.account = {None}
      /\ keychain = NoSecrets
  BY <1>1, CleaningFacts DEF Cleaning, Deleting
<1>3. /\ faults' \in Nat
      /\ (PutAndSync(f) /\ Return(None) /\ told' = TRUE) \/ ((Put(f) \/ Put(folder)) /\ Fail)
  BY <1>2 DEF Unmark, Fault, NoFault, RestTyped, PutSome
<1>4. /\ f \in Folders /\ f.mark = FALSE /\ f.fallback = folder.fallback /\ f.staged = folder.staged
      /\ f.account = folder.account /\ folder \in Folders /\ folder.account = None
  BY <1>2 DEF FolderTyped, Folders
<1> HIDE DEF f
<1>5. CASE PutAndSync(f) /\ Return(None) /\ told' = TRUE
  <2>1. /\ CallIsSafe' /\ op' = None /\ answer'.value = None /\ UNCHANGED <<asked, revoked, calls>>
    BY <1>1, <1>5, Returned
  <2>2. /\ FolderTyped' /\ folder' = f /\ durable'.account = {None} /\ durable'.mark = {FALSE}
        /\ durable'.fallback = {folder.fallback} /\ durable'.staged = {folder.staged}
    BY <1>2, <1>4, <1>5, Syncing
  <2>3. folder.fallback = NoSecrets /\ folder.staged = FALSE
    BY <1>1, CleaningFacts DEF FolderTyped, Cleaning
  <2>4. DisconnectedIsClean'
    BY <1>1, <1>2, <2>2, <2>3 DEF DisconnectedIsClean
  <2>5. RevokedAreLocked'
    <3>1. \A t \in Tokens : ~Stored(t)'
      BY <1>1, <1>2, <2>2, <2>3 DEF Stored, NoSecrets, IdentityAssumption
    <3> QED
      BY <1>2, <2>1, <3>1 DEF RevokedAreLocked, RestTyped
  <2>6. AccountsHaveCredentials'
    BY <2>2 DEF AccountsHaveCredentials, IdentityAssumption
  <2>7. RestTyped'
    BY <1>1, <1>2, <1>3, <1>5, <2>1 DEF RestTyped
  <2> QED
    BY <2>1, <2>2, <2>4, <2>5, <2>6, <2>7, TypeParts DEF IdentityInvariant, StoresAreSafe
<1>6. CASE (Put(f) \/ Put(folder)) /\ Fail
  <2>1. UNCHANGED <<told, asked, revoked>>
    BY <1>1, <1>6, Failed
  <2>2. FolderTyped' /\ StoresAreSafe'
    BY <1>1, <1>4, <1>6, <2>1, CleanFolder
  <2> QED
    BY <1>1, <1>2, <1>3, <1>6, <2>2, CleanupFails DEF RestTyped
<1> QED
  BY <1>3, <1>5, <1>6

-----------------------------------------------------------------------------
(* Reading, and the rest of the world. *)

\* The window asks for the account, and a clean-up that was interrupted goes on.
LEMMA RefreshKeeps ==
  ASSUME IdentityAssumption, IdentityInvariant, UNCHANGED build, Refresh
  PROVE  IdentityInvariant'
<1>1. FolderTyped /\ RestTyped /\ folder.mark \in BOOLEAN /\ folder.mark \in durable.mark
  BY TypeParts DEF IdentityInvariant, FolderTyped, Folders
<1>2. /\ op' = IF folder.mark THEN Call("account", "intent", None, None)
               ELSE Call("account", "check", folder.account, None)
      /\ folder.mark \/ folder.account \in Providers
      /\ answer' = None /\ UNCHANGED <<faults, folder, durable, keychain, told, asked, revoked, calls>>
  BY DEF Refresh, NoFault, SameFolder
<1>3. /\ op' \in Calls /\ op'.fn = "account" /\ op'.intact /\ op'.at \in {"intent", "check"}
      /\ op'.at = "intent" => folder.mark
      /\ op'.at = "check" => ~folder.mark /\ op'.provider = folder.account /\ folder.account \in Providers
  <2>1. CASE folder.mark
    BY <1>2, <2>1 DEF Call, Calls
  <2>2. CASE ~folder.mark
    BY <1>2, <2>2 DEF Call, Calls
  <2> QED
    BY <2>1, <2>2
<1>4. FolderTyped' /\ RestTyped'
  BY <1>1, <1>2, <1>3 DEF FolderTyped, RestTyped
<1>5. StoresAreSafe'
  BY <1>2 DEF IdentityInvariant, StoresAreSafe, RevokedAreLocked, Stored, DisconnectedIsClean, AccountsHaveCredentials, HasFallback
<1>6. ~HasFallback /\ folder.mark => asked
  <2> SUFFICES ASSUME ~HasFallback, folder.mark PROVE asked
    OBVIOUS
  <2>1. TRUE \in durable.mark
    BY <1>1
  <2> QED
    BY <2>1 DEF IdentityInvariant, StoresAreSafe, AccountsHaveCredentials
<1>7. CallIsSafe'
  BY <1>2, <1>3, <1>6
     DEF CallIsSafe, RevokedStayUnused, ConnectFits, CheckFits, CleanupFits, Connecting, Cleaning, Deleting, HasFallback
<1> QED
  BY <1>4, <1>5, <1>7, TypeParts DEF IdentityInvariant

\* An account is read; without a fallback none is found without its credential.
LEMMA CheckSecretKeeps ==
  ASSUME IdentityAssumption, IdentityInvariant, UNCHANGED build, CheckSecret
  PROVE  IdentityInvariant'
<1>1. op # None /\ op.at = "check" /\ UNCHANGED keychain
  BY DEF CheckSecret, At
<1>2. /\ FolderTyped /\ RestTyped /\ TypeOK /\ op \in Calls /\ answer = None /\ op.intact
      /\ op.provider = folder.account /\ op.provider \in Providers /\ ~folder.mark
  BY <1>1, TypeParts DEF IdentityInvariant, CallIsSafe, CheckFits, CleanupFits, RestTyped
<1>3. PICK r \in Tokens \cup {None, "error"} :
        /\ ReadSecret(op.provider, r)
        /\ CASE r = None -> Goto("mark") [] r = "error" -> Fail [] OTHER -> Return(r) /\ UNCHANGED told
  BY DEF CheckSecret
<1>4. Shrinks /\ faults' \in Nat /\ (r = None => keychain[op.provider] = None)
  BY <1>2, <1>3, Reading
<1>5. /\ UNCHANGED <<told, asked, revoked>> => StoresAreSafe'
      /\ FolderTyped' /\ keychain' \in Secrets
  BY <1>1, <1>2, <1>4, StoresShrink DEF Shrinks, RestTyped
<1>6. CASE Goto("mark") /\ r = None
  <2>1. /\ op' \in Calls /\ op'.at = "mark" /\ op'.fn = op.fn /\ op'.intact
        /\ UNCHANGED <<answer, told, asked, revoked, calls>> /\ RevokedStayUnused'
    BY <1>1, <1>2, <1>6, Gone DEF Steps
  <2>2. HasFallback
    <3> SUFFICES ASSUME ~HasFallback PROVE FALSE
      OBVIOUS
    <3>1. op.provider \in durable.account \cap Providers /\ keychain[op.provider] = None
      BY <1>2, <1>4, <1>6 DEF FolderTyped
    <3>2. durable.mark = {TRUE}
      BY <3>1 DEF IdentityInvariant, StoresAreSafe, AccountsHaveCredentials
    <3> QED
      BY <1>2, <3>2 DEF FolderTyped
  <2>3. CallIsSafe'
    BY <1>2, <2>1, <2>2
       DEF CallIsSafe, ConnectFits, CheckFits, CleanupFits, Connecting, Cleaning, Deleting, HasFallback
  <2>4. RestTyped'
    BY <1>2, <1>4, <1>5, <2>1 DEF RestTyped
  <2> QED
    BY <1>5, <2>1, <2>3, <2>4, TypeParts DEF IdentityInvariant
<1>7. CASE Fail \/ (Return(r) /\ UNCHANGED told)
  <2>1. /\ CallIsSafe' /\ op' = None /\ answer'.value \in {r, "error"} /\ UNCHANGED <<told, asked, revoked, calls>>
    BY <1>1, <1>2, <1>7, Failed, Returned
  <2>2. RestTyped'
    BY <1>2, <1>4, <1>5, <2>1 DEF RestTyped
  <2> QED
    BY <1>5, <2>1, <2>2, TypeParts DEF IdentityInvariant
<1>8. "error" # None
  BY DEF IdentityAssumption
<1> QED
  BY <1>3, <1>6, <1>7, <1>8

\* A token is handed out while no disconnect is unfinished, so none that is revoked.
LEMMA GetTokenKeeps ==
  ASSUME IdentityAssumption, IdentityInvariant, UNCHANGED build, NEW p \in Providers, GetToken(p)
  PROVE  IdentityInvariant'
<1>1. FolderTyped /\ RestTyped /\ TypeOK
  BY TypeParts DEF IdentityInvariant
<1>2. /\ op = None /\ ~folder.mark /\ calls > 0 /\ calls' = calls - 1
      /\ UNCHANGED <<keychain, op, told, asked, revoked>>
  BY DEF GetToken, Spend
<1>3. PICK r \in Tokens \cup {None, "error"} :
        ReadSecret(p, r) /\ answer' = [fn |-> "token", value |-> IF r = None THEN "error" ELSE r]
  BY DEF GetToken
<1>4. Shrinks /\ faults' \in Nat /\ (r \in Tokens => (keychain[p] = r \/ folder.fallback[p] = r))
  BY <1>1, <1>3, Reading
<1>5. StoresAreSafe' /\ FolderTyped'
  BY <1>2, <1>4, StoresShrink DEF Shrinks
<1>6. answer'.value \notin revoked'
  <2>1. ASSUME r \in revoked, r \in Tokens PROVE FALSE
    <3>1. Stored(r)
      BY <1>1, <1>4, <2>1 DEF Stored, FolderTyped
    <3>2. durable.mark = {TRUE}
      BY <2>1, <3>1 DEF IdentityInvariant, StoresAreSafe, RevokedAreLocked
    <3> QED
      BY <1>1, <1>2, <3>2 DEF FolderTyped
  <2>2. "error" \notin revoked
    BY <1>1 DEF RestTyped, IdentityAssumption
  <2> QED
    BY <1>1, <1>2, <1>3, <2>1, <2>2 DEF RestTyped
<1>7. answer'.value \in Tokens \cup {None, "error"}
  BY <1>3
<1>8. RestTyped'
  BY <1>1, <1>2, <1>4, <1>7 DEF RestTyped
<1>9. CallIsSafe'
  BY <1>2, <1>6 DEF CallIsSafe, RevokedStayUnused, ConnectFits, CheckFits, CleanupFits
<1> QED
  BY <1>5, <1>8, <1>9, TypeParts DEF IdentityInvariant

\* The process ends.
LEMMA CrashKeeps == ASSUME IdentityInvariant, UNCHANGED build, Crash PROVE IdentityInvariant'
<1>1. FolderTyped /\ RestTyped
  BY TypeParts DEF IdentityInvariant
<1>2. /\ op' = None /\ answer' = None /\ faults' \in Nat
      /\ UNCHANGED <<folder, durable, keychain, told, asked, revoked, calls>>
  BY <1>1 DEF Crash, SameFolder, Fault, RestTyped
<1>3. FolderTyped' /\ RestTyped'
  BY <1>1, <1>2 DEF FolderTyped, RestTyped
<1>4. StoresAreSafe'
  BY <1>2 DEF IdentityInvariant, StoresAreSafe, RevokedAreLocked, Stored, DisconnectedIsClean, AccountsHaveCredentials, HasFallback
<1>5. CallIsSafe'
  BY <1>2 DEF CallIsSafe, RevokedStayUnused, ConnectFits, CheckFits, CleanupFits
<1> QED
  BY <1>3, <1>4, <1>5, TypeParts DEF IdentityInvariant

\* What can be left of the disk is what it may have been: whether the power fails or all is written back.
LEMMA DiskNarrows ==
  ASSUME IdentityInvariant, UNCHANGED <<build, keychain, told, asked, revoked>>,
         NEW f \in Folders, \A file \in Files : f[file] \in durable[file],
         folder' = f, durable' = [file \in Files |-> {f[file]}]
  PROVE  /\ FolderTyped' /\ StoresAreSafe'
         /\ durable'.mark \subseteq durable.mark /\ durable'.account \subseteq durable.account
         /\ durable'.fallback \subseteq durable.fallback /\ durable'.staged \subseteq durable.staged
         /\ durable'.mark # {} /\ durable'.account # {} /\ durable'.fallback # {} /\ durable'.staged # {}
<1>1. FolderTyped
  BY TypeParts DEF IdentityInvariant
<1>2. /\ DOMAIN durable' = Files
      /\ durable'.mark = {f.mark} /\ durable'.account = {f.account}
      /\ durable'.fallback = {f.fallback} /\ durable'.staged = {f.staged}
      /\ f.mark \in durable.mark /\ f.account \in durable.account
      /\ f.fallback \in durable.fallback /\ f.staged \in durable.staged
  BY DEF Files
<1>3. FolderTyped'
  BY <1>1, <1>2 DEF FolderTyped
<1>4. RevokedAreLocked'
  <2> SUFFICES ASSUME NEW t \in revoked, Stored(t)' PROVE durable'.mark = {TRUE}
    BY DEF RevokedAreLocked
  <2>1. Stored(t)
    BY <1>2 DEF Stored
  <2> QED
    BY <1>2, <2>1 DEF IdentityInvariant, StoresAreSafe, RevokedAreLocked
<1>5. DisconnectedIsClean'
  BY <1>2 DEF IdentityInvariant, StoresAreSafe, DisconnectedIsClean
<1>6. AccountsHaveCredentials'
  BY <1>2 DEF IdentityInvariant, StoresAreSafe, AccountsHaveCredentials, HasFallback
<1> QED
  BY <1>2, <1>3, <1>4, <1>5, <1>6 DEF StoresAreSafe

\* A loss of power.
LEMMA PowerFailureKeeps == ASSUME IdentityInvariant, UNCHANGED build, PowerFailure PROVE IdentityInvariant'
<1>1. RestTyped
  BY TypeParts DEF IdentityInvariant
<1>2. op' = None /\ answer' = None /\ faults' \in Nat /\ UNCHANGED <<keychain, told, asked, revoked, calls>>
  BY <1>1 DEF PowerFailure, Fault, RestTyped
<1>3. PICK f \in Folders :
        (\A file \in Files : f[file] \in durable[file]) /\ folder' = f /\ durable' = [file \in Files |-> {f[file]}]
  BY DEF PowerFailure
<1>4. FolderTyped' /\ StoresAreSafe'
  BY <1>2, <1>3, DiskNarrows
<1>5. RestTyped' /\ CallIsSafe'
  BY <1>1, <1>2 DEF RestTyped, CallIsSafe, RevokedStayUnused, ConnectFits, CheckFits, CleanupFits
<1> QED
  BY <1>4, <1>5, TypeParts DEF IdentityInvariant

\* Everything is written back.
LEMMA FlushKeeps == ASSUME IdentityInvariant, UNCHANGED build, Flush PROVE IdentityInvariant'
<1>1. /\ RestTyped /\ folder \in Folders /\ \A file \in Files : folder[file] \in durable[file]
  BY TypeParts DEF IdentityInvariant, TypeOK
<1>2. /\ durable' = [file \in Files |-> {folder[file]}]
      /\ UNCHANGED <<keychain, folder, op, answer, told, asked, revoked, faults, calls>>
  BY DEF Flush
<1>3. /\ FolderTyped' /\ StoresAreSafe'
      /\ durable'.mark \subseteq durable.mark /\ durable'.account \subseteq durable.account
      /\ durable'.fallback \subseteq durable.fallback /\ durable'.staged \subseteq durable.staged
      /\ durable'.mark # {} /\ durable'.account # {} /\ durable'.fallback # {} /\ durable'.staged # {}
  BY <1>1, <1>2, DiskNarrows
<1>4. RestTyped'
  BY <1>1, <1>2 DEF RestTyped
<1>5. CallIsSafe'
  <2>1. /\ (durable.mark = {TRUE} => durable'.mark = {TRUE}) /\ (durable.account = {None} => durable'.account = {None})
        /\ (durable.fallback = {NoSecrets} => durable'.fallback = {NoSecrets})
        /\ (durable.staged = {FALSE} => durable'.staged = {FALSE})
    BY <1>3
  <2>2. CleanupFits'
    BY <1>2, <2>1 DEF IdentityInvariant, CallIsSafe, CleanupFits, HasFallback
  <2> QED
    BY <1>2, <2>2 DEF IdentityInvariant, CallIsSafe, RevokedStayUnused, ConnectFits, CheckFits, HasFallback
<1> QED
  BY <1>3, <1>4, <1>5, TypeParts DEF IdentityInvariant

-----------------------------------------------------------------------------
(* The theorems. *)

\* Nothing is stored at first.
LEMMA IdentityInvariantInit == ASSUME IdentityAssumption, Init PROVE IdentityInvariant
<1>1. folder \in Folders
  BY NoSecretsTyped DEF Init, Folders
<1>2. /\ durable.mark = {FALSE} /\ durable.account = {None} /\ durable.fallback = {NoSecrets} /\ durable.staged = {FALSE}
      /\ DOMAIN durable = Files
      /\ folder.mark = FALSE /\ folder.account = None /\ folder.fallback = NoSecrets /\ folder.staged = FALSE
  BY DEF Init, Files
<1>3. FolderTyped
  BY <1>1, <1>2, NoSecretsTyped DEF FolderTyped
<1>4. RestTyped
  BY NoSecretsTyped DEF Init, RestTyped, IdentityAssumption
<1>5. StoresAreSafe
  BY <1>2 DEF Init, StoresAreSafe, RevokedAreLocked, DisconnectedIsClean, AccountsHaveCredentials, IdentityAssumption
<1>6. CallIsSafe
  BY DEF Init, CallIsSafe, RevokedStayUnused, ConnectFits, CheckFits, CleanupFits
<1> QED
  BY <1>3, <1>4, <1>5, <1>6, TypeParts DEF IdentityInvariant

\* No step of a call, of the disk or of a crash breaks the invariant.
LEMMA IdentityInvariantStep ==
  ASSUME IdentityAssumption, IdentityInvariant, [Next]_vars
  PROVE  IdentityInvariant'
<1>1. CASE UNCHANGED vars
  <2>1. TypeOK'
    BY <1>1 DEF IdentityInvariant, TypeOK, vars
  <2>2. StoresAreSafe'
    BY <1>1 DEF IdentityInvariant, StoresAreSafe, RevokedAreLocked, Stored, DisconnectedIsClean, AccountsHaveCredentials,
      HasFallback, vars
  <2>3. CallIsSafe'
    BY <1>1 DEF IdentityInvariant, CallIsSafe, RevokedStayUnused, ConnectFits, CheckFits, CleanupFits, HasFallback, vars
  <2> QED
    BY <2>1, <2>2, <2>3 DEF IdentityInvariant
<1>2. CASE UNCHANGED build /\ Step
  <2>1. CASE SaveKeychain
    BY <1>2, <2>1, SaveKeychainKeeps
  <2>2. CASE Tidy
    BY <1>2, <2>2, TidyKeeps
  <2>3. CASE Stage
    BY <1>2, <2>3, StageKeeps
  <2>4. CASE Publish
    BY <1>2, <2>4, PublishKeeps
  <2>5. CASE Verify
    BY <1>2, <2>5, VerifyKeeps
  <2>6. CASE Truncate
    BY <1>2, <2>6, TruncateKeeps
  <2>7. CASE WriteAccount
    BY <1>2, <2>7, WriteAccountKeeps
  <2>8. CASE Mark
    BY <1>2, <2>8, MarkKeeps
  <2>9. CASE SyncIntent
    BY <1>2, <2>9, SyncIntentKeeps
  <2>10. CASE DeleteSecret("github", "gitlab")
    BY <1>2, <2>10, DeleteSecretKeeps DEF Providers
  <2>11. CASE DeleteSecret("gitlab", "clear")
    BY <1>2, <2>11, DeleteSecretKeeps DEF Providers
  <2>12. CASE ClearFallback
    BY <1>2, <2>12, ClearFallbackKeeps
  <2>13. CASE ForgetAccount
    BY <1>2, <2>13, ForgetAccountKeeps
  <2>14. CASE Unmark
    BY <1>2, <2>14, UnmarkKeeps
  <2>15. CASE CheckSecret
    BY <1>2, <2>15, CheckSecretKeeps
  <2> QED
    BY <1>2, <2>1, <2>2, <2>3, <2>4, <2>5, <2>6, <2>7, <2>8, <2>9, <2>10, <2>11, <2>12, <2>13, <2>14, <2>15 DEF Step
<1>3. ASSUME UNCHANGED build, NEW p \in Providers, NEW t \in Tokens, Connect(p, t) PROVE IdentityInvariant'
  BY <1>3, ConnectKeeps
<1>4. ASSUME UNCHANGED build, NEW p \in Providers, GetToken(p) PROVE IdentityInvariant'
  BY <1>4, GetTokenKeeps
<1>5. CASE UNCHANGED build /\ Disconnect
  BY <1>5, DisconnectKeeps
<1>6. CASE UNCHANGED build /\ Refresh
  BY <1>6, RefreshKeeps
<1>7. CASE UNCHANGED build /\ Crash
  BY <1>7, CrashKeeps
<1>8. CASE UNCHANGED build /\ PowerFailure
  BY <1>8, PowerFailureKeeps
<1>9. CASE UNCHANGED build /\ Flush
  BY <1>9, FlushKeeps
<1> QED
  BY <1>1, <1>2, <1>3, <1>4, <1>5, <1>6, <1>7, <1>8, <1>9 DEF Next

\* The invariant holds in every state.
THEOREM IdentityInvariantHolds == ASSUME IdentityAssumption PROVE Spec => []IdentityInvariant
BY IdentityInvariantInit, IdentityInvariantStep, PTL DEF Spec

\* While a revoked token is left anywhere, no crash or loss of power can hide that its disconnect is
\* unfinished; it is not handed out; and an answered disconnect left nothing behind.
THEOREM CredentialsAreSafeHolds ==
  ASSUME IdentityAssumption PROVE Spec => [](TypeOK /\ RevokedAreLocked /\ RevokedStayUnused /\ DisconnectedIsClean)
<1>1. IdentityInvariant => TypeOK /\ RevokedAreLocked /\ RevokedStayUnused /\ DisconnectedIsClean
  BY DEF IdentityInvariant, StoresAreSafe, CallIsSafe
<1> QED
  BY <1>1, IdentityInvariantHolds, PTL

\* Without a fallback the credential of the account that is shown is only deleted by a clean-up the user asked for.
LEMMA AccountsAreKeptStep ==
  ASSUME IdentityAssumption, IdentityInvariant, [Next]_vars, ~HasFallback,
         NEW p \in Providers, keychain[p] # None, keychain'[p] = None
  PROVE  asked
<1>1. keychain' # keychain
  OBVIOUS
<1>2. CASE SaveKeychain
  <2>1. op # None /\ op.at = "keychain" /\ op.at \in Connecting
    BY <1>2 DEF SaveKeychain, At, Connecting
  <2>2. op.token # None /\ keychain \in Secrets /\ keychain' \in {keychain, [keychain EXCEPT ![op.provider] = op.token]}
    BY <1>2, <2>1, ConnectingFacts DEF SaveKeychain, RestTyped
  <2> QED
    BY <2>2 DEF Secrets
<1>3. ASSUME NEW q \in Providers, NEW next, DeleteSecret(q, next) PROVE asked
  BY <1>3, CleaningFacts DEF DeleteSecret, At, Cleaning, Deleting, Providers
<1>4. DeleteSecret("github", "gitlab") \/ DeleteSecret("gitlab", "clear") => asked
  BY <1>3 DEF Providers
<1> QED
  BY <1>1, <1>2, <1>4 DEF Next, Step, vars, Connect, Tidy, Stage, Publish, Verify, Truncate, WriteAccount, Disconnect, Mark,
    SyncIntent, ClearFallback, ForgetAccount, Unmark, Refresh, CheckSecret, GetToken, Crash, PowerFailure, Flush

\* A keychain that cannot be read is no reason to delete the credential of an account.
THEOREM AccountsAreKeptHolds == ASSUME IdentityAssumption PROVE Spec => AccountsAreKept
<1>1. ASSUME IdentityInvariant, [Next]_vars
      PROVE  [~HasFallback => \A p \in Providers :
                keychain[p] # None /\ keychain'[p] = None /\ folder.account = p => asked]_vars
  BY <1>1, AccountsAreKeptStep
<1> QED
  BY <1>1, IdentityInvariantHolds, PTL DEF Spec, AccountsAreKept

=============================================================================

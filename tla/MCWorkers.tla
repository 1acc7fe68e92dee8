----------------------------- MODULE MCWorkers ------------------------------
(***************************************************************************)
(* What goes on in the desktop process beside its main window, checked as  *)
(* one system for the runs that need it: a behaviour is one of the         *)
(* credentials of Cloud Sync, of the delivery of favorites, of the         *)
(* supervisors of caption helpers, of the queue inside a helper, of the    *)
(* caption panel, of the translator of captions, of the preferences that   *)
(* all windows share or of a document of a linked folder.                  *)
(***************************************************************************)
EXTENDS Naturals, FiniteSets, Sequences

CONSTANTS
  None,
  Tokens, MaxRequests, MaxAccountFaults,
  Requests, Captures, MaxPending, Receipts, Batch, MaxFailures,
  MaxSessions, MaxRuns, MaxTexts, MaxCalls, MaxFaults, MaxStalls,
  Inputs, MaxClicks, MaxRefusals,
  Segments, MaxVisits, MaxRetries, MaxErrors, MaxNaps,
  Windows, Keys, Values, MaxUpdates,
  Contents, MaxGenerations, MaxOpenings,
  Shortest, Longest, Budget, MaxFrames

Seed == [k \in Keys |-> 0]

VARIABLES part, faults, rows, requested, history, service, abandoned, budget, failed,
  build, keychain, folder, durable, op, answer, told, asked, revoked, calls,
  worker, seen, shown,
  status, texts, waiting, control, workers, capture, flags,
  preferred, page, poll, fresh, tasks, unguarded, contested, clicks,
  segments, leases, consumer, engine,
  log, merged, boot, first, cached, reading, inbox, queue, stored, optimistic, latest, missed, updates,
  source, pending, session, call, opened, overwritten, put,
  reader, finals, queued, partial, active, visible, cancel, closed, aborted, decoder, output, accepted, broken,
  full, frames

Accounts == INSTANCE CloudIdentityProofs WITH MaxCalls <- MaxRequests, MaxFaults <- MaxAccountFaults
Favorites == INSTANCE VocabOutbox WITH Keep <- Receipts, MaxFaults <- MaxFailures
Captions == INSTANCE LiveCaption
Panel == INSTANCE CaptionPanel WITH Sources <- Inputs, MaxFaults <- MaxRefusals
Translator == INSTANCE CaptionTranslator WITH MaxFailures <- MaxErrors
Settings == INSTANCE UserSettings WITH MaxFaults <- MaxRefusals
Linked == INSTANCE LinkedDocuments WITH MaxSessions <- MaxOpenings
Helper == INSTANCE CaptionHelper

\* What the components assume of their constants.
ASSUME PartsAssumption ==
  /\ Accounts!IdentityAssumption /\ Favorites!OutboxAssumption /\ Captions!CaptionAssumption
  /\ Panel!PanelAssumption /\ Translator!TranslatorAssumption /\ Settings!SettingsAssumption
  /\ Linked!LinkedAssumption /\ Helper!HelperAssumption

accountsVars == <<build, keychain, folder, durable, op, answer, told, asked, revoked, calls>>
favoritesVars == <<worker, seen, shown>>
captionsVars == <<status, texts, waiting, control, workers, capture, flags>>
panelVars == <<preferred, page, poll, fresh, tasks, unguarded, contested, clicks>>
translatorVars == <<segments, leases, consumer, engine>>
settingsVars == <<log, merged, boot, first, cached, reading, inbox, queue, stored, optimistic, latest, missed, updates>>
linkedVars == <<source, pending, session, call, opened, overwritten, put>>
helperVars == <<reader, finals, queued, partial, active, visible, cancel, closed, aborted, decoder, output, accepted, broken,
  full, frames>>
vars == <<part, faults, rows, requested, history, service, abandoned, budget, failed, accountsVars, favoritesVars, captionsVars, panelVars, translatorVars, settingsVars, linkedVars, helperVars>>

accountsState == Accounts!vars
favoritesState == Favorites!vars
captionsState == Captions!vars
panelState == Panel!vars
translatorState == Translator!vars
settingsState == Settings!vars
linkedState == Linked!vars
helperState == Helper!vars

\* A component that is not the one of the behaviour.
accountsIdle ==
  /\ build = None /\ keychain = None /\ folder = None /\ durable = None /\ op = None /\ answer = None
  /\ told = None /\ asked = None /\ revoked = None /\ calls = None
favoritesIdle ==
  /\ worker = None /\ seen = None /\ shown = None
captionsIdle ==
  /\ status = None /\ texts = None /\ waiting = None /\ control = None /\ workers = None /\ capture = None
  /\ flags = None
panelIdle ==
  /\ preferred = None /\ page = None /\ poll = None /\ fresh = None /\ tasks = None /\ unguarded = None
  /\ contested = None /\ clicks = None
translatorIdle ==
  /\ segments = None /\ leases = None /\ consumer = None /\ engine = None
settingsIdle ==
  /\ log = None /\ merged = None /\ boot = None /\ first = None /\ cached = None /\ reading = None
  /\ inbox = None /\ queue = None /\ stored = None /\ optimistic = None /\ latest = None /\ missed = None
  /\ updates = None
linkedIdle ==
  /\ source = None /\ pending = None /\ session = None /\ call = None /\ opened = None /\ overwritten = None
  /\ put = None
helperIdle ==
  /\ reader = None /\ finals = None /\ queued = None /\ partial = None /\ active = None /\ visible = None
  /\ cancel = None /\ closed = None /\ aborted = None /\ decoder = None /\ output = None /\ accepted = None
  /\ broken = None /\ full = None /\ frames = None

Init ==
  \/ part = "accounts" /\ Accounts!Init /\ rows = None /\ requested = None /\ history = None /\ service = None /\ abandoned = None /\ budget = None /\ failed = None /\ favoritesIdle /\ captionsIdle /\ panelIdle /\ translatorIdle /\ settingsIdle /\ linkedIdle /\ helperIdle
  \/ part = "favorites" /\ Favorites!Init /\ history = None /\ service = None /\ abandoned = None /\ budget = None /\ failed = None /\ accountsIdle /\ captionsIdle /\ panelIdle /\ translatorIdle /\ settingsIdle /\ linkedIdle /\ helperIdle
  \/ part = "captions" /\ Captions!Init /\ faults = None /\ rows = None /\ requested = None /\ failed = None /\ accountsIdle /\ favoritesIdle /\ panelIdle /\ translatorIdle /\ settingsIdle /\ linkedIdle /\ helperIdle
  \/ part = "panel" /\ Panel!Init /\ requested = None /\ history = None /\ abandoned = None /\ budget = None /\ failed = None /\ accountsIdle /\ favoritesIdle /\ captionsIdle /\ translatorIdle /\ settingsIdle /\ linkedIdle /\ helperIdle
  \/ part = "translator" /\ Translator!Init /\ faults = None /\ rows = None /\ requested = None /\ history = None /\ service = None /\ failed = None /\ accountsIdle /\ favoritesIdle /\ captionsIdle /\ panelIdle /\ settingsIdle /\ linkedIdle /\ helperIdle
  \/ part = "settings" /\ Settings!Init /\ rows = None /\ history = None /\ service = None /\ abandoned = None /\ budget = None /\ accountsIdle /\ favoritesIdle /\ captionsIdle /\ panelIdle /\ translatorIdle /\ linkedIdle /\ helperIdle
  \/ part = "linked" /\ Linked!Init /\ faults = None /\ rows = None /\ requested = None /\ service = None /\ abandoned = None /\ budget = None /\ failed = None /\ accountsIdle /\ favoritesIdle /\ captionsIdle /\ panelIdle /\ translatorIdle /\ settingsIdle /\ helperIdle
  \/ part = "helper" /\ Helper!Init /\ faults = None /\ rows = None /\ requested = None /\ history = None /\ service = None /\ abandoned = None /\ budget = None /\ accountsIdle /\ favoritesIdle /\ captionsIdle /\ panelIdle /\ translatorIdle /\ settingsIdle /\ linkedIdle

Next ==
  \/ part = "accounts" /\ Accounts!Next /\ UNCHANGED <<part, rows, requested, history, service, abandoned, budget, failed, favoritesVars, captionsVars, panelVars, translatorVars, settingsVars, linkedVars, helperVars>>
  \/ part = "favorites" /\ Favorites!Next /\ UNCHANGED <<part, history, service, abandoned, budget, failed, accountsVars, captionsVars, panelVars, translatorVars, settingsVars, linkedVars, helperVars>>
  \/ part = "captions" /\ Captions!Next /\ UNCHANGED <<part, faults, rows, requested, failed, accountsVars, favoritesVars, panelVars, translatorVars, settingsVars, linkedVars, helperVars>>
  \/ part = "panel" /\ Panel!Next /\ UNCHANGED <<part, requested, history, abandoned, budget, failed, accountsVars, favoritesVars, captionsVars, translatorVars, settingsVars, linkedVars, helperVars>>
  \/ part = "translator" /\ Translator!Next /\ UNCHANGED <<part, faults, rows, requested, history, service, failed, accountsVars, favoritesVars, captionsVars, panelVars, settingsVars, linkedVars, helperVars>>
  \/ part = "settings" /\ Settings!Next /\ UNCHANGED <<part, rows, history, service, abandoned, budget, accountsVars, favoritesVars, captionsVars, panelVars, translatorVars, linkedVars, helperVars>>
  \/ part = "linked" /\ Linked!Next /\ UNCHANGED <<part, faults, rows, requested, service, abandoned, budget, failed, accountsVars, favoritesVars, captionsVars, panelVars, translatorVars, settingsVars, helperVars>>
  \/ part = "helper" /\ Helper!Next /\ UNCHANGED <<part, faults, rows, requested, history, service, abandoned, budget, accountsVars, favoritesVars, captionsVars, panelVars, translatorVars, settingsVars, linkedVars>>

Of(name, A) == part = name /\ A

FairSpec ==
  /\ Init /\ [][Next]_vars
  /\ WF_accountsState(Of("accounts", (Accounts!Step \/ Accounts!Refresh) /\ UNCHANGED build))
  /\ WF_favoritesState(Of("favorites", Favorites!Work))
  /\ \A id \in Requests : WF_favoritesState(Of("favorites", \E i \in Favorites!IndexOf(id) : Favorites!BecomeDue(i)))
  /\ \A w \in 1..MaxRuns :
       WF_captionsState(Of("captions", ~service.ended /\
         \/ Captions!Supervise(w) \/ Captions!Deadline(w) \/ Captions!BeginCapture(w)
         \/ Captions!Tick(w) \/ Captions!Leave(w) \/ Captions!Report(w)))
  /\ WF_panelState(Of("panel", Panel!Polls)) /\ WF_panelState(Of("panel", \E t \in tasks : Panel!Step(t)))
  /\ WF_translatorState(Of("translator", Translator!Loop)) /\ WF_translatorState(Of("translator", Translator!Lapse))
  /\ WF_helperState(Of("helper", Helper!Reads)) /\ WF_helperState(Of("helper", Helper!Decoding))
  /\ WF_settingsState(Of("settings", Settings!Writer)) /\ \A w \in Windows : WF_settingsState(Of("settings", Settings!Reader(w)))

-----------------------------------------------------------------------------

\* While a revoked token is left anywhere, no crash or loss of power can hide that the
\* disconnect is unfinished; such a token is never handed out again; and once a disconnect was
\* answered, no store holds anything of it, nor brings it back (CloudIdentity).
CredentialsAreSafe ==
  part = "accounts" =>
    /\ Accounts!TypeOK
    /\ Accounts!RevokedAreLocked /\ Accounts!RevokedStayUnused /\ Accounts!DisconnectedIsClean

\* Whatever fails on the way, a capture the user was given a receipt for stays in the queue until
\* Vocab has seen it: no crash loses it, none is pruned or reported saved before; and nothing is
\* in the queue twice (VocabOutbox).  An edit of a linked document that was acknowledged is in the journal
\* until it is saved, and what a save replaced is in the archive (LinkedDocumentStore).
CapturesAreKept ==
  /\ part = "favorites" => Favorites!TypeOK /\ Favorites!OneOutstanding /\ Favorites!NothingIsLost
  /\ part = "linked" => Linked!TypeOK /\ Linked!ReplacedIsRecoverable /\ Linked!DraftsAreDurable

\* The rows of the caption window are of the session that is selected, it is busy while something it
\* asked for runs, and the service captures the source that was chosen (CaptionPanel); a segment is
\* translated at most three times, by one consumer at a time (CaptionTranslator); and a helper answers all
\* it accepted, in order, unless it failed, and says truly why it ended (RecognitionQueue).
PanelsAreSound ==
  /\ part = "panel" => Panel!PanelIsSound
  /\ part = "translator" => Translator!TranslatorIsSound
  /\ part = "helper" => Helper!HelperIsSound

\* No window's update undoes another's, and a window shows what its user changed last until that is
\* stored, whatever it hears of other windows meanwhile (settingsDatabase, useLayoutPreferences).
SettingsAreSound == part = "settings" => Settings!TypeOK /\ Settings!PatchesSurvive /\ Settings!ChangesAreShown

\* The credential of the account that is shown is only deleted for a user who asked for it: a keychain
\* that cannot be read is no reason (CloudIdentity); no consumer loses the lease of a segment it is
\* translating to another one before it ends (CaptionTranslator); no window goes back to older
\* settings (settingsDatabase); and the draft of a linked document is only saved over the version it was
\* made from, and leaves the journal then or for its successor (LinkedDocumentStore).
WorkStepsAreSafe ==
  [][/\ part = "accounts" /\ ~Accounts!HasFallback => \A p \in Accounts!Providers :
          keychain[p] # None /\ keychain'[p] = None /\ folder.account = p => asked
     /\ part = "translator" => Translator!LeasesLast
     /\ part = "settings" => \A w \in Windows : cached'[w] >= cached[w]
     /\ part = "linked" => Linked!StoreStepsAreSafe]_vars

\* Once begun, a disconnect is carried through; every capture is delivered, or fails where the user
\* sees it; a helper that was told to end, or whose run failed, is killed and reaped, whether or not
\* it answers; the caption window comes to rest with the rows of its selection, every segment is
\* translated or given up after its last try, a helper ends with its input, and the windows catch up with
\* the settings stored.
WorkEnds ==
  <>[](/\ part = "accounts" => ~folder.mark
       /\ part = "favorites" => \A id \in Requests : "queued" \notin Favorites!StateOf(id)
       /\ part = "captions" => \A w \in 1..MaxRuns : workers[w].cancel => workers[w].at = "done" \/ service.ended
       /\ part = "panel" => Panel!Rests
       /\ part = "translator" => Translator!Rests
       /\ part = "helper" => Helper!Rests
       /\ part = "settings" => \A w \in Windows : \A k \in Keys :
            missed[w] \/ k \in failed[w] \/ Settings!Shown(w)[k] = Settings!ValueAt(Settings!Revision)[k])
=============================================================================

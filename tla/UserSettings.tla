---------------------------- MODULE UserSettings ----------------------------
(***************************************************************************)
(* The preferences of the user, shared by all windows of the application.    *)
(* IndexedDB is the authority: its transactions merge a patch into the       *)
(* stored value and number the result.  A window keeps a snapshot, hears of  *)
(* newer revisions over a broadcast channel, reads them, and shows its own   *)
(* changes of the layout before they are stored.                            *)
(*                                                                         *)
(* A value has a few keys; parsing is left out, since it maps a value that   *)
(* was parsed to itself.  Updates of all windows wait for one lock, in the   *)
(* order in which they were asked for, and the one in front holds it.        *)
(***************************************************************************)
EXTENDS Integers, Sequences, SequencesExt

CONSTANTS
  Windows,     \* the windows
  Keys,        \* preferences
  Values,      \* their values
  Seed,        \* what the local storage of older versions held
  None,        \* no value
  MaxUpdates,  \* bound on updates
  MaxFaults    \* bound on failed transactions, lost notifications and timeouts

SettingsAssumption ==
  /\ Seed \in [Keys -> Values] /\ None \notin Values
  /\ MaxUpdates \in Nat /\ MaxFaults \in Nat

VARIABLES
  log,         \* the values of the database, one for each revision
  merged,      \* (history) all patches stored, in their order
  boot,        \* the window's initialization
  first,       \* the revision it got at its initialization
  cached,      \* the revision of the window's snapshot, 0 for none
  reading,     \* its refresh: idle, reading, or the revision it got
  requested,   \* another refresh is asked for meanwhile
  inbox,       \* revisions announced to the window
  queue,       \* updates that wait for the lock; the first holds it
  stored,      \* the revision the first one's transaction made, 0 before
  optimistic,  \* layout values the window shows before they are stored
  latest,      \* the number of the last change of a key
  failed,      \* (history) keys whose last change failed
  missed,      \* (history) the window may be behind: a notification or a read failed
  updates, faults

Idle == -1
Reading == 0

view == <<boot, first, cached, reading, requested, inbox, missed>>
layout == <<optimistic, latest, failed>>
vars == <<log, merged, view, queue, stored, layout, updates, faults>>

Revision == Len(log)
ValueAt(r) == IF r = 0 THEN Seed ELSE log[r]

\* readUserSettings and the refresh of useLayoutPreferences.
Shown(w) == [k \in Keys |-> IF optimistic[w][k] # None THEN optimistic[w][k] ELSE ValueAt(cached[w])[k]]

-----------------------------------------------------------------------------

Init ==
  /\ log = <<>> /\ merged = Seed
  /\ boot = [w \in Windows |-> "no"] /\ first = [w \in Windows |-> 0] /\ cached = [w \in Windows |-> 0]
  /\ reading = [w \in Windows |-> Idle] /\ requested = [w \in Windows |-> FALSE]
  /\ inbox = [w \in Windows |-> {}] /\ missed = [w \in Windows |-> FALSE]
  /\ queue = <<>> /\ stored = 0
  /\ optimistic = [w \in Windows |-> [k \in Keys |-> None]]
  /\ latest = [w \in Windows |-> [k \in Keys |-> 0]]
  /\ failed = [w \in Windows |-> {}]
  /\ updates = MaxUpdates /\ faults = MaxFaults

Fault == faults > 0 /\ faults' = faults - 1
NoFault == UNCHANGED faults

\* Mutant: the last snapshot that arrives is the one shown.
PublishAny(w, r) ==
  /\ cached' = [cached EXCEPT ![w] = r]
  /\ missed' = [missed EXCEPT ![w] = @ /\ r # Revision]

\* publish: an older snapshot than the window's is dropped.
Publish(w, r) ==
  /\ cached' = [cached EXCEPT ![w] = IF r > @ THEN r ELSE @]
  /\ missed' = [missed EXCEPT ![w] = @ /\ r # Revision]

\* refresh: a refresh that runs is repeated.
Trigger(w) ==
  IF reading[w] = Idle
  THEN reading' = [reading EXCEPT ![w] = Reading] /\ requested' = [requested EXCEPT ![w] = FALSE]
  ELSE requested' = [requested EXCEPT ![w] = TRUE] /\ UNCHANGED reading

\* A transaction without a patch stores the seed in a new database.
Seeded == IF log = <<>> THEN <<Seed>> ELSE log

\* initializeSettings, called by the first component that reads settings.
StartBoot(w) ==
  /\ boot[w] = "no" /\ boot' = [boot EXCEPT ![w] = "reading"]
  /\ NoFault
  /\ UNCHANGED <<log, merged, first, cached, reading, requested, inbox, missed, queue, stored, layout, updates>>

BootReads(w) ==
  /\ boot[w] = "reading" /\ boot' = [boot EXCEPT ![w] = "read"]
  /\ log' = Seeded /\ first' = [first EXCEPT ![w] = Len(Seeded)]
  /\ NoFault
  /\ UNCHANGED <<merged, cached, reading, requested, inbox, missed, queue, stored, layout, updates>>

Boot(w) ==
  /\ boot[w] = "read" /\ boot' = [boot EXCEPT ![w] = "ready"]
  /\ Publish(w, first[w])
  /\ NoFault /\ UNCHANGED <<log, merged, first, reading, requested, inbox, queue, stored, layout, updates>>

\* Opening the database fails, is blocked by an upgrade or times out: the window listens to the channel
\* and reads for its news, and does not read its settings by itself.
BootFails(w) ==
  /\ Fault
  /\ boot[w] = "reading" /\ boot' = [boot EXCEPT ![w] = "failed"]
  /\ missed' = [missed EXCEPT ![w] = TRUE]
  /\ UNCHANGED <<log, merged, first, cached, reading, requested, inbox, queue, stored, layout, updates>>

\* A component that is mounted later initializes again.
Remount(w) ==
  /\ boot[w] = "failed" /\ boot' = [boot EXCEPT ![w] = "reading"]
  /\ NoFault
  /\ UNCHANGED <<log, merged, first, cached, reading, requested, inbox, missed, queue, stored, layout, updates>>

\* A notification of the channel; one that is not newer is dropped.
Hear(w) ==
  /\ boot[w] # "no" /\ inbox[w] # {}
  /\ LET r == CHOOSE x \in inbox[w] : TRUE
     IN /\ inbox' = [inbox EXCEPT ![w] = @ \ {r}]
        /\ IF r > cached[w] THEN Trigger(w) ELSE UNCHANGED <<reading, requested>>
  /\ NoFault /\ UNCHANGED <<log, merged, boot, first, cached, missed, queue, stored, layout, updates>>

\* The window gets the focus; only one that missed something is given it, to bound the reads.
Focus(w) ==
  /\ boot[w] = "ready" /\ reading[w] = Idle /\ missed[w]
  /\ Trigger(w)
  /\ NoFault /\ UNCHANGED <<log, merged, boot, first, cached, inbox, missed, queue, stored, layout, updates>>

\* The transaction of a refresh; the window has the snapshot later.
Read(w) ==
  /\ reading[w] = Reading
  /\ log' = Seeded /\ reading' = [reading EXCEPT ![w] = Len(Seeded)]
  /\ NoFault /\ UNCHANGED <<merged, boot, first, cached, requested, inbox, missed, queue, stored, layout, updates>>

\* The loop of refresh: it publishes, and reads again if it was asked to.
ReadReturns(w) ==
  /\ reading[w] > Reading
  /\ Publish(w, reading[w])
  /\ reading' = [reading EXCEPT ![w] = IF requested[w] THEN Reading ELSE Idle]
  /\ requested' = [requested EXCEPT ![w] = FALSE]
  /\ NoFault /\ UNCHANGED <<log, merged, boot, first, inbox, queue, stored, layout, updates>>

\* A failed refresh is given up, with the one that was asked for meanwhile.
ReadFails(w) ==
  /\ Fault
  /\ reading[w] = Reading
  /\ reading' = [reading EXCEPT ![w] = Idle] /\ requested' = [requested EXCEPT ![w] = FALSE]
  /\ missed' = [missed EXCEPT ![w] = TRUE]
  /\ UNCHANGED <<log, merged, boot, first, cached, inbox, queue, stored, layout, updates>>

-----------------------------------------------------------------------------

\* update of useLayoutPreferences: the change is shown and asks for the lock.
Update(w, k, v) ==
  /\ updates > 0 /\ updates' = updates - 1
  /\ boot[w] # "no" /\ v # Shown(w)[k]
  /\ latest' = [latest EXCEPT ![w][k] = updates]
  /\ optimistic' = [optimistic EXCEPT ![w][k] = v]
  /\ failed' = [failed EXCEPT ![w] = @ \ {k}]
  /\ queue' = Append(queue, [window |-> w, key |-> k, value |-> v, number |-> updates])
  /\ NoFault /\ UNCHANGED <<log, merged, view, stored>>

\* Mutant: the patch is merged into the snapshot of the window.
StorePatchOfCached ==
  /\ queue # <<>> /\ stored = 0
  /\ LET call == Head(queue)
     IN /\ log' = Append(log, [ValueAt(cached[call.window]) EXCEPT ![call.key] = call.value])
        /\ merged' = [merged EXCEPT ![call.key] = call.value]
  /\ stored' = Len(log')
  /\ NoFault /\ UNCHANGED <<view, queue, layout, updates>>

\* commitSettings: the transaction merges the patch into the stored value.
StorePatch ==
  /\ queue # <<>> /\ stored = 0
  /\ LET call == Head(queue)
     IN /\ log' = Append(log, [ValueAt(Revision) EXCEPT ![call.key] = call.value])
        /\ merged' = [merged EXCEPT ![call.key] = call.value]
  /\ stored' = Len(log')
  /\ NoFault /\ UNCHANGED <<view, queue, layout, updates>>

\* Mutant: a change that is stored is not waited for any more, whichever it was.
ForgetAny(call) == optimistic' = [optimistic EXCEPT ![call.window][call.key] = None]

\* A change that is stored is the window's own no longer, unless it changed the key again.
Forget(call) ==
  optimistic' = IF latest[call.window][call.key] = call.number
                THEN [optimistic EXCEPT ![call.window][call.key] = None] ELSE optimistic

\* The update returns: its window has the new snapshot, the others are told.
StoredReturns ==
  /\ stored > 0 /\ queue' = Tail(queue) /\ stored' = 0
  /\ LET call == Head(queue)  others == {o \in Windows \ {call.window} : boot[o] # "no"}
     IN /\ Forget(call)
        /\ cached' = [cached EXCEPT ![call.window] = IF stored > @ THEN stored ELSE @]
        /\ \/ /\ NoFault
              /\ inbox' = [o \in Windows |-> IF o \in others THEN inbox[o] \cup {stored} ELSE inbox[o]]
              /\ missed' = [missed EXCEPT ![call.window] = @ /\ stored # Len(log)]
           \/ /\ Fault
              /\ missed' = [o \in Windows |-> IF o \in others THEN TRUE ELSE missed[o]]
              /\ UNCHANGED inbox
  /\ UNCHANGED <<log, merged, boot, first, reading, requested, latest, failed, updates>>

\* The database cannot be opened, or another update keeps the lock for too long: the change
\* stays shown and is not stored.
UpdateFails(i) ==
  /\ Fault
  /\ i \in DOMAIN queue /\ (i = 1 => stored = 0)
  /\ queue' = RemoveAt(queue, i)
  /\ failed' = [failed EXCEPT ![queue[i].window] =
       IF latest[queue[i].window][queue[i].key] = queue[i].number THEN @ \cup {queue[i].key} ELSE @]
  /\ UNCHANGED <<log, merged, view, stored, optimistic, latest, updates>>

Reader(w) == StartBoot(w) \/ BootReads(w) \/ Boot(w) \/ Hear(w) \/ Read(w) \/ ReadReturns(w)
Writer == StorePatch \/ StoredReturns

Quiet ==
  /\ queue = <<>> /\ updates = 0
  /\ \A w \in Windows : boot[w] \in {"ready", "failed"} /\ inbox[w] = {} /\ reading[w] = Idle
  /\ UNCHANGED vars

Next ==
  \/ \E w \in Windows : Reader(w) \/ Focus(w) \/ Remount(w) \/ BootFails(w) \/ ReadFails(w)
  \/ \E w \in Windows, k \in Keys, v \in Values : Update(w, k, v)
  \/ Writer \/ \E i \in 1..MaxUpdates : UpdateFails(i)
  \/ Quiet

Spec == Init /\ [][Next]_vars

\* Transactions end, the channel delivers, and a window that has not read its settings
\* does.  Nothing makes the user focus a window, and nothing but a component that is mounted later
\* makes a window try again that failed to read them.
FairSpec == Spec /\ WF_vars(Writer) /\ \A w \in Windows : WF_vars(Reader(w))

-----------------------------------------------------------------------------

TypeOK ==
  /\ log \in Seq([Keys -> Values]) /\ merged \in [Keys -> Values]
  /\ boot \in [Windows -> {"no", "reading", "read", "ready", "failed"}] /\ first \in [Windows -> 0..Revision]
  /\ \A w \in Windows : cached[w] \in 0..Revision /\ reading[w] \in Idle..Revision
  /\ optimistic \in [Windows -> [Keys -> Values \cup {None}]]
  /\ failed \in [Windows -> SUBSET Keys] /\ missed \in [Windows -> BOOLEAN]
  /\ updates \in 0..MaxUpdates /\ faults \in 0..MaxFaults

\* No window's update undoes another's: the database holds every patch that was stored, in
\* the order of the transactions (updateUserSettings, transaction).
PatchesSurvive == ValueAt(Revision) = merged

\* A window shows the change its user made last until it is stored, whatever it hears of
\* other windows meanwhile (useLayoutPreferences).
ChangesAreShown ==
  \A i \in DOMAIN queue :
    LET call == queue[i] IN
    latest[call.window][call.key] = call.number => Shown(call.window)[call.key] = call.value

\* A window never goes back to an older revision (publish).
RevisionsGrow == [][\A w \in Windows : cached'[w] >= cached[w]]_vars

\* Every window ends up showing what is stored, except a key whose last change failed and
\* a window that lost a notification or a read, or failed to initialize, and has read nothing since
\* (settingsDatabase).
WindowsAgree ==
  <>[](\A w \in Windows : \A k \in Keys :
        missed[w] \/ k \in failed[w] \/ Shown(w)[k] = ValueAt(Revision)[k])
=============================================================================

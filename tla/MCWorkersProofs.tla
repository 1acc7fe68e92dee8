--------------------------- MODULE MCWorkersProofs ----------------------------
(***************************************************************************)
(* Theorems about the system of MCWorkers, for any values of its constants *)
(* and under the names its run checks.  What CloudIdentityProofs proves of *)
(* the credentials of Cloud Sync holds in it as well; of the other parts   *)
(* it is proved here, one after the other: the preferences that all        *)
(* windows share (UserSettings), the translator of captions                *)
(* (CaptionTranslator), the delivery of favorites (VocabOutbox), a         *)
(* document of a linked folder (LinkedDocuments), the caption window       *)
(* (CaptionPanel) and the queue inside a helper (CaptionHelper).           *)
(***************************************************************************)
EXTENDS MCWorkers, Integers, FiniteSetTheorems, SequenceTheorems, WellFoundedInduction, TLAPS

-----------------------------------------------------------------------------
(* The preferences that all windows share. *)

\* The database is the patches, in their order.
DatabaseFits ==
  /\ log \in Seq([Keys -> Values]) /\ merged \in [Keys -> Values] /\ Settings!PatchesSurvive

\* A window is at a revision there is, and hears of no other.
ViewFits ==
  /\ boot \in [Windows -> {"no", "reading", "read", "ready", "failed"}]
  /\ first \in [Windows -> 0..Settings!Revision] /\ cached \in [Windows -> 0..Settings!Revision]
  /\ reading \in [Windows -> Settings!Idle..Settings!Revision] /\ requested \in [Windows -> BOOLEAN]
  /\ inbox \in [Windows -> SUBSET (0..Settings!Revision)] /\ missed \in [Windows -> BOOLEAN]

\* Changes that wait.
Changes == [window : Windows, key : Keys, value : Values, number : Nat]

\* Changes wait under numbers of their own, and one that stands is what its window shows.
QueueFits ==
  /\ queue \in Seq(Changes)
  /\ \A i \in DOMAIN queue : queue[i].number > updates
  /\ \A i, j \in DOMAIN queue : i # j => queue[i].number # queue[j].number
  /\ \A i \in DOMAIN queue :
       latest[queue[i].window][queue[i].key] = queue[i].number =>
         optimistic[queue[i].window][queue[i].key] = queue[i].value

\* The rest has its type, and a transaction has a revision until its update returns.
LayoutFits ==
  /\ stored \in 0..Settings!Revision /\ (stored > 0 => queue # <<>>)
  /\ optimistic \in [Windows -> [Keys -> Values \cup {None}]] /\ latest \in [Windows -> [Keys -> Nat]]
  /\ failed \in [Windows -> SUBSET Keys] /\ updates \in 0..MaxUpdates /\ faults \in 0..MaxRefusals

SettingsInvariant == DatabaseFits /\ ViewFits /\ QueueFits /\ LayoutFits

\* What is assumed of the preferences.
LEMMA SettingsAssumed ==
  /\ Seed \in [Keys -> Values] /\ None \notin Values /\ MaxUpdates \in Nat /\ MaxRefusals \in Nat
  /\ Settings!Idle = -1 /\ Settings!Reading = 0 /\ Settings!Revision = Len(log)
BY PartsAssumption DEF Settings!SettingsAssumption, Settings!Idle, Settings!Reading, Settings!Revision

\* An element of a sequence is one of its type.
LEMMA ElementIs ==
  ASSUME NEW S, NEW s \in Seq(S), NEW i \in DOMAIN s
  PROVE  s[i] \in S /\ i \in 1..Len(s) /\ Len(s) \in Nat
OBVIOUS

\* The invariant is what the run checks.
LEMMA SettingsInvariantSuffices ==
  ASSUME SettingsInvariant PROVE Settings!TypeOK /\ Settings!PatchesSurvive /\ Settings!ChangesAreShown
<1> USE DEF SettingsInvariant
<1>1. Settings!TypeOK
  BY SettingsAssumed DEF DatabaseFits, ViewFits, LayoutFits, Settings!TypeOK
<1>2. ASSUME NEW i \in DOMAIN queue, latest[queue[i].window][queue[i].key] = queue[i].number
      PROVE  Settings!Shown(queue[i].window)[queue[i].key] = queue[i].value
  <2>1. PICK c \in Changes : c = queue[i]
    BY ElementIs DEF QueueFits
  <2>2. c.key \in Keys /\ c.value \in Values /\ optimistic[c.window][c.key] = c.value
    BY <1>2, <2>1 DEF QueueFits, Changes
  <2> QED
    BY <2>1, <2>2, SettingsAssumed DEF Settings!Shown
<1> QED
  BY <1>1, <1>2 DEF DatabaseFits, Settings!ChangesAreShown

\* A transaction without a patch keeps the database.
LEMMA SeededFits ==
  ASSUME DatabaseFits
  PROVE  /\ Settings!Seeded \in Seq([Keys -> Values]) /\ Len(log) \in Nat /\ Len(Settings!Seeded) \in Nat
         /\ Len(log) <= Len(Settings!Seeded)
         /\ log' = Settings!Seeded /\ UNCHANGED merged => DatabaseFits'
<1>1. Len(log) \in Nat /\ log \in Seq([Keys -> Values]) /\ (log = <<>> => Len(log) = 0)
  BY DEF DatabaseFits
<1>2. CASE log = <<>>
  <2>1. Settings!Seeded = <<Seed>> /\ Len(Settings!Seeded) = 1 /\ Settings!Seeded[1] = Seed /\ <<Seed>> \in Seq([Keys -> Values])
    BY <1>2, SettingsAssumed DEF Settings!Seeded
  <2>2. merged = Seed
    BY <1>1, <1>2 DEF DatabaseFits, Settings!PatchesSurvive, Settings!ValueAt, Settings!Revision
  <2>3. ASSUME log' = Settings!Seeded, UNCHANGED merged PROVE DatabaseFits'
    BY <2>1, <2>2, <2>3 DEF DatabaseFits, Settings!PatchesSurvive, Settings!ValueAt, Settings!Revision
  <2> QED
    BY <1>1, <1>2, <2>1, <2>3
<1>3. CASE log # <<>>
  <2>1. Settings!Seeded = log
    BY <1>3 DEF Settings!Seeded
  <2>2. ASSUME log' = Settings!Seeded, UNCHANGED merged PROVE DatabaseFits'
    BY <2>1, <2>2 DEF DatabaseFits, Settings!PatchesSurvive, Settings!ValueAt, Settings!Revision
  <2> QED
    BY <1>1, <2>1, <2>2
<1> QED
  BY <1>2, <1>3

\* A longer log has all revisions of the shorter one.
LEMMA RevisionsStay ==
  ASSUME ViewFits, Len(log) \in Nat, Len(log') \in Nat, Len(log) <= Len(log')
  PROVE  /\ first \in [Windows -> 0..Len(log')] /\ cached \in [Windows -> 0..Len(log')]
         /\ reading \in [Windows -> -1..Len(log')] /\ inbox \in [Windows -> SUBSET (0..Len(log'))]
<1>1. \A n \in 0..Len(log) : n \in 0..Len(log')
  OBVIOUS
<1>2. \A n \in -1..Len(log) : n \in -1..Len(log')
  OBVIOUS
<1>3. /\ first \in [Windows -> 0..Len(log)] /\ cached \in [Windows -> 0..Len(log)]
      /\ reading \in [Windows -> -1..Len(log)] /\ inbox \in [Windows -> SUBSET (0..Len(log))]
  BY SettingsAssumed DEF ViewFits
<1>4. first \in [Windows -> 0..Len(log')] /\ cached \in [Windows -> 0..Len(log')]
  BY <1>1, <1>3
<1>5. reading \in [Windows -> -1..Len(log')]
  BY <1>2, <1>3
<1>6. inbox \in [Windows -> SUBSET (0..Len(log'))]
  BY <1>1, <1>3
<1> QED
  BY <1>4, <1>5, <1>6

\* The same with primes inside.
LEMMA ViewFitsIs ==
  ViewFits' <=>
    /\ boot' \in [Windows -> {"no", "reading", "read", "ready", "failed"}]
    /\ first' \in [Windows -> 0..Len(log')] /\ cached' \in [Windows -> 0..Len(log')]
    /\ reading' \in [Windows -> -1..Len(log')] /\ requested' \in [Windows -> BOOLEAN]
    /\ inbox' \in [Windows -> SUBSET (0..Len(log'))] /\ missed' \in [Windows -> BOOLEAN]
BY DEF ViewFits, Settings!Revision, Settings!Idle

\* A longer log keeps the rest.
LEMMA RestStays ==
  ASSUME QueueFits, LayoutFits, UNCHANGED <<queue, stored, optimistic, latest, failed, updates>>,
         faults' \in 0..MaxRefusals, Len(log) \in Nat, Len(log') \in Nat, Len(log) <= Len(log')
  PROVE  QueueFits' /\ LayoutFits'
<1>1. QueueFits'
  BY DEF QueueFits
<1>2. stored' \in 0..Len(log')
  BY SettingsAssumed DEF LayoutFits
<1> QED
  BY <1>1, <1>2 DEF LayoutFits, Settings!Revision

\* The faults that are left are counted.
LEMMA FaultsFit == ASSUME LayoutFits, Settings!Fault \/ Settings!NoFault PROVE faults' \in 0..MaxRefusals
BY SettingsAssumed DEF LayoutFits, Settings!Fault, Settings!NoFault

\* What a window reads.
LogReads == (log' = Settings!Seeded \/ UNCHANGED log) /\ UNCHANGED merged

\* It makes the log no shorter.
LEMMA ReadingGrows ==
  ASSUME SettingsInvariant, LogReads
  PROVE  /\ Len(log) \in Nat /\ Len(log') \in Nat /\ Len(log) <= Len(log') /\ DatabaseFits'
         /\ first \in [Windows -> 0..Len(log')] /\ cached \in [Windows -> 0..Len(log')]
         /\ reading \in [Windows -> -1..Len(log')] /\ inbox \in [Windows -> SUBSET (0..Len(log'))]
         /\ boot \in [Windows -> {"no", "reading", "read", "ready", "failed"}]
         /\ requested \in [Windows -> BOOLEAN] /\ missed \in [Windows -> BOOLEAN]
<1>1. Len(log) \in Nat /\ Len(log') \in Nat /\ Len(log) <= Len(log')
  BY SeededFits DEF SettingsInvariant, LogReads
<1>2. DatabaseFits'
  <2>1. CASE log' = Settings!Seeded
    BY <2>1, SeededFits DEF SettingsInvariant, LogReads
  <2>2. CASE UNCHANGED log
    BY <2>2 DEF SettingsInvariant, LogReads, DatabaseFits, Settings!PatchesSurvive, Settings!ValueAt,
       Settings!Revision
  <2> QED
    BY <2>1, <2>2 DEF LogReads
<1>3. ViewFits
  BY DEF SettingsInvariant
<1> QED
  BY <1>1, <1>2, <1>3, RevisionsStay DEF ViewFits

\* A step of a window keeps the rest.
LEMMA WindowKeeps ==
  ASSUME SettingsInvariant, LogReads, UNCHANGED <<queue, stored, optimistic, latest, failed, updates>>,
         Settings!Fault \/ Settings!NoFault, ViewFits'
  PROVE  SettingsInvariant'
BY ReadingGrows, RestStays, FaultsFit DEF SettingsInvariant

\* A snapshot is published if it is newer.
LEMMA PublishFits ==
  ASSUME NEW w \in Windows, NEW n \in Nat, NEW r \in 0..n, cached \in [Windows -> 0..n],
         missed \in [Windows -> BOOLEAN], Settings!Publish(w, r)
  PROVE  cached' \in [Windows -> 0..n] /\ missed' \in [Windows -> BOOLEAN]
<1>1. cached' = [cached EXCEPT ![w] = IF r > @ THEN r ELSE @]
  BY DEF Settings!Publish
<1>2. cached' \in [Windows -> 0..n]
  BY <1>1
<1>3. missed' = [missed EXCEPT ![w] = @ /\ r # Settings!Revision]
  BY DEF Settings!Publish
<1>4. missed' \in [Windows -> BOOLEAN]
  BY <1>3, Zenon
<1> QED
  BY <1>2, <1>4

\* A refresh is asked for.
LEMMA TriggerFits ==
  ASSUME NEW w \in Windows, NEW n \in Nat, reading \in [Windows -> -1..n], requested \in [Windows -> BOOLEAN],
         Settings!Trigger(w)
  PROVE  reading' \in [Windows -> -1..n] /\ requested' \in [Windows -> BOOLEAN]
<1>1. /\ reading' = reading \/ reading' = [reading EXCEPT ![w] = 0]
      /\ requested' = [requested EXCEPT ![w] = TRUE] \/ requested' = [requested EXCEPT ![w] = FALSE]
  BY SettingsAssumed DEF Settings!Trigger
<1>2. reading' \in [Windows -> -1..n]
  <2>1. 0 \in -1..n
    OBVIOUS
  <2> QED
    BY <1>1, <2>1
<1>3. requested' \in [Windows -> BOOLEAN]
  BY <1>1
<1> QED
  BY <1>2, <1>3

\* A window begins, and reads its first snapshot, or cannot.
LEMMA BootKeeps ==
  ASSUME SettingsInvariant, NEW w \in Windows,
         Settings!StartBoot(w) \/ Settings!BootReads(w) \/ Settings!Boot(w) \/ Settings!BootFails(w) \/ Settings!Remount(w)
  PROVE  SettingsInvariant'
<1>1. /\ LogReads /\ UNCHANGED <<reading, requested, inbox>>
      /\ UNCHANGED <<queue, stored, optimistic, latest, failed, updates>> /\ (Settings!Fault \/ Settings!NoFault)
  BY DEF Settings!StartBoot, Settings!BootReads, Settings!Boot, Settings!BootFails, Settings!Remount, Settings!layout, LogReads
<1>2. PICK n \in Nat : n = Len(log')
  BY <1>1, ReadingGrows
<1>3. boot' \in [Windows -> {"no", "reading", "read", "ready", "failed"}]
  <2>1. \E b \in {"no", "reading", "read", "ready", "failed"} : boot' = [boot EXCEPT ![w] = b]
    BY DEF Settings!StartBoot, Settings!BootReads, Settings!Boot, Settings!BootFails, Settings!Remount
  <2> QED
    BY <1>1, <2>1, ReadingGrows
<1>4. first' \in [Windows -> 0..n]
  <2>1. UNCHANGED first \/ (first' = [first EXCEPT ![w] = n])
    BY <1>2 DEF Settings!StartBoot, Settings!BootReads, Settings!Boot, Settings!BootFails, Settings!Remount
  <2>2. first \in [Windows -> 0..n] /\ n \in 0..n
    BY <1>1, <1>2, ReadingGrows
  <2> QED
    BY <2>1, <2>2
<1>5. cached' \in [Windows -> 0..n] /\ missed' \in [Windows -> BOOLEAN]
  <2>1. CASE UNCHANGED <<cached, missed>>
    BY <1>1, <1>2, <2>1, ReadingGrows
  <2>2. CASE Settings!Publish(w, first[w])
    <3>1. cached \in [Windows -> 0..n] /\ missed \in [Windows -> BOOLEAN] /\ first[w] \in 0..n
      BY <1>1, <1>2, ReadingGrows
    <3> QED
      BY <2>2, <3>1, PublishFits
  <2>3. CASE Settings!BootFails(w)
    <3>1. cached' = cached /\ missed' = [missed EXCEPT ![w] = TRUE]
      BY <2>3 DEF Settings!BootFails
    <3>2. cached \in [Windows -> 0..n] /\ missed \in [Windows -> BOOLEAN]
      BY <1>1, <1>2, ReadingGrows
    <3> QED
      BY <3>1, <3>2
  <2> QED
    BY <2>1, <2>2, <2>3 DEF Settings!StartBoot, Settings!BootReads, Settings!Boot, Settings!Remount
<1>6. ViewFits'
  BY <1>1, <1>2, <1>3, <1>4, <1>5, ReadingGrows, ViewFitsIs
<1> QED
  BY <1>1, <1>6, WindowKeeps

\* It hears of a revision, or is focused.
LEMMA NewsKeeps ==
  ASSUME SettingsInvariant, NEW w \in Windows, Settings!Hear(w) \/ Settings!Focus(w)
  PROVE  SettingsInvariant'
<1>1. /\ LogReads /\ UNCHANGED <<boot, first, cached, missed>>
      /\ UNCHANGED <<queue, stored, optimistic, latest, failed, updates>> /\ (Settings!Fault \/ Settings!NoFault)
  BY DEF Settings!Hear, Settings!Focus, Settings!layout, LogReads
<1>2. PICK n \in Nat : n = Len(log')
  BY <1>1, ReadingGrows
<1>3. inbox' \in [Windows -> SUBSET (0..n)]
  <2>1. inbox \in [Windows -> SUBSET (0..n)]
    BY <1>1, <1>2, ReadingGrows
  <2>2. UNCHANGED inbox \/ \E r : inbox' = [inbox EXCEPT ![w] = @ \ {r}]
    BY DEF Settings!Hear, Settings!Focus
  <2> QED
    BY <2>1, <2>2
<1>4. reading' \in [Windows -> -1..n] /\ requested' \in [Windows -> BOOLEAN]
  <2>1. reading \in [Windows -> -1..n] /\ requested \in [Windows -> BOOLEAN]
    BY <1>1, <1>2, ReadingGrows
  <2>2. UNCHANGED <<reading, requested>> \/ Settings!Trigger(w)
    BY DEF Settings!Hear, Settings!Focus
  <2> QED
    BY <2>1, <2>2, TriggerFits
<1>5. ViewFits'
  BY <1>1, <1>2, <1>3, <1>4, ReadingGrows, ViewFitsIs
<1> QED
  BY <1>1, <1>5, WindowKeeps

\* It reads, has its answer, or none.
LEMMA ReadKeeps ==
  ASSUME SettingsInvariant, NEW w \in Windows, Settings!Read(w) \/ Settings!ReadReturns(w) \/ Settings!ReadFails(w)
  PROVE  SettingsInvariant'
<1>1. /\ LogReads /\ UNCHANGED <<boot, first, inbox>>
      /\ UNCHANGED <<queue, stored, optimistic, latest, failed, updates>> /\ (Settings!Fault \/ Settings!NoFault)
  BY DEF Settings!Read, Settings!ReadReturns, Settings!ReadFails, Settings!layout, LogReads
<1>2. PICK n \in Nat : n = Len(log')
  BY <1>1, ReadingGrows
<1>3. /\ reading \in [Windows -> -1..n] /\ requested \in [Windows -> BOOLEAN]
      /\ cached \in [Windows -> 0..n] /\ missed \in [Windows -> BOOLEAN]
  BY <1>1, <1>2, ReadingGrows
<1>4. reading' \in [Windows -> -1..n]
  <2>1. \E r \in {-1, 0, n} : reading' = [reading EXCEPT ![w] = r]
    BY <1>2, SettingsAssumed DEF Settings!Read, Settings!ReadReturns, Settings!ReadFails
  <2> QED
    BY <1>3, <2>1
<1>5. requested' \in [Windows -> BOOLEAN]
  <2>1. UNCHANGED requested \/ requested' = [requested EXCEPT ![w] = FALSE]
    BY DEF Settings!Read, Settings!ReadReturns, Settings!ReadFails
  <2> QED
    BY <1>3, <2>1
<1>6. cached' \in [Windows -> 0..n] /\ missed' \in [Windows -> BOOLEAN]
  <2>1. CASE UNCHANGED cached /\ (UNCHANGED missed \/ missed' = [missed EXCEPT ![w] = TRUE])
    BY <1>3, <2>1
  <2>2. CASE Settings!Publish(w, reading[w]) /\ reading[w] > Settings!Reading
    <3>1. reading[w] \in 0..n
      BY <1>3, <2>2, SettingsAssumed
    <3> QED
      BY <1>3, <2>2, <3>1, PublishFits
  <2> QED
    BY <2>1, <2>2 DEF Settings!Read, Settings!ReadReturns, Settings!ReadFails
<1>7. ViewFits'
  BY <1>1, <1>2, <1>4, <1>5, <1>6, ReadingGrows, ViewFitsIs
<1> QED
  BY <1>1, <1>7, WindowKeeps

\* Appending, and taking one away.
LEMMA AppendIs ==
  ASSUME NEW S, NEW s \in Seq(S), NEW e \in S
  PROVE  /\ Append(s, e) \in Seq(S) /\ Len(Append(s, e)) = Len(s) + 1 /\ Len(s) \in Nat
         /\ DOMAIN s = 1..Len(s) /\ DOMAIN Append(s, e) = 1..(Len(s) + 1)
         /\ Append(s, e)[Len(s) + 1] = e /\ \A i \in 1..Len(s) : Append(s, e)[i] = s[i]
OBVIOUS

\* What is left when the element at i is taken away.
Without(t, s, i) ==
  /\ DOMAIN t = 1..(Len(s) - 1) /\ Len(t) = Len(s) - 1
  /\ \A j \in 1..(Len(s) - 1) : t[j] = IF j < i THEN s[j] ELSE s[j + 1]

\* Tail takes the first one.
LEMMA TailIs == ASSUME NEW S, NEW s \in Seq(S), s # <<>> PROVE Tail(s) \in Seq(S) /\ Without(Tail(s), s, 1)
BY DEF Without

\* What a concatenation holds.
LEMMA JoinedIs ==
  ASSUME NEW S, NEW a \in Seq(S), NEW b \in Seq(S)
  PROVE  \A j \in 1..Len(a \o b) : (a \o b)[j] = IF j <= Len(a) THEN a[j] ELSE b[j - Len(a)]
OBVIOUS

\* RemoveAt takes any.
LEMMA RemoveAtIs ==
  ASSUME NEW S, NEW s \in Seq(S), NEW i \in DOMAIN s
  PROVE  Settings!RemoveAt(s, i) \in Seq(S) /\ Without(Settings!RemoveAt(s, i), s, i)
<1>1. Len(s) \in Nat /\ i \in 1..Len(s) /\ \A j \in 1..Len(s) : s[j] \in S
  OBVIOUS
<1>2. Settings!RemoveAt(s, i) = SubSeq(s, 1, i - 1) \o SubSeq(s, i + 1, Len(s))
  BY DEF Settings!RemoveAt
<1>3. SubSeq(s, 1, i - 1) \in Seq(S) /\ Len(SubSeq(s, 1, i - 1)) = i - 1
  BY <1>1
<1>4. SubSeq(s, i + 1, Len(s)) \in Seq(S) /\ Len(SubSeq(s, i + 1, Len(s))) = Len(s) - i
  BY <1>1
<1>5. \A j \in 1..(i - 1) : SubSeq(s, 1, i - 1)[j] = s[j]
  BY <1>1
<1>6. \A j \in 1..(Len(s) - i) : SubSeq(s, i + 1, Len(s))[j] = s[j + i]
  BY <1>1
<1> DEFINE a == SubSeq(s, 1, i - 1)
           b == SubSeq(s, i + 1, Len(s))
           t == Settings!RemoveAt(s, i)
<1>7. /\ a \in Seq(S) /\ b \in Seq(S) /\ Len(a) = i - 1 /\ Len(b) = Len(s) - i /\ t = a \o b
      /\ \A j \in 1..(i - 1) : a[j] = s[j]
      /\ \A j \in 1..(Len(s) - i) : b[j] = s[j + i]
  BY <1>2, <1>3, <1>4, <1>5, <1>6
<1> HIDE DEF a, b, t
<1>8. t \in Seq(S) /\ Len(t) = Len(s) - 1 /\ DOMAIN t = 1..(Len(s) - 1)
  BY <1>1, <1>7
<1>9. \A j \in 1..Len(t) : t[j] = IF j <= Len(a) THEN a[j] ELSE b[j - Len(a)]
  BY <1>7, JoinedIs
<1>10. \A j \in 1..(Len(s) - 1) : t[j] = IF j < i THEN s[j] ELSE s[j + 1]
  <2> TAKE j \in 1..(Len(s) - 1)
  <2>1. CASE j < i
    <3>1. j \in 1..Len(t) /\ j <= Len(a) /\ j \in 1..(i - 1)
      BY <1>1, <1>7, <1>8, <2>1
    <3> QED
      BY <1>7, <1>9, <2>1, <3>1
  <2>2. CASE ~(j < i)
    <3>1. j - (i - 1) \in 1..(Len(s) - i) /\ (j - (i - 1)) + i = j + 1
      BY <1>1, <2>2
    <3>2. t[j] = b[j - (i - 1)]
      <4>1. j \in 1..Len(t) /\ ~(j <= Len(a)) /\ j - Len(a) = j - (i - 1)
        BY <1>1, <1>7, <1>8, <2>2
      <4> QED
        BY <1>9, <4>1
    <3> QED
      BY <1>7, <2>2, <3>1, <3>2
  <2> QED
    BY <2>1, <2>2
<1> QED
  BY <1>8, <1>10 DEF Without, t

\* A key of a window gets a value.
LEMMA KeyIsSet ==
  ASSUME NEW S, NEW f \in [Windows -> [Keys -> S]], NEW w \in Windows, NEW k \in Keys, NEW x \in S
  PROVE  /\ [f EXCEPT ![w][k] = x] \in [Windows -> [Keys -> S]]
         /\ \A o \in Windows, l \in Keys : [f EXCEPT ![w][k] = x][o][l] = IF o = w /\ l = k THEN x ELSE f[o][l]
OBVIOUS

\* What is left in the queue has numbers of its own.
LEMMA QueueShrinks ==
  ASSUME QueueFits, NEW i \in DOMAIN queue, queue' \in Seq(Changes), Without(queue', queue, i), UNCHANGED updates
  PROVE  /\ \A j \in DOMAIN queue' : queue'[j].number > updates'
         /\ \A j, l \in DOMAIN queue' : j # l => queue'[j].number # queue'[l].number
         /\ \A j \in DOMAIN queue' : \E l \in DOMAIN queue : l # i /\ queue'[j] = queue[l]
<1> DEFINE Old(j) == IF j < i THEN j ELSE j + 1
<1>1. Len(queue) \in Nat /\ DOMAIN queue = 1..Len(queue) /\ i \in 1..Len(queue)
  BY ElementIs DEF QueueFits
<1>2. \A j \in DOMAIN queue' : Old(j) \in DOMAIN queue /\ Old(j) # i /\ queue'[j] = queue[Old(j)] /\ j \in 1..(Len(queue) - 1)
  BY <1>1 DEF Without
<1>3. \A j, l \in DOMAIN queue' : j # l => Old(j) # Old(l)
  BY <1>1, <1>2
<1> HIDE DEF Old
<1>4. \A j \in DOMAIN queue' : queue'[j].number > updates'
  BY <1>2 DEF QueueFits
<1>5. \A j, l \in DOMAIN queue' : j # l => queue'[j].number # queue'[l].number
  BY <1>2, <1>3 DEF QueueFits
<1> QED
  BY <1>2, <1>4, <1>5

\* The user changes a preference: its window shows the change, and it waits under a new number.
LEMMA UpdateKeeps ==
  ASSUME SettingsInvariant, NEW w \in Windows, NEW k \in Keys, NEW v \in Values, Settings!Update(w, k, v)
  PROVE  SettingsInvariant'
<1> DEFINE c == [window |-> w, key |-> k, value |-> v, number |-> updates]
<1>1. /\ updates > 0 /\ updates' = updates - 1 /\ queue' = Append(queue, c)
      /\ latest' = [latest EXCEPT ![w][k] = updates] /\ optimistic' = [optimistic EXCEPT ![w][k] = v]
      /\ failed' = [failed EXCEPT ![w] = @ \ {k}] /\ Settings!NoFault
      /\ UNCHANGED <<log, merged, boot, first, cached, reading, requested, inbox, missed, stored>>
  BY DEF Settings!Update, Settings!view
<1>2. updates \in Nat /\ updates' \in 0..MaxUpdates /\ faults' \in 0..MaxRefusals
  BY <1>1, FaultsFit, SettingsAssumed DEF SettingsInvariant, LayoutFits
<1>3. c \in Changes
  BY <1>2 DEF Changes
<1>4. /\ latest \in [Windows -> [Keys -> Nat]] /\ optimistic \in [Windows -> [Keys -> Values \cup {None}]]
      /\ queue \in Seq(Changes)
  BY DEF SettingsInvariant, LayoutFits, QueueFits
<1>5. /\ latest' \in [Windows -> [Keys -> Nat]]
      /\ \A o \in Windows, l \in Keys : latest'[o][l] = IF o = w /\ l = k THEN updates ELSE latest[o][l]
  BY <1>1, <1>2, <1>4, KeyIsSet
<1>6. /\ optimistic' \in [Windows -> [Keys -> Values \cup {None}]]
      /\ \A o \in Windows, l \in Keys : optimistic'[o][l] = IF o = w /\ l = k THEN v ELSE optimistic[o][l]
  BY <1>1, <1>4, KeyIsSet
<1>7. /\ queue' \in Seq(Changes) /\ Len(queue) \in Nat /\ DOMAIN queue = 1..Len(queue)
      /\ DOMAIN queue' = 1..(Len(queue) + 1) /\ queue'[Len(queue) + 1] = c
      /\ \A i \in 1..Len(queue) : queue'[i] = queue[i]
  <2> HIDE DEF c
  <2> QED
    BY <1>1, <1>3, <1>4, AppendIs
<1>8. \A i \in DOMAIN queue : queue[i] \in Changes
  BY <1>4, ElementIs
<1>9. QueueFits'
  <2>1. \A i \in DOMAIN queue' : queue'[i].number > updates'
    BY <1>1, <1>2, <1>7, <1>8 DEF SettingsInvariant, QueueFits, Changes
  <2>2. \A i, j \in DOMAIN queue' : i # j => queue'[i].number # queue'[j].number
    <3>1. \A i \in DOMAIN queue : queue'[i].number = queue[i].number /\ queue[i].number > updates /\ queue[i].number \in Nat
      BY <1>7, <1>8 DEF SettingsInvariant, QueueFits, Changes
    <3>2. queue'[Len(queue) + 1].number = updates
      BY <1>7
    <3>3. \A i, j \in DOMAIN queue : i # j => queue[i].number # queue[j].number
      BY DEF SettingsInvariant, QueueFits
    <3> QED
      BY <1>2, <1>7, <3>1, <3>2, <3>3
  <2>3. ASSUME NEW i \in DOMAIN queue', latest'[queue'[i].window][queue'[i].key] = queue'[i].number
        PROVE  optimistic'[queue'[i].window][queue'[i].key] = queue'[i].value
    <3>1. CASE i \in DOMAIN queue
      <4>1. queue'[i] = queue[i] /\ queue[i].window \in Windows /\ queue[i].key \in Keys /\ queue[i].number \in Nat
        BY <1>7, <1>8, <3>1 DEF Changes
      <4>2. queue[i].number > updates
        BY <3>1 DEF SettingsInvariant, QueueFits
      <4>3. ~(queue[i].window = w /\ queue[i].key = k)
        BY <1>2, <1>5, <2>3, <4>1, <4>2
      <4>4. /\ latest[queue[i].window][queue[i].key] = queue[i].number
            /\ optimistic'[queue[i].window][queue[i].key] = optimistic[queue[i].window][queue[i].key]
        BY <1>5, <1>6, <2>3, <4>1, <4>3
      <4>5. optimistic[queue[i].window][queue[i].key] = queue[i].value
        BY <3>1, <4>4 DEF SettingsInvariant, QueueFits
      <4> QED
        BY <4>1, <4>4, <4>5
    <3>2. CASE i \notin DOMAIN queue
      <4>1. queue'[i] = c
        BY <1>7, <3>2
      <4> QED
        BY <1>6, <4>1
    <3> QED
      BY <3>1, <3>2
  <2> QED
    BY <1>7, <2>1, <2>2, <2>3 DEF QueueFits
<1>10. LayoutFits'
  <2>1. failed' \in [Windows -> SUBSET Keys]
    BY <1>1 DEF SettingsInvariant, LayoutFits
  <2>2. stored' \in 0..Len(log') /\ (stored' > 0 => queue' # <<>>)
    BY <1>1, <1>7 DEF SettingsInvariant, LayoutFits, Settings!Revision
  <2> QED
    BY <1>2, <1>5, <1>6, <2>1, <2>2 DEF LayoutFits, Settings!Revision
<1>11. DatabaseFits' /\ ViewFits'
  BY <1>1 DEF SettingsInvariant, DatabaseFits, ViewFits, Settings!PatchesSurvive, Settings!ValueAt,
     Settings!Revision
<1> QED
  BY <1>9, <1>10, <1>11 DEF SettingsInvariant

\* The patch of the first one is merged into what is stored.
LEMMA StorePatchKeeps == ASSUME SettingsInvariant, Settings!StorePatch PROVE SettingsInvariant'
<1> DEFINE c == Head(queue)
           old == Settings!ValueAt(Settings!Revision)
<1>1. /\ queue # <<>> /\ log' = Append(log, [old EXCEPT ![c.key] = c.value])
      /\ merged' = [merged EXCEPT ![c.key] = c.value] /\ stored' = Len(log') /\ Settings!NoFault
      /\ UNCHANGED <<boot, first, cached, reading, requested, inbox, missed, queue, optimistic, latest, failed, updates>>
  BY DEF Settings!StorePatch, Settings!view, Settings!layout
<1>2. /\ log \in Seq([Keys -> Values]) /\ merged \in [Keys -> Values] /\ old = merged /\ Len(log) \in Nat
      /\ queue \in Seq(Changes)
  BY DEF SettingsInvariant, DatabaseFits, QueueFits, Settings!PatchesSurvive
<1>3. c \in Changes
  BY <1>1, <1>2
<1>4. PICK new \in [Keys -> Values] : new = [merged EXCEPT ![c.key] = c.value]
  BY <1>2, <1>3 DEF Changes
<1> HIDE DEF c, old
<1>5. log' = Append(log, new) /\ merged' = new
  BY <1>1, <1>2, <1>4
<1>6. log' \in Seq([Keys -> Values]) /\ Len(log') = Len(log) + 1 /\ log'[Len(log')] = new
  BY <1>2, <1>5, AppendIs
<1>7. DatabaseFits'
  <2>1. Len(log') # 0
    BY <1>2, <1>6
  <2> QED
    BY <1>5, <1>6, <2>1 DEF DatabaseFits, Settings!PatchesSurvive, Settings!ValueAt, Settings!Revision
<1>8. ViewFits'
  <2>1. ViewFits /\ Len(log') \in Nat /\ Len(log) <= Len(log')
    BY <1>2, <1>6 DEF SettingsInvariant
  <2>2. /\ boot \in [Windows -> {"no", "reading", "read", "ready", "failed"}] /\ requested \in [Windows -> BOOLEAN]
        /\ missed \in [Windows -> BOOLEAN]
    BY DEF SettingsInvariant, ViewFits
  <2> QED
    BY <1>1, <1>2, <2>1, <2>2, RevisionsStay, ViewFitsIs
<1>9. QueueFits'
  BY <1>1 DEF SettingsInvariant, QueueFits
<1>10. LayoutFits'
  <2>1. stored' \in 0..Len(log') /\ faults' \in 0..MaxRefusals
    BY <1>1, <1>2, <1>6, FaultsFit DEF SettingsInvariant
  <2> QED
    BY <1>1, <2>1 DEF SettingsInvariant, LayoutFits, Settings!Revision
<1> QED
  BY <1>7, <1>8, <1>9, <1>10 DEF SettingsInvariant

\* Its update returns: only its own change is forgotten, since numbers are not used twice.
LEMMA StoredReturnsKeeps == ASSUME SettingsInvariant, Settings!StoredReturns PROVE SettingsInvariant'
<1>1. /\ stored > 0 /\ queue' = Tail(queue) /\ stored' = 0 /\ queue # <<>> /\ (Settings!Fault \/ Settings!NoFault)
      /\ UNCHANGED <<log, merged, boot, first, reading, requested, latest, failed, updates>>
  BY DEF Settings!StoredReturns, SettingsInvariant, LayoutFits
<1>2. queue \in Seq(Changes) /\ 1 \in DOMAIN queue /\ Head(queue) = queue[1]
  BY <1>1 DEF SettingsInvariant, QueueFits
<1>3. PICK c \in Changes : c = Head(queue) /\ c = queue[1]
  BY <1>2, ElementIs
<1>4. c.window \in Windows /\ c.key \in Keys
  BY DEF Changes
<1>5. PICK n \in Nat : n = Len(log) /\ n = Len(log')
  BY <1>1, ElementIs DEF SettingsInvariant, DatabaseFits
<1>6. /\ first \in [Windows -> 0..n] /\ cached \in [Windows -> 0..n] /\ reading \in [Windows -> -1..n]
      /\ requested \in [Windows -> BOOLEAN] /\ inbox \in [Windows -> SUBSET (0..n)] /\ missed \in [Windows -> BOOLEAN]
      /\ boot \in [Windows -> {"no", "reading", "read", "ready", "failed"}] /\ stored \in 0..n
  BY <1>5, SettingsAssumed DEF SettingsInvariant, ViewFits, LayoutFits
<1>7. DatabaseFits'
  BY <1>1 DEF SettingsInvariant, DatabaseFits, Settings!PatchesSurvive, Settings!ValueAt, Settings!Revision
<1>8. ViewFits'
  <2>1. cached' \in [Windows -> 0..n]
    <3>1. cached' = [cached EXCEPT ![c.window] = IF stored > @ THEN stored ELSE @]
      BY <1>3 DEF Settings!StoredReturns
    <3> QED
      BY <1>4, <1>6, <3>1
  <2>2. inbox' \in [Windows -> SUBSET (0..n)]
    <3>1. UNCHANGED inbox \/ \E others : inbox' = [o \in Windows |-> IF o \in others THEN inbox[o] \cup {stored} ELSE inbox[o]]
      BY DEF Settings!StoredReturns
    <3> QED
      BY <1>6, <3>1
  <2>3. missed' \in [Windows -> BOOLEAN]
    <3>1. \/ missed' = [missed EXCEPT ![c.window] = @ /\ stored # Len(log)]
          \/ \E others : missed' = [o \in Windows |-> IF o \in others THEN TRUE ELSE missed[o]]
      BY <1>3 DEF Settings!StoredReturns
    <3>2. CASE missed' = [missed EXCEPT ![c.window] = @ /\ stored # Len(log)]
      BY <1>4, <1>6, <3>2, Zenon
    <3>3. ASSUME NEW others, missed' = [o \in Windows |-> IF o \in others THEN TRUE ELSE missed[o]]
          PROVE  missed' \in [Windows -> BOOLEAN]
      BY <1>6, <3>3
    <3> QED
      BY <3>1, <3>2, <3>3
  <2> QED
    BY <1>1, <1>5, <1>6, <2>1, <2>2, <2>3, ViewFitsIs
<1>9. /\ latest \in [Windows -> [Keys -> Nat]] /\ optimistic \in [Windows -> [Keys -> Values \cup {None}]]
  BY DEF SettingsInvariant, LayoutFits
<1>10. /\ optimistic' \in [Windows -> [Keys -> Values \cup {None}]]
       /\ \A o \in Windows, l \in Keys :
            optimistic'[o][l] = optimistic[o][l] \/ (o = c.window /\ l = c.key /\ latest[o][l] = c.number)
  <2>1. optimistic' = IF latest[c.window][c.key] = c.number
                      THEN [optimistic EXCEPT ![c.window][c.key] = None] ELSE optimistic
    BY <1>3 DEF Settings!StoredReturns, Settings!Forget
  <2>2. CASE latest[c.window][c.key] = c.number
    <3>1. None \in Values \cup {None} /\ optimistic' = [optimistic EXCEPT ![c.window][c.key] = None]
      BY <2>1, <2>2
    <3> QED
      BY <1>4, <1>9, <2>2, <3>1, KeyIsSet
  <2>3. CASE latest[c.window][c.key] # c.number
    BY <1>9, <2>1, <2>3
  <2> QED
    BY <2>2, <2>3
<1>11. QueueFits'
  <2>1. queue' \in Seq(Changes) /\ Without(queue', queue, 1)
    BY <1>1, <1>2, TailIs
  <2>2. /\ \A j \in DOMAIN queue' : queue'[j].number > updates'
        /\ \A j, l \in DOMAIN queue' : j # l => queue'[j].number # queue'[l].number
        /\ \A j \in DOMAIN queue' : \E l \in DOMAIN queue : l # 1 /\ queue'[j] = queue[l]
    BY <1>1, <1>2, <2>1, QueueShrinks DEF SettingsInvariant
  <2>3. ASSUME NEW i \in DOMAIN queue', latest'[queue'[i].window][queue'[i].key] = queue'[i].number
        PROVE  optimistic'[queue'[i].window][queue'[i].key] = queue'[i].value
    <3>1. PICK l \in DOMAIN queue : l # 1 /\ queue'[i] = queue[l]
      BY <2>2
    <3>2. PICK d \in Changes : d = queue[l]
      BY <1>2, ElementIs
    <3>3. d.window \in Windows /\ d.key \in Keys /\ latest[d.window][d.key] = d.number
      BY <1>1, <2>3, <3>1, <3>2 DEF Changes
    <3>4. optimistic[d.window][d.key] = d.value
      BY <3>2, <3>3 DEF SettingsInvariant, QueueFits
    <3>5. d.number # c.number
      BY <1>2, <1>3, <3>1, <3>2 DEF SettingsInvariant, QueueFits
    <3> QED
      BY <1>10, <3>1, <3>2, <3>3, <3>4, <3>5
  <2> QED
    BY <2>1, <2>2, <2>3 DEF QueueFits
<1>12. LayoutFits'
  <2>1. faults' \in 0..MaxRefusals
    BY <1>1, FaultsFit DEF SettingsInvariant
  <2>2. stored' \in 0..Len(log') /\ ~(stored' > 0)
    BY <1>1, <1>5
  <2> QED
    BY <1>1, <1>10, <2>1, <2>2 DEF SettingsInvariant, LayoutFits, Settings!Revision
<1> QED
  BY <1>7, <1>8, <1>11, <1>12 DEF SettingsInvariant

\* An update that fails leaves the queue; what its window shows stays.
LEMMA UpdateFailsKeeps == ASSUME SettingsInvariant, NEW i, Settings!UpdateFails(i) PROVE SettingsInvariant'
<1>1. /\ i \in DOMAIN queue /\ (i = 1 => stored = 0) /\ queue' = Settings!RemoveAt(queue, i) /\ Settings!Fault
      /\ UNCHANGED <<log, merged, boot, first, cached, reading, requested, inbox, missed, stored, optimistic, latest, updates>>
  BY DEF Settings!UpdateFails, Settings!view
<1>2. queue \in Seq(Changes)
  BY DEF SettingsInvariant, QueueFits
<1>3. PICK c \in Changes : c = queue[i]
  BY <1>1, <1>2, ElementIs
<1>4. queue' \in Seq(Changes) /\ Without(queue', queue, i)
  BY <1>1, <1>2, RemoveAtIs
<1>5. QueueFits'
  <2>1. /\ \A j \in DOMAIN queue' : queue'[j].number > updates'
        /\ \A j, l \in DOMAIN queue' : j # l => queue'[j].number # queue'[l].number
        /\ \A j \in DOMAIN queue' : \E l \in DOMAIN queue : l # i /\ queue'[j] = queue[l]
    BY <1>1, <1>4, QueueShrinks DEF SettingsInvariant
  <2>2. \A j \in DOMAIN queue' :
          latest'[queue'[j].window][queue'[j].key] = queue'[j].number =>
            optimistic'[queue'[j].window][queue'[j].key] = queue'[j].value
    BY <1>1, <2>1 DEF SettingsInvariant, QueueFits
  <2> QED
    BY <1>4, <2>1, <2>2 DEF QueueFits
<1>6. LayoutFits'
  <2>1. failed' \in [Windows -> SUBSET Keys]
    <3>1. failed' = [failed EXCEPT ![c.window] = IF latest[c.window][c.key] = c.number THEN @ \cup {c.key} ELSE @]
      BY <1>3 DEF Settings!UpdateFails
    <3>2. c.window \in Windows /\ c.key \in Keys /\ failed \in [Windows -> SUBSET Keys]
      BY DEF Changes, SettingsInvariant, LayoutFits
    <3> QED
      BY <3>1, <3>2
  <2>2. stored > 0 => queue' # <<>>
    <3>1. stored \in Nat /\ Len(queue) \in Nat /\ i \in 1..Len(queue)
      BY <1>1, <1>2, ElementIs, SettingsAssumed DEF SettingsInvariant, LayoutFits
    <3>2. Len(queue') = Len(queue) - 1
      BY <1>4 DEF Without
    <3>3. stored > 0 => i # 1
      BY <1>1, <3>1
    <3> QED
      BY <3>1, <3>2, <3>3
  <2>3. faults' \in 0..MaxRefusals
    BY <1>1, FaultsFit DEF SettingsInvariant
  <2> QED
    BY <1>1, <2>1, <2>2, <2>3 DEF SettingsInvariant, LayoutFits, Settings!Revision
<1>7. DatabaseFits' /\ ViewFits'
  BY <1>1 DEF SettingsInvariant, DatabaseFits, ViewFits, Settings!PatchesSurvive, Settings!ValueAt,
     Settings!Revision
<1> QED
  BY <1>5, <1>6, <1>7 DEF SettingsInvariant

\* Every step of the preferences keeps the invariant.
LEMMA SettingsInvariantStep ==
  ASSUME SettingsInvariant, [Settings!Next]_(Settings!vars) PROVE SettingsInvariant'
<1>1. ASSUME NEW w \in Windows, Settings!Reader(w) \/ Settings!Focus(w) \/ Settings!Remount(w) \/ Settings!BootFails(w)
                              \/ Settings!ReadFails(w)
      PROVE  SettingsInvariant'
  BY <1>1, BootKeeps, NewsKeeps, ReadKeeps DEF Settings!Reader
<1>2. ASSUME NEW w \in Windows, NEW k \in Keys, NEW v \in Values, Settings!Update(w, k, v) PROVE SettingsInvariant'
  BY <1>2, UpdateKeeps
<1>3. CASE Settings!Writer
  BY <1>3, StorePatchKeeps, StoredReturnsKeeps DEF Settings!Writer
<1>4. ASSUME NEW i, Settings!UpdateFails(i) PROVE SettingsInvariant'
  BY <1>4, UpdateFailsKeeps
<1>5. CASE UNCHANGED Settings!vars
  BY <1>5 DEF Settings!vars, Settings!view, Settings!layout, SettingsInvariant, DatabaseFits, ViewFits,
     QueueFits, LayoutFits,
              Settings!PatchesSurvive, Settings!ValueAt, Settings!Revision
<1> QED
  BY <1>1, <1>2, <1>3, <1>4, <1>5 DEF Settings!Next, Settings!Quiet

\* A new database is empty, and no window has read it.
LEMMA SettingsInvariantInit == ASSUME Settings!Init PROVE SettingsInvariant
<1>1. log = <<>> /\ Len(log) = 0 /\ log \in Seq([Keys -> Values]) /\ queue = <<>> /\ DOMAIN queue = {} /\ queue \in Seq(Changes)
  BY DEF Settings!Init
<1>2. DatabaseFits
  BY <1>1, SettingsAssumed DEF DatabaseFits, Settings!Init, Settings!PatchesSurvive, Settings!ValueAt,
     Settings!Revision
<1>3. ViewFits
  BY <1>1, SettingsAssumed DEF ViewFits, Settings!Init
<1>4. QueueFits
  BY <1>1 DEF QueueFits
<1>5. LayoutFits
  BY <1>1, SettingsAssumed DEF LayoutFits, Settings!Init
<1> QED
  BY <1>2, <1>3, <1>4, <1>5 DEF SettingsInvariant

\* No step takes a window back to an older revision.
LEMMA RevisionsGrowStep ==
  ASSUME SettingsInvariant, [Settings!Next]_(Settings!vars), NEW w \in Windows PROVE cached'[w] >= cached[w]
<1>1. cached \in [Windows -> 0..Settings!Revision] /\ Settings!Revision \in Nat
  BY ElementIs, SettingsAssumed DEF SettingsInvariant, ViewFits, DatabaseFits
<1>2. cached[w] \in Int
  BY <1>1
<1>3. CASE UNCHANGED cached
  BY <1>2, <1>3
<1>4. ASSUME NEW o, NEW r \in Int, cached' = [cached EXCEPT ![o] = IF r > @ THEN r ELSE @] PROVE cached'[w] >= cached[w]
  <2>1. cached'[w] = IF o = w /\ r > cached[w] THEN r ELSE cached[w]
    BY <1>1, <1>4
  <2> QED
    BY <1>2, <2>1
<1>5. stored \in Int /\ \A o \in Windows : first[o] \in Int /\ reading[o] \in Int
  BY <1>1, SettingsAssumed DEF SettingsInvariant, ViewFits, LayoutFits
<1>6. UNCHANGED cached \/ \E o, r : r \in {stored, first[o], reading[o]} /\ (r = stored \/ o \in Windows)
                                /\ cached' = [cached EXCEPT ![o] = IF r > @ THEN r ELSE @]
  BY DEF Settings!Next, Settings!Reader, Settings!Writer, Settings!StartBoot, Settings!BootReads, Settings!Boot,
     Settings!BootFails, Settings!Remount,
     Settings!Hear, Settings!Focus, Settings!Read, Settings!ReadReturns, Settings!ReadFails, Settings!Publish,
     Settings!Update, Settings!StorePatch, Settings!StoredReturns, Settings!UpdateFails, Settings!Quiet,
     Settings!vars, Settings!view
<1> QED
  BY <1>3, <1>4, <1>5, <1>6

-----------------------------------------------------------------------------
(* The segments of captions that are translated. *)

\* A row of the store.
RowTypes == [chinese : BOOLEAN, failed : BOOLEAN, tries : 0..Translator!Attempts,
             lease : 1..(leases - 1) \cup {None}, expired : BOOLEAN]

\* Rows have leases of their own, translated ones none, and a lease is a try.
RowsFit ==
  /\ segments \in [Segments -> RowTypes] /\ leases \in Nat \ {0}
  /\ \A i, j \in Segments : i # j /\ segments[i].lease # None => segments[i].lease # segments[j].lease
  /\ \A i \in Segments : /\ segments[i].chinese => segments[i].lease = None
                         /\ segments[i].lease # None => segments[i].tries \in 1..Translator!Attempts

\* The loop works under the lease its row has, and the jobs it left have others.
JobsFit ==
  /\ consumer \in [open : BOOLEAN, step : {"claim", "translate", "complete"}, job : {consumer.job}]
  /\ consumer.step # "claim" <=> consumer.job # None
  /\ consumer.job # None =>
       /\ consumer.job.id \in Segments /\ consumer.job.lease \in 1..(leases - 1)
       /\ ~segments[consumer.job.id].chinese /\ segments[consumer.job.id].lease = consumer.job.lease
       /\ consumer.step = "complete" => consumer.job.chinese \in BOOLEAN
  /\ \A job \in abandoned :
       /\ job.id \in Segments /\ job.lease \in 1..(leases - 1) /\ job.chinese \in BOOLEAN
       /\ consumer.job # None => job.lease # consumer.job.lease

BudgetFits == engine \in BOOLEAN /\ \A what \in DOMAIN budget : budget[what] \in Nat

TranslatorInvariant == RowsFit /\ JobsFit /\ BudgetFits

\* What is assumed of segments.
LEMMA TranslatorAssumed ==
  /\ Segments \subseteq Nat /\ None \notin Nat /\ {MaxVisits, MaxRetries, MaxErrors, MaxNaps} \subseteq Nat
  /\ Translator!Attempts = 3
  /\ \A i \in Segments, n \in Nat : [id |-> i, lease |-> n] # None
  /\ \A i \in Segments, n \in Nat, b \in BOOLEAN : [id |-> i, lease |-> n, chinese |-> b] # None
BY PartsAssumption DEF Translator!TranslatorAssumption, Translator!Attempts

\* The invariant is what the run checks.
LEMMA TranslatorInvariantSuffices == ASSUME TranslatorInvariant PROVE Translator!TranslatorIsSound
<1> USE DEF TranslatorInvariant
<1>1. consumer.open \in BOOLEAN /\ engine \in BOOLEAN
  BY DEF JobsFit, BudgetFits
<1>2. \A job \in abandoned \cup ({consumer.job} \ {None}) : job.id \in Segments /\ job.lease < leases
  BY DEF JobsFit, RowsFit
<1>3. Translator!TypeOK
  BY <1>1, <1>2 DEF RowsFit, RowTypes, BudgetFits, Translator!TypeOK
<1> QED
  BY <1>3 DEF RowsFit, JobsFit, Translator!TranslatorIsSound

\* A set of numbers has a least one: the sets of what precedes a number cannot shrink for ever.
LEMMA LeastExists == ASSUME NEW S \in SUBSET Nat, S # {} PROVE \E x \in S : \A y \in S : x <= y
<1> DEFINE Upto(x) == {y \in S : y <= x}
           Firsts == {Upto(x) : x \in S}
<1>1. \A x \in S : Upto(x) \subseteq S /\ IsFiniteSet(Upto(x))
  <2> SUFFICES ASSUME NEW x \in S PROVE Upto(x) \subseteq S /\ IsFiniteSet(Upto(x))
    OBVIOUS
  <2>1. x \in Nat /\ \A y \in S : y \in Nat
    OBVIOUS
  <2>2. \A y \in Upto(x) : y \in 0..x
    BY <2>1
  <2>3. Upto(x) \subseteq 0..x
    BY <2>2
  <2>4. Upto(x) \subseteq S
    OBVIOUS
  <2> HIDE DEF Upto, Firsts
  <2>5. IsFiniteSet(0..x)
    BY <2>1, FS_Interval
  <2> QED
    BY <2>3, <2>4, <2>5, FS_Subset
<1>2. Firsts \subseteq FiniteSubsetsOf(S)
  BY <1>1 DEF FiniteSubsetsOf
<1>3. PICK P \in Firsts : \A Q \in Firsts : <<Q, P>> \notin StrictSubsetOrdering(S)
  <2>1. Firsts # {} /\ IsWellFoundedOn(StrictSubsetOrdering(S), FiniteSubsetsOf(S))
    BY FS_StrictSubsetOrderingWellFounded
  <2> HIDE DEF Firsts
  <2> QED
    BY <1>2, <2>1, WFMin
<1>4. PICK x \in S : P = Upto(x)
  OBVIOUS
<1>5. ASSUME NEW y \in S PROVE x <= y
  <2> SUFFICES ASSUME y < x PROVE FALSE
    OBVIOUS
  <2>1. x \in Nat /\ y \in Nat /\ \A z \in S : z \in Nat
    OBVIOUS
  <2>2. Upto(y) \subseteq Upto(x)
    <3> HIDE DEF Firsts
    <3>1. \A z \in Upto(y) : z \in S /\ z \in Nat /\ z <= y
      BY <2>1
    <3>2. \A z \in Upto(y) : z <= x
      BY <2>1, <3>1
    <3> QED
      BY <3>1, <3>2
  <2>3. x \in Upto(x) /\ x \notin Upto(y)
    BY <2>1
  <2> HIDE DEF Upto, Firsts
  <2>4. <<Upto(y), Upto(x)>> \in StrictSubsetOrdering(S)
    BY <1>1, <2>2, <2>3 DEF StrictSubsetOrdering
  <2>5. Upto(y) \in Firsts
    BY DEF Firsts
  <2> QED
    BY <1>3, <1>4, <2>4, <2>5
<1> QED
  BY <1>5

\* So the first segment that waits is one of them.
LEMMA MinIsIn == ASSUME NEW S \in SUBSET Segments, S # {} PROVE Translator!Min(S) \in S
<1>1. S \in SUBSET Nat
  BY TranslatorAssumed
<1>2. \E x \in S : \A y \in S : x <= y
  BY <1>1, LeastExists
<1> QED
  BY <1>2 DEF Translator!Min

\* A step that takes leases away, or leaves them, keeps the rows sound.
LEMMA RowsStay ==
  ASSUME RowsFit, UNCHANGED leases, segments' \in [Segments -> RowTypes],
         \A i \in Segments : /\ segments'[i].lease \in {segments[i].lease, None}
                             /\ segments'[i].chinese => segments'[i].lease = None
                             /\ segments'[i].lease # None => segments'[i].tries = segments[i].tries
  PROVE  RowsFit'
<1>1. RowTypes' = RowTypes
  BY DEF RowTypes
<1> QED
  BY <1>1 DEF RowsFit

\* A budget is spent.
LEMMA SpendFits ==
  ASSUME BudgetFits, NEW what, Translator!Spend(what) \/ UNCHANGED budget, engine' \in BOOLEAN PROVE BudgetFits'
<1>1. CASE UNCHANGED budget
  BY <1>1 DEF BudgetFits
<1>2. CASE Translator!Spend(what)
  <2>1. budget[what] > 0 /\ budget' = [budget EXCEPT ![what] = @ - 1]
    BY <1>2 DEF Translator!Spend
  <2>2. ASSUME NEW v \in DOMAIN budget' PROVE budget'[v] \in Nat
    <3>1. v \in DOMAIN budget /\ budget[v] \in Nat /\ budget'[v] = IF v = what THEN budget[v] - 1 ELSE budget[v]
      BY <2>1 DEF BudgetFits
    <3> QED
      BY <2>1, <3>1
  <2> QED
    BY <2>2 DEF BudgetFits
<1> QED
  BY <1>1, <1>2

\* What every step does: it keeps the invariant, and takes no lease that lasts and no translation away.
TranslatorKept == TranslatorInvariant' /\ Translator!LeasesLast

\* The loop goes on with the job it has, if its row is left alone.
LEMMA JobsStay ==
  ASSUME JobsFit, UNCHANGED <<leases, consumer>>, abandoned' \subseteq abandoned,
         consumer.job # None =>
           /\ segments'[consumer.job.id].chinese = segments[consumer.job.id].chinese
           /\ segments'[consumer.job.id].lease = segments[consumer.job.id].lease
  PROVE  JobsFit'
BY DEF JobsFit

\* It is done with its job, or is another one.
LEMMA JobsEnd ==
  ASSUME JobsFit, UNCHANGED leases, NEW b \in BOOLEAN, consumer' = [open |-> b, step |-> "claim", job |-> None],
         \A job \in abandoned' : job \in abandoned \/ (job = consumer.job /\ consumer.step = "complete")
  PROVE  JobsFit'
<1>1. consumer'.job = None /\ consumer'.step = "claim"
  OBVIOUS
<1>2. consumer' \in [open : BOOLEAN, step : {"claim", "translate", "complete"}, job : {consumer'.job}]
  OBVIOUS
<1>3. consumer.step = "complete" => consumer.job # None
  BY DEF JobsFit
<1>4. \A job \in abandoned' : job.id \in Segments /\ job.lease \in 1..(leases - 1) /\ job.chinese \in BOOLEAN
  BY <1>3 DEF JobsFit
<1> QED
  BY <1>1, <1>2, <1>4 DEF JobsFit

\* Rows that only lose what no longer counts.
LEMMA RowsUnchanged == ASSUME RowsFit, UNCHANGED <<segments, leases>> PROVE RowsFit' /\ Translator!LeasesLast
BY DEF RowsFit, RowTypes, Translator!LeasesLast

\* What is untranslated is tried again.
LEMMA RetryKeeps == ASSUME TranslatorInvariant, Translator!Retry PROVE TranslatorKept
<1>1. /\ Translator!Spend("retries") /\ UNCHANGED <<leases, consumer, abandoned, engine>>
      /\ segments' = [i \in Segments |-> IF ~segments[i].chinese /\ segments[i].lease = None
                                          THEN [segments[i] EXCEPT !.tries = 0, !.failed = FALSE] ELSE segments[i]]
      /\ segments \in [Segments -> RowTypes]
  BY DEF Translator!Retry, TranslatorInvariant, RowsFit
<1>2. \A i \in Segments : /\ segments[i] \in RowTypes
                          /\ segments'[i] = IF ~segments[i].chinese /\ segments[i].lease = None
                                             THEN [segments[i] EXCEPT !.tries = 0, !.failed = FALSE] ELSE segments[i]
  BY <1>1
<1>3. \A i \in Segments : [segments[i] EXCEPT !.tries = 0, !.failed = FALSE] \in RowTypes
  <2>1. 0 \in 0..Translator!Attempts
    BY TranslatorAssumed
  <2> QED
    BY <1>2, <2>1 DEF RowTypes
<1>4. segments' \in [Segments -> RowTypes]
  BY <1>1, <1>2, <1>3
<1>5. \A i \in Segments : /\ segments'[i].lease = segments[i].lease /\ segments'[i].chinese = segments[i].chinese
                          /\ segments[i].chinese \/ segments[i].lease # None => segments'[i] = segments[i]
  BY <1>2 DEF RowTypes
<1>6. RowsFit'
  BY <1>1, <1>4, <1>5, RowsStay DEF TranslatorInvariant, RowsFit
<1>7. JobsFit'
  BY <1>1, <1>5, JobsStay DEF TranslatorInvariant, JobsFit
<1>8. BudgetFits'
  BY <1>1, SpendFits DEF TranslatorInvariant, BudgetFits
<1> QED
  BY <1>5, <1>6, <1>7, <1>8 DEF TranslatorInvariant, TranslatorKept, Translator!LeasesLast

\* A lease runs out.
LEMMA ExpireKeeps == ASSUME TranslatorInvariant, NEW i \in Segments, Translator!Expire(i) PROVE TranslatorKept
<1>1. /\ segments[i].lease # None /\ segments' = [segments EXCEPT ![i].expired = TRUE]
      /\ Translator!Spend("naps") \/ UNCHANGED budget
      /\ UNCHANGED <<leases, consumer, abandoned, engine>> /\ segments \in [Segments -> RowTypes]
  BY DEF Translator!Expire, TranslatorInvariant, RowsFit
<1>2. [segments[i] EXCEPT !.expired = TRUE] \in RowTypes
  BY <1>1 DEF RowTypes
<1>3. segments' \in [Segments -> RowTypes]
  BY <1>1, <1>2
<1>4. ~segments[i].chinese
  BY <1>1 DEF TranslatorInvariant, RowsFit
<1>5. \A j \in Segments : /\ segments'[j].lease = segments[j].lease /\ segments'[j].chinese = segments[j].chinese
                          /\ segments'[j].tries = segments[j].tries
                          /\ segments[j].chinese => segments'[j] = segments[j]
  BY <1>1, <1>4 DEF RowTypes
<1>6. RowsFit'
  BY <1>1, <1>3, <1>5, RowsStay DEF TranslatorInvariant, RowsFit
<1>7. JobsFit'
  BY <1>1, <1>5, JobsStay DEF TranslatorInvariant, JobsFit
<1>8. BudgetFits'
  BY <1>1, SpendFits DEF TranslatorInvariant, BudgetFits
<1> QED
  BY <1>5, <1>6, <1>7, <1>8 DEF TranslatorInvariant, TranslatorKept, Translator!LeasesLast

\* The desktop starts again.
LEMMA TranslatorRestartKeeps == ASSUME TranslatorInvariant, Translator!Restart PROVE TranslatorKept
<1>1. /\ Translator!Spend("visits") /\ UNCHANGED leases /\ abandoned' = {} /\ engine' = FALSE
      /\ segments' = [i \in Segments |-> IF segments[i].chinese THEN segments[i]
                                          ELSE [segments[i] EXCEPT !.lease = None, !.expired = FALSE]]
      /\ consumer' = [open |-> TRUE, step |-> "claim", job |-> None] /\ segments \in [Segments -> RowTypes]
  BY DEF Translator!Restart, TranslatorInvariant, RowsFit
<1>2. \A i \in Segments : /\ segments[i] \in RowTypes
                          /\ segments'[i] = IF segments[i].chinese THEN segments[i]
                                             ELSE [segments[i] EXCEPT !.lease = None, !.expired = FALSE]
  BY <1>1
<1>3. \A i \in Segments : [segments[i] EXCEPT !.lease = None, !.expired = FALSE] \in RowTypes
  BY <1>2 DEF RowTypes
<1>4. segments' \in [Segments -> RowTypes]
  BY <1>1, <1>2, <1>3
<1>5. \A i \in Segments : /\ segments'[i].lease = None /\ segments'[i].chinese = segments[i].chinese
                          /\ segments[i].chinese => segments'[i] = segments[i]
  <2>1. \A i \in Segments : segments[i].chinese => segments'[i] = segments[i] /\ segments[i].lease = None
    BY <1>2 DEF TranslatorInvariant, RowsFit
  <2>2. \A i \in Segments : ~segments[i].chinese => segments'[i].lease = None /\ segments'[i].chinese = segments[i].chinese
    BY <1>2 DEF RowTypes
  <2> QED
    BY <2>1, <2>2
<1>6. RowsFit'
  BY <1>1, <1>4, <1>5, RowsStay DEF TranslatorInvariant, RowsFit
<1>7. JobsFit'
  BY <1>1, JobsEnd DEF TranslatorInvariant
<1>8. BudgetFits'
  BY <1>1, SpendFits DEF TranslatorInvariant
<1> QED
  BY <1>5, <1>6, <1>7, <1>8 DEF TranslatorInvariant, TranslatorKept, Translator!LeasesLast

\* The store changes a row when a job of its lease completes.
LEMMA CompletedFits ==
  ASSUME RowsFit, UNCHANGED leases, NEW job, job.id \in Segments, job.lease \in 1..(leases - 1), job.chinese \in BOOLEAN,
         segments' = Translator!Completed(job, job.chinese)
  PROVE  /\ RowsFit' /\ Translator!LeasesLast
         /\ \A i \in Segments : segments'[i] = segments[i] \/ (i = job.id /\ segments[i].lease = job.lease)
<1>1. segments \in [Segments -> RowTypes] /\ job.lease # None
  BY TranslatorAssumed DEF RowsFit
<1>2. CASE UNCHANGED segments
  BY <1>2, RowsUnchanged
<1>3. CASE /\ segments[job.id].lease = job.lease
           /\ segments' = [segments EXCEPT ![job.id] = [@ EXCEPT !.chinese = job.chinese, !.failed = ~job.chinese, !.lease = None]]
  <2> DEFINE r == [segments[job.id] EXCEPT !.chinese = job.chinese, !.failed = ~job.chinese, !.lease = None]
  <2>1. segments[job.id] \in RowTypes
    BY <1>1
  <2>2. r.lease = None /\ r \in RowTypes
    <3>1. PICK b \in BOOLEAN : b = job.chinese
      OBVIOUS
    <3>2. r = [segments[job.id] EXCEPT !.chinese = b, !.failed = ~b, !.lease = None]
      BY <3>1
    <3>3. PICK d \in BOOLEAN : d = ~b
      BY Zenon
    <3>4. r = [segments[job.id] EXCEPT !.chinese = b, !.failed = d, !.lease = None]
      BY <3>2, <3>3
    <3> HIDE DEF r
    <3> QED
      BY <2>1, <3>4 DEF RowTypes
  <2>3. segments' = [segments EXCEPT ![job.id] = r]
    BY <1>3
  <2> HIDE DEF r
  <2>4. segments' \in [Segments -> RowTypes] /\ segments'[job.id] = r /\ \A i \in Segments : i # job.id => segments'[i] = segments[i]
    BY <1>1, <2>2, <2>3
  <2>5. RowsFit'
    BY <2>2, <2>4, RowsStay DEF RowsFit
  <2>6. ~segments[job.id].chinese
    BY <1>1, <1>3 DEF RowsFit
  <2> QED
    BY <1>3, <2>2, <2>4, <2>5, <2>6 DEF Translator!LeasesLast
<1> QED
  BY <1>2, <1>3 DEF Translator!Completed

\* The loop claims a segment, under a lease that is on no other.
LEMMA TranslatorClaimKeeps == ASSUME TranslatorInvariant, Translator!Claim PROVE TranslatorKept
<1> DEFINE claimable == {i \in Segments : Translator!Waiting(segments[i])}
           m == Translator!Min(claimable)
<1>1. /\ consumer.open /\ consumer.step = "claim" /\ claimable # {} /\ leases' = leases + 1
      /\ segments' = Translator!Claimed(m) /\ Translator!At("translate", [id |-> m, lease |-> leases])
      /\ UNCHANGED <<abandoned, engine, budget>>
  BY DEF Translator!Claim
<1>2. m \in Segments /\ Translator!Waiting(segments[m])
  <2>1. m \in claimable
    <3> HIDE DEF m
    <3>1. claimable \in SUBSET Segments
      OBVIOUS
    <3> HIDE DEF claimable
    <3> QED
      BY <1>1, <3>1, MinIsIn DEF m
  <2> QED
    BY <2>1
<1> HIDE DEF claimable, m
<1>3. /\ segments \in [Segments -> RowTypes] /\ leases \in Nat \ {0} /\ leases # None /\ leases \in 1..(leases' - 1)
      /\ \A i \in Segments : segments[i] \in RowTypes
  BY <1>1, TranslatorAssumed DEF TranslatorInvariant, RowsFit
<1>4. /\ segments[m].tries \in 0..2 /\ ~segments[m].chinese /\ (segments[m].lease = None \/ segments[m].expired)
  BY <1>2, <1>3, TranslatorAssumed DEF Translator!Waiting, RowTypes
<1> DEFINE r == [segments[m] EXCEPT !.tries = @ + 1, !.lease = leases, !.expired = FALSE]
<1>5. r.lease = leases /\ r.tries \in 1..3 /\ r.chinese = segments[m].chinese /\ r \in RowTypes'
  <2>1. segments[m] \in RowTypes /\ segments[m].tries + 1 \in 0..Translator!Attempts /\ segments[m].tries + 1 \in 1..3
    BY <1>2, <1>3, <1>4, TranslatorAssumed
  <2> QED
    BY <1>3, <2>1 DEF RowTypes
<1>6. segments' = [segments EXCEPT ![m] = r]
  BY <1>1, <1>2, <1>3 DEF Translator!Claimed, RowTypes
<1> HIDE DEF r
<1>7. \A x \in RowTypes : x \in RowTypes'
  <2>1. \A n \in 1..(leases - 1) : n \in 1..(leases' - 1)
    BY <1>1, <1>3
  <2> QED
    BY <2>1 DEF RowTypes
<1>8. segments' \in [Segments -> RowTypes'] /\ segments'[m] = r /\ \A i \in Segments : i # m => segments'[i] = segments[i]
  BY <1>2, <1>3, <1>5, <1>6, <1>7
<1>9. \A i \in Segments : segments[i].lease # leases
  BY <1>3, TranslatorAssumed DEF RowTypes
<1>10. RowsFit'
  <2>1. \A i, j \in Segments : i # j /\ segments'[i].lease # None => segments'[i].lease # segments'[j].lease
    <3>1. \A i, j \in Segments : i # j /\ segments[i].lease # None => segments[i].lease # segments[j].lease
      BY DEF TranslatorInvariant, RowsFit
    <3> QED
      BY <1>5, <1>8, <1>9, <3>1
  <2>2. \A i \in Segments : /\ segments'[i].chinese => segments'[i].lease = None
                            /\ segments'[i].lease # None => segments'[i].tries \in 1..Translator!Attempts
    BY <1>4, <1>5, <1>8, TranslatorAssumed DEF TranslatorInvariant, RowsFit
  <2>3. leases' \in Nat \ {0}
    BY <1>1, <1>3
  <2> QED
    BY <1>8, <2>1, <2>2, <2>3 DEF RowsFit
<1>11. JobsFit'
  <2>1. consumer' = [consumer EXCEPT !.step = "translate", !.job = [id |-> m, lease |-> leases]]
    BY <1>1 DEF Translator!At
  <2>2. consumer \in [open : BOOLEAN, step : {"claim", "translate", "complete"}, job : {consumer.job}]
    BY DEF TranslatorInvariant, JobsFit
  <2>3. /\ consumer'.job = [id |-> m, lease |-> leases] /\ consumer'.step = "translate"
        /\ consumer' \in [open : BOOLEAN, step : {"claim", "translate", "complete"}, job : {consumer'.job}]
    BY <2>1, <2>2
  <2>4. consumer'.job # None /\ consumer'.job.id = m /\ consumer'.job.lease = leases
    <3>1. [id |-> m, lease |-> leases] # None
      BY <1>2, <1>3, TranslatorAssumed
    <3> QED
      BY <2>3, <3>1
  <2>5. \A job \in abandoned : /\ job.id \in Segments /\ job.lease \in 1..(leases' - 1) /\ job.chinese \in BOOLEAN
                               /\ job.lease # leases
    <3>1. \A job \in abandoned : job.id \in Segments /\ job.lease \in 1..(leases - 1) /\ job.chinese \in BOOLEAN
      BY DEF TranslatorInvariant, JobsFit
    <3> QED
      BY <1>1, <1>3, <3>1
  <2> QED
    BY <1>1, <1>2, <1>3, <1>4, <1>5, <1>8, <2>3, <2>4, <2>5 DEF JobsFit
<1>12. BudgetFits'
  BY <1>1 DEF TranslatorInvariant, BudgetFits
<1>13. Translator!LeasesLast
  BY <1>4, <1>8 DEF Translator!LeasesLast
<1> QED
  BY <1>10, <1>11, <1>12, <1>13 DEF TranslatorInvariant, TranslatorKept

\* The engine answers, or fails.
LEMMA TranslateKeeps ==
  ASSUME TranslatorInvariant, NEW chinese \in BOOLEAN, Translator!Translate(chinese) PROVE TranslatorKept
<1>1. /\ consumer.step = "translate" /\ UNCHANGED <<segments, leases, abandoned>> /\ engine' = chinese
      /\ consumer' = [consumer EXCEPT !.step = "complete",
                                      !.job = [id |-> consumer.job.id, lease |-> consumer.job.lease, chinese |-> chinese]]
      /\ Translator!Spend("failures") \/ UNCHANGED budget
  BY DEF Translator!Translate
<1>2. /\ consumer \in [open : BOOLEAN, step : {"claim", "translate", "complete"}, job : {consumer.job}]
      /\ consumer.job.id \in Segments /\ consumer.job.lease \in 1..(leases - 1)
      /\ ~segments[consumer.job.id].chinese /\ segments[consumer.job.id].lease = consumer.job.lease
      /\ \A job \in abandoned : job.lease # consumer.job.lease
  BY <1>1 DEF TranslatorInvariant, JobsFit
<1> DEFINE new == [id |-> consumer.job.id, lease |-> consumer.job.lease, chinese |-> chinese]
<1>3. /\ new.id = consumer.job.id /\ new.lease = consumer.job.lease /\ new.chinese \in BOOLEAN
  OBVIOUS
<1>4. new # None
  <2>1. leases \in Nat
    BY DEF TranslatorInvariant, RowsFit
  <2>2. consumer.job.lease \in Nat
    BY <1>2, <2>1
  <2> QED
    BY <1>2, <2>2, TranslatorAssumed
<1>5. consumer' = [consumer EXCEPT !.step = "complete", !.job = new]
  BY <1>1
<1> HIDE DEF new
<1>6. consumer'.job = new /\ consumer'.step = "complete"
      /\ consumer' \in [open : BOOLEAN, step : {"claim", "translate", "complete"}, job : {consumer'.job}]
  BY <1>2, <1>5
<1>7. JobsFit'
  BY <1>1, <1>2, <1>3, <1>4, <1>6 DEF TranslatorInvariant, JobsFit
<1>8. RowsFit' /\ Translator!LeasesLast
  BY <1>1, RowsUnchanged DEF TranslatorInvariant
<1>9. BudgetFits'
  BY <1>1, SpendFits DEF TranslatorInvariant
<1> QED
  BY <1>7, <1>8, <1>9 DEF TranslatorInvariant, TranslatorKept

\* Its answer is stored, and the loop goes on.
LEMMA CompleteKeeps == ASSUME TranslatorInvariant, Translator!Complete PROVE TranslatorKept
<1>1. /\ consumer.step = "complete" /\ segments' = Translator!Completed(consumer.job, consumer.job.chinese)
      /\ Translator!At("claim", None) /\ UNCHANGED <<leases, abandoned, engine, budget>>
  BY DEF Translator!Complete
<1>2. consumer.job.id \in Segments /\ consumer.job.lease \in 1..(leases - 1) /\ consumer.job.chinese \in BOOLEAN
  BY <1>1 DEF TranslatorInvariant, JobsFit
<1>3. RowsFit' /\ Translator!LeasesLast
  BY <1>1, <1>2, CompletedFits DEF TranslatorInvariant
<1>4. JobsFit'
  <2>1. consumer \in [open : BOOLEAN, step : {"claim", "translate", "complete"}, job : {consumer.job}]
    BY DEF TranslatorInvariant, JobsFit
  <2>2. PICK b \in BOOLEAN : b = consumer.open
    BY <2>1
  <2>3. consumer' = [open |-> b, step |-> "claim", job |-> None]
    BY <1>1, <2>1, <2>2 DEF Translator!At
  <2> QED
    BY <1>1, <2>3, JobsEnd DEF TranslatorInvariant
<1>5. BudgetFits'
  BY <1>1 DEF TranslatorInvariant, BudgetFits
<1> QED
  BY <1>3, <1>4, <1>5 DEF TranslatorInvariant, TranslatorKept

\* It cannot be stored, the engine goes, or translations are switched.
LEMMA LeavingKeeps ==
  ASSUME TranslatorInvariant, Translator!NotCompleted \/ Translator!Switch \/ Translator!Drop PROVE TranslatorKept
<1>1. UNCHANGED <<segments, leases>> /\ engine' = FALSE
  BY DEF Translator!NotCompleted, Translator!Switch, Translator!Drop
<1>2. RowsFit' /\ Translator!LeasesLast
  BY <1>1, RowsUnchanged DEF TranslatorInvariant
<1>3. BudgetFits'
  BY <1>1, SpendFits DEF TranslatorInvariant, Translator!NotCompleted, Translator!Switch, Translator!Drop
<1>4. consumer \in [open : BOOLEAN, step : {"claim", "translate", "complete"}, job : {consumer.job}]
  BY DEF TranslatorInvariant, JobsFit
<1>5. JobsFit'
  <2>1. CASE Translator!Drop
    BY <1>1, <2>1, JobsStay DEF TranslatorInvariant, Translator!Drop
  <2>2. CASE Translator!NotCompleted
    <3>1. PICK b \in BOOLEAN : b = consumer.open
      BY <1>4
    <3>2. consumer' = [open |-> b, step |-> "claim", job |-> None] /\ UNCHANGED abandoned
      BY <1>4, <2>2, <3>1 DEF Translator!NotCompleted, Translator!At
    <3> QED
      BY <1>1, <3>2, JobsEnd DEF TranslatorInvariant
  <2>3. CASE Translator!Switch
    <3>1. /\ consumer' = [open |-> ~consumer.open, step |-> "claim", job |-> None]
          /\ abandoned' = abandoned \cup (IF consumer.step = "complete" THEN {consumer.job} ELSE {})
      BY <2>3 DEF Translator!Switch
    <3>2. PICK b \in BOOLEAN : b = ~consumer.open
      BY Zenon
    <3>3. consumer' = [open |-> b, step |-> "claim", job |-> None]
      BY <3>1, <3>2
    <3>4. \A job \in abandoned' : job \in abandoned \/ (job = consumer.job /\ consumer.step = "complete")
      BY <3>1
    <3> QED
      BY <1>1, <3>3, <3>4, JobsEnd DEF TranslatorInvariant
  <2> QED
    BY <2>1, <2>2, <2>3
<1> QED
  BY <1>2, <1>3, <1>5 DEF TranslatorInvariant, TranslatorKept

\* A completion of a loop that is gone arrives, for a row that the one of now has not claimed.
LEMMA ArrivesKeeps ==
  ASSUME TranslatorInvariant, NEW job \in abandoned, Translator!Arrives(job) PROVE TranslatorKept
<1>1. /\ segments' \in {segments, Translator!Completed(job, job.chinese)} /\ abandoned' \subseteq abandoned
      /\ UNCHANGED <<leases, consumer, engine, budget>>
  BY DEF Translator!Arrives
<1>2. /\ job.id \in Segments /\ job.lease \in 1..(leases - 1) /\ job.chinese \in BOOLEAN
      /\ consumer.job # None => job.lease # consumer.job.lease
  BY DEF TranslatorInvariant, JobsFit
<1>3. /\ RowsFit' /\ Translator!LeasesLast
      /\ \A i \in Segments : segments'[i] = segments[i] \/ (i = job.id /\ segments[i].lease = job.lease)
  <2>1. CASE UNCHANGED segments
    BY <1>1, <2>1, RowsUnchanged DEF TranslatorInvariant
  <2>2. CASE segments' = Translator!Completed(job, job.chinese)
    BY <1>1, <1>2, <2>2, CompletedFits DEF TranslatorInvariant
  <2> QED
    BY <1>1, <2>1, <2>2
<1>4. consumer.job # None => segments'[consumer.job.id] = segments[consumer.job.id]
  BY <1>2, <1>3 DEF TranslatorInvariant, JobsFit
<1>5. JobsFit'
  BY <1>1, <1>4, JobsStay DEF TranslatorInvariant
<1>6. BudgetFits'
  BY <1>1 DEF TranslatorInvariant, BudgetFits
<1> QED
  BY <1>3, <1>5, <1>6 DEF TranslatorInvariant, TranslatorKept

\* Every step of the translator keeps the invariant and its promise.
LEMMA TranslatorStep ==
  ASSUME TranslatorInvariant, [Translator!Next]_(Translator!vars) PROVE TranslatorKept
<1>1. CASE Translator!Loop
  BY <1>1, TranslatorClaimKeeps, CompleteKeeps, LeavingKeeps, TranslateKeeps DEF Translator!Loop
<1>2. CASE Translator!Lapse
  BY <1>2, ExpireKeeps DEF Translator!Lapse
<1>3. CASE Translator!Drop \/ Translator!Switch
  BY <1>3, LeavingKeeps
<1>4. CASE Translator!Retry
  BY <1>4, RetryKeeps
<1>5. CASE Translator!Restart
  BY <1>5, TranslatorRestartKeeps
<1>6. CASE \E job \in abandoned : Translator!Arrives(job)
  BY <1>6, ArrivesKeeps
<1>7. CASE UNCHANGED Translator!vars
  <2>1. UNCHANGED <<segments, leases, consumer, abandoned, engine, budget>>
    BY <1>7 DEF Translator!vars
  <2>2. RowsFit' /\ Translator!LeasesLast
    BY <2>1, RowsUnchanged DEF TranslatorInvariant
  <2>3. JobsFit' /\ BudgetFits'
    BY <2>1, JobsStay DEF TranslatorInvariant, BudgetFits
  <2> QED
    BY <2>2, <2>3 DEF TranslatorInvariant, TranslatorKept
<1> QED
  BY <1>1, <1>2, <1>3, <1>4, <1>5, <1>6, <1>7 DEF Translator!Next

\* No segment is claimed yet.
LEMMA TranslatorInvariantInit == ASSUME Translator!Init PROVE TranslatorInvariant
<1>1. /\ segments = [i \in Segments |-> [chinese |-> FALSE, failed |-> FALSE, tries |-> 0, lease |-> None, expired |-> FALSE]]
      /\ leases = 1 /\ consumer = [open |-> TRUE, step |-> "claim", job |-> None] /\ abandoned = {} /\ engine = FALSE
      /\ budget = [visits |-> MaxVisits, retries |-> MaxRetries, failures |-> MaxErrors, naps |-> MaxNaps]
  BY DEF Translator!Init
<1>2. RowsFit
  BY <1>1, TranslatorAssumed DEF RowsFit, RowTypes
<1>3. JobsFit
  BY <1>1 DEF JobsFit
<1>4. BudgetFits
  <2>1. DOMAIN budget = {"visits", "retries", "failures", "naps"}
    BY <1>1
  <2>2. /\ budget["visits"] \in Nat /\ budget["retries"] \in Nat
        /\ budget["failures"] \in Nat /\ budget["naps"] \in Nat
    BY <1>1, TranslatorAssumed
  <2> QED
    BY <1>1, <2>1, <2>2 DEF BudgetFits
<1> QED
  BY <1>2, <1>3, <1>4 DEF TranslatorInvariant

-----------------------------------------------------------------------------
(* The delivery of favorites. *)

(* The inductive invariant. *)

\* What Vocab acknowledged it has carried out.
SavedAreSeen == \A i \in DOMAIN rows : rows[i].state = "saved" => rows[i].id \in seen

\* The capture at work is still queued, since only its worker says what became of it, and an
\* acknowledgment is one of Vocab's.
DeliveryFits ==
  /\ worker.at \in {"send", "record"} =>
       \E i \in DOMAIN rows : rows[i].id = worker.id /\ rows[i].state = "queued"
  /\ worker.at = "record" => worker.answer # None /\ (worker.answer = "saved" => worker.id \in seen)

OutboxInvariant == Favorites!TypeOK /\ Favorites!OneOutstanding /\ Favorites!NothingIsLost /\ SavedAreSeen /\ DeliveryFits

(* Rowids. *)

\* A finite set of numbers has a greatest one: the sets of what follows a number cannot shrink for ever.
LEMMA GreatestExists ==
  ASSUME NEW S \in SUBSET Nat, IsFiniteSet(S), S # {}
  PROVE  \E x \in S : \A y \in S : y <= x
<1> DEFINE From(x) == {y \in S : x <= y}
           Rests == {From(x) : x \in S}
<1>1. Rests \subseteq FiniteSubsetsOf(S)
  BY FS_Subset DEF FiniteSubsetsOf
<1>2. PICK P \in Rests : \A Q \in Rests : <<Q, P>> \notin StrictSubsetOrdering(S)
  <2>1. Rests # {} /\ IsWellFoundedOn(StrictSubsetOrdering(S), FiniteSubsetsOf(S))
    BY FS_StrictSubsetOrderingWellFounded
  <2> HIDE DEF Rests
  <2> QED
    BY <1>1, <2>1, WFMin
<1>3. PICK x \in S : P = From(x)
  OBVIOUS
<1>4. ASSUME NEW y \in S PROVE y <= x
  <2> SUFFICES ASSUME x < y PROVE FALSE
    OBVIOUS
  <2>1. x \in Nat /\ y \in Nat /\ \A z \in S : z \in Nat
    OBVIOUS
  <2>2. From(y) \subseteq From(x)
    <3> HIDE DEF Rests
    <3>1. \A z \in From(y) : z \in S /\ z \in Nat /\ y <= z
      BY <2>1
    <3>2. \A z \in From(y) : x <= z
      BY <2>1, <3>1
    <3> QED
      BY <3>1, <3>2
  <2>3. x \in From(x) /\ x \notin From(y)
    BY <2>1
  <2> HIDE DEF From, Rests
  <2>4. <<From(y), From(x)>> \in StrictSubsetOrdering(S)
    <3>1. From(y) \subseteq S /\ From(x) \subseteq S
      BY DEF From
    <3> QED
      BY <2>2, <2>3, <3>1 DEF StrictSubsetOrdering
  <2>5. From(y) \in Rests
    BY DEF Rests
  <2> QED
    BY <1>2, <1>3, <2>4, <2>5
<1> QED
  BY <1>4

\* The next rowid is a new one.
LEMMA RowidIsNew ==
  ASSUME DOMAIN rows \subseteq Nat, IsFiniteSet(DOMAIN rows)
  PROVE  Favorites!Rowid \in Nat /\ Favorites!Rowid \notin DOMAIN rows
<1>1. CASE DOMAIN rows = {}
  BY <1>1 DEF Favorites!Rowid
<1>2. CASE DOMAIN rows # {}
  <2> DEFINE m == CHOOSE i \in DOMAIN rows : \A j \in DOMAIN rows : j <= i
  <2>1. m \in DOMAIN rows /\ \A j \in DOMAIN rows : j <= m
    BY <1>2, GreatestExists
  <2>2. Favorites!Rowid = 1 + m
    BY <1>2 DEF Favorites!Rowid
  <2> HIDE DEF m
  <2> QED
    BY <2>1, <2>2
<1> QED
  BY <1>1, <1>2

(* The table. *)

\* What VocabOutbox counts with is the library's.
LEMMA FavoritesCount ==
  \A S : (Favorites!IsFiniteSet(S) <=> IsFiniteSet(S)) /\ Favorites!Cardinality(S) = Cardinality(S)
BY DEF Favorites!IsFiniteSet, IsFiniteSet, Favorites!Cardinality, Cardinality

\* What TypeOK says of it, and of the rest.
TableTyped ==
  /\ rows \in [DOMAIN rows -> Favorites!Rows] /\ DOMAIN rows \subseteq Nat /\ IsFiniteSet(DOMAIN rows)
  /\ Cardinality(Favorites!Unsaved) <= MaxPending
RestTyped ==
  /\ worker \in Favorites!Workers /\ seen \subseteq Requests
  /\ requested \in [Requests -> Captures \cup {None}] /\ shown \in [Requests -> Requests \cup {None}]

\* Both make up TypeOK, before a step and after it.
LEMMA OutboxTypeParts == (Favorites!TypeOK <=> TableTyped /\ RestTyped) /\ (Favorites!TypeOK' <=> TableTyped' /\ RestTyped')
BY FavoritesCount DEF Favorites!TypeOK, TableTyped, RestTyped

\* The captures that are not delivered.
LEMMA UnsavedIs ==
  /\ Favorites!Unsaved = {i \in DOMAIN rows : rows[i].state # "saved"}
  /\ Favorites!Unsaved' = {i \in DOMAIN rows' : rows'[i].state # "saved"}
BY DEF Favorites!Unsaved, Favorites!Indices

\* The table says what is to be said of it: whom it holds, once, and what was delivered.
TableIsSound == TableTyped /\ Favorites!OneOutstanding /\ SavedAreSeen

\* A step that drops only delivered captures, and of the others changes what became of them.
Progresses ==
  /\ rows' \in [DOMAIN rows' -> Favorites!Rows] /\ DOMAIN rows' \subseteq DOMAIN rows
  /\ \A i \in DOMAIN rows : i \notin DOMAIN rows' => rows[i].state = "saved"
  /\ \A i \in DOMAIN rows' :
       /\ rows'[i].id = rows[i].id /\ rows'[i].capture = rows[i].capture
       /\ rows[i].state = "saved" => rows'[i].state = "saved"
       /\ rows'[i].state = "saved" => rows[i].state = "saved" \/ rows[i].id \in seen'
  /\ seen \subseteq seen'

\* It keeps the table sound.
LEMMA TableProgresses ==
  ASSUME TableIsSound, Favorites!OutboxAssumption, Progresses
  PROVE  TableIsSound'
<1>1. TableTyped'
  <2>1. IsFiniteSet(DOMAIN rows') /\ DOMAIN rows' \subseteq Nat
    BY FS_Subset DEF TableIsSound, TableTyped, Progresses
  <2>2. Favorites!Unsaved' \subseteq Favorites!Unsaved
    BY UnsavedIs DEF Progresses
  <2>3. IsFiniteSet(Favorites!Unsaved)
    BY FS_Subset, UnsavedIs DEF TableIsSound, TableTyped
  <2>4. Cardinality(Favorites!Unsaved') \in Nat /\ Cardinality(Favorites!Unsaved) \in Nat /\ Cardinality(Favorites!Unsaved') <= Cardinality(Favorites!Unsaved)
    BY <2>2, <2>3, FS_Subset, FS_CardinalityType
  <2>5. Cardinality(Favorites!Unsaved') <= MaxPending
    BY <2>4 DEF TableIsSound, TableTyped, Favorites!OutboxAssumption
  <2> QED
    BY <2>1, <2>5 DEF TableTyped, Progresses
<1>2. Favorites!OneOutstanding'
  <2> SUFFICES ASSUME NEW i \in DOMAIN rows', NEW j \in DOMAIN rows', i # j
               PROVE  /\ rows'[i].id # rows'[j].id
                      /\ {i, j} \subseteq Favorites!Unsaved' => rows'[i].capture # rows'[j].capture
    BY DEF Favorites!OneOutstanding
  <2>1. i \in DOMAIN rows /\ j \in DOMAIN rows /\ ({i, j} \subseteq Favorites!Unsaved' => {i, j} \subseteq Favorites!Unsaved)
    BY UnsavedIs DEF Progresses
  <2>2. rows[i].id # rows[j].id /\ ({i, j} \subseteq Favorites!Unsaved => rows[i].capture # rows[j].capture)
    BY <2>1 DEF TableIsSound, Favorites!OneOutstanding
  <2> QED
    BY <2>1, <2>2 DEF Progresses
<1>3. SavedAreSeen'
  BY DEF TableIsSound, SavedAreSeen, Progresses
<1> QED
  BY <1>1, <1>2, <1>3 DEF TableIsSound

\* A receipt is good if its capture waits in the queue or failed there, or Vocab has seen it.
Good(id) == (\E i \in DOMAIN rows : rows[i].id = id /\ rows[i].state # "saved") \/ id \in seen

\* A receipt stays good.
LEMMA GoodStays == ASSUME Progresses, SavedAreSeen, NEW id, Good(id) PROVE Good(id)'
BY DEF Progresses, Good, SavedAreSeen

\* Nothing is lost when every receipt is good.
LEMMA NothingIsLostIs ==
  /\ Favorites!NothingIsLost <=> \A id \in Requests : shown[id] # None => Good(shown[id])
  /\ Favorites!NothingIsLost' <=> \A id \in Requests : (shown[id] # None => Good(shown[id]))'
BY DEF Favorites!NothingIsLost, Good, Favorites!IndexOf

\* So a step that changes no receipt loses nothing.
LEMMA ReceiptsStay ==
  ASSUME Progresses, SavedAreSeen, Favorites!NothingIsLost, RestTyped, UNCHANGED shown
  PROVE  Favorites!NothingIsLost'
<1> SUFFICES ASSUME NEW id \in Requests, shown[id] # None PROVE Good(shown[id])'
  BY NothingIsLostIs
<1>1. PICK q \in Requests : q = shown[id]
  BY DEF RestTyped
<1>2. Good(q)
  BY <1>1, NothingIsLostIs
<1>3. Good(q)'
  BY <1>2, GoodStays
<1> QED
  BY <1>1, <1>3 DEF Good

(* The star. *)

\* A new capture is none of those that wait, and is answered with itself.
LEMMA Inserting ==
  ASSUME Favorites!OutboxAssumption, OutboxInvariant, NEW id \in Requests, NEW clip \in Captures,
         Favorites!Existing(id, clip) = {}, Favorites!Room, UNCHANGED <<worker, seen>>,
         rows' = [i \in DOMAIN rows \cup {Favorites!Rowid} |-> IF i = Favorites!Rowid THEN Favorites!Row(id, clip) ELSE rows[i]],
         shown' \in {shown, [shown EXCEPT ![id] = id]}
  PROVE  TableIsSound' /\ Favorites!NothingIsLost' /\ DeliveryFits'
<1>1. /\ TableTyped /\ RestTyped /\ DOMAIN rows \subseteq Nat /\ IsFiniteSet(DOMAIN rows)
  BY OutboxTypeParts DEF OutboxInvariant, TableTyped
<1>2. PICK n \in Nat : n = Favorites!Rowid /\ n \notin DOMAIN rows
  BY <1>1, RowidIsNew
<1>3. Favorites!Row(id, clip) \in Favorites!Rows /\ Favorites!Row(id, clip).id = id /\ Favorites!Row(id, clip).capture = clip
      /\ Favorites!Row(id, clip).state = "queued"
  BY DEF Favorites!Row, Favorites!Rows
<1>4. /\ DOMAIN rows' = DOMAIN rows \cup {n} /\ rows'[n] = Favorites!Row(id, clip)
      /\ \A i \in DOMAIN rows : i # n /\ rows'[i] = rows[i]
      /\ rows' \in [DOMAIN rows' -> Favorites!Rows]
  BY <1>1, <1>2, <1>3 DEF TableTyped
<1>5. \A i \in DOMAIN rows : rows[i].id # id /\ (i \in Favorites!Unsaved => rows[i].capture # clip)
  BY UnsavedIs DEF Favorites!Existing, Favorites!IndexOf
<1>6. TableTyped'
  <2>1. IsFiniteSet(DOMAIN rows') /\ DOMAIN rows' \subseteq Nat
    BY <1>1, <1>2, <1>4, FS_AddElement
  <2>2. Favorites!Unsaved' = Favorites!Unsaved \cup {n}
    BY <1>3, <1>4, UnsavedIs
  <2>3. IsFiniteSet(Favorites!Unsaved)
    BY <1>1, FS_Subset, UnsavedIs
  <2>4. Cardinality(Favorites!Unsaved) \in Nat /\ Cardinality(Favorites!Unsaved') \in {Cardinality(Favorites!Unsaved), Cardinality(Favorites!Unsaved) + 1}
    BY <2>2, <2>3, FS_AddElement, FS_CardinalityType
  <2>5. Cardinality(Favorites!Unsaved') <= MaxPending
    BY <2>4, FavoritesCount DEF Favorites!Room, Favorites!OutboxAssumption
  <2> QED
    BY <1>4, <2>1, <2>5 DEF TableTyped
<1>7. Favorites!OneOutstanding'
  <2> SUFFICES ASSUME NEW i \in DOMAIN rows', NEW j \in DOMAIN rows', i # j
               PROVE  /\ rows'[i].id # rows'[j].id
                      /\ {i, j} \subseteq Favorites!Unsaved' => rows'[i].capture # rows'[j].capture
    BY DEF Favorites!OneOutstanding
  <2>1. CASE i \in DOMAIN rows /\ j \in DOMAIN rows
    <3>1. {i, j} \subseteq Favorites!Unsaved' => {i, j} \subseteq Favorites!Unsaved
      BY <1>4, <2>1, UnsavedIs
    <3> QED
      BY <1>4, <2>1, <3>1 DEF OutboxInvariant, Favorites!OneOutstanding
  <2>2. CASE i = n /\ j \in DOMAIN rows
    BY <1>3, <1>4, <1>5, <2>2, UnsavedIs
  <2>3. CASE j = n /\ i \in DOMAIN rows
    BY <1>3, <1>4, <1>5, <2>3, UnsavedIs
  <2> QED
    BY <1>4, <2>1, <2>2, <2>3
<1>8. SavedAreSeen'
  BY <1>3, <1>4 DEF OutboxInvariant, SavedAreSeen
<1>9. \A q : Good(q) => Good(q)'
  BY <1>4 DEF Good
<1>10. Favorites!NothingIsLost'
  <2> SUFFICES ASSUME NEW q \in Requests, shown'[q] # None PROVE Good(shown[q])'
    BY NothingIsLostIs
  <2>1. CASE q = id /\ shown' # shown
    <3>1. shown'[q] = id
      BY <1>1, <2>1 DEF RestTyped
    <3>2. Good(id)'
      BY <1>3, <1>4 DEF Good
    <3> QED
      BY <3>1, <3>2 DEF Good
  <2>2. CASE q # id \/ shown' = shown
    <3>1. PICK s \in Requests \cup {None} : s = shown[q] /\ s = shown'[q]
      BY <1>1, <2>2 DEF RestTyped
    <3>2. Good(s)
      BY <3>1, NothingIsLostIs DEF OutboxInvariant
    <3>3. Good(s)'
      BY <1>9, <3>2
    <3> QED
      BY <3>1, <3>3 DEF Good
  <2> QED
    BY <2>1, <2>2
<1>11. DeliveryFits'
  BY <1>4 DEF OutboxInvariant, DeliveryFits
<1> QED
  BY <1>6, <1>7, <1>8, <1>10, <1>11 DEF TableIsSound

\* Reviving a failed capture is progress.
LEMMA Reviving ==
  ASSUME OutboxInvariant, NEW i \in DOMAIN rows, UNCHANGED <<worker, seen>>,
         rows' = IF rows[i].state = "error" THEN [rows EXCEPT ![i].state = "queued", ![i].due = TRUE] ELSE rows
  PROVE  Progresses /\ DeliveryFits'
<1>1. rows \in [DOMAIN rows -> Favorites!Rows]
  BY DEF OutboxInvariant, Favorites!TypeOK
<1>2. /\ DOMAIN rows' = DOMAIN rows /\ rows' \in [DOMAIN rows -> Favorites!Rows]
      /\ \A j \in DOMAIN rows : /\ rows'[j].id = rows[j].id /\ rows'[j].capture = rows[j].capture
                                /\ rows'[j].state = rows[j].state \/ (rows[j].state = "error" /\ rows'[j].state = "queued")
  BY <1>1 DEF Favorites!Rows
<1> QED
  BY <1>2 DEF OutboxInvariant, Progresses, DeliveryFits

\* A click keeps the invariant.
LEMMA ClickKeeps ==
  ASSUME Favorites!OutboxAssumption, OutboxInvariant, NEW id \in Requests, NEW clip \in Captures, Favorites!Click(id, clip)
  PROVE  OutboxInvariant'
<1>1. TableTyped /\ RestTyped /\ TableIsSound
  BY OutboxTypeParts DEF OutboxInvariant, TableIsSound
<1>2. requested' = [requested EXCEPT ![id] = clip] /\ UNCHANGED <<worker, seen>>
  BY DEF Favorites!Click
<1>3. requested' \in [Requests -> Captures \cup {None}] /\ worker' \in Favorites!Workers /\ seen' \subseteq Requests
  BY <1>1, <1>2 DEF RestTyped
<1>4. CASE UNCHANGED <<rows, shown>>
  <2>1. Progresses
    BY <1>1, <1>2, <1>4 DEF Progresses, TableTyped
  <2>2. TableIsSound' /\ Favorites!NothingIsLost'
    BY <1>1, <1>4, <2>1, TableProgresses, ReceiptsStay DEF OutboxInvariant
  <2>3. DeliveryFits'
    BY <1>2, <1>4 DEF OutboxInvariant, DeliveryFits
  <2>4. RestTyped'
    BY <1>1, <1>3, <1>4 DEF RestTyped
  <2> QED
    BY <2>2, <2>3, <2>4, OutboxTypeParts DEF OutboxInvariant, TableIsSound
<1>5. ASSUME NEW i \in Favorites!Existing(id, clip),
             rows' = IF rows[i].state = "error" THEN [rows EXCEPT ![i].state = "queued", ![i].due = TRUE] ELSE rows,
             shown' \in {shown, [shown EXCEPT ![id] = rows[i].id]}
      PROVE  OutboxInvariant'
  <2>1. i \in DOMAIN rows /\ rows[i] \in Favorites!Rows
    BY <1>1, UnsavedIs DEF Favorites!Existing, Favorites!IndexOf, TableTyped
  <2>2. PICK r \in Requests : r = rows[i].id
    BY <2>1 DEF Favorites!Rows
  <2>3. Progresses /\ DeliveryFits'
    BY <1>2, <1>5, <2>1, Reviving
  <2>4. TableIsSound'
    BY <1>1, <2>3, TableProgresses
  <2>5. shown' \in {shown, [shown EXCEPT ![id] = r]} /\ shown' \in [Requests -> Requests \cup {None}]
    BY <1>1, <1>5, <2>2 DEF RestTyped
  <2>6. Good(r)
    BY <2>1, <2>2 DEF Good, OutboxInvariant, SavedAreSeen
  <2>7. Favorites!NothingIsLost'
    <3> SUFFICES ASSUME NEW q \in Requests, shown'[q] # None PROVE Good(shown[q])'
      BY NothingIsLostIs
    <3>1. PICK s \in Requests \cup {None} : s = shown'[q] /\ (s = r \/ s = shown[q])
      BY <1>1, <2>5 DEF RestTyped
    <3>2. Good(s)
      BY <2>6, <3>1, NothingIsLostIs DEF OutboxInvariant
    <3>3. Good(s)'
      BY <2>3, <3>2, GoodStays DEF OutboxInvariant
    <3> QED
      BY <3>1, <3>3 DEF Good
  <2>8. RestTyped'
    BY <1>3, <2>5 DEF RestTyped
  <2> QED
    BY <2>3, <2>4, <2>7, <2>8, OutboxTypeParts DEF OutboxInvariant, TableIsSound
<1>6. CASE /\ Favorites!Existing(id, clip) = {} /\ Favorites!Room
           /\ rows' = [i \in DOMAIN rows \cup {Favorites!Rowid} |-> IF i = Favorites!Rowid THEN Favorites!Row(id, clip) ELSE rows[i]]
           /\ shown' \in {shown, [shown EXCEPT ![id] = id]}
  <2>1. TableIsSound' /\ Favorites!NothingIsLost' /\ DeliveryFits'
    BY <1>2, <1>6, Inserting
  <2>2. RestTyped'
    BY <1>1, <1>3, <1>6 DEF RestTyped
  <2> QED
    BY <2>1, <2>2, OutboxTypeParts DEF OutboxInvariant, TableIsSound
<1> QED
  BY <1>4, <1>5, <1>6 DEF Favorites!Click, Favorites!Enqueue, Favorites!Receipt

(* The worker, time and the process. *)

\* A step of theirs keeps the invariant if it only makes progress.
LEMMA ProgressKeeps ==
  ASSUME Favorites!OutboxAssumption, OutboxInvariant, Progresses, UNCHANGED <<requested, shown>>,
         worker' \in Favorites!Workers, seen' \subseteq Requests, DeliveryFits'
  PROVE  OutboxInvariant'
<1>1. TableIsSound /\ RestTyped
  BY OutboxTypeParts DEF OutboxInvariant, TableIsSound
<1>2. TableIsSound' /\ Favorites!NothingIsLost'
  BY <1>1, TableProgresses, ReceiptsStay DEF OutboxInvariant
<1>3. RestTyped'
  BY <1>1 DEF RestTyped
<1> QED
  BY <1>2, <1>3, OutboxTypeParts DEF OutboxInvariant, TableIsSound

\* Leaving the table alone is progress.
LEMMA SameProgresses == ASSUME OutboxInvariant, UNCHANGED rows, seen \subseteq seen' PROVE Progresses
BY DEF OutboxInvariant, Favorites!TypeOK, Progresses

\* A worker that waits does nothing for a capture.
LEMMA OutboxWaits == ASSUME Favorites!OutboxAssumption, Favorites!Wait PROVE worker' \in Favorites!Workers /\ DeliveryFits'
BY DEF Favorites!OutboxAssumption, Favorites!Wait, Favorites!Waiting, Favorites!Workers, DeliveryFits

\* The worker is woken.
LEMMA WakeUpKeeps == ASSUME Favorites!OutboxAssumption, OutboxInvariant, Favorites!WakeUp PROVE OutboxInvariant'
<1>1. /\ worker' = [Favorites!Waiting EXCEPT !.at = "poll"] /\ UNCHANGED <<rows, seen, requested, shown>>
  BY DEF Favorites!WakeUp
<1>2. worker' \in Favorites!Workers /\ worker'.at = "poll"
  BY <1>1 DEF Favorites!Waiting, Favorites!Workers, Favorites!OutboxAssumption
<1>3. DeliveryFits'
  BY <1>2 DEF DeliveryFits
<1> QED
  BY <1>1, <1>2, <1>3, SameProgresses, ProgressKeeps DEF OutboxInvariant, Favorites!TypeOK

\* A due capture is claimed.
LEMMA ClaimKeeps == ASSUME Favorites!OutboxAssumption, OutboxInvariant, Favorites!Claim PROVE OutboxInvariant'
<1>1. /\ rows \in [DOMAIN rows -> Favorites!Rows] /\ worker \in Favorites!Workers /\ seen \subseteq Requests
      /\ UNCHANGED <<seen, requested, shown>>
  BY DEF OutboxInvariant, Favorites!TypeOK, Favorites!Claim
<1>2. ASSUME NEW i \in Favorites!Due, worker.left > 0, rows' = [rows EXCEPT ![i].due = FALSE],
             worker' = [worker EXCEPT !.at = "send", !.id = rows[i].id, !.left = @ - 1]
      PROVE  OutboxInvariant'
  <2>1. i \in DOMAIN rows /\ rows[i] \in Favorites!Rows /\ rows[i].state = "queued" /\ rows[i].id \in Requests
    BY <1>1 DEF Favorites!Due, Favorites!Indices, Favorites!Rows
  <2>2. /\ DOMAIN rows' = DOMAIN rows /\ rows' \in [DOMAIN rows -> Favorites!Rows]
        /\ \A j \in DOMAIN rows : rows'[j].id = rows[j].id /\ rows'[j].capture = rows[j].capture /\ rows'[j].state = rows[j].state
    BY <1>1, <1>2, <2>1 DEF Favorites!Rows
  <2>3. Progresses
    BY <1>1, <2>2 DEF Progresses
  <2>4. worker.left \in 0..Batch /\ Batch \in Nat
    BY <1>1 DEF Favorites!Workers, Favorites!OutboxAssumption
  <2>5. worker.left - 1 \in 0..Batch
    BY <1>2, <2>4
  <2>6. worker' \in Favorites!Workers /\ worker'.at = "send" /\ worker'.id = rows[i].id
    BY <1>1, <1>2, <2>1, <2>5 DEF Favorites!Workers
  <2>7. DeliveryFits'
    BY <2>1, <2>2, <2>6 DEF DeliveryFits
  <2> QED
    BY <1>1, <2>3, <2>6, <2>7, ProgressKeeps
<1>3. CASE Favorites!Wait /\ UNCHANGED rows
  BY <1>1, <1>3, OutboxWaits, SameProgresses, ProgressKeeps
<1> QED
  BY <1>2, <1>3 DEF Favorites!Claim

\* It is sent, and answered or not.
LEMMA SendKeeps == ASSUME Favorites!OutboxAssumption, OutboxInvariant, Favorites!Send PROVE OutboxInvariant'
<1>1. /\ worker \in Favorites!Workers /\ worker.at = "send" /\ seen \subseteq Requests /\ UNCHANGED <<rows, requested, shown>>
      /\ None \notin Requests
  BY DEF OutboxInvariant, Favorites!TypeOK, Favorites!Send, Favorites!OutboxAssumption
<1>2. PICK i \in DOMAIN rows : rows[i].id = worker.id /\ rows[i].state = "queued"
  BY <1>1 DEF OutboxInvariant, DeliveryFits
<1>3. worker.id \in Requests
  BY <1>2 DEF OutboxInvariant, Favorites!TypeOK, Favorites!Rows
<1>4. /\ seen' \in {seen, seen \cup {worker.id}}
      /\ \E reply \in {"saved", "queued", "error"} :
           Favorites!Told(reply) /\ (reply = "saved" => seen' = seen \cup {worker.id})
  BY DEF Favorites!Send
<1>5. PICK reply \in {"saved", "queued", "error"} : Favorites!Told(reply) /\ (reply = "saved" => seen' = seen \cup {worker.id})
  BY <1>4
<1>6. worker' \in Favorites!Workers /\ worker'.id = worker.id /\ worker'.at = "record" /\ worker'.answer = reply
  BY <1>1, <1>5 DEF Favorites!Told, Favorites!Workers
<1>7. None \notin {"saved", "queued", "error"}
  BY DEF Favorites!OutboxAssumption
<1>8. DeliveryFits'
  BY <1>1, <1>2, <1>5, <1>6, <1>7 DEF DeliveryFits
<1> QED
  BY <1>1, <1>3, <1>4, <1>6, <1>8, SameProgresses, ProgressKeeps

\* The answer is stored, for the capture at work alone.
LEMMA RecordKeeps == ASSUME Favorites!OutboxAssumption, OutboxInvariant, Favorites!Record PROVE OutboxInvariant'
<1>1. /\ rows \in [DOMAIN rows -> Favorites!Rows] /\ worker \in Favorites!Workers /\ seen \subseteq Requests /\ worker.at = "record"
      /\ UNCHANGED <<seen, requested, shown>> /\ Favorites!OneOutstanding
  BY DEF OutboxInvariant, Favorites!TypeOK, Favorites!Record
<1>2. ASSUME rows' = [i \in DOMAIN rows |-> IF rows[i].id = worker.id
                                              THEN [rows[i] EXCEPT !.state = worker.answer, !.due = FALSE]
                                              ELSE rows[i]],
             worker' = [worker EXCEPT !.at = IF worker.answer = "saved" THEN "prune" ELSE "poll"]
      PROVE  OutboxInvariant'
  <2>1. PICK n \in DOMAIN rows : rows[n].id = worker.id /\ rows[n].state = "queued"
    BY <1>1 DEF OutboxInvariant, DeliveryFits
  <2>2. \A i \in DOMAIN rows : rows[i].id = worker.id => i = n
    BY <1>1, <2>1 DEF Favorites!OneOutstanding
  <2>3. worker.answer \in {"saved", "queued", "error"} /\ (worker.answer = "saved" => worker.id \in seen)
    BY <1>1 DEF OutboxInvariant, DeliveryFits, Favorites!Workers
  <2>4. rows[n] \in Favorites!Rows /\ [rows[n] EXCEPT !.state = worker.answer, !.due = FALSE] \in Favorites!Rows
    BY <1>1, <2>1, <2>3 DEF Favorites!Rows
  <2>5. /\ DOMAIN rows' = DOMAIN rows
        /\ \A i \in DOMAIN rows : i # n => rows'[i] = rows[i]
        /\ rows'[n] = [rows[n] EXCEPT !.state = worker.answer, !.due = FALSE]
    BY <1>2, <2>1, <2>2
  <2>6. rows' \in [DOMAIN rows -> Favorites!Rows]
    BY <1>1, <1>2, <2>4, <2>5
  <2>7. rows'[n].id = rows[n].id /\ rows'[n].capture = rows[n].capture /\ rows'[n].state = worker.answer
    BY <2>4, <2>5 DEF Favorites!Rows
  <2>8. Progresses
    BY <1>1, <2>1, <2>3, <2>5, <2>6, <2>7 DEF Progresses
  <2>9. worker' \in Favorites!Workers /\ worker'.at \in {"prune", "poll"}
    BY <1>1, <1>2 DEF Favorites!Workers
  <2>10. DeliveryFits'
    BY <2>9 DEF DeliveryFits
  <2> QED
    BY <1>1, <2>8, <2>9, <2>10, ProgressKeeps
<1>3. CASE Favorites!Wait /\ UNCHANGED rows
  BY <1>1, <1>3, OutboxWaits, SameProgresses, ProgressKeeps
<1> QED
  BY <1>2, <1>3 DEF Favorites!Record

\* Only receipts of delivered captures are deleted.
LEMMA PruneKeeps == ASSUME Favorites!OutboxAssumption, OutboxInvariant, Favorites!Prune PROVE OutboxInvariant'
<1>1. /\ rows \in [DOMAIN rows -> Favorites!Rows] /\ worker \in Favorites!Workers /\ seen \subseteq Requests
      /\ UNCHANGED <<seen, requested, shown>>
  BY DEF OutboxInvariant, Favorites!TypeOK, Favorites!Prune
<1>2. ASSUME rows' = [i \in Favorites!Unsaved \cup {i \in DOMAIN rows : Cardinality(Favorites!Newer(i)) < Receipts} |-> rows[i]],
             worker' = [worker EXCEPT !.at = "poll"]
      PROVE  OutboxInvariant'
  <2> DEFINE kept == Favorites!Unsaved \cup {i \in DOMAIN rows : Cardinality(Favorites!Newer(i)) < Receipts}
  <2>1. kept \subseteq DOMAIN rows /\ \A i \in DOMAIN rows : i \notin kept => rows[i].state = "saved"
    BY UnsavedIs
  <2>2. rows' = [i \in kept |-> rows[i]]
    BY <1>2
  <2> HIDE DEF kept
  <2>3. Progresses
    BY <1>1, <2>1, <2>2 DEF Progresses
  <2>4. worker' \in Favorites!Workers /\ worker'.at = "poll"
    BY <1>1, <1>2 DEF Favorites!Workers
  <2>5. DeliveryFits'
    BY <2>4 DEF DeliveryFits
  <2> QED
    BY <1>1, <2>3, <2>4, <2>5, ProgressKeeps
<1>3. CASE Favorites!Wait /\ UNCHANGED rows
  BY <1>1, <1>3, OutboxWaits, SameProgresses, ProgressKeeps
<1> QED
  BY <1>2, <1>3, FavoritesCount DEF Favorites!Prune

\* A claim or a backoff ends: the capture is still the one at work, should its worker be slow.
LEMMA BecomeDueKeeps ==
  ASSUME Favorites!OutboxAssumption, OutboxInvariant, NEW i \in DOMAIN rows, Favorites!BecomeDue(i)
  PROVE  OutboxInvariant'
<1>1. /\ rows \in [DOMAIN rows -> Favorites!Rows] /\ worker \in Favorites!Workers /\ seen \subseteq Requests
      /\ rows' = [rows EXCEPT ![i].due = TRUE] /\ UNCHANGED <<worker, seen, requested, shown>>
  BY DEF OutboxInvariant, Favorites!TypeOK, Favorites!BecomeDue
<1>2. /\ DOMAIN rows' = DOMAIN rows /\ rows' \in [DOMAIN rows -> Favorites!Rows]
      /\ \A j \in DOMAIN rows : rows'[j].id = rows[j].id /\ rows'[j].capture = rows[j].capture /\ rows'[j].state = rows[j].state
  BY <1>1 DEF Favorites!Rows
<1>3. Progresses /\ DeliveryFits'
  BY <1>1, <1>2 DEF OutboxInvariant, Progresses, DeliveryFits
<1> QED
  BY <1>1, <1>3, ProgressKeeps

\* The process ends, and with it what it was about.
LEMMA RestartKeeps == ASSUME Favorites!OutboxAssumption, OutboxInvariant, Favorites!Restart PROVE OutboxInvariant'
<1>1. Favorites!Wait /\ UNCHANGED <<rows, seen, requested, shown>> /\ seen \subseteq Requests
  BY DEF OutboxInvariant, Favorites!TypeOK, Favorites!Restart
<1> QED
  BY <1>1, OutboxWaits, SameProgresses, ProgressKeeps

(* The theorems. *)

\* A new queue is empty.
LEMMA OutboxInvariantInit == ASSUME Favorites!OutboxAssumption, Favorites!Init PROVE OutboxInvariant
<1>1. DOMAIN rows = {} /\ rows = <<>>
  BY DEF Favorites!Init
<1>2. rows \in [DOMAIN rows -> Favorites!Rows]
  BY <1>1
<1>3. Favorites!Unsaved = {} /\ Cardinality(Favorites!Unsaved) = 0 /\ IsFiniteSet(DOMAIN rows)
  BY <1>1, UnsavedIs, FS_EmptySet
<1>4. worker \in Favorites!Workers /\ worker.at = "wait"
  BY DEF Favorites!Init, Favorites!Waiting, Favorites!Workers, Favorites!OutboxAssumption
<1>5. Favorites!TypeOK
  BY <1>1, <1>2, <1>3, <1>4, FavoritesCount DEF Favorites!TypeOK, Favorites!Init, Favorites!OutboxAssumption
<1> QED
  BY <1>1, <1>4, <1>5 DEF OutboxInvariant, Favorites!OneOutstanding, Favorites!NothingIsLost, SavedAreSeen,
     DeliveryFits, Favorites!Init

\* Every step keeps the invariant.
LEMMA OutboxInvariantStep == ASSUME Favorites!OutboxAssumption, OutboxInvariant, [Favorites!Next]_(Favorites!vars) PROVE OutboxInvariant'
<1>1. ASSUME NEW id \in Requests, NEW clip \in Captures, Favorites!Click(id, clip) PROVE OutboxInvariant'
  BY <1>1, ClickKeeps
<1>2. CASE Favorites!WakeUp
  BY <1>2, WakeUpKeeps
<1>3. CASE Favorites!Claim
  BY <1>3, ClaimKeeps
<1>4. CASE Favorites!Send
  BY <1>4, SendKeeps
<1>5. CASE Favorites!Record
  BY <1>5, RecordKeeps
<1>6. CASE Favorites!Prune
  BY <1>6, PruneKeeps
<1>7. ASSUME NEW i \in DOMAIN rows, Favorites!BecomeDue(i) PROVE OutboxInvariant'
  BY <1>7, BecomeDueKeeps
<1>8. CASE Favorites!Restart
  BY <1>8, RestartKeeps
<1>9. CASE UNCHANGED Favorites!vars
  <2>1. UNCHANGED <<rows, worker, seen, requested, shown>>
    BY <1>9 DEF Favorites!vars
  <2>2. worker' \in Favorites!Workers /\ seen' \subseteq Requests /\ DeliveryFits'
    BY <2>1 DEF OutboxInvariant, Favorites!TypeOK, DeliveryFits
  <2> QED
    BY <2>1, <2>2, SameProgresses, ProgressKeeps
<1> QED
  BY <1>1, <1>2, <1>3, <1>4, <1>5, <1>6, <1>7, <1>8, <1>9 DEF Favorites!Next, Favorites!Work

-----------------------------------------------------------------------------
(* A document of a linked folder. *)

\* The journal holds the draft of the session, made from the version it was opened with; a session that
\* has none saved all it was given.
JournalMatchesSession ==
  session # None =>
    /\ session.id <= opened /\ session.saved <= session.generation
    /\ session.recovery # None => session.generation = 0
    /\ session.recovery = None /\ pending = None => session.generation = session.saved
    /\ session.recovery = None /\ pending # None =>
         /\ pending.session = session.id /\ pending.base = session.base
         /\ session.generation <= pending.generation
         /\ call = None => pending.generation = session.generation

\* A call works on the draft of the journal, and each of its steps left what the next one relies on.
CallMatchesJournal ==
  call # None =>
    /\ session # None /\ pending = call.draft
    /\ pending.session = session.id /\ pending.base = session.base
    /\ session.recovery = None <=> call.step # "resumed"
    /\ call.step \in {"saving", "archived", "written"} => pending.generation = session.generation
    /\ call.step \in {"archived", "written"} => pending \in history
    /\ call.step = "archived" => source = pending.base
    /\ call.step = "written" => pending.text \in put

StoreInvariant == Linked!TypeOK /\ Linked!ReplacedIsRecoverable /\ JournalMatchesSession /\ CallMatchesJournal

\* At first nothing is in the journal.
LEMMA StoreInvariantInit == ASSUME Linked!LinkedAssumption, Linked!Init PROVE StoreInvariant
BY DEF Linked!LinkedAssumption, Linked!Init, StoreInvariant, Linked!TypeOK, Linked!ReplacedIsRecoverable,
   JournalMatchesSession, CallMatchesJournal

\* The variables stay in their domains.
LEMMA LinkedTypeStep == ASSUME Linked!LinkedAssumption, StoreInvariant, [Linked!Next]_(Linked!vars) PROVE Linked!TypeOK'
<1> USE DEF StoreInvariant, Linked!LinkedAssumption, Linked!TypeOK
<1>1. CASE Linked!Open
  BY <1>1 DEF Linked!Open, Linked!Sessions
<1>2. CASE Linked!Close
  BY <1>2 DEF Linked!Close
<1>3. ASSUME NEW generation \in Linked!Generations, NEW text \in Contents, Linked!PersistDraft(generation, text)
      PROVE  Linked!TypeOK'
  BY <1>3 DEF Linked!PersistDraft, Linked!MayPersist, Linked!Drafts, Linked!Calls
<1>4. CASE Linked!DraftPersisted
  BY <1>4 DEF Linked!DraftPersisted, Linked!Calls, Linked!Drafts, Linked!Generations, CallMatchesJournal
<1>5. CASE Linked!Save
  BY <1>5 DEF Linked!Save, Linked!MaySave, Linked!Calls
<1>6. CASE Linked!Archive
  BY <1>6 DEF Linked!Archive, Linked!Calls
<1>7. CASE Linked!Replace
  BY <1>7 DEF Linked!Replace, Linked!Calls, Linked!Drafts, CallMatchesJournal
<1>8. CASE Linked!Complete
  BY <1>8 DEF Linked!Complete, Linked!Calls, Linked!Drafts, Linked!Generations, CallMatchesJournal
<1>9. CASE Linked!GiveUp
  BY <1>9 DEF Linked!GiveUp
<1>10. CASE Linked!ResumeDraft
  BY <1>10 DEF Linked!ResumeDraft, Linked!Calls, Linked!Drafts
<1>11. CASE Linked!DraftResumed
  <2>1. call.draft.generation \in 0..MaxGenerations
    BY <1>11 DEF Linked!DraftResumed, Linked!Calls, Linked!Drafts, Linked!Generations
  <2>. QED
    BY <1>11, <2>1 DEF Linked!DraftResumed, CallMatchesJournal
<1>12. CASE Linked!Foreign
  BY <1>12 DEF Linked!Foreign
<1>13. CASE Linked!Crash
  BY <1>13 DEF Linked!Crash
<1>14. CASE UNCHANGED Linked!vars
  BY <1>14 DEF Linked!vars
<1>. QED
  BY <1>1, <1>2, <1>3, <1>4, <1>5, <1>6, <1>7, <1>8, <1>9, <1>10, <1>11, <1>12, <1>13, <1>14 DEF Linked!Next

\* A save archives its draft before it replaces the version the draft was made from.
LEMMA LinkedReplacedStep ==
  ASSUME StoreInvariant, [Linked!Next]_(Linked!vars) PROVE Linked!ReplacedIsRecoverable'
<1> USE DEF StoreInvariant, Linked!ReplacedIsRecoverable
<1>1. CASE Linked!Replace
  <2>1. \E draft \in history : draft.base = source
    BY <1>1 DEF Linked!Replace, CallMatchesJournal
  <2>. QED
    BY <1>1, <2>1 DEF Linked!Replace
<1>2. CASE Linked!Archive
  BY <1>2 DEF Linked!Archive
<1>3. CASE UNCHANGED <<history, overwritten>>
  BY <1>3
<1>. QED
  BY <1>1, <1>2, <1>3 DEF Linked!Next, Linked!vars, Linked!Open, Linked!Close, Linked!PersistDraft,
     Linked!DraftPersisted, Linked!Save, Linked!Complete, Linked!GiveUp,
     Linked!ResumeDraft, Linked!DraftResumed, Linked!Foreign, Linked!Crash

\* Whatever the journal and the session become, they become together.
LEMMA LinkedSessionStep ==
  ASSUME Linked!LinkedAssumption, StoreInvariant, [Linked!Next]_(Linked!vars) PROVE JournalMatchesSession'
<1> USE DEF StoreInvariant, Linked!LinkedAssumption, Linked!TypeOK, JournalMatchesSession
<1>1. CASE Linked!Open
  BY <1>1 DEF Linked!Open
<1>2. CASE Linked!Close \/ Linked!Crash
  BY <1>2 DEF Linked!Close, Linked!Crash
<1>3. ASSUME NEW generation \in Linked!Generations, NEW text \in Contents, Linked!PersistDraft(generation, text)
      PROVE  JournalMatchesSession'
  <2>1. pending' # None /\ call' # None
    BY <1>3 DEF Linked!PersistDraft, Linked!MayPersist, Linked!Drafts, Linked!Calls, Linked!Sessions,
       Linked!Generations
  <2>. QED
    BY <1>3, <2>1 DEF Linked!PersistDraft, Linked!MayPersist, Linked!Generations
<1>4. CASE Linked!DraftPersisted
  BY <1>4 DEF Linked!DraftPersisted, CallMatchesJournal, Linked!Calls, Linked!Drafts, Linked!Generations
<1>5. CASE Linked!Save \/ Linked!Archive \/ Linked!Replace \/ Linked!GiveUp
  BY <1>5 DEF Linked!Save, Linked!MaySave, Linked!Archive, Linked!Replace, Linked!GiveUp, CallMatchesJournal
<1>6. CASE Linked!Complete
  BY <1>6 DEF Linked!Complete, CallMatchesJournal, Linked!Calls, Linked!Drafts, Linked!Generations
<1>7. CASE Linked!ResumeDraft
  <2>1. pending' # None /\ call' # None
    BY <1>7 DEF Linked!ResumeDraft, Linked!Drafts, Linked!Calls
  <2>. QED
    BY <1>7, <2>1 DEF Linked!ResumeDraft
<1>8. CASE Linked!DraftResumed
  BY <1>8 DEF Linked!DraftResumed, CallMatchesJournal, Linked!Calls, Linked!Drafts, Linked!Generations
<1>9. CASE Linked!Foreign \/ UNCHANGED Linked!vars
  BY <1>9 DEF Linked!Foreign, Linked!vars
<1>. QED
  BY <1>1, <1>2, <1>3, <1>4, <1>5, <1>6, <1>7, <1>8, <1>9 DEF Linked!Next

\* Each step of a call leaves what the next one relies on, and no other program comes between a
\* comparison and the replacement.
LEMMA LinkedCallStep ==
  ASSUME Linked!LinkedAssumption, StoreInvariant, [Linked!Next]_(Linked!vars) PROVE CallMatchesJournal'
<1> USE DEF StoreInvariant, Linked!LinkedAssumption, Linked!TypeOK, CallMatchesJournal
<1>1. CASE Linked!Open \/ Linked!Close \/ Linked!Crash \/ Linked!GiveUp \/ Linked!DraftPersisted \/ Linked!DraftResumed \/ Linked!Complete
  BY <1>1 DEF Linked!Open, Linked!Close, Linked!Crash, Linked!GiveUp, Linked!DraftPersisted,
     Linked!DraftResumed, Linked!Complete
<1>2. ASSUME NEW generation \in Linked!Generations, NEW text \in Contents, Linked!PersistDraft(generation, text)
      PROVE  CallMatchesJournal'
  BY <1>2 DEF Linked!PersistDraft, Linked!MayPersist
<1>3. CASE Linked!Save
  BY <1>3 DEF Linked!Save, Linked!MaySave, JournalMatchesSession
<1>4. CASE Linked!Archive
  BY <1>4 DEF Linked!Archive, Linked!Calls
<1>5. CASE Linked!Replace
  BY <1>5 DEF Linked!Replace, Linked!Calls
<1>6. CASE Linked!ResumeDraft
  BY <1>6 DEF Linked!ResumeDraft, Linked!Drafts
<1>7. CASE Linked!Foreign
  BY <1>7 DEF Linked!Foreign
<1>8. CASE UNCHANGED Linked!vars
  BY <1>8 DEF Linked!vars
<1>. QED
  BY <1>1, <1>2, <1>3, <1>4, <1>5, <1>6, <1>7, <1>8 DEF Linked!Next

\* Every step keeps the invariant.
LEMMA StoreInvariantStep ==
  ASSUME Linked!LinkedAssumption, StoreInvariant, [Linked!Next]_(Linked!vars) PROVE StoreInvariant'
BY LinkedTypeStep, LinkedReplacedStep, LinkedSessionStep, LinkedCallStep DEF StoreInvariant

\* No step takes a draft from the journal that is neither written and archived nor part of its successor, and
\* the store writes nothing but an acknowledged draft over its own base.
LEMMA LinkedSafeStep ==
  ASSUME Linked!LinkedAssumption, StoreInvariant, [Linked!Next]_(Linked!vars) PROVE Linked!StoreStepsAreSafe
<1> USE DEF StoreInvariant, Linked!TypeOK
<1>1. Linked!Succeeds
  <2>1. ASSUME NEW generation \in Linked!Generations, NEW text \in Contents, Linked!PersistDraft(generation, text)
        PROVE  Linked!Succeeds
    <3>1. pending' # None
      BY <2>1 DEF Linked!PersistDraft, Linked!MayPersist, Linked!LinkedAssumption, Linked!Drafts, Linked!Sessions
    <3>. QED
      BY <2>1, <3>1 DEF Linked!Succeeds, Linked!PersistDraft, Linked!MayPersist, JournalMatchesSession
  <2>2. CASE Linked!Complete
    BY <2>2 DEF Linked!Succeeds, Linked!Complete, CallMatchesJournal
  <2>3. CASE Linked!ResumeDraft
    BY <2>3 DEF Linked!Succeeds, Linked!ResumeDraft
  <2>4. CASE UNCHANGED pending
    BY <2>4 DEF Linked!Succeeds
  <2>. QED
    BY <2>1, <2>2, <2>3, <2>4 DEF Linked!Next, Linked!vars, Linked!Open, Linked!Close, Linked!DraftPersisted,
       Linked!Save, Linked!Archive, Linked!Replace, Linked!GiveUp,
       Linked!DraftResumed, Linked!Foreign, Linked!Crash
<1>2. Linked!ReplacesItsBase
  <2>1. CASE Linked!Replace
    BY <2>1 DEF Linked!ReplacesItsBase, Linked!Replace, CallMatchesJournal, Linked!LinkedAssumption, Linked!Calls
  <2>2. CASE UNCHANGED source \/ UNCHANGED call
    BY <2>2 DEF Linked!ReplacesItsBase
  <2>. QED
    BY <2>1, <2>2 DEF Linked!Next, Linked!vars, Linked!Open, Linked!Close, Linked!PersistDraft,
       Linked!DraftPersisted, Linked!Save, Linked!Archive, Linked!Complete, Linked!GiveUp,
       Linked!ResumeDraft, Linked!DraftResumed, Linked!Foreign, Linked!Crash
<1>. QED
  BY <1>1, <1>2 DEF Linked!StoreStepsAreSafe

-----------------------------------------------------------------------------
(* The caption window. *)

\* What the service answers, what the window knows, and what a command is at.
ServiceAnswer == [sessions : SUBSET Panel!Sessions, session : Panel!Sessions \cup {None}, active : BOOLEAN, source : Inputs,
           revision : Nat, history : BOOLEAN]
PageKnows == [status : ServiceAnswer \cup {None}, revision : Nat, history : BOOLEAN, selected : Panel!Sessions \cup {None},
         after : Panel!Sessions \cup {None}, busy : BOOLEAN, list : SUBSET Panel!Sessions]
PollReads == [step : {"live", "rows", "list", "apply"}, status : ServiceAnswer \cup {None}, rows : Panel!Sessions \cup {None},
         list : SUBSET Panel!Sessions]
Command == [kind : {"delete", "start", "stop", "retry", "source", "rename"},
            step : {"do", "status", "stop", "store", "start", "show"},
            of : Panel!Sessions \cup Inputs \cup {None}, found : ServiceAnswer \cup {None}, id : Nat]

PanelTyped ==
  /\ service \in ServiceAnswer /\ preferred \in Inputs /\ page \in PageKnows /\ poll \in PollReads
  /\ rows \in Panel!Sessions \cup {None} /\ fresh \in BOOLEAN /\ unguarded \in BOOLEAN /\ contested \in BOOLEAN
  /\ clicks \in 0..MaxClicks /\ faults \in 0..MaxRefusals

\* Commands that are still to start a session have one to start.
ToStart == {t \in tasks : t.step # "show"}
LatestSession == IF service.session = None THEN 1 ELSE service.session
CommandsFit ==
  /\ tasks \subseteq Command /\ IsFiniteSet(tasks)
  /\ \A t \in tasks : t.step # "do" => t.of \in Inputs
  /\ LatestSession + Cardinality(ToStart) + clicks <= MaxClicks + 1
  /\ Panel!CapturedIsStored

\* What a poll has read so far is of what is selected.
PollFits ==
  /\ poll.step # "live" => poll.status \in ServiceAnswer
  /\ poll.step = "rows" => page.selected # None
  /\ poll.step \in {"list", "apply"} =>
       poll.rows = IF page.selected # None THEN page.selected ELSE poll.status.session
  /\ Panel!RowsAreOfSelection

\* One command runs at a time, unless a form was sent past it.
BusyFits == ~unguarded => (tasks = {} /\ ~page.busy) \/ (page.busy /\ \E t \in tasks : tasks = {t})

\* What is listened to is what was chosen, at every step of a choice.
SourceFits ==
  ~contested =>
    /\ tasks = {} \/ \E t \in tasks : tasks = {t}
    /\ service.active => service.source = preferred
    /\ \A t \in tasks : t.step = "store" => (service.active => service.source = t.of)
    /\ \A t \in tasks : t.step = "start" => t.of = preferred

PanelInvariant == PanelTyped /\ CommandsFit /\ PollFits /\ BusyFits /\ SourceFits

\* The bounds and the names of sessions.
LEMMA PanelAssumed ==
  /\ None \notin Nat /\ MaxClicks \in Nat /\ MaxRefusals \in Nat /\ None \notin Panel!Sessions /\ Panel!Sessions \subseteq Nat
  /\ \A n \in Nat : n \in Panel!Sessions <=> (1 <= n /\ n <= MaxClicks + 2)
BY PartsAssumption DEF Panel!PanelAssumption, Panel!Sessions

\* A command ends.
LEMMA ToStartEnds ==
  ASSUME IsFiniteSet(tasks), NEW t \in tasks, tasks' = tasks \ {t}
  PROVE  /\ IsFiniteSet(tasks') /\ Cardinality(ToStart) \in Nat /\ Cardinality(ToStart') \in Nat
         /\ Cardinality(ToStart') <= Cardinality(ToStart)
         /\ t.step # "show" => Cardinality(ToStart') = Cardinality(ToStart) - 1
<1>1. IsFiniteSet(ToStart) /\ ToStart' = ToStart \ {t} /\ (t \in ToStart <=> t.step # "show")
  <2>1. ToStart \in SUBSET tasks
    BY DEF ToStart
  <2>2. IsFiniteSet(ToStart)
    BY <2>1, FS_Subset
  <2> QED BY <2>2 DEF ToStart
<1>2. IsFiniteSet(tasks')
  BY FS_RemoveElement
<1>3. /\ Cardinality(ToStart') = (IF t \in ToStart THEN Cardinality(ToStart) - 1 ELSE Cardinality(ToStart))
      /\ IsFiniteSet(ToStart')
  BY <1>1, FS_RemoveElement
<1>4. Cardinality(ToStart) \in Nat /\ Cardinality(ToStart') \in Nat
  BY <1>1, <1>3, FS_CardinalityType
<1> QED BY <1>1, <1>2, <1>3, <1>4

\* A command moves.
LEMMA ToStartMoves ==
  ASSUME IsFiniteSet(tasks), NEW t \in tasks, NEW u, t.step # "show", tasks' = (tasks \ {t}) \cup {u}
  PROVE  /\ IsFiniteSet(tasks') /\ Cardinality(ToStart) \in Nat /\ Cardinality(ToStart') \in Nat
         /\ Cardinality(ToStart') <= Cardinality(ToStart)
         /\ u.step = "show" => Cardinality(ToStart') = Cardinality(ToStart) - 1
<1>1. /\ IsFiniteSet(ToStart) /\ t \in ToStart
      /\ ToStart' = IF u.step = "show" THEN ToStart \ {t} ELSE (ToStart \ {t}) \cup {u}
  <2>1. ToStart \in SUBSET tasks
    BY DEF ToStart
  <2>2. IsFiniteSet(ToStart)
    BY <2>1, FS_Subset
  <2> QED BY <2>2 DEF ToStart
<1>2. IsFiniteSet(tasks')
  <2>1. IsFiniteSet(tasks \ {t})
    BY FS_RemoveElement
  <2> QED BY <2>1, FS_AddElement
<1>3. IsFiniteSet(ToStart \ {t}) /\ Cardinality(ToStart \ {t}) = Cardinality(ToStart) - 1
  BY <1>1, FS_RemoveElement
<1>4. Cardinality(ToStart) \in Nat /\ Cardinality(ToStart \ {t}) \in Nat
  BY <1>1, <1>3, FS_CardinalityType
<1>5. IsFiniteSet((ToStart \ {t}) \cup {u}) /\ Cardinality((ToStart \ {t}) \cup {u}) =
            IF u \in ToStart \ {t} THEN Cardinality(ToStart \ {t}) ELSE Cardinality(ToStart \ {t}) + 1
  BY <1>3, FS_AddElement
<1>6. Cardinality((ToStart \ {t}) \cup {u}) \in Nat
  BY <1>5, FS_CardinalityType
<1>7. CASE u.step = "show"
  BY <1>1, <1>2, <1>3, <1>4, <1>7
<1>8. CASE u.step # "show"
  BY <1>1, <1>2, <1>3, <1>4, <1>5, <1>6, <1>8
<1> QED BY <1>7, <1>8

\* A command begins.
LEMMA ToStartBegins ==
  ASSUME IsFiniteSet(tasks), NEW u, tasks' = tasks \cup {u}
  PROVE  /\ IsFiniteSet(tasks') /\ Cardinality(ToStart) \in Nat /\ Cardinality(ToStart') \in Nat
         /\ Cardinality(ToStart') <= Cardinality(ToStart) + 1
<1>1. IsFiniteSet(ToStart) /\ (ToStart' = ToStart \/ ToStart' = ToStart \cup {u})
  <2>1. ToStart \in SUBSET tasks
    BY DEF ToStart
  <2>2. IsFiniteSet(ToStart)
    BY <2>1, FS_Subset
  <2>3. CASE u.step = "show"
    <3>1. ToStart' = ToStart
      BY <2>3 DEF ToStart
    <3> QED BY <2>2, <3>1
  <2>4. CASE u.step # "show"
    <3>1. ToStart' = ToStart \cup {u}
      BY <2>4 DEF ToStart
    <3> QED BY <2>2, <3>1
  <2> QED BY <2>3, <2>4
<1>2. IsFiniteSet(tasks')
  BY FS_AddElement
<1>3. IsFiniteSet(ToStart \cup {u}) /\ Cardinality(ToStart \cup {u}) = IF u \in ToStart THEN Cardinality(ToStart) ELSE Cardinality(ToStart) + 1
  BY <1>1, FS_AddElement
<1>4. Cardinality(ToStart) \in Nat /\ Cardinality(ToStart \cup {u}) \in Nat
  BY <1>1, <1>3, FS_CardinalityType
<1>5. Cardinality(ToStart) <= Cardinality(ToStart) + 1 /\ Cardinality(ToStart \cup {u}) <= Cardinality(ToStart) + 1
  <2>1. Cardinality(ToStart) + 1 \in Nat /\ Cardinality(ToStart) <= Cardinality(ToStart) + 1
    BY <1>4
  <2> QED BY <1>3, <2>1
<1>6. CASE ToStart' = ToStart
  BY <1>2, <1>4, <1>5, <1>6
<1>7. CASE ToStart' = ToStart \cup {u}
  BY <1>2, <1>4, <1>5, <1>7
<1> QED BY <1>1, <1>6, <1>7

\* Sessions are numbered.
LEMMA LatestIs ==
  ASSUME PanelTyped PROVE LatestSession \in Nat /\ LatestSession >= 1 /\ (service.session # None => LatestSession = service.session)
<1>1. service.session \in Panel!Sessions \cup {None}
  BY DEF PanelTyped, ServiceAnswer
<1>2. CASE service.session = None
  BY <1>2 DEF LatestSession
<1>3. CASE service.session # None
  <2>1. LatestSession = service.session /\ service.session \in Panel!Sessions
    BY <1>1, <1>3 DEF LatestSession
  <2> QED BY <2>1, PanelAssumed
<1> QED BY <1>2, <1>3

\* Nothing happens to the commands.
LEMMA CommandsStay ==
  ASSUME CommandsFit, PanelTyped, UNCHANGED <<tasks, service>>, clicks' \in Nat, clicks' <= clicks
  PROVE  CommandsFit'
<1>1. ToStart' = ToStart /\ LatestSession' = LatestSession /\ IsFiniteSet(ToStart)
  <2>1. ToStart \in SUBSET tasks
    BY DEF ToStart
  <2> QED BY <2>1, FS_Subset DEF ToStart, LatestSession, CommandsFit
<1>2. Cardinality(ToStart) \in Nat
  BY <1>1, FS_CardinalityType
<1>3. LatestSession \in Nat /\ clicks \in Nat /\ MaxClicks \in Nat
  BY LatestIs, PanelAssumed DEF PanelTyped
<1>4. LatestSession' + Cardinality(ToStart') + clicks' <= MaxClicks + 1
  <2>1. LatestSession + Cardinality(ToStart) + clicks <= MaxClicks + 1
    BY DEF CommandsFit
  <2> QED BY <1>1, <1>2, <1>3, <2>1
<1> QED BY <1>4 DEF CommandsFit, Panel!CapturedIsStored

\* The poll goes on, or begins anew for what is selected now.
LEMMA RepollFits ==
  ASSUME PanelTyped, PollFits, Panel!Repoll, page'.status = page.status, UNCHANGED rows
  PROVE  PollFits' /\ poll' \in PollReads /\ fresh' \in BOOLEAN
<1>1. CASE Panel!Wanted(page') = Panel!Wanted(page)
  <2>1. page'.selected = page.selected /\ UNCHANGED <<poll, fresh>>
    BY <1>1 DEF Panel!Wanted, Panel!Repoll
  <2> QED BY <2>1 DEF PanelTyped, PollFits, Panel!RowsAreOfSelection
<1>2. CASE Panel!Wanted(page') # Panel!Wanted(page)
  <2>1. poll' = Panel!Idle /\ fresh' = FALSE
    BY <1>2 DEF Panel!Repoll
  <2>2. Panel!Idle \in PollReads /\ Panel!Idle.step = "live"
    BY DEF Panel!Idle, PollReads
  <2> QED BY <2>1, <2>2 DEF PollFits, Panel!RowsAreOfSelection
<1> QED BY <1>1, <1>2

\* The poll does not notice.
LEMMA PollStays ==
  ASSUME PanelTyped, PollFits, UNCHANGED <<poll, rows, fresh>>,
         page'.status = page.status, page'.selected = page.selected
  PROVE  PollFits' /\ poll' \in PollReads /\ fresh' \in BOOLEAN
BY DEF PanelTyped, PollFits, Panel!RowsAreOfSelection

\* The window has just started: nothing runs but the reading of the preference.
LEMMA PanelInvariantInit == ASSUME Panel!Init PROVE PanelInvariant
<1> USE PanelAssumed DEF Panel!Init
<1>1. Inputs # {} /\ (CHOOSE chosen \in Inputs : TRUE) \in Inputs
  BY PartsAssumption DEF Panel!PanelAssumption
<1>2. 1 \in Panel!Sessions /\ service.session = None /\ service.active = FALSE
  OBVIOUS
<1>3. PanelTyped
  <2>1. service \in ServiceAnswer
    BY <1>1, <1>2 DEF ServiceAnswer
  <2>2. page \in PageKnows
    BY DEF PageKnows
  <2>3. poll \in PollReads
    BY DEF PollReads, Panel!Idle
  <2>4. clicks \in 0..MaxClicks /\ faults \in 0..MaxRefusals
    OBVIOUS
  <2>5. fresh \in BOOLEAN /\ unguarded \in BOOLEAN /\ contested \in BOOLEAN /\ rows = None
    OBVIOUS
  <2>6. preferred \in Inputs
    BY <1>1
  <2> QED BY <2>1, <2>2, <2>3, <2>4, <2>5, <2>6 DEF PanelTyped
<1>4. CommandsFit
  <2>1. ToStart = {} /\ LatestSession = 1
    BY <1>2 DEF ToStart, LatestSession
  <2>2. Cardinality(ToStart) = 0 /\ IsFiniteSet(tasks)
    BY <2>1, FS_EmptySet
  <2> QED BY <1>2, <2>1, <2>2 DEF CommandsFit, Panel!CapturedIsStored
<1>5. PollFits
  BY DEF PollFits, Panel!Idle, Panel!RowsAreOfSelection
<1>6. BusyFits /\ SourceFits
  BY <1>2 DEF BusyFits, SourceFits
<1> QED BY <1>3, <1>4, <1>5, <1>6 DEF PanelInvariant

\* A step of the poll.
LEMMA PollKeeps == ASSUME PanelInvariant, Panel!Polls PROVE PanelInvariant'
<1> USE PanelAssumed
<1>1. UNCHANGED <<service, preferred, tasks, unguarded, contested, clicks>>
  BY DEF Panel!Polls, Panel!ReadLive, Panel!ReadRows, Panel!ReadList, Panel!Polled, Panel!Apply,
     Panel!PollFails, Panel!Fails
<1>2. faults' \in 0..MaxRefusals
  BY DEF Panel!Polls, Panel!ReadLive, Panel!ReadRows, Panel!ReadList, Panel!Polled, Panel!Apply,
     Panel!PollFails, Panel!Fails, PanelInvariant, PanelTyped
<1>3. PanelTyped /\ PollFits
  BY DEF PanelInvariant
<1>4. /\ page' \in PageKnows /\ poll' \in PollReads /\ rows' \in Panel!Sessions \cup {None} /\ fresh' \in BOOLEAN
      /\ page'.busy = page.busy /\ PollFits'
  <2> USE <1>3
  <2>1. page \in PageKnows /\ poll \in PollReads /\ service \in ServiceAnswer /\ Panel!Idle \in PollReads
    BY DEF PanelTyped, Panel!Idle, PollReads
  <2>2. CASE Panel!ReadLive
    <3> DEFINE s == IF page.selected = None THEN Panel!Listing ELSE "rows"
    <3>1. s \in {"list", "apply", "rows"} /\ (s = "rows" <=> page.selected # None)
      BY DEF Panel!Listing
    <3>2. poll' = [poll EXCEPT !.step = s, !.status = service, !.rows = service.session] /\ UNCHANGED <<page, rows, fresh>>
      BY <2>2 DEF Panel!ReadLive, Panel!Polled
    <3> HIDE DEF s
    <3>3. /\ poll' \in PollReads /\ poll'.step = s /\ poll'.status = service /\ poll'.rows = service.session
      BY <2>1, <3>1, <3>2 DEF PollReads, ServiceAnswer
    <3> QED BY <2>1, <3>1, <3>2, <3>3 DEF PollFits, PanelTyped, Panel!RowsAreOfSelection
  <2>3. CASE Panel!ReadRows
    <3>1. poll' = [poll EXCEPT !.step = Panel!Listing, !.rows = page.selected] /\ UNCHANGED <<page, rows, fresh>>
          /\ page.selected # None /\ poll.status \in ServiceAnswer /\ Panel!Listing \in {"list", "apply"} /\ page.selected \in Panel!Sessions \cup {None}
      BY <2>1, <2>3 DEF Panel!ReadRows, Panel!Polled, PollFits, Panel!Listing, PageKnows
    <3>2. /\ poll' \in PollReads /\ poll'.step = Panel!Listing /\ poll'.status = poll.status /\ poll'.rows = page.selected
      BY <2>1, <3>1 DEF PollReads
    <3> QED BY <2>1, <3>1, <3>2 DEF PollFits, PanelTyped, Panel!RowsAreOfSelection
  <2>4. CASE Panel!ReadList
    <3>1. poll' = [poll EXCEPT !.step = "apply", !.list = service.sessions] /\ UNCHANGED <<page, rows, fresh>>
          /\ poll.step = "list" /\ service.sessions \in SUBSET Panel!Sessions
      BY <2>1, <2>4 DEF Panel!ReadList, Panel!Polled, ServiceAnswer
    <3>2. /\ poll' \in PollReads /\ poll'.step = "apply" /\ poll'.status = poll.status /\ poll'.rows = poll.rows
      BY <2>1, <3>1 DEF PollReads
    <3> QED BY <2>1, <3>1, <3>2 DEF PollFits, PanelTyped, Panel!RowsAreOfSelection
  <2>5. CASE Panel!Apply
    <3> DEFINE known == [page EXCEPT !.status = poll.status, !.list = IF page.history THEN poll.list ELSE page.list]
    <3>1. /\ poll.step = "apply" /\ rows' = poll.rows /\ poll' = Panel!Idle /\ fresh' = (Panel!Wanted(page') = Panel!Wanted(page))
          /\ page' = IF poll.status.revision = page.revision THEN known
                ELSE [known EXCEPT !.revision = poll.status.revision, !.history = poll.status.history, !.selected = None, !.after = None]
      BY <2>5 DEF Panel!Apply
    <3>2. /\ poll.status \in ServiceAnswer /\ poll.status.revision \in Nat /\ poll.status.history \in BOOLEAN
          /\ poll.rows = IF page.selected # None THEN page.selected ELSE poll.status.session
      BY <3>1 DEF PollFits, ServiceAnswer
    <3>3. poll.list \in SUBSET Panel!Sessions /\ poll.rows \in Panel!Sessions \cup {None}
      BY <2>1 DEF PollReads
    <3>4. known \in PageKnows /\ known.status = poll.status /\ known.busy = page.busy /\ known.selected = page.selected
      <4>1. (IF page.history THEN poll.list ELSE page.list) \in SUBSET Panel!Sessions
        BY <2>1, <3>3 DEF PageKnows
      <4> QED BY <2>1, <3>2, <4>1 DEF PageKnows
    <3> HIDE DEF known
    <3>5. page' \in PageKnows /\ page'.status = poll.status /\ page'.busy = page.busy
      BY <3>1, <3>2, <3>4 DEF PageKnows
    <3>6. fresh' => page'.selected = page.selected
      BY <3>1 DEF Panel!Wanted
    <3>7. Panel!Idle.step = "live"
      BY DEF Panel!Idle
    <3> QED BY <2>1, <3>1, <3>2, <3>3, <3>5, <3>6, <3>7 DEF PollFits, Panel!RowsAreOfSelection
  <2>6. CASE Panel!PollFails
    <3>1. poll' = Panel!Idle /\ UNCHANGED <<page, rows, fresh>> /\ Panel!Idle.step = "live"
      BY <2>6 DEF Panel!PollFails, Panel!Idle
    <3> QED BY <2>1, <3>1 DEF PollFits, PanelTyped, Panel!RowsAreOfSelection
  <2> QED BY <2>2, <2>3, <2>4, <2>5, <2>6 DEF Panel!Polls
<1>5. PanelTyped'
  BY <1>1, <1>2, <1>3, <1>4 DEF PanelTyped
<1>6. CommandsFit'
  BY <1>1, <1>3, CommandsStay DEF PanelInvariant, PanelTyped
<1>7. BusyFits' /\ SourceFits'
  BY <1>1, <1>4 DEF PanelInvariant, BusyFits, SourceFits
<1> QED BY <1>4, <1>5, <1>6, <1>7 DEF PanelInvariant

\* The user looks at something else.
LEMMA GoesKeeps ==
  ASSUME PanelInvariant, Panel!Clicks, NEW p \in PageKnows, p.busy = page.busy, p.status = page.status, Panel!Goes(p)
  PROVE  PanelInvariant'
<1> USE PanelAssumed
<1>1. UNCHANGED <<service, preferred, rows, tasks, unguarded, contested, faults>> /\ page' = p /\ Panel!Repoll
  BY DEF Panel!Goes
<1>2. PanelTyped
  BY DEF PanelInvariant
<1>3. clicks' \in 0..MaxClicks /\ clicks' <= clicks
  BY <1>2 DEF Panel!Clicks, PanelTyped
<1>4. PollFits' /\ poll' \in PollReads /\ fresh' \in BOOLEAN
  BY <1>1, RepollFits DEF PanelInvariant
<1>5. PanelTyped'
  BY <1>1, <1>2, <1>3, <1>4 DEF PanelTyped
<1>6. CommandsFit'
  BY <1>1, <1>2, <1>3, CommandsStay DEF PanelInvariant
<1>7. BusyFits' /\ SourceFits'
  BY <1>1 DEF PanelInvariant, BusyFits, SourceFits
<1> QED BY <1>4, <1>5, <1>6, <1>7 DEF PanelInvariant

\* The same, of each way to.
LEMMA LooksKeeps ==
  ASSUME PanelInvariant, \/ Panel!ToggleHistory \/ Panel!Back \/ Panel!NextPage \/ Panel!FirstPage \/ \E s \in Panel!Sessions : Panel!Select(s)
  PROVE  PanelInvariant'
<1>1. page \in PageKnows /\ rows \in Panel!Sessions \cup {None}
  BY DEF PanelInvariant, PanelTyped
<1>2. CASE Panel!ToggleHistory
  <2> DEFINE p == [page EXCEPT !.history = ~page.history, !.selected = None]
  <2>1. p \in PageKnows /\ p.busy = page.busy /\ p.status = page.status
    BY <1>1 DEF PageKnows
  <2>2. Panel!Clicks /\ Panel!Goes(p)
    BY <1>2 DEF Panel!ToggleHistory
  <2> HIDE DEF p
  <2> QED BY <2>1, <2>2, GoesKeeps
<1>3. CASE Panel!Back
  <2> DEFINE p == [page EXCEPT !.selected = None]
  <2>1. p \in PageKnows /\ p.busy = page.busy /\ p.status = page.status
    BY <1>1 DEF PageKnows
  <2>2. Panel!Clicks /\ Panel!Goes(p)
    BY <1>3 DEF Panel!Back
  <2> HIDE DEF p
  <2> QED BY <2>1, <2>2, GoesKeeps
<1>4. CASE Panel!NextPage
  <2> DEFINE p == [page EXCEPT !.after = rows]
  <2>1. p \in PageKnows /\ p.busy = page.busy /\ p.status = page.status
    BY <1>1 DEF PageKnows
  <2>2. Panel!Clicks /\ Panel!Goes(p)
    BY <1>4 DEF Panel!NextPage
  <2> HIDE DEF p
  <2> QED BY <2>1, <2>2, GoesKeeps
<1>5. CASE Panel!FirstPage
  <2> DEFINE p == [page EXCEPT !.after = None]
  <2>1. p \in PageKnows /\ p.busy = page.busy /\ p.status = page.status
    BY <1>1 DEF PageKnows
  <2>2. Panel!Clicks /\ Panel!Goes(p)
    BY <1>5 DEF Panel!FirstPage
  <2> HIDE DEF p
  <2> QED BY <2>1, <2>2, GoesKeeps
<1>6. ASSUME NEW s \in Panel!Sessions, Panel!Select(s) PROVE PanelInvariant'
  <2> DEFINE p == [page EXCEPT !.selected = s, !.after = None]
  <2>1. p \in PageKnows /\ p.busy = page.busy /\ p.status = page.status
    BY <1>1, <1>6 DEF PageKnows
  <2>2. Panel!Clicks /\ Panel!Goes(p)
    BY <1>6 DEF Panel!Select
  <2> HIDE DEF p
  <2> QED BY <2>1, <2>2, GoesKeeps
<1> QED BY <1>2, <1>3, <1>4, <1>5, <1>6

\* A command begins.
LEMMA PerformKeeps ==
  ASSUME PanelInvariant,
         NEW kind \in {"delete", "start", "stop", "retry", "source", "rename"}, NEW step \in {"do", "status", "start"},
         NEW of \in Panel!Sessions \cup Inputs \cup {None}, step # "do" => of \in Inputs, step = "start" => of = preferred,
         Panel!Perform(kind, step, of), unguarded' = (unguarded \/ page.busy)
  PROVE  PanelInvariant'
<1> USE PanelAssumed
<1> DEFINE u == [kind |-> kind, step |-> step, of |-> of, found |-> None, id |-> clicks]
<1>1. /\ UNCHANGED <<service, preferred, poll, rows, fresh, faults>> /\ clicks > 0 /\ clicks' = clicks - 1
      /\ page' = [page EXCEPT !.busy = TRUE] /\ tasks' = tasks \cup {u} /\ contested' = (contested \/ tasks # {})
  BY DEF Panel!Perform, Panel!Clicks
<1>2. PanelTyped /\ clicks \in Nat /\ page \in PageKnows
  BY DEF PanelInvariant, PanelTyped
<1>3. clicks' \in 0..MaxClicks /\ clicks' \in Nat
  BY <1>1, <1>2 DEF PanelTyped
<1>4. page' \in PageKnows /\ page'.busy = TRUE /\ page'.status = page.status /\ page'.selected = page.selected
  BY <1>1, <1>2 DEF PageKnows
<1>5. u \in Command /\ u.step = step /\ u.of = of
  BY <1>2 DEF Command
<1> HIDE DEF u
<1>6. PollFits' /\ poll' \in PollReads /\ fresh' \in BOOLEAN
  BY <1>1, <1>2, <1>4, PollStays DEF PanelInvariant
<1>7. PanelTyped'
  <2>1. unguarded' \in BOOLEAN /\ contested' \in BOOLEAN
    BY <1>1
  <2> QED BY <1>1, <1>2, <1>3, <1>4, <1>6, <2>1 DEF PanelTyped
<1>8. CommandsFit'
  <2>1. /\ IsFiniteSet(tasks') /\ Cardinality(ToStart) \in Nat /\ Cardinality(ToStart') \in Nat
        /\ Cardinality(ToStart') <= Cardinality(ToStart) + 1
    BY <1>1, ToStartBegins DEF PanelInvariant, CommandsFit
  <2>2. LatestSession' = LatestSession /\ LatestSession \in Nat /\ LatestSession + Cardinality(ToStart) + clicks <= MaxClicks + 1
    BY <1>1, <1>2, LatestIs DEF PanelInvariant, CommandsFit, LatestSession
  <2>3. LatestSession' + Cardinality(ToStart') + clicks' <= MaxClicks + 1
    BY <1>1, <1>2, <2>1, <2>2
  <2>4. tasks' \subseteq Command /\ \A t \in tasks' : t.step # "do" => t.of \in Inputs
    BY <1>1, <1>5 DEF PanelInvariant, CommandsFit
  <2> QED BY <1>1, <2>1, <2>3, <2>4 DEF PanelInvariant, CommandsFit, Panel!CapturedIsStored
<1>9. BusyFits'
  <2> SUFFICES ASSUME ~unguarded' PROVE page'.busy /\ \E t \in tasks' : tasks' = {t}
    BY DEF BusyFits
  <2>1. tasks = {}
    BY DEF PanelInvariant, BusyFits
  <2> QED BY <1>1, <1>4, <2>1
<1>10. SourceFits'
  <2> SUFFICES ASSUME ~contested'
      PROVE  /\ tasks' = {} \/ \E t \in tasks' : tasks' = {t}
             /\ service.active => service.source = preferred
             /\ \A t \in tasks' : t.step = "store" => (service.active => service.source = t.of)
             /\ \A t \in tasks' : t.step = "start" => t.of = preferred
    BY <1>1 DEF SourceFits
  <2>1. tasks = {} /\ ~contested
    BY <1>1
  <2>2. tasks' = {u}
    BY <1>1, <2>1
  <2> QED BY <1>5, <2>1, <2>2 DEF PanelInvariant, SourceFits
<1> QED BY <1>6, <1>7, <1>8, <1>9, <1>10 DEF PanelInvariant

\* The same, of each command.
LEMMA CommandBegins ==
  ASSUME PanelInvariant, Panel!Delete \/ Panel!Start \/ Panel!Stop \/ Panel!Retry \/ Panel!Rename \/ \E chosen \in Inputs : Panel!ChangeSource(chosen)
  PROVE  PanelInvariant'
<1>1. page.selected \in Panel!Sessions \cup {None} /\ preferred \in Inputs /\ page.busy \in BOOLEAN
  BY DEF PanelInvariant, PanelTyped, PageKnows
<1>2. ASSUME NEW kind, NEW step, NEW of, Panel!Button(kind, step, of)
      PROVE  Panel!Perform(kind, step, of) /\ unguarded' = (unguarded \/ page.busy)
  <2>1. Panel!Perform(kind, step, of) /\ ~page.busy /\ unguarded' = unguarded /\ unguarded \in BOOLEAN
    BY <1>2 DEF Panel!Button, PanelInvariant, PanelTyped
  <2> QED BY <2>1
<1>3. CASE Panel!Delete
  <2>1. page.selected # None /\ Panel!Button("delete", "do", page.selected)
    BY <1>3 DEF Panel!Delete
  <2>2. Panel!Perform("delete", "do", page.selected) /\ unguarded' = (unguarded \/ page.busy)
    BY <1>2, <2>1
  <2> QED BY <1>1, <2>2, PerformKeeps
<1>4. CASE Panel!Start
  <2>1. Panel!Perform("start", "start", preferred) /\ unguarded' = (unguarded \/ page.busy)
    BY <1>2, <1>4 DEF Panel!Start
  <2> QED BY <1>1, <2>1, PerformKeeps
<1>5. CASE Panel!Stop
  <2>1. Panel!Perform("stop", "do", None) /\ unguarded' = (unguarded \/ page.busy)
    BY <1>2, <1>5 DEF Panel!Stop
  <2> QED BY <1>1, <2>1, PerformKeeps
<1>6. CASE Panel!Retry
  <2>1. Panel!Perform("retry", "do", None) /\ unguarded' = (unguarded \/ page.busy)
    BY <1>2, <1>6 DEF Panel!Retry
  <2> QED BY <1>1, <2>1, PerformKeeps
<1>7. CASE Panel!Rename
  <2>1. Panel!Perform("rename", "do", None) /\ unguarded' = (unguarded \/ page.busy)
    BY <1>7 DEF Panel!Rename
  <2> QED BY <1>1, <2>1, PerformKeeps
<1>8. ASSUME NEW chosen \in Inputs, Panel!ChangeSource(chosen) PROVE PanelInvariant'
  <2>1. Panel!Perform("source", "status", chosen) /\ unguarded' = (unguarded \/ page.busy)
    BY <1>2, <1>8 DEF Panel!ChangeSource
  <2> QED BY <1>1, <2>1, PerformKeeps
<1> QED BY <1>3, <1>4, <1>5, <1>6, <1>7, <1>8

\* The service starts a session.
LEMMA StartedFits ==
  ASSUME PanelTyped, Panel!CapturedIsStored, NEW chosen \in Inputs, Panel!Started(chosen),
         LatestSession + 1 <= MaxClicks + 2
  PROVE  /\ service' \in ServiceAnswer /\ Panel!CapturedIsStored' /\ LatestSession' <= LatestSession + 1 /\ LatestSession' \in Nat
         /\ service'.active /\ service'.source = (IF service.active THEN service.source ELSE chosen)
<1> USE PanelAssumed
<1>1. service \in ServiceAnswer /\ LatestSession \in Nat /\ LatestSession >= 1 /\ service.revision + 1 \in Nat
  BY LatestIs DEF PanelTyped, ServiceAnswer
<1>2. CASE service.active
  <2>1. service' = [service EXCEPT !.revision = service.revision + 1, !.history = FALSE]
    BY <1>2 DEF Panel!Started
  <2>2. service' \in ServiceAnswer /\ service'.session = service.session /\ service'.active = service.active
        /\ service'.sessions = service.sessions /\ service'.source = service.source
    BY <1>1, <2>1 DEF ServiceAnswer
  <2>3. LatestSession' = LatestSession
    BY <2>2 DEF LatestSession
  <2> QED BY <1>1, <1>2, <2>2, <2>3 DEF Panel!CapturedIsStored
<1>3. CASE ~service.active
  <2> DEFINE s == IF service.session = None THEN 2 ELSE service.session + 1
  <2>1. service' = [sessions |-> service.sessions \cup {s}, session |-> s, active |-> TRUE, source |-> chosen,
                    revision |-> service.revision + 1, history |-> FALSE]
    BY <1>3 DEF Panel!Started
  <2>2. s = LatestSession + 1
    BY DEF LatestSession
  <2> HIDE DEF s
  <2>3. s \in Panel!Sessions /\ s # None /\ s \in Nat
    BY <1>1, <2>2
  <2>4. service.sessions \cup {s} \in SUBSET Panel!Sessions
    BY <1>1, <2>3 DEF ServiceAnswer
  <2>5. service' \in ServiceAnswer /\ service'.session = s /\ service'.active = TRUE
        /\ service'.sessions = service.sessions \cup {s} /\ service'.source = chosen
    BY <1>1, <2>1, <2>3, <2>4 DEF ServiceAnswer
  <2>6. LatestSession' = s
    BY <2>3, <2>5 DEF LatestSession
  <2> QED BY <1>1, <1>3, <2>2, <2>3, <2>5, <2>6 DEF Panel!CapturedIsStored
<1> QED BY <1>2, <1>3

\* Another window asks for the caption window, or capturing is toggled.
LEMMA AskedKeeps ==
  ASSUME PanelInvariant, Panel!Toggled \/ \E past \in BOOLEAN : Panel!Asked(past)
  PROVE  PanelInvariant'
<1> USE PanelAssumed
<1>1. UNCHANGED <<preferred, page, poll, rows, fresh, tasks, unguarded, faults>> /\ clicks > 0 /\ clicks' = clicks - 1
  BY DEF Panel!Toggled, Panel!Asked, Panel!Clicks
<1>2. PanelTyped /\ clicks \in Nat /\ service \in ServiceAnswer /\ CommandsFit /\ preferred \in Inputs
  BY DEF PanelInvariant, PanelTyped
<1>3. clicks' \in 0..MaxClicks /\ clicks' \in Nat
  BY <1>1, <1>2 DEF PanelTyped
<1>4. /\ ToStart' = ToStart /\ Cardinality(ToStart) \in Nat /\ LatestSession \in Nat /\ LatestSession >= 1
      /\ LatestSession + Cardinality(ToStart) + clicks <= MaxClicks + 1
  <2>1. ToStart \in SUBSET tasks /\ ToStart' = ToStart
    BY <1>1 DEF ToStart
  <2>2. IsFiniteSet(ToStart)
    BY <1>2, <2>1, FS_Subset DEF CommandsFit
  <2> QED BY <1>2, <2>1, <2>2, FS_CardinalityType, LatestIs DEF CommandsFit
<1>5. /\ service' \in ServiceAnswer /\ Panel!CapturedIsStored' /\ LatestSession' <= LatestSession + 1 /\ LatestSession' \in Nat
      /\ \/ service'.active = service.active /\ service'.source = service.source /\ contested' = contested
         \/ service'.active = FALSE /\ contested' = (contested \/ tasks # {})
         \/ service'.source = preferred /\ contested' = (contested \/ tasks # {})
  <2>1. ASSUME NEW past \in BOOLEAN, Panel!Asked(past)
        PROVE  /\ service' \in ServiceAnswer /\ Panel!CapturedIsStored' /\ LatestSession' = LatestSession
               /\ service'.active = service.active /\ service'.source = service.source /\ contested' = contested
    <3>1. service' = [service EXCEPT !.revision = service.revision + 1, !.history = past] /\ contested' = contested
      BY <2>1 DEF Panel!Asked
    <3>2. service.revision + 1 \in Nat
      BY <1>2 DEF ServiceAnswer
    <3>3. service' \in ServiceAnswer /\ service'.session = service.session /\ service'.active = service.active
          /\ service'.sessions = service.sessions /\ service'.source = service.source
      BY <1>2, <3>1, <3>2 DEF ServiceAnswer
    <3> QED BY <1>2, <3>1, <3>3 DEF Panel!CapturedIsStored, CommandsFit, LatestSession
  <2>2. CASE Panel!Toggled
    <3>1. contested' = (contested \/ tasks # {})
      BY <2>2 DEF Panel!Toggled
    <3>2. CASE service.active
      <4>1. service' = [service EXCEPT !.active = FALSE]
        BY <2>2, <3>2 DEF Panel!Toggled
      <4>2. service' \in ServiceAnswer /\ service'.session = service.session /\ service'.active = FALSE
        BY <1>2, <4>1 DEF ServiceAnswer
      <4>3. LatestSession' = LatestSession
        BY <4>2 DEF LatestSession
      <4> QED BY <1>4, <3>1, <4>2, <4>3 DEF Panel!CapturedIsStored
    <3>3. CASE ~service.active
      <4>1. Panel!Started(preferred)
        BY <2>2, <3>3 DEF Panel!Toggled
      <4>2. LatestSession + 1 <= MaxClicks + 2
        BY <1>1, <1>2, <1>4
      <4>3. /\ service' \in ServiceAnswer /\ Panel!CapturedIsStored' /\ LatestSession' <= LatestSession + 1 /\ LatestSession' \in Nat
            /\ service'.source = (IF service.active THEN service.source ELSE preferred)
        BY <1>2, <4>1, <4>2, StartedFits DEF CommandsFit
      <4> QED BY <3>1, <3>3, <4>3
    <3> QED BY <3>2, <3>3
  <2>3. CASE \E past \in BOOLEAN : Panel!Asked(past)
    <3>1. LatestSession' <= LatestSession + 1
      BY <1>4, <2>1, <2>3
    <3> QED BY <1>4, <2>1, <2>3, <3>1
  <2> QED BY <2>2, <2>3
<1>6. PollFits' /\ poll' \in PollReads /\ fresh' \in BOOLEAN
  BY <1>1, <1>2, PollStays DEF PanelInvariant
<1>7. PanelTyped'
  <2>1. contested' \in BOOLEAN
    BY <1>2, <1>5 DEF PanelTyped
  <2> QED BY <1>1, <1>2, <1>3, <1>5, <1>6, <2>1 DEF PanelTyped
<1>8. CommandsFit'
  <2>1. LatestSession' + Cardinality(ToStart') + clicks' <= MaxClicks + 1
    BY <1>1, <1>2, <1>4, <1>5
  <2> QED BY <1>1, <1>2, <1>5, <2>1 DEF CommandsFit
<1>9. BusyFits'
  BY <1>1 DEF PanelInvariant, BusyFits
<1>10. SourceFits'
  <2>1. CASE service'.active = service.active /\ service'.source = service.source /\ contested' = contested
    BY <1>1, <2>1 DEF PanelInvariant, SourceFits
  <2>2. CASE service'.active = FALSE /\ contested' = (contested \/ tasks # {})
    BY <1>1, <2>2 DEF PanelInvariant, SourceFits
  <2>3. CASE service'.source = preferred /\ contested' = (contested \/ tasks # {})
    BY <1>1, <2>3 DEF PanelInvariant, SourceFits
  <2> QED BY <1>5, <2>1, <2>2, <2>3
<1> QED BY <1>6, <1>7, <1>8, <1>9, <1>10 DEF PanelInvariant

\* A command goes on: what the service is told fits the step the command is at then.
LEMMA CommandMoves ==
  ASSUME PanelInvariant, NEW t \in tasks, NEW u \in Command, t.step # "show", u.step # "do" => u.of \in Inputs,
         tasks' = (tasks \ {t}) \cup {u}, UNCHANGED <<page, poll, rows, fresh, unguarded, contested, clicks, faults>>,
         service' \in ServiceAnswer, preferred' \in Inputs, Panel!CapturedIsStored',
         LatestSession' \in Nat, LatestSession' <= (IF u.step = "show" THEN LatestSession + 1 ELSE LatestSession),
         ~contested => (service'.active => service'.source = preferred'),
         u.step = "store" => (service'.active => service'.source = u.of),
         u.step = "start" => u.of = preferred'
  PROVE  PanelInvariant'
<1>1. PanelTyped /\ CommandsFit /\ clicks \in Nat /\ MaxClicks \in Nat /\ LatestSession \in Nat
  BY PanelAssumed, LatestIs DEF PanelInvariant, PanelTyped
<1>2. PollFits' /\ poll' \in PollReads /\ fresh' \in BOOLEAN
  BY <1>1, PollStays DEF PanelInvariant
<1>3. PanelTyped'
  BY <1>1, <1>2 DEF PanelTyped
<1>4. CommandsFit'
  <2>1. /\ IsFiniteSet(tasks') /\ Cardinality(ToStart) \in Nat /\ Cardinality(ToStart') \in Nat
        /\ Cardinality(ToStart') <= Cardinality(ToStart)
        /\ u.step = "show" => Cardinality(ToStart') = Cardinality(ToStart) - 1
    BY <1>1, ToStartMoves DEF CommandsFit
  <2>2. LatestSession + Cardinality(ToStart) + clicks <= MaxClicks + 1
    BY <1>1 DEF CommandsFit
  <2>3. LatestSession' + Cardinality(ToStart') + clicks' <= MaxClicks + 1
    <3>1. CASE u.step = "show"
      BY <1>1, <2>1, <2>2, <3>1
    <3>2. CASE u.step # "show"
      BY <1>1, <2>1, <2>2, <3>2
    <3> QED BY <3>1, <3>2
  <2>4. tasks' \subseteq Command /\ \A k \in tasks' : k.step # "do" => k.of \in Inputs
    BY <1>1 DEF CommandsFit
  <2> QED BY <2>1, <2>3, <2>4 DEF CommandsFit
<1>5. BusyFits'
  <2> SUFFICES ASSUME ~unguarded PROVE page'.busy /\ \E k \in tasks' : tasks' = {k}
    BY DEF BusyFits
  <2>1. tasks = {t} /\ page.busy
    BY DEF PanelInvariant, BusyFits
  <2> QED BY <2>1
<1>6. SourceFits'
  <2> SUFFICES ASSUME ~contested
      PROVE  /\ tasks' = {} \/ \E k \in tasks' : tasks' = {k}
             /\ service'.active => service'.source = preferred'
             /\ \A k \in tasks' : k.step = "store" => (service'.active => service'.source = k.of)
             /\ \A k \in tasks' : k.step = "start" => k.of = preferred'
    BY DEF SourceFits
  <2>1. tasks = {t}
    BY DEF PanelInvariant, SourceFits
  <2>2. tasks' = {u}
    BY <2>1
  <2> QED BY <2>1, <2>2
<1> QED BY <1>2, <1>3, <1>4, <1>5, <1>6 DEF PanelInvariant

\* A command ends.
LEMMA CommandEnds ==
  ASSUME PanelInvariant, NEW t \in tasks, tasks' = tasks \ {t},
         UNCHANGED <<preferred, rows, unguarded, contested, clicks>>, faults' \in 0..MaxRefusals,
         page' \in PageKnows, page'.busy = FALSE, poll' \in PollReads, fresh' \in BOOLEAN, PollFits',
         service' \in ServiceAnswer, Panel!CapturedIsStored',
         LatestSession' \in Nat, LatestSession' <= (IF t.step = "show" THEN LatestSession ELSE LatestSession + 1),
         ~contested => (service'.active => service'.source = preferred)
  PROVE  PanelInvariant'
<1>1. PanelTyped /\ CommandsFit /\ clicks \in Nat /\ MaxClicks \in Nat /\ LatestSession \in Nat
  BY PanelAssumed, LatestIs DEF PanelInvariant, PanelTyped
<1>2. PanelTyped'
  BY <1>1 DEF PanelTyped
<1>3. CommandsFit'
  <2>1. /\ IsFiniteSet(tasks') /\ Cardinality(ToStart) \in Nat /\ Cardinality(ToStart') \in Nat
        /\ Cardinality(ToStart') <= Cardinality(ToStart)
        /\ t.step # "show" => Cardinality(ToStart') = Cardinality(ToStart) - 1
    BY <1>1, ToStartEnds DEF CommandsFit
  <2>2. LatestSession + Cardinality(ToStart) + clicks <= MaxClicks + 1
    BY <1>1 DEF CommandsFit
  <2>3. LatestSession' + Cardinality(ToStart') + clicks' <= MaxClicks + 1
    <3>1. CASE t.step = "show"
      BY <1>1, <2>1, <2>2, <3>1
    <3>2. CASE t.step # "show"
      BY <1>1, <2>1, <2>2, <3>2
    <3> QED BY <3>1, <3>2
  <2>4. tasks' \subseteq Command /\ \A k \in tasks' : k.step # "do" => k.of \in Inputs
    BY <1>1 DEF CommandsFit
  <2> QED BY <2>1, <2>3, <2>4 DEF CommandsFit
<1>4. BusyFits'
  <2> SUFFICES ASSUME ~unguarded PROVE tasks' = {} /\ ~page'.busy
    BY DEF BusyFits
  <2>1. tasks = {t}
    BY DEF PanelInvariant, BusyFits
  <2> QED BY <2>1
<1>5. SourceFits'
  <2> SUFFICES ASSUME ~contested
      PROVE  tasks' = {} /\ (service'.active => service'.source = preferred')
    BY DEF SourceFits
  <2>1. tasks = {t}
    BY DEF PanelInvariant, SourceFits
  <2> QED BY <2>1
<1> QED BY <1>2, <1>3, <1>4, <1>5 DEF PanelInvariant

\* What the steps of a command have in common.
LEMMA CommandFacts ==
  ASSUME PanelInvariant, NEW t \in tasks
  PROVE  /\ PanelTyped /\ CommandsFit /\ t \in Command /\ service \in ServiceAnswer /\ page \in PageKnows /\ preferred \in Inputs
         /\ poll \in PollReads /\ fresh \in BOOLEAN /\ (t.step # "do" => t.of \in Inputs) /\ LatestSession \in Nat /\ LatestSession >= 1
         /\ faults \in 0..MaxRefusals /\ Panel!CapturedIsStored
         /\ t.step # "show" => LatestSession + 1 <= MaxClicks + 2
<1>1. PanelTyped /\ CommandsFit /\ t \in Command /\ service \in ServiceAnswer /\ page \in PageKnows /\ preferred \in Inputs
         /\ poll \in PollReads /\ fresh \in BOOLEAN /\ (t.step # "do" => t.of \in Inputs)
         /\ faults \in 0..MaxRefusals /\ Panel!CapturedIsStored /\ clicks \in Nat /\ MaxClicks \in Nat
  BY PanelAssumed DEF PanelInvariant, PanelTyped, CommandsFit
<1>2. LatestSession \in Nat /\ LatestSession >= 1
  BY <1>1, LatestIs
<1>3. LatestSession + 1 <= MaxClicks + 2
  <2>1. ToStart \in SUBSET tasks
    BY DEF ToStart
  <2>2. IsFiniteSet(ToStart)
    BY <1>1, <2>1, FS_Subset DEF CommandsFit
  <2>3. Cardinality(ToStart) \in Nat
    BY <2>2, FS_CardinalityType
  <2>4. LatestSession + Cardinality(ToStart) + clicks <= MaxClicks + 1
    BY <1>1 DEF CommandsFit
  <2> QED BY <1>1, <1>2, <2>3, <2>4
<1> QED BY <1>1, <1>2, <1>3

\* A step of a command.
LEMMA CommandStepKeeps == ASSUME PanelInvariant, NEW t \in tasks, Panel!Step(t) PROVE PanelInvariant'
<1>1. /\ PanelTyped /\ CommandsFit /\ t \in Command /\ service \in ServiceAnswer /\ page \in PageKnows /\ preferred \in Inputs
      /\ poll \in PollReads /\ fresh \in BOOLEAN /\ (t.step # "do" => t.of \in Inputs) /\ LatestSession \in Nat /\ LatestSession >= 1
      /\ faults \in 0..MaxRefusals /\ Panel!CapturedIsStored
      /\ t.step # "show" => LatestSession + 1 <= MaxClicks + 2
  BY CommandFacts
<1>2. UNCHANGED <<rows, unguarded, contested, clicks, faults>>
  BY DEF Panel!Step
<1>3. CASE Panel!ReadStatus(t)
  <2> DEFINE u == [t EXCEPT !.found = service, !.step = IF Panel!OtherSource(t, service) THEN "stop" ELSE "store"]
  <2>1. /\ t.step = "status" /\ tasks' = (tasks \ {t}) \cup {u} /\ UNCHANGED <<service, preferred, page, poll, fresh>>
    BY <1>3 DEF Panel!ReadStatus
  <2>2. (IF Panel!OtherSource(t, service) THEN "stop" ELSE "store") \in {"stop", "store"}
    OBVIOUS
  <2>3. u \in Command /\ u.step = (IF Panel!OtherSource(t, service) THEN "stop" ELSE "store") /\ u.of = t.of
    BY <1>1, <2>2 DEF Command
  <2> HIDE DEF u
  <2>4. u.step \in {"stop", "store"} /\ (u.step = "store" => (service.active => service.source = u.of))
    BY <2>3 DEF Panel!OtherSource
  <2>5. LatestSession' = LatestSession /\ Panel!CapturedIsStored'
    BY <1>1, <2>1 DEF LatestSession, Panel!CapturedIsStored
  <2>6. ~contested => (service.active => service.source = preferred)
    BY DEF PanelInvariant, SourceFits
  <2> QED BY <1>1, <1>2, <2>1, <2>3, <2>4, <2>5, <2>6, CommandMoves
<1>4. CASE Panel!StopOther(t)
  <2> DEFINE u == [t EXCEPT !.step = "store"]
  <2>1. /\ t.step = "stop" /\ tasks' = (tasks \ {t}) \cup {u} /\ UNCHANGED <<preferred, page, poll, fresh>>
        /\ service' = [service EXCEPT !.active = FALSE]
    BY <1>4 DEF Panel!StopOther, Panel!Move
  <2>2. u \in Command /\ u.step = "store" /\ u.of = t.of
    BY <1>1 DEF Command
  <2> HIDE DEF u
  <2>3. service' \in ServiceAnswer /\ service'.active = FALSE /\ service'.session = service.session
    BY <1>1, <2>1 DEF ServiceAnswer
  <2>4. LatestSession' = LatestSession /\ Panel!CapturedIsStored'
    BY <2>3 DEF LatestSession, Panel!CapturedIsStored
  <2>5. ~service'.active /\ LatestSession' \in Nat /\ LatestSession' <= LatestSession /\ t.of \in Inputs
    BY <1>1, <2>1, <2>3, <2>4
  <2> QED BY <1>1, <1>2, <2>1, <2>2, <2>3, <2>4, <2>5, CommandMoves
<1>5. CASE Panel!Store(t)
  <2> DEFINE k == IF Panel!OtherSource(t, t.found) THEN "start" ELSE "show"
             u == [t EXCEPT !.step = k]
  <2>1. /\ t.step = "store" /\ tasks' = (tasks \ {t}) \cup {u} /\ UNCHANGED <<service, page, poll, fresh>>
        /\ preferred' = t.of
    BY <1>5 DEF Panel!Store, Panel!Move
  <2>2. k \in {"start", "show"}
    OBVIOUS
  <2> HIDE DEF k
  <2>3. u \in Command /\ u.step = k /\ u.of = t.of
    BY <1>1, <2>2 DEF Command
  <2> HIDE DEF u
  <2>4. LatestSession' = LatestSession /\ Panel!CapturedIsStored'
    BY <1>1, <2>1 DEF LatestSession, Panel!CapturedIsStored
  <2>5. ~contested => (service.active => service.source = t.of)
    BY <2>1 DEF PanelInvariant, SourceFits
  <2> QED BY <1>1, <1>2, <2>1, <2>2, <2>3, <2>4, <2>5, CommandMoves
<1>6. CASE Panel!StartTask(t)
  <2>1. t.step = "start" /\ Panel!Started(t.of) /\ UNCHANGED <<preferred, poll, fresh>>
    BY <1>6 DEF Panel!StartTask
  <2>2. /\ service' \in ServiceAnswer /\ Panel!CapturedIsStored' /\ LatestSession' <= LatestSession + 1 /\ LatestSession' \in Nat
        /\ service'.active /\ service'.source = (IF service.active THEN service.source ELSE t.of)
    BY <1>1, <2>1, StartedFits
  <2>3. ~contested => t.of = preferred /\ (service.active => service.source = preferred)
    BY <2>1 DEF PanelInvariant, SourceFits
  <2>4. CASE t.kind = "source"
    <3> DEFINE u == [t EXCEPT !.step = "show"]
    <3>1. tasks' = (tasks \ {t}) \cup {u} /\ UNCHANGED page
      BY <1>6, <2>4 DEF Panel!StartTask, Panel!Move
    <3>2. u \in Command /\ u.step = "show" /\ u.of = t.of
      BY <1>1 DEF Command
    <3> HIDE DEF u
    <3> QED BY <1>1, <1>2, <2>1, <2>2, <2>3, <3>1, <3>2, CommandMoves
  <2>5. CASE t.kind # "source"
    <3>1. tasks' = tasks \ {t} /\ page' = [page EXCEPT !.busy = FALSE]
      BY <1>6, <2>5 DEF Panel!StartTask, Panel!Done
    <3>2. page' \in PageKnows /\ page'.busy = FALSE /\ page'.status = page.status /\ page'.selected = page.selected
      BY <1>1, <3>1 DEF PageKnows
    <3>3. PollFits' /\ poll' \in PollReads /\ fresh' \in BOOLEAN
      BY <1>1, <1>2, <2>1, <3>2, PollStays DEF PanelInvariant
    <3> QED BY <1>1, <1>2, <2>1, <2>2, <2>3, <3>1, <3>2, <3>3, CommandEnds
  <2> QED BY <2>4, <2>5
<1>7. CASE Panel!Show(t)
  <2>1. /\ t.step = "show" /\ tasks' = tasks \ {t} /\ page' = [[page EXCEPT !.status = service] EXCEPT !.busy = FALSE]
        /\ fresh' = (fresh /\ page.status # None /\ page.status.session = service.session)
        /\ UNCHANGED <<service, preferred, poll>>
    BY <1>7 DEF Panel!Show, Panel!Done
  <2>2. page' \in PageKnows /\ page'.busy = FALSE /\ page'.status = service /\ page'.selected = page.selected
    BY <1>1, <2>1 DEF PageKnows
  <2>3. PollFits' /\ fresh' \in BOOLEAN
    <3>1. fresh' => rows = (IF page.selected # None THEN page.selected ELSE page.status.session) /\ page.status.session = service.session
      BY <2>1 DEF PanelInvariant, PollFits, Panel!RowsAreOfSelection
    <3>2. Panel!RowsAreOfSelection'
      BY <1>2, <2>1, <2>2, <3>1 DEF Panel!RowsAreOfSelection
    <3>3. fresh' \in BOOLEAN
      BY <2>1
    <3> QED BY <2>1, <2>2, <3>2, <3>3 DEF PanelInvariant, PollFits
  <2>4. LatestSession' = LatestSession /\ Panel!CapturedIsStored'
    BY <1>1, <2>1 DEF LatestSession, Panel!CapturedIsStored
  <2>5. ~contested => (service'.active => service'.source = preferred)
    BY <2>1 DEF PanelInvariant, SourceFits
  <2> QED BY <1>1, <1>2, <2>1, <2>2, <2>3, <2>4, <2>5, CommandEnds
<1>8. CASE Panel!Call(t)
  <2>1. /\ t.step = "do" /\ Panel!Repoll /\ UNCHANGED preferred /\ tasks' = tasks \ {t}
        /\ page' = [(IF t.kind = "delete" /\ ~Panel!Refuses(t) THEN [page EXCEPT !.selected = None] ELSE page) EXCEPT !.busy = FALSE]
    BY <1>8 DEF Panel!Call, Panel!Done
  <2>2. page' \in PageKnows /\ page'.busy = FALSE /\ page'.status = page.status
    <3> DEFINE q == IF t.kind = "delete" /\ ~Panel!Refuses(t) THEN [page EXCEPT !.selected = None] ELSE page
    <3>1. q \in PageKnows /\ q.status = page.status
      BY <1>1 DEF PageKnows
    <3>2. page' = [q EXCEPT !.busy = FALSE]
      BY <2>1
    <3> HIDE DEF q
    <3> QED BY <3>1, <3>2 DEF PageKnows
  <2>3. PollFits' /\ poll' \in PollReads /\ fresh' \in BOOLEAN
    BY <1>1, <1>2, <2>1, <2>2, RepollFits DEF PanelInvariant
  <2>4. \/ service' = service
        \/ service' = [service EXCEPT !.active = FALSE]
        \/ service' = [service EXCEPT !.sessions = service.sessions \ {t.of}] /\ ~(service.active /\ service.session = t.of)
    BY <1>8 DEF Panel!Call, Panel!Refuses
  <2>5. /\ service' \in ServiceAnswer /\ service'.session = service.session /\ service'.source = service.source
        /\ (service'.active => service.active) /\ Panel!CapturedIsStored'
    <3>1. CASE service' = service
      BY <1>1, <3>1 DEF Panel!CapturedIsStored
    <3>2. CASE service' = [service EXCEPT !.active = FALSE]
      BY <1>1, <3>2 DEF Panel!CapturedIsStored, ServiceAnswer
    <3>3. CASE service' = [service EXCEPT !.sessions = service.sessions \ {t.of}] /\ ~(service.active /\ service.session = t.of)
      <4>1. service.sessions \ {t.of} \in SUBSET Panel!Sessions
        BY <1>1 DEF ServiceAnswer
      <4> QED BY <1>1, <3>3, <4>1 DEF Panel!CapturedIsStored, ServiceAnswer
    <3> QED BY <2>4, <3>1, <3>2, <3>3
  <2>6. LatestSession' = LatestSession
    BY <2>5 DEF LatestSession
  <2>7. ~contested => (service'.active => service'.source = preferred)
    BY <2>5 DEF PanelInvariant, SourceFits
  <2>8. LatestSession' \in Nat /\ LatestSession' <= (IF t.step = "show" THEN LatestSession ELSE LatestSession + 1)
    BY <1>1, <2>1, <2>6
  <2> QED BY <1>1, <1>2, <2>1, <2>2, <2>3, <2>5, <2>7, <2>8, CommandEnds
<1> QED BY <1>3, <1>4, <1>5, <1>6, <1>7, <1>8 DEF Panel!Step

\* A command fails.
LEMMA CommandFailKeeps == ASSUME PanelInvariant, NEW t \in tasks, Panel!Fail(t) PROVE PanelInvariant'
<1>1. /\ PanelTyped /\ service \in ServiceAnswer /\ page \in PageKnows /\ LatestSession \in Nat /\ Panel!CapturedIsStored /\ MaxRefusals \in Nat
      /\ faults \in 0..MaxRefusals
  BY CommandFacts, PanelAssumed
<1>2. /\ UNCHANGED <<service, preferred, poll, rows, fresh, unguarded, contested, clicks>> /\ tasks' = tasks \ {t}
      /\ page' = [page EXCEPT !.busy = FALSE] /\ faults' \in 0..MaxRefusals
  BY <1>1 DEF Panel!Fail, Panel!Fails, Panel!Done
<1>3. page' \in PageKnows /\ page'.busy = FALSE /\ page'.status = page.status /\ page'.selected = page.selected
  BY <1>1, <1>2 DEF PageKnows
<1>4. PollFits' /\ poll' \in PollReads /\ fresh' \in BOOLEAN
  BY <1>1, <1>2, <1>3, PollStays DEF PanelInvariant
<1>5. LatestSession' = LatestSession /\ Panel!CapturedIsStored'
  BY <1>1, <1>2 DEF LatestSession, Panel!CapturedIsStored
<1>6. ~contested => (service'.active => service'.source = preferred)
  BY <1>2 DEF PanelInvariant, SourceFits
<1>7. LatestSession' \in Nat /\ LatestSession' <= (IF t.step = "show" THEN LatestSession ELSE LatestSession + 1)
  BY <1>1, <1>5
<1> QED BY <1>1, <1>2, <1>3, <1>4, <1>5, <1>6, <1>7, CommandEnds

\* Every step keeps the invariant.
LEMMA PanelInvariantStep == ASSUME PanelInvariant, [Panel!Next]_(Panel!vars) PROVE PanelInvariant'
<1>1. CASE UNCHANGED Panel!vars
  <2>1. UNCHANGED <<service, preferred, page, poll, rows, fresh, tasks, unguarded, contested, clicks, faults>>
    BY <1>1 DEF Panel!vars
  <2>2. PanelTyped /\ clicks \in Nat
    BY DEF PanelInvariant, PanelTyped
  <2>3. CommandsFit'
    BY <2>1, <2>2, CommandsStay DEF PanelInvariant
  <2> QED BY <2>1, <2>3 DEF PanelInvariant, PanelTyped, PollFits, Panel!RowsAreOfSelection, BusyFits, SourceFits
<1>2. ASSUME NEW t \in tasks, Panel!Step(t) \/ Panel!Fail(t) PROVE PanelInvariant'
  BY <1>2, CommandStepKeeps, CommandFailKeeps
<1> QED BY <1>1, <1>2, PollKeeps, LooksKeeps, CommandBegins, AskedKeeps DEF Panel!Next

\* What CaptionPanel counts with is the library's.
LEMMA PanelCounts == \A S : Panel!Cardinality(S) = Cardinality(S)
BY DEF Panel!Cardinality, Cardinality

\* The invariant implies what the window promises.
LEMMA PanelInvariantSuffices == ASSUME PanelInvariant PROVE Panel!PanelIsSound
<1>1. Panel!TypeOK
  BY DEF PanelInvariant, PanelTyped, Panel!TypeOK, ServiceAnswer, PageKnows, PollReads
<1>2. Panel!BusyWhileRunning
  <2> SUFFICES ASSUME ~unguarded PROVE page.busy = (tasks # {}) /\ Cardinality(tasks) <= 1
    BY PanelCounts DEF Panel!BusyWhileRunning
  <2>1. page.busy \in BOOLEAN
    BY DEF PanelInvariant, PanelTyped, PageKnows
  <2>2. CASE tasks = {} /\ ~page.busy
    BY <2>1, <2>2, FS_EmptySet
  <2>3. CASE page.busy /\ \E t \in tasks : tasks = {t}
    <3>1. PICK t \in tasks : tasks = {t}
      BY <2>3
    <3>2. Cardinality(tasks) = 1
      BY <3>1, FS_Singleton
    <3>3. page.busy = (tasks # {})
      BY <2>1, <2>3, <3>1
    <3> QED BY <3>2, <3>3
  <2> QED BY <2>2, <2>3 DEF PanelInvariant, BusyFits
<1> QED BY <1>1, <1>2 DEF PanelInvariant, PollFits, CommandsFit, SourceFits, Panel!PanelIsSound,
   Panel!SourceIsChosen

-----------------------------------------------------------------------------
(* The queue inside a helper. *)

\* What the two threads are made of.
ReaderStates == [at : {"reading", "admitting", "refused", "leaving", "joining", "exited"}, speech : 0..Longest,
                 sequence : Helper!Numbers, over : BOOLEAN, result : {0, 4, 5, 6, 7}]
DecoderStates == [at : {"waiting", "decoding", "done", "failing", "ended"}, stopped : BOOLEAN, text : BOOLEAN]
HelperEvents == [type : {"partial", "final", "empty", "audioBacklog", "engineFailed", "stopped"}, sequence : Nat]

HelperTyped ==
  /\ reader \in ReaderStates /\ decoder \in DecoderStates
  /\ finals \in Seq([sequence : Helper!Numbers, size : Shortest..Longest])
  /\ queued \in 0..Budget /\ partial \in Helper!Numbers \cup {None} /\ visible \in Helper!Numbers \cup {0}
  /\ active \in [sequence : Helper!Numbers, final : BOOLEAN] \cup {None}
  /\ cancel \in BOOLEAN /\ closed \in BOOLEAN /\ aborted \in BOOLEAN
  /\ failed \in BOOLEAN /\ broken \in BOOLEAN /\ full \in BOOLEAN
  /\ output \in Seq(HelperEvents)
  /\ frames \in 0..MaxFrames

\* Partial sums of what is queued, which grow.
HelperQueueFits ==
  /\ \E sums \in [0..Len(finals) -> 0..Budget] :
       /\ sums[0] = 0 /\ sums[Len(finals)] = queued
       /\ \A i \in DOMAIN finals : sums[i] = sums[i - 1] + finals[i].size
       /\ \A i, j \in 0..Len(finals) : i <= j => sums[i] <= sums[j]
  /\ partial # None => active = None /\ finals = <<>> /\ partial = reader.sequence /\ ~closed

\* Utterances are accepted under consecutive numbers, each of some frames.
ReaderFits ==
  /\ accepted \in Seq(Nat) /\ \A i \in DOMAIN accepted : accepted[i] = i
  /\ reader.sequence = Len(accepted) + 1
  /\ Len(accepted) + (IF reader.speech > 0 THEN 1 ELSE 0) <= frames
  /\ reader.at = "reading" => reader.speech < Longest
  /\ reader.at = "admitting" => reader.speech >= Shortest
  /\ reader.at \in {"reading", "admitting", "refused"} /\ closed => failed
  /\ reader.at = "refused" /\ ~failed => full
  /\ reader.at \in {"joining", "exited"} => closed
  /\ reader.at = "exited" => decoder.at = "ended" /\ (failed => reader.result = 6)

\* n utterances were answered, and the decoder is at the one after them; those that wait follow.
AnsweredTo(n) ==
  /\ Helper!Answered = 1..n
  /\ \A i \in Helper!Texts : output[i].sequence <= n \/ (output[i].type = "partial" /\ output[i].sequence = n + 1)
  /\ decoder.at = "decoding" => active.sequence = n + 1
  /\ ~aborted /\ decoder.at # "failing" =>
       Len(accepted) - Len(finals) = IF decoder.at = "decoding" /\ active.final THEN n + 1 ELSE n
  /\ ~aborted => \A i \in DOMAIN finals : finals[i].sequence = Len(accepted) - Len(finals) + i
TextsInOrder == \A i, j \in Helper!Texts : i < j =>
       output[i].sequence < output[j].sequence \/ (output[i].sequence = output[j].sequence /\ output[i].type = "partial")

DecoderFits ==
  /\ decoder.at = "waiting" => active = None
  /\ decoder.at \in {"decoding", "done", "failing"} => active # None
  /\ decoder.at = "failing" => failed
  /\ decoder.at = "decoding" => active.sequence <= (IF active.final THEN Len(accepted) ELSE Len(accepted) + 1)
  /\ decoder.at = "ended" /\ ~aborted => finals = <<>> /\ closed
  /\ aborted => closed /\ finals = <<>> /\ (failed \/ reader.result \in {4, 5, 6})
  /\ failed => broken

\* Work that was told to stop stays cancelled.
CancelLasts ==
  decoder.at = "decoding" =>
    /\ decoder.stopped => Helper!Cancelled(active.final)
    /\ cancel /\ ~active.final => closed \/ active.sequence < reader.sequence

HelperInvariant ==
  /\ HelperTyped /\ HelperQueueFits /\ ReaderFits /\ DecoderFits /\ CancelLasts /\ TextsInOrder
  /\ \E n \in 0..Len(accepted) : AnsweredTo(n)
  /\ Helper!Written("audioBacklog") => full

\* The bounds and the numbers of segments.
LEMMA HelperAssumed ==
  /\ Shortest \in Nat /\ Longest \in Nat /\ Budget \in Nat /\ MaxFrames \in Nat
  /\ 0 < Shortest /\ Shortest <= Longest /\ Longest <= Budget
  /\ Helper!Numbers \subseteq Nat /\ \A n \in Nat : n \in Helper!Numbers <=> (1 <= n /\ n <= MaxFrames + 1)
  /\ \A n \in Nat : n # None
  /\ \A a \in [sequence : Helper!Numbers, final : BOOLEAN] : a # None
BY PartsAssumption DEF Helper!HelperAssumption, Helper!Numbers

\* Nothing is said that was not said before.
LEMMA NothingSaid ==
  ASSUME output' = output
  PROVE  Helper!Answers' = Helper!Answers /\ Helper!Texts' = Helper!Texts /\ Helper!Answered' = Helper!Answered /\ (TextsInOrder => TextsInOrder')
         /\ \A type : Helper!Written(type)' = Helper!Written(type)
BY DEF Helper!Answers, Helper!Texts, Helper!Answered, TextsInOrder, Helper!Written

\* An event is said after all others.
LEMMA EventSaid ==
  ASSUME NEW T, output \in Seq(T), NEW e \in T, output' = Append(output, e)
  PROVE  /\ \A type : Helper!Written(type)' <=> (Helper!Written(type) \/ e.type = type)
         /\ Helper!Answered' = Helper!Answered \cup (IF e.type \in {"final", "empty"} THEN {e.sequence} ELSE {})
         /\ \A i \in Helper!Texts' : \/ i \in Helper!Texts /\ output'[i] = output[i]
                              \/ /\ e.type \in {"partial", "final", "empty"}
                                 /\ \A j \in Helper!Texts : j < i
                                 /\ output'[i] = e
<1>1. /\ Len(output') = Len(output) + 1 /\ \A i \in 1..Len(output) : output'[i] = output[i]
      /\ output'[Len(output) + 1] = e /\ Len(output) \in Nat
      /\ DOMAIN output = 1..Len(output) /\ DOMAIN output' = 1..(Len(output) + 1)
  OBVIOUS
<1>2. \A i : i \in DOMAIN output' <=> (i \in DOMAIN output \/ i = Len(output) + 1)
  BY <1>1
<1>3. ASSUME NEW type PROVE Helper!Written(type)' <=> (Helper!Written(type) \/ e.type = type)
  BY <1>1, <1>2 DEF Helper!Written
<1>4. Helper!Answered' = Helper!Answered \cup (IF e.type \in {"final", "empty"} THEN {e.sequence} ELSE {})
  <2>1. Helper!Answers' = Helper!Answers \cup (IF e.type \in {"final", "empty"} THEN {Len(output) + 1} ELSE {})
    BY <1>1, <1>2 DEF Helper!Answers
  <2>2. \A i \in Helper!Answers : output'[i] = output[i] /\ i # Len(output) + 1
    BY <1>1 DEF Helper!Answers
  <2>3. CASE e.type \in {"final", "empty"}
    BY <1>1, <2>1, <2>2, <2>3 DEF Helper!Answered
  <2>4. CASE e.type \notin {"final", "empty"}
    BY <1>1, <2>1, <2>2, <2>4 DEF Helper!Answered
  <2> QED BY <2>3, <2>4
<1>5. ASSUME NEW i \in Helper!Texts' PROVE \/ i \in Helper!Texts /\ output'[i] = output[i]
                              \/ /\ e.type \in {"partial", "final", "empty"}
                                 /\ \A j \in Helper!Texts : j < i
                                 /\ output'[i] = e
  BY <1>1, <1>2 DEF Helper!Texts
<1> QED BY <1>3, <1>4, <1>5

\* A helper that has just started has accepted nothing.
LEMMA HelperInvariantInit == ASSUME Helper!Init PROVE HelperInvariant
<1> USE HelperAssumed DEF Helper!Init
<1>1. HelperTyped
  <2>1. 1 \in Helper!Numbers /\ 0 \in 0..Longest /\ 0 \in 0..Budget /\ 0 \in 0..MaxFrames
    OBVIOUS
  <2>2. finals \in Seq([sequence : Helper!Numbers, size : Shortest..Longest])
    OBVIOUS
  <2>3. output \in Seq([type : {"partial", "final", "empty", "audioBacklog", "engineFailed", "stopped"}, sequence : Nat])
    OBVIOUS
  <2>4. reader \in [at : {"reading", "admitting", "refused", "leaving", "joining", "exited"}, speech : 0..Longest,
                 sequence : Helper!Numbers, over : BOOLEAN, result : {0, 4, 5, 6, 7}]
    BY <2>1
  <2> QED BY <2>1, <2>2, <2>3, <2>4 DEF HelperTyped, ReaderStates, DecoderStates, HelperEvents
<1>2. HelperQueueFits
  <2> DEFINE sums == [i \in 0..0 |-> 0]
  <2>1. sums \in [0..Len(finals) -> 0..Budget] /\ sums[0] = 0 /\ sums[Len(finals)] = queued
    OBVIOUS
  <2>2. \A i, j \in 0..Len(finals) : i <= j => sums[i] <= sums[j]
    OBVIOUS
  <2>3. \A i \in DOMAIN finals : FALSE
    OBVIOUS
  <2> HIDE DEF sums
  <2> QED BY <2>1, <2>2, <2>3 DEF HelperQueueFits
<1>3. ReaderFits /\ DecoderFits /\ CancelLasts
  BY DEF ReaderFits, DecoderFits, CancelLasts
<1>4. Helper!Texts = {} /\ Helper!Answers = {} /\ Helper!Answered = {} /\ ~Helper!Written("audioBacklog")
  BY DEF Helper!Texts, Helper!Answers, Helper!Answered, Helper!Written
<1>5. TextsInOrder /\ AnsweredTo(0) /\ 0 \in 0..Len(accepted)
  BY <1>4 DEF TextsInOrder, AnsweredTo
<1> QED BY <1>1, <1>2, <1>3, <1>4, <1>5 DEF HelperInvariant

\* A step of the reader that says nothing and leaves the queue.
LEMMA ReaderAlone ==
  ASSUME HelperInvariant, Helper!Frame \/ Helper!EndOfInput \/ Helper!BadInput, UNCHANGED Helper!queue
  PROVE  HelperInvariant'
<1> USE HelperAssumed
<1>1. UNCHANGED <<Helper!queue, decoder, failed, output, accepted, full, broken>>
  BY DEF Helper!Frame, Helper!EndOfInput, Helper!BadInput, Helper!ghosts, Helper!queue
<1>2. /\ reader.at = "reading" /\ reader'.sequence = reader.sequence
      /\ reader' \in [at : {"reading", "admitting", "leaving"}, speech : 0..Longest,
                      sequence : Helper!Numbers, over : BOOLEAN, result : {0, 4, 5, 6, 7}]
      /\ frames' \in 0..MaxFrames
      /\ Len(accepted) + (IF reader'.speech > 0 THEN 1 ELSE 0) <= frames'
      /\ reader'.at = "reading" => reader'.speech < Longest
      /\ reader'.at = "admitting" => reader'.speech >= Shortest
  <2>1. /\ reader \in [at : {"reading", "admitting", "refused", "leaving", "joining", "exited"}, speech : 0..Longest,
                 sequence : Helper!Numbers, over : BOOLEAN, result : {0, 4, 5, 6, 7}]
        /\ frames \in 0..MaxFrames /\ Len(accepted) \in Nat
        /\ Len(accepted) + (IF reader.speech > 0 THEN 1 ELSE 0) <= frames
        /\ reader.at = "reading" => reader.speech < Longest
    BY DEF HelperInvariant, HelperTyped, ReaderStates, DecoderStates, HelperEvents, ReaderFits
  <2>2. CASE Helper!Frame
    <3>1. frames' = frames + 1 /\ frames < MaxFrames /\ reader.at = "reading"
      BY <2>2 DEF Helper!Frame
    <3>2. \/ reader' = Helper!Leaves(6) \/ Helper!Finalize(reader.speech + 1, FALSE)
          \/ reader.speech + 1 < Longest /\ reader' = [reader EXCEPT !.speech = reader.speech + 1]
      BY <2>2 DEF Helper!Frame
    <3>3. reader.speech \in Nat /\ reader.speech + 1 \in 0..Longest
      BY <2>1, <3>1
    <3>7. Helper!Leaves(6) \in [at : {"leaving"}, speech : {reader.speech}, sequence : {reader.sequence}, over : BOOLEAN, result : {6}]
      BY <2>1 DEF Helper!Leaves
    <3>4. CASE reader' = Helper!Leaves(6)
      <4> HIDE DEF Helper!Leaves
      <4>1. /\ reader'.at = "leaving" /\ reader'.speech = reader.speech /\ reader'.sequence = reader.sequence
            /\ reader' \in [at : {"leaving"}, speech : {reader.speech}, sequence : {reader.sequence}, over : BOOLEAN, result : {6}]
        BY <3>4, <3>7
      <4> QED BY <2>1, <3>1, <3>3, <4>1
    <3>5. CASE Helper!Finalize(reader.speech + 1, FALSE)
      <4>1. CASE failed
        BY <3>4, <3>5, <4>1 DEF Helper!Finalize
      <4>2. CASE ~failed /\ reader.speech + 1 >= Shortest
        <5>1. reader' = [reader EXCEPT !.at = "admitting", !.speech = reader.speech + 1, !.over = FALSE]
          BY <3>5, <4>2 DEF Helper!Finalize
        <5>2. reader'.at = "admitting" /\ reader'.speech = reader.speech + 1 /\ reader'.sequence = reader.sequence
          BY <2>1, <3>1, <5>1
        <5>3. reader' \in [at : {"reading", "admitting", "leaving"}, speech : 0..Longest,
                      sequence : Helper!Numbers, over : BOOLEAN, result : {0, 4, 5, 6, 7}]
          BY <2>1, <3>1, <3>3, <5>1
        <5>4. frames' \in 0..MaxFrames
          BY <2>1, <3>1
        <5>5. Len(accepted) + 1 <= frames' /\ reader'.speech >= Shortest
          BY <2>1, <3>1, <4>2, <5>2
        <5> QED BY <3>1, <5>2, <5>3, <5>4, <5>5
      <4>3. CASE ~failed /\ ~(reader.speech + 1 >= Shortest)
        <5>1. reader' = [reader EXCEPT !.speech = 0]
          BY <3>5, <4>3 DEF Helper!Finalize
        <5>2. reader'.at = "reading" /\ reader'.speech = 0 /\ reader'.sequence = reader.sequence
          BY <2>1, <3>1, <5>1
        <5>3. reader' \in [at : {"reading", "admitting", "leaving"}, speech : 0..Longest,
                      sequence : Helper!Numbers, over : BOOLEAN, result : {0, 4, 5, 6, 7}]
          <6>1. reader \in [at : {"reading"}, speech : 0..Longest, sequence : Helper!Numbers, over : BOOLEAN,
                            result : {0, 4, 5, 6, 7}]
            BY <2>1, <3>1
          <6>2. 0 \in 0..Longest
            BY <3>3
          <6> QED BY <5>1, <6>1, <6>2
        <5>4. frames' \in 0..MaxFrames
          BY <2>1, <3>1
        <5>5. 0 < Longest /\ Len(accepted) + 0 <= frames'
          BY <2>1, <3>1
        <5> QED BY <3>1, <5>2, <5>3, <5>4, <5>5
      <4> QED BY <4>1, <4>2, <4>3
    <3>6. CASE reader.speech + 1 < Longest /\ reader' = [reader EXCEPT !.speech = reader.speech + 1]
      <4>1. reader'.at = "reading" /\ reader'.speech = reader.speech + 1 /\ reader'.sequence = reader.sequence
        BY <2>1, <3>1, <3>6
      <4>2. reader' \in [at : {"reading", "admitting", "leaving"}, speech : 0..Longest,
                        sequence : Helper!Numbers, over : BOOLEAN, result : {0, 4, 5, 6, 7}]
        BY <2>1, <3>1, <3>3, <3>6
      <4>3. frames' \in 0..MaxFrames
        BY <2>1, <3>1
      <4>4. Len(accepted) + 1 <= frames' /\ reader'.speech < Longest
        BY <2>1, <3>1, <3>6, <4>1
      <4> QED BY <3>1, <3>3, <4>1, <4>2, <4>3, <4>4
    <3> QED BY <3>2, <3>4, <3>5, <3>6
  <2>3. CASE Helper!EndOfInput
    BY <2>1, <2>3 DEF Helper!EndOfInput, Helper!Finalize, Helper!Leaves
  <2>4. CASE Helper!BadInput
    BY <2>1, <2>4 DEF Helper!BadInput, Helper!Leaves
  <2> QED BY <2>2, <2>3, <2>4
<1>3. HelperTyped'
  BY <1>1, <1>2 DEF HelperInvariant, HelperTyped, ReaderStates, DecoderStates, HelperEvents, Helper!queue
<1>4. HelperQueueFits'
  <2>1. UNCHANGED <<finals, queued, partial, active, closed>> /\ reader'.sequence = reader.sequence
    BY <1>1, <1>2 DEF Helper!queue
  <2>2. HelperQueueFits
    BY DEF HelperInvariant
  <2> QED BY <2>1, <2>2 DEF HelperQueueFits
<1>5. ReaderFits'
  BY <1>1, <1>2 DEF HelperInvariant, ReaderFits, Helper!queue
<1>6. reader'.result = reader.result \/ reader.at \notin {"leaving", "joining", "exited"}
  BY <1>2
<1>7. DecoderFits'
  BY <1>1, <1>2 DEF HelperInvariant, DecoderFits, ReaderFits, Helper!queue
<1>8. CancelLasts'
  BY <1>1, <1>2 DEF HelperInvariant, CancelLasts, Helper!Cancelled, Helper!queue
<1>9. TextsInOrder' /\ (Helper!Written("audioBacklog") => full)'
  BY <1>1, NothingSaid DEF HelperInvariant
<1>10. (\E n \in 0..Len(accepted) : AnsweredTo(n))'
  <2>1. PICK n \in 0..Len(accepted) : AnsweredTo(n)
    BY DEF HelperInvariant
  <2>2. AnsweredTo(n)'
    BY <1>1, <2>1, NothingSaid DEF AnsweredTo, Helper!queue
  <2> QED BY <1>1, <2>2
<1> QED BY <1>3, <1>4, <1>5, <1>7, <1>8, <1>9, <1>10 DEF HelperInvariant

\* A preview is offered.
LEMMA ReaderOffers ==
  ASSUME HelperInvariant, Helper!Frame, Helper!OfferPartial, ~failed,
         reader' = [reader EXCEPT !.speech = reader.speech + 1], reader.speech + 1 < Longest
  PROVE  HelperInvariant'
<1> USE HelperAssumed
<1>1. UNCHANGED <<finals, queued, active, visible, cancel, closed, aborted, decoder, failed, output, accepted, full, broken>>
  <2>1. UNCHANGED <<finals, queued, active, visible, cancel, closed, aborted>>
    BY DEF Helper!OfferPartial
  <2>2. UNCHANGED <<decoder, failed, output, broken>>
    BY DEF Helper!Frame
  <2>3. UNCHANGED <<accepted, full>>
    BY DEF Helper!Frame, Helper!ghosts, Helper!queue
  <2> QED BY <2>1, <2>2, <2>3
<1>2. reader.at = "reading" /\ reader \in [at : {"reading"}, speech : 0..Longest,
        sequence : Helper!Numbers, over : BOOLEAN, result : {0, 4, 5, 6, 7}] /\ frames \in 0..MaxFrames /\ frames < MaxFrames /\ frames' = frames + 1
  BY DEF Helper!Frame, HelperInvariant, HelperTyped, ReaderStates, DecoderStates, HelperEvents
<1>3. reader' \in [at : {"reading"}, speech : 1..Longest, sequence : Helper!Numbers, over : BOOLEAN, result : {0, 4, 5, 6, 7}]
      /\ reader'.sequence = reader.sequence /\ reader'.speech < Longest /\ frames' \in 0..MaxFrames
  BY <1>2
<1>4. partial' = partial \/ (active = None /\ finals = <<>> /\ partial' = reader.sequence /\ ~closed)
  BY DEF Helper!OfferPartial
<1>5. HelperTyped'
  <2>1. reader' \in ReaderStates
    BY <1>3 DEF ReaderStates
  <2>2. partial' \in Helper!Numbers \cup {None}
    BY <1>2, <1>4 DEF HelperInvariant, HelperTyped
  <2>3. HelperTyped
    BY DEF HelperInvariant
  <2> QED BY <1>1, <1>3, <2>1, <2>2, <2>3 DEF HelperTyped
<1>6. HelperQueueFits'
  BY <1>1, <1>3, <1>4 DEF HelperInvariant, HelperQueueFits
<1>7. ReaderFits'
  <2>1. Len(accepted) \in Nat /\ Len(accepted) + 1 <= frames'
    BY <1>2 DEF HelperInvariant, ReaderFits
  <2> QED BY <1>1, <1>2, <1>3, <2>1 DEF HelperInvariant, ReaderFits
<1>8. DecoderFits' /\ CancelLasts'
  BY <1>1, <1>2, <1>3 DEF HelperInvariant, DecoderFits, ReaderFits, CancelLasts, Helper!Cancelled
<1>9. TextsInOrder' /\ (Helper!Written("audioBacklog") => full)'
  BY <1>1, NothingSaid DEF HelperInvariant
<1>10. (\E n \in 0..Len(accepted) : AnsweredTo(n))'
  <2>1. PICK n \in 0..Len(accepted) : AnsweredTo(n)
    BY DEF HelperInvariant
  <2>2. AnsweredTo(n)'
    BY <1>1, <2>1, NothingSaid DEF AnsweredTo
  <2> QED BY <1>1, <2>2
<1> QED BY <1>5, <1>6, <1>7, <1>8, <1>9, <1>10 DEF HelperInvariant

\* The queue takes the utterance, or does not.
LEMMA ReaderSubmits ==
  ASSUME HelperInvariant, Helper!Admit, Helper!Fits(reader.speech), Helper!SubmitFinal(reader.speech),
         reader' = [reader EXCEPT !.at = IF reader.over THEN "leaving" ELSE "reading", !.speech = 0, !.sequence = @ + 1]
  PROVE  HelperInvariant'
<1> USE HelperAssumed
<1>1. UNCHANGED <<active, visible, closed, aborted, full, decoder, failed, output, broken, frames>>
  BY DEF Helper!Admit, Helper!SubmitFinal
<1>2. /\ reader.at = "admitting" /\ reader.speech \in Shortest..Longest /\ reader.sequence = Len(accepted) + 1
      /\ Len(accepted) \in Nat /\ Len(accepted) + 1 <= frames /\ frames \in 0..MaxFrames
      /\ reader \in [at : {"admitting"}, speech : 0..Longest, sequence : Helper!Numbers, over : BOOLEAN, result : {0, 4, 5, 6, 7}]
  BY DEF Helper!Admit, HelperInvariant, HelperTyped, ReaderStates, DecoderStates, HelperEvents, ReaderFits
<1>3. /\ reader' \in [at : {"reading", "leaving"}, speech : {0}, sequence : Helper!Numbers, over : BOOLEAN, result : {0, 4, 5, 6, 7}]
      /\ reader'.sequence = reader.sequence + 1
  <2>1. reader.sequence + 1 \in Helper!Numbers
    BY <1>2
  <2>2. /\ reader'.at = IF reader.over THEN "leaving" ELSE "reading"
        /\ reader'.speech = 0 /\ reader'.sequence = reader.sequence + 1
    BY <1>2
  <2>3. (IF reader.over THEN "leaving" ELSE "reading") \in {"reading", "leaving"}
    BY <1>2
  <2>4. reader' \in [at : {"reading", "leaving"}, speech : {0}, sequence : Helper!Numbers, over : BOOLEAN, result : {0, 4, 5, 6, 7}]
    BY <1>2, <2>1, <2>3
  <2> QED BY <2>2, <2>4
<1>4. ~closed /\ queued + reader.speech \in 0..Budget /\ queued \in 0..Budget
  BY <1>2 DEF Helper!Fits, HelperInvariant, HelperTyped, ReaderStates, DecoderStates, HelperEvents
<1> DEFINE e == [sequence |-> reader.sequence, size |-> reader.speech]
           F == [sequence : Helper!Numbers, size : Shortest..Longest]
<1>5. /\ finals \in Seq(F) /\ e \in F /\ finals' = Append(finals, e) /\ queued' = queued + reader.speech
      /\ partial' = None /\ accepted' = Append(accepted, reader.sequence) /\ accepted \in Seq(Nat)
      /\ cancel' = Helper!Expendable(reader.sequence)
  BY <1>2 DEF HelperInvariant, HelperTyped, ReaderStates, DecoderStates, HelperEvents, ReaderFits,
     Helper!SubmitFinal
<1>6. /\ finals' \in Seq(F) /\ Len(finals') = Len(finals) + 1 /\ Len(finals) \in Nat
      /\ \A i \in 1..Len(finals) : finals'[i] = finals[i]
      /\ finals'[Len(finals) + 1] = e /\ DOMAIN finals = 1..Len(finals) /\ DOMAIN finals' = 1..(Len(finals) + 1)
  BY <1>5
<1>7. /\ accepted' \in Seq(Nat) /\ Len(accepted') = Len(accepted) + 1
      /\ \A i \in DOMAIN accepted' : accepted'[i] = i
  <2>1. \A i \in DOMAIN accepted : accepted[i] = i
    BY DEF HelperInvariant, ReaderFits
  <2>2. reader.sequence \in Nat /\ accepted' = Append(accepted, reader.sequence) /\ accepted \in Seq(Nat)
    BY <1>2, <1>5
  <2>3. /\ accepted' \in Seq(Nat) /\ Len(accepted') = Len(accepted) + 1
        /\ \A i \in 1..Len(accepted) : accepted'[i] = accepted[i]
        /\ accepted'[Len(accepted) + 1] = reader.sequence /\ DOMAIN accepted = 1..Len(accepted)
        /\ DOMAIN accepted' = 1..(Len(accepted) + 1)
    BY <2>2
  <2> QED BY <1>2, <2>1, <2>3
<1> HIDE DEF e, F
<1>8. HelperTyped'
  <2>1. reader' \in ReaderStates
    BY <1>3 DEF ReaderStates
  <2>2. cancel' \in BOOLEAN
    BY <1>5 DEF Helper!Expendable
  <2>3. finals' \in Seq([sequence : Helper!Numbers, size : Shortest..Longest])
    BY <1>6 DEF F
  <2>4. HelperTyped
    BY DEF HelperInvariant
  <2> QED BY <1>1, <1>4, <1>5, <2>1, <2>2, <2>3, <2>4 DEF HelperTyped
<1>9. HelperQueueFits'
  <2>1. PICK sums \in [0..Len(finals) -> 0..Budget] :
       /\ sums[0] = 0 /\ sums[Len(finals)] = queued
       /\ \A i \in DOMAIN finals : sums[i] = sums[i - 1] + finals[i].size
       /\ \A i, j \in 0..Len(finals) : i <= j => sums[i] <= sums[j]
    BY DEF HelperInvariant, HelperQueueFits
  <2> DEFINE longer == [i \in 0..Len(finals') |-> IF i = Len(finals') THEN queued' ELSE sums[i]]
  <2>2. longer \in [0..Len(finals') -> 0..Budget]
    BY <1>4, <1>5, <1>6
  <2>3. longer[0] = 0 /\ longer[Len(finals')] = queued'
    BY <1>6, <2>1
  <2>4. \A i \in DOMAIN finals' : longer[i] = longer[i - 1] + finals'[i].size
    <3>1. e.size = reader.speech
      BY DEF e
    <3> QED BY <1>5, <1>6, <2>1, <3>1
  <2>5. \A i, j \in 0..Len(finals') : i <= j => longer[i] <= longer[j]
    <3>1. \A i \in 0..Len(finals) : sums[i] <= queued /\ sums[i] \in Nat
      BY <1>6, <2>1
    <3>2. Len(finals) \in Nat /\ Len(finals') = Len(finals) + 1 /\ queued <= queued' /\ queued' \in Nat
      BY <1>2, <1>4, <1>5, <1>6, <2>2, <2>3
    <3>3. ASSUME NEW i \in 0..Len(finals'), NEW j \in 0..Len(finals'), i <= j PROVE longer[i] <= longer[j]
      <4>1. CASE j = Len(finals')
        <5>1. longer[j] = queued' /\ longer[i] = IF i = Len(finals') THEN queued' ELSE sums[i]
          BY <4>1
        <5>2. i # Len(finals') => i \in 0..Len(finals)
          BY <3>2
        <5>3. i # Len(finals') => sums[i] <= queued /\ sums[i] \in Nat
          BY <3>1, <5>2
        <5>4. queued \in Nat
          BY DEF HelperInvariant, HelperTyped
        <5> HIDE DEF longer
        <5> QED BY <3>2, <5>1, <5>3, <5>4
      <4>2. CASE j # Len(finals')
        BY <2>1, <3>2, <3>3, <4>2
      <4> QED BY <4>1, <4>2
    <3> QED BY <3>3
  <2> HIDE DEF longer
  <2> QED BY <1>5, <2>2, <2>3, <2>4, <2>5 DEF HelperQueueFits
<1>10. ReaderFits'
  BY <1>1, <1>2, <1>3, <1>4, <1>7 DEF HelperInvariant, ReaderFits
<1>11. DecoderFits'
  <2>2. ~aborted
    BY <1>4 DEF HelperInvariant, DecoderFits
  <2>3. decoder.at = "ended" => FALSE
    BY <1>4, <2>2 DEF HelperInvariant, DecoderFits
  <2>4. ASSUME decoder.at = "decoding" PROVE active.sequence \in Nat /\ active \in [sequence : Helper!Numbers, final : BOOLEAN]
    BY <2>4 DEF HelperInvariant, DecoderFits, HelperTyped
  <2>5. ASSUME decoder.at = "decoding"
        PROVE active.sequence <= (IF active.final THEN Len(accepted') ELSE Len(accepted') + 1)
    <3>1. active.sequence <= (IF active.final THEN Len(accepted) ELSE Len(accepted) + 1)
      BY <2>5 DEF HelperInvariant, DecoderFits
    <3> QED BY <1>2, <1>7, <2>4, <2>5, <3>1
  <2>6. DecoderFits
    BY DEF HelperInvariant
  <2> QED BY <1>1, <2>2, <2>3, <2>5, <2>6 DEF DecoderFits
<1>12. CancelLasts'
  <2>1. ASSUME decoder.at = "decoding", ~active.final PROVE active.sequence <= reader.sequence /\ active.sequence \in Nat
    BY <1>2, <2>1 DEF HelperInvariant, DecoderFits, HelperTyped, ReaderStates, DecoderStates, HelperEvents
  <2>2. ASSUME decoder.at = "decoding", ~active.final, cancel PROVE cancel'
    <3>1. active.sequence < reader.sequence
      BY <1>4, <2>2 DEF HelperInvariant, CancelLasts
    <3>2. active.sequence # reader.sequence
      BY <1>2, <2>1, <2>2, <3>1
    <3> QED BY <1>5, <3>2 DEF Helper!Expendable
  <2>3. ASSUME decoder.at = "decoding", ~active.final PROVE active.sequence < reader'.sequence
    BY <1>2, <1>3, <2>1, <2>3
  <2>4. ASSUME decoder.at = "decoding", decoder.stopped PROVE Helper!Cancelled(active.final)'
    <3>1. Helper!Cancelled(active.final)
      BY <2>4 DEF HelperInvariant, CancelLasts
    <3> QED BY <1>1, <2>2, <2>4, <3>1 DEF Helper!Cancelled
  <2> QED BY <1>1, <2>3, <2>4 DEF CancelLasts
<1>13. TextsInOrder' /\ (Helper!Written("audioBacklog") => full)'
  BY <1>1, NothingSaid DEF HelperInvariant
<1>14. (\E n \in 0..Len(accepted) : AnsweredTo(n))'
  <2>1. PICK n \in 0..Len(accepted) : AnsweredTo(n)
    BY DEF HelperInvariant
  <2>2. ~aborted
    BY <1>4 DEF HelperInvariant, DecoderFits
  <2>3. \A i \in DOMAIN finals' : finals'[i].sequence = Len(accepted') - Len(finals') + i
    <3>1. e.sequence = Len(accepted) + 1
      BY <1>2 DEF e
    <3>2. \A i \in DOMAIN finals : finals[i].sequence = Len(accepted) - Len(finals) + i
      BY <2>1, <2>2 DEF AnsweredTo
    <3>3. ASSUME NEW i \in 1..(Len(finals) + 1) PROVE finals'[i].sequence = Len(accepted) - Len(finals) + i
      <4>1. CASE i = Len(finals) + 1
        <5>1. finals'[i].sequence = Len(accepted) + 1
          BY <1>6, <3>1, <4>1
        <5> QED BY <1>2, <1>6, <4>1, <5>1
      <4>2. CASE i # Len(finals) + 1
        <5>1. i \in 1..Len(finals)
          BY <1>6, <4>2
        <5> QED BY <1>6, <3>2, <5>1
      <4> QED BY <4>1, <4>2
    <3>4. \A i \in 1..(Len(finals) + 1) : Len(accepted') - Len(finals') + i = Len(accepted) - Len(finals) + i
      BY <1>2, <1>6, <1>7
    <3> QED BY <1>6, <3>3, <3>4
  <2>4. Len(accepted') - Len(finals') = Len(accepted) - Len(finals)
    BY <1>2, <1>6, <1>7
  <2>5. Helper!Answered' = 1..n
    BY <1>1, <2>1, NothingSaid DEF AnsweredTo
  <2>6. (\A i \in Helper!Texts : output[i].sequence <= n \/ (output[i].type = "partial" /\ output[i].sequence = n + 1))'
    BY <1>1, <2>1, NothingSaid DEF AnsweredTo
  <2>7. AnsweredTo(n)'
    BY <1>1, <2>1, <2>3, <2>4, <2>5, <2>6 DEF AnsweredTo
  <2>8. n \in 0..Len(accepted')
    BY <1>2, <1>7
  <2> QED BY <2>7, <2>8
<1> QED BY <1>8, <1>9, <1>10, <1>11, <1>12, <1>13, <1>14 DEF HelperInvariant

\* An event that is about no utterance.
LEMMA OtherSaid ==
  ASSUME HelperTyped, TextsInOrder, NEW e \in HelperEvents, output' = Append(output, e), e.type \notin {"partial", "final", "empty"}
  PROVE  /\ output' \in Seq(HelperEvents) /\ Helper!Answered' = Helper!Answered /\ TextsInOrder'
         /\ \A type : Helper!Written(type)' <=> (Helper!Written(type) \/ e.type = type)
         /\ \A i \in Helper!Texts' : i \in Helper!Texts /\ output'[i] = output[i]
<1>1. output \in Seq(HelperEvents) /\ output' \in Seq(HelperEvents)
  BY DEF HelperTyped
<1>2. \A i \in Helper!Texts' : i \in Helper!Texts /\ output'[i] = output[i]
  BY <1>1, EventSaid
<1>3. TextsInOrder'
  BY <1>2 DEF TextsInOrder
<1>4. Helper!Answered' = Helper!Answered \cup {} /\ \A type : Helper!Written(type)' <=> (Helper!Written(type) \/ e.type = type)
  BY <1>1, EventSaid
<1> QED BY <1>1, <1>2, <1>3, <1>4

\* The queue refuses the utterance.
LEMMA ReaderRefused ==
  ASSUME HelperInvariant, Helper!Admit, reader' = [reader EXCEPT !.at = "refused"],
         full' = (full \/ ~closed), UNCHANGED <<Helper!queue, accepted>>
  PROVE  HelperInvariant'
<1> USE HelperAssumed
<1>1. UNCHANGED <<finals, queued, partial, active, visible, cancel, closed, aborted, accepted, decoder, failed, output, broken, frames>>
  BY DEF Helper!Admit, Helper!queue
<1>2. reader.at = "admitting" /\ reader \in ReaderStates
  BY DEF Helper!Admit, HelperInvariant, HelperTyped
<1>3. /\ reader' \in ReaderStates /\ reader'.at = "refused" /\ reader'.speech = reader.speech
      /\ reader'.sequence = reader.sequence /\ reader'.result = reader.result
  BY <1>2 DEF ReaderStates
<1>4. HelperTyped'
  <2>1. full' \in BOOLEAN
    OBVIOUS
  <2>2. HelperTyped
    BY DEF HelperInvariant
  <2> QED BY <1>1, <1>3, <2>1, <2>2 DEF HelperTyped
<1>5. HelperQueueFits'
  BY <1>1, <1>3 DEF HelperInvariant, HelperQueueFits
<1>6. ReaderFits'
  <2>1. closed => failed
    BY <1>2 DEF HelperInvariant, ReaderFits
  <2> QED BY <1>1, <1>2, <1>3, <2>1 DEF HelperInvariant, ReaderFits
<1>7. DecoderFits' /\ CancelLasts'
  BY <1>1, <1>3 DEF HelperInvariant, DecoderFits, CancelLasts, Helper!Cancelled
<1>8. TextsInOrder' /\ (Helper!Written("audioBacklog") => full)'
  BY <1>1, NothingSaid DEF HelperInvariant
<1>9. (\E n \in 0..Len(accepted) : AnsweredTo(n))'
  <2>1. PICK n \in 0..Len(accepted) : AnsweredTo(n)
    BY DEF HelperInvariant
  <2>2. AnsweredTo(n)'
    BY <1>1, <2>1, NothingSaid DEF AnsweredTo
  <2> QED BY <1>1, <2>2
<1> QED BY <1>4, <1>5, <1>6, <1>7, <1>8, <1>9 DEF HelperInvariant

\* The reason is reported.
LEMMA ReaderReports == ASSUME HelperInvariant, Helper!Refused PROVE HelperInvariant'
<1> USE HelperAssumed
<1>1. UNCHANGED <<finals, queued, partial, active, visible, cancel, closed, aborted, accepted, full, decoder, failed, broken, frames>>
  BY DEF Helper!Refused, Helper!queue, Helper!ghosts
<1>2. reader.at = "refused" /\ reader \in ReaderStates
  BY DEF Helper!Refused, HelperInvariant, HelperTyped
<1>3. /\ reader' \in ReaderStates /\ reader'.at = "leaving" /\ reader'.speech = reader.speech
      /\ reader'.sequence = reader.sequence
  BY <1>2 DEF ReaderStates, Helper!Refused, Helper!Leaves
<1>4. closed => failed
  BY <1>2 DEF HelperInvariant, ReaderFits
<1>5. /\ output' \in Seq(HelperEvents) /\ Helper!Answered' = Helper!Answered /\ TextsInOrder' /\ (Helper!Written("audioBacklog") => full)'
      /\ \A i \in Helper!Texts' : i \in Helper!Texts /\ output'[i] = output[i]
  <2>1. CASE failed
    <3>1. output' = output
      BY <2>1 DEF Helper!Refused
    <3> QED BY <1>1, <3>1, NothingSaid DEF HelperInvariant, HelperTyped
  <2>2. CASE ~failed
    <3>1. output' = Append(output, Helper!Event("audioBacklog", 0)) /\ full
      BY <1>2, <2>2 DEF Helper!Refused, HelperInvariant, ReaderFits
    <3>2. Helper!Event("audioBacklog", 0) \in HelperEvents /\ Helper!Event("audioBacklog", 0).type \notin {"partial", "final", "empty"}
      BY DEF Helper!Event, HelperEvents
    <3> QED BY <1>1, <3>1, <3>2, OtherSaid DEF HelperInvariant
  <2> QED BY <2>1, <2>2
<1>6. HelperTyped'
  <2>1. HelperTyped
    BY DEF HelperInvariant
  <2> QED BY <1>1, <1>3, <1>5, <2>1 DEF HelperTyped
<1>7. HelperQueueFits'
  BY <1>1, <1>3 DEF HelperInvariant, HelperQueueFits
<1>8. ReaderFits'
  BY <1>1, <1>2, <1>3 DEF HelperInvariant, ReaderFits
<1>9. DecoderFits' /\ CancelLasts'
  BY <1>1, <1>3, <1>4 DEF HelperInvariant, DecoderFits, CancelLasts, Helper!Cancelled
<1>10. (\E n \in 0..Len(accepted) : AnsweredTo(n))'
  <2>1. PICK n \in 0..Len(accepted) : AnsweredTo(n)
    BY DEF HelperInvariant
  <2>2. AnsweredTo(n)'
    BY <1>1, <1>5, <2>1 DEF AnsweredTo
  <2> QED BY <1>1, <2>2
<1> QED BY <1>5, <1>6, <1>7, <1>8, <1>9, <1>10 DEF HelperInvariant

\* The queue is closed, or aborted.
LEMMA ReaderLeaves == ASSUME HelperInvariant, Helper!Leave PROVE HelperInvariant'
<1> USE HelperAssumed
<1>1. /\ UNCHANGED <<active, visible, accepted, full, decoder, failed, output, broken, frames>>
      /\ closed' = TRUE /\ partial' = None
  BY DEF Helper!Leave, Helper!ghosts, Helper!CloseQueue, Helper!AbortQueue
<1>2. reader.at = "leaving" /\ reader \in ReaderStates
  BY DEF Helper!Leave, HelperInvariant, HelperTyped
<1>3. /\ reader' \in ReaderStates /\ reader'.at = "joining" /\ reader'.speech = reader.speech
      /\ reader'.sequence = reader.sequence /\ reader'.result = reader.result
  BY <1>2 DEF ReaderStates, Helper!Leave
<1>4. \/ UNCHANGED <<finals, queued, aborted>> /\ cancel' = TRUE
      \/ finals' = <<>> /\ queued' = 0 /\ aborted' = TRUE /\ cancel' = cancel /\ reader.result \in {4, 5, 6}
  BY <1>2 DEF Helper!Leave, Helper!CloseQueue, Helper!AbortQueue, ReaderStates
<1>5. HelperTyped'
  <2>1. HelperTyped /\ 0 \in 0..Budget
    BY DEF HelperInvariant
  <2>2. /\ finals' \in Seq([sequence : Helper!Numbers, size : Shortest..Longest]) /\ queued' \in 0..Budget
        /\ partial' \in Helper!Numbers \cup {None} /\ closed' \in BOOLEAN
    <3>1. partial' \in Helper!Numbers \cup {None} /\ closed' \in BOOLEAN
      BY <1>1
    <3>2. <<>> \in Seq([sequence : Helper!Numbers, size : Shortest..Longest])
      OBVIOUS
    <3>3. finals \in Seq([sequence : Helper!Numbers, size : Shortest..Longest]) /\ queued \in 0..Budget
      BY <2>1 DEF HelperTyped
    <3> QED BY <1>4, <2>1, <3>1, <3>2, <3>3
  <2>3. aborted' \in BOOLEAN /\ cancel' \in BOOLEAN
    BY <1>4, <2>1 DEF HelperTyped
  <2> QED BY <1>1, <1>3, <2>1, <2>2, <2>3 DEF HelperTyped
<1>6. HelperQueueFits'
  <2>1. CASE UNCHANGED <<finals, queued>>
    BY <1>1, <2>1 DEF HelperInvariant, HelperQueueFits
  <2>2. CASE finals' = <<>> /\ queued' = 0
    <3> DEFINE sums == [i \in 0..0 |-> 0]
    <3>1. sums \in [0..Len(finals') -> 0..Budget] /\ sums[0] = 0 /\ sums[Len(finals')] = queued'
      BY <2>2
    <3>2. (\A i, j \in 0..Len(finals') : i <= j => sums[i] <= sums[j]) /\ DOMAIN finals' = {}
      BY <2>2
    <3> HIDE DEF sums
    <3> QED BY <1>1, <3>1, <3>2 DEF HelperQueueFits
  <2> QED BY <1>4, <2>1, <2>2
<1>7. ReaderFits'
  BY <1>1, <1>2, <1>3 DEF HelperInvariant, ReaderFits
<1>8. DecoderFits' /\ CancelLasts'
  <2>1. DecoderFits /\ CancelLasts
    BY DEF HelperInvariant
  <2> QED BY <1>1, <1>3, <1>4, <2>1 DEF DecoderFits, CancelLasts, Helper!Cancelled
<1>9. TextsInOrder' /\ (Helper!Written("audioBacklog") => full)'
  BY <1>1, NothingSaid DEF HelperInvariant
<1>10. (\E n \in 0..Len(accepted) : AnsweredTo(n))'
  <2>1. PICK n \in 0..Len(accepted) : AnsweredTo(n)
    BY DEF HelperInvariant
  <2>2. AnsweredTo(n)'
    BY <1>1, <1>4, <2>1, NothingSaid DEF AnsweredTo
  <2> QED BY <1>1, <2>2
<1> QED BY <1>5, <1>6, <1>7, <1>8, <1>9, <1>10 DEF HelperInvariant

\* The process ends.
LEMMA ReaderExits == ASSUME HelperInvariant, Helper!Exit PROVE HelperInvariant'
<1> USE HelperAssumed
<1>1. UNCHANGED <<finals, queued, partial, active, visible, cancel, closed, aborted, accepted, full, decoder, failed, broken, frames>>
  BY DEF Helper!Exit, Helper!queue, Helper!ghosts
<1>2. reader.at = "joining" /\ decoder.at = "ended" /\ reader \in ReaderStates
  BY DEF Helper!Exit, HelperInvariant, HelperTyped
<1>3. /\ reader' \in ReaderStates /\ reader'.at = "exited" /\ reader'.speech = reader.speech
      /\ reader'.sequence = reader.sequence
      /\ (failed /\ reader'.result = 6) \/ (~failed /\ reader'.result = reader.result)
  <2>1. reader' = [reader EXCEPT !.at = "exited", !.result = IF failed THEN 6 ELSE reader.result]
    BY DEF Helper!Exit
  <2>2. CASE failed
    <3>1. reader' = [reader EXCEPT !.at = "exited", !.result = 6]
      BY <2>1, <2>2
    <3>2. /\ reader' \in ReaderStates /\ reader'.at = "exited" /\ reader'.speech = reader.speech
          /\ reader'.sequence = reader.sequence /\ reader'.result = 6
      BY <1>2, <3>1 DEF ReaderStates
    <3> QED BY <2>2, <3>2
  <2>3. CASE ~failed
    <3>1. reader' = [reader EXCEPT !.at = "exited", !.result = reader.result]
      BY <2>1, <2>3
    <3>2. /\ reader' \in ReaderStates /\ reader'.at = "exited" /\ reader'.speech = reader.speech
          /\ reader'.sequence = reader.sequence /\ reader'.result = reader.result
      BY <1>2, <3>1 DEF ReaderStates
    <3> QED BY <2>3, <3>2
  <2> QED BY <2>2, <2>3
<1>4. /\ output' \in Seq(HelperEvents) /\ Helper!Answered' = Helper!Answered /\ TextsInOrder' /\ (Helper!Written("audioBacklog") => full)'
      /\ \A i \in Helper!Texts' : i \in Helper!Texts /\ output'[i] = output[i]
  <2>1. CASE output' = output
    BY <1>1, <2>1, NothingSaid DEF HelperInvariant, HelperTyped
  <2>2. CASE output' = Append(output, Helper!Event("stopped", 0))
    <3>1. Helper!Event("stopped", 0) \in HelperEvents /\ Helper!Event("stopped", 0).type \notin {"partial", "final", "empty", "audioBacklog"}
      BY DEF Helper!Event, HelperEvents
    <3> QED BY <1>1, <2>2, <3>1, OtherSaid DEF HelperInvariant
  <2> QED BY <2>1, <2>2 DEF Helper!Exit
<1>5. HelperTyped'
  <2>1. HelperTyped
    BY DEF HelperInvariant
  <2> QED BY <1>1, <1>3, <1>4, <2>1 DEF HelperTyped
<1>6. HelperQueueFits'
  BY <1>1, <1>3 DEF HelperInvariant, HelperQueueFits
<1>7. ReaderFits'
  BY <1>1, <1>2, <1>3 DEF HelperInvariant, ReaderFits
<1>8. DecoderFits' /\ CancelLasts'
  BY <1>1, <1>3 DEF HelperInvariant, DecoderFits, CancelLasts, Helper!Cancelled
<1>9. (\E n \in 0..Len(accepted) : AnsweredTo(n))'
  <2>1. PICK n \in 0..Len(accepted) : AnsweredTo(n)
    BY DEF HelperInvariant
  <2>2. AnsweredTo(n)'
    BY <1>1, <1>4, <2>1 DEF AnsweredTo
  <2> QED BY <1>1, <2>2
<1> QED BY <1>4, <1>5, <1>6, <1>7, <1>8, <1>9 DEF HelperInvariant

\* An utterance that waits is taken.
LEMMA TakesFinal ==
  ASSUME HelperInvariant, Helper!Take, finals # <<>>, Helper!Decodes(Head(finals).sequence, TRUE),
         finals' = Tail(finals), queued' = queued - Head(finals).size, partial' = partial
  PROVE  HelperInvariant'
<1> USE HelperAssumed
<1>1. UNCHANGED <<reader, visible, closed, aborted, failed, output, accepted, full, broken, frames, partial>>
  BY DEF Helper!Take, Helper!ghosts
<1> DEFINE F == [sequence : Helper!Numbers, size : Shortest..Longest]
<1>2. /\ finals \in Seq(F) /\ finals # <<>> /\ ~aborted /\ decoder.at = "waiting" /\ active = None /\ partial = None
      /\ Len(accepted) \in Nat
  BY DEF HelperInvariant, HelperTyped, DecoderFits, HelperQueueFits, Helper!Take, ReaderFits
<1>3. /\ finals' \in Seq(F) /\ Len(finals') = Len(finals) - 1 /\ Len(finals) \in Nat \ {0}
      /\ \A i \in 1..(Len(finals) - 1) : finals'[i] = finals[i + 1]
      /\ DOMAIN finals = 1..Len(finals) /\ DOMAIN finals' = 1..(Len(finals) - 1)
      /\ Head(finals) = finals[1] /\ finals[1] \in F
  <2> HIDE DEF F
  <2>1. Len(finals) \in Nat \ {0} /\ DOMAIN finals = 1..Len(finals) /\ Head(finals) = finals[1]
    BY <1>2, EmptySeq
  <2>2. finals' \in Seq(F) /\ Len(finals') = Len(finals) - 1 /\ \A i \in 1..Len(finals') : finals'[i] = finals[i + 1]
    BY <1>2, HeadTailProperties
  <2>3. finals[1] \in F
    BY <1>2, <2>1
  <2> QED BY <2>1, <2>2, <2>3
<1>4. /\ active' = [sequence |-> finals[1].sequence, final |-> TRUE] /\ cancel' = FALSE
      /\ decoder' = [at |-> "decoding", stopped |-> FALSE, text |-> FALSE]
  BY <1>3 DEF Helper!Decodes
<1>5. /\ active' \in [sequence : Helper!Numbers, final : BOOLEAN] /\ active' # None /\ decoder' \in DecoderStates
      /\ active'.sequence = finals[1].sequence /\ active'.final = TRUE
      /\ decoder'.at = "decoding" /\ decoder'.stopped = FALSE
  BY <1>3, <1>4 DEF DecoderStates
<1> HIDE DEF F
<1>6. HelperQueueFits' /\ queued' \in 0..Budget
  <2>1. PICK sums \in [0..Len(finals) -> 0..Budget] :
       /\ sums[0] = 0 /\ sums[Len(finals)] = queued
       /\ \A i \in DOMAIN finals : sums[i] = sums[i - 1] + finals[i].size
       /\ \A i, j \in 0..Len(finals) : i <= j => sums[i] <= sums[j]
    BY DEF HelperInvariant, HelperQueueFits
  <2> DEFINE rest == [i \in 0..Len(finals') |-> sums[i + 1] - sums[1]]
  <2>2. sums[1] = finals[1].size
    <3>1. finals[1].size \in Nat
      BY <1>3 DEF F
    <3>2. 1 \in DOMAIN finals /\ sums[1] = sums[0] + finals[1].size
      BY <1>3, <2>1
    <3> QED BY <2>1, <3>1, <3>2
  <2>3. ASSUME NEW i \in 0..Len(finals') PROVE rest[i] \in 0..Budget
    <3>1. i + 1 \in 0..Len(finals) /\ 1 \in 0..Len(finals) /\ 1 <= i + 1
      BY <1>3
    <3>2. sums[1] <= sums[i + 1] /\ sums[1] \in 0..Budget /\ sums[i + 1] \in 0..Budget
      BY <2>1, <3>1
    <3> QED BY <3>2
  <2>4. rest \in [0..Len(finals') -> 0..Budget]
    BY <2>3
  <2>5. rest[0] = 0 /\ rest[Len(finals')] = queued'
    <3>1. 1 \in 0..Len(finals) /\ sums[1] \in Nat /\ 0 \in 0..Len(finals') /\ Len(finals') \in 0..Len(finals')
      BY <1>3, <2>1
    <3>2. rest[0] = sums[0 + 1] - sums[1] /\ rest[Len(finals')] = sums[Len(finals') + 1] - sums[1]
      BY <3>1
    <3>3. Len(finals') + 1 = Len(finals) /\ sums[0 + 1] - sums[1] = 0
      BY <1>3, <3>1
    <3> QED BY <1>3, <2>1, <2>2, <3>2, <3>3
  <2>6. ASSUME NEW i \in DOMAIN finals' PROVE rest[i] = rest[i - 1] + finals'[i].size
    <3>1. i \in 0..Len(finals') /\ i - 1 \in 0..Len(finals') /\ i + 1 \in DOMAIN finals /\ finals'[i] = finals[i + 1]
          /\ (i - 1) + 1 = i /\ (i + 1) - 1 = i /\ i \in 0..Len(finals) /\ 1 \in 0..Len(finals) /\ i + 1 \in 0..Len(finals)
      BY <1>3
    <3>2. sums[i + 1] = sums[i] + finals[i + 1].size
      <4>1. sums[i + 1] = sums[(i + 1) - 1] + finals[i + 1].size
        BY <2>1, <3>1
      <4> QED BY <3>1, <4>1
    <3>5. finals[i + 1].size \in Nat
      <4>1. finals[i + 1] \in F
        BY <1>2, <3>1
      <4> QED BY <4>1 DEF F
    <3>3. rest[i] = sums[i + 1] - sums[1] /\ rest[i - 1] = sums[i] - sums[1]
      BY <3>1
    <3>4. sums[i] \in Nat /\ sums[1] \in Nat
      <4>1. sums[i] \in 0..Budget /\ sums[1] \in 0..Budget
        BY <3>1
      <4> QED BY <4>1
    <3>6. \A a, b, c \in Nat : (b + c) - a = (b - a) + c
      OBVIOUS
    <3>7. sums[i + 1] - sums[1] = (sums[i] - sums[1]) + finals[i + 1].size
      <4>1. (sums[i] + finals[i + 1].size) - sums[1] = (sums[i] - sums[1]) + finals[i + 1].size
        BY <3>4, <3>5, <3>6
      <4> QED BY <3>2, <4>1
    <3>8. finals'[i].size = finals[i + 1].size
      BY <3>1
    <3> HIDE DEF rest, F
    <3> QED BY ONLY <3>3, <3>7, <3>8
  <2>7. ASSUME NEW i \in 0..Len(finals'), NEW j \in 0..Len(finals'), i <= j PROVE rest[i] <= rest[j]
    <3>1. i + 1 \in 0..Len(finals) /\ j + 1 \in 0..Len(finals) /\ i + 1 <= j + 1 /\ 1 \in 0..Len(finals)
      BY <1>3, <2>7
    <3>2. sums[i + 1] <= sums[j + 1] /\ sums[i + 1] \in Nat /\ sums[j + 1] \in Nat /\ sums[1] \in Nat
      BY <2>1, <3>1
    <3> QED BY <3>2
  <2>8. queued' \in 0..Budget
    <3>1. Len(finals') \in 0..Len(finals')
      BY <1>3
    <3>2. rest[Len(finals')] \in 0..Budget
      BY <2>3, <3>1
    <3> QED BY <2>5, <3>2
  <2> HIDE DEF rest
  <2> QED BY <1>1, <1>2, <2>4, <2>5, <2>6, <2>7, <2>8 DEF HelperQueueFits
<1>7. HelperTyped'
  <2>1. HelperTyped
    BY DEF HelperInvariant
  <2>2. cancel' \in BOOLEAN
    BY <1>4
  <2> QED BY <1>1, <1>3, <1>5, <1>6, <2>1, <2>2 DEF HelperTyped, F
<1>8. ReaderFits'
  <2>1. reader.at # "exited"
    BY <1>2 DEF HelperInvariant, ReaderFits
  <2> QED BY <1>1, <2>1 DEF HelperInvariant, ReaderFits
<1>9. PICK n \in 0..Len(accepted) : AnsweredTo(n)
  BY DEF HelperInvariant
<1>10. /\ Len(accepted) - Len(finals) = n /\ finals[1].sequence = n + 1 /\ n + 1 <= Len(accepted)
       /\ \A i \in DOMAIN finals : finals[i].sequence = n + i
  <2>1. Len(accepted) - Len(finals) = n /\ \A i \in DOMAIN finals : finals[i].sequence = Len(accepted) - Len(finals) + i
    BY <1>2, <1>9 DEF AnsweredTo
  <2>2. \A i \in DOMAIN finals : finals[i].sequence = n + i
    BY <2>1
  <2>3. 1 \in DOMAIN finals /\ n + 1 <= Len(accepted) 
    BY <1>2, <1>3, <2>1
  <2> QED BY <2>1, <2>2, <2>3
<1>11. DecoderFits' /\ CancelLasts'
  <2>1. failed => broken
    BY DEF HelperInvariant, DecoderFits
  <2> QED BY <1>1, <1>2, <1>5, <1>10, <2>1 DEF DecoderFits, CancelLasts
<1>12. AnsweredTo(n)'
  <2>1. Helper!Answered' = 1..n /\ \A i \in Helper!Texts' : output'[i].sequence <= n \/ (output'[i].type = "partial" /\ output'[i].sequence = n + 1)
    BY <1>1, <1>9, NothingSaid DEF AnsweredTo
  <2>2. Len(accepted') - Len(finals') = n + 1
    <3>1. Len(finals') = Len(finals) - 1 /\ Len(finals) \in Nat /\ Len(accepted') = Len(accepted)
      BY <1>1, <1>3
    <3>2. Len(accepted) - Len(finals) = n /\ Len(accepted) \in Nat
      BY <1>2, <1>10
    <3> QED BY <3>1, <3>2
  <2>3. ASSUME NEW i \in DOMAIN finals' PROVE finals'[i].sequence = Len(accepted') - Len(finals') + i
    <3>1. i + 1 \in DOMAIN finals /\ finals'[i] = finals[i + 1]
      BY <1>3
    <3>2. finals'[i].sequence = n + (i + 1)
      BY <1>10, <3>1
    <3>3. n + (i + 1) = (n + 1) + i
      BY <1>3
    <3> QED BY <2>2, <3>2, <3>3
  <2> QED BY <1>5, <1>10, <2>1, <2>2, <2>3 DEF AnsweredTo
<1>13. TextsInOrder' /\ (Helper!Written("audioBacklog") => full)'
  BY <1>1, NothingSaid DEF HelperInvariant
<1> QED BY <1>1, <1>6, <1>7, <1>8, <1>11, <1>12, <1>13 DEF HelperInvariant

\* A preview is taken.
LEMMA TakesPreview ==
  ASSUME HelperInvariant, Helper!Take, finals = <<>>, partial # None, Helper!Decodes(partial, FALSE), partial' = None,
         UNCHANGED <<finals, queued>>
  PROVE  HelperInvariant'
<1> USE HelperAssumed
<1>1. UNCHANGED <<reader, visible, closed, aborted, failed, output, accepted, full, broken, frames, finals, queued>>
  BY DEF Helper!Take, Helper!ghosts
<1>2. /\ ~closed /\ ~aborted /\ decoder.at = "waiting" /\ active = None /\ partial = Len(accepted) + 1
      /\ partial \in Helper!Numbers /\ Len(accepted) \in Nat /\ partial = reader.sequence
  BY DEF HelperInvariant, HelperTyped, DecoderFits, HelperQueueFits, Helper!Take, ReaderFits
<1>3. /\ active' = [sequence |-> partial, final |-> FALSE] /\ cancel' = FALSE
      /\ decoder' = [at |-> "decoding", stopped |-> FALSE, text |-> FALSE]
  BY DEF Helper!Decodes
<1>4. /\ active' \in [sequence : Helper!Numbers, final : BOOLEAN] /\ active' # None /\ decoder' \in DecoderStates
      /\ active'.sequence = partial /\ active'.final = FALSE
      /\ decoder'.at = "decoding" /\ decoder'.stopped = FALSE
  BY <1>2, <1>3 DEF DecoderStates
<1>5. HelperTyped'
  <2>1. HelperTyped
    BY DEF HelperInvariant
  <2>2. cancel' \in BOOLEAN
    BY <1>3
  <2> QED BY <1>1, <1>4, <2>1, <2>2 DEF HelperTyped
<1>6. HelperQueueFits'
  <2>1. HelperQueueFits
    BY DEF HelperInvariant
  <2> QED BY <1>1, <2>1 DEF HelperQueueFits
<1>7. ReaderFits'
  <2>1. reader.at # "exited"
    BY <1>2 DEF HelperInvariant, ReaderFits
  <2> QED BY <1>1, <2>1 DEF HelperInvariant, ReaderFits
<1>8. DecoderFits' /\ CancelLasts'
  <2>1. failed => broken
    BY DEF HelperInvariant, DecoderFits
  <2>2. active'.sequence <= Len(accepted') + 1
    BY <1>1, <1>2, <1>4
  <2>3. ~cancel'
    BY <1>3
  <2> QED BY <1>1, <1>2, <1>4, <2>1, <2>2, <2>3 DEF DecoderFits, CancelLasts
<1>9. PICK n \in 0..Len(accepted) : AnsweredTo(n)
  BY DEF HelperInvariant
<1>10. Len(accepted) = n
  <2>1. Len(accepted) - Len(finals) = n /\ Len(finals) = 0
    BY <1>2, <1>9 DEF AnsweredTo
  <2> QED BY <1>2, <2>1
<1>11. AnsweredTo(n)'
  <2>1. Helper!Answered' = 1..n /\ \A i \in Helper!Texts' : output'[i].sequence <= n \/ (output'[i].type = "partial" /\ output'[i].sequence = n + 1)
    BY <1>1, <1>9, NothingSaid DEF AnsweredTo
  <2>2. Len(accepted') - Len(finals') = n /\ DOMAIN finals' = {}
    BY <1>1, <1>2, <1>10
  <2> QED BY <1>2, <1>4, <1>10, <2>1, <2>2 DEF AnsweredTo
<1>12. TextsInOrder' /\ (Helper!Written("audioBacklog") => full)'
  BY <1>1, NothingSaid DEF HelperInvariant
<1> QED BY <1>1, <1>5, <1>6, <1>7, <1>8, <1>11, <1>12 DEF HelperInvariant

\* Nothing is left, and nothing will come.
LEMMA TakesNothing ==
  ASSUME HelperInvariant, Helper!Take, closed, finals = <<>>, partial = None, decoder' = [decoder EXCEPT !.at = "ended"],
         UNCHANGED <<finals, queued, partial, active, cancel>>
  PROVE  HelperInvariant'
<1> USE HelperAssumed
<1>1. UNCHANGED <<reader, visible, closed, aborted, failed, output, accepted, full, broken, frames, finals, queued, partial, active, cancel>>
  BY DEF Helper!Take, Helper!ghosts
<1>2. decoder.at = "waiting" /\ decoder' \in DecoderStates /\ decoder'.at = "ended"
  BY DEF HelperInvariant, HelperTyped, Helper!Take, DecoderStates
<1>3. HelperTyped'
  <2>1. HelperTyped
    BY DEF HelperInvariant
  <2> QED BY <1>1, <1>2, <2>1 DEF HelperTyped
<1>4. HelperQueueFits'
  <2>1. HelperQueueFits
    BY DEF HelperInvariant
  <2> QED BY <1>1, <2>1 DEF HelperQueueFits
<1>5. ReaderFits'
  BY <1>1, <1>2 DEF HelperInvariant, ReaderFits
<1>6. DecoderFits' /\ CancelLasts'
  BY <1>1, <1>2 DEF HelperInvariant, DecoderFits, CancelLasts
<1>7. TextsInOrder' /\ (Helper!Written("audioBacklog") => full)'
  BY <1>1, NothingSaid DEF HelperInvariant
<1>8. (\E n \in 0..Len(accepted) : AnsweredTo(n))'
  <2>1. PICK n \in 0..Len(accepted) : AnsweredTo(n)
    BY DEF HelperInvariant
  <2>2. AnsweredTo(n)'
    BY <1>1, <1>2, <2>1, NothingSaid DEF AnsweredTo
  <2> QED BY <1>1, <2>2
<1> QED BY <1>3, <1>4, <1>5, <1>6, <1>7, <1>8 DEF HelperInvariant

\* A step of the decoder that answers nothing and takes nothing.
LEMMA DecoderAlone ==
  ASSUME HelperInvariant, UNCHANGED <<reader, Helper!queue, output, accepted, full, frames>>,
         decoder.at = "decoding", decoder' \in DecoderStates, failed' \in BOOLEAN, broken' \in BOOLEAN,
         failed => failed', failed' => broken',
         \/ decoder'.at = "decoding" /\ Helper!Cancelled(active.final)
         \/ decoder'.at = "done" /\ (Helper!Cancelled(active.final) \/ ~active.final)
         \/ decoder'.at = "failing" /\ failed'
  PROVE  HelperInvariant'
<1> USE HelperAssumed
<1>1. UNCHANGED <<reader, finals, queued, partial, active, visible, cancel, closed, aborted, output, accepted, full, frames>>
  BY DEF Helper!queue
<1>2. HelperTyped'
  <2>1. HelperTyped
    BY DEF HelperInvariant
  <2> QED BY <1>1, <2>1 DEF HelperTyped
<1>3. HelperQueueFits'
  <2>1. HelperQueueFits
    BY DEF HelperInvariant
  <2> QED BY <1>1, <2>1 DEF HelperQueueFits
<1>4. ReaderFits'
  BY <1>1 DEF HelperInvariant, ReaderFits
<1>5. DecoderFits' /\ CancelLasts'
  BY <1>1 DEF HelperInvariant, DecoderFits, CancelLasts, Helper!Cancelled
<1>6. TextsInOrder' /\ (Helper!Written("audioBacklog") => full)'
  BY <1>1, NothingSaid DEF HelperInvariant
<1>7. (\E n \in 0..Len(accepted) : AnsweredTo(n))'
  <2>1. PICK n \in 0..Len(accepted) : AnsweredTo(n)
    BY DEF HelperInvariant
  <2>2. aborted \/ ~active.final \/ decoder'.at # "done"
    BY DEF Helper!Cancelled
  <2>3. Helper!Answered' = Helper!Answered /\ Helper!Texts' = Helper!Texts
    BY <1>1, NothingSaid
  <2>4. AnsweredTo(n)'
    BY <1>1, <2>1, <2>2, <2>3 DEF AnsweredTo
  <2> QED BY <1>1, <2>4
<1> QED BY <1>2, <1>3, <1>4, <1>5, <1>6, <1>7 DEF HelperInvariant

\* The text of the utterance after those answered comes last.
LEMMA OrderLasts ==
  ASSUME output \in Seq(HelperEvents), NEW e \in HelperEvents, NEW n \in Nat, output' = Append(output, e), TextsInOrder,
         e.sequence = n + 1,
         \A i \in Helper!Texts : output[i].sequence <= n \/ (output[i].type = "partial" /\ output[i].sequence = n + 1)
  PROVE  TextsInOrder'
<1>1. /\ Len(output') = Len(output) + 1 /\ Len(output) \in Nat /\ DOMAIN output' = 1..(Len(output) + 1)
      /\ DOMAIN output = 1..Len(output) /\ \A k \in 1..Len(output) : output'[k] = output[k]
      /\ output'[Len(output) + 1] = e
  OBVIOUS
<1>2. ASSUME NEW i \in Helper!Texts' PROVE i = Len(output) + 1 \/ (i \in Helper!Texts /\ output'[i] = output[i])
  BY <1>1, <1>2 DEF Helper!Texts
<1>3. ASSUME NEW i \in Helper!Texts PROVE output[i].sequence \in Nat
  <2>1. i \in DOMAIN output
    BY <1>3 DEF Helper!Texts
  <2>2. output[i] \in HelperEvents
    BY <2>1
  <2> QED BY <2>2 DEF HelperEvents
<1> SUFFICES ASSUME NEW i \in Helper!Texts', NEW j \in Helper!Texts', i < j
    PROVE \/ output'[i].sequence < output'[j].sequence
          \/ (output'[i].sequence = output'[j].sequence /\ output'[i].type = "partial")
  BY DEF TextsInOrder
<1>4. i \in 1..(Len(output) + 1) /\ j \in 1..(Len(output) + 1)
  BY <1>1 DEF Helper!Texts
<1>5. i \in Helper!Texts /\ output'[i] = output[i]
  BY <1>1, <1>2, <1>4
<1>6. CASE j \in Helper!Texts /\ output'[j] = output[j]
  BY <1>5, <1>6 DEF TextsInOrder
<1>7. CASE j = Len(output) + 1
  <2>1. output'[j].sequence = n + 1
    BY <1>1, <1>7
  <2>2. CASE output[i].sequence <= n
    <3>1. output[i].sequence < n + 1
      BY <1>3, <1>5, <2>2
    <3> QED BY <1>5, <2>1, <3>1
  <2>3. CASE output[i].type = "partial" /\ output[i].sequence = n + 1
    BY <1>5, <2>1, <2>3
  <2> QED BY <1>5, <2>2, <2>3
<1> QED BY <1>2, <1>6, <1>7

\* An utterance is answered.
LEMMA DecoderAnswers ==
  ASSUME HelperInvariant, UNCHANGED <<reader, Helper!queue, accepted, full, frames, failed, broken>>,
         decoder.at = "decoding", decoder' \in DecoderStates, decoder'.at = "done",
         active.final, NEW verdict \in {"final", "empty"}, output' = Append(output, Helper!Event(verdict, active.sequence))
  PROVE  HelperInvariant'
<1> USE HelperAssumed
<1>1. UNCHANGED <<reader, finals, queued, partial, active, visible, cancel, closed, aborted, accepted, full, frames, failed, broken>>
  BY DEF Helper!queue
<1>2. active.sequence \in Nat /\ output \in Seq(HelperEvents) /\ Len(accepted) \in Nat
  <2>1. active \in [sequence : Helper!Numbers, final : BOOLEAN]
    BY DEF HelperInvariant, HelperTyped, DecoderFits
  <2>2. active.sequence \in Nat
    BY <2>1
  <2> QED BY <2>2 DEF HelperInvariant, HelperTyped, ReaderFits
<1> DEFINE e == Helper!Event(verdict, active.sequence)
<1>3. e \in HelperEvents /\ e.type = verdict /\ e.sequence = active.sequence
  BY <1>2 DEF Helper!Event, HelperEvents
<1> HIDE DEF e
<1>4. output' \in Seq(HelperEvents) /\ output' = Append(output, e)
  BY <1>2, <1>3 DEF e
<1>5. PICK n \in 0..Len(accepted) : AnsweredTo(n)
  BY DEF HelperInvariant
<1>6. active.sequence = n + 1 /\ n \in Nat /\ n + 1 \in 0..Len(accepted) /\ n + 1 <= Len(accepted)
  <2>1. active.sequence = n + 1
    BY <1>5 DEF AnsweredTo
  <2>2. active.sequence <= Len(accepted)
    BY DEF HelperInvariant, DecoderFits
  <2> QED BY <1>2, <2>1, <2>2
<1>7. /\ Helper!Answered' = Helper!Answered \cup {active.sequence}
      /\ \A i \in Helper!Texts' : (i \in Helper!Texts /\ output'[i] = output[i]) \/ ((\A j \in Helper!Texts : j < i) /\ output'[i] = e)
      /\ \A t : Helper!Written(t)' <=> (Helper!Written(t) \/ e.type = t)
  <2>1. Helper!Answered' = Helper!Answered \cup (IF e.type \in {"final", "empty"} THEN {e.sequence} ELSE {})
    BY <1>2, <1>3, <1>4, EventSaid
  <2>2. Helper!Answered' = Helper!Answered \cup {active.sequence}
    BY <1>3, <2>1
  <2>3. \A i \in Helper!Texts' : (i \in Helper!Texts /\ output'[i] = output[i]) \/ ((\A j \in Helper!Texts : j < i) /\ output'[i] = e)
    BY <1>2, <1>3, <1>4, EventSaid
  <2>4. \A t : Helper!Written(t)' <=> (Helper!Written(t) \/ e.type = t)
    BY <1>2, <1>3, <1>4, EventSaid
  <2> QED BY <2>2, <2>3, <2>4
<1>8. HelperTyped'
  <2>1. HelperTyped
    BY DEF HelperInvariant
  <2> QED BY <1>1, <1>4, <2>1 DEF HelperTyped
<1>9. HelperQueueFits'
  <2>1. HelperQueueFits
    BY DEF HelperInvariant
  <2> QED BY <1>1, <2>1 DEF HelperQueueFits
<1>10. ReaderFits' /\ DecoderFits' /\ CancelLasts'
  BY <1>1 DEF HelperInvariant, ReaderFits, DecoderFits, CancelLasts, Helper!Cancelled
<1>11. ASSUME NEW i \in Helper!Texts PROVE output[i].sequence \in Nat
  <2>1. i \in DOMAIN output
    BY <1>11 DEF Helper!Texts
  <2>2. output[i] \in HelperEvents
    BY <1>2, <2>1
  <2> QED BY <2>2 DEF HelperEvents
<1>12. TextsInOrder'
  BY <1>2, <1>3, <1>4, <1>5, <1>6, <1>7, OrderLasts DEF HelperInvariant, AnsweredTo
<1>13. (Helper!Written("audioBacklog") => full)'
  <2>1. Helper!Written("audioBacklog")' => Helper!Written("audioBacklog")
    BY <1>3, <1>7
  <2> QED BY <1>1, <2>1 DEF HelperInvariant
<1>14. AnsweredTo(n + 1)'
  <2>1. Helper!Answered' = 1..(n + 1)
    BY <1>5, <1>6, <1>7 DEF AnsweredTo
  <2>2. ASSUME NEW i \in Helper!Texts' PROVE output'[i].sequence <= n + 1
    <3>1. CASE i \in Helper!Texts /\ output'[i] = output[i]
      <4>1. output[i].sequence <= n \/ output[i].sequence = n + 1
        BY <1>5, <3>1 DEF AnsweredTo
      <4>2. output[i].sequence \in Nat
        BY <1>11, <3>1
      <4>3. output[i].sequence <= n + 1
        BY <1>6, <4>1, <4>2
      <4> QED BY <3>1, <4>3
    <3>2. CASE output'[i] = e
      <4>1. output'[i].sequence = n + 1
        BY <1>3, <1>6, <3>2
      <4>2. n + 1 <= n + 1
        BY <1>6
      <4> QED BY <4>1, <4>2
    <3> QED BY <1>7, <3>1, <3>2
  <2>3. ~aborted => Len(accepted) - Len(finals) = n + 1 /\ \A i \in DOMAIN finals : finals[i].sequence = Len(accepted) - Len(finals) + i
    BY <1>5 DEF AnsweredTo
  <2> QED BY <1>1, <2>1, <2>2, <2>3 DEF AnsweredTo
<1> QED BY <1>1, <1>6, <1>8, <1>9, <1>10, <1>12, <1>13, <1>14 DEF HelperInvariant

\* A preview is written.
LEMMA DecoderPreviews ==
  ASSUME HelperInvariant, UNCHANGED <<reader, Helper!queue, accepted, full, frames, failed, broken>>,
         decoder.at = "decoding", decoder' \in DecoderStates, decoder'.at = "done",
         ~active.final, output' = Append(output, Helper!Event("partial", active.sequence))
  PROVE  HelperInvariant'
<1> USE HelperAssumed
<1>1. UNCHANGED <<reader, finals, queued, partial, active, visible, cancel, closed, aborted, accepted, full, frames, failed, broken>>
  BY DEF Helper!queue
<1>2. active.sequence \in Nat /\ output \in Seq(HelperEvents) /\ Len(accepted) \in Nat
  <2>1. active \in [sequence : Helper!Numbers, final : BOOLEAN]
    BY DEF HelperInvariant, HelperTyped, DecoderFits
  <2>2. active.sequence \in Nat
    BY <2>1
  <2> QED BY <2>2 DEF HelperInvariant, HelperTyped, ReaderFits
<1> DEFINE e == Helper!Event("partial", active.sequence)
<1>3. e \in HelperEvents /\ e.type = "partial" /\ e.sequence = active.sequence
  BY <1>2 DEF Helper!Event, HelperEvents
<1> HIDE DEF e
<1>4. output' \in Seq(HelperEvents) /\ output' = Append(output, e)
  BY <1>2, <1>3 DEF e
<1>5. PICK n \in 0..Len(accepted) : AnsweredTo(n)
  BY DEF HelperInvariant
<1>6. active.sequence = n + 1 /\ n \in Nat
  BY <1>2, <1>5 DEF AnsweredTo
<1>7. /\ Helper!Answered' = Helper!Answered
      /\ \A i \in Helper!Texts' : (i \in Helper!Texts /\ output'[i] = output[i]) \/ ((\A j \in Helper!Texts : j < i) /\ output'[i] = e)
      /\ \A t : Helper!Written(t)' <=> (Helper!Written(t) \/ e.type = t)
  <2>1. Helper!Answered' = Helper!Answered \cup (IF e.type \in {"final", "empty"} THEN {e.sequence} ELSE {})
    BY <1>2, <1>3, <1>4, EventSaid
  <2>2. Helper!Answered' = Helper!Answered
    BY <1>3, <2>1
  <2>3. \A i \in Helper!Texts' : (i \in Helper!Texts /\ output'[i] = output[i]) \/ ((\A j \in Helper!Texts : j < i) /\ output'[i] = e)
    BY <1>2, <1>3, <1>4, EventSaid
  <2>4. \A t : Helper!Written(t)' <=> (Helper!Written(t) \/ e.type = t)
    BY <1>2, <1>3, <1>4, EventSaid
  <2> QED BY <2>2, <2>3, <2>4
<1>8. HelperTyped'
  <2>1. HelperTyped
    BY DEF HelperInvariant
  <2> QED BY <1>1, <1>4, <2>1 DEF HelperTyped
<1>9. HelperQueueFits'
  <2>1. HelperQueueFits
    BY DEF HelperInvariant
  <2> QED BY <1>1, <2>1 DEF HelperQueueFits
<1>10. ReaderFits' /\ DecoderFits' /\ CancelLasts'
  BY <1>1 DEF HelperInvariant, ReaderFits, DecoderFits, CancelLasts, Helper!Cancelled
<1>11. TextsInOrder'
  BY <1>2, <1>3, <1>4, <1>5, <1>6, <1>7, OrderLasts DEF HelperInvariant, AnsweredTo
<1>12. (Helper!Written("audioBacklog") => full)'
  <2>1. Helper!Written("audioBacklog")' => Helper!Written("audioBacklog")
    BY <1>3, <1>7
  <2> QED BY <1>1, <2>1 DEF HelperInvariant
<1>13. AnsweredTo(n)'
  <2>1. ASSUME NEW i \in Helper!Texts'
        PROVE  output'[i].sequence <= n \/ (output'[i].type = "partial" /\ output'[i].sequence = n + 1)
    BY <1>3, <1>5, <1>6, <1>7 DEF AnsweredTo
  <2>2. ~aborted => Len(accepted) - Len(finals) = n /\ \A i \in DOMAIN finals : finals[i].sequence = Len(accepted) - Len(finals) + i
    BY <1>5 DEF AnsweredTo
  <2>3. Helper!Answered' = 1..n
    BY <1>5, <1>7 DEF AnsweredTo
  <2> QED BY <1>1, <2>1, <2>2, <2>3 DEF AnsweredTo
<1> QED BY <1>1, <1>8, <1>9, <1>10, <1>11, <1>12, <1>13 DEF HelperInvariant

\* The decoder is ready for the next.
LEMMA DecoderCompletes == ASSUME HelperInvariant, Helper!Complete PROVE HelperInvariant'
<1> USE HelperAssumed
<1>1. UNCHANGED <<reader, finals, queued, partial, cancel, closed, aborted, failed, output, accepted, full, broken, frames>>
  BY DEF Helper!Complete, Helper!ghosts
<1>2. /\ decoder.at = "done" /\ decoder' \in DecoderStates /\ decoder'.at = "waiting" /\ active' = None
      /\ visible' = visible \/ (visible' = active.sequence /\ active \in [sequence : Helper!Numbers, final : BOOLEAN])
  BY DEF HelperInvariant, HelperTyped, DecoderFits, Helper!Complete, DecoderStates
<1>3. HelperTyped'
  <2>1. HelperTyped
    BY DEF HelperInvariant
  <2>2. visible' \in Helper!Numbers \cup {0}
    BY <1>2, <2>1 DEF HelperTyped
  <2> QED BY <1>1, <1>2, <2>1, <2>2 DEF HelperTyped
<1>4. HelperQueueFits'
  <2>1. HelperQueueFits
    BY DEF HelperInvariant
  <2> QED BY <1>1, <1>2, <2>1 DEF HelperQueueFits
<1>5. ReaderFits'
  BY <1>1, <1>2 DEF HelperInvariant, ReaderFits
<1>6. DecoderFits' /\ CancelLasts'
  BY <1>1, <1>2 DEF HelperInvariant, DecoderFits, CancelLasts
<1>7. TextsInOrder' /\ (Helper!Written("audioBacklog") => full)'
  BY <1>1, NothingSaid DEF HelperInvariant
<1>8. (\E n \in 0..Len(accepted) : AnsweredTo(n))'
  <2>1. PICK n \in 0..Len(accepted) : AnsweredTo(n)
    BY DEF HelperInvariant
  <2>2. AnsweredTo(n)'
    BY <1>1, <1>2, <2>1, NothingSaid DEF AnsweredTo
  <2> QED BY <1>1, <2>2
<1> QED BY <1>3, <1>4, <1>5, <1>6, <1>7, <1>8 DEF HelperInvariant

\* The decoder ends after it failed.
LEMMA DecoderFails == ASSUME HelperInvariant, Helper!Fail PROVE HelperInvariant'
<1> USE HelperAssumed
<1>1. /\ UNCHANGED <<reader, active, visible, cancel, failed, accepted, full, broken, frames>>
      /\ closed' = TRUE /\ aborted' = TRUE /\ partial' = None /\ finals' = <<>> /\ queued' = 0
      /\ output' = Append(output, Helper!Event("engineFailed", 0))
  BY DEF Helper!Fail, Helper!ghosts, Helper!AbortQueue
<1>2. decoder.at = "failing" /\ decoder' \in DecoderStates /\ decoder'.at = "ended" /\ failed
  BY DEF HelperInvariant, HelperTyped, DecoderFits, Helper!Fail, DecoderStates
<1>3. /\ output' \in Seq(HelperEvents) /\ Helper!Answered' = Helper!Answered /\ TextsInOrder' /\ (Helper!Written("audioBacklog") => full)'
      /\ \A i \in Helper!Texts' : i \in Helper!Texts /\ output'[i] = output[i]
  <2>1. Helper!Event("engineFailed", 0) \in HelperEvents /\ Helper!Event("engineFailed", 0).type \notin {"partial", "final", "empty", "audioBacklog"}
    BY DEF Helper!Event, HelperEvents
  <2> QED BY <1>1, <2>1, OtherSaid DEF HelperInvariant
<1>4. HelperTyped'
  <2>1. HelperTyped /\ 0 \in 0..Budget
    BY DEF HelperInvariant
  <2>2. finals' \in Seq([sequence : Helper!Numbers, size : Shortest..Longest]) /\ partial' \in Helper!Numbers \cup {None}
    BY <1>1
  <2>3. closed' \in BOOLEAN /\ aborted' \in BOOLEAN
    BY <1>1
  <2> QED BY <1>1, <1>2, <1>3, <2>1, <2>2, <2>3 DEF HelperTyped
<1>5. HelperQueueFits'
  <2> DEFINE sums == [i \in 0..0 |-> 0]
  <2>1. sums \in [0..Len(finals') -> 0..Budget] /\ sums[0] = 0 /\ sums[Len(finals')] = queued'
    BY <1>1
  <2>2. (\A i, j \in 0..Len(finals') : i <= j => sums[i] <= sums[j]) /\ DOMAIN finals' = {}
    BY <1>1
  <2> HIDE DEF sums
  <2> QED BY <1>1, <2>1, <2>2 DEF HelperQueueFits
<1>6. ReaderFits'
  BY <1>1, <1>2 DEF HelperInvariant, ReaderFits
<1>7. DecoderFits' /\ CancelLasts'
  BY <1>1, <1>2 DEF HelperInvariant, DecoderFits, CancelLasts
<1>8. (\E n \in 0..Len(accepted) : AnsweredTo(n))'
  <2>1. PICK n \in 0..Len(accepted) : AnsweredTo(n)
    BY DEF HelperInvariant
  <2>2. AnsweredTo(n)'
    BY <1>1, <1>2, <1>3, <2>1 DEF AnsweredTo
  <2> QED BY <1>1, <2>2
<1> QED BY <1>3, <1>4, <1>5, <1>6, <1>7, <1>8 DEF HelperInvariant

\* Recognition ends.
LEMMA DecoderRecognizes == ASSUME HelperInvariant, Helper!GiveUp \/ Helper!Recognize PROVE HelperInvariant'
<1>1. /\ UNCHANGED <<reader, Helper!queue, accepted, full, frames>> /\ decoder.at = "decoding" /\ decoder \in DecoderStates
      /\ failed \in BOOLEAN /\ broken \in BOOLEAN /\ (failed => broken)
  BY DEF Helper!GiveUp, Helper!Recognize, Helper!ghosts, HelperInvariant, HelperTyped, DecoderFits
<1>2. CASE Helper!GiveUp
  <2>1. /\ UNCHANGED <<output, failed, broken>> /\ decoder' \in DecoderStates /\ decoder'.at = "decoding"
        /\ Helper!Cancelled(active.final)
    BY <1>1, <1>2 DEF Helper!GiveUp, DecoderStates
  <2> QED BY <1>1, <2>1, DecoderAlone
<1>3. CASE Helper!Recognize
  <2>1. CASE Helper!Cancelled(active.final) /\ decoder' = [decoder EXCEPT !.at = "done"] /\ UNCHANGED <<failed, output, broken>>
    <3>1. decoder' \in DecoderStates /\ decoder'.at = "done"
      BY <1>1, <2>1 DEF DecoderStates
    <3> QED BY <1>1, <2>1, <3>1, DecoderAlone
  <2>2. CASE /\ ~Helper!Cancelled(active.final) /\ broken' = ~decoder.stopped /\ failed' = TRUE
             /\ decoder' = [decoder EXCEPT !.at = "failing"] /\ UNCHANGED output
    <3>1. decoder' \in DecoderStates /\ decoder'.at = "failing"
      BY <1>1, <2>2 DEF DecoderStates
    <3>2. ~decoder.stopped
      BY <1>1, <2>2 DEF HelperInvariant, CancelLasts
    <3>3. failed' \in BOOLEAN /\ broken' \in BOOLEAN /\ failed' /\ broken'
      BY <2>2, <3>2
    <3> QED BY <1>1, <2>2, <3>1, <3>3, DecoderAlone
  <2>3. CASE /\ ~Helper!Cancelled(active.final) /\ ~decoder.stopped
             /\ output' = Append(output, Helper!Event(IF active.final THEN "final" ELSE "partial", active.sequence))
             /\ decoder' = [decoder EXCEPT !.at = "done", !.text = TRUE] /\ UNCHANGED <<failed, broken>>
    <3>1. decoder' \in DecoderStates /\ decoder'.at = "done"
      BY <1>1, <2>3 DEF DecoderStates
    <3>2. CASE active.final
      <4>1. output' = Append(output, Helper!Event("final", active.sequence))
        BY <2>3, <3>2
      <4> QED BY <1>1, <2>3, <3>1, <3>2, <4>1, DecoderAnswers
    <3>3. CASE ~active.final
      <4>1. output' = Append(output, Helper!Event("partial", active.sequence))
        BY <2>3, <3>3
      <4> QED BY <1>1, <2>3, <3>1, <3>3, <4>1, DecoderPreviews
    <3> QED BY <3>2, <3>3
  <2>4. CASE /\ ~Helper!Cancelled(active.final) /\ ~decoder.stopped
             /\ output' = IF active.final THEN Append(output, Helper!Event("empty", active.sequence)) ELSE output
             /\ decoder' = [decoder EXCEPT !.at = "done"] /\ UNCHANGED <<failed, broken>>
    <3>1. decoder' \in DecoderStates /\ decoder'.at = "done"
      BY <1>1, <2>4 DEF DecoderStates
    <3>2. CASE active.final
      <4>1. output' = Append(output, Helper!Event("empty", active.sequence))
        BY <2>4, <3>2
      <4> QED BY <1>1, <2>4, <3>1, <3>2, <4>1, DecoderAnswers
    <3>3. CASE ~active.final
      <4>1. output' = output
        BY <2>4, <3>3
      <4> QED BY <1>1, <2>4, <3>1, <3>3, <4>1, DecoderAlone
    <3> QED BY <3>2, <3>3
  <2> QED BY <1>3, <2>1, <2>2, <2>3, <2>4 DEF Helper!Recognize
<1> QED BY <1>2, <1>3

\* Every step keeps the invariant.
LEMMA HelperInvariantStep == ASSUME HelperInvariant, [Helper!Next]_(Helper!vars) PROVE HelperInvariant'
<1>1. CASE Helper!Frame
  <2>1. CASE UNCHANGED Helper!queue
    BY <1>1, <2>1, ReaderAlone
  <2>2. CASE ~failed /\ reader.speech + 1 < Longest /\ reader' = [reader EXCEPT !.speech = reader.speech + 1] /\ Helper!OfferPartial
    BY <1>1, <2>2, ReaderOffers
  <2> QED BY <1>1, <2>1, <2>2 DEF Helper!Frame
<1>2. CASE Helper!EndOfInput \/ Helper!BadInput
  <2>1. UNCHANGED Helper!queue
    BY <1>2 DEF Helper!EndOfInput, Helper!BadInput
  <2> QED BY <1>2, <2>1, ReaderAlone
<1>3. CASE Helper!Admit
  <2>1. CASE /\ Helper!Fits(reader.speech) /\ Helper!SubmitFinal(reader.speech)
             /\ reader' = [reader EXCEPT !.at = IF reader.over THEN "leaving" ELSE "reading", !.speech = 0, !.sequence = @ + 1]
    BY <1>3, <2>1, ReaderSubmits
  <2>2. CASE reader' = [reader EXCEPT !.at = "refused"] /\ full' = (full \/ ~closed) /\ UNCHANGED <<Helper!queue, accepted>>
    BY <1>3, <2>2, ReaderRefused
  <2> QED BY <1>3, <2>1, <2>2 DEF Helper!Admit
<1>4. CASE Helper!Take
  <2>1. CASE finals # <<>> /\ Helper!Decodes(Head(finals).sequence, TRUE)
             /\ finals' = Tail(finals) /\ queued' = queued - Head(finals).size /\ UNCHANGED partial
    BY <1>4, <2>1, TakesFinal
  <2>2. CASE finals = <<>> /\ partial # None /\ Helper!Decodes(partial, FALSE) /\ partial' = None /\ UNCHANGED <<finals, queued>>
    BY <1>4, <2>2, TakesPreview
  <2>3. CASE closed /\ finals = <<>> /\ partial = None /\ decoder' = [decoder EXCEPT !.at = "ended"]
             /\ UNCHANGED <<finals, queued, partial, active, cancel>>
    BY <1>4, <2>3, TakesNothing
  <2> QED BY <1>4, <2>1, <2>2, <2>3 DEF Helper!Take
<1>5. CASE UNCHANGED Helper!vars
  <2>1. UNCHANGED <<reader, finals, queued, partial, active, visible, cancel, closed, aborted, decoder, failed, output, accepted, broken, full, frames>>
    BY <1>5 DEF Helper!vars, Helper!queue
  <2>2. HelperTyped' /\ HelperQueueFits' /\ ReaderFits' /\ DecoderFits' /\ CancelLasts'
    <3>1. HelperTyped' /\ HelperQueueFits'
      <4>1. HelperTyped /\ HelperQueueFits
        BY DEF HelperInvariant
      <4> QED BY <2>1, <4>1 DEF HelperTyped, HelperQueueFits
    <3>2. ReaderFits' /\ DecoderFits' /\ CancelLasts'
      BY <2>1 DEF HelperInvariant, ReaderFits, DecoderFits, CancelLasts, Helper!Cancelled
    <3> QED BY <3>1, <3>2
  <2>3. TextsInOrder' /\ (Helper!Written("audioBacklog") => full)'
    BY <2>1, NothingSaid DEF HelperInvariant
  <2>4. PICK n \in 0..Len(accepted) : AnsweredTo(n)
    BY DEF HelperInvariant
  <2>5. AnsweredTo(n)'
    BY <2>1, <2>4, NothingSaid DEF AnsweredTo
  <2> QED BY <2>1, <2>2, <2>3, <2>5 DEF HelperInvariant
<1>6. CASE Helper!Refused \/ Helper!Leave \/ Helper!Exit
  BY <1>6, ReaderReports, ReaderLeaves, ReaderExits
<1>7. CASE Helper!GiveUp \/ Helper!Recognize \/ Helper!Complete \/ Helper!Fail
  BY <1>7, DecoderRecognizes, DecoderCompletes, DecoderFails
<1> QED BY <1>1, <1>2, <1>3, <1>4, <1>5, <1>6, <1>7 DEF Helper!Next, Helper!Reads, Helper!Decoding

\* The invariant implies what the helper promises.
LEMMA HelperInvariantSuffices == ASSUME HelperInvariant PROVE Helper!HelperIsSound
<1> USE HelperAssumed
<1>1. Helper!TypeOK
  <2>1. reader.at \in {"reading", "admitting", "refused", "leaving", "joining", "exited"} /\ reader.speech \in 0..Longest
        /\ reader.sequence \in Helper!Numbers /\ reader.over \in BOOLEAN /\ reader.result \in {0, 4, 5, 6, 7}
    BY DEF HelperInvariant, HelperTyped, ReaderStates
  <2>2. ASSUME NEW i \in DOMAIN finals PROVE finals[i].sequence \in Helper!Numbers /\ finals[i].size \in Shortest..Longest
    <3>2. finals \in Seq([sequence : Helper!Numbers, size : Shortest..Longest])
      BY DEF HelperInvariant, HelperTyped
    <3> DEFINE F == [sequence : Helper!Numbers, size : Shortest..Longest]
    <3> HIDE DEF F
    <3>3. finals \in Seq(F)
      BY <3>2 DEF F
    <3>4. finals[i] \in F
      BY <3>3
    <3>1. finals[i] \in [sequence : Helper!Numbers, size : Shortest..Longest]
      BY <3>4 DEF F
    <3> QED BY <3>1
  <2>3. ASSUME active # None PROVE active.sequence \in Helper!Numbers /\ active.final \in BOOLEAN
    BY <2>3 DEF HelperInvariant, HelperTyped
  <2>4. ASSUME NEW i \in DOMAIN output
        PROVE  output[i].type \in {"partial", "final", "empty", "audioBacklog", "engineFailed", "stopped"}
    <3>1. output[i] \in HelperEvents
      BY DEF HelperInvariant, HelperTyped
    <3> QED BY <3>1 DEF HelperEvents
  <2>5. decoder.at \in {"waiting", "decoding", "done", "failing", "ended"}
    BY DEF HelperInvariant, HelperTyped, DecoderStates
  <2>6. HelperTyped
    BY DEF HelperInvariant
  <2>7. {cancel, closed, aborted, failed, broken, full} \subseteq BOOLEAN
    BY <2>6 DEF HelperTyped
  <2>8. queued \in 0..Budget /\ partial \in Helper!Numbers \union {None} /\ visible \in Helper!Numbers \union {0} /\ frames \in 0..MaxFrames
    BY <2>6 DEF HelperTyped
  <2> QED BY <2>1, <2>2, <2>3, <2>4, <2>5, <2>7, <2>8 DEF Helper!TypeOK
<1>2. Helper!QueueCounts
  BY DEF HelperInvariant, HelperQueueFits, Helper!QueueCounts, Helper!SizesAddUp
<1>3. PICK n \in 0..Len(accepted) : AnsweredTo(n)
  BY DEF HelperInvariant
<1>4. /\ accepted \in Seq(Nat) /\ Len(accepted) \in Nat /\ DOMAIN accepted = 1..Len(accepted)
      /\ \A i \in DOMAIN accepted : accepted[i] = i
  BY DEF HelperInvariant, ReaderFits
<1>5. Helper!Answered = {accepted[i] : i \in 1..n}
  <2>1. Helper!Answered = 1..n
    BY <1>3 DEF AnsweredTo
  <2>2. \A i \in 1..n : accepted[i] = i
    BY <1>4
  <2> QED BY <2>1, <2>2
<1>6. Helper!AnswersInOrder
  BY <1>5 DEF Helper!AnswersInOrder, HelperInvariant, TextsInOrder
<1>7. Helper!AllAreAnswered
  <2> SUFFICES ASSUME reader.at = "exited", reader.result \in {0, 7}, NEW i \in DOMAIN accepted PROVE accepted[i] \in Helper!Answered
    BY DEF Helper!AllAreAnswered
  <2>1. decoder.at = "ended" /\ ~aborted
    BY DEF HelperInvariant, ReaderFits, DecoderFits
  <2>2. finals = <<>>
    BY <2>1 DEF HelperInvariant, DecoderFits
  <2>3. Len(accepted) = n
    <3>1. Len(accepted) - Len(finals) = n /\ Len(finals) = 0
      BY <1>3, <2>1, <2>2 DEF AnsweredTo
    <3>2. Len(accepted) - 0 = n
      BY <3>1
    <3>3. Len(accepted) \in Nat
      BY <1>4
    <3> QED BY <3>2, <3>3
  <2> QED BY <1>3, <1>4, <2>3 DEF AnsweredTo
<1> QED BY <1>1, <1>2, <1>6, <1>7 DEF Helper!HelperIsSound, Helper!ErrorsAreTrue, HelperInvariant, DecoderFits

-----------------------------------------------------------------------------
(* The system. *)

\* A behaviour keeps the invariant of its component.
PartsInvariant ==
  /\ part = "accounts" => Accounts!IdentityInvariant
  /\ part = "favorites" => OutboxInvariant
  /\ part = "linked" => StoreInvariant
  /\ part = "settings" => SettingsInvariant
  /\ part = "translator" => TranslatorInvariant
  /\ part = "panel" => PanelInvariant
  /\ part = "helper" => HelperInvariant

\* It begins with it.
LEMMA PartsInvariantInit == ASSUME Init PROVE PartsInvariant
<1>1. ASSUME part = "accounts" PROVE Accounts!IdentityInvariant
  <2>1. Accounts!Init
    BY <1>1 DEF Init
  <2> QED
    BY <2>1, PartsAssumption, Accounts!IdentityInvariantInit
<1>2. ASSUME part = "favorites" PROVE OutboxInvariant
  <2>1. Favorites!Init
    BY <1>2 DEF Init
  <2> QED
    BY <2>1, PartsAssumption, OutboxInvariantInit
<1>3. ASSUME part = "linked" PROVE StoreInvariant
  <2>1. Linked!Init
    BY <1>3 DEF Init
  <2> QED
    BY <2>1, PartsAssumption, StoreInvariantInit
<1>4. ASSUME part = "settings" PROVE SettingsInvariant
  <2>1. Settings!Init
    BY <1>4 DEF Init
  <2> QED
    BY <2>1, SettingsInvariantInit
<1>5. ASSUME part = "translator" PROVE TranslatorInvariant
  <2>1. Translator!Init
    BY <1>5 DEF Init
  <2> QED
    BY <2>1, TranslatorInvariantInit
<1>6. ASSUME part = "panel" PROVE PanelInvariant
  <2>1. Panel!Init
    BY <1>6 DEF Init
  <2> QED
    BY <2>1, PanelInvariantInit
<1>7. ASSUME part = "helper" PROVE HelperInvariant
  <2>1. Helper!Init
    BY <1>7 DEF Init
  <2> QED
    BY <2>1, HelperInvariantInit
<1> QED
  BY <1>1, <1>2, <1>3, <1>4, <1>5, <1>6, <1>7 DEF PartsInvariant

\* A step is one of the component of the behaviour, or leaves it alone.
LEMMA StepIsOfPart ==
  ASSUME [Next]_vars
  PROVE  /\ part' = part
         /\ part = "accounts" => [Accounts!Next]_(Accounts!vars)
         /\ part = "favorites" => [Favorites!Next]_(Favorites!vars)
         /\ part = "linked" => [Linked!Next]_(Linked!vars)
         /\ part = "settings" => [Settings!Next]_(Settings!vars)
         /\ part = "translator" => [Translator!Next]_(Translator!vars)
         /\ part = "panel" => [Panel!Next]_(Panel!vars)
         /\ part = "helper" => [Helper!Next]_(Helper!vars)
<1>1. CASE Next
  BY <1>1 DEF Next
<1>2. CASE UNCHANGED vars
  <2>1. part' = part
    BY <1>2 DEF vars
  <2>2. UNCHANGED Accounts!vars
    BY <1>2 DEF vars, accountsVars, Accounts!vars
  <2>3. UNCHANGED Favorites!vars
    BY <1>2 DEF vars, favoritesVars, Favorites!vars
  <2>4. UNCHANGED Linked!vars
    BY <1>2 DEF vars, linkedVars, Linked!vars
  <2>5. UNCHANGED Settings!vars
    BY <1>2 DEF vars, settingsVars, Settings!vars, Settings!view, Settings!layout
  <2>6. UNCHANGED Translator!vars
    BY <1>2 DEF vars, translatorVars, Translator!vars
  <2>7. UNCHANGED Panel!vars
    BY <1>2 DEF vars, panelVars, Panel!vars
  <2>8. UNCHANGED Helper!vars
    BY <1>2 DEF vars, helperVars, Helper!vars, Helper!queue
  <2> QED
    BY <2>1, <2>2, <2>3, <2>4, <2>5, <2>6, <2>7, <2>8
<1> QED
  BY <1>1, <1>2

\* So every step keeps the invariant.
LEMMA PartsInvariantStep == ASSUME PartsInvariant, [Next]_vars PROVE PartsInvariant'
<1>1. ASSUME part = "accounts" PROVE Accounts!IdentityInvariant'
  BY <1>1, StepIsOfPart, PartsAssumption, Accounts!IdentityInvariantStep DEF PartsInvariant
<1>2. ASSUME part = "favorites" PROVE OutboxInvariant'
  BY <1>2, StepIsOfPart, PartsAssumption, OutboxInvariantStep DEF PartsInvariant
<1>3. ASSUME part = "linked" PROVE StoreInvariant'
  BY <1>3, StepIsOfPart, PartsAssumption, StoreInvariantStep DEF PartsInvariant
<1>4. ASSUME part = "settings" PROVE SettingsInvariant'
  BY <1>4, StepIsOfPart, SettingsInvariantStep DEF PartsInvariant
<1>5. ASSUME part = "translator" PROVE TranslatorInvariant'
  BY <1>5, StepIsOfPart, TranslatorStep DEF PartsInvariant, TranslatorKept
<1>6. ASSUME part = "panel" PROVE PanelInvariant'
  BY <1>6, StepIsOfPart, PanelInvariantStep DEF PartsInvariant
<1>7. ASSUME part = "helper" PROVE HelperInvariant'
  BY <1>7, StepIsOfPart, HelperInvariantStep DEF PartsInvariant
<1> QED
  BY <1>1, <1>2, <1>3, <1>4, <1>5, <1>6, <1>7, StepIsOfPart DEF PartsInvariant

\* The invariant holds in every state of the system.
THEOREM PartsInvariantHolds == FairSpec => []PartsInvariant
<1>1. Init => PartsInvariant
  BY PartsInvariantInit
<1>2. PartsInvariant /\ [Next]_vars => PartsInvariant'
  BY PartsInvariantStep
<1> QED
  BY <1>1, <1>2, PTL DEF FairSpec

-----------------------------------------------------------------------------
(* What the run checks. *)

\* While a revoked token is left anywhere, no crash or loss of power can hide that the disconnect is
\* unfinished; it is not handed out; and an answered disconnect left nothing behind (repository_identity.rs).
THEOREM CredentialsAreSafeHolds == FairSpec => []CredentialsAreSafe
<1>1. PartsInvariant => CredentialsAreSafe
  BY DEF PartsInvariant, CredentialsAreSafe, Accounts!IdentityInvariant, Accounts!StoresAreSafe, Accounts!CallIsSafe
<1> QED
  BY <1>1, PartsInvariantHolds, PTL

\* A favorite with a receipt stays in the queue until Vocab has carried it out, and nothing is in it twice
\* (vocab_outbox.rs); an acknowledged draft of a linked document is in the journal until it is saved, and what a
\* save replaced is in the archive (LinkedDocumentStore).
THEOREM CapturesAreKeptHolds == FairSpec => []CapturesAreKept
<1>1. ASSUME StoreInvariant PROVE Linked!TypeOK /\ Linked!ReplacedIsRecoverable /\ Linked!DraftsAreDurable
  BY <1>1 DEF StoreInvariant, Linked!TypeOK, JournalMatchesSession, Linked!DraftsAreDurable
<1>2. ASSUME OutboxInvariant PROVE Favorites!TypeOK /\ Favorites!OneOutstanding /\ Favorites!NothingIsLost
  BY <1>2 DEF OutboxInvariant
<1>3. PartsInvariant => CapturesAreKept
  BY <1>1, <1>2 DEF PartsInvariant, CapturesAreKept
<1> QED
  BY <1>3, PartsInvariantHolds, PTL

\* No window's update undoes another's, and a window shows what its user changed last until that is stored
\* (settingsDatabase, useLayoutPreferences).
THEOREM SettingsAreSoundHolds == FairSpec => []SettingsAreSound
<1>1. PartsInvariant => SettingsAreSound
  BY SettingsInvariantSuffices DEF PartsInvariant, SettingsAreSound
<1> QED
  BY <1>1, PartsInvariantHolds, PTL

\* The rows of the caption window are of the session that is selected, it is busy while a command runs and no
\* second one starts, and what is listened to is what was chosen (CaptionPanel); a segment is tried three times at
\* most, and the loop works on one that is not translated, under the lease its row has (CaptionTranslator); a helper
\* answers all it accepts, once and in order, unless it failed, and says truly why it ended (RecognitionQueue).
THEOREM PanelsAreSoundHolds == FairSpec => []PanelsAreSound
<1>1. PartsInvariant => PanelsAreSound
  BY TranslatorInvariantSuffices, PanelInvariantSuffices, HelperInvariantSuffices DEF PartsInvariant, PanelsAreSound
<1> QED
  BY <1>1, PartsInvariantHolds, PTL

\* The credential of the account that is shown is only deleted for a user who asked for it; a lease that lasts
\* is given to nobody else and no translation is written over; no window goes back to older settings; and a
\* draft is only saved over the version it was made from, and leaves the journal then or for its successor.
THEOREM WorkStepsAreSafeHolds == FairSpec => WorkStepsAreSafe
<1>1. ASSUME PartsInvariant, [Next]_vars
      PROVE  [/\ part = "accounts" /\ ~Accounts!HasFallback => \A p \in Accounts!Providers :
                   keychain[p] # None /\ keychain'[p] = None /\ folder.account = p => asked
              /\ part = "translator" => Translator!LeasesLast
              /\ part = "settings" => \A w \in Windows : cached'[w] >= cached[w]
              /\ part = "linked" => Linked!StoreStepsAreSafe]_vars
  <2>1. ASSUME part = "accounts", ~Accounts!HasFallback, NEW p \in Accounts!Providers, keychain[p] # None, keychain'[p] = None
        PROVE  asked
    BY <1>1, <2>1, StepIsOfPart, PartsAssumption, Accounts!AccountsAreKeptStep DEF PartsInvariant
  <2>2. part = "translator" => Translator!LeasesLast
    BY <1>1, StepIsOfPart, TranslatorStep DEF PartsInvariant, TranslatorKept
  <2>3. part = "settings" => \A w \in Windows : cached'[w] >= cached[w]
    BY <1>1, StepIsOfPart, RevisionsGrowStep DEF PartsInvariant
  <2>4. part = "linked" => Linked!StoreStepsAreSafe
    BY <1>1, StepIsOfPart, PartsAssumption, LinkedSafeStep DEF PartsInvariant
  <2> QED
    BY <2>1, <2>2, <2>3, <2>4
<1> QED
  BY <1>1, PartsInvariantHolds, PTL DEF FairSpec, WorkStepsAreSafe
=============================================================================

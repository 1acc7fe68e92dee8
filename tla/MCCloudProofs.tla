---------------------------- MODULE MCCloudProofs ----------------------------
(***************************************************************************)
(* Theorems about the system of MCCloud, for any values of its constants   *)
(* and under the names its run checks: the commands of a window for Cloud  *)
(* Sync (RepositoryWorkflow) and the tree of files they change             *)
(* (WorkspaceTree), one after the other.  What CloudSync promises is       *)
(* proved in CloudSyncProofs.                                              *)
(***************************************************************************)
EXTENDS MCCloud, FiniteSetTheorems, SequenceTheorems, TLAPS

-----------------------------------------------------------------------------
(* The commands of a window for Cloud Sync. *)

Kinds == {"identity", "dialog", "connect", "disconnect", "link", "refresh", "sync"}
Steps == {"account", "binding", "choose", "list", "connect", "disconnect", "link", "status", "save", "sync", "reload"}
Answers == {"yes", "no", "auth", "error", "cleanup", "conflicts", "pending"}
Flows == [kind : Kinds, number : Int, scope : Nat, root : Workspaces \cup {None}, step : Steps,
          answer : Answers \cup {None}, memo : Answers \cup {"none", None}]
Ui == [dialog : {"none", "connect", "link", "status", "operation"}, status : Workspaces \cup {None},
       root : Workspaces \cup {None}, listed : BOOLEAN, busy : BOOLEAN, syncing : BOOLEAN,
       operation : {"idle", "busy", "success", "error"}, request : Nat]
Identity == [account : BOOLEAN, cleanup : BOOLEAN, binding : Workspaces \cup {None}]
Store == [connected : BOOLEAN, cleanup : BOOLEAN, bindings : SUBSET Workspaces]

WindowTyped ==
  /\ workspace \in Workspaces \cup {None} /\ scope \in Nat /\ switches \in Nat
  /\ scope >= 1 /\ scope + switches = MaxSwitches + 1
  /\ identity \in Identity /\ ui \in Ui /\ native \in Store
  /\ fresh \in BOOLEAN /\ stale \in BOOLEAN /\ late \in BOOLEAN /\ broken \in BOOLEAN /\ commands \in Int

\* What a flow of each kind waits for.
StepFits(t) ==
  /\ t.kind = "identity" => t.step \in {"account", "binding"}
  /\ t.kind = "dialog" => t.step \in {"choose", "list"}
  /\ t.kind = "connect" => t.step \in {"connect", "choose", "list"}
  /\ t.kind = "disconnect" => t.step = "disconnect"
  /\ t.kind = "link" => t.step \in {"link", "status"} /\ t.root # None
  /\ t.kind = "refresh" => t.step \in {"account", "binding", "list", "status"}
  /\ t.kind = "sync" => t.step \in {"account", "binding", "list", "save", "sync", "reload"}
  /\ t.step = "choose" => t.root = None

\* What its calls may answer at all.
Answerable(t) ==
  /\ t.step \in {"account", "binding"} => t.answer \in {None, "yes", "no", "error", "cleanup"}
  /\ t.step = "choose" => t.answer = None

\* What they answer when none fails.
AnswerFits(t) ==
  /\ t.step \in {"account", "binding"} => t.answer \in {None, "yes", "no"}
  /\ t.step \in {"connect", "disconnect"} => t.answer \in {None, "yes"}
  /\ t.step = "list" => t.answer \in {None, "yes", "no", "auth"}
  /\ t.step \in {"link", "status", "save"} => t.answer \in {None, "yes", "error"}

\* A flow of the open workspace.
RootFits(t) ==
  /\ t.scope <= scope
  /\ Repository!Active(t) /\ t.kind \notin {"link", "disconnect"} => t.root = workspace

\* No call failed, and flows that change the account or a binding kept to themselves.
Sound == ~stale /\ ~broken

\* Such a call was carried out, which the window has not heard of.
Called(kinds) == \E c \in tasks : c.kind \in kinds /\ c.step = c.kind /\ c.answer = "yes"

AccountTold(t) == (t.answer = "yes") <=> native.connected
BindingTold(t) == t.answer # None => ((t.answer = "yes") <=> workspace \in native.bindings)

\* What a flow was told is still so, and the window knows what it has found.
ReadingKnows(t) ==
  t.kind = "identity" /\ Repository!Active(t) /\ fresh =>
    /\ ~Called({"connect", "disconnect"}) =>
         /\ t.step = "account" /\ t.answer # None => AccountTold(t)
         /\ t.step = "binding" => ((t.memo = "yes") <=> native.connected)
    /\ ~Called({"link"}) /\ t.step = "binding" => BindingTold(t)
ContextKnows(t) ==
  t.kind \in {"refresh", "sync"} /\ Repository!Active(t) =>
    /\ t.step = "account" /\ t.answer # None => AccountTold(t)
    /\ t.step # "account" => native.connected /\ identity.account
    /\ t.step = "binding" => BindingTold(t)
    /\ t.step \in {"status", "save", "sync", "reload"} => workspace \in native.bindings
    /\ t.step = "status" => t.answer \in {None, "yes"}
ListKnows(t) ==
  t.step = "list" /\ Repository!Active(t) /\ t.answer # None =>
    /\ t.answer = "auth" <=> ~native.connected
    /\ t.answer # "auth" => BindingTold(t)
ChangeKnows(t) ==
  /\ t.kind \in Repository!Changes => Repository!Active(t)
  /\ t.kind \in {"dialog", "link"} /\ Repository!Active(t) /\ native.connected => identity.account
  /\ t.kind = "connect" /\ (t.step # "connect" \/ t.answer = "yes") => native.connected
  /\ t.kind = "connect" /\ t.step # "connect" => identity.account
  /\ t.kind = "disconnect" /\ t.answer = "yes" => ~native.connected
  /\ t.kind = "link" /\ t.step = "link" /\ t.answer = "yes" => native.connected /\ t.root \in native.bindings
Knows(t) == ReadingKnows(t) /\ ContextKnows(t) /\ ListKnows(t) /\ ChangeKnows(t)

\* A flow that changes the account or a binding is alone.
Apart == \A c, t \in tasks : c.kind \in Repository!Changes /\ Repository!Active(t) /\ t.kind # "identity" => t = c

\* The identity shown is the stored one, or a flow is about to find that it is not.
BeingRead == fresh /\ \E r \in tasks : r.kind = "identity" /\ Repository!Active(r)
AccountFits ==
  (identity.account <=> native.connected) \/ BeingRead \/ Called({"connect", "disconnect"})
BeingBound ==
  \E t \in tasks : \/ t.kind \in {"connect", "disconnect"}
                   \/ Repository!Active(t) /\ t.kind \in {"refresh", "sync"} /\ t.step \in {"binding", "list"}
BindingFits ==
  \/ ~native.connected
  \/ identity.binding # None <=> workspace \in native.bindings
  \/ BeingRead \/ Called({"link"}) \/ BeingBound

SyncFits ==
  /\ \A s, t \in tasks : s.kind = "sync" /\ t.kind = "sync" => s = t
  /\ ui.syncing <=> \E s \in tasks : s.kind = "sync"

NoCleanup == ~broken => ~native.cleanup /\ ~identity.cleanup

FlowFits(t) == t \in Flows /\ StepFits(t) /\ Answerable(t) /\ RootFits(t) /\ (~broken => AnswerFits(t))

RepositoryInvariant ==
  /\ WindowTyped /\ NoCleanup /\ Repository!ReadingsStay /\ SyncFits
  /\ \A t \in tasks : FlowFits(t) /\ (Sound => Knows(t))
  /\ Sound => Apart /\ AccountFits /\ BindingFits

(* Steps of one flow. *)

\* A flow goes on, or ends.
Becomes(t, S) ==
  /\ tasks' = (tasks \ {t}) \cup S /\ UNCHANGED <<workspace, scope>>
  /\ \A u \in S : FlowFits(u)' /\ u.kind = t.kind /\ u.scope = t.scope
  /\ \A u, w \in S : u = w

\* What others know stays so.
LEMMA OthersKnow ==
  ASSUME NEW o, Knows(o), UNCHANGED <<workspace, scope>>,
         native'.connected <=> native.connected, native'.bindings = native.bindings,
         fresh' => fresh,
         \/ native.connected /\ identity.account => identity'.account
         \/ o.kind = "identity" \/ ~Repository!Active(o) \/ (o.kind \in {"connect", "disconnect"} /\ o.step = o.kind),
         fresh' /\ Called({"connect", "disconnect"}) => Called({"connect", "disconnect"})',
         fresh' /\ Called({"link"}) => Called({"link"})'
  PROVE  Knows(o)'
<1> USE DEF Repository!Active, AccountTold, BindingTold
<1>1. ReadingKnows(o)'
  <2> HIDE DEF Repository!Active
  <2>1. SUFFICES ASSUME o.kind = "identity", Repository!Active(o)', fresh'
                 PROVE  /\ ~Called({"connect", "disconnect"})' =>
                             /\ o.step = "account" /\ o.answer # None => AccountTold(o)'
                             /\ o.step = "binding" => ((o.memo = "yes") <=> native'.connected)
                        /\ ~Called({"link"})' /\ o.step = "binding" => BindingTold(o)'
    BY DEF ReadingKnows
  <2>2. Repository!Active(o) /\ fresh
    BY <2>1 DEF Repository!Active
  <2> QED BY <2>1, <2>2 DEF Knows, ReadingKnows
<1>2. ContextKnows(o)'
  BY DEF Knows, ContextKnows
<1>3. ListKnows(o)'
  BY DEF Knows, ListKnows
<1>4. ChangeKnows(o)'
  BY DEF Knows, ChangeKnows, Repository!Changes
<1> QED BY <1>1, <1>2, <1>3, <1>4 DEF Knows

\* A sync is alone, and the window knows whether there is one.
LEMMA SyncStays ==
  ASSUME SyncFits, NEW t \in tasks, NEW S, Becomes(t, S), ui'.syncing <=> (ui.syncing /\ ~(t.kind = "sync" /\ S = {}))
  PROVE  SyncFits'
<1>1. CASE t.kind = "sync" /\ S = {}
  <2>1. \A s \in tasks' : s \in tasks /\ s # t
    BY <1>1 DEF Becomes
  <2>2. \A s \in tasks' : s.kind # "sync"
    BY <1>1, <2>1 DEF SyncFits
  <2> QED BY <1>1, <2>2 DEF SyncFits
<1>2. CASE t.kind = "sync" /\ S # {}
  <2>1. PICK u \in S : u.kind = "sync"
    BY <1>2 DEF Becomes
  <2>2. \A s \in tasks' : s.kind = "sync" => s = u
    BY <1>2, <2>1 DEF Becomes, SyncFits
  <2>3. u \in tasks'
    BY <2>1 DEF Becomes
  <2>4. ui.syncing
    BY <1>2 DEF SyncFits
  <2> QED BY <1>2, <2>1, <2>2, <2>3, <2>4 DEF SyncFits
<1>3. CASE t.kind # "sync"
  <2>1. \A s : s.kind = "sync" => (s \in tasks' <=> s \in tasks)
    BY <1>3 DEF Becomes
  <2> QED BY <1>3, <2>1 DEF SyncFits
<1> QED BY <1>1, <1>2, <1>3

\* A flow that changes the account or a binding stays alone.
LEMMA ApartStays ==
  ASSUME Apart, NEW t \in tasks, NEW S, Becomes(t, S)
  PROVE  Apart'
<1>1. SUFFICES ASSUME NEW c \in tasks', NEW o \in tasks', c.kind \in Repository!Changes, Repository!Active(o)', o.kind # "identity"
               PROVE  o = c
  BY DEF Apart
<1>2. Apart
  OBVIOUS
<1>3. PICK d \in tasks : d.kind = c.kind /\ (d = c \/ (d = t /\ c \in S))
  BY DEF Becomes
<1>4. PICK p \in tasks : p.kind = o.kind /\ p.scope = o.scope /\ (p = o \/ (p = t /\ o \in S))
  BY DEF Becomes
<1>5. Repository!Active(p)
  BY <1>1, <1>4 DEF Repository!Active, Becomes
<1>6. p = d
  BY <1>1, <1>2, <1>3, <1>4, <1>5 DEF Apart
<1>7. o \in S <=> c \in S
  <2>1. c \in S \/ c # t
    BY DEF Becomes
  <2>2. o \in S \/ o # t
    BY DEF Becomes
  <2>3. ASSUME c \in S, o \notin S PROVE FALSE
    <3>1. p = o /\ o # t
      BY <1>4, <2>2, <2>3
    <3>2. d = c /\ d # t
      BY <1>3, <1>6, <3>1
    <3> QED BY <1>6, <2>3, <3>1, <3>2
  <2>4. ASSUME o \in S, c \notin S PROVE FALSE
    <3>1. d = c /\ c # t
      BY <1>3, <2>1, <2>4
    <3>2. p = o /\ p # t
      BY <1>4, <1>6, <3>1
    <3> QED BY <1>6, <2>4, <3>1, <3>2
  <2> QED BY <2>3, <2>4
<1>8. CASE o \in S
  BY <1>7, <1>8 DEF Becomes
<1>9. CASE o \notin S
  BY <1>3, <1>4, <1>6, <1>7, <1>9
<1> QED BY <1>8, <1>9

\* A step of one flow that leaves the store keeps the invariant if these are seen to.
LEMMA FlowKeeps ==
  ASSUME RepositoryInvariant, NEW t \in tasks, NEW S, Becomes(t, S), WindowTyped',
         UNCHANGED <<broken, native>>, stale => stale',
         NoCleanup', Repository!ReadingsStay', ui'.syncing <=> (ui.syncing /\ ~(t.kind = "sync" /\ S = {})),
         Sound' => /\ fresh' => fresh
                   /\ native.connected /\ identity.account => identity'.account \/ Called({"connect", "disconnect"})
                   /\ fresh' /\ Called({"connect", "disconnect"}) => Called({"connect", "disconnect"})'
                   /\ fresh' /\ Called({"link"}) => Called({"link"})'
                   /\ \A u \in S : Knows(u)'
                   /\ AccountFits' /\ BindingFits'
  PROVE  RepositoryInvariant'
<1>1. SyncFits'
  BY SyncStays DEF RepositoryInvariant
<1>2. Sound' => Sound
  BY DEF Sound, RepositoryInvariant, WindowTyped
<1>3. \A o \in tasks' : FlowFits(o)'
  <2>1. \A o \in S : FlowFits(o)'
    BY DEF Becomes
  <2>2. \A o \in tasks : FlowFits(o)'
    BY DEF Becomes, RepositoryInvariant, FlowFits, RootFits, Repository!Active
  <2> QED BY <2>1, <2>2 DEF Becomes
<1>4. ASSUME Sound', NEW o \in tasks' PROVE Knows(o)'
  <2>1. CASE o \in S
    BY <1>4, <2>1
  <2>2. CASE o \in tasks
    <3>1. Knows(o)
      BY <1>2, <1>4, <2>2 DEF RepositoryInvariant
    <3>2. UNCHANGED <<workspace, scope>> /\ (native'.connected <=> native.connected) /\ native'.bindings = native.bindings
      BY DEF Becomes
    <3>3. \/ native.connected /\ identity.account => identity'.account
          \/ o.kind = "identity" \/ ~Repository!Active(o) \/ (o.kind \in {"connect", "disconnect"} /\ o.step = o.kind)
      <4>1. SUFFICES ASSUME Called({"connect", "disconnect"}), o.kind # "identity", Repository!Active(o)
                     PROVE  o.kind \in {"connect", "disconnect"} /\ o.step = o.kind
        BY <1>4
      <4>2. PICK c \in tasks : c.kind \in {"connect", "disconnect"} /\ c.step = c.kind
        BY <4>1 DEF Called
      <4>3. o = c
        BY <1>2, <1>4, <2>2, <4>1, <4>2 DEF RepositoryInvariant, Apart, Repository!Changes
      <4> QED BY <4>2, <4>3
    <3> QED BY <1>4, <3>1, <3>2, <3>3, OthersKnow
  <2> QED BY <2>1, <2>2 DEF Becomes
<1>5. Sound' => Apart'
  BY <1>2, ApartStays DEF RepositoryInvariant
<1> QED BY <1>1, <1>3, <1>4, <1>5 DEF RepositoryInvariant
(* What the window shows. *)

\* The states of the dialogs that the steps make from others.
LEMMA UiFacts ==
  ASSUME NEW u \in Ui
  PROVE  /\ Repository!Started(u) \in Ui /\ Repository!Started(u).status = u.status /\ (Repository!Started(u).syncing <=> u.syncing)
         /\ Repository!Refused(u) \in Ui /\ Repository!Refused(u).status = u.status /\ (Repository!Refused(u).syncing <=> u.syncing)
         /\ Repository!Left(u) \in Ui /\ Repository!Left(u).status = None /\ (Repository!Left(u).syncing <=> u.syncing)
         /\ \A r \in Workspaces \cup {None} :
              Repository!ListingUi(u, r) \in Ui /\ Repository!ListingUi(u, r).status = u.status /\ (Repository!ListingUi(u, r).syncing <=> u.syncing)
<1>1. Repository!Started(u) \in Ui /\ Repository!Started(u).status = u.status /\ (Repository!Started(u).syncing <=> u.syncing)
  BY DEF Ui, Repository!Started
<1>2. Repository!Refused(u) \in Ui /\ Repository!Refused(u).status = u.status /\ (Repository!Refused(u).syncing <=> u.syncing)
  BY DEF Ui, Repository!Refused
<1>3. Repository!Left(u) \in Ui /\ Repository!Left(u).status = None /\ (Repository!Left(u).syncing <=> u.syncing)
  BY DEF Ui, Repository!Left
<1>4. ASSUME NEW r \in Workspaces \cup {None}
      PROVE  Repository!ListingUi(u, r) \in Ui /\ Repository!ListingUi(u, r).status = u.status /\ (Repository!ListingUi(u, r).syncing <=> u.syncing)
  BY DEF Ui, Repository!ListingUi
<1> QED BY <1>1, <1>2, <1>3, <1>4

\* A flow that ends, or stops at a status it could not read.
LEMMA IdleFacts ==
  ASSUME ui \in Ui, scope \in Nat, NEW t \in Flows
  PROVE  /\ Repository!Idle(t) \in Ui /\ Repository!Idle(t).status = ui.status /\ (Repository!Idle(t).syncing <=> (ui.syncing /\ t.kind # "sync"))
         /\ Repository!Stops(t) \in Ui /\ Repository!Stops(t).status = ui.status /\ (Repository!Stops(t).syncing <=> (ui.syncing /\ t.kind # "sync"))
<1>1. t.scope \in Nat
  BY DEF Flows
<1>2. Repository!Idle(t) \in Ui /\ Repository!Idle(t).status = ui.status /\ (Repository!Idle(t).syncing <=> (ui.syncing /\ t.kind # "sync"))
  <2>1. CASE t.kind = "sync"
    BY <1>1, <2>1 DEF Ui, Repository!Idle
  <2>2. CASE t.kind = "refresh"
    BY <1>1, <2>2 DEF Ui, Repository!Idle
  <2>3. CASE t.kind \notin {"sync", "refresh"}
    BY <1>1, <2>3 DEF Ui, Repository!Idle
  <2> QED BY <2>1, <2>2, <2>3
<1>3. /\ Repository!Refused(Repository!Idle(t)) \in Ui /\ Repository!Refused(Repository!Idle(t)).status = ui.status
      /\ Repository!Refused(Repository!Idle(t)).syncing <=> (ui.syncing /\ t.kind # "sync")
  BY <1>2, UiFacts
<1>4. LET v == [Repository!Idle(t) EXCEPT !.operation = "error", !.dialog = "none"]
      IN  v \in Ui /\ v.status = ui.status /\ (v.syncing <=> (ui.syncing /\ t.kind # "sync"))
  <2> HIDE DEF Repository!Idle
  <2> QED BY <1>2 DEF Ui
<1> QED BY <1>2, <1>3, <1>4 DEF Repository!Stops

(* The window continues a flow. *)

\* A flow that only waits for something else shows the others what it did.
LEMMA WitnessesStay ==
  ASSUME NEW t \in tasks, tasks \ {t} \subseteq tasks', UNCHANGED scope
  PROVE  /\ t.kind # "identity" \/ ~Repository!Active(t) \/ ~fresh => ((fresh' <=> fresh) /\ BeingRead => BeingRead')
         /\ \A kinds : ~(t.kind \in kinds /\ t.step = t.kind /\ t.answer = "yes") => (Called(kinds) => Called(kinds)')
         /\ /\ t.kind \notin {"connect", "disconnect"}
            /\ ~(Repository!Active(t) /\ t.kind \in {"refresh", "sync"} /\ t.step \in {"binding", "list"})
            => (BeingBound => BeingBound')
<1>1. ASSUME t.kind # "identity" \/ ~Repository!Active(t) \/ ~fresh, fresh' <=> fresh, BeingRead PROVE BeingRead'
  BY <1>1 DEF BeingRead, Repository!Active
<1>2. ASSUME NEW kinds, ~(t.kind \in kinds /\ t.step = t.kind /\ t.answer = "yes"), Called(kinds) PROVE Called(kinds)'
  BY <1>2 DEF Called
<1>3. ASSUME t.kind \notin {"connect", "disconnect"},
             ~(Repository!Active(t) /\ t.kind \in {"refresh", "sync"} /\ t.step \in {"binding", "list"}), BeingBound
      PROVE  BeingBound'
  BY <1>3 DEF BeingBound, Repository!Active
<1> QED BY <1>1, <1>2, <1>3

\* Where the identity stays what it was, it fits as it did.
LEMMA IdentityFits ==
  ASSUME AccountFits, BindingFits, UNCHANGED <<identity, native, workspace>>,
         BeingRead => BeingRead', BeingBound => BeingBound',
         \A kinds : Called(kinds) => Called(kinds)'
  PROVE  AccountFits' /\ BindingFits'
BY DEF AccountFits, BindingFits

\* The window's own variables.
LEMMA WindowStays ==
  ASSUME WindowTyped, Repository!World, identity' \in Identity, ui' \in Ui, fresh' \in BOOLEAN, stale' \in BOOLEAN, late' \in BOOLEAN
  PROVE  WindowTyped'
BY DEF WindowTyped, Repository!Flow, Repository!World, Repository!bounds

\* A flow that waits for the next call.
LEMMA NextStep ==
  ASSUME NEW t \in Flows, FlowFits(t), UNCHANGED <<workspace, scope, broken>>, NEW step \in Steps,
         StepFits([t EXCEPT !.step = step, !.answer = None])
  PROVE  /\ FlowFits([t EXCEPT !.step = step, !.answer = None])'
         /\ \A memo \in Answers \cup {"none", None} :
              FlowFits([t EXCEPT !.step = step, !.answer = None, !.memo = memo])'
<1>1. ASSUME NEW memo \in Answers \cup {"none", None}, NEW u,
             u = [t EXCEPT !.step = step, !.answer = None] \/ u = [t EXCEPT !.step = step, !.answer = None, !.memo = memo]
      PROVE  FlowFits(u)'
  <2>1. u \in Flows
    BY <1>1 DEF Flows
  <2>2. /\ u.kind = t.kind /\ u.scope = t.scope /\ u.root = t.root /\ u.step = step /\ u.answer = None
    BY <1>1 DEF Flows
  <2>3. StepFits(u)
    <3> DEFINE v == [t EXCEPT !.step = step, !.answer = None]
    <3>1. v.kind = u.kind /\ v.root = u.root /\ v.step = u.step
      BY <2>2 DEF Flows
    <3>2. StepFits(v)
      OBVIOUS
    <3> HIDE DEF v
    <3> QED BY <3>1, <3>2 DEF StepFits
  <2>4. Answerable(u) /\ AnswerFits(u)
    BY <2>2 DEF Answerable, AnswerFits
  <2>5. RootFits(u)'
    BY <2>2 DEF FlowFits, RootFits, Repository!Active
  <2> QED BY <2>1, <2>3, <2>4, <2>5 DEF FlowFits, StepFits, Answerable, AnswerFits
<1> QED BY <1>1 DEF Answers
\* A step that leaves the identity alone.
LEMMA QuietKeeps ==
  ASSUME RepositoryInvariant, NEW t \in tasks, NEW S, tasks' = (tasks \ {t}) \cup S, Repository!World,
         UNCHANGED <<identity, fresh, stale>>, ui' \in Ui, late' \in BOOLEAN, late => late',
         \A u \in S : FlowFits(u)' /\ u.kind = t.kind /\ u.scope = t.scope, \A u, w \in S : u = w,
         ui'.syncing <=> (ui.syncing /\ ~(t.kind = "sync" /\ S = {})),
         late' \/ ui'.status \in {None, workspace},
         Sound => /\ t.kind # "identity" \/ ~Repository!Active(t) \/ ~fresh
                  /\ t.answer = "yes" => ~(t.kind \in Repository!Changes /\ t.step = t.kind)
                  /\ BeingBound => BeingBound' \/ BindingFits'
                  /\ \A u \in S : Knows(u)'
  PROVE  RepositoryInvariant'
<1>1. Becomes(t, S)
  BY DEF Becomes, Repository!Flow, Repository!World
<1>2. /\ WindowTyped /\ NoCleanup /\ Repository!ReadingsStay
      /\ Sound => AccountFits /\ BindingFits
  BY DEF RepositoryInvariant
<1>3. WindowTyped'
  <2>1. identity' \in Identity /\ fresh' \in BOOLEAN /\ stale' \in BOOLEAN
    BY <1>2 DEF WindowTyped
  <2> QED BY <1>2, <2>1, WindowStays
<1>4. NoCleanup' /\ Repository!ReadingsStay'
  BY <1>2 DEF NoCleanup, Repository!ReadingsStay, Repository!Flow, Repository!World
<1>5. UNCHANGED <<broken, native, workspace, scope>>
  BY DEF Repository!Flow, Repository!World
<1>6. Sound' => Sound
  BY <1>5 DEF Sound
<1>7. ASSUME Sound'
      PROVE  /\ AccountFits' /\ BindingFits'
             /\ Called({"connect", "disconnect"}) => Called({"connect", "disconnect"})'
             /\ Called({"link"}) => Called({"link"})'
  <2>1. tasks \ {t} \subseteq tasks'
    BY <1>1 DEF Becomes
  <2>2. /\ (fresh' <=> fresh) /\ BeingRead => BeingRead'
        /\ Called({"connect", "disconnect"}) => Called({"connect", "disconnect"})'
        /\ Called({"link"}) => Called({"link"})'
    BY <1>5, <1>6, <1>7, <2>1, WitnessesStay DEF Repository!Changes
  <2> QED BY <1>2, <1>5, <1>6, <1>7, <2>2 DEF AccountFits, BindingFits
<1> QED BY <1>1, <1>3, <1>4, <1>5, <1>6, <1>7, FlowKeeps

\* A flow that ends so.
LEMMA QuietEnds ==
  ASSUME RepositoryInvariant, NEW t \in tasks, tasks' = tasks \ {t}, Repository!World,
         identity' = identity, fresh' = fresh, stale' = stale, ui' \in Ui, late' \in BOOLEAN, late => late',
         ui'.syncing <=> (ui.syncing /\ t.kind # "sync"), late' \/ ui'.status \in {None, workspace},
         Sound => /\ t.kind # "identity" \/ ~Repository!Active(t) \/ ~fresh
                  /\ t.answer = "yes" => ~(t.kind \in Repository!Changes /\ t.step = t.kind)
                  /\ BeingBound => BeingBound' \/ BindingFits'
  PROVE  RepositoryInvariant'
<1> DEFINE S == {}
<1>1. tasks' = (tasks \ {t}) \cup S
  OBVIOUS
<1>2. /\ \A u \in S : FlowFits(u)' /\ u.kind = t.kind /\ u.scope = t.scope
      /\ \A u, w \in S : u = w
      /\ \A u \in S : Knows(u)'
      /\ ui'.syncing <=> (ui.syncing /\ ~(t.kind = "sync" /\ S = {}))
  OBVIOUS
<1> HIDE DEF S
<1> QED BY <1>1, <1>2, QuietKeeps

\* And one that goes on.
LEMMA QuietGoes ==
  ASSUME RepositoryInvariant, NEW t \in tasks, NEW u, tasks' = (tasks \ {t}) \cup {u}, Repository!World,
         identity' = identity, fresh' = fresh, stale' = stale, ui' \in Ui, late' \in BOOLEAN, late => late',
         FlowFits(u)', u.kind = t.kind, u.scope = t.scope, ui'.syncing <=> ui.syncing,
         late' \/ ui'.status \in {None, workspace},
         Sound => /\ t.kind # "identity" \/ ~Repository!Active(t) \/ ~fresh
                  /\ t.answer = "yes" => ~(t.kind \in Repository!Changes /\ t.step = t.kind)
                  /\ BeingBound => BeingBound' \/ BindingFits'
                  /\ Knows(u)'
  PROVE  RepositoryInvariant'
<1> DEFINE S == {u}
<1>1. tasks' = (tasks \ {t}) \cup S /\ \A w, v \in S : w = v
  OBVIOUS
<1>2. \A w \in S : FlowFits(w)' /\ w.kind = t.kind /\ w.scope = t.scope
  OBVIOUS
<1>3. Sound => \A w \in S : Knows(w)'
  OBVIOUS
<1>4. ui'.syncing <=> (ui.syncing /\ ~(t.kind = "sync" /\ S = {}))
  OBVIOUS
<1> HIDE DEF S
<1> QED BY <1>1, <1>2, <1>3, <1>4, QuietKeeps

\* The reading of the identity.
LEMMA IdentityReturnsKeeps ==
  ASSUME RepositoryInvariant, NEW t \in tasks, Repository!IdentityReturns(t)
  PROVE  RepositoryInvariant'
<1>1. /\ WindowTyped /\ NoCleanup /\ Repository!ReadingsStay /\ FlowFits(t) /\ t \in Flows /\ t.kind = "identity"
      /\ Sound => Knows(t) /\ AccountFits /\ BindingFits
  BY DEF RepositoryInvariant, FlowFits, Repository!IdentityReturns
<1>2. Repository!World /\ UNCHANGED <<fresh, ui, stale, late>> /\ UNCHANGED <<workspace, scope, native, broken>>
  BY DEF Repository!IdentityReturns, Repository!Histories, Repository!Flow, Repository!World
<1>3. /\ ui' \in Ui /\ fresh' \in BOOLEAN /\ late' \in BOOLEAN /\ stale' \in BOOLEAN /\ (ui'.syncing <=> ui.syncing)
      /\ late' \/ ui'.status \in {None, workspace}
  BY <1>1, <1>2 DEF WindowTyped, Repository!ReadingsStay
<1>4. CASE ~Repository!Current(t) \/ (Repository!Current(t) /\ Repository!Failed(t) /\ t.answer # "cleanup")
  <2>1. tasks' = (tasks \ {t}) \cup {} /\ UNCHANGED identity
    BY <1>4 DEF Repository!IdentityReturns, Repository!Ends, Repository!Current
  <2>2. ASSUME Sound PROVE /\ ~Repository!Active(t) \/ ~fresh
                           /\ BeingBound => BeingBound'
    <3>1. ~Repository!Failed(t)
      BY <1>1, <2>2 DEF FlowFits, AnswerFits, StepFits, Sound, Repository!Failed, Repository!IdentityReturns
    <3>2. tasks \ {t} \subseteq tasks'
      BY <2>1
    <3> QED BY <1>1, <1>2, <1>4, <3>1, <3>2, WitnessesStay DEF Repository!Current
  <2>3. ~(t.kind \in Repository!Changes /\ t.step = t.kind)
    BY <1>1 DEF Repository!Changes
  <2>4. /\ tasks' = tasks \ {t} /\ identity' = identity /\ fresh' = fresh /\ stale' = stale /\ (late => late')
        /\ ui'.syncing <=> (ui.syncing /\ t.kind # "sync")
    BY <1>1, <1>2, <2>1
  <2> QED BY <1>2, <1>3, <2>2, <2>3, <2>4, QuietEnds
<1>5. CASE Repository!Current(t) /\ Repository!Failed(t) /\ t.answer = "cleanup"
  <2>1. tasks' = (tasks \ {t}) \cup {} /\ identity' = [account |-> FALSE, cleanup |-> TRUE, binding |-> None]
    BY <1>5 DEF Repository!IdentityReturns, Repository!Ends
  <2>2. Becomes(t, {})
    BY <1>2, <2>1 DEF Becomes
  <2>3. broken
    BY <1>1, <1>5 DEF FlowFits, AnswerFits, StepFits, Repository!IdentityReturns
  <2>4. identity' \in Identity /\ identity'.binding = None
    BY <2>1 DEF Identity
  <2>5. NoCleanup' /\ Repository!ReadingsStay' /\ ~Sound'
    BY <1>2, <1>3, <2>3, <2>4 DEF NoCleanup, Repository!ReadingsStay, Sound
  <2>6. WindowTyped'
    BY <1>1, <1>2, <1>3, <2>4, WindowStays
  <2> QED BY <1>1, <1>2, <1>3, <2>2, <2>5, <2>6, FlowKeeps
<1>6. CASE Repository!Current(t) /\ ~Repository!Failed(t) /\ t.step = "account" /\ t.root # None
  <2> DEFINE u == [t EXCEPT !.step = "binding", !.answer = None, !.memo = t.answer]
  <2>1. tasks' = (tasks \ {t}) \cup {u} /\ UNCHANGED identity
    BY <1>6 DEF Repository!IdentityReturns
  <2>2. /\ u.kind = "identity" /\ u.scope = t.scope /\ u.root = t.root /\ u.step = "binding"
        /\ u.answer = None /\ u.memo = t.answer
    BY <1>1 DEF Flows
  <2>3. FlowFits(u)'
    <3>1. StepFits([t EXCEPT !.step = "binding", !.answer = None])
      BY <1>1 DEF Flows, StepFits
    <3>2. t.answer \in Answers \cup {"none", None}
      BY <1>1 DEF Flows
    <3>3. "binding" \in Steps
      BY DEF Steps
    <3> QED BY <1>1, <1>2, <3>1, <3>2, <3>3, NextStep
  <2> HIDE DEF u
  <2>4. Becomes(t, {u})
    BY <1>1, <1>2, <2>1, <2>2, <2>3 DEF Becomes
  <2>5. BeingRead'
    <3>1. u \in tasks' /\ fresh' /\ u.kind = "identity" /\ Repository!Active(u)'
      BY <1>2, <1>6, <2>1, <2>2 DEF Repository!Current, Repository!Active
    <3> QED BY <3>1 DEF BeingRead
  <2>6. ASSUME NEW kinds, "identity" \notin kinds PROVE Called(kinds)' <=> Called(kinds)
    BY <1>1, <2>1, <2>2, <2>6 DEF Called
  <2>7. ASSUME Sound' PROVE Knows(u)' /\ AccountFits' /\ BindingFits'
    <3>1. Sound
      BY <1>2, <2>7 DEF Sound
    <3>2. ASSUME ~Called({"connect", "disconnect"}) PROVE (t.answer = "yes") <=> native.connected
      <4>1. ReadingKnows(t) /\ Repository!Active(t) /\ fresh /\ t.answer # None
        BY <1>1, <1>6, <3>1 DEF Knows, Repository!Current, Repository!IdentityReturns
      <4> QED BY <1>1, <1>6, <3>2, <4>1 DEF ReadingKnows, AccountTold
    <3>3. ReadingKnows(u)'
      BY <1>2, <2>2, <2>6, <3>2 DEF ReadingKnows, BindingTold
    <3>4. ContextKnows(u)' /\ ListKnows(u)' /\ ChangeKnows(u)'
      BY <2>2 DEF ContextKnows, ListKnows, ChangeKnows, Repository!Changes
    <3> QED BY <2>5, <3>3, <3>4 DEF Knows, AccountFits, BindingFits
  <2>8. NoCleanup' /\ Repository!ReadingsStay'
    BY <1>1, <1>2, <2>1 DEF NoCleanup, Repository!ReadingsStay
  <2>9. WindowTyped'
    <3>1. identity' \in Identity
      BY <1>1, <2>1 DEF WindowTyped
    <3> QED BY <1>1, <1>2, <1>3, <3>1, WindowStays
  <2>10. ui'.syncing <=> (ui.syncing /\ ~(t.kind = "sync" /\ {u} = {}))
    BY <1>2
  <2> QED BY <1>2, <2>1, <2>4, <2>6, <2>7, <2>8, <2>9, <2>10, FlowKeeps
<1>7. CASE Repository!Current(t) /\ ~Repository!Failed(t) /\ ~(t.step = "account" /\ t.root # None)
  <2>1. /\ tasks' = (tasks \ {t}) \cup {}
        /\ identity' = [account |-> "yes" = IF t.step = "account" THEN t.answer ELSE t.memo, cleanup |-> FALSE,
                        binding |-> IF t.step = "binding" /\ t.answer = "yes" THEN t.root ELSE None]
    BY <1>7 DEF Repository!IdentityReturns, Repository!Ends
  <2>2. Becomes(t, {})
    BY <1>2, <2>1 DEF Becomes
  <2>3. /\ identity' \in Identity /\ ~identity'.cleanup
        /\ identity'.account <=> "yes" = IF t.step = "account" THEN t.answer ELSE t.memo
        /\ identity'.binding = IF t.step = "binding" /\ t.answer = "yes" THEN t.root ELSE None
    BY <1>1, <2>1 DEF Identity, Flows
  <2>4. t.root = workspace
    BY <1>1, <1>7 DEF FlowFits, RootFits, Repository!Current
  <2>5. t.step \in {"account", "binding"}
    BY <1>1 DEF FlowFits, StepFits
  <2>6. NoCleanup' /\ Repository!ReadingsStay'
    BY <1>1, <1>2, <1>3, <2>3, <2>4 DEF NoCleanup, Repository!ReadingsStay
  <2>7. WindowTyped'
    BY <1>1, <1>2, <1>3, <2>3, WindowStays
  <2>8. ASSUME NEW kinds, "identity" \notin kinds PROVE Called(kinds)' <=> Called(kinds)
    BY <1>1, <2>1, <2>8 DEF Called
  <2>9. ASSUME Sound' PROVE /\ native.connected /\ identity.account => identity'.account \/ Called({"connect", "disconnect"})
                            /\ AccountFits' /\ BindingFits'
    <3>1. Sound
      BY <1>2, <2>9 DEF Sound
    <3>2. ReadingKnows(t) /\ Repository!Active(t) /\ fresh /\ t.answer # None
      BY <1>1, <1>7, <3>1 DEF Knows, Repository!Current, Repository!IdentityReturns
    <3>3. ASSUME ~Called({"connect", "disconnect"}) PROVE identity'.account <=> native.connected
      BY <1>1, <2>3, <2>5, <3>2, <3>3 DEF ReadingKnows, AccountTold
    <3>4. ASSUME ~Called({"link"}) PROVE identity'.binding # None <=> workspace \in native.bindings
      <4>1. None \notin native.bindings
        BY <1>1, PartsAssumption DEF WindowTyped, Store, Repository!WorkflowAssumption
      <4>2. CASE t.step = "binding"
        <5>1. (t.answer = "yes") <=> workspace \in native.bindings
          BY <1>1, <3>2, <3>4, <4>2 DEF ReadingKnows, BindingTold
        <5> QED BY <2>3, <2>4, <4>1, <4>2, <5>1
      <4>3. CASE t.step = "account"
        BY <1>7, <2>3, <2>4, <4>1, <4>3
      <4> QED BY <2>5, <4>2, <4>3
    <3> QED BY <1>2, <2>8, <3>3, <3>4 DEF AccountFits, BindingFits
  <2>10. ui'.syncing <=> (ui.syncing /\ ~(t.kind = "sync"))
    BY <1>1, <1>2
  <2> QED BY <1>2, <2>2, <2>6, <2>7, <2>8, <2>9, <2>10, FlowKeeps
<1> QED BY <1>4, <1>5, <1>6, <1>7
\* A step of the open workspace that changes the identity overtakes the reading.
LEMMA LoudKeeps ==
  ASSUME RepositoryInvariant, NEW t \in tasks, NEW S, tasks' = (tasks \ {t}) \cup S, Repository!World,
         Repository!Active(t), Repository!Overtakes(t), identity' \in Identity, ui' \in Ui, stale' \in BOOLEAN, late' \in BOOLEAN,
         stale => stale', late => late', ~broken => ~identity'.cleanup,
         \A u \in S : FlowFits(u)' /\ u.kind = t.kind /\ u.scope = t.scope, \A u, w \in S : u = w,
         ui'.syncing <=> (ui.syncing /\ ~(t.kind = "sync" /\ S = {})),
         stale' \/ identity'.binding \in {None, workspace}, late' \/ ui'.status \in {None, workspace},
         Sound /\ Sound' => /\ native.connected /\ identity.account => identity'.account
                            /\ identity'.account <=> native.connected
                            /\ BindingFits' /\ \A u \in S : Knows(u)'
  PROVE  RepositoryInvariant'
<1>1. Becomes(t, S)
  BY DEF Becomes, Repository!Flow, Repository!World
<1>2. /\ WindowTyped /\ NoCleanup /\ Repository!ReadingsStay
  BY DEF RepositoryInvariant
<1>3. UNCHANGED <<broken, native, workspace, scope>> /\ fresh' = FALSE
  BY DEF Repository!Flow, Repository!World, Repository!Overtakes
<1>4. WindowTyped'
  <2>1. fresh' \in BOOLEAN
    BY <1>3
  <2> QED BY <1>2, <2>1, WindowStays
<1>5. NoCleanup' /\ Repository!ReadingsStay'
  BY <1>2, <1>3 DEF NoCleanup, Repository!ReadingsStay
<1>6. Sound' => Sound
  BY <1>2, <1>3 DEF Sound, WindowTyped
<1>7. Sound' => AccountFits' /\ (native.connected /\ identity.account => identity'.account)
                /\ BindingFits' /\ \A u \in S : Knows(u)'
  BY <1>3, <1>6 DEF AccountFits
<1> QED BY <1>1, <1>3, <1>4, <1>5, <1>7, FlowKeeps

\* And one that ends with it.
LEMMA LoudEnds ==
  ASSUME RepositoryInvariant, NEW t \in tasks, tasks' = tasks \ {t}, Repository!World,
         Repository!Active(t), Repository!Overtakes(t), identity' \in Identity, ui' \in Ui, stale' = stale, late' = late,
         ~broken => ~identity'.cleanup, ui'.syncing <=> (ui.syncing /\ t.kind # "sync"),
         stale \/ identity'.binding \in {None, workspace}, late \/ ui'.status \in {None, workspace},
         Sound => /\ native.connected /\ identity.account => identity'.account
                  /\ identity'.account <=> native.connected
                  /\ BindingFits'
  PROVE  RepositoryInvariant'
<1> DEFINE S == {}
<1>1. tasks' = (tasks \ {t}) \cup S
  OBVIOUS
<1>2. /\ \A u \in S : FlowFits(u)' /\ u.kind = t.kind /\ u.scope = t.scope
      /\ \A u, w \in S : u = w
      /\ \A u \in S : Knows(u)'
      /\ ui'.syncing <=> (ui.syncing /\ ~(t.kind = "sync" /\ S = {}))
  OBVIOUS
<1>3. stale' \in BOOLEAN /\ late' \in BOOLEAN
  BY DEF RepositoryInvariant, WindowTyped
<1> HIDE DEF S
<1> QED BY <1>1, <1>2, <1>3, LoudKeeps

\* And one that goes on.
LEMMA LoudGoes ==
  ASSUME RepositoryInvariant, NEW t \in tasks, NEW u, tasks' = (tasks \ {t}) \cup {u}, Repository!World,
         Repository!Active(t), Repository!Overtakes(t), identity' \in Identity, ui' \in Ui, stale' \in BOOLEAN, late' \in BOOLEAN,
         stale => stale', late => late', ~broken => ~identity'.cleanup, ui'.syncing <=> ui.syncing,
         FlowFits(u)', u.kind = t.kind, u.scope = t.scope,
         stale' \/ identity'.binding \in {None, workspace}, late' \/ ui'.status \in {None, workspace},
         Sound /\ Sound' => /\ native.connected /\ identity.account => identity'.account
                            /\ identity'.account <=> native.connected
                            /\ BindingFits' /\ Knows(u)'
  PROVE  RepositoryInvariant'
<1> DEFINE S == {u}
<1>1. tasks' = (tasks \ {t}) \cup S /\ \A w, v \in S : w = v
  OBVIOUS
<1>2. \A w \in S : FlowFits(w)' /\ w.kind = t.kind /\ w.scope = t.scope
  OBVIOUS
<1>3. Sound /\ Sound' => \A w \in S : Knows(w)'
  OBVIOUS
<1>4. ui'.syncing <=> (ui.syncing /\ ~(t.kind = "sync" /\ S = {}))
  OBVIOUS
<1> HIDE DEF S
<1> QED BY <1>1, <1>2, <1>3, <1>4, LoudKeeps

\* What every flow brings to its return.
LEMMA AtReturn ==
  ASSUME RepositoryInvariant, NEW t \in tasks
  PROVE  /\ WindowTyped /\ NoCleanup /\ Repository!ReadingsStay /\ FlowFits(t) /\ t \in Flows /\ (ui.syncing <=> \E s \in tasks : s.kind = "sync")
         /\ Sound => Knows(t) /\ Apart /\ AccountFits /\ BindingFits
         /\ t.step \in Steps /\ t.kind \in Kinds /\ t.root \in Workspaces \cup {None} /\ t.scope \in Nat
         /\ ui \in Ui /\ scope \in Nat /\ identity \in Identity /\ fresh \in BOOLEAN /\ stale \in BOOLEAN /\ late \in BOOLEAN
         /\ identity.account \in BOOLEAN /\ identity.cleanup \in BOOLEAN /\ None \notin native.bindings
         /\ broken \/ ~identity.cleanup
         /\ Repository!Active(t) /\ t.kind \notin {"link", "disconnect"} => t.root = workspace
         /\ None \notin Answers
<1>1. /\ WindowTyped /\ NoCleanup /\ Repository!ReadingsStay /\ FlowFits(t) /\ t \in Flows /\ (ui.syncing <=> \E s \in tasks : s.kind = "sync")
      /\ Sound => Knows(t) /\ Apart /\ AccountFits /\ BindingFits
  BY DEF RepositoryInvariant, FlowFits, SyncFits
<1>2. t.step \in Steps /\ t.kind \in Kinds /\ t.root \in Workspaces \cup {None} /\ t.scope \in Nat
  BY <1>1 DEF Flows
<1>3. ui \in Ui /\ scope \in Nat /\ identity \in Identity /\ fresh \in BOOLEAN /\ stale \in BOOLEAN /\ late \in BOOLEAN
  BY <1>1 DEF WindowTyped
<1>4. identity.account \in BOOLEAN /\ identity.cleanup \in BOOLEAN
  BY <1>3 DEF Identity
<1>5. None \notin native.bindings /\ None \notin Answers
  BY <1>1, PartsAssumption DEF WindowTyped, Store, Repository!WorkflowAssumption, Answers
<1>6. broken \/ ~identity.cleanup
  BY <1>1 DEF NoCleanup, WindowTyped
<1>7. Repository!Active(t) /\ t.kind \notin {"link", "disconnect"} => t.root = workspace
  BY <1>1 DEF FlowFits, RootFits
<1> QED BY <1>1, <1>2, <1>3, <1>4, <1>5, <1>6, <1>7

\* A connect.
LEMMA ConnectReturnsKeeps ==
  ASSUME RepositoryInvariant, NEW t \in tasks, Repository!ConnectReturns(t)
  PROVE  RepositoryInvariant'
<1>1. /\ t.kind = "connect" /\ t.step = "connect" /\ t.answer # None /\ Repository!World /\ UNCHANGED <<stale, late>>
      /\ UNCHANGED <<workspace, scope, native, broken>>
  BY DEF Repository!ConnectReturns, Repository!Returns, Repository!Histories, Repository!Flow, Repository!World
<1>2. CASE Repository!Failed(t)
  <2>1. tasks' = tasks \ {t} /\ ui' = [ui EXCEPT !.dialog = "connect", !.busy = FALSE] /\ identity' = identity /\ fresh' = fresh
    BY <1>2 DEF Repository!ConnectReturns, Repository!Ends
  <2>2. ui' \in Ui /\ ui'.status = ui.status /\ (ui'.syncing <=> ui.syncing)
    BY <2>1, AtReturn DEF Ui
  <2>3. ~Sound
    BY <1>1, <1>2, AtReturn DEF FlowFits, AnswerFits, Sound, Repository!Failed
  <2> QED BY <1>1, <2>1, <2>2, <2>3, AtReturn, QuietEnds DEF Repository!ReadingsStay
<1>3. CASE ~Repository!Failed(t)
  <2> DEFINE step == IF t.root # None THEN "list" ELSE "choose"
             u == [t EXCEPT !.step = step, !.answer = None]
  <2>1. /\ tasks' = (tasks \ {t}) \cup {u} /\ identity' = Repository!Account(t, TRUE) /\ Repository!Overtakes(t)
        /\ ui' = IF t.root # None THEN Repository!ListingUi(ui, t.root) ELSE ui
    BY <1>3 DEF Repository!ConnectReturns, Repository!Listing, Repository!Goes
  <2>2. u.kind = "connect" /\ u.scope = t.scope /\ u.root = t.root /\ u.step = step /\ u.answer = None
    BY <1>1, AtReturn DEF Flows
  <2>3. FlowFits(u)'
    <3>1. step \in Steps
      BY DEF Steps
    <3>2. StepFits([t EXCEPT !.step = step, !.answer = None])
      BY <2>2 DEF StepFits
    <3> HIDE DEF step
    <3> QED BY <1>1, <3>1, <3>2, AtReturn, NextStep
  <2>4. ui' \in Ui /\ ui'.status = ui.status /\ (ui'.syncing <=> ui.syncing)
    BY <2>1, AtReturn, UiFacts
  <2>5. step \in {"list", "choose"}
    OBVIOUS
  <2> HIDE DEF u, step
  <2>7. late' \/ ui'.status \in {None, workspace}
    BY <1>1, <2>4, AtReturn DEF Repository!ReadingsStay
  <2>8. /\ stale' \in BOOLEAN /\ late' \in BOOLEAN /\ (stale => stale') /\ (late => late') /\ (broken \/ ~identity.cleanup)
        /\ stale \/ identity.binding \in {None, workspace}
    BY <1>1, AtReturn DEF Repository!ReadingsStay
  <2>9. CASE Repository!Active(t)
    <3>1. /\ identity' \in Identity /\ identity'.account /\ ~identity'.cleanup
          /\ identity'.binding = identity.binding
      BY <2>1, <2>9, AtReturn DEF Repository!Account, Identity
    <3>2. ASSUME Sound PROVE native.connected
      BY <1>1, <1>3, <3>2, AtReturn DEF Knows, ChangeKnows, FlowFits, AnswerFits, Sound, Repository!Failed
    <3>3. ASSUME Sound PROVE BindingFits' /\ Knows(u)'
      <4>1. u \in tasks'
        BY <2>1
      <4>2. BindingFits'
        BY <2>2, <4>1 DEF BindingFits, BeingBound
      <4>3. Knows(u)'
        BY <1>1, <2>2, <2>5, <2>9, <3>1, <3>2, <3>3
           DEF Knows, ReadingKnows, ContextKnows, ListKnows, ChangeKnows, Repository!Active
      <4> QED BY <4>2, <4>3
    <3> QED BY <1>1, <2>1, <2>2, <2>3, <2>4, <2>7, <2>8, <2>9, <3>1, <3>2, <3>3, LoudGoes
  <2>10. CASE ~Repository!Active(t)
    <3>1. identity' = identity /\ fresh' = fresh
      BY <2>1, <2>10, AtReturn DEF Repository!Account, Repository!Overtakes
    <3>2. ~Sound
      BY <1>1, <2>10, AtReturn DEF Knows, ChangeKnows, Repository!Changes
    <3> QED BY <1>1, <2>1, <2>2, <2>3, <2>4, <2>7, <2>8, <3>1, <3>2, QuietGoes
  <2> QED BY <2>9, <2>10
<1> QED BY <1>2, <1>3
\* The listing of the repositories.
LEMMA ListReturnsKeeps ==
  ASSUME RepositoryInvariant, NEW t \in tasks, Repository!ListReturns(t)
  PROVE  RepositoryInvariant'
<1>1. /\ t.step = "list" /\ t.kind \in {"dialog", "connect", "refresh", "sync"} /\ t.answer # None
      /\ tasks' = tasks \ {t} /\ Repository!World /\ stale' = stale /\ late' = late
      /\ UNCHANGED <<workspace, scope, native, broken>>
  BY DEF Repository!ListReturns, Repository!Returns, Repository!Ends, Repository!Histories, Repository!Flow, Repository!World
<1>2. ui' \in Ui /\ ui'.status = ui.status /\ (ui'.syncing <=> (ui.syncing /\ t.kind # "sync"))
  <2>1. Repository!Idle(t) \in Ui /\ Repository!Idle(t).status = ui.status /\ (Repository!Idle(t).syncing <=> (ui.syncing /\ t.kind # "sync"))
    BY AtReturn, IdleFacts
  <2>2. PICK some \in BOOLEAN :
          ui' = [Repository!Idle(t) EXCEPT !.busy = FALSE,
                   !.listed = IF t.answer = "auth" THEN FALSE ELSE IF t.answer = "error" THEN @ ELSE some,
                   !.dialog = IF t.answer = "auth" THEN "connect" ELSE @]
    BY DEF Repository!ListReturns
  <2> HIDE DEF Repository!Idle
  <2> QED BY <2>1, <2>2 DEF Ui
<1>3. /\ stale \in BOOLEAN /\ late \in BOOLEAN
      /\ broken \/ ~identity.cleanup
      /\ late \/ ui'.status \in {None, workspace}
      /\ stale \/ identity.binding \in {None, workspace}
  BY <1>2, AtReturn DEF Repository!ReadingsStay
<1>4. CASE Repository!Active(t) /\ t.answer # "error"
  <2>1. /\ Repository!Overtakes(t)
        /\ identity' = IF t.answer = "auth" THEN [account |-> FALSE, cleanup |-> FALSE, binding |-> None]
                       ELSE [identity EXCEPT !.binding = IF t.answer = "yes" THEN t.root ELSE None]
    BY <1>4 DEF Repository!ListReturns, Repository!Overtakes
  <2>2. t.root = workspace
    BY <1>1, <1>4, AtReturn
  <2>3. /\ identity' \in Identity
        /\ identity'.account <=> (t.answer # "auth" /\ identity.account)
        /\ identity'.cleanup <=> (t.answer # "auth" /\ identity.cleanup)
        /\ identity'.binding = IF t.answer = "yes" THEN workspace ELSE None
    BY <2>1, <2>2, AtReturn DEF Identity
  <2>4. ASSUME Sound PROVE /\ native.connected <=> t.answer # "auth"
                           /\ t.answer # "auth" => identity.account
                           /\ t.answer # "auth" => ((t.answer = "yes") <=> workspace \in native.bindings)
    <3>1. Knows(t)
      BY <2>4, AtReturn
    <3>2. native.connected <=> t.answer # "auth"
      BY <1>1, <1>4, <3>1 DEF Knows, ListKnows
    <3>3. t.answer # "auth" => ((t.answer = "yes") <=> workspace \in native.bindings)
      BY <1>1, <1>4, <3>1 DEF Knows, ListKnows, BindingTold
    <3>4. native.connected => identity.account
      BY <1>1, <1>4, <3>1 DEF Knows, ContextKnows, ChangeKnows
    <3> QED BY <3>2, <3>3, <3>4
  <2>5. ASSUME Sound PROVE /\ native.connected /\ identity.account => identity'.account
                           /\ identity'.account <=> native.connected
                           /\ BindingFits'
    BY <1>1, <2>3, <2>4, <2>5, AtReturn DEF BindingFits
  <2>6. (~broken => ~identity'.cleanup) /\ (stale \/ identity'.binding \in {None, workspace})
    BY <1>3, <2>3
  <2> QED BY <1>1, <1>2, <1>3, <1>4, <2>1, <2>3, <2>5, <2>6, LoudEnds
<1>5. CASE ~(Repository!Active(t) /\ t.answer # "error")
  <2>1. identity' = identity /\ fresh' = fresh
    BY <1>5, AtReturn DEF Repository!ListReturns
  <2>2. ASSUME Sound PROVE BeingBound => BeingBound'
    <3>1. t.answer # "error"
      BY <1>1, <2>2, AtReturn DEF FlowFits, AnswerFits, Sound, Answers
    <3>2. ~Repository!Active(t)
      BY <1>5, <3>1
    <3>3. t.kind # "connect"
      BY <2>2, <3>2, AtReturn DEF Knows, ChangeKnows, Repository!Changes
    <3> QED BY <1>1, <3>2, <3>3, WitnessesStay
  <2>3. t.kind # "identity" /\ ~(t.kind \in Repository!Changes /\ t.step = t.kind)
    BY <1>1 DEF Repository!Changes
  <2> QED BY <1>1, <1>2, <1>3, <2>1, <2>2, <2>3, QuietEnds
<1> QED BY <1>4, <1>5

\* A disconnect.
LEMMA DisconnectReturnsKeeps ==
  ASSUME RepositoryInvariant, NEW t \in tasks, Repository!DisconnectReturns(t)
  PROVE  RepositoryInvariant'
<1>1. /\ t.step = "disconnect" /\ t.kind = "disconnect" /\ t.answer # None
      /\ tasks' = tasks \ {t} /\ Repository!World /\ stale' = stale /\ late' = late /\ Repository!Overtakes(t)
      /\ UNCHANGED <<workspace, scope, native, broken>>
  BY DEF Repository!DisconnectReturns, Repository!Returns, Repository!Ends, Repository!Histories, Repository!Flow, Repository!World
<1>2. ui' \in Ui /\ ui'.status = ui.status /\ (ui'.syncing <=> ui.syncing)
  <2>1. Repository!Refused(ui) \in Ui /\ Repository!Refused(ui).status = ui.status /\ (Repository!Refused(ui).syncing <=> ui.syncing)
    BY AtReturn, UiFacts
  <2>2. ui' = IF Repository!Failed(t) THEN [Repository!Refused(ui) EXCEPT !.busy = FALSE]
              ELSE [ui EXCEPT !.root = None, !.dialog = "none", !.busy = FALSE]
    BY DEF Repository!DisconnectReturns
  <2> HIDE DEF Repository!Refused
  <2> QED BY <2>1, <2>2, AtReturn DEF Ui
<1>3. /\ stale \in BOOLEAN /\ late \in BOOLEAN
      /\ broken \/ ~identity.cleanup
      /\ late \/ ui'.status \in {None, workspace}
      /\ stale \/ identity.binding \in {None, workspace}
  BY <1>2, AtReturn DEF Repository!ReadingsStay
<1>4. CASE Repository!Active(t)
  <2>1. identity' = [account |-> FALSE, cleanup |-> Repository!Failed(t), binding |-> None]
    BY <1>4 DEF Repository!DisconnectReturns
  <2>2. identity' \in Identity /\ ~identity'.account /\ identity'.binding = None /\ (identity'.cleanup <=> Repository!Failed(t))
    <3>1. Repository!Failed(t) \in BOOLEAN
      BY DEF Repository!Failed
    <3>2. identity'.cleanup = Repository!Failed(t) /\ ~identity'.account /\ identity'.binding = None
      BY <2>1
    <3>3. identity' \in Identity
      BY <2>1, <3>1 DEF Identity
    <3> QED BY <3>1, <3>2, <3>3
  <2>3. ~broken => ~Repository!Failed(t) /\ t.answer = "yes"
    BY <1>1, AtReturn DEF FlowFits, AnswerFits, Repository!Failed
  <2>4. Sound => ~native.connected
    BY <1>1, <2>3, AtReturn DEF Knows, ChangeKnows, Sound
  <2>5. Sound => BindingFits'
    BY <1>1, <2>4 DEF BindingFits
  <2> QED BY <1>1, <1>2, <1>3, <1>4, <2>2, <2>3, <2>4, <2>5, LoudEnds
<1>5. CASE ~Repository!Active(t)
  <2>1. identity' = identity /\ fresh' = fresh
    BY <1>1, <1>5, AtReturn DEF Repository!DisconnectReturns, Repository!Overtakes
  <2>2. ~Sound
    BY <1>1, <1>5, AtReturn DEF Knows, ChangeKnows, Repository!Changes
  <2> QED BY <1>1, <1>2, <1>3, <2>1, <2>2, QuietEnds
<1> QED BY <1>4, <1>5

\* A link.
LEMMA LinkReturnsKeeps ==
  ASSUME RepositoryInvariant, NEW t \in tasks, Repository!LinkReturns(t)
  PROVE  RepositoryInvariant'
<1>1. /\ t.step = "link" /\ t.kind = "link" /\ t.answer # None /\ Repository!World /\ late' = late
      /\ UNCHANGED <<workspace, scope, native, broken>>
  BY DEF Repository!LinkReturns, Repository!Returns, Repository!Flow, Repository!World
<1>2. /\ stale \in BOOLEAN /\ late \in BOOLEAN
      /\ broken \/ ~identity.cleanup
      /\ late \/ ui.status \in {None, workspace}
      /\ stale \/ identity.binding \in {None, workspace}
  BY AtReturn DEF Repository!ReadingsStay
<1>3. CASE Repository!Failed(t)
  <2>1. tasks' = tasks \ {t} /\ ui' = [ui EXCEPT !.dialog = "link", !.busy = FALSE]
        /\ identity' = identity /\ fresh' = fresh /\ stale' = stale
    BY <1>3 DEF Repository!LinkReturns, Repository!Ends
  <2>2. ui' \in Ui /\ ui'.status = ui.status /\ (ui'.syncing <=> ui.syncing)
    BY <2>1, AtReturn DEF Ui
  <2>3. t.answer # "yes"
    BY <1>3 DEF Repository!Failed
  <2>4. BeingBound => BeingBound'
    BY <1>1, <2>1, WitnessesStay
  <2> QED BY <1>1, <1>2, <2>1, <2>2, <2>3, <2>4, QuietEnds
<1>4. CASE ~Repository!Failed(t)
  <2> DEFINE u == [t EXCEPT !.step = "status", !.answer = None]
  <2>1. /\ tasks' = (tasks \ {t}) \cup {u} /\ ui' = [ui EXCEPT !.root = None] /\ Repository!Overtakes(t)
        /\ identity' = IF Repository!Active(t) THEN [identity EXCEPT !.binding = t.root] ELSE identity
        /\ stale' = (stale \/ t.root # workspace)
    BY <1>4 DEF Repository!LinkReturns, Repository!Goes
  <2>2. u.kind = "link" /\ u.scope = t.scope /\ u.root = t.root /\ u.step = "status" /\ u.answer = None
    BY <1>1, AtReturn DEF Flows
  <2>3. FlowFits(u)'
    <3>1. "status" \in Steps
      BY DEF Steps
    <3>2. StepFits([t EXCEPT !.step = "status", !.answer = None])
      BY <1>1, <2>2, AtReturn DEF FlowFits, StepFits
    <3> QED BY <1>1, <3>1, <3>2, AtReturn, NextStep
  <2>4. ui' \in Ui /\ ui'.status = ui.status /\ (ui'.syncing <=> ui.syncing)
    BY <2>1, AtReturn DEF Ui
  <2>5. /\ stale' \in BOOLEAN /\ late' \in BOOLEAN /\ (stale => stale') /\ (late => late')
        /\ late' \/ ui'.status \in {None, workspace}
    BY <1>1, <1>2, <2>1, <2>4
  <2> HIDE DEF u
  <2>6. CASE Repository!Active(t)
    <3>1. /\ identity' \in Identity /\ identity'.account = identity.account
          /\ identity'.cleanup = identity.cleanup /\ identity'.binding = t.root
      BY <2>1, <2>6, AtReturn DEF Identity
    <3>2. (~broken => ~identity'.cleanup) /\ (stale' \/ identity'.binding \in {None, workspace})
      BY <1>2, <2>1, <3>1
    <3>3. ASSUME Sound, Sound'
          PROVE  /\ native.connected /\ identity.account => identity'.account
                 /\ identity'.account <=> native.connected
                 /\ BindingFits' /\ Knows(u)'
      <4>1. t.root = workspace
        BY <2>1, <3>3 DEF Sound
      <4>2. t.answer = "yes"
        BY <1>1, <1>4, <3>3, AtReturn DEF FlowFits, AnswerFits, Repository!Failed, Sound
      <4>3. native.connected /\ workspace \in native.bindings /\ identity.account
        BY <1>1, <2>6, <3>3, <4>1, <4>2, AtReturn DEF Knows, ChangeKnows
      <4>4. BindingFits'
        BY <1>1, <3>1, <4>1, <4>3, AtReturn DEF BindingFits
      <4>5. Knows(u)'
        BY <1>1, <2>2, <2>6, <3>1, <4>3 DEF Knows, ReadingKnows, ContextKnows, ListKnows, ChangeKnows,
           Repository!Active
      <4> QED BY <3>1, <4>3, <4>4, <4>5
    <3> QED BY <1>1, <2>1, <2>2, <2>3, <2>4, <2>5, <2>6, <3>1, <3>2, <3>3, LoudGoes
  <2>7. CASE ~Repository!Active(t)
    <3>1. identity' = identity /\ fresh' = fresh
      BY <2>1, <2>7, AtReturn DEF Repository!Overtakes
    <3>2. ~Sound /\ ~Sound'
      <4>1. ~Sound
        BY <1>1, <2>7, AtReturn DEF Knows, ChangeKnows, Repository!Changes
      <4> QED BY <1>1, <1>2, <2>1, <4>1 DEF Sound
    <3>3. Becomes(t, {u})
      BY <1>1, <2>1, <2>2, <2>3 DEF Becomes
    <3>4. WindowTyped'
      BY <1>1, <1>2, <2>4, <2>5, <3>1, AtReturn, WindowStays
    <3>5. NoCleanup' /\ Repository!ReadingsStay'
      BY <1>1, <1>2, <2>5, <3>1, AtReturn DEF NoCleanup, Repository!ReadingsStay
    <3>6. ui'.syncing <=> (ui.syncing /\ ~(t.kind = "sync" /\ {u} = {}))
      BY <2>4
    <3> QED BY <1>1, <2>5, <3>2, <3>3, <3>4, <3>5, <3>6, FlowKeeps
  <2> QED BY <2>6, <2>7
<1> QED BY <1>3, <1>4

\* The status after it.
LEMMA LinkedReturnsKeeps ==
  ASSUME RepositoryInvariant, NEW t \in tasks, Repository!LinkedReturns(t)
  PROVE  RepositoryInvariant'
<1>1. /\ t.step = "status" /\ t.kind = "link" /\ tasks' = tasks \ {t} /\ Repository!World
      /\ UNCHANGED <<workspace, scope, native, broken>>
      /\ identity' = identity /\ fresh' = fresh /\ stale' = stale
      /\ late' = (late \/ (~Repository!Failed(t) /\ t.root # workspace))
  BY DEF Repository!LinkedReturns, Repository!Returns, Repository!Ends, Repository!Flow, Repository!World
<1>2. ui' \in Ui /\ ui'.status = (IF Repository!Failed(t) THEN ui.status ELSE t.root) /\ (ui'.syncing <=> ui.syncing)
  BY AtReturn DEF Ui, Repository!LinkedReturns
<1>3. late' \in BOOLEAN /\ (late => late') /\ (late' \/ ui'.status \in {None, workspace})
  BY <1>1, <1>2, AtReturn DEF Repository!ReadingsStay
<1>4. BeingBound => BeingBound'
  BY <1>1, WitnessesStay
<1> QED BY <1>1, <1>2, <1>3, <1>4, QuietEnds
\* The account and the binding of a status or a sync.
LEMMA ContextReturnsKeeps ==
  ASSUME RepositoryInvariant, NEW t \in tasks, Repository!ContextReturns(t)
  PROVE  RepositoryInvariant'
<1>1. /\ t.step \in {"account", "binding"} /\ t.kind \in {"refresh", "sync"} /\ t.answer # None /\ Repository!World
      /\ stale' = stale /\ late' = late /\ UNCHANGED <<workspace, scope, native, broken>>
  BY DEF Repository!ContextReturns, Repository!Returns, Repository!Histories, Repository!Flow, Repository!World
<1>2. /\ stale \in BOOLEAN /\ late \in BOOLEAN
      /\ broken \/ ~identity.cleanup
      /\ late \/ ui.status \in {None, workspace}
      /\ stale \/ identity.binding \in {None, workspace}
  BY AtReturn DEF Repository!ReadingsStay
<1>3. Sound => t.answer \in {"yes", "no"}
  BY <1>1, AtReturn DEF FlowFits, AnswerFits, Sound
<1>4. t.kind # "identity" /\ ~(t.kind \in Repository!Changes /\ t.step = t.kind)
  BY <1>1 DEF Repository!Changes
<1>5. CASE Repository!Failed(t) \/ ~Repository!Active(t)
  <2>1. tasks' = tasks \ {t} /\ ui' = Repository!Stops(t) /\ identity' = identity /\ fresh' = fresh
    BY <1>5 DEF Repository!ContextReturns, Repository!Ends
  <2>2. ui' \in Ui /\ ui'.status = ui.status /\ (ui'.syncing <=> (ui.syncing /\ t.kind # "sync"))
    BY <2>1, AtReturn, IdleFacts
  <2>3. ASSUME Sound PROVE BeingBound => BeingBound'
    <3>1. ~Repository!Active(t)
      BY <1>3, <1>5, <2>3 DEF Repository!Failed
    <3> QED BY <1>1, <2>1, <3>1, WitnessesStay
  <2> QED BY <1>1, <1>2, <1>4, <2>1, <2>2, <2>3, QuietEnds
<1>6. CASE ~Repository!Failed(t) /\ Repository!Active(t) /\ t.step = "account" /\ t.answer = "no"
  <2>1. tasks' = tasks \ {t} /\ ui' = [Repository!Idle(t) EXCEPT !.dialog = "connect"] /\ identity' = Repository!Account(t, FALSE) /\ Repository!Overtakes(t)
    BY <1>6 DEF Repository!ContextReturns, Repository!Ends
  <2>2. ui' \in Ui /\ ui'.status = ui.status /\ (ui'.syncing <=> (ui.syncing /\ t.kind # "sync"))
    <3>1. Repository!Idle(t) \in Ui /\ Repository!Idle(t).status = ui.status /\ (Repository!Idle(t).syncing <=> (ui.syncing /\ t.kind # "sync"))
      BY AtReturn, IdleFacts
    <3> HIDE DEF Repository!Idle
    <3> QED BY <2>1, <3>1 DEF Ui
  <2>3. identity' \in Identity /\ ~identity'.account /\ ~identity'.cleanup /\ identity'.binding = identity.binding
    BY <1>6, <2>1, AtReturn DEF Repository!Account, Identity
  <2>4. Sound => ~native.connected
    BY <1>1, <1>6, AtReturn DEF Knows, ContextKnows, AccountTold
  <2>5. Sound => BindingFits'
    BY <1>1, <2>4 DEF BindingFits
  <2> QED BY <1>1, <1>2, <1>6, <2>1, <2>2, <2>3, <2>4, <2>5, LoudEnds
<1>7. CASE ~Repository!Failed(t) /\ Repository!Active(t) /\ ~(t.step = "account" /\ t.answer = "no")
  <2>0. PICK step : step = IF t.step = "account" THEN "binding" ELSE IF t.answer = "no" THEN "list"
                           ELSE IF t.kind = "refresh" THEN "status" ELSE IF Repository!Unsaved(t.root) = {} THEN "sync" ELSE "save"
    OBVIOUS
  <2> DEFINE u == [t EXCEPT !.step = step, !.answer = None]
  <2>1. t.answer \in {"yes", "no"}
    BY <1>1, <1>7, AtReturn DEF FlowFits, Answerable, Repository!Failed
  <2>2. /\ tasks' = (tasks \ {t}) \cup {u} /\ Repository!Overtakes(t)
        /\ identity' = IF t.step = "account" THEN Repository!Account(t, TRUE)
                       ELSE [identity EXCEPT !.binding = IF t.answer = "yes" THEN t.root ELSE None]
        /\ ui' \in {ui, Repository!ListingUi(ui, t.root), Repository!Started(ui)}
    <3>1. CASE t.step = "account"
      BY <1>7, <2>0, <2>1, <3>1 DEF Repository!ContextReturns, Repository!Goes
    <3>2. CASE t.step = "binding" /\ t.answer = "no"
      BY <1>7, <2>0, <3>2 DEF Repository!ContextReturns, Repository!Listing
    <3>3. CASE t.step = "binding" /\ t.answer = "yes"
      BY <1>7, <2>0, <3>3 DEF Repository!ContextReturns, Repository!Goes
    <3> QED BY <1>1, <2>1, <3>1, <3>2, <3>3
  <2>3. u.kind = t.kind /\ u.scope = t.scope /\ u.root = t.root /\ u.step = step /\ u.answer = None
    BY <1>1, AtReturn DEF Flows
  <2>4. FlowFits(u)'
    <3>1. step \in Steps
      BY <2>0 DEF Steps
    <3>2. StepFits([t EXCEPT !.step = step, !.answer = None])
      BY <1>1, <2>0, <2>3 DEF StepFits
    <3> QED BY <1>1, <3>1, <3>2, AtReturn, NextStep
  <2>5. ui' \in Ui /\ ui'.status = ui.status /\ (ui'.syncing <=> ui.syncing)
    BY <2>2, AtReturn, UiFacts
  <2>6. t.root = workspace
    BY <1>1, <1>7, AtReturn
  <2>7. /\ identity' \in Identity /\ (identity'.cleanup => identity.cleanup)
        /\ identity'.account <=> (t.step = "account" \/ identity.account)
        /\ identity'.binding = IF t.step = "account" THEN identity.binding ELSE IF t.answer = "yes" THEN workspace ELSE None
    BY <1>7, <2>2, <2>6, AtReturn DEF Repository!Account, Identity
  <2>8. step \in Steps
    BY <2>0 DEF Steps
  <2>9. /\ step = "binding" <=> t.step = "account"
        /\ step = "list" <=> (t.step = "binding" /\ t.answer = "no")
        /\ step \in {"binding", "list", "status", "save", "sync"}
    BY <1>1, <2>0
  <2> HIDE DEF u
  <2>10. ASSUME Sound
         PROVE  /\ native.connected /\ identity.account => identity'.account
                /\ identity'.account <=> native.connected
                /\ BindingFits' /\ Knows(u)'
    <3>1. ContextKnows(t) /\ AccountFits /\ BindingFits
      BY <2>10, AtReturn DEF Knows
    <3>2. native.connected /\ identity'.account
      BY <1>1, <1>7, <2>1, <2>7, <3>1 DEF ContextKnows, AccountTold
    <3>3. t.step = "binding" => ((t.answer = "yes") <=> workspace \in native.bindings)
      BY <1>1, <1>7, <3>1 DEF ContextKnows, BindingTold
    <3>4. BindingFits'
      <4>1. CASE step \in {"binding", "list"}
        <5>1. u \in tasks' /\ Repository!Active(u)'
          BY <1>1, <1>7, <2>2, <2>3 DEF Repository!Active
        <5> QED BY <1>1, <2>3, <4>1, <5>1 DEF BindingFits, BeingBound
      <4>2. CASE step \notin {"binding", "list"}
        <5>1. t.step = "binding" /\ t.answer = "yes"
          BY <1>1, <2>1, <2>9, <4>2
        <5> QED BY <1>1, <2>7, <3>3, <5>1, AtReturn DEF BindingFits
      <4> QED BY <4>1, <4>2
    <3>5. ContextKnows(u)'
      <4>1. step \in {"status", "save", "sync"} => workspace \in native.bindings
        BY <1>1, <2>1, <2>9, <3>3
      <4> QED BY <1>1, <2>3, <2>9, <3>2, <4>1 DEF ContextKnows, BindingTold
    <3>6. ReadingKnows(u)' /\ ListKnows(u)' /\ ChangeKnows(u)'
      BY <1>1, <2>3 DEF ReadingKnows, ListKnows, ChangeKnows, Repository!Changes
    <3> QED BY <3>2, <3>4, <3>5, <3>6 DEF Knows
  <2>11. /\ ~broken => ~identity'.cleanup
         /\ stale' \/ identity'.binding \in {None, workspace}
         /\ late' \/ ui'.status \in {None, workspace}
         /\ stale' \in BOOLEAN /\ late' \in BOOLEAN /\ (stale => stale') /\ (late => late')
    BY <1>1, <1>2, <2>5, <2>7
  <2> QED BY <1>1, <1>7, <2>2, <2>3, <2>4, <2>5, <2>7, <2>10, <2>11, LoudGoes
<1> QED BY <1>5, <1>6, <1>7

\* The status of a refresh.
LEMMA RefreshReturnsKeeps ==
  ASSUME RepositoryInvariant, NEW t \in tasks, Repository!RefreshReturns(t)
  PROVE  RepositoryInvariant'
<1>1. /\ t.step = "status" /\ t.kind = "refresh" /\ t.answer # None /\ Repository!World /\ tasks' = tasks \ {t}
      /\ stale' = stale /\ late' = late /\ UNCHANGED <<workspace, scope, native, broken>>
  BY DEF Repository!RefreshReturns, Repository!Returns, Repository!Ends, Repository!Histories, Repository!Flow, Repository!World
<1>2. /\ stale \in BOOLEAN /\ late \in BOOLEAN
      /\ broken \/ ~identity.cleanup
      /\ late \/ ui.status \in {None, workspace}
      /\ stale \/ identity.binding \in {None, workspace}
  BY AtReturn DEF Repository!ReadingsStay
<1>3. CASE Repository!Failed(t) \/ ~Repository!Active(t)
  <2>1. ui' = Repository!Stops(t) /\ identity' = identity /\ fresh' = fresh
    BY <1>3 DEF Repository!RefreshReturns
  <2>2. ui' \in Ui /\ ui'.status = ui.status /\ (ui'.syncing <=> (ui.syncing /\ t.kind # "sync"))
    BY <2>1, AtReturn, IdleFacts
  <2>3. BeingBound => BeingBound'
    BY <1>1, WitnessesStay
  <2>4. t.kind # "identity" /\ ~(t.kind \in Repository!Changes /\ t.step = t.kind)
    BY <1>1 DEF Repository!Changes
  <2> QED BY <1>1, <1>2, <2>1, <2>2, <2>3, <2>4, QuietEnds
<1>4. CASE ~Repository!Failed(t) /\ Repository!Active(t)
  <2>1. /\ ui' = [Repository!Idle(t) EXCEPT !.status = t.root, !.dialog = "status"] /\ Repository!Overtakes(t)
        /\ identity' = [account |-> TRUE, cleanup |-> FALSE, binding |-> t.root]
    BY <1>4 DEF Repository!RefreshReturns
  <2>2. t.root = workspace /\ t.root \in Workspaces \cup {None}
    BY <1>1, <1>4, AtReturn
  <2>3. ui' \in Ui /\ ui'.status = workspace /\ (ui'.syncing <=> (ui.syncing /\ t.kind # "sync"))
    <3>1. Repository!Idle(t) \in Ui /\ (Repository!Idle(t).syncing <=> (ui.syncing /\ t.kind # "sync"))
      BY AtReturn, IdleFacts
    <3> HIDE DEF Repository!Idle
    <3> QED BY <2>1, <2>2, <3>1 DEF Ui
  <2>4. identity' \in Identity /\ identity'.account /\ ~identity'.cleanup /\ identity'.binding = workspace
    BY <2>1, <2>2 DEF Identity
  <2>5. Sound => native.connected /\ workspace \in native.bindings
    BY <1>1, <1>4, AtReturn DEF Knows, ContextKnows
  <2>6. Sound => BindingFits'
    BY <1>1, <2>4, <2>5, AtReturn DEF BindingFits
  <2>7. (~broken => ~identity'.cleanup) /\ (stale \/ identity'.binding \in {None, workspace})
        /\ (late \/ ui'.status \in {None, workspace})
    BY <2>3, <2>4
  <2> QED BY <1>1, <1>4, <2>1, <2>3, <2>4, <2>5, <2>6, <2>7, LoudEnds
<1> QED BY <1>3, <1>4

\* The documents after they were saved.
LEMMA SaveReturnsKeeps ==
  ASSUME RepositoryInvariant, NEW t \in tasks, Repository!SaveReturns(t)
  PROVE  RepositoryInvariant'
<1>1. /\ t.step = "save" /\ t.kind = "sync" /\ t.answer # None /\ Repository!World
      /\ stale' = stale /\ late' = late /\ identity' = identity /\ fresh' = fresh
      /\ UNCHANGED <<workspace, scope, native, broken>>
  BY DEF Repository!SaveReturns, Repository!Returns, Repository!Histories, Repository!World
<1>2. stale \in BOOLEAN /\ late \in BOOLEAN /\ (late \/ ui.status \in {None, workspace})
  BY AtReturn DEF Repository!ReadingsStay
<1>3. t.kind # "identity" /\ ~(t.kind \in Repository!Changes /\ t.step = t.kind)
  BY <1>1 DEF Repository!Changes
<1>4. CASE Repository!Paused(t)
  <2>1. tasks' = tasks \ {t} /\ ui' = [Repository!Idle(t) EXCEPT !.operation = "error"]
    BY <1>4 DEF Repository!Paused, Repository!Ends
  <2>2. ui' \in Ui /\ ui'.status = ui.status /\ (ui'.syncing <=> (ui.syncing /\ t.kind # "sync"))
    <3>1. Repository!Idle(t) \in Ui /\ Repository!Idle(t).status = ui.status /\ (Repository!Idle(t).syncing <=> (ui.syncing /\ t.kind # "sync"))
      BY AtReturn, IdleFacts
    <3> HIDE DEF Repository!Idle
    <3> QED BY <2>1, <3>1 DEF Ui
  <2>3. BeingBound => BeingBound'
    BY <1>1, <2>1, WitnessesStay
  <2> QED BY <1>1, <1>2, <1>3, <2>1, <2>2, <2>3, QuietEnds
<1>5. ASSUME NEW step \in {"save", "sync"}, Repository!Goes(t, step), ui' = ui PROVE RepositoryInvariant'
  <2> DEFINE u == [t EXCEPT !.step = step, !.answer = None]
  <2>1. tasks' = (tasks \ {t}) \cup {u} /\ ui' = ui
    BY <1>5 DEF Repository!Goes
  <2>2. u.kind = t.kind /\ u.scope = t.scope /\ u.root = t.root /\ u.step = step /\ u.answer = None
    BY <1>1, AtReturn DEF Flows
  <2>3. FlowFits(u)'
    <3>1. step \in Steps
      BY DEF Steps
    <3>2. StepFits([t EXCEPT !.step = step, !.answer = None])
      BY <1>1, <2>2 DEF StepFits
    <3> QED BY <1>1, <3>1, <3>2, AtReturn, NextStep
  <2> HIDE DEF u
  <2>4. BeingBound => BeingBound'
    BY <1>1, <2>1, WitnessesStay
  <2>5. ASSUME Sound PROVE Knows(u)'
    <3>1. ContextKnows(u)'
      BY <1>1, <2>2, <2>5, AtReturn DEF Knows, ContextKnows, Repository!Active
    <3> QED BY <1>1, <2>2, <3>1 DEF Knows, ReadingKnows, ListKnows, ChangeKnows, Repository!Changes
  <2>6. ui' \in Ui /\ (ui'.syncing <=> ui.syncing) /\ (late' \/ ui'.status \in {None, workspace})
    BY <1>1, <1>2, <2>1, AtReturn
  <2> QED BY <1>1, <1>2, <1>3, <2>1, <2>2, <2>3, <2>4, <2>5, <2>6, QuietGoes
<1>6. Repository!Paused(t) \/ \E step \in {"save", "sync"} : Repository!Goes(t, step) /\ ui' = ui
  BY DEF Repository!SaveReturns
<1> QED BY <1>4, <1>5, <1>6
\* The end of a sync.
LEMMA FinishedFacts ==
  ASSUME NEW u \in Ui, NEW outcome, NEW conflict
  PROVE  /\ Repository!Finished(u, outcome, conflict) \in Ui /\ Repository!Finished(u, outcome, conflict).status = u.status
         /\ ~Repository!Finished(u, outcome, conflict).syncing
BY DEF Ui, Repository!Finished

\* The status of a sync.
LEMMA SyncReturnsKeeps ==
  ASSUME RepositoryInvariant, NEW t \in tasks, Repository!SyncReturns(t)
  PROVE  RepositoryInvariant'
<1>1. /\ t.step = "sync" /\ t.kind = "sync" /\ t.answer # None /\ Repository!World
      /\ stale' = stale /\ UNCHANGED <<workspace, scope, native, broken>>
  BY DEF Repository!SyncReturns, Repository!Returns, Repository!Flow, Repository!World
<1>2. /\ stale \in BOOLEAN /\ late \in BOOLEAN
      /\ broken \/ ~identity.cleanup
      /\ late \/ ui.status \in {None, workspace}
      /\ stale \/ identity.binding \in {None, workspace}
  BY AtReturn DEF Repository!ReadingsStay
<1>3. t.kind # "identity" /\ ~(t.kind \in Repository!Changes /\ t.step = t.kind)
  BY <1>1 DEF Repository!Changes
<1>4. CASE Repository!Failed(t)
  <2>1. tasks' = tasks \ {t} /\ ui' = Repository!Stops(t) /\ identity' = identity /\ fresh' = fresh /\ late' = late
    BY <1>4 DEF Repository!SyncReturns, Repository!Ends
  <2>2. ui' \in Ui /\ ui'.status = ui.status /\ (ui'.syncing <=> (ui.syncing /\ t.kind # "sync"))
    BY <2>1, AtReturn, IdleFacts
  <2>3. BeingBound => BeingBound'
    BY <1>1, <2>1, WitnessesStay
  <2> QED BY <1>1, <1>2, <1>3, <2>1, <2>2, <2>3, QuietEnds
<1>5. CASE /\ ~Repository!Failed(t) /\ ui' = [ui EXCEPT !.status = t.root]
           /\ tasks' = (tasks \ {t}) \cup {[t EXCEPT !.step = "reload", !.answer = None, !.memo = t.answer]}
  <2> DEFINE u == [t EXCEPT !.step = "reload", !.answer = None, !.memo = t.answer]
  <2>1. /\ tasks' = (tasks \ {t}) \cup {u} /\ ui' = [ui EXCEPT !.status = t.root] /\ Repository!Overtakes(t)
        /\ identity' = IF Repository!Active(t) THEN [account |-> TRUE, cleanup |-> FALSE, binding |-> t.root] ELSE identity
        /\ late' = (late \/ ~Repository!Active(t))
    BY <1>5 DEF Repository!SyncReturns
  <2>2. u.kind = t.kind /\ u.scope = t.scope /\ u.root = t.root /\ u.step = "reload" /\ u.answer = None
    BY <1>1, AtReturn DEF Flows
  <2>3. FlowFits(u)'
    <3>1. "reload" \in Steps
      BY DEF Steps
    <3>2. StepFits([t EXCEPT !.step = "reload", !.answer = None])
      BY <1>1, AtReturn DEF StepFits, Flows
    <3>3. t.answer \in Answers \cup {"none", None}
      BY AtReturn DEF Flows
    <3> QED BY <1>1, <3>1, <3>2, <3>3, AtReturn, NextStep
  <2> HIDE DEF u
  <2>4. ui' \in Ui /\ (ui'.syncing <=> ui.syncing) /\ ui'.status = t.root
    BY <2>1, AtReturn DEF Ui
  <2>5. late' \in BOOLEAN /\ (late => late') /\ (late' \/ ui'.status \in {None, workspace})
    BY <1>1, <1>2, <2>1, <2>4, AtReturn DEF Repository!Active
  <2>6. ASSUME Sound, identity'.account <=> identity.account \/ Repository!Active(t) PROVE Knows(u)'
    <3>1. ContextKnows(u)'
      BY <1>1, <2>2, <2>6, AtReturn DEF Knows, ContextKnows, Repository!Active
    <3> QED BY <1>1, <2>2, <3>1 DEF Knows, ReadingKnows, ListKnows, ChangeKnows, Repository!Changes
  <2>7. CASE Repository!Active(t)
    <3>1. t.root = workspace /\ t.root \in Workspaces \cup {None}
      BY <1>1, <2>7, AtReturn
    <3>2. identity' \in Identity /\ identity'.account /\ ~identity'.cleanup /\ identity'.binding = workspace
      BY <2>1, <2>7, <3>1 DEF Identity
    <3>3. Sound => native.connected /\ workspace \in native.bindings
      BY <1>1, <2>7, AtReturn DEF Knows, ContextKnows
    <3>4. Sound => BindingFits'
      BY <1>1, <3>2, <3>3, AtReturn DEF BindingFits
    <3>5. (~broken => ~identity'.cleanup) /\ (stale' \/ identity'.binding \in {None, workspace})
          /\ stale' \in BOOLEAN /\ (stale => stale')
      BY <1>1, <1>2, <3>2
    <3>6. Sound => Knows(u)'
      BY <2>6, <2>7, <3>2
    <3> QED BY <1>1, <2>1, <2>2, <2>3, <2>4, <2>5, <2>7, <3>2, <3>3, <3>4, <3>5, <3>6, LoudGoes
  <2>8. CASE ~Repository!Active(t)
    <3>1. identity' = identity /\ fresh' = fresh
      BY <2>1, <2>8, AtReturn DEF Repository!Overtakes
    <3>2. BeingBound => BeingBound'
      BY <1>1, <2>1, WitnessesStay
    <3>3. Sound => Knows(u)'
      BY <2>6, <2>8, <3>1
    <3> QED BY <1>1, <1>3, <2>1, <2>2, <2>3, <2>4, <2>5, <3>1, <3>2, <3>3, QuietGoes
  <2> QED BY <2>7, <2>8
<1>6. CASE /\ ~Repository!Failed(t) /\ Repository!Ends(t)
           /\ ui' = Repository!Finished([ui EXCEPT !.status = t.root], t.answer, FALSE)
  <2>1. /\ tasks' = tasks \ {t} /\ Repository!Overtakes(t)
        /\ identity' = IF Repository!Active(t) THEN [account |-> TRUE, cleanup |-> FALSE, binding |-> t.root] ELSE identity
        /\ late' = (late \/ ~Repository!Active(t))
    BY <1>6 DEF Repository!SyncReturns, Repository!Ends
  <2>2. [ui EXCEPT !.status = t.root] \in Ui /\ [ui EXCEPT !.status = t.root].status = t.root
    BY AtReturn DEF Ui
  <2>3. ui' \in Ui /\ ui'.status = t.root /\ (ui'.syncing <=> (ui.syncing /\ t.kind # "sync"))
    BY <1>1, <1>6, <2>2, FinishedFacts
  <2>4. late' \in BOOLEAN /\ (late => late') /\ (late' \/ ui'.status \in {None, workspace})
    BY <1>1, <1>2, <2>1, <2>3, AtReturn DEF Repository!Active
  <2>5. CASE Repository!Active(t)
    <3>1. t.root = workspace /\ t.root \in Workspaces \cup {None} /\ late' = late
      BY <1>1, <1>2, <2>1, <2>5, AtReturn
    <3>2. identity' \in Identity /\ identity'.account /\ ~identity'.cleanup /\ identity'.binding = workspace
      BY <2>1, <2>5, <3>1 DEF Identity
    <3>3. Sound => native.connected /\ workspace \in native.bindings
      BY <1>1, <2>5, AtReturn DEF Knows, ContextKnows
    <3>4. Sound => BindingFits'
      BY <1>1, <3>2, <3>3, AtReturn DEF BindingFits
    <3>5. /\ (~broken => ~identity'.cleanup) /\ (stale \/ identity'.binding \in {None, workspace})
          /\ late \/ ui'.status \in {None, workspace}
      BY <2>3, <3>1, <3>2
    <3> QED BY <1>1, <2>1, <2>3, <2>5, <3>1, <3>2, <3>3, <3>4, <3>5, LoudEnds
  <2>6. CASE ~Repository!Active(t)
    <3>1. identity' = identity /\ fresh' = fresh
      BY <2>1, <2>6, AtReturn DEF Repository!Overtakes
    <3>2. BeingBound => BeingBound'
      BY <1>1, <2>1, WitnessesStay
    <3> QED BY <1>1, <1>3, <2>1, <2>3, <2>4, <3>1, <3>2, QuietEnds
  <2> QED BY <2>5, <2>6
<1> QED BY <1>4, <1>5, <1>6 DEF Repository!SyncReturns

\* The documents it reloads.
LEMMA ReloadReturnsKeeps ==
  ASSUME RepositoryInvariant, NEW t \in tasks, Repository!ReloadReturns(t)
  PROVE  RepositoryInvariant'
<1>1. /\ t.step = "reload" /\ t.kind = "sync" /\ Repository!World /\ tasks' = tasks \ {t}
      /\ stale' = stale /\ late' = late /\ identity' = identity /\ fresh' = fresh
      /\ UNCHANGED <<workspace, scope, native, broken>>
  BY DEF Repository!ReloadReturns, Repository!Returns, Repository!Ends, Repository!Histories, Repository!Flow, Repository!World
<1>2. late \in BOOLEAN /\ (late \/ ui.status \in {None, workspace})
  BY AtReturn DEF Repository!ReadingsStay
<1>3. t.kind # "identity" /\ ~(t.kind \in Repository!Changes /\ t.step = t.kind)
  BY <1>1 DEF Repository!Changes
<1>4. ui' \in Ui /\ ui'.status = ui.status /\ (ui'.syncing <=> (ui.syncing /\ t.kind # "sync"))
  <2>1. /\ Repository!Idle(t) \in Ui /\ Repository!Idle(t).status = ui.status /\ (Repository!Idle(t).syncing <=> (ui.syncing /\ t.kind # "sync"))
        /\ Repository!Stops(t) \in Ui /\ Repository!Stops(t).status = ui.status /\ (Repository!Stops(t).syncing <=> (ui.syncing /\ t.kind # "sync"))
    BY AtReturn, IdleFacts
  <2>2. ui' = Repository!Stops(t) \/ ui' = Repository!Finished(ui, t.memo, t.answer = "conflicts")
    BY DEF Repository!ReloadReturns
  <2> HIDE DEF Repository!Idle, Repository!Stops
  <2> QED BY <1>1, <2>1, <2>2, AtReturn, FinishedFacts
<1>5. BeingBound => BeingBound'
  BY <1>1, WitnessesStay
<1> QED BY <1>1, <1>2, <1>3, <1>4, <1>5, QuietEnds

\* No folder is chosen.
LEMMA ChooseNothingKeeps ==
  ASSUME RepositoryInvariant, NEW t \in tasks, Repository!ChooseNothing(t)
  PROVE  RepositoryInvariant'
<1>1. /\ t.step = "choose" /\ Repository!World /\ tasks' = tasks \ {t}
      /\ stale' = stale /\ late' = late /\ identity' = identity /\ fresh' = fresh
      /\ UNCHANGED <<workspace, scope, native, broken>>
  BY DEF Repository!ChooseNothing, Repository!Ends, Repository!Flow, Repository!World
<1>2. late \in BOOLEAN /\ (late \/ ui.status \in {None, workspace})
  BY AtReturn DEF Repository!ReadingsStay
<1>3. t.kind \in {"dialog", "connect"} /\ t.root = None
  BY <1>1, AtReturn DEF FlowFits, StepFits, Kinds
<1>4. t.kind # "identity" /\ ~(t.kind \in Repository!Changes /\ t.step = t.kind) /\ t.kind # "sync"
  BY <1>1, <1>3 DEF Repository!Changes
<1>5. ui' \in Ui /\ ui'.status = ui.status /\ (ui'.syncing <=> (ui.syncing /\ t.kind # "sync"))
  BY <1>4, AtReturn DEF Ui, Repository!ChooseNothing
<1>6. ASSUME Sound, BeingBound PROVE BeingBound' \/ BindingFits'
  <2>1. CASE t.kind = "dialog"
    BY <1>1, <1>6, <2>1, WitnessesStay
  <2>2. CASE t.kind = "connect"
    <3>1. workspace = None
      BY <1>3, <1>6, <2>2, AtReturn DEF Knows, ChangeKnows, Repository!Changes
    <3>2. identity.binding = None
      BY <1>6, <3>1, AtReturn DEF Repository!ReadingsStay, Sound
    <3> QED BY <1>1, <3>1, <3>2, AtReturn DEF BindingFits
  <2> QED BY <1>3, <2>1, <2>2
<1> QED BY <1>1, <1>2, <1>4, <1>5, <1>6, QuietEnds

(* Calls. *)

\* The call of a flow is answered.
LEMMA AnswerKeeps ==
  ASSUME RepositoryInvariant, NEW t \in tasks, t.answer = None, NEW a \in Answers, Repository!Answered(t, a),
         UNCHANGED <<workspace, scope, identity, fresh, ui, stale, late, commands, switches>>,
         broken' \in BOOLEAN, broken => broken', native' \in Store,
         ~broken' => ~native'.cleanup,
         LET u == [t EXCEPT !.answer = a] IN Answerable(u) /\ (~broken' => AnswerFits(u)),
         ~broken' /\ Sound => /\ \A o \in tasks : o # t => Knows(o)'
                              /\ Knows([t EXCEPT !.answer = a])'
                              /\ AccountFits' /\ BindingFits'
  PROVE  RepositoryInvariant'
<1> DEFINE u == [t EXCEPT !.answer = a]
<1>1. u.kind = t.kind /\ u.scope = t.scope /\ u.root = t.root /\ u.step = t.step /\ u.answer = a
  BY AtReturn DEF Flows
<1>2. u \in Flows
  BY AtReturn DEF Flows
<1>3. tasks' = (tasks \ {t}) \cup {u}
  BY DEF Repository!Answered
<1>4. Answerable(u) /\ (~broken' => AnswerFits(u)) /\ (~broken' /\ Sound => Knows(u)')
  OBVIOUS
<1> HIDE DEF u
<1>5. FlowFits(u)'
  <2>1. StepFits(u) /\ RootFits(u)'
    BY <1>1, AtReturn DEF FlowFits, StepFits, RootFits, Repository!Active
  <2> QED BY <1>2, <1>4, <2>1 DEF FlowFits, StepFits, Answerable, AnswerFits
<1>6. Becomes(t, {u})
  BY <1>1, <1>3, <1>5 DEF Becomes
<1>7. WindowTyped'
  BY AtReturn DEF WindowTyped
<1>8. NoCleanup' /\ Repository!ReadingsStay'
  BY AtReturn DEF NoCleanup, Repository!ReadingsStay
<1>9. SyncFits'
  <2>1. (ui'.syncing <=> (ui.syncing /\ ~(t.kind = "sync" /\ {u} = {}))) /\ SyncFits
    BY DEF RepositoryInvariant
  <2> QED BY <1>6, <2>1, SyncStays
<1>10. \A o \in tasks' : FlowFits(o)'
  <2>1. \A o \in tasks : FlowFits(o)'
    BY DEF RepositoryInvariant, FlowFits, RootFits, Repository!Active
  <2> QED BY <1>3, <1>5, <2>1
<1>11. Sound' => Sound /\ ~broken'
  BY AtReturn DEF Sound, RepositoryInvariant, WindowTyped
<1>12. Sound' => \A o \in tasks' : Knows(o)'
  BY <1>3, <1>4, <1>11
<1>13. Sound' => Apart'
  BY <1>6, <1>11, AtReturn, ApartStays
<1> QED BY <1>7, <1>8, <1>9, <1>10, <1>11, <1>12, <1>13 DEF RepositoryInvariant
\* An answer that changes nothing the others know.
LEMMA QuietAnswerKeeps ==
  ASSUME RepositoryInvariant, NEW t \in tasks, t.answer = None, NEW a \in Answers, Repository!Answered(t, a),
         UNCHANGED <<workspace, scope, identity, fresh, ui, stale, late, commands, switches, broken>>,
         native' \in Store, native'.connected <=> native.connected, native'.bindings = native.bindings,
         native'.cleanup => native.cleanup,
         LET u == [t EXCEPT !.answer = a] IN Answerable(u) /\ (~broken => AnswerFits(u)),
         Sound => Knows([t EXCEPT !.answer = a])'
  PROVE  RepositoryInvariant'
<1>0. t.answer # "yes"
  BY AtReturn DEF Answers
<1>1. ASSUME NEW o \in tasks, o # t, Sound PROVE Knows(o)'
  <2>1. ASSUME NEW kinds, Called(kinds) PROVE Called(kinds)'
    BY <1>0, <2>1 DEF Called, Repository!Answered
  <2>2. Knows(o) /\ identity'.account = identity.account
    BY <1>1, AtReturn
  <2> QED BY <2>1, <2>2, OthersKnow
<1>2. ASSUME Sound PROVE AccountFits' /\ BindingFits'
  <2> DEFINE u == [t EXCEPT !.answer = a]
  <2>1. u.kind = t.kind /\ u.scope = t.scope /\ u.step = t.step
    BY AtReturn DEF Flows
  <2>2. tasks' = (tasks \ {t}) \cup {u}
    BY DEF Repository!Answered
  <2> HIDE DEF u
  <2>3. \A kinds : Called(kinds) => Called(kinds)'
    BY <1>0, <2>2 DEF Called
  <2>4. BeingRead => BeingRead'
    BY <2>1, <2>2 DEF BeingRead, Repository!Active
  <2>5. BeingBound => BeingBound'
    BY <2>1, <2>2 DEF BeingBound, Repository!Active
  <2>6. AccountFits /\ BindingFits
    BY <1>2, AtReturn
  <2> QED BY <2>3, <2>4, <2>5, <2>6 DEF AccountFits, BindingFits
<1>3. broken \in BOOLEAN /\ (~broken => ~native.cleanup)
  BY AtReturn DEF WindowTyped, NoCleanup
<1> QED BY <1>1, <1>2, <1>3, AnswerKeeps

\* The documents are saved.
LEMMA SaveKeeps ==
  ASSUME RepositoryInvariant, NEW t \in tasks, Repository!Save(t)
  PROVE  RepositoryInvariant'
<1>1. /\ t.step = "save" /\ t.answer = None
      /\ UNCHANGED <<workspace, scope, identity, fresh, ui, stale, late, commands, switches, broken>> /\ native' = native
  BY DEF Repository!Save, Repository!World, Repository!Histories, Repository!bounds
<1>2. PICK a \in {"yes", "error"} : Repository!Answered(t, a)
  BY DEF Repository!Save
<1> DEFINE u == [t EXCEPT !.answer = a]
<1>3. u.kind = t.kind /\ u.scope = t.scope /\ u.root = t.root /\ u.step = t.step /\ u.answer = a
  BY AtReturn DEF Flows
<1>4. t.kind = "sync"
  BY <1>1, AtReturn DEF FlowFits, StepFits, Kinds
<1>5. Answerable(u) /\ AnswerFits(u)
  BY <1>1, <1>3 DEF Answerable, AnswerFits
<1>6. native' \in Store /\ a \in Answers
  BY <1>1, AtReturn DEF WindowTyped, Answers
<1>7. ASSUME Sound PROVE Knows(u)'
  <2> HIDE DEF u
  <2>1. ContextKnows(u)'
    BY <1>1, <1>3, <1>4, <1>7, AtReturn DEF Knows, ContextKnows, Repository!Active
  <2> QED BY <1>1, <1>3, <1>4, <2>1 DEF Knows, ReadingKnows, ListKnows, ChangeKnows, Repository!Changes
<1> QED BY <1>1, <1>2, <1>5, <1>6, <1>7, QuietAnswerKeeps

\* A call that only reads.
LEMMA ReadKeeps ==
  ASSUME RepositoryInvariant, NEW t \in tasks, Repository!Call(t), t.step \in {"account", "binding", "list", "status", "sync", "reload"}
  PROVE  RepositoryInvariant'
<1>1. /\ t.answer = None
      /\ UNCHANGED <<workspace, scope, identity, fresh, ui, stale, late, commands, switches, broken>>
  BY DEF Repository!Call, Repository!bounds
<1>2. /\ native' \in Store /\ (native'.connected <=> native.connected) /\ native'.bindings = native.bindings
      /\ native'.cleanup => native.cleanup
  <2>1. native' \in {native, [native EXCEPT !.cleanup = FALSE]}
    BY DEF Repository!Call
  <2>2. native \in Store
    BY AtReturn DEF WindowTyped
  <2> QED BY <2>1, <2>2 DEF Store
<1>3. PICK a \in Answers :
        /\ Repository!Answered(t, a)
        /\ t.step = "account" => a \in {"yes", "no"} /\ ((a = "yes") <=> native.connected)
        /\ t.step = "binding" => a \in {"yes", "no"} /\ ((a = "yes") <=> t.root \in native.bindings)
        /\ t.step = "list" => /\ a \in {"yes", "no", "auth"} /\ (a = "auth" <=> ~native.connected)
                              /\ a # "auth" => ((a = "yes") <=> t.root \in native.bindings)
        /\ t.step = "status" => a \in {"yes", "error"} /\ (a = "yes" <=> native.connected)
  <2>1. CASE t.step = "account"
    BY <2>1 DEF Repository!Call, Answers
  <2>2. CASE t.step = "binding"
    BY <2>2 DEF Repository!Call, Answers
  <2>3. CASE t.step = "list"
    BY <2>3 DEF Repository!Call, Answers
  <2>4. CASE t.step \in {"status", "sync", "reload"}
    BY <2>4 DEF Repository!Call, Answers
  <2> QED BY <2>1, <2>2, <2>3, <2>4
<1> DEFINE u == [t EXCEPT !.answer = a]
<1>4. u.kind = t.kind /\ u.scope = t.scope /\ u.root = t.root /\ u.step = t.step /\ u.answer = a /\ u.memo = t.memo
  BY AtReturn DEF Flows
<1>5. Answerable(u) /\ AnswerFits(u)
  BY <1>3, <1>4 DEF Answerable, AnswerFits
<1>6. ASSUME Sound PROVE Knows(u)'
  <2> HIDE DEF u
  <2>1. ASSUME NEW kinds, t.kind \notin kinds PROVE Called(kinds) <=> Called(kinds)'
    <3>1. tasks' = (tasks \ {t}) \cup {u}
      BY <1>3 DEF Repository!Answered, u
    <3> QED BY <1>1, <1>4, <2>1, <3>1 DEF Called
  <2>2. ASSUME t.kind = "identity" PROVE ReadingKnows(u)'
    <3>1. Repository!Active(u)' => t.root = workspace
      BY <1>1, <1>4, <2>2, AtReturn DEF Repository!Active
    <3>2. /\ Called({"connect", "disconnect"}) <=> Called({"connect", "disconnect"})'
          /\ Called({"link"}) <=> Called({"link"})'
      BY <2>1, <2>2
    <3>3. ReadingKnows(t)
      BY <1>6, AtReturn DEF Knows
    <3> QED BY <1>1, <1>2, <1>3, <1>4, <2>2, <3>1, <3>2, <3>3 DEF ReadingKnows, Repository!Active, AccountTold,
       BindingTold
  <2>3. t.kind # "identity" => ReadingKnows(u)'
    BY <1>4 DEF ReadingKnows
  <2>4. ContextKnows(u)'
    <3>1. Repository!Active(u)' /\ t.kind \in {"refresh", "sync"} => t.root = workspace
      BY <1>1, <1>4, AtReturn DEF Repository!Active
    <3>2. ContextKnows(t)
      BY <1>6, AtReturn DEF Knows
    <3> QED BY <1>1, <1>2, <1>3, <1>4, <3>1, <3>2 DEF ContextKnows, Repository!Active, AccountTold, BindingTold
  <2>5. ListKnows(u)'
    <3>1. Repository!Active(u)' /\ t.step = "list" => t.root = workspace
      BY <1>1, <1>4, AtReturn DEF Repository!Active, FlowFits, StepFits
    <3> QED BY <1>1, <1>2, <1>3, <1>4, <3>1 DEF ListKnows, Repository!Active, AccountTold, BindingTold
  <2>6. ChangeKnows(u)'
    <3>1. ChangeKnows(t)
      BY <1>6, AtReturn DEF Knows
    <3>2. t.step \notin {"connect", "disconnect", "link"} /\ (t.kind = "disconnect" => t.step = "disconnect")
      BY AtReturn DEF FlowFits, StepFits
    <3> QED BY <1>1, <1>2, <1>3, <1>4, <3>1, <3>2 DEF ChangeKnows, Repository!Active
  <2> QED BY <2>2, <2>3, <2>4, <2>5, <2>6 DEF Knows
<1> QED BY <1>1, <1>2, <1>3, <1>5, <1>6, QuietAnswerKeeps
\* A change of the account or of a binding is all that goes on besides the reading, which waits for it.
LEMMA OthersOfChange ==
  ASSUME RepositoryInvariant, Sound, NEW t \in tasks, t.kind \in Repository!Changes, t.step = t.kind, t.answer = None,
         NEW u, tasks' = (tasks \ {t}) \cup {u}, u.kind = t.kind, u.step = t.kind, u.answer = "yes", u.scope = t.scope,
         UNCHANGED <<workspace, scope, identity, fresh>>,
         t.kind # "link" => native'.bindings = native.bindings,
         t.kind = "link" => (native'.connected <=> native.connected),
         NEW o \in tasks, o # t
  PROVE  Knows(o)'
<1>1. Repository!Active(t) /\ Knows(o) /\ t.answer # "yes"
  BY AtReturn DEF Knows, ChangeKnows, Answers
<1>2. o.kind = "identity" \/ ~Repository!Active(o)
  BY <1>1, AtReturn DEF Apart, Repository!Changes
<1>3. o.kind \notin Repository!Changes
  BY <1>1, <1>2 DEF Knows, ChangeKnows, Repository!Changes
<1>4. \A kinds : (t.kind \in kinds => Called(kinds)') /\ (Called(kinds) => Called(kinds)')
  BY <1>1 DEF Called
<1>5. (~Repository!Active(o))' <=> ~Repository!Active(o)
  BY DEF Repository!Active
<1>6. ReadingKnows(o)'
  <2>1. CASE t.kind = "link"
    <3>1. Called({"link"})' /\ (Called({"connect", "disconnect"}) => Called({"connect", "disconnect"})')
      BY <1>4, <2>1
    <3>2. ReadingKnows(o)
      BY <1>1 DEF Knows
    <3>3. native'.connected <=> native.connected
      BY <2>1
    <3> QED BY <1>5, <3>1, <3>2, <3>3 DEF ReadingKnows, AccountTold
  <2>2. CASE t.kind # "link"
    <3>1. Called({"connect", "disconnect"})' /\ (Called({"link"}) => Called({"link"})')
      BY <1>4, <2>2 DEF Repository!Changes
    <3>2. ReadingKnows(o)
      BY <1>1 DEF Knows
    <3>3. native'.bindings = native.bindings
      BY <2>2
    <3> QED BY <1>5, <3>1, <3>2, <3>3 DEF ReadingKnows, BindingTold
  <2> QED BY <2>1, <2>2
<1>7. ContextKnows(o)'
  BY <1>2, <1>5 DEF ContextKnows
<1>8. ListKnows(o)'
  <2>1. o.step # "list" \/ o.kind # "identity"
    BY AtReturn DEF RepositoryInvariant, FlowFits, StepFits
  <2> QED BY <1>2, <1>5, <2>1 DEF ListKnows
<1>9. ChangeKnows(o)'
  BY <1>2, <1>3, <1>5 DEF ChangeKnows, Repository!Changes
<1> QED BY <1>6, <1>7, <1>8, <1>9 DEF Knows

\* A call that changes the account or a binding.
LEMMA ChangeCallKeeps ==
  ASSUME RepositoryInvariant, NEW t \in tasks, Repository!Call(t), t.step \in Repository!Changes
  PROVE  RepositoryInvariant'
<1>1. /\ t.answer = None
      /\ UNCHANGED <<workspace, scope, identity, fresh, ui, stale, late, commands, switches, broken>>
  BY DEF Repository!Call, Repository!bounds
<1>3. t.kind = t.step
  BY AtReturn DEF FlowFits, StepFits, Repository!Changes, Kinds
<1>4. native \in Store /\ broken \in BOOLEAN
  BY <1>1, AtReturn DEF WindowTyped
<1>5. ~broken => ~native.cleanup
  BY AtReturn DEF NoCleanup
<1>6. CASE native' = native /\ Repository!Answered(t, "error") /\ (t.step = "link" \/ native.cleanup)
  <2> DEFINE u == [t EXCEPT !.answer = "error"]
  <2>1. u.kind = t.kind /\ u.scope = t.scope /\ u.root = t.root /\ u.step = t.step /\ u.answer = "error"
    BY AtReturn DEF Flows
  <2>2. t.step = "link" \/ broken
    BY <1>5, <1>6
  <2>3. Answerable(u) /\ (~broken => AnswerFits(u))
    BY <2>1, <2>2, <1>3 DEF Answerable, AnswerFits, Repository!Changes
  <2>4. ASSUME Sound PROVE Knows(u)'
    <3> HIDE DEF u
    <3>1. t.step = "link" /\ Knows(t)
      BY <2>2, <2>4, AtReturn DEF Sound
    <3> QED BY <1>1, <1>3, <1>6, <2>1, <3>1 DEF Knows, ReadingKnows, ContextKnows, ListKnows, ChangeKnows,
       Repository!Active
  <2>5. "error" \in Answers
    BY DEF Answers
  <2> QED BY <1>1, <1>4, <1>6, <2>3, <2>4, <2>5, QuietAnswerKeeps
<1>7. CASE /\ Repository!Answered(t, "yes") /\ native' \in Store
           /\ t.step = "connect" => native'.connected /\ native'.bindings = native.bindings /\ native'.cleanup = native.cleanup
           /\ t.step = "disconnect" => ~native'.connected /\ native'.bindings = native.bindings /\ ~native'.cleanup
           /\ t.step = "link" => /\ native.connected /\ native'.connected /\ native'.bindings = native.bindings \cup {t.root}
                                 /\ native'.cleanup = native.cleanup
  <2> DEFINE u == [t EXCEPT !.answer = "yes"]
  <2>1. u.kind = t.kind /\ u.scope = t.scope /\ u.root = t.root /\ u.step = t.step /\ u.answer = "yes"
    BY AtReturn DEF Flows
  <2>2. tasks' = (tasks \ {t}) \cup {u}
    BY <1>7 DEF Repository!Answered
  <2>3. Answerable(u) /\ AnswerFits(u) /\ "yes" \in Answers /\ (~broken' => ~native'.cleanup)
    BY <1>1, <1>3, <1>5, <1>7, <2>1 DEF Answerable, AnswerFits, Answers, Repository!Changes
  <2> HIDE DEF u
  <2>4. ASSUME Sound, NEW o \in tasks, o # t PROVE Knows(o)'
    <3>1. t.kind \in Repository!Changes /\ u.step = t.kind
      BY <1>3, <2>1
    <3>2. /\ t.kind # "link" => native'.bindings = native.bindings
          /\ t.kind = "link" => (native'.connected <=> native.connected)
      BY <1>3, <1>7 DEF Repository!Changes
    <3> QED BY <1>1, <1>3, <2>1, <2>2, <2>4, <3>1, <3>2, OthersOfChange
  <2>5. ASSUME Sound PROVE Knows(u)' /\ AccountFits' /\ BindingFits'
    <3>1. Knows(t) /\ AccountFits /\ BindingFits /\ t.answer # "yes"
      BY <1>1, <2>5, AtReturn DEF Answers
    <3>2. Repository!Active(t)
      BY <1>3, <3>1 DEF Knows, ChangeKnows
    <3>3. Knows(u)'
      BY <1>1, <1>3, <1>7, <2>1, <3>1, <3>2 DEF Knows, ReadingKnows, ContextKnows, ListKnows, ChangeKnows,
         Repository!Active, Repository!Changes
    <3>4. u \in tasks' /\ \A kinds : (t.kind \in kinds => Called(kinds)') /\ (Called(kinds) => Called(kinds)')
      BY <1>3, <2>1, <2>2, <3>1 DEF Called
    <3>5. (BeingRead => BeingRead') /\ (BeingBound => BeingBound')
      BY <1>1, <2>1, <2>2 DEF BeingRead, BeingBound, Repository!Active
    <3>6. AccountFits'
      <4>1. CASE t.kind \in {"connect", "disconnect"}
        BY <3>4, <4>1 DEF AccountFits
      <4>2. CASE t.kind = "link"
        BY <1>1, <1>3, <1>7, <3>1, <3>4, <3>5, <4>2 DEF AccountFits
      <4> QED BY <1>3, <4>1, <4>2 DEF Repository!Changes
    <3>7. BindingFits'
      <4>1. CASE t.kind \in {"connect", "disconnect"}
        BY <2>1, <3>4, <4>1 DEF BindingFits, BeingBound
      <4>2. CASE t.kind = "link"
        BY <3>4, <4>2 DEF BindingFits
      <4> QED BY <1>3, <4>1, <4>2 DEF Repository!Changes
    <3> QED BY <3>3, <3>6, <3>7
  <2> USE DEF u
  <2> QED BY <1>1, <1>4, <1>7, <2>3, <2>4, <2>5, AnswerKeeps
<1>8. CASE t.step = "connect"
  <2>1. CASE native.cleanup
    BY <1>6, <1>8, <2>1 DEF Repository!Call
  <2>2. CASE ~native.cleanup
    <3>1. native' = [native EXCEPT !.connected = TRUE] /\ Repository!Answered(t, "yes")
      BY <1>8, <2>2 DEF Repository!Call
    <3> QED BY <1>4, <1>7, <1>8, <3>1 DEF Store
  <2> QED BY <2>1, <2>2
<1>9. CASE t.step = "disconnect"
  <2>1. native' = [native EXCEPT !.connected = FALSE, !.cleanup = FALSE] /\ Repository!Answered(t, "yes")
    BY <1>9 DEF Repository!Call
  <2> QED BY <1>4, <1>7, <1>9, <2>1 DEF Store
<1>10. CASE t.step = "link"
  <2>1. CASE ~native.connected
    BY <1>6, <1>10, <2>1 DEF Repository!Call
  <2>2. CASE native.connected
    <3>1. native' = [native EXCEPT !.bindings = @ \cup {t.root}] /\ Repository!Answered(t, "yes")
      BY <1>10, <2>2 DEF Repository!Call
    <3>2. t.root \in Workspaces
      BY <1>3, <1>10, AtReturn DEF FlowFits, StepFits
    <3> QED BY <1>4, <1>7, <1>10, <2>2, <3>1, <3>2 DEF Store
  <2> QED BY <2>1, <2>2
<1> QED BY <1>8, <1>9, <1>10 DEF Repository!Changes

\* A call fails.
LEMMA CallFailsKeeps ==
  ASSUME RepositoryInvariant, NEW t \in tasks, Repository!CallFails(t)
  PROVE  RepositoryInvariant'
<1>1. /\ t.answer = None /\ t.step # "choose" /\ broken' = TRUE
      /\ UNCHANGED <<workspace, scope, identity, fresh, ui, stale, late, commands, switches>>
  BY DEF Repository!CallFails
<1> DEFINE a == IF t.step = "disconnect" \/ (t.step = "account" /\ native.cleanup) THEN "cleanup" ELSE "error"
<1>2. Repository!Answered(t, a)
  BY DEF Repository!CallFails
<1>3. native' \in Store
  <2>1. native \in Store
    BY AtReturn DEF WindowTyped
  <2>2. native' = IF t.step = "disconnect" THEN [native EXCEPT !.connected = FALSE, !.cleanup = TRUE] ELSE native
    BY DEF Repository!CallFails
  <2>3. native' \in Store
    BY <2>1, <2>2 DEF Store
  <2> QED BY <2>3
<1>4. a \in Answers /\ a \in {"cleanup", "error"}
  BY DEF Answers
<1> HIDE DEF a
<1>5. Answerable([t EXCEPT !.answer = a])
  BY <1>1, <1>4, AtReturn DEF Flows, Answerable
<1> QED BY <1>1, <1>2, <1>3, <1>4, <1>5, AnswerKeeps
\* The window continues a flow, or a call of it is answered.
LEMMA ReturnedKeeps ==
  ASSUME RepositoryInvariant, NEW t \in tasks, Repository!Returned(t)
  PROVE  RepositoryInvariant'
<1>1. CASE Repository!IdentityReturns(t)
  BY <1>1, IdentityReturnsKeeps
<1>2. CASE Repository!ConnectReturns(t)
  BY <1>2, ConnectReturnsKeeps
<1>3. CASE Repository!ListReturns(t)
  BY <1>3, ListReturnsKeeps
<1>4. CASE Repository!DisconnectReturns(t)
  BY <1>4, DisconnectReturnsKeeps
<1>5. CASE Repository!LinkReturns(t)
  BY <1>5, LinkReturnsKeeps
<1>6. CASE Repository!LinkedReturns(t)
  BY <1>6, LinkedReturnsKeeps
<1>7. CASE Repository!ContextReturns(t)
  BY <1>7, ContextReturnsKeeps
<1>8. CASE Repository!RefreshReturns(t)
  BY <1>8, RefreshReturnsKeeps
<1>9. CASE Repository!Save(t)
  BY <1>9, SaveKeeps
<1>10. CASE Repository!SaveReturns(t)
  BY <1>10, SaveReturnsKeeps
<1>11. CASE Repository!SyncReturns(t)
  BY <1>11, SyncReturnsKeeps
<1>12. CASE Repository!ReloadReturns(t)
  BY <1>12, ReloadReturnsKeeps
<1>13. CASE Repository!Call(t)
  <2>1. t.step \in Steps /\ t.step \notin {"save", "choose"}
    BY <1>13, AtReturn DEF Repository!Call
  <2>2. CASE t.step \in Repository!Changes
    BY <1>13, <2>2, ChangeCallKeeps
  <2>3. CASE t.step \notin Repository!Changes
    <3>1. t.step \in {"account", "binding", "list", "status", "sync", "reload"}
      BY <2>1, <2>3 DEF Steps, Repository!Changes
    <3> QED BY <1>13, <3>1, ReadKeeps
  <2> QED BY <2>2, <2>3
<1>14. CASE Repository!ChooseNothing(t)
  BY <1>14, ChooseNothingKeeps
<1> QED BY <1>1, <1>2, <1>3, <1>4, <1>5, <1>6, <1>7, <1>8, <1>9, <1>10, <1>11, <1>12, <1>13,
   <1>14 DEF Repository!Returned

(* The user. *)

\* What the window is at any time.
LEMMA AtRest ==
  ASSUME RepositoryInvariant
  PROVE  /\ WindowTyped /\ NoCleanup /\ Repository!ReadingsStay /\ SyncFits /\ (ui.syncing <=> \E s \in tasks : s.kind = "sync")
         /\ Sound => Apart /\ AccountFits /\ BindingFits
         /\ workspace \in Workspaces \cup {None} /\ scope \in Nat /\ commands \in Int /\ ui \in Ui /\ identity \in Identity
         /\ stale \in BOOLEAN /\ late \in BOOLEAN /\ ui.root \in Workspaces \cup {None} /\ None \notin Answers
         /\ late \/ ui.status \in {None, workspace}
         /\ \A t \in tasks : FlowFits(t) /\ (Sound => Knows(t))
BY PartsAssumption DEF RepositoryInvariant, SyncFits, WindowTyped, Ui, Repository!WorkflowAssumption, Answers,
   Repository!ReadingsStay

\* The window alone changes.
LEMMA UiKeeps ==
  ASSUME RepositoryInvariant, UNCHANGED <<workspace, scope, identity, fresh, tasks, native, stale, late, broken, switches, commands>>,
         ui' \in Ui, ui'.syncing <=> ui.syncing, late \/ ui'.status \in {None, workspace}
  PROVE  RepositoryInvariant'
<1>1. WindowTyped' /\ NoCleanup' /\ Repository!ReadingsStay' /\ SyncFits'
  BY AtRest DEF WindowTyped, NoCleanup, Repository!ReadingsStay, SyncFits
<1>2. \A kinds : Called(kinds)' <=> Called(kinds)
  BY DEF Called
<1>3. Sound' <=> Sound
  BY DEF Sound
<1>4. ASSUME NEW t \in tasks' PROVE FlowFits(t)' /\ (Sound' => Knows(t)')
  <2>1. t \in tasks /\ FlowFits(t) /\ (Sound => Knows(t))
    BY <1>4, AtRest
  <2>2. FlowFits(t)'
    BY <2>1 DEF FlowFits, RootFits, Repository!Active
  <2>3. Sound => Knows(t)'
    BY <1>2, <2>1, OthersKnow
  <2> QED BY <1>3, <2>2, <2>3
<1>5. Sound => Apart' /\ AccountFits' /\ BindingFits'
  BY <1>2, AtRest DEF Apart, AccountFits, BindingFits, BeingRead, BeingBound, Repository!Active
<1> QED BY <1>1, <1>3, <1>4, <1>5 DEF RepositoryInvariant

\* A flow begins.
LEMMA BeginKeeps ==
  ASSUME RepositoryInvariant, NEW kind \in Kinds \ {"identity"}, NEW place \in Workspaces \cup {None}, NEW step \in Steps,
         Repository!Begin(kind, place, step), Repository!UserOnly, StepFits([kind |-> kind, root |-> place, step |-> step]),
         kind \notin {"link", "disconnect"} => place = workspace,
         kind \in {"refresh", "sync"} => step = "account",
         kind \in {"connect", "disconnect", "link"} => step = kind,
         kind \in {"dialog", "link"} => identity.account,
         kind = "sync" => ~ui.syncing, ui'.syncing <=> ui.syncing \/ kind = "sync",
         ui' \in Ui, late \/ ui'.status \in {None, workspace}
  PROVE  RepositoryInvariant'
<1>0. PICK u : u = [kind |-> kind, number |-> commands, scope |-> scope, root |-> place, step |-> step,
                    answer |-> None, memo |-> "none"]
  OBVIOUS
<1>1. /\ tasks' = tasks \cup {u} /\ stale' = (stale \/ Repository!Meets(kind)) /\ commands' = commands - 1
      /\ UNCHANGED <<workspace, scope, identity, fresh, native, late, broken, switches>>
  BY <1>0 DEF Repository!Begin, Repository!UserOnly
<1>2. /\ u.kind = kind /\ u.scope = scope /\ u.root = place /\ u.step = step /\ u.answer = None
  BY <1>0
<1>3. FlowFits(u)'
  <2>1. u \in Flows
    BY <1>0, AtRest DEF Flows
  <2>2. StepFits(u)
    BY <1>0 DEF StepFits
  <2>3. Answerable(u) /\ AnswerFits(u)
    BY <1>0 DEF Answerable, AnswerFits
  <2>4. RootFits(u)'
    BY <1>0, <1>1, AtRest DEF RootFits, Repository!Active
  <2> QED BY <1>1, <2>1, <2>2, <2>3, <2>4 DEF FlowFits, StepFits, Answerable, AnswerFits
<1>4. WindowTyped'
  <2>1. Repository!Meets(kind) \in BOOLEAN
    BY DEF Repository!Meets
  <2>2. commands' \in Int
    BY <1>1, AtRest
  <2> QED BY <1>1, <2>1, <2>2, AtRest DEF WindowTyped
<1>5. NoCleanup' /\ Repository!ReadingsStay'
  BY <1>1, AtRest DEF NoCleanup, Repository!ReadingsStay
<1>6. SyncFits'
  BY <1>1, <1>2, AtRest DEF SyncFits
<1>7. Sound' => Sound /\ ~Repository!Meets(kind)
  BY <1>1, AtRest DEF Sound
<1>8. \A kinds : Called(kinds) => Called(kinds)'
  BY <1>1 DEF Called
<1>9. ASSUME Sound, NEW o \in tasks PROVE Knows(o)'
  <2>1. Knows(o) /\ identity'.account = identity.account /\ (native'.connected <=> native.connected)
        /\ native'.bindings = native.bindings /\ UNCHANGED <<workspace, scope>> /\ (fresh' => fresh)
    BY <1>1, <1>9, AtRest
  <2> QED BY <1>8, <2>1, OthersKnow
<1>10. ASSUME Sound PROVE Knows(u)'
  <2>1. u.answer # "yes"
    BY <1>2, AtRest DEF Answers
  <2> QED BY <1>1, <1>2, <2>1 DEF Knows, ReadingKnows, ContextKnows, ListKnows, ChangeKnows, Repository!Active,
     Repository!Changes
<1>11. ASSUME Sound' PROVE Apart'
  <2>1. SUFFICES ASSUME NEW c \in tasks', NEW o \in tasks', c.kind \in Repository!Changes, Repository!Active(o)', o.kind # "identity"
                 PROVE  o = c
    BY DEF Apart
  <2>2. \A p \in tasks : Repository!Active(p) /\ p.kind # "identity" => p.kind \notin Repository!Changes /\ kind \notin Repository!Changes
    BY <1>7, <1>11 DEF Repository!Meets
  <2>3. Repository!Active(o) /\ (c \in tasks => Repository!Active(c))
    BY <1>1, <1>7, <1>11, <2>1, AtRest DEF Repository!Active, Knows, ChangeKnows
  <2>4. c = u
    BY <1>1, <2>1, <2>2, <2>3 DEF Repository!Changes
  <2>5. o = u
    BY <1>1, <1>2, <2>1, <2>2, <2>3, <2>4
  <2> QED BY <2>4, <2>5
<1>12. ASSUME Sound PROVE AccountFits' /\ BindingFits'
  <2>1. BeingRead => BeingRead'
    BY <1>1 DEF BeingRead, Repository!Active
  <2>2. BeingBound => BeingBound'
    BY <1>1 DEF BeingBound, Repository!Active
  <2>3. AccountFits /\ BindingFits
    BY <1>12, AtRest
  <2> QED BY <1>1, <1>8, <2>1, <2>2, <2>3 DEF AccountFits, BindingFits
<1>13. \A o \in tasks' : FlowFits(o)'
  <2>1. \A o \in tasks : FlowFits(o)'
    BY <1>1, AtRest DEF FlowFits, RootFits, Repository!Active
  <2> QED BY <1>1, <1>3, <2>1
<1> QED BY <1>1, <1>4, <1>5, <1>6, <1>7, <1>9, <1>10, <1>11, <1>12, <1>13 DEF RepositoryInvariant
\* What the user does in the dialogs.
LEMMA UserKeeps ==
  ASSUME RepositoryInvariant, Repository!User
  PROVE  RepositoryInvariant'
<1>1. /\ Repository!Started(ui) \in Ui /\ Repository!Started(ui).status = ui.status /\ (Repository!Started(ui).syncing <=> ui.syncing)
  BY AtRest, UiFacts
<1>2. CASE Repository!OpenConnect
  <2>1. ui' \in Ui /\ ui'.status = ui.status /\ (ui'.syncing <=> ui.syncing)
    BY <1>2, AtRest DEF Repository!OpenConnect, Ui
  <2> QED BY <1>2, <2>1, AtRest, UiKeeps DEF Repository!OpenConnect, Repository!UserOnly
<1>3. CASE Repository!CloseDialog
  <2>1. ui' \in Ui /\ ui'.status = ui.status /\ (ui'.syncing <=> ui.syncing)
    BY <1>3, AtRest DEF Repository!CloseDialog, Ui
  <2> QED BY <1>3, <2>1, AtRest, UiKeeps DEF Repository!CloseDialog, Repository!UserOnly
<1>4. CASE Repository!Connect
  <2>1. ui' \in Ui /\ ui'.status = ui.status /\ (ui'.syncing <=> ui.syncing)
    BY <1>4, AtRest DEF Repository!Connect, Ui
  <2>2. /\ "connect" \in Kinds \ {"identity"} /\ "connect" \in Steps
        /\ StepFits([kind |-> "connect", root |-> workspace, step |-> "connect"])
    BY DEF Kinds, Steps, StepFits
  <2> QED BY <1>4, <2>1, <2>2, AtRest, BeginKeeps DEF Repository!Connect
<1>5. CASE Repository!Disconnect
  <2>1. ui' \in Ui /\ ui'.status = ui.status /\ (ui'.syncing <=> ui.syncing)
    BY <1>5, AtRest DEF Repository!Disconnect, Ui
  <2>2. /\ "disconnect" \in Kinds \ {"identity"} /\ "disconnect" \in Steps
        /\ StepFits([kind |-> "disconnect", root |-> None, step |-> "disconnect"])
    BY DEF Kinds, Steps, StepFits
  <2> QED BY <1>5, <2>1, <2>2, AtRest, BeginKeeps DEF Repository!Disconnect
<1>6. CASE Repository!OpenLink
  <2> DEFINE step == IF workspace = None THEN "choose" ELSE "list"
  <2>1. Repository!Begin("dialog", workspace, step) /\ Repository!UserOnly /\ identity.account
    BY <1>6 DEF Repository!OpenLink, Repository!Enabled
  <2>2. ui' \in Ui /\ ui'.status = ui.status /\ (ui'.syncing <=> ui.syncing)
    BY <1>6, AtRest DEF Repository!OpenLink, Ui
  <2>3. /\ "dialog" \in Kinds \ {"identity"} /\ step \in Steps
        /\ StepFits([kind |-> "dialog", root |-> workspace, step |-> step])
    BY DEF Kinds, Steps, StepFits
  <2> HIDE DEF step
  <2> QED BY <2>1, <2>2, <2>3, AtRest, BeginKeeps
<1>7. CASE Repository!Link
  <2>1. PICK place \in Workspaces : Repository!Begin("link", place, "link") /\ Repository!UserOnly /\ identity.account
    BY <1>7, AtRest DEF Repository!Link, Repository!LinkShown
  <2>2. ui' \in Ui /\ ui'.status = ui.status /\ (ui'.syncing <=> ui.syncing)
    BY <1>7, AtRest DEF Repository!Link, Ui
  <2>3. /\ "link" \in Kinds \ {"identity"} /\ "link" \in Steps /\ place # None
        /\ StepFits([kind |-> "link", root |-> place, step |-> "link"])
    BY PartsAssumption DEF Kinds, Steps, StepFits, Repository!WorkflowAssumption
  <2> QED BY <2>1, <2>2, <2>3, AtRest, BeginKeeps
<1>8. CASE Repository!RefreshStatus
  <2>1. ui' \in Ui /\ ui'.status = ui.status /\ (ui'.syncing <=> ui.syncing)
    <3> HIDE DEF Repository!Started
    <3> QED BY <1>1, <1>8, AtRest DEF Repository!RefreshStatus, Ui
  <2>2. /\ "refresh" \in Kinds \ {"identity"} /\ "account" \in Steps
        /\ StepFits([kind |-> "refresh", root |-> workspace, step |-> "account"])
    BY DEF Kinds, Steps, StepFits
  <2> QED BY <1>8, <2>1, <2>2, AtRest, BeginKeeps DEF Repository!RefreshStatus
<1>9. CASE Repository!Sync
  <2>1. ui' \in Ui /\ ui'.status = ui.status /\ ui'.syncing /\ ~ui.syncing
    <3> HIDE DEF Repository!Started
    <3> QED BY <1>1, <1>9, AtRest DEF Repository!Sync, Ui
  <2>2. /\ "sync" \in Kinds \ {"identity"} /\ "account" \in Steps
        /\ StepFits([kind |-> "sync", root |-> workspace, step |-> "account"])
    BY DEF Kinds, Steps, StepFits
  <2> QED BY <1>9, <2>1, <2>2, AtRest, BeginKeeps DEF Repository!Sync
<1> QED BY <1>2, <1>3, <1>4, <1>5, <1>6, <1>7, <1>8, <1>9 DEF Repository!User

\* What is typed and what the user saves.
LEMMA DocumentsKeep ==
  ASSUME RepositoryInvariant, NEW d, Repository!SaveByUser(d) \/ \E text \in Contents : Repository!Edit(d, text)
  PROVE  RepositoryInvariant'
<1>1. UNCHANGED <<workspace, scope, identity, fresh, ui, tasks, native, stale, late, broken, switches, commands>>
  BY DEF Repository!Edit, Repository!SaveByUser
<1> QED BY <1>1, AtRest, UiKeeps

\* Another workspace is open: what the flows of the last one find counts no more.
LEMMA EnteredKeeps ==
  ASSUME RepositoryInvariant, NEW w \in Workspaces, NEW others, Repository!Entered(w, others),
         UNCHANGED <<native, late, broken, commands>>,
         ui' \in Ui, ui'.status = None, ui'.syncing <=> ui.syncing,
         \A o \in others : \E t \in tasks : /\ o.kind = t.kind /\ o.scope = t.scope
                                            /\ o \in Flows /\ StepFits(o) /\ Answerable(o) /\ (~broken => AnswerFits(o)),
         \A o \in others : o.kind = "sync" => o \in tasks,
         \A t \in tasks : t.kind = "sync" => t \in others
  PROVE  RepositoryInvariant'
<1> DEFINE r == Repository!Reading(scope + 1, w)
<1>1. /\ workspace' = w /\ scope' = scope + 1 /\ fresh' = TRUE /\ switches > 0 /\ switches' = switches - 1
      /\ identity' = [identity EXCEPT !.binding = None] /\ stale' = (stale \/ Repository!Changing)
      /\ UNCHANGED <<native, late, broken, commands>>
  BY DEF Repository!Entered
<1>2. PICK u : u = r
  OBVIOUS
<1>3. tasks' = others \cup {u}
  BY <1>2 DEF Repository!Entered
<1>4. /\ u.kind = "identity" /\ u.scope = scope' /\ u.root = w /\ u.step = "account" /\ u.answer = None
      /\ u \in Flows
  BY <1>1, <1>2, AtRest DEF Repository!Reading, Flows, Kinds, Steps
<1> HIDE DEF r
<1>5. identity' \in Identity /\ identity'.binding = None /\ identity'.account = identity.account /\ identity'.cleanup = identity.cleanup
  BY <1>1, AtRest DEF Identity
<1>6. WindowTyped'
  <2>1. Repository!Changing \in BOOLEAN
    BY DEF Repository!Changing
  <2> QED BY <1>1, <1>5, <2>1, AtRest DEF WindowTyped
<1>7. NoCleanup' /\ Repository!ReadingsStay'
  BY <1>1, <1>5, AtRest DEF NoCleanup, Repository!ReadingsStay
<1>8. SyncFits'
  BY <1>3, <1>4, AtRest DEF SyncFits
<1>9. ASSUME NEW o \in others
      PROVE  FlowFits(o)' /\ ~Repository!Active(o)' /\ (Sound' => o.kind \notin Repository!Changes)
  <2>1. PICK t \in tasks : /\ o.kind = t.kind /\ o.scope = t.scope
                           /\ o \in Flows /\ StepFits(o) /\ Answerable(o) /\ (~broken => AnswerFits(o))
    OBVIOUS
  <2>2. t.scope <= scope /\ t.scope \in Nat /\ scope \in Nat
    BY AtRest DEF FlowFits, RootFits, Flows
  <2>3. ~Repository!Active(o)' /\ o.scope <= scope'
    BY <1>1, <2>1, <2>2 DEF Repository!Active
  <2>4. Sound' => o.kind \notin Repository!Changes
    BY <1>1, <2>1, AtRest DEF Sound, Repository!Changing
  <2>5. FlowFits(o)'
    BY <1>1, <2>1, <2>3 DEF FlowFits, StepFits, Answerable, AnswerFits, RootFits
  <2> QED BY <2>3, <2>4, <2>5
<1>10. FlowFits(u)'
  BY <1>1, <1>4, AtRest DEF FlowFits, StepFits, Answerable, AnswerFits, RootFits, Repository!Active
<1>11. \A o \in tasks' : FlowFits(o)'
  BY <1>3, <1>9, <1>10
<1>12. ASSUME Sound', NEW o \in tasks' PROVE Knows(o)'
  <2>1. CASE o \in others
    <3>1. ~Repository!Active(o)' /\ o.kind \notin Repository!Changes
      BY <1>9, <1>12, <2>1
    <3> QED BY <3>1 DEF Knows, ReadingKnows, ContextKnows, ListKnows, ChangeKnows, Repository!Changes
  <2>2. CASE o = u
    BY <1>4, <2>2 DEF Knows, ReadingKnows, ContextKnows, ListKnows, ChangeKnows, Repository!Changes
  <2> QED BY <1>3, <2>1, <2>2
<1>13. Apart'
  BY <1>3, <1>4, <1>9 DEF Apart
<1>14. BeingRead'
  BY <1>1, <1>3, <1>4 DEF BeingRead, Repository!Active
<1> QED BY <1>6, <1>7, <1>8, <1>11, <1>12, <1>13, <1>14 DEF RepositoryInvariant, AccountFits, BindingFits

\* The user opens another workspace.
LEMMA SwitchKeeps ==
  ASSUME RepositoryInvariant, NEW w \in Workspaces, Repository!Switch(w)
  PROVE  RepositoryInvariant'
<1>1. Repository!Entered(w, tasks) /\ ui' = Repository!Left(ui) /\ UNCHANGED <<native, late, broken, commands>>
  BY DEF Repository!Switch
<1>2. ui' \in Ui /\ ui'.status = None /\ (ui'.syncing <=> ui.syncing)
  BY <1>1, AtRest, UiFacts
<1>3. \A o \in tasks : /\ o \in Flows /\ StepFits(o) /\ Answerable(o) /\ (~broken => AnswerFits(o))
  BY AtRest DEF FlowFits
<1> QED BY <1>1, <1>2, <1>3, EnteredKeeps

\* A folder is chosen to be linked.
LEMMA ChooseKeeps ==
  ASSUME RepositoryInvariant, NEW t \in tasks, NEW w \in Workspaces, Repository!Choose(t, w)
  PROVE  RepositoryInvariant'
<1> DEFINE u == [t EXCEPT !.step = "list", !.root = w]
<1>1. t.step = "choose" /\ UNCHANGED <<native, late, broken, commands>>
  BY DEF Repository!Choose
<1>2. t.kind \in {"dialog", "connect"} /\ t.root = None
  BY <1>1, AtReturn DEF FlowFits, StepFits, Kinds
<1>3. u.kind = t.kind /\ u.scope = t.scope /\ u.root = w /\ u.step = "list" /\ u.answer = t.answer /\ u \in Flows
  BY AtReturn DEF Flows, Steps
<1>4. t.answer = None
  BY <1>1, AtReturn DEF FlowFits, Answerable
<1>5. StepFits(u) /\ Answerable(u) /\ AnswerFits(u)
  BY <1>2, <1>3, <1>4 DEF StepFits, Answerable, AnswerFits
<1> HIDE DEF u
<1>6. Repository!ListingUi(ui, w) \in Ui /\ Repository!ListingUi(ui, w).status = ui.status /\ (Repository!ListingUi(ui, w).syncing <=> ui.syncing)
  BY AtRest, UiFacts
<1>7. CASE w = workspace
  <2>1. /\ tasks' = (tasks \ {t}) \cup {u} /\ ui' = Repository!ListingUi(ui, w)
        /\ workspace' = workspace /\ scope' = scope /\ identity' = identity /\ fresh' = fresh /\ stale' = stale /\ switches' = switches
    BY <1>7 DEF Repository!Choose, u
  <2>2. ~Repository!Active(t) /\ ~Repository!Active(u)'
    BY <1>2, <1>3, <1>7, <2>1, PartsAssumption, AtReturn DEF Repository!WorkflowAssumption, Repository!Active
  <2>3. FlowFits(u)'
    <3>1. u.scope <= scope'
      BY <1>3, <2>1, AtReturn DEF FlowFits, RootFits
    <3> QED BY <1>3, <1>5, <2>2, <3>1 DEF FlowFits, StepFits, Answerable, AnswerFits, RootFits
  <2>4. Becomes(t, {u})
    BY <1>3, <2>1, <2>3 DEF Becomes
  <2>5. WindowTyped' /\ NoCleanup' /\ Repository!ReadingsStay'
    BY <1>1, <1>6, <2>1, AtRest DEF WindowTyped, NoCleanup, Repository!ReadingsStay
  <2>6. ASSUME Sound' PROVE /\ Called({"connect", "disconnect"}) => Called({"connect", "disconnect"})'
                            /\ Called({"link"}) => Called({"link"})'
                            /\ Knows(u)' /\ AccountFits' /\ BindingFits'
    <3>1. Sound
      BY <1>1, <2>1, <2>6 DEF Sound
    <3>2. t.kind \notin Repository!Changes /\ AccountFits /\ BindingFits
      BY <2>2, <3>1, AtReturn DEF Knows, ChangeKnows
    <3>3. Knows(u)'
      BY <1>3, <2>2, <3>2 DEF Knows, ReadingKnows, ContextKnows, ListKnows, ChangeKnows, Repository!Changes
    <3>4. tasks \ {t} \subseteq tasks' /\ UNCHANGED scope
      BY <2>1
    <3>5. \A kinds : Called(kinds) => Called(kinds)'
      <4>1. t.answer # "yes"
        BY <1>4, AtReturn DEF Answers
      <4> QED BY <3>4, <4>1, WitnessesStay
    <3>6. (BeingRead => BeingRead') /\ (BeingBound => BeingBound')
      BY <1>1, <2>1, <2>2, <3>2, <3>4, WitnessesStay DEF Repository!Changes
    <3> QED BY <1>1, <2>1, <3>2, <3>3, <3>5, <3>6 DEF AccountFits, BindingFits
  <2>7. ui'.syncing <=> (ui.syncing /\ ~(t.kind = "sync" /\ {u} = {}))
    BY <1>6, <2>1
  <2> QED BY <1>1, <2>1, <2>4, <2>5, <2>6, <2>7, FlowKeeps
<1>8. CASE w # workspace
  <2> DEFINE others == (tasks \ {t}) \cup {u}
  <2>1. Repository!Entered(w, others) /\ ui' = Repository!ListingUi(Repository!Left(ui), w)
    BY <1>8 DEF Repository!Choose, u
  <2>2. Repository!Left(ui) \in Ui /\ Repository!Left(ui).status = None /\ (Repository!Left(ui).syncing <=> ui.syncing)
    BY AtRest, UiFacts
  <2>3. ui' \in Ui /\ ui'.status = None /\ (ui'.syncing <=> ui.syncing)
    BY <2>1, <2>2, UiFacts
  <2>4. \A o \in others : \E p \in tasks : /\ o.kind = p.kind /\ o.scope = p.scope
                                           /\ o \in Flows /\ StepFits(o) /\ Answerable(o) /\ (~broken => AnswerFits(o))
    BY <1>3, <1>5, AtRest DEF FlowFits
  <2>5. \A o \in others : o.kind = "sync" => o \in tasks
    BY <1>2, <1>3
  <2>6. \A p \in tasks : p.kind = "sync" => p \in others
    BY <1>2
  <2> HIDE DEF others
  <2> QED BY <1>1, <2>1, <2>3, <2>4, <2>5, <2>6, EnteredKeeps
<1> QED BY <1>7, <1>8

\* It holds at first,
LEMMA RepositoryInitFits == Repository!Init => RepositoryInvariant
<1>1. SUFFICES ASSUME Repository!Init PROVE RepositoryInvariant
  OBVIOUS
<1>2. PICK r : r = Repository!Reading(1, workspace)
  OBVIOUS
<1>3. /\ r.kind = "identity" /\ r.scope = 1 /\ r.root = workspace /\ r.step = "account" /\ r.answer = None /\ r \in Flows
      /\ tasks = {r} /\ scope = 1
  BY <1>1, <1>2 DEF Repository!Init, Repository!Reading, Flows, Kinds, Steps
<1>4. WindowTyped
  <2>1. ui \in Ui /\ identity \in Identity /\ native \in Store
    BY <1>1, PartsAssumption DEF Repository!Init, Ui, Identity, Store, Repository!WorkflowAssumption
  <2>2. /\ scope \in Nat /\ switches \in Nat /\ scope >= 1 /\ scope + switches = MaxSwitches + 1 /\ commands \in Int
    BY <1>1, PartsAssumption DEF Repository!Init, Repository!WorkflowAssumption
  <2>3. /\ workspace \in Workspaces \cup {None}
        /\ fresh \in BOOLEAN /\ stale \in BOOLEAN /\ late \in BOOLEAN /\ broken \in BOOLEAN
    BY <1>1 DEF Repository!Init
  <2> QED BY <2>1, <2>2, <2>3 DEF WindowTyped
<1>5. NoCleanup /\ Repository!ReadingsStay
  BY <1>1 DEF Repository!Init, NoCleanup, Repository!ReadingsStay
<1>6. SyncFits
  BY <1>1, <1>3 DEF Repository!Init, SyncFits
<1>7. FlowFits(r)
  BY <1>3 DEF FlowFits, StepFits, Answerable, AnswerFits, RootFits
<1>8. Knows(r)
  BY <1>3 DEF Knows, ReadingKnows, ContextKnows, ListKnows, ChangeKnows, Repository!Changes
<1>9. Apart
  BY <1>3 DEF Apart
<1>10. BeingRead
  BY <1>1, <1>3 DEF Repository!Init, BeingRead, Repository!Active
<1> QED BY <1>3, <1>4, <1>5, <1>6, <1>7, <1>8, <1>9, <1>10 DEF RepositoryInvariant, AccountFits, BindingFits

\* and every step keeps it.
LEMMA RepositoryNextKeeps == RepositoryInvariant /\ [Repository!Next]_(Repository!vars) => RepositoryInvariant'
<1>1. SUFFICES ASSUME RepositoryInvariant, [Repository!Next]_(Repository!vars) PROVE RepositoryInvariant'
  OBVIOUS
<1>2. CASE Repository!User
  BY <1>1, <1>2, UserKeeps
<1>3. ASSUME NEW d \in Documents, Repository!SaveByUser(d) \/ \E text \in Contents : Repository!Edit(d, text)
      PROVE  RepositoryInvariant'
  BY <1>1, <1>3, DocumentsKeep
<1>4. ASSUME NEW w \in Workspaces, Repository!Switch(w) PROVE RepositoryInvariant'
  BY <1>1, <1>4, SwitchKeeps
<1>5. ASSUME NEW t \in tasks, Repository!Returned(t) PROVE RepositoryInvariant'
  BY <1>1, <1>5, ReturnedKeeps
<1>6. ASSUME NEW t \in tasks, Repository!CallFails(t) PROVE RepositoryInvariant'
  BY <1>1, <1>6, CallFailsKeeps
<1>7. ASSUME NEW t \in tasks, NEW w \in Workspaces, Repository!Choose(t, w) PROVE RepositoryInvariant'
  BY <1>1, <1>7, ChooseKeeps
<1>8. CASE UNCHANGED Repository!vars
  <2>1. /\ UNCHANGED <<workspace, scope, identity, fresh, tasks, native, stale, late, broken, switches, commands>>
        /\ ui' = ui
    BY <1>8 DEF Repository!vars, Repository!bounds
  <2> QED BY <1>1, <2>1, AtRest, UiKeeps
<1> QED BY <1>1, <1>2, <1>3, <1>4, <1>5, <1>6, <1>7, <1>8 DEF Repository!Next

\* What an answered call adds is answered.
LEMMA AnswersAreGiven ==
  ASSUME RepositoryInvariant, NEW t \in tasks, Repository!Call(t) \/ Repository!CallFails(t)
  PROVE  /\ t.step # "save" /\ UNCHANGED <<documents, gate>> /\ tasks \ {t} \subseteq tasks'
         /\ \A s \in tasks' \ tasks : s.step = t.step /\ s.answer # None
<1>1. PICK a \in Answers : Repository!Answered(t, a)
  <2>1. CASE Repository!CallFails(t)
    BY <2>1 DEF Repository!CallFails, Answers
  <2>2. CASE Repository!Call(t)
    <3>1. t.step \in Steps \ {"save", "choose"}
      BY <2>2, AtReturn DEF Repository!Call
    <3>2. CASE t.step \in {"account", "binding", "list"}
      BY <2>2, <3>2 DEF Repository!Call, Answers
    <3>3. CASE t.step \in {"connect", "disconnect", "link"}
      BY <2>2, <3>3 DEF Repository!Call, Answers
    <3>4. CASE t.step \in {"status", "sync", "reload"}
      BY <2>2, <3>4 DEF Repository!Call, Answers
    <3> QED BY <3>1, <3>2, <3>3, <3>4 DEF Steps
  <2> QED BY <2>1, <2>2
<1>2. tasks' = (tasks \ {t}) \cup {[t EXCEPT !.answer = a]}
  BY <1>1 DEF Repository!Answered
<1>3. t.step # "save" /\ UNCHANGED <<documents, gate>>
  BY DEF Repository!Call, Repository!CallFails
<1> QED BY <1>2, <1>3, AtReturn DEF Flows

(* The documents saved before a sync. *)

Gates == [at : Documents \cup {None}, text : Contents \cup {None}, todo : SUBSET Documents,
          saved : SUBSET (Documents \X Contents), other : SUBSET Documents]
Kept == [Documents -> [text : Contents, stored : Contents, dirty : BOOLEAN]]
Saving == {s \in tasks : s.step = "save"}

\* What the batch has saved is stored, unless the user saved the document otherwise.
GateFits(s) ==
  /\ gate.at \in Documents \ gate.todo /\ gate.text \in Contents
  /\ s.answer \in {None, "yes", "error"}
  /\ s.answer = "yes" => documents[gate.at].stored = gate.text
  /\ ~documents[gate.at].dirty => documents[gate.at].text = gate.text
  /\ \A d, x : <<d, x>> \in gate.saved =>
       d \in Documents \ (gate.todo \cup {gate.at}) /\ (d \in gate.other \/ documents[d].stored = x)

GateInvariant ==
  /\ documents \in Kept /\ gate \in Gates
  /\ \A d \in Documents : documents[d].dirty \/ documents[d].text = documents[d].stored
  /\ Saving = {} => gate = Repository!NoGate
  /\ \A s \in Saving : GateFits(s)

LEMMA NoGateIs == Repository!NoGate \in Gates
BY DEF Gates, Repository!NoGate

\* A step that neither saves nor types.
LEMMA GateStays ==
  ASSUME GateInvariant, UNCHANGED <<documents, gate>>, Saving' = Saving
  PROVE  GateInvariant'
BY DEF GateInvariant, GateFits

\* One batch is under way at a time.
LEMMA OneBatch ==
  ASSUME RepositoryInvariant, NEW s \in tasks, s.step = "save"
  PROVE  s.kind = "sync" /\ Saving = {s}
<1>1. \A o \in tasks : o.step = "save" => o.kind = "sync"
  <2>1. SUFFICES ASSUME NEW o \in tasks, o.step = "save" PROVE o.kind = "sync"
    OBVIOUS
  <2>2. o.kind \in Kinds /\ StepFits(o)
    BY AtReturn DEF FlowFits
  <2> QED BY <2>1, <2>2 DEF Kinds, StepFits
<1>2. \A o \in tasks : o.step = "save" => o = s
  BY <1>1 DEF RepositoryInvariant, SyncFits
<1> QED BY <1>1, <1>2 DEF Saving

\* A flow that neither saves documents nor begins to.
LEMMA OthersSaveNothing ==
  ASSUME RepositoryInvariant, NEW t \in tasks, Repository!Returned(t),
         ~Repository!Save(t), ~Repository!SaveReturns(t), ~Repository!ContextReturns(t)
  PROVE  /\ t.step # "save" /\ UNCHANGED <<documents, gate>> /\ tasks \ {t} \subseteq tasks'
         /\ \A s \in tasks' \ tasks : s.step # "save" /\ (s.step = "sync" => s.answer # None)
<1>1. t \in Flows
  BY AtReturn
<1>2. CASE Repository!Call(t)
  BY <1>2, AnswersAreGiven
<1>3. CASE Repository!IdentityReturns(t)
  <2>1. t.step # "save"
    BY <1>3, AtReturn DEF Repository!IdentityReturns, FlowFits, StepFits
  <2>2. UNCHANGED <<documents, gate>>
    BY <1>3 DEF Repository!IdentityReturns, Repository!Flow
  <2>3. \/ tasks' = tasks \ {t}
        \/ tasks' = (tasks \ {t}) \cup {[t EXCEPT !.step = "binding", !.answer = None, !.memo = t.answer]}
    BY <1>3 DEF Repository!IdentityReturns, Repository!Ends
  <2>4. \A s \in tasks' \ tasks : s.step = "binding"
    BY <1>1, <2>3 DEF Flows
  <2> QED BY <2>1, <2>2, <2>3, <2>4
<1>4. CASE Repository!ConnectReturns(t)
  <2>1. t.step # "save" /\ UNCHANGED <<documents, gate>>
    BY <1>4 DEF Repository!ConnectReturns, Repository!Returns, Repository!Flow
  <2>2. \/ tasks' = tasks \ {t}
        \/ \E step \in {"list", "choose"} : tasks' = (tasks \ {t}) \cup {[t EXCEPT !.step = step, !.answer = None]}
    BY <1>4 DEF Repository!ConnectReturns, Repository!Ends, Repository!Listing, Repository!Goes
  <2>3. ASSUME NEW s \in tasks' \ tasks PROVE s.step \in {"list", "choose"}
    <3>1. PICK step \in {"list", "choose"} : s = [t EXCEPT !.step = step, !.answer = None]
      BY <2>2
    <3>2. s.step = step
      BY <1>1, <3>1 DEF Flows
    <3> QED BY <3>2
  <2> QED BY <2>1, <2>2, <2>3
<1>5. CASE Repository!LinkReturns(t)
  <2>1. t.step # "save" /\ UNCHANGED <<documents, gate>>
    BY <1>5 DEF Repository!LinkReturns, Repository!Returns, Repository!Flow
  <2>2. \/ tasks' = tasks \ {t}
        \/ tasks' = (tasks \ {t}) \cup {[t EXCEPT !.step = "status", !.answer = None]}
    BY <1>5 DEF Repository!LinkReturns, Repository!Ends, Repository!Goes
  <2>3. \A s \in tasks' \ tasks : s.step = "status"
    BY <1>1, <2>2 DEF Flows
  <2> QED BY <2>1, <2>2, <2>3
<1>6. CASE Repository!SyncReturns(t)
  <2>1. t.step # "save" /\ UNCHANGED <<documents, gate>>
    BY <1>6 DEF Repository!SyncReturns, Repository!Returns, Repository!Flow
  <2>2. \/ tasks' = tasks \ {t}
        \/ tasks' = (tasks \ {t}) \cup {[t EXCEPT !.step = "reload", !.answer = None, !.memo = t.answer]}
    BY <1>6 DEF Repository!SyncReturns, Repository!Ends
  <2>3. \A s \in tasks' \ tasks : s.step = "reload"
    BY <1>1, <2>2 DEF Flows
  <2> QED BY <2>1, <2>2, <2>3
<1>7. CASE \/ Repository!ListReturns(t) \/ Repository!DisconnectReturns(t) \/ Repository!LinkedReturns(t)
           \/ Repository!RefreshReturns(t) \/ Repository!ReloadReturns(t) \/ Repository!ChooseNothing(t)
  <2>1. t.step # "save" /\ UNCHANGED <<documents, gate>> /\ tasks' = tasks \ {t}
    BY <1>7 DEF Repository!ListReturns, Repository!DisconnectReturns, Repository!LinkedReturns,
       Repository!RefreshReturns, Repository!ReloadReturns, Repository!ChooseNothing, Repository!Ends, Repository!Returns,
       Repository!Flow
  <2> QED BY <2>1
<1> QED BY <1>2, <1>3, <1>4, <1>5, <1>6, <1>7 DEF Repository!Returned

\* The other steps of Cloud Sync, and those of the user.
LEMMA UserSavesNothing ==
  ASSUME RepositoryInvariant,
         \/ Repository!User \/ \E w \in Workspaces : Repository!Switch(w)
         \/ \E t \in tasks : Repository!CallFails(t) \/ \E w \in Workspaces : Repository!Choose(t, w)
         \/ UNCHANGED Repository!vars
  PROVE  /\ UNCHANGED <<documents, gate>> /\ Saving' = Saving
         /\ \A s \in tasks' \ tasks : s.step = "sync" => s.answer # None
<1>1. SUFFICES /\ UNCHANGED <<documents, gate>> /\ \A s \in tasks : s.step = "save" => s \in tasks'
               /\ \A s \in tasks' \ tasks : s.step # "save" /\ (s.step = "sync" => s.answer # None)
  BY DEF Saving
<1>2. CASE Repository!User
  <2>1. UNCHANGED <<documents, gate>>
    BY <1>2 DEF Repository!User, Repository!OpenConnect, Repository!CloseDialog, Repository!Connect,
       Repository!Disconnect, Repository!OpenLink, Repository!Link, Repository!RefreshStatus, Repository!Sync,
       Repository!UserOnly
  <2>2. \/ tasks' = tasks
        \/ \E kind, place : \E step \in {"connect", "disconnect", "choose", "list", "link", "account"} : Repository!Begin(kind, place, step)
    BY <1>2 DEF Repository!User, Repository!OpenConnect, Repository!CloseDialog, Repository!Connect,
       Repository!Disconnect, Repository!OpenLink, Repository!Link, Repository!RefreshStatus, Repository!Sync
  <2> QED BY <2>1, <2>2 DEF Repository!Begin
<1>3. ASSUME NEW w \in Workspaces, NEW others, Repository!Entered(w, others)
      PROVE  \A s \in tasks' : s \in others \/ s.step = "account"
  BY <1>3 DEF Repository!Entered, Repository!Reading
<1>4. ASSUME NEW w \in Workspaces, Repository!Switch(w)
      PROVE  /\ UNCHANGED <<documents, gate>> /\ tasks \subseteq tasks'
             /\ \A s \in tasks' \ tasks : s.step = "account"
  <2>1. Repository!Entered(w, tasks) /\ UNCHANGED <<documents, gate>>
    BY <1>4 DEF Repository!Switch
  <2> QED BY <1>3, <2>1 DEF Repository!Entered
<1>5. ASSUME NEW t \in tasks, Repository!CallFails(t)
      PROVE  /\ UNCHANGED <<documents, gate>> /\ t.step # "save" /\ tasks \ {t} \subseteq tasks'
             /\ \A s \in tasks' \ tasks : s.step = t.step /\ s.answer # None
  BY <1>5, AnswersAreGiven
<1>6. ASSUME NEW t \in tasks, NEW w \in Workspaces, Repository!Choose(t, w)
      PROVE  /\ UNCHANGED <<documents, gate>> /\ t.step # "save" /\ tasks \ {t} \subseteq tasks'
             /\ \A s \in tasks' \ tasks : s.step \in {"list", "account"}
  <2> DEFINE u == [t EXCEPT !.step = "list", !.root = w]
             others == (tasks \ {t}) \cup {u}
  <2>1. t.step # "save" /\ UNCHANGED <<documents, gate>> /\ (tasks' = others \/ Repository!Entered(w, others))
    BY <1>6 DEF Repository!Choose
  <2>2. u.step = "list"
    BY AtReturn DEF Flows
  <2>3. others \subseteq tasks' /\ \A s \in tasks' : s \in others \/ s.step = "account"
    <3> HIDE DEF others
    <3>1. CASE tasks' = others
      BY <3>1
    <3>2. CASE Repository!Entered(w, others)
      BY <1>3, <3>2 DEF Repository!Entered
    <3> QED BY <2>1, <3>1, <3>2
  <2> HIDE DEF u
  <2> QED BY <2>1, <2>2, <2>3
<1>7. CASE UNCHANGED Repository!vars
  BY <1>7 DEF Repository!vars
<1> QED BY <1>2, <1>4, <1>5, <1>6, <1>7

\* A document captured for the batch fits it.
LEMMA CapturedFits ==
  ASSUME NEW rest \in SUBSET Documents, NEW saved \in SUBSET (Documents \X Contents), NEW other \in SUBSET Documents,
         Repository!SaveNext(rest, saved, other),
         documents' \in Kept, \A d \in rest : documents'[d].text = documents[d].text, documents \in Kept,
         \A d, x : <<d, x>> \in saved => d \in Documents \ rest /\ (d \in other \/ documents'[d].stored = x),
         NEW s, s.answer = None
  PROVE  GateFits(s)' /\ gate' \in Gates
<1>1. PICK d \in rest : gate' = [at |-> d, text |-> documents[d].text, todo |-> rest \ {d}, saved |-> saved, other |-> other]
  BY DEF Repository!SaveNext
<1>2. /\ gate'.at = d /\ gate'.text = documents[d].text /\ gate'.todo = rest \ {d} /\ gate'.saved = saved /\ gate'.other = other
  BY <1>1
<1>3. documents[d].text \in Contents
  BY DEF Kept
<1>4. s.answer # "yes"
  BY PartsAssumption DEF Repository!WorkflowAssumption
<1>5. gate' \in Gates
  BY <1>1, <1>3 DEF Gates
<1> QED BY <1>2, <1>3, <1>4, <1>5 DEF GateFits

\* The context of a sync was found: its documents are clean, or the batch begins.
LEMMA ContextSaves ==
  ASSUME RepositoryInvariant, GateInvariant, NEW t \in tasks, Repository!ContextReturns(t)
  PROVE  /\ GateInvariant'
         /\ \A s \in tasks' \ tasks : s.step = "sync" => Repository!StoredAsShown(s.root)
<1>1. t.step # "save" /\ documents' = documents /\ t \in Flows
  BY AtReturn DEF Repository!ContextReturns, Repository!Returns
<1>2. CASE /\ gate' = gate
           /\ \/ tasks' = tasks \ {t}
              \/ \E step \in {"binding", "list", "status"} : tasks' = (tasks \ {t}) \cup {[t EXCEPT !.step = step, !.answer = None]}
              \/ /\ Repository!Unsaved(t.root) = {}
                 /\ tasks' = (tasks \ {t}) \cup {[t EXCEPT !.step = "sync", !.answer = None]}
  <2>1. ASSUME NEW s \in tasks' \ tasks
        PROVE  \/ s.step \in {"binding", "list", "status"}
               \/ s.step = "sync" /\ s.root = t.root /\ Repository!Unsaved(t.root) = {}
    <3>1. \/ \E step \in {"binding", "list", "status"} : s = [t EXCEPT !.step = step, !.answer = None]
          \/ Repository!Unsaved(t.root) = {} /\ s = [t EXCEPT !.step = "sync", !.answer = None]
      BY <1>2, <2>1
    <3> QED BY <1>1, <3>1 DEF Flows
  <2>2. Saving' = Saving
    BY <1>1, <1>2, <2>1 DEF Saving
  <2>3. ASSUME Repository!Unsaved(t.root) = {} PROVE Repository!StoredAsShown(t.root)
    BY <2>3 DEF Repository!Unsaved, Repository!StoredAsShown, GateInvariant
  <2> QED BY <1>1, <1>2, <2>1, <2>2, <2>3, GateStays
<1>3. CASE /\ t.kind = "sync" /\ tasks' = (tasks \ {t}) \cup {[t EXCEPT !.step = "save", !.answer = None]}
           /\ Repository!SaveNext(Repository!Unsaved(t.root), {}, {})
  <2> DEFINE u == [t EXCEPT !.step = "save", !.answer = None]
  <2>1. u.step = "save" /\ u.answer = None
    BY <1>1 DEF Flows
  <2>2. Saving = {}
    BY <1>1, <1>3, OneBatch DEF Saving, RepositoryInvariant, SyncFits
  <2>3. Saving' = {u}
    BY <1>3, <2>1, <2>2 DEF Saving
  <2>4. Repository!Unsaved(t.root) \subseteq Documents
    BY DEF Repository!Unsaved
  <2>5. GateFits(u)' /\ gate' \in Gates
    <3> HIDE DEF u
    <3> QED BY <1>1, <1>3, <2>1, <2>4, CapturedFits DEF GateInvariant
  <2>6. \A s \in tasks' \ tasks : s.step = "save"
    BY <1>3, <2>1
  <2> HIDE DEF u
  <2> QED BY <1>1, <2>3, <2>5, <2>6 DEF GateInvariant
<1>4. t.answer \in {"yes", "no"} \/ Repository!Failed(t)
  BY AtReturn DEF Repository!ContextReturns, Repository!Returns, FlowFits, Answerable, Repository!Failed
<1>5. CASE Repository!Failed(t) \/ ~Repository!Active(t)
  BY <1>2, <1>5 DEF Repository!ContextReturns, Repository!Ends
<1>6. CASE ~(Repository!Failed(t) \/ ~Repository!Active(t)) /\ t.step = "account"
  BY <1>2, <1>4, <1>6 DEF Repository!ContextReturns, Repository!Ends, Repository!Goes
<1>7. CASE ~(Repository!Failed(t) \/ ~Repository!Active(t)) /\ t.step = "binding" /\ (t.answer = "no" \/ t.kind = "refresh")
  BY <1>2, <1>4, <1>7 DEF Repository!ContextReturns, Repository!Listing, Repository!Goes
<1>8. CASE ~(Repository!Failed(t) \/ ~Repository!Active(t)) /\ t.step = "binding" /\ t.answer = "yes" /\ t.kind = "sync"
  BY <1>2, <1>3, <1>8 DEF Repository!ContextReturns, Repository!Goes
<1>9. t.step \in {"account", "binding"} /\ t.kind \in {"refresh", "sync"}
  BY DEF Repository!ContextReturns, Repository!Returns
<1> QED BY <1>4, <1>5, <1>6, <1>7, <1>8, <1>9

\* The document of the batch is stored, or refused.
LEMMA SaveStores ==
  ASSUME RepositoryInvariant, GateInvariant, NEW t \in tasks, Repository!Save(t)
  PROVE  /\ GateInvariant'
         /\ \A s \in tasks' \ tasks : s.step # "sync"
<1>1. t.step = "save" /\ t.answer = None /\ gate' = gate /\ t \in Flows
  BY AtReturn DEF Repository!Save
<1>2. Saving = {t} /\ GateFits(t)
  BY <1>1, OneBatch DEF GateInvariant
<1>3. ASSUME NEW a \in {"yes", "error"}, Repository!Answered(t, a), documents' \in Kept,
             \A d \in Documents : /\ documents'[d].text = documents[d].text /\ documents'[d].dirty = documents[d].dirty
                                  /\ d # gate.at => documents'[d].stored = documents[d].stored,
             documents'[gate.at].stored = gate.text \/ documents' = documents, a = "yes" => documents'[gate.at].stored = gate.text
      PROVE  GateInvariant' /\ \A s \in tasks' \ tasks : s.step # "sync"
  <2> DEFINE u == [t EXCEPT !.answer = a]
  <2>1. u.step = "save" /\ u.answer = a
    BY <1>1 DEF Flows
  <2>2. tasks' = (tasks \ {t}) \cup {u}
    BY <1>3 DEF Repository!Answered
  <2> HIDE DEF u
  <2>3. Saving' = {u}
    BY <1>2, <2>1, <2>2 DEF Saving
  <2>4. GateFits(u)'
    <3>1. \A d, x : <<d, x>> \in gate.saved =>
            d \in Documents \ (gate.todo \cup {gate.at}) /\ (d \in gate.other \/ documents'[d].stored = x)
      BY <1>2, <1>3 DEF GateFits
    <3>2. gate.at \in Documents \ gate.todo /\ gate.text \in Contents /\ (~documents[gate.at].dirty => documents[gate.at].text = gate.text)
      BY <1>2 DEF GateFits
    <3>3. u.answer \in {None, "yes", "error"} /\ (u.answer = "yes" => documents'[gate.at].stored = gate.text)
      BY <1>3, <2>1
    <3> QED BY <1>1, <1>3, <3>1, <3>2, <3>3 DEF GateFits
  <2>5. \A d \in Documents : documents'[d].dirty \/ documents'[d].text = documents'[d].stored
    BY <1>2, <1>3 DEF GateInvariant, GateFits
  <2> QED BY <1>1, <1>3, <2>1, <2>2, <2>3, <2>4, <2>5 DEF GateInvariant
<1>4. CASE documents' = [documents EXCEPT ![gate.at].stored = gate.text] /\ Repository!Answered(t, "yes")
  <2>1. /\ documents' \in Kept
        /\ \A d \in Documents : /\ documents'[d].text = documents[d].text /\ documents'[d].dirty = documents[d].dirty
                                /\ d # gate.at => documents'[d].stored = documents[d].stored
        /\ documents'[gate.at].stored = gate.text
    BY <1>2, <1>4 DEF GateInvariant, GateFits, Kept
  <2> QED BY <1>3, <1>4, <2>1
<1>5. CASE documents' = documents /\ Repository!Answered(t, "error")
  BY <1>3, <1>5 DEF GateInvariant
<1> QED BY <1>4, <1>5 DEF Repository!Save

\* The save of one document returns: the batch stops, goes on, or is over and looks again.
LEMMA SaveReturnsLooks ==
  ASSUME RepositoryInvariant, GateInvariant, NEW t \in tasks, Repository!SaveReturns(t)
  PROVE  /\ GateInvariant'
         /\ \A s \in tasks' \ tasks : s.step = "sync" => Repository!StoredAsShown(s.root)
<1>1. t.step = "save" /\ t.answer # None /\ t \in Flows
  BY AtReturn DEF Repository!SaveReturns, Repository!Returns
<1>2. Saving = {t} /\ GateFits(t)
  BY <1>1, OneBatch DEF GateInvariant
<1> DEFINE met == ~Repository!Failed(t) /\ documents[gate.at].text = gate.text
<1>3. /\ documents' \in Kept
      /\ \A d \in Documents : documents'[d].text = documents[d].text /\ documents'[d].stored = documents[d].stored
      /\ \A d \in Documents : documents'[d].dirty \/ documents'[d].text = documents'[d].stored
      /\ met => documents[gate.at].stored = documents[gate.at].text
  <2>1. met => documents[gate.at].stored = gate.text
    BY <1>1, <1>2 DEF GateFits, Repository!Failed
  <2>2. documents' = documents \/ (met /\ documents' = [documents EXCEPT ![gate.at].dirty = FALSE])
    BY DEF Repository!SaveReturns, Repository!BatchSaved
  <2>3. documents \in Kept /\ gate.at \in Documents /\ \A d \in Documents : documents[d].dirty \/ documents[d].text = documents[d].stored
    BY <1>2 DEF GateInvariant, GateFits
  <2>4. CASE documents' = documents
    BY <2>1, <2>3, <2>4
  <2>5. CASE met /\ documents' = [documents EXCEPT ![gate.at].dirty = FALSE]
    <3>1. documents[gate.at].stored = documents[gate.at].text
      BY <2>1, <2>5
    <3> HIDE DEF met
    <3> QED BY <2>3, <2>5, <3>1 DEF Kept
  <2> QED BY <2>2, <2>4, <2>5
<1>4. CASE tasks' = tasks \ {t} /\ gate' = Repository!NoGate
  <2>1. Saving' = {}
    BY <1>2, <1>4 DEF Saving
  <2>2. GateInvariant'
    BY <1>3, <1>4, <2>1, NoGateIs DEF GateInvariant
  <2> QED BY <1>4, <2>2
<1>5. CASE met /\ Repository!Goes(t, "save") /\ Repository!SaveNext(gate.todo, Repository!SavedSoFar, gate.other)
  <2> DEFINE u == [t EXCEPT !.step = "save", !.answer = None]
  <2>1. u.step = "save" /\ u.answer = None
    BY <1>1 DEF Flows
  <2>2. tasks' = (tasks \ {t}) \cup {u}
    BY <1>5 DEF Repository!Goes
  <2> HIDE DEF u
  <2>3. Saving' = {u}
    BY <1>2, <2>1, <2>2 DEF Saving
  <2>4. \A d, x : <<d, x>> \in Repository!SavedSoFar => d \in Documents \ gate.todo /\ (d \in gate.other \/ documents'[d].stored = x)
    <3>1. \A d, x : <<d, x>> \in gate.saved =>
            d \in Documents \ (gate.todo \cup {gate.at}) /\ (d \in gate.other \/ documents'[d].stored = x)
      BY <1>2, <1>3 DEF GateFits
    <3>2. gate.at \in Documents \ gate.todo /\ documents'[gate.at].stored = gate.text
      BY <1>2, <1>3, <1>5 DEF GateFits
    <3> QED BY <3>1, <3>2 DEF Repository!SavedSoFar
  <2>5. GateFits(u)' /\ gate' \in Gates
    <3>1. /\ gate.todo \in SUBSET Documents /\ documents \in Kept /\ gate.other \in SUBSET Documents
          /\ Repository!SavedSoFar \in SUBSET (Documents \X Contents)
      BY <1>2 DEF GateFits, GateInvariant, Gates, Repository!SavedSoFar
    <3> QED BY <1>3, <1>5, <2>1, <2>4, <3>1, CapturedFits
  <2> QED BY <1>3, <2>1, <2>2, <2>3, <2>5 DEF GateInvariant
<1>6. CASE /\ met /\ Repository!Goes(t, "sync") /\ gate' = Repository!NoGate
           /\ \A d \in Repository!Unsaved(t.root) \ {gate.at} : <<d, documents[d].text>> \in Repository!SavedSoFar
  <2> DEFINE u == [t EXCEPT !.step = "sync", !.answer = None]
  <2>1. u.step = "sync" /\ u.root = t.root
    BY <1>1 DEF Flows
  <2>2. tasks' = (tasks \ {t}) \cup {u}
    BY <1>6 DEF Repository!Goes
  <2> HIDE DEF u
  <2>3. Saving' = {}
    BY <1>2, <2>1, <2>2 DEF Saving
  <2>4. Repository!StoredAsShown(t.root)
    <3>1. SUFFICES ASSUME NEW d \in Documents, Home[d] = t.root, d \notin gate.other PROVE documents[d].text = documents[d].stored
      BY DEF Repository!StoredAsShown
    <3>2. CASE d = gate.at
      BY <1>3, <1>6, <3>2
    <3>3. CASE d # gate.at /\ documents[d].dirty
      <4>1. <<d, documents[d].text>> \in gate.saved
        BY <1>6, <3>1, <3>3 DEF Repository!Unsaved, Repository!SavedSoFar
      <4> QED BY <1>2, <3>1, <4>1 DEF GateFits
    <3>4. CASE ~documents[d].dirty
      BY <3>4 DEF GateInvariant
    <3> QED BY <3>2, <3>3, <3>4
  <2>5. GateInvariant'
    BY <1>3, <1>6, <2>3, NoGateIs DEF GateInvariant
  <2> QED BY <2>1, <2>2, <2>4, <2>5
<1> QED BY <1>4, <1>5, <1>6 DEF Repository!SaveReturns, Repository!Paused, Repository!Ends

\* The user types into a document, or saves one that the batch is not saving.
LEMMA DocumentsFit ==
  ASSUME RepositoryInvariant, GateInvariant, NEW d \in Documents,
         Repository!SaveByUser(d) \/ \E text \in Contents : Repository!Edit(d, text)
  PROVE  GateInvariant' /\ tasks' = tasks
<1>1. tasks' = tasks /\ Saving' = Saving
  BY DEF Repository!SaveByUser, Repository!Edit, Saving
<1>2. CASE Repository!SaveByUser(d)
  <2>1. /\ d # gate.at /\ documents' = [documents EXCEPT ![d].stored = documents[d].text, ![d].dirty = FALSE]
        /\ gate' = [gate EXCEPT !.other = @ \cup {d}] /\ \E s \in tasks : s.step = "save"
    BY <1>2 DEF Repository!SaveByUser
  <2>2. /\ documents' \in Kept /\ documents'[d].stored = documents[d].text /\ documents'[d].text = documents[d].text
        /\ \A o \in Documents \ {d} : documents'[o] = documents[o]
    BY <2>1 DEF GateInvariant, Kept
  <2>3. PICK s \in tasks : s.step = "save"
    BY <2>1
  <2>4. Saving = {s} /\ GateFits(s)
    BY <2>3, OneBatch DEF GateInvariant
  <2>5. /\ gate'.at = gate.at /\ gate'.text = gate.text /\ gate'.todo = gate.todo /\ gate'.saved = gate.saved
        /\ gate'.other = gate.other \cup {d} /\ gate' \in Gates
    BY <2>1 DEF GateInvariant, Gates
  <2>6. GateFits(s)'
    <3>1. \A o, x : <<o, x>> \in gate.saved =>
            o \in Documents \ (gate.todo \cup {gate.at}) /\ (o \in gate.other \cup {d} \/ documents'[o].stored = x)
      BY <2>2, <2>4 DEF GateFits
    <3>2. gate.at \in Documents \ gate.todo /\ documents'[gate.at] = documents[gate.at]
      BY <2>1, <2>2, <2>4 DEF GateFits
    <3> QED BY <2>4, <2>5, <3>1, <3>2 DEF GateFits
  <2> QED BY <1>1, <2>2, <2>4, <2>5, <2>6 DEF GateInvariant
<1>3. ASSUME NEW text \in Contents, Repository!Edit(d, text) PROVE GateInvariant'
  <2>1. documents' = [documents EXCEPT ![d].text = text, ![d].dirty = TRUE] /\ gate' = gate
    BY <1>3 DEF Repository!Edit
  <2>2. /\ documents' \in Kept /\ documents'[d].dirty
        /\ \A o \in Documents : documents'[o].stored = documents[o].stored /\ (o # d => documents'[o] = documents[o])
    BY <2>1 DEF GateInvariant, Kept
  <2>3. ASSUME NEW s \in Saving PROVE GateFits(s)'
    <3>1. GateFits(s)
      BY <2>3 DEF GateInvariant
    <3>2. \A o, x : <<o, x>> \in gate.saved =>
            o \in Documents \ (gate.todo \cup {gate.at}) /\ (o \in gate.other \/ documents'[o].stored = x)
      BY <2>2, <3>1 DEF GateFits
    <3>3. /\ gate.at \in Documents \ gate.todo /\ documents'[gate.at].stored = documents[gate.at].stored
          /\ ~documents'[gate.at].dirty => documents'[gate.at].text = gate.text
      BY <2>2, <3>1 DEF GateFits
    <3> QED BY <2>1, <3>1, <3>2, <3>3 DEF GateFits
  <2> QED BY <1>1, <2>1, <2>2, <2>3 DEF GateInvariant
<1> QED BY <1>1, <1>2, <1>3

\* It holds at first,
LEMMA GateInitFits == Repository!Init => GateInvariant
<1>1. SUFFICES ASSUME Repository!Init PROVE GateInvariant
  OBVIOUS
<1>2. Saving = {}
  BY <1>1 DEF Repository!Init, Repository!Reading, Saving
<1>3. documents \in Kept /\ \A d \in Documents : documents[d].dirty
  BY <1>1, PartsAssumption DEF Repository!Init, Kept, Repository!WorkflowAssumption
<1> QED BY <1>1, <1>2, <1>3, NoGateIs DEF GateInvariant, Repository!Init

\* every step keeps it, and a sync begins with documents that are stored as they are shown.
LEMMA GateNextKeeps ==
  ASSUME RepositoryInvariant, GateInvariant, [Repository!Next]_(Repository!vars)
  PROVE  /\ GateInvariant'
         /\ \A s \in tasks' \ tasks : s.step = "sync" /\ s.answer = None => Repository!StoredAsShown(s.root)
<1>1. CASE \/ Repository!User \/ \E w \in Workspaces : Repository!Switch(w)
           \/ \E t \in tasks : Repository!CallFails(t) \/ \E w \in Workspaces : Repository!Choose(t, w)
           \/ UNCHANGED Repository!vars
  BY <1>1, UserSavesNothing, GateStays
<1>2. ASSUME NEW d \in Documents, Repository!SaveByUser(d) \/ \E text \in Contents : Repository!Edit(d, text)
      PROVE  GateInvariant' /\ tasks' = tasks
  BY <1>2, DocumentsFit
<1>3. ASSUME NEW t \in tasks, Repository!Returned(t)
      PROVE  /\ GateInvariant'
             /\ \A s \in tasks' \ tasks : s.step = "sync" /\ s.answer = None => Repository!StoredAsShown(s.root)
  <2>1. CASE Repository!ContextReturns(t)
    BY <2>1, ContextSaves
  <2>2. CASE Repository!Save(t)
    BY <2>2, SaveStores
  <2>3. CASE Repository!SaveReturns(t)
    BY <2>3, SaveReturnsLooks
  <2>4. CASE ~Repository!Save(t) /\ ~Repository!SaveReturns(t) /\ ~Repository!ContextReturns(t)
    <3>1. /\ t.step # "save" /\ UNCHANGED <<documents, gate>> /\ tasks \ {t} \subseteq tasks'
          /\ \A s \in tasks' \ tasks : s.step # "save" /\ (s.step = "sync" => s.answer # None)
      BY <1>3, <2>4, OthersSaveNothing
    <3>2. Saving' = Saving
      BY <3>1 DEF Saving
    <3> QED BY <3>1, <3>2, GateStays
  <2> QED BY <2>1, <2>2, <2>3, <2>4
<1> QED BY <1>1, <1>2, <1>3 DEF Repository!Next

\* What RepositoryWorkflow counts with is the library's.
LEMMA RepositoryCounts == \A S : Repository!Cardinality(S) = Cardinality(S)
BY DEF Repository!Cardinality, Cardinality

\* It says what is promised of the window.
LEMMA RepositoryPromised == RepositoryInvariant /\ GateInvariant => Repository!TypeOK /\ Repository!IdentityIsCurrent /\ Repository!ReadingsStay /\ Repository!OneSync
<1>1. SUFFICES ASSUME RepositoryInvariant, GateInvariant PROVE Repository!TypeOK /\ Repository!IdentityIsCurrent /\ Repository!ReadingsStay /\ Repository!OneSync
  OBVIOUS
<1>2. Repository!TypeOK
  <2>1. scope \in 1..(MaxSwitches + 1)
    BY <1>1, PartsAssumption, AtRest DEF WindowTyped, Repository!WorkflowAssumption
  <2> QED BY <1>1, <2>1, AtRest DEF Repository!TypeOK, WindowTyped, Identity, Ui, Store, GateInvariant, Kept
<1>3. Repository!IdentityIsCurrent
  <2>1. SUFFICES ASSUME tasks = {}, ~stale, ~broken
                 PROVE  /\ identity.account = native.connected
                        /\ identity.account => (identity.binding # None) = (workspace \in native.bindings)
    BY DEF Repository!IdentityIsCurrent
  <2>2. AccountFits /\ BindingFits
    BY <1>1, <2>1, AtRest DEF Sound
  <2>3. ~BeingRead /\ ~BeingBound /\ \A kinds : ~Called(kinds)
    BY <2>1 DEF BeingRead, BeingBound, Called
  <2>4. identity.account \in BOOLEAN /\ native.connected \in BOOLEAN
    BY <1>1, AtRest DEF WindowTyped, Identity, Store
  <2> QED BY <2>2, <2>3, <2>4 DEF AccountFits, BindingFits
<1>4. Repository!OneSync
  <2> DEFINE S == {t \in tasks : t.kind = "sync"}
  <2>1. CASE ui.syncing
    <3>1. PICK s \in tasks : s.kind = "sync"
      BY <1>1, <2>1, AtRest
    <3>2. S = {s}
      BY <1>1, <3>1, AtRest DEF SyncFits
    <3>3. Repository!Cardinality(S) = 1
      BY <3>2, FS_Singleton, RepositoryCounts
    <3> QED BY <2>1, <3>3 DEF Repository!OneSync
  <2>2. CASE ~ui.syncing
    <3>1. S = {}
      BY <1>1, <2>2, AtRest
    <3>2. Repository!Cardinality(S) = 0
      BY <3>1, FS_EmptySet, RepositoryCounts
    <3> QED BY <2>2, <3>2 DEF Repository!OneSync
  <2> QED BY <2>1, <2>2
<1> QED BY <1>1, <1>2, <1>3, <1>4, AtRest

-----------------------------------------------------------------------------
(* The tree of files. *)

\* A path has one or two names.
LEMMA PathIs ==
  ASSUME NEW p \in Tree!EntryPaths
  PROVE  /\ p \in Seq(Names \cup Inner)
         /\ \/ Len(p) = 1 /\ p = <<p[1]>> /\ p[1] \in Names
            \/ Len(p) = 2 /\ p = <<p[1], p[2]>> /\ p[1] \in Names /\ p[2] \in Inner
<1>1. CASE \E n \in Names : p = <<n>>
  BY <1>1
<1>2. CASE \E n \in Names, m \in Inner : p = <<n, m>>
  BY <1>2
<1> QED BY <1>1, <1>2 DEF Tree!EntryPaths

\* The folder of a path.
LEMMA ParentIs ==
  ASSUME NEW p \in Tree!EntryPaths
  PROVE  /\ Len(p) \in {1, 2}
         /\ Len(p) = 1 => Tree!Parent(p) = <<>>
         /\ Len(p) = 2 => Tree!Parent(p) = <<p[1]>> /\ Tree!Parent(p) \in Tree!EntryPaths /\ Len(Tree!Parent(p)) = 1
<1>1. CASE Len(p) = 1
  <2>1. Tree!Parent(p) = SubSeq(p, 1, 0)
    BY <1>1 DEF Tree!Parent
  <2> QED BY <1>1, <2>1, SubSeqEmpty
<1>2. CASE Len(p) = 2
  <2>1. PICK n \in Names, m \in Inner : p = <<n, m>>
    BY <1>2, PathIs
  <2>2. Tree!Parent(p) = SubSeq(p, 1, 1)
    BY <1>2 DEF Tree!Parent
  <2>3. SubSeq(p, 1, 1) \in Seq({n}) /\ Len(SubSeq(p, 1, 1)) = 1 /\ SubSeq(p, 1, 1)[1] = n
    <3>1. p[1] = n
      BY <2>1
    <3>2. \A i \in 1..1 : p[i] \in {n}
      BY <3>1
    <3> QED BY <3>1, <3>2, SubSeqProperties
  <2>4. Tree!Parent(p) = <<n>> /\ p[1] = n
    BY <2>1, <2>2, <2>3
  <2> QED BY <1>2, <2>4 DEF Tree!EntryPaths
<1> QED BY <1>1, <1>2, PathIs

\* What is under a path is the path itself, and what is in the folder of that path.
LEMMA UnderIs ==
  ASSUME NEW p \in Tree!EntryPaths, NEW q \in Tree!EntryPaths
  PROVE  Tree!Under(p, q) <=> (p = q \/ (Len(q) = 2 /\ p = Tree!Parent(q)))
<1>1. CASE Len(p) = 1 /\ Len(q) = 1
  <2>1. SubSeq(p, 1, Len(p)) = p /\ SubSeq(q, 1, Len(p)) = q
    BY <1>1, PathIs, SubSeqFull
  <2> QED BY <1>1, <2>1 DEF Tree!Under, Tree!IsPrefix
<1>2. CASE Len(p) = 1 /\ Len(q) = 2
  <2>1. SubSeq(p, 1, Len(p)) = p
    BY PathIs, SubSeqFull
  <2>2. SubSeq(q, 1, Len(p)) = Tree!Parent(q)
    BY <1>2 DEF Tree!Parent
  <2> QED BY <1>2, <2>1, <2>2, ParentIs DEF Tree!Under, Tree!IsPrefix
<1>3. CASE Len(p) = 2 /\ Len(q) = 1
  <2>1. ~Tree!Under(p, q)
    BY <1>3 DEF Tree!Under, Tree!IsPrefix
  <2>2. p # q /\ Len(q) # 2
    BY <1>3
  <2> QED BY <2>1, <2>2
<1>4. CASE Len(p) = 2 /\ Len(q) = 2
  <2>1. SubSeq(p, 1, Len(p)) = p /\ SubSeq(q, 1, Len(p)) = q
    BY <1>4, PathIs, SubSeqFull
  <2>2. p # Tree!Parent(q)
    BY <1>4, ParentIs
  <2> QED BY <1>4, <2>1, <2>2 DEF Tree!Under, Tree!IsPrefix
<1> QED BY <1>1, <1>2, <1>3, <1>4, ParentIs

\* Where a rename takes a path: one below it stays below it, if there is room.
LEMMA RemapIs ==
  ASSUME NEW p \in Tree!EntryPaths, NEW from \in Tree!EntryPaths, NEW to \in Tree!EntryPaths, Tree!Under(from, p)
  PROVE  /\ p = from => Tree!RemapPath(p, from, to) = to
         /\ p # from => /\ Tree!RemapPath(p, from, to) \in Tree!EntryPaths <=> Len(to) = 1
                        /\ Len(to) = 1 => Len(Tree!RemapPath(p, from, to)) = 2 /\ Tree!Parent(Tree!RemapPath(p, from, to)) = to
<1>1. Tree!RemapPath(p, from, to) = to \o SubSeq(p, Len(from) + 1, Len(p))
  BY DEF Tree!RemapPath
<1>2. CASE p = from
  <2>1. SubSeq(p, Len(from) + 1, Len(p)) = <<>>
    BY <1>2, ParentIs, SubSeqEmpty
  <2>2. to \in Seq(Names \cup Inner)
    BY PathIs
  <2> QED BY <1>1, <1>2, <2>1, <2>2
<1>3. CASE p # from
  <2>1. Len(p) = 2 /\ Len(from) = 1 /\ p = <<p[1], p[2]>> /\ p[2] \in Inner
    BY <1>3, UnderIs, ParentIs, PathIs
  <2>2. SubSeq(p, Len(from) + 1, Len(p)) = <<p[2]>>
    <3>1. SubSeq(p, 2, 2) \in Seq(Inner) /\ Len(SubSeq(p, 2, 2)) = 1 /\ SubSeq(p, 2, 2)[1] = p[2]
      <4>1. \A i \in 2..2 : p[i] \in Inner
        BY <2>1
      <4> QED BY <4>1, SubSeqProperties
    <3>2. SubSeq(p, 2, 2) = <<p[2]>>
      <4>1. <<p[2]>> \in Seq(Inner) /\ Len(<<p[2]>>) = 1 /\ <<p[2]>>[1] = p[2]
        BY <2>1
      <4>2. \A i \in 1..1 : SubSeq(p, 2, 2)[i] = <<p[2]>>[i]
        BY <3>1, <4>1
      <4> QED BY <3>1, <4>1, <4>2, SeqEqual
    <3> QED BY <2>1, <3>2
  <2>3. CASE Len(to) = 1
    <3>1. to = <<to[1]>> /\ to[1] \in Names
      BY <2>3, PathIs
    <3>2. Tree!RemapPath(p, from, to) = <<to[1], p[2]>>
      <4> DEFINE S == Names \cup Inner
                 x == to[1]
                 y == p[2]
      <4>1. <<x>> \in Seq(S) /\ <<y>> \in Seq(S) /\ <<x, y>> \in Seq(S) /\ Len(<<x>>) = 1 /\ Len(<<y>>) = 1
            /\ Len(<<x, y>>) = 2 /\ <<x>>[1] = x /\ <<y>>[1] = y /\ <<x, y>>[1] = x /\ <<x, y>>[2] = y
        BY <2>1, <3>1
      <4> HIDE DEF x, y, S
      <4>2. <<x>> \o <<y>> \in Seq(S) /\ Len(<<x>> \o <<y>>) = 2
        BY <4>1, ConcatProperties
      <4>3. (<<x>> \o <<y>>)[1] = x /\ (<<x>> \o <<y>>)[2] = y
        BY <4>1, ConcatProperties
      <4>4. \A i \in 1..2 : (<<x>> \o <<y>>)[i] = <<x, y>>[i]
        BY <4>1, <4>3
      <4>5. <<x>> \o <<y>> = <<x, y>>
        BY <4>1, <4>2, <4>4, SeqEqual
      <4> QED BY <1>1, <2>2, <3>1, <4>5 DEF x, y
    <3>3. Tree!RemapPath(p, from, to) \in Tree!EntryPaths /\ Len(Tree!RemapPath(p, from, to)) = 2
      BY <2>1, <3>1, <3>2 DEF Tree!EntryPaths
    <3>4. Tree!Parent(Tree!RemapPath(p, from, to)) = <<to[1]>>
      BY <3>2, <3>3, ParentIs
    <3> QED BY <1>3, <2>3, <3>1, <3>3, <3>4
  <2>4. CASE Len(to) = 2
    <3>1. to \in Seq(Names \cup Inner) /\ <<p[2]>> \in Seq(Names \cup Inner)
      BY <2>1, PathIs
    <3>2. Len(Tree!RemapPath(p, from, to)) = 3
      <4>1. Len(to \o <<p[2]>>) = Len(to) + Len(<<p[2]>>)
        BY <3>1, ConcatProperties
      <4>2. Len(<<p[2]>>) = 1
        OBVIOUS
      <4>3. Tree!RemapPath(p, from, to) = to \o <<p[2]>>
        BY <1>1, <2>2
      <4>4. Len(to \o <<p[2]>>) = 3
        BY <2>4, <4>1, <4>2
      <4> QED BY <4>3, <4>4
    <3>3. Tree!RemapPath(p, from, to) \notin Tree!EntryPaths
      <4>1. Tree!RemapPath(p, from, to) \in Tree!EntryPaths => Len(Tree!RemapPath(p, from, to)) \in {1, 2}
        BY ParentIs
      <4> QED BY <3>2, <4>1
    <3> QED BY <1>3, <2>4, <3>3
  <2> QED BY <2>3, <2>4, ParentIs
<1> QED BY <1>2, <1>3

(* Trees *)

\* A folder of a path.
Folder(path) == [path |-> path, folder |-> TRUE]

\* What has a folder in a tree.
LEMMA FolderIs ==
  /\ \A p : Folder(p).path = p /\ Tree!Entry(p, TRUE) = Folder(p)
  /\ \A p : Folder(p).folder = TRUE
  /\ \A p \in Tree!EntryPaths : Folder(p) \in Tree!Entries
  /\ \A tree, p : Tree!HasParent(tree, p) <=> (Len(p) = 1 \/ Folder(Tree!Parent(p)) \in tree)
<1>1. \A p : Folder(p).path = p /\ Folder(p).folder = TRUE
  BY DEF Folder
<1>2. \A p : Tree!Entry(p, TRUE) = Folder(p)
  BY DEF Folder, Tree!Entry
<1>3. ASSUME NEW p \in Tree!EntryPaths PROVE Folder(p) \in Tree!Entries
  <2>1. \E path \in Tree!EntryPaths, folder \in BOOLEAN : Folder(p) = [path |-> path, folder |-> folder]
    BY DEF Folder
  <2> QED BY <2>1 DEF Tree!Entries, Tree!Entry
<1>4. ASSUME NEW tree, NEW p PROVE Tree!HasParent(tree, p) <=> (Len(p) = 1 \/ Folder(Tree!Parent(p)) \in tree)
  BY DEF Tree!HasParent, Folder, Tree!Entry
<1> QED BY <1>1, <1>2, <1>3, <1>4

\* Entries that belong below a path: the path itself, and what is in its folder.
EntriesFit(entries, to) ==
  /\ entries \subseteq Tree!Entries
  /\ \A e \in entries : e.path = to \/ (Len(e.path) = 2 /\ Tree!Parent(e.path) = to /\ Folder(to) \in entries)

\* An entry is a path and whether it is a folder.
LEMMA EntryIs ==
  /\ \A e \in Tree!Entries : e.path \in Tree!EntryPaths /\ e.folder \in BOOLEAN /\ e = Tree!Entry(e.path, e.folder)
  /\ \A p, f : Tree!Entry(p, f).path = p /\ Tree!Entry(p, f).folder = f
  /\ \A p \in Tree!EntryPaths, f \in BOOLEAN : Tree!Entry(p, f) \in Tree!Entries
<1>1. \A p, f : Tree!Entry(p, f).path = p /\ Tree!Entry(p, f).folder = f
  BY DEF Tree!Entry
<1>2. \A p \in Tree!EntryPaths, f \in BOOLEAN : Tree!Entry(p, f) \in Tree!Entries
  BY DEF Tree!Entries
<1>3. ASSUME NEW e \in Tree!Entries PROVE e.path \in Tree!EntryPaths /\ e.folder \in BOOLEAN /\ e = Tree!Entry(e.path, e.folder)
  <2>1. PICK p \in Tree!EntryPaths, f \in BOOLEAN : e = Tree!Entry(p, f)
    BY DEF Tree!Entries
  <2> QED BY <1>1, <2>1
<1> QED BY <1>1, <1>2, <1>3

\* A tree without an entry and what it holds is a tree.
LEMMA WithoutKeeps ==
  ASSUME NEW tree, Tree!IsTree(tree), NEW path \in Tree!EntryPaths
  PROVE  Tree!IsTree(Tree!Without(tree, path)) /\ ~Tree!Has(Tree!Without(tree, path), path)
<1>1. Tree!Without(tree, path) = {e \in tree : ~Tree!Under(path, e.path)} /\ tree \subseteq Tree!Entries
  BY DEF Tree!Without, Tree!Subtree, Tree!IsTree
<1>2. Tree!Under(path, path)
  BY UnderIs
<1>3. ASSUME NEW e \in Tree!Without(tree, path) PROVE Tree!HasParent(Tree!Without(tree, path), e.path)
  <2>1. e \in tree /\ ~Tree!Under(path, e.path) /\ e.path \in Tree!EntryPaths /\ Tree!HasParent(tree, e.path)
    BY <1>1, EntryIs DEF Tree!IsTree
  <2>2. CASE Len(e.path) = 2
    <3>1. Tree!Parent(e.path) \in Tree!EntryPaths /\ Len(Tree!Parent(e.path)) = 1
      BY <2>1, <2>2, ParentIs
    <3>2. ~Tree!Under(path, Tree!Parent(e.path))
      BY <2>1, <2>2, <3>1, UnderIs
    <3>3. Folder(Tree!Parent(e.path)) \in tree
      BY <2>1, <2>2, FolderIs
    <3> QED BY <1>1, <3>2, <3>3, FolderIs
  <2> QED BY <2>1, <2>2, ParentIs, FolderIs
<1> QED BY <1>1, <1>2, <1>3 DEF Tree!IsTree, Tree!Has

\* A tree with entries put below a path that has its folder is a tree.
LEMMA JoinKeeps ==
  ASSUME NEW tree, Tree!IsTree(tree), NEW to \in Tree!EntryPaths, NEW entries, EntriesFit(entries, to), Tree!HasParent(tree, to)
  PROVE  Tree!IsTree(tree \cup entries)
<1>1. ASSUME NEW e \in tree \cup entries PROVE Tree!HasParent(tree \cup entries, e.path)
  <2>1. CASE e \in tree
    BY <2>1, FolderIs DEF Tree!IsTree
  <2>2. CASE e \in entries
    BY <2>2, FolderIs DEF EntriesFit
  <2> QED BY <2>1, <2>2
<1> QED BY <1>1 DEF Tree!IsTree, EntriesFit

\* What a subtree is renamed to.
LEMMA RemappedAre ==
  ASSUME NEW tree, tree \subseteq Tree!Entries, NEW from \in Tree!EntryPaths, NEW to \in Tree!EntryPaths
  PROVE  \A u \in Tree!Remapped(Tree!Subtree(tree, from), from, to) :
           \E e \in tree : /\ Tree!Under(from, e.path) /\ u = Tree!Entry(Tree!RemapPath(e.path, from, to), e.folder)
                           /\ u.path = Tree!RemapPath(e.path, from, to) /\ u.folder = e.folder
BY EntryIs DEF Tree!Remapped, Tree!Subtree

\* What a subtree is renamed to belongs below the new path, where there is room.
LEMMA RemappedFits ==
  ASSUME NEW tree, Tree!IsTree(tree), NEW from \in Tree!EntryPaths, NEW to \in Tree!EntryPaths
  PROVE  EntriesFit(Tree!Remapped(Tree!Subtree(tree, from), from, to) \cap Tree!Entries, to)
<1> DEFINE new == Tree!Remapped(Tree!Subtree(tree, from), from, to)
<1>1. tree \subseteq Tree!Entries
  BY DEF Tree!IsTree
<1>2. ASSUME NEW u \in new, u \in Tree!Entries
      PROVE  u.path = to \/ (Len(u.path) = 2 /\ Tree!Parent(u.path) = to /\ Folder(to) \in new \cap Tree!Entries)
  <2>1. PICK e \in tree : Tree!Under(from, e.path) /\ u.path = Tree!RemapPath(e.path, from, to)
    BY <1>1, RemappedAre
  <2>2. e.path \in Tree!EntryPaths /\ u.path \in Tree!EntryPaths /\ Tree!HasParent(tree, e.path)
    BY <1>1, <1>2, EntryIs DEF Tree!IsTree
  <2>3. CASE e.path = from
    <3>1. Tree!RemapPath(e.path, from, to) = to
      BY <2>1, <2>2, <2>3, RemapIs
    <3> QED BY <2>1, <3>1
  <2>4. CASE e.path # from
    <3>1. Len(u.path) = 2 /\ Tree!Parent(u.path) = to
      BY <2>1, <2>2, <2>4, RemapIs
    <3>2. Len(e.path) = 2 /\ Tree!Parent(e.path) = from
      BY <2>1, <2>2, <2>4, UnderIs
    <3>3. Folder(from) \in tree
      BY <2>2, <3>2, FolderIs
    <3>4. Tree!Under(from, from)
      BY UnderIs
    <3>5. Folder(from) \in Tree!Subtree(tree, from)
      BY <3>3, <3>4, FolderIs DEF Tree!Subtree
    <3>6. Tree!Entry(Tree!RemapPath(Folder(from).path, from, to), Folder(from).folder) \in new
      BY <3>5 DEF Tree!Remapped
    <3>7. Folder(to) \in new
      <4>1. Tree!RemapPath(Folder(from).path, from, to) = to
        BY <3>4, FolderIs, RemapIs
      <4>2. Tree!Entry(to, Folder(from).folder) = Folder(to)
        BY DEF Folder, Tree!Entry
      <4> QED BY <3>6, <4>1, <4>2
    <3> QED BY <3>1, <3>7, FolderIs
  <2> QED BY <2>3, <2>4
<1> QED BY <1>2 DEF EntriesFit

\* What is copied beside itself has the room it had.
LEMMA SiblingsFit ==
  ASSUME NEW tree, Tree!IsTree(tree), NEW from \in Tree!EntryPaths, NEW to \in Tree!EntryPaths, Tree!Parent(from) = Tree!Parent(to)
  PROVE  /\ Tree!Remapped(Tree!Subtree(tree, from), from, to) \subseteq Tree!Entries
         /\ EntriesFit(Tree!Remapped(Tree!Subtree(tree, from), from, to), to)
         /\ Tree!Has(tree, from) => Tree!HasParent(tree, to)
<1>1. tree \subseteq Tree!Entries
  BY DEF Tree!IsTree
<1>2. Len(from) = Len(to)
  <2>1. \A p \in Tree!EntryPaths : <<p[1]>> # <<>>
    BY EmptySeq
  <2> QED BY <2>1, ParentIs
<1>3. ASSUME NEW u \in Tree!Remapped(Tree!Subtree(tree, from), from, to) PROVE u \in Tree!Entries
  <2>1. PICK e \in tree : Tree!Under(from, e.path) /\ u = Tree!Entry(Tree!RemapPath(e.path, from, to), e.folder)
    BY <1>1, RemappedAre
  <2>2. e.path \in Tree!EntryPaths /\ e.folder \in BOOLEAN
    BY <1>1, EntryIs
  <2>3. e.path # from => Len(from) = 1
    BY <2>1, <2>2, UnderIs, ParentIs
  <2>4. Tree!RemapPath(e.path, from, to) \in Tree!EntryPaths
    <3>1. CASE e.path = from
      <4>1. Tree!RemapPath(e.path, from, to) = to
        BY <2>1, <2>2, <3>1, RemapIs
      <4> QED BY <4>1
    <3>2. CASE e.path # from
      <4>1. Len(to) = 1
        BY <1>2, <2>3, <3>2
      <4> QED BY <2>1, <2>2, <3>2, <4>1, RemapIs
    <3> QED BY <3>1, <3>2
  <2> QED BY <2>1, <2>2, <2>4, EntryIs
<1>4. Tree!Remapped(Tree!Subtree(tree, from), from, to) \cap Tree!Entries = Tree!Remapped(Tree!Subtree(tree, from), from, to)
  BY <1>3
<1>5. Tree!Has(tree, from) => Tree!HasParent(tree, to)
  BY <1>2, FolderIs DEF Tree!Has, Tree!IsTree
<1> QED BY <1>3, <1>4, <1>5, RemappedFits

\* A tree in which an entry is renamed is a tree.
LEMMA RemapKeeps ==
  ASSUME NEW tree, Tree!IsTree(tree), NEW from \in Tree!EntryPaths, NEW to \in Tree!EntryPaths
  PROVE  Tree!IsTree(Tree!RemapTree(tree, from, to))
<1>1. Tree!IsTree(Tree!Without(tree, from))
  BY WithoutKeeps
<1>2. EntriesFit(Tree!Remapped(Tree!Subtree(tree, from), from, to) \cap Tree!Entries, to)
  BY RemappedFits
<1>3. Tree!HasParent(Tree!Without(tree, from), to) => Tree!IsTree(Tree!Without(tree, from) \cup (Tree!Remapped(Tree!Subtree(tree, from), from, to) \cap Tree!Entries))
  BY <1>1, <1>2, JoinKeeps
<1> QED BY <1>1, <1>3 DEF Tree!RemapTree

\* The folder of a path that is not taken away remains.
LEMMA ParentLeft ==
  ASSUME NEW tree, NEW from \in Tree!EntryPaths, NEW to \in Tree!EntryPaths, Tree!HasParent(tree, to), ~Tree!Under(from, to)
  PROVE  Tree!HasParent(Tree!Without(tree, from), to)
<1>1. CASE Len(to) = 1
  BY <1>1, FolderIs
<1>2. CASE Len(to) = 2
  <2>1. Tree!Parent(to) \in Tree!EntryPaths /\ Len(Tree!Parent(to)) = 1
    BY <1>2, ParentIs
  <2>2. ~Tree!Under(from, Tree!Parent(to))
    BY <1>2, <2>1, UnderIs
  <2>3. Folder(Tree!Parent(to)) \in tree
    BY <1>2, FolderIs
  <2> QED BY <2>2, <2>3, FolderIs DEF Tree!Without, Tree!Subtree
<1> QED BY <1>1, <1>2, ParentIs
(* Commands *)

\* A command as it was given.
CommandFits(m) ==
  /\ EntriesFit(m.entries, m.to)
  /\ m.kind = "duplicate" => Tree!Parent(m.from) = Tree!Parent(m.to)
  /\ m.kind = "create" => \E folder \in BOOLEAN : m.entries = {Tree!Entry(m.to, folder)}

\* A command is of one of four kinds.
LEMMA CommandIs ==
  ASSUME NEW m \in Tree!Commands
  PROVE  /\ m.kind \in {"create", "relocate", "duplicate", "delete"} /\ m.root \in Roots
         /\ m.from \in Tree!EntryPaths /\ m.to \in Tree!EntryPaths /\ m.entries \subseteq Tree!Entries
         /\ m.step \in {"running", "done", "listing", "listed"} /\ m.old \in BOOLEAN
         /\ m.tree = None \/ m.tree \subseteq Tree!Entries
<1>1. m \in [kind : {"create", "relocate", "duplicate", "delete"}, root : Roots, from : Tree!EntryPaths, to : Tree!EntryPaths,
             entries : SUBSET Tree!Entries, step : {"running", "done", "listing", "listed"},
             tree : {None} \cup SUBSET Tree!Entries, old : BOOLEAN]
  BY DEF Tree!Commands
<1>2. m.entries \in SUBSET Tree!Entries /\ m.tree \in {None} \cup SUBSET Tree!Entries /\ m.old \in BOOLEAN
  BY <1>1
<1> QED BY <1>1, <1>2

\* What the answer to a command makes of a tree is a tree.
LEMMA ProjectedKeeps ==
  ASSUME NEW m \in Tree!Commands, CommandFits(m), NEW tree, Tree!IsTree(tree)
  PROVE  Tree!IsTree(Tree!Projected(tree, m))
<1>1. m.from \in Tree!EntryPaths /\ m.to \in Tree!EntryPaths
  BY CommandIs
<1>2. Tree!IsTree(Tree!RemapTree(tree, m.from, m.to)) /\ Tree!IsTree(Tree!Without(tree, m.from))
  BY <1>1, RemapKeeps, WithoutKeeps
<1>3. Tree!HasParent(tree, m.to) => Tree!IsTree(tree \cup m.entries)
  BY <1>1, JoinKeeps DEF CommandFits
<1>4. Tree!IsTree(Tree!Project(tree, m.to, m.entries))
  BY <1>3 DEF Tree!Project
<1> QED BY <1>2, <1>4 DEF Tree!Projected

\* What a command that can be carried out makes of the disk is a tree.
LEMMA ChangedKeeps ==
  ASSUME NEW m \in Tree!Commands, CommandFits(m), Tree!IsTree(disk[m.root]), Tree!Possible(m)
  PROVE  Tree!IsTree(Tree!Changed(m))
<1> DEFINE now == disk[m.root]
           new == Tree!Remapped(Tree!Subtree(now, m.from), m.from, m.to)
<1>1. m.from \in Tree!EntryPaths /\ m.to \in Tree!EntryPaths /\ m.kind \in {"create", "relocate", "duplicate", "delete"}
  BY CommandIs
<1>2. CASE m.kind = "create"
  <2>1. PICK folder \in BOOLEAN : m.entries = {Tree!Entry(m.to, folder)}
    BY <1>2 DEF CommandFits
  <2>2. CASE Len(m.to) = 1
    <3>1. Tree!HasParent(now, m.to) /\ Tree!Changed(m) = now \cup m.entries
      BY <1>2, <2>2 DEF Tree!HasParent, Tree!Changed
    <3> QED BY <1>1, <3>1, JoinKeeps DEF CommandFits
  <2>3. CASE Len(m.to) = 2
    <3> DEFINE p == Tree!Parent(m.to)
    <3>1. p \in Tree!EntryPaths /\ Len(p) = 1
      BY <1>1, <2>3, ParentIs
    <3>2. EntriesFit({Folder(p)}, p) /\ Tree!HasParent(now, p)
      BY <3>1, FolderIs DEF EntriesFit
    <3>3. Tree!IsTree(now \cup {Folder(p)})
      BY <3>1, <3>2, JoinKeeps
    <3>4. Tree!HasParent(now \cup {Folder(p)}, m.to)
      BY FolderIs
    <3>5. Tree!IsTree((now \cup {Folder(p)}) \cup m.entries)
      BY <1>1, <3>3, <3>4, JoinKeeps DEF CommandFits
    <3>6. Tree!Changed(m) = now \cup m.entries \cup {Folder(p)}
      BY <1>2, <2>3, FolderIs DEF Tree!Changed
    <3>7. Tree!Changed(m) = (now \cup {Folder(p)}) \cup m.entries
      BY <3>6
    <3> QED BY <3>5, <3>7
  <2> QED BY <1>1, <2>2, <2>3, ParentIs
<1>3. CASE m.kind = "relocate"
  <2>1. Tree!Changed(m) = Tree!Without(now, m.from) \cup new
    BY <1>3 DEF Tree!Changed
  <2>2. new \subseteq Tree!Entries /\ Tree!HasParent(now, m.to) /\ ~Tree!Under(m.from, m.to)
    BY <1>3 DEF Tree!Possible
  <2>3. EntriesFit(new, m.to)
    <3>1. new \cap Tree!Entries = new
      BY <2>2
    <3> QED BY <1>1, <3>1, RemappedFits
  <2>4. Tree!HasParent(Tree!Without(now, m.from), m.to)
    BY <1>1, <2>2, ParentLeft
  <2> QED BY <1>1, <2>1, <2>3, <2>4, WithoutKeeps, JoinKeeps
<1>4. CASE m.kind = "duplicate"
  <2>1. Tree!Changed(m) = now \cup new /\ Tree!Has(now, m.from)
    BY <1>4 DEF Tree!Changed, Tree!Possible
  <2> QED BY <1>1, <1>4, <2>1, SiblingsFit, JoinKeeps DEF CommandFits
<1>5. CASE m.kind = "delete"
  BY <1>1, <1>5, WithoutKeeps DEF Tree!Changed
<1> QED BY <1>1, <1>2, <1>3, <1>4, <1>5

\* The answer to a command that was carried out makes nothing else of what it did.
LEMMA ChangedStays ==
  ASSUME NEW m \in Tree!Commands, CommandFits(m), Tree!IsTree(disk[m.root]), Tree!Possible(m)
  PROVE  Tree!Projected(Tree!Changed(m), m) = Tree!Changed(m)
<1> DEFINE now == disk[m.root]
           new == Tree!Remapped(Tree!Subtree(now, m.from), m.from, m.to)
<1>1. m.from \in Tree!EntryPaths /\ m.to \in Tree!EntryPaths /\ m.kind \in {"create", "relocate", "duplicate", "delete"}
  BY CommandIs
<1>0. now \subseteq Tree!Entries
  BY DEF Tree!IsTree
<1>2. CASE m.kind = "create"
  <2>1. PICK folder \in BOOLEAN : m.entries = {Tree!Entry(m.to, folder)}
    BY <1>2 DEF CommandFits
  <2>2. Tree!Entry(m.to, folder) \in Tree!Changed(m)
    BY <1>2, <2>1 DEF Tree!Changed
  <2>3. Tree!Has(Tree!Changed(m), m.to)
    BY <2>2, EntryIs DEF Tree!Has
  <2> QED BY <1>2, <2>3 DEF Tree!Projected, Tree!Project
<1>3. CASE m.kind = "relocate"
  <2>1. Tree!Changed(m) = Tree!Without(now, m.from) \cup new
    BY <1>3 DEF Tree!Changed
  <2>2. new \subseteq Tree!Entries /\ ~Tree!Has(now, m.to) /\ ~Tree!Under(m.from, m.to)
    BY <1>3 DEF Tree!Possible
  <2>3. ASSUME NEW u \in new PROVE ~Tree!Under(m.from, u.path)
    <3>1. u.path = m.to \/ (Len(u.path) = 2 /\ Tree!Parent(u.path) = m.to)
      BY <1>1, <2>2, RemappedFits DEF EntriesFit
    <3>2. u.path \in Tree!EntryPaths
      BY <2>2, EntryIs
    <3>3. CASE u.path = m.to
      BY <2>2, <3>3
    <3>4. CASE Len(u.path) = 2 /\ Tree!Parent(u.path) = m.to /\ Tree!Under(m.from, u.path)
      <4>1. m.from = u.path
        <5>1. m.from # m.to
          BY <1>1, <2>2, UnderIs
        <5> QED BY <1>1, <3>2, <3>4, <5>1, UnderIs
      <4>2. Tree!Has(now, m.from)
        BY <1>3 DEF Tree!Possible
      <4>3. PICK e \in now : e.path = m.from
        BY <4>2 DEF Tree!Has
      <4>4. Folder(m.to) \in now
        BY <3>4, <4>1, <4>3, FolderIs DEF Tree!IsTree
      <4> QED BY <2>2, <4>4, FolderIs DEF Tree!Has
    <3> QED BY <3>1, <3>3, <3>4
  <2>4. \A e \in Tree!Changed(m) : ~Tree!Under(m.from, e.path)
    BY <2>1, <2>3 DEF Tree!Without, Tree!Subtree
  <2>5. Tree!Under(m.from, m.from)
    BY <1>1, UnderIs
  <2>6. ~Tree!Has(Tree!Changed(m), m.from) /\ Tree!Without(Tree!Changed(m), m.from) = Tree!Changed(m)
    BY <2>4, <2>5 DEF Tree!Has, Tree!Without, Tree!Subtree
  <2> QED BY <1>3, <2>6 DEF Tree!Projected, Tree!RemapTree
<1>4. CASE m.kind = "duplicate"
  <2>1. Tree!Changed(m) = now \cup new /\ Tree!Has(now, m.from)
    BY <1>4 DEF Tree!Changed, Tree!Possible
  <2>2. PICK e \in now : e.path = m.from
    BY <2>1 DEF Tree!Has
  <2>3. Tree!Under(m.from, e.path) /\ Tree!RemapPath(e.path, m.from, m.to) = m.to
    BY <1>1, <2>2, UnderIs, RemapIs
  <2>4. Tree!Entry(m.to, e.folder) \in new
    BY <2>2, <2>3 DEF Tree!Remapped, Tree!Subtree
  <2>5. Tree!Has(Tree!Changed(m), m.to)
    BY <2>1, <2>4, EntryIs DEF Tree!Has
  <2> QED BY <1>4, <2>5 DEF Tree!Projected, Tree!Project
<1>5. CASE m.kind = "delete"
  <2>1. Tree!Changed(m) = Tree!Without(now, m.from) /\ Tree!Projected(Tree!Changed(m), m) = Tree!Without(Tree!Changed(m), m.from)
    BY <1>5 DEF Tree!Changed, Tree!Projected
  <2> QED BY <2>1 DEF Tree!Without, Tree!Subtree
<1> QED BY <1>1, <1>2, <1>3, <1>4, <1>5

\* The answer to a command that was carried out shows what it did, unless an entry was created with its folder.
LEMMA ChangedShows ==
  ASSUME NEW m \in Tree!Commands, CommandFits(m), Tree!IsTree(disk[m.root]), Tree!Possible(m),
         m.kind = "duplicate" => m.entries = Tree!Remapped(Tree!Subtree(disk[m.root], m.from), m.from, m.to)
  PROVE  \/ Tree!Projected(disk[m.root], m) = Tree!Changed(m)
         \/ m.kind = "create" /\ ~Tree!Has(Tree!Projected(disk[m.root], m), m.to)
<1> DEFINE now == disk[m.root]
           new == Tree!Remapped(Tree!Subtree(now, m.from), m.from, m.to)
<1>1. m.from \in Tree!EntryPaths /\ m.to \in Tree!EntryPaths /\ m.kind \in {"create", "relocate", "duplicate", "delete"}
  BY CommandIs
<1>2. CASE m.kind = "create"
  <2>1. ~Tree!Has(now, m.to) /\ Tree!Projected(now, m) = Tree!Project(now, m.to, m.entries)
    BY <1>2 DEF Tree!Possible, Tree!Projected
  <2>2. CASE Tree!HasParent(now, m.to)
    <3>1. Tree!Projected(now, m) = now \cup m.entries
      BY <2>1, <2>2 DEF Tree!Project
    <3>2. Len(m.to) = 2 => Folder(Tree!Parent(m.to)) \in now
      BY <2>2, FolderIs
    <3>3. Tree!Changed(m) = now \cup m.entries \cup (IF Len(m.to) = 2 THEN {Folder(Tree!Parent(m.to))} ELSE {})
      BY <1>2, FolderIs DEF Tree!Changed
    <3> QED BY <3>1, <3>2, <3>3
  <2>3. CASE ~Tree!HasParent(now, m.to)
    BY <1>2, <2>1, <2>3 DEF Tree!Project
  <2> QED BY <2>2, <2>3
<1>3. CASE m.kind = "relocate"
  <2>1. new \subseteq Tree!Entries /\ Tree!HasParent(now, m.to) /\ ~Tree!Under(m.from, m.to) /\ Tree!Has(now, m.from)
    BY <1>3 DEF Tree!Possible
  <2>2. Tree!HasParent(Tree!Without(now, m.from), m.to)
    BY <1>1, <2>1, ParentLeft
  <2>3. Tree!RemapTree(now, m.from, m.to) = Tree!Without(now, m.from) \cup (new \cap Tree!Entries)
    BY <2>1, <2>2 DEF Tree!RemapTree
  <2>4. new \cap Tree!Entries = new
    BY <2>1
  <2> QED BY <1>3, <2>3, <2>4 DEF Tree!Projected, Tree!Changed
<1>4. CASE m.kind = "duplicate"
  <2>1. Tree!Changed(m) = now \cup new /\ Tree!Has(now, m.from) /\ ~Tree!Has(now, m.to)
    BY <1>4 DEF Tree!Changed, Tree!Possible
  <2>2. Tree!HasParent(now, m.to)
    BY <1>1, <1>4, <2>1, SiblingsFit DEF CommandFits
  <2> QED BY <1>4, <2>1, <2>2 DEF Tree!Projected, Tree!Project
<1>5. CASE m.kind = "delete"
  BY <1>5 DEF Tree!Changed, Tree!Projected
<1> QED BY <1>1, <1>2, <1>3, <1>4, <1>5

(* The invariant *)

\* A tree shows what a command did; or the command created an entry with its folder, and a listing will show it.
Shows(tree, now, m) == tree = now \/ (m.kind = "create" /\ ~Tree!Has(tree, m.to))

\* A command of a workspace whose folder is "now" and whose kept tree is "tree".  Unless others changed the
\* folder: it was given of a tree that was right; what its answer makes of the folder, or of that tree, is
\* what the folder is; then the tree is right until the listing, which is right too.
CommandStands(m, now, tree, overtaken) ==
  /\ m \in Tree!Commands /\ CommandFits(m) /\ tree # None
  /\ m.step = "running" =>
       /\ m.kind = "duplicate" /\ ~m.old => m.entries = Tree!Remapped(Tree!Subtree(now, m.from), m.from, m.to)
       /\ ~overtaken => tree = now
  /\ m.step = "done" /\ ~m.old =>
       /\ Shows(Tree!Projected(now, m), now, m)
       /\ ~overtaken => Shows(Tree!Projected(tree, m), now, m)
  /\ m.step \in {"listing", "listed"} /\ ~overtaken => Shows(tree, now, m)
  /\ m.step = "listed" => m.tree # None /\ Tree!IsTree(m.tree) /\ (~m.old => m.tree = now)

\* A listing is right, unless others changed the folder.
ListingStands(l, now) == l \in Tree!Listings /\ (l.tree # None => Tree!IsTree(l.tree) /\ (~l.old => l.tree = now))

FoldersFit ==
  /\ disk \in [Roots -> SUBSET Tree!Entries] /\ trees \in [Roots -> {None} \cup SUBSET Tree!Entries] /\ behind \in [Roots -> BOOLEAN]
  /\ \A r \in Roots : Tree!IsTree(disk[r]) /\ (trees[r] # None => Tree!IsTree(trees[r]))
WindowFits ==
  /\ root \in Roots \cup {None} /\ (root = None => items = {}) /\ (root # None => trees[root] # None /\ items = trees[root])
  /\ reported # None => Tree!IsTree(reported)
MutationFits ==
  mutation # None => CommandStands(mutation, disk[mutation.root], trees[mutation.root], behind[mutation.root])

\* The poll does not see what a command does: but then it is no longer permitted to answer.
PollFits ==
  poll # None =>
    /\ poll \in Tree!Listings /\ trees[poll.root] # None /\ (poll.permitted => mutation = None)
    /\ poll.tree # None => Tree!IsTree(poll.tree) /\ (poll.permitted /\ ~poll.old => poll.tree = disk[poll.root])

\* A tab is opened of a workspace that no command is of; a workspace is chosen while there is no command.
OpeningFits ==
  opening # None =>
    /\ ListingStands(opening, disk[opening.root]) /\ opening.kind \in {"tab", "path", "load"}
    /\ opening.kind = "tab" => trees[opening.root] = None
    /\ opening.kind = "load" => mutation = None
DownloadFits == download # None => ListingStands(download, disk[download.root]) /\ trees[download.root] # None
BudgetsFit ==
  mutations \in 0..MaxMutations /\ outside \in 0..MaxOutside /\ moves \in 0..MaxMoves /\ faults \in 0..MaxRefusals

TreeInvariant ==
  /\ FoldersFit /\ WindowFits /\ MutationFits /\ PollFits /\ OpeningFits /\ DownloadFits /\ BudgetsFit
  /\ Tree!OwnChangesAreShown

\* A listing has a kind and a workspace, and a tree once it was read.
LEMMA ListingIs ==
  ASSUME NEW l \in Tree!Listings
  PROVE  /\ l.kind \in {"poll", "tab", "path", "load", "download"} /\ l.root \in Roots
         /\ l.old \in BOOLEAN /\ l.permitted \in BOOLEAN
         /\ l.tree = None \/ l.tree \subseteq Tree!Entries
<1>1. l \in [kind : {"poll", "tab", "path", "load", "download"}, root : Roots, tree : {None} \cup SUBSET Tree!Entries,
             old : BOOLEAN, permitted : BOOLEAN]
  BY DEF Tree!Listings
<1>2. l.tree \in {None} \cup SUBSET Tree!Entries /\ l.old \in BOOLEAN /\ l.permitted \in BOOLEAN
  BY <1>1
<1> QED BY <1>1, <1>2

\* Neither a listing nor a command is None, nor is a tree.
LEMMA NotNone ==
  /\ None \notin Roots /\ None \notin Tree!Listings /\ None \notin Tree!Commands /\ \A tree : Tree!IsTree(tree) => tree # None
BY PartsAssumption DEF Tree!TreeAssumption, Tree!IsTree

\* A listing that begins.
LEMMA ListingBegins ==
  ASSUME NEW kind \in {"poll", "tab", "path", "load", "download"}, NEW r \in Roots
  PROVE  /\ Tree!Listing(kind, r) \in Tree!Listings /\ Tree!Listing(kind, r).kind = kind /\ Tree!Listing(kind, r).root = r
         /\ Tree!Listing(kind, r).tree = None /\ Tree!Listing(kind, r) # None
<1>1. Tree!Listing(kind, r) \in Tree!Listings
  BY DEF Tree!Listing, Tree!Listings
<1> QED BY <1>1, NotNone DEF Tree!Listing

\* A listing that is read.
LEMMA ListingRead ==
  ASSUME FoldersFit, NEW l \in Tree!Listings
  PROVE  /\ Tree!Read(l, l.root) \in Tree!Listings /\ Tree!Read(l, l.root) # None /\ Tree!Read(l, l.root).kind = l.kind
         /\ Tree!Read(l, l.root).root = l.root /\ Tree!Read(l, l.root).permitted = l.permitted
         /\ Tree!Read(l, l.root).tree = disk[l.root] /\ Tree!Read(l, l.root).old = FALSE
         /\ ListingStands(Tree!Read(l, l.root), disk[l.root])
<1>1. disk[l.root] \in SUBSET Tree!Entries /\ Tree!IsTree(disk[l.root])
  BY ListingIs DEF FoldersFit
<1>2. Tree!Read(l, l.root) = [l EXCEPT !.tree = disk[l.root], !.old = FALSE]
  BY DEF Tree!Read
<1>3. Tree!Read(l, l.root) \in Tree!Listings
  BY <1>1, <1>2 DEF Tree!Listings
<1>4. /\ Tree!Read(l, l.root).kind = l.kind /\ Tree!Read(l, l.root).root = l.root /\ Tree!Read(l, l.root).permitted = l.permitted
      /\ Tree!Read(l, l.root).tree = disk[l.root] /\ Tree!Read(l, l.root).old = FALSE
  BY <1>2 DEF Tree!Listings
<1> QED BY <1>1, <1>3, <1>4, NotNone DEF ListingStands

\* A listing of a folder that others change.
LEMMA ListingAged ==
  ASSUME NEW l \in Tree!Listings, NEW r
  PROVE  /\ Tree!Aged(l, r) \in Tree!Listings /\ Tree!Aged(l, r) # None /\ Tree!Aged(l, r).kind = l.kind /\ Tree!Aged(l, r).root = l.root
         /\ Tree!Aged(l, r).tree = l.tree /\ Tree!Aged(l, r).permitted = l.permitted
         /\ Tree!Aged(l, r).old <=> (l.old \/ l.root = r)
<1>1. l # None
  BY NotNone
<1>2. CASE l.root = r
  <2>1. Tree!Aged(l, r) = [l EXCEPT !.old = TRUE]
    BY <1>1, <1>2 DEF Tree!Aged
  <2>2. Tree!Aged(l, r) \in Tree!Listings
    BY <2>1 DEF Tree!Listings
  <2>3. /\ Tree!Aged(l, r).kind = l.kind /\ Tree!Aged(l, r).root = l.root /\ Tree!Aged(l, r).tree = l.tree
        /\ Tree!Aged(l, r).permitted = l.permitted
    BY <2>1 DEF Tree!Listings
  <2>4. Tree!Aged(l, r).old = TRUE
    BY <2>1 DEF Tree!Listings
  <2> QED BY <1>2, <2>2, <2>3, <2>4, NotNone
<1>3. CASE l.root # r
  BY <1>1, <1>3 DEF Tree!Aged
<1> QED BY <1>2, <1>3

\* A listing that others' changes made old says nothing of the folder.
LEMMA ListingAgedStands ==
  ASSUME NEW l \in Tree!Listings, NEW r, NEW now, NEW then, ListingStands(l, now), l.root # r => then = now
  PROVE  ListingStands(Tree!Aged(l, r), then)
BY ListingAged DEF ListingStands

\* A command that others' changes made old.
LEMMA CommandAged ==
  ASSUME NEW m \in Tree!Commands, NEW r
  PROVE  /\ Tree!Aged(m, r) \in Tree!Commands /\ Tree!Aged(m, r) # None /\ Tree!Aged(m, r).kind = m.kind /\ Tree!Aged(m, r).root = m.root
         /\ Tree!Aged(m, r).from = m.from /\ Tree!Aged(m, r).to = m.to /\ Tree!Aged(m, r).entries = m.entries
         /\ Tree!Aged(m, r).step = m.step /\ Tree!Aged(m, r).tree = m.tree
         /\ Tree!Aged(m, r).old <=> (m.old \/ m.root = r)
<1>1. m # None
  BY NotNone
<1>2. CASE m.root = r
  <2>1. Tree!Aged(m, r) = [m EXCEPT !.old = TRUE]
    BY <1>1, <1>2 DEF Tree!Aged
  <2>2. Tree!Aged(m, r) \in Tree!Commands
    BY <2>1 DEF Tree!Commands
  <2>3. /\ Tree!Aged(m, r).kind = m.kind /\ Tree!Aged(m, r).root = m.root /\ Tree!Aged(m, r).from = m.from /\ Tree!Aged(m, r).to = m.to
        /\ Tree!Aged(m, r).entries = m.entries /\ Tree!Aged(m, r).step = m.step /\ Tree!Aged(m, r).tree = m.tree
    BY <2>1 DEF Tree!Commands
  <2>4. Tree!Aged(m, r).old = TRUE
    BY <2>1 DEF Tree!Commands
  <2> QED BY <1>2, <2>2, <2>3, <2>4, NotNone
<1>3. CASE m.root # r
  BY <1>1, <1>3 DEF Tree!Aged
<1> QED BY <1>2, <1>3

(* Listings that begin, are read or fail *)

\* What folders, trees and the window a step leaves alone.
LEMMA TreesStay ==
  ASSUME TreeInvariant, UNCHANGED <<disk, trees, root, items, behind>>,
         reported' = reported \/ (reported' # None => Tree!IsTree(reported'))
  PROVE  FoldersFit' /\ WindowFits'
BY DEF TreeInvariant, FoldersFit, WindowFits

\* What a step says of its budgets.
LEMMA BudgetSpent ==
  ASSUME NEW b \in Nat, NEW n \in 0..b, Tree!Spent(n)
  PROVE  n - 1 \in 0..b
BY DEF Tree!Spent

\* Budgets are natural numbers.
LEMMA BudgetsAre == MaxMutations \in Nat /\ MaxOutside \in Nat /\ MaxMoves \in Nat /\ MaxRefusals \in Nat
BY PartsAssumption DEF Tree!TreeAssumption

\* The poll begins while no command runs.
LEMMA PollKeeps ==
  ASSUME TreeInvariant, Tree!Poll
  PROVE  TreeInvariant'
<1>1. root \in Roots /\ trees[root] # None /\ mutation = None
  BY DEF TreeInvariant, WindowFits, Tree!Poll
<1>2. poll' \in Tree!Listings /\ poll'.root = root /\ poll'.tree = None
  BY <1>1, ListingBegins DEF Tree!Poll
<1>3. PollFits'
  BY <1>1, <1>2 DEF Tree!Poll, PollFits
<1>4. FoldersFit' /\ WindowFits'
  BY TreesStay DEF Tree!Poll
<1>5. MutationFits' /\ OpeningFits' /\ DownloadFits' /\ BudgetsFit' /\ Tree!OwnChangesAreShown'
  BY DEF TreeInvariant, Tree!Poll, MutationFits, OpeningFits, DownloadFits, BudgetsFit, Tree!OwnChangesAreShown,
     Tree!Affects
<1> QED BY <1>3, <1>4, <1>5 DEF TreeInvariant

\* The poll reads what is on disk.
LEMMA PollReadsKeeps ==
  ASSUME TreeInvariant, Tree!PollReads
  PROVE  TreeInvariant'
<1>1. poll \in Tree!Listings /\ trees[poll.root] # None /\ (poll.permitted => mutation = None) /\ poll' = Tree!Read(poll, poll.root)
  BY DEF TreeInvariant, PollFits, Tree!PollReads
<1>2. /\ poll' \in Tree!Listings /\ poll'.root = poll.root /\ poll'.permitted = poll.permitted
      /\ poll'.tree = disk[poll.root] /\ ListingStands(poll', disk[poll.root])
  BY <1>1, ListingRead DEF TreeInvariant
<1>3. PollFits'
  BY <1>1, <1>2 DEF Tree!PollReads, PollFits, ListingStands
<1>4. FoldersFit' /\ WindowFits'
  BY TreesStay DEF Tree!PollReads
<1>5. MutationFits' /\ OpeningFits' /\ DownloadFits' /\ BudgetsFit' /\ Tree!OwnChangesAreShown'
  BY DEF TreeInvariant, Tree!PollReads, MutationFits, OpeningFits, DownloadFits, BudgetsFit,
     Tree!OwnChangesAreShown, Tree!Affects
<1> QED BY <1>3, <1>4, <1>5 DEF TreeInvariant

\* A poll that fails tells nothing.
LEMMA PollFailsKeeps ==
  ASSUME TreeInvariant, Tree!PollFails
  PROVE  TreeInvariant'
<1>1. BudgetsFit'
  BY BudgetSpent, BudgetsAre DEF TreeInvariant, BudgetsFit, Tree!PollFails
<1>2. FoldersFit' /\ WindowFits'
  BY TreesStay DEF Tree!PollFails
<1>3. MutationFits' /\ OpeningFits' /\ DownloadFits' /\ PollFits' /\ Tree!OwnChangesAreShown'
  BY DEF TreeInvariant, Tree!PollFails, PollFits, MutationFits, OpeningFits, DownloadFits,
     Tree!OwnChangesAreShown, Tree!Affects
<1> QED BY <1>1, <1>2, <1>3 DEF TreeInvariant

\* An opening begins: of a tab only where no tree is kept, of a workspace only while no command runs.
LEMMA OpenKeeps ==
  ASSUME TreeInvariant, NEW kind \in {"tab", "path", "load"}, NEW r \in Roots, Tree!Open(kind, r),
         kind = "tab" => trees[r] = None, kind = "load" => mutation = None
  PROVE  TreeInvariant'
<1>1. opening' \in Tree!Listings /\ opening'.kind = kind /\ opening'.root = r /\ opening'.tree = None
  BY ListingBegins DEF Tree!Open
<1>2. OpeningFits'
  BY <1>1 DEF Tree!Open, OpeningFits, ListingStands
<1>3. BudgetsFit'
  BY BudgetSpent, BudgetsAre DEF TreeInvariant, BudgetsFit, Tree!Open
<1>4. FoldersFit' /\ WindowFits'
  BY TreesStay DEF Tree!Open
<1>5. MutationFits' /\ PollFits' /\ DownloadFits' /\ Tree!OwnChangesAreShown'
  BY DEF TreeInvariant, Tree!Open, MutationFits, PollFits, DownloadFits, Tree!OwnChangesAreShown, Tree!Affects
<1> QED BY <1>2, <1>3, <1>4, <1>5 DEF TreeInvariant

\* An opening reads what is on disk.
LEMMA OpeningReadsKeeps ==
  ASSUME TreeInvariant, Tree!OpeningReads
  PROVE  TreeInvariant'
<1>1. /\ opening \in Tree!Listings /\ opening.kind \in {"tab", "path", "load"} /\ (opening.kind = "tab" => trees[opening.root] = None)
      /\ (opening.kind = "load" => mutation = None) /\ opening' = Tree!Read(opening, opening.root)
  BY DEF TreeInvariant, OpeningFits, Tree!OpeningReads, ListingStands
<1>2. opening'.root = opening.root /\ opening'.kind = opening.kind /\ ListingStands(opening', disk[opening.root])
  BY <1>1, ListingRead DEF TreeInvariant
<1>3. OpeningFits'
  BY <1>1, <1>2 DEF Tree!OpeningReads, OpeningFits
<1>4. FoldersFit' /\ WindowFits'
  BY TreesStay DEF Tree!OpeningReads
<1>5. MutationFits' /\ PollFits' /\ DownloadFits' /\ BudgetsFit' /\ Tree!OwnChangesAreShown'
  BY DEF TreeInvariant, Tree!OpeningReads, MutationFits, PollFits, DownloadFits, BudgetsFit,
     Tree!OwnChangesAreShown, Tree!Affects
<1> QED BY <1>3, <1>4, <1>5 DEF TreeInvariant

\* An opening that fails shows nothing.
LEMMA OpeningFailsKeeps ==
  ASSUME TreeInvariant, Tree!OpeningFails
  PROVE  TreeInvariant'
<1>1. FoldersFit' /\ WindowFits'
  BY TreesStay DEF Tree!OpeningFails
<1>2. MutationFits' /\ OpeningFits' /\ DownloadFits' /\ PollFits' /\ BudgetsFit' /\ Tree!OwnChangesAreShown'
  BY DEF TreeInvariant, Tree!OpeningFails, PollFits, MutationFits, OpeningFits, DownloadFits, BudgetsFit,
     Tree!OwnChangesAreShown, Tree!Affects
<1> QED BY <1>1, <1>2 DEF TreeInvariant

\* After a sync the open workspace is listed.
LEMMA DownloadKeeps ==
  ASSUME TreeInvariant, Tree!Download
  PROVE  TreeInvariant'
<1>1. root \in Roots /\ trees[root] # None
  BY DEF TreeInvariant, WindowFits, Tree!Download
<1>2. download' \in Tree!Listings /\ download'.root = root /\ download'.tree = None
  BY <1>1, ListingBegins DEF Tree!Download
<1>3. DownloadFits'
  BY <1>1, <1>2 DEF Tree!Download, DownloadFits, ListingStands
<1>4. BudgetsFit'
  BY BudgetSpent, BudgetsAre DEF TreeInvariant, BudgetsFit, Tree!Download
<1>5. FoldersFit' /\ WindowFits'
  BY TreesStay DEF Tree!Download
<1>6. MutationFits' /\ PollFits' /\ OpeningFits' /\ Tree!OwnChangesAreShown'
  BY DEF TreeInvariant, Tree!Download, MutationFits, PollFits, OpeningFits, Tree!OwnChangesAreShown, Tree!Affects
<1> QED BY <1>3, <1>4, <1>5, <1>6 DEF TreeInvariant

\* The listing after a sync reads what is on disk.
LEMMA DownloadReadsKeeps ==
  ASSUME TreeInvariant, Tree!DownloadReads
  PROVE  TreeInvariant'
<1>1. download \in Tree!Listings /\ trees[download.root] # None /\ download' = Tree!Read(download, download.root)
  BY DEF TreeInvariant, DownloadFits, Tree!DownloadReads, ListingStands
<1>2. download'.root = download.root /\ ListingStands(download', disk[download.root])
  BY <1>1, ListingRead DEF TreeInvariant
<1>3. DownloadFits'
  BY <1>1, <1>2 DEF Tree!DownloadReads, DownloadFits
<1>4. FoldersFit' /\ WindowFits'
  BY TreesStay DEF Tree!DownloadReads
<1>5. MutationFits' /\ PollFits' /\ OpeningFits' /\ BudgetsFit' /\ Tree!OwnChangesAreShown'
  BY DEF TreeInvariant, Tree!DownloadReads, MutationFits, PollFits, OpeningFits, BudgetsFit,
     Tree!OwnChangesAreShown, Tree!Affects
<1> QED BY <1>3, <1>4, <1>5 DEF TreeInvariant

\* A listing after a sync that fails shows nothing.
LEMMA DownloadFailsKeeps ==
  ASSUME TreeInvariant, Tree!DownloadFails
  PROVE  TreeInvariant'
<1>1. BudgetsFit'
  BY BudgetSpent, BudgetsAre DEF TreeInvariant, BudgetsFit, Tree!DownloadFails
<1>2. FoldersFit' /\ WindowFits'
  BY TreesStay DEF Tree!DownloadFails
<1>3. MutationFits' /\ OpeningFits' /\ DownloadFits' /\ PollFits' /\ Tree!OwnChangesAreShown'
  BY DEF TreeInvariant, Tree!DownloadFails, PollFits, MutationFits, OpeningFits, DownloadFits,
     Tree!OwnChangesAreShown, Tree!Affects
<1> QED BY <1>1, <1>2, <1>3 DEF TreeInvariant

(* Listings that are shown *)

\* A tree takes the place of the one that was kept.
LEMMA TreePlaced ==
  ASSUME TreeInvariant, NEW r \in Roots, NEW tree, Tree!IsTree(tree), NEW b \in BOOLEAN,
         trees' = [trees EXCEPT ![r] = tree], behind' = [behind EXCEPT ![r] = b], disk' = disk
  PROVE  /\ FoldersFit' /\ trees'[r] = tree /\ behind'[r] = b
         /\ \A q \in Roots \ {r} : trees'[q] = trees[q] /\ behind'[q] = behind[q]
         /\ \A q \in Roots : trees[q] # None => trees'[q] # None
<1>1. tree \in SUBSET Tree!Entries /\ tree # None
  BY NotNone DEF Tree!IsTree
<1>2. trees' \in [Roots -> {None} \cup SUBSET Tree!Entries] /\ behind' \in [Roots -> BOOLEAN]
  BY <1>1 DEF TreeInvariant, FoldersFit
<1>3. trees'[r] = tree /\ behind'[r] = b /\ \A q \in Roots \ {r} : trees'[q] = trees[q] /\ behind'[q] = behind[q]
  BY DEF TreeInvariant, FoldersFit
<1>4. \A q \in Roots : Tree!IsTree(disk'[q]) /\ (trees'[q] # None => Tree!IsTree(trees'[q]))
  BY <1>3 DEF TreeInvariant, FoldersFit
<1> QED BY <1>1, <1>2, <1>3, <1>4 DEF TreeInvariant, FoldersFit

\* A listing takes the place of the tree that was kept: a command under way stands, and its changes are shown.
LEMMA ListingPlaced ==
  ASSUME TreeInvariant, NEW r \in Roots, NEW tree, Tree!IsTree(tree), NEW b \in BOOLEAN, ~b => tree = disk[r],
         trees' = [trees EXCEPT ![r] = tree], behind' = [behind EXCEPT ![r] = b], disk' = disk, mutation' = mutation
  PROVE  MutationFits' /\ Tree!OwnChangesAreShown'
<1>1. /\ trees'[r] = tree /\ behind'[r] = b
      /\ \A q \in Roots \ {r} : trees'[q] = trees[q] /\ behind'[q] = behind[q]
  BY TreePlaced
<1>2. CASE mutation # None
  <2>1. CommandStands(mutation, disk[mutation.root], trees[mutation.root], behind[mutation.root]) /\ mutation.root \in Roots
    BY <1>2, CommandIs DEF TreeInvariant, MutationFits, CommandStands
  <2>4. MutationFits'
    <3>1. CASE mutation.root = r
      <4>1. tree # None
        BY NotNone
      <4>2. CommandStands(mutation, disk[r], tree, b)
        BY <2>1, <3>1, <4>1 DEF CommandStands, Shows
      <4> QED BY <1>1, <3>1, <4>2 DEF MutationFits
    <3>2. CASE mutation.root # r
      BY <1>1, <2>1, <3>2 DEF MutationFits
    <3> QED BY <3>1, <3>2
  <2>5. Tree!OwnChangesAreShown'
    BY <1>1 DEF TreeInvariant, Tree!OwnChangesAreShown, Tree!Affects
  <2> QED BY <2>4, <2>5
<1>3. CASE mutation = None
  <2>1. Tree!OwnChangesAreShown'
    BY <1>1 DEF TreeInvariant, Tree!OwnChangesAreShown, Tree!Affects
  <2> QED BY <1>3, <2>1 DEF MutationFits
<1> QED BY <1>2, <1>3

\* The window shows the tree that took the place of the one it showed.
LEMMA KeptIsShown ==
  ASSUME TreeInvariant, NEW r \in Roots, NEW tree, Tree!IsTree(tree), Tree!Keep(r, tree), root' = root,
         reported' = reported \/ (reported' # None => Tree!IsTree(reported'))
  PROVE  WindowFits'
<1>1. tree # None
  BY NotNone
<1>2. trees' = [trees EXCEPT ![r] = tree] /\ items' = IF root = r THEN tree ELSE items
  BY DEF Tree!Keep
<1>3. trees'[r] = tree /\ \A q \in Roots \ {r} : trees'[q] = trees[q]
  BY <1>2 DEF TreeInvariant, FoldersFit
<1>4. root \in Roots => trees'[root] # None /\ items' = trees'[root]
  BY <1>1, <1>2, <1>3, NotNone DEF TreeInvariant, WindowFits
<1>5. root = None => items' = {}
  BY <1>2, NotNone DEF TreeInvariant, WindowFits
<1> QED BY <1>4, <1>5, NotNone DEF TreeInvariant, WindowFits

\* What the poll tells is what is on disk: it is not permitted to tell when a command has begun.
LEMMA PollReturnsKeeps ==
  ASSUME TreeInvariant, Tree!PollReturns
  PROVE  TreeInvariant'
<1>1. CASE poll.permitted /\ mutation = None /\ poll.tree # reported
  <2>1. /\ poll \in Tree!Listings /\ poll.root \in Roots /\ trees[poll.root] # None /\ Tree!IsTree(poll.tree) /\ poll.old \in BOOLEAN
        /\ ~poll.old => poll.tree = disk[poll.root]
    <3>1. poll # None /\ poll.tree # None
      BY DEF Tree!PollReturns
    <3>2. PollFits
      BY DEF TreeInvariant
    <3>3. poll \in Tree!Listings
      BY <3>1, <3>2 DEF PollFits
    <3>4. trees[poll.root] # None /\ Tree!IsTree(poll.tree) /\ (~poll.old => poll.tree = disk[poll.root])
      BY <1>1, <3>1, <3>2 DEF PollFits
    <3> QED BY <3>3, <3>4, ListingIs
  <2>2. /\ trees' = [trees EXCEPT ![poll.root] = poll.tree] /\ behind' = [behind EXCEPT ![poll.root] = poll.old]
        /\ Tree!Keep(poll.root, poll.tree) /\ reported' = poll.tree /\ poll' = None
    BY <1>1 DEF Tree!PollReturns, Tree!KeepListing, Tree!Keep
  <2>3. FoldersFit' /\ \A q \in Roots : q # poll.root => trees'[q] = trees[q]
    BY <2>1, <2>2, TreePlaced DEF Tree!PollReturns
  <2>4. \A q \in Roots : trees[q] # None => trees'[q] # None
    BY <2>1, <2>2, TreePlaced DEF Tree!PollReturns
  <2>5. MutationFits' /\ Tree!OwnChangesAreShown'
    BY <2>1, <2>2, ListingPlaced DEF Tree!PollReturns
  <2>6. WindowFits'
    BY <2>1, <2>2, KeptIsShown DEF Tree!PollReturns
  <2>7. OpeningFits'
    <3>1. opening # None => opening.root \in Roots
      BY ListingIs DEF TreeInvariant, OpeningFits, ListingStands
    <3> QED BY <2>1, <2>3, <3>1 DEF TreeInvariant, OpeningFits, Tree!PollReturns
  <2>8. DownloadFits'
    <3>1. download # None => download.root \in Roots
      BY ListingIs DEF TreeInvariant, DownloadFits, ListingStands
    <3> QED BY <2>4, <3>1 DEF TreeInvariant, DownloadFits, Tree!PollReturns
  <2> QED BY <2>2, <2>3, <2>5, <2>6, <2>7, <2>8 DEF TreeInvariant, PollFits, BudgetsFit, Tree!PollReturns
<1>2. CASE ~(poll.permitted /\ mutation = None /\ poll.tree # reported)
  <2>1. FoldersFit' /\ WindowFits'
    BY <1>2, TreesStay DEF Tree!PollReturns
  <2>2. MutationFits' /\ OpeningFits' /\ DownloadFits' /\ PollFits' /\ BudgetsFit' /\ Tree!OwnChangesAreShown'
    BY <1>2 DEF TreeInvariant, Tree!PollReturns, PollFits, MutationFits, OpeningFits, DownloadFits, BudgetsFit,
       Tree!OwnChangesAreShown, Tree!Affects
  <2> QED BY <2>1, <2>2 DEF TreeInvariant
<1> QED BY <1>1, <1>2

\* The listing after a sync may come while a command runs: it is right, or known to be old.
LEMMA DownloadedKeeps ==
  ASSUME TreeInvariant, Tree!Downloaded
  PROVE  TreeInvariant'
<1>1. /\ download \in Tree!Listings /\ download.root \in Roots /\ trees[download.root] # None /\ Tree!IsTree(download.tree)
      /\ download.old \in BOOLEAN
      /\ ~download.old => download.tree = disk[download.root]
  <2>1. download # None /\ download.tree # None
    BY DEF Tree!Downloaded
  <2>2. ListingStands(download, disk[download.root]) /\ trees[download.root] # None
    BY <2>1 DEF TreeInvariant, DownloadFits
  <2> QED BY <2>1, <2>2, ListingIs DEF ListingStands
<1>2. /\ trees' = [trees EXCEPT ![download.root] = download.tree]
      /\ behind' = [behind EXCEPT ![download.root] = download.old]
      /\ Tree!Keep(download.root, download.tree) /\ download' = None
  BY DEF Tree!Downloaded, Tree!KeepListing, Tree!Keep
<1>3. FoldersFit' /\ (\A q \in Roots : q # download.root => trees'[q] = trees[q])
      /\ \A q \in Roots : trees[q] # None => trees'[q] # None
  BY <1>1, <1>2, TreePlaced DEF Tree!Downloaded
<1>4. MutationFits' /\ Tree!OwnChangesAreShown'
  BY <1>1, <1>2, ListingPlaced DEF Tree!Downloaded
<1>5. WindowFits'
  BY <1>1, <1>2, KeptIsShown DEF Tree!Downloaded
<1>6. OpeningFits'
  <2>1. opening # None => opening.root \in Roots
    BY ListingIs DEF TreeInvariant, OpeningFits, ListingStands
  <2> QED BY <1>1, <1>3, <2>1 DEF TreeInvariant, OpeningFits, Tree!Downloaded
<1>7. PollFits'
  <2>1. poll # None => poll.root \in Roots
    BY ListingIs DEF TreeInvariant, PollFits
  <2> QED BY <1>3, <2>1 DEF TreeInvariant, PollFits, Tree!Downloaded
<1> QED BY <1>2, <1>3, <1>4, <1>5, <1>6, <1>7 DEF TreeInvariant, DownloadFits, BudgetsFit, Tree!Downloaded

\* The window shows another workspace.
LEMMA RootIsShown ==
  ASSUME TreeInvariant, NEW r \in Roots, NEW tree, Tree!IsTree(tree), Tree!ShowRoot(r, tree)
  PROVE  WindowFits'
<1>1. tree # None /\ r # None
  BY NotNone
<1>2. root' = r /\ items' = tree /\ trees'[r] = tree
  BY DEF Tree!ShowRoot, TreeInvariant, FoldersFit
<1>3. reported' # None => Tree!IsTree(reported')
  BY DEF Tree!ShowRoot, TreeInvariant, WindowFits
<1> QED BY <1>1, <1>2, <1>3 DEF WindowFits

\* A workspace is shown with the tree that was read, unless a command changes it meanwhile.
LEMMA OpenedKeeps ==
  ASSUME TreeInvariant, Tree!Opened
  PROVE  TreeInvariant'
<1>1. CASE opening.kind = "path" /\ Tree!Affects(opening.root)
  <2>1. FoldersFit' /\ WindowFits'
    BY <1>1, TreesStay DEF Tree!Opened
  <2>2. MutationFits' /\ OpeningFits' /\ DownloadFits' /\ PollFits' /\ BudgetsFit' /\ Tree!OwnChangesAreShown'
    BY <1>1 DEF TreeInvariant, Tree!Opened, PollFits, MutationFits, OpeningFits, DownloadFits, BudgetsFit,
       Tree!OwnChangesAreShown, Tree!Affects
  <2> QED BY <2>1, <2>2 DEF TreeInvariant
<1>2. CASE ~(opening.kind = "path" /\ Tree!Affects(opening.root))
  <2>1. /\ opening \in Tree!Listings /\ opening.root \in Roots /\ Tree!IsTree(opening.tree) /\ opening.old \in BOOLEAN
        /\ ~opening.old => opening.tree = disk[opening.root]
    <3>1. opening # None /\ opening.tree # None
      BY DEF Tree!Opened
    <3>2. ListingStands(opening, disk[opening.root])
      BY <3>1 DEF TreeInvariant, OpeningFits
    <3> QED BY <3>1, <3>2, ListingIs DEF ListingStands
  <2>2. /\ trees' = [trees EXCEPT ![opening.root] = opening.tree]
        /\ behind' = [behind EXCEPT ![opening.root] = opening.old]
        /\ Tree!ShowRoot(opening.root, opening.tree) /\ opening' = None
    BY <1>2 DEF Tree!Opened, Tree!ShowRoot
  <2>3. FoldersFit' /\ \A q \in Roots : trees[q] # None => trees'[q] # None
    BY <2>1, <2>2, TreePlaced DEF Tree!Opened
  <2>4. MutationFits' /\ Tree!OwnChangesAreShown'
    BY <2>1, <2>2, ListingPlaced DEF Tree!Opened
  <2>5. WindowFits'
    BY <2>1, <2>2, RootIsShown
  <2>6. DownloadFits'
    <3>1. download # None => download.root \in Roots
      BY ListingIs DEF TreeInvariant, DownloadFits, ListingStands
    <3> QED BY <2>3, <3>1 DEF TreeInvariant, DownloadFits, Tree!Opened
  <2>7. PollFits'
    <3>1. poll # None => poll.root \in Roots
      BY ListingIs DEF TreeInvariant, PollFits
    <3>2. poll' = poll \/ poll' = None
      BY <2>2 DEF Tree!ShowRoot
    <3> QED BY <2>3, <3>1, <3>2 DEF TreeInvariant, PollFits, Tree!Opened
  <2> QED BY <2>2, <2>3, <2>4, <2>5, <2>6, <2>7 DEF TreeInvariant, OpeningFits, BudgetsFit, Tree!Opened
<1> QED BY <1>1, <1>2

\* A tab of another workspace shows the tree that was kept, which no command runs in.
LEMMA ActivateTabKeeps ==
  ASSUME TreeInvariant, Tree!ActivateTab
  PROVE  TreeInvariant'
<1>1. PICK r \in Roots \ {root} : root # None /\
        IF trees[r] = None THEN Tree!Open("tab", r)
        ELSE /\ Tree!Spent(moves) /\ moves' = moves - 1 /\ opening' = None /\ Tree!ShowRoot(r, trees[r])
             /\ UNCHANGED <<disk, mutation, download, behind, mutations, outside, faults>>
  BY DEF Tree!ActivateTab
<1>2. CASE trees[r] = None
  BY <1>1, <1>2, OpenKeeps
<1>3. CASE trees[r] # None
  <2>1. /\ Tree!Spent(moves) /\ moves' = moves - 1 /\ opening' = None /\ Tree!ShowRoot(r, trees[r])
        /\ UNCHANGED <<disk, mutation, download, behind, mutations, outside, faults>>
    BY <1>1, <1>3
  <2>2. Tree!IsTree(trees[r])
    BY <1>3 DEF TreeInvariant, FoldersFit
  <2>3. trees' = trees
    BY <2>1 DEF Tree!ShowRoot, TreeInvariant, FoldersFit
  <2>4. WindowFits'
    BY <2>1, <2>2, RootIsShown
  <2>5. BudgetsFit'
    BY <2>1, BudgetSpent, BudgetsAre DEF TreeInvariant, BudgetsFit
  <2>6. poll' = poll \/ poll' = None
    BY <2>1 DEF Tree!ShowRoot
  <2>7. FoldersFit' /\ MutationFits' /\ OpeningFits' /\ DownloadFits' /\ PollFits' /\ Tree!OwnChangesAreShown'
    BY <2>1, <2>3, <2>6 DEF TreeInvariant, FoldersFit, PollFits, MutationFits, OpeningFits, DownloadFits,
       Tree!OwnChangesAreShown, Tree!Affects
  <2> QED BY <2>4, <2>5, <2>7 DEF TreeInvariant
<1> QED BY <1>2, <1>3

(* Commands that are given *)

\* A command that is given.
LEMMA CommandGiven ==
  ASSUME TreeInvariant, NEW kind \in {"create", "relocate", "duplicate", "delete"}, NEW r \in Roots,
         NEW from \in Tree!EntryPaths, NEW to \in Tree!EntryPaths, NEW entries, entries \subseteq Tree!Entries
  PROVE  LET m == Tree!Command(kind, r, from, to, entries) IN
         /\ m \in Tree!Commands /\ m # None /\ m.kind = kind /\ m.root = r /\ m.from = from /\ m.to = to
         /\ m.entries = entries /\ m.step = "running" /\ m.old = behind[r]
<1> DEFINE m == Tree!Command(kind, r, from, to, entries)
<1>1. behind[r] \in BOOLEAN /\ entries \in SUBSET Tree!Entries
  BY DEF TreeInvariant, FoldersFit
<1>2. m = [kind |-> kind, root |-> r, from |-> from, to |-> to, entries |-> entries, step |-> "running",
           tree |-> None, old |-> behind[r]]
  BY DEF Tree!Command
<1>3. m \in Tree!Commands
  BY <1>1, <1>2 DEF Tree!Commands
<1>4. m # None
  BY <1>3, NotNone
<1> QED BY <1>2, <1>3, <1>4

\* A command is given of a workspace that is shown, or whose entry was.
LEMMA AdmitKeeps ==
  ASSUME TreeInvariant, NEW m \in Tree!Commands, Tree!Admit(m), CommandFits(m), m.step = "running", m.old = behind[m.root],
         trees[m.root] # None,
         m.kind = "duplicate" /\ ~m.old => m.entries = Tree!Remapped(Tree!Subtree(disk[m.root], m.from), m.from, m.to)
  PROVE  TreeInvariant'
<1>1. /\ mutation = None /\ Tree!Spent(mutations) /\ mutations' = mutations - 1 /\ mutation' = m
      /\ poll' = IF poll = None THEN None ELSE [poll EXCEPT !.permitted = FALSE]
      /\ opening' = None /\ UNCHANGED <<disk, trees, root, items, reported, download, behind, outside, moves, faults>>
  BY DEF Tree!Admit, Tree!Begin
<1>2. m.root \in Roots
  BY CommandIs
<1>3. ~behind[m.root] => trees[m.root] = disk[m.root]
  BY <1>1, <1>2 DEF TreeInvariant, Tree!OwnChangesAreShown, Tree!Affects
<1>4. MutationFits'
  <2>1. CommandStands(m, disk[m.root], trees[m.root], behind[m.root])
    BY <1>3 DEF CommandStands
  <2> QED BY <1>1, <2>1 DEF MutationFits
<1>5. PollFits'
  <2>1. CASE poll = None
    BY <1>1, <2>1 DEF PollFits
  <2>2. CASE poll # None
    <3>1. poll \in Tree!Listings /\ trees[poll.root] # None /\ (poll.tree # None => Tree!IsTree(poll.tree))
      BY <2>2 DEF TreeInvariant, PollFits
    <3>2. poll' = [poll EXCEPT !.permitted = FALSE]
      BY <1>1, <2>2
    <3>3. poll' \in Tree!Listings
      BY <3>1, <3>2 DEF Tree!Listings
    <3>4. poll'.root = poll.root /\ poll'.tree = poll.tree /\ poll'.permitted = FALSE
      BY <3>1, <3>2 DEF Tree!Listings
    <3> QED BY <1>1, <3>1, <3>3, <3>4 DEF PollFits
  <2> QED BY <2>1, <2>2
<1>6. BudgetsFit'
  BY <1>1, BudgetSpent, BudgetsAre DEF TreeInvariant, BudgetsFit
<1>7. FoldersFit' /\ WindowFits'
  BY <1>1, TreesStay
<1>8. OpeningFits' /\ DownloadFits' /\ Tree!OwnChangesAreShown'
  BY <1>1 DEF TreeInvariant, OpeningFits, DownloadFits, Tree!OwnChangesAreShown, Tree!Affects
<1> QED BY <1>4, <1>5, <1>6, <1>7, <1>8 DEF TreeInvariant

\* Nothing is put below a path.
LEMMA NothingFits == \A to : EntriesFit({}, to)
BY DEF EntriesFit

\* An entry is created in the open workspace.
LEMMA CreateKeeps ==
  ASSUME TreeInvariant, Tree!Create
  PROVE  TreeInvariant'
<1>1. PICK path \in Tree!EntryPaths, folder \in BOOLEAN :
        root # None /\ Tree!Admit(Tree!Command("create", root, path, path, {Tree!Entry(path, folder)}))
  BY DEF Tree!Create
<1>2. root \in Roots /\ trees[root] # None
  BY <1>1 DEF TreeInvariant, WindowFits
<1>3. Tree!Entry(path, folder) \in Tree!Entries /\ Tree!Entry(path, folder).path = path
  BY EntryIs
<1>4. EntriesFit({Tree!Entry(path, folder)}, path)
  BY <1>3 DEF EntriesFit
<1>5. PICK m : m = Tree!Command("create", root, path, path, {Tree!Entry(path, folder)})
  OBVIOUS
<1>6. /\ m \in Tree!Commands /\ m.kind = "create" /\ m.root = root /\ m.to = path /\ m.entries = {Tree!Entry(path, folder)}
      /\ m.step = "running" /\ m.old = behind[root]
  BY <1>2, <1>3, <1>5, CommandGiven
<1>7. CommandFits(m)
  BY <1>4, <1>6 DEF CommandFits
<1> QED BY <1>1, <1>2, <1>5, <1>6, <1>7, AdmitKeeps

\* An entry is renamed or moved in the open workspace.
LEMMA RelocateKeeps ==
  ASSUME TreeInvariant, Tree!Relocate
  PROVE  TreeInvariant'
<1>1. PICK from \in Tree!EntryPaths, to \in Tree!EntryPaths : root # None /\ Tree!Admit(Tree!Command("relocate", root, from, to, {}))
  BY DEF Tree!Relocate
<1>2. root \in Roots /\ trees[root] # None
  BY <1>1 DEF TreeInvariant, WindowFits
<1>3. PICK m : m = Tree!Command("relocate", root, from, to, {})
  OBVIOUS
<1>4. m \in Tree!Commands /\ m.kind = "relocate" /\ m.root = root /\ m.entries = {} /\ m.step = "running" /\ m.old = behind[root]
  BY <1>2, <1>3, CommandGiven
<1>5. CommandFits(m)
  BY <1>4, NothingFits DEF CommandFits
<1> QED BY <1>1, <1>2, <1>3, <1>4, <1>5, AdmitKeeps

\* The copy that is shown is made of the shown entry, which is the stored one unless others changed it.
LEMMA DuplicateKeeps ==
  ASSUME TreeInvariant, Tree!Duplicate
  PROVE  TreeInvariant'
<1>1. PICK from \in Tree!EntryPaths, to \in Tree!EntryPaths :
        /\ root # None /\ Tree!Has(items, from) /\ Tree!Parent(from) = Tree!Parent(to)
        /\ Tree!Admit(Tree!Command("duplicate", root, from, to, Tree!Remapped(Tree!Subtree(items, from), from, to)))
  BY DEF Tree!Duplicate
<1>2. root \in Roots /\ trees[root] # None /\ items = trees[root] /\ Tree!IsTree(items) /\ mutation = None
  BY <1>1 DEF TreeInvariant, WindowFits, FoldersFit, Tree!Admit, Tree!Begin
<1>3. PICK entries : entries = Tree!Remapped(Tree!Subtree(items, from), from, to)
  OBVIOUS
<1>4. entries \subseteq Tree!Entries /\ EntriesFit(entries, to)
  BY <1>1, <1>2, <1>3, SiblingsFit
<1>5. PICK m : m = Tree!Command("duplicate", root, from, to, entries)
  OBVIOUS
<1>6. /\ m \in Tree!Commands /\ m.kind = "duplicate" /\ m.root = root /\ m.from = from /\ m.to = to
      /\ m.entries = entries /\ m.step = "running" /\ m.old = behind[root]
  BY <1>2, <1>4, <1>5, CommandGiven
<1>7. CommandFits(m)
  BY <1>1, <1>4, <1>6 DEF CommandFits
<1>8. ~m.old => items = disk[root]
  BY <1>2, <1>6 DEF TreeInvariant, Tree!OwnChangesAreShown, Tree!Affects
<1> QED BY <1>1, <1>2, <1>3, <1>5, <1>6, <1>7, <1>8, AdmitKeeps

\* An entry is deleted in the workspace of the question.
LEMMA DeleteKeeps ==
  ASSUME TreeInvariant, Tree!Delete
  PROVE  TreeInvariant'
<1>1. PICK r \in Roots, path \in Tree!EntryPaths : trees[r] # None /\ Tree!Admit(Tree!Command("delete", r, path, path, {}))
  BY DEF Tree!Delete
<1>2. PICK m : m = Tree!Command("delete", r, path, path, {})
  OBVIOUS
<1>3. m \in Tree!Commands /\ m.kind = "delete" /\ m.root = r /\ m.entries = {} /\ m.step = "running" /\ m.old = behind[r]
  BY <1>2, CommandGiven
<1>4. CommandFits(m)
  BY <1>3, NothingFits DEF CommandFits
<1> QED BY <1>1, <1>2, <1>3, <1>4, AdmitKeeps

(* Commands that are carried out and answered *)

\* A command takes a step.
LEMMA CommandSteps ==
  ASSUME NEW m \in Tree!Commands, NEW step \in {"running", "done", "listing", "listed"}
  PROVE  LET n == [m EXCEPT !.step = step] IN
         /\ n \in Tree!Commands /\ n # None /\ n.kind = m.kind /\ n.root = m.root /\ n.from = m.from /\ n.to = m.to
         /\ n.entries = m.entries /\ n.step = step /\ n.tree = m.tree /\ n.old = m.old
<1> DEFINE n == [m EXCEPT !.step = step]
<1>1. n \in Tree!Commands
  BY DEF Tree!Commands
<1>2. /\ n.kind = m.kind /\ n.root = m.root /\ n.from = m.from /\ n.to = m.to
      /\ n.entries = m.entries /\ n.step = step /\ n.tree = m.tree /\ n.old = m.old
  BY DEF Tree!Commands
<1> QED BY <1>1, <1>2, NotNone

\* A command with the same question is as good.
LEMMA SameCommand ==
  ASSUME NEW m, NEW n, n.kind = m.kind, n.from = m.from, n.to = m.to, n.entries = m.entries
  PROVE  /\ CommandFits(m) => CommandFits(n)
         /\ \A tree : Tree!Projected(tree, n) = Tree!Projected(tree, m)
         /\ \A tree, now : Shows(tree, now, n) <=> Shows(tree, now, m)
BY DEF CommandFits, Tree!Projected, Shows

\* What the invariant says of the command under way.
LEMMA CommandUnderWay ==
  ASSUME TreeInvariant, mutation # None
  PROVE  /\ CommandStands(mutation, disk[mutation.root], trees[mutation.root], behind[mutation.root])
         /\ mutation \in Tree!Commands /\ mutation.root \in Roots /\ CommandFits(mutation) /\ Tree!IsTree(disk[mutation.root])
         /\ trees[mutation.root] # None /\ Tree!IsTree(trees[mutation.root])
<1>1. CommandStands(mutation, disk[mutation.root], trees[mutation.root], behind[mutation.root])
  BY DEF TreeInvariant, MutationFits
<1>2. mutation \in Tree!Commands /\ CommandFits(mutation) /\ trees[mutation.root] # None
  BY <1>1 DEF CommandStands
<1>3. mutation.root \in Roots
  BY <1>2, CommandIs
<1> QED BY <1>1, <1>2, <1>3 DEF TreeInvariant, FoldersFit

\* The command is carried out: no listing read before it may be taken for what is on disk.
LEMMA ExecuteKeeps ==
  ASSUME TreeInvariant, Tree!Execute
  PROVE  TreeInvariant'
<1>1. PICK m : m = mutation
  OBVIOUS
<1> DEFINE r == m.root
<1>2. /\ CommandStands(m, disk[r], trees[r], behind[r]) /\ m \in Tree!Commands /\ r \in Roots /\ CommandFits(m)
      /\ Tree!IsTree(disk[r]) /\ trees[r] # None /\ m # None /\ m.step = "running" /\ Tree!Possible(m)
  BY <1>1, CommandUnderWay DEF Tree!Execute
<1>3. PICK new : new = Tree!Changed(m)
  OBVIOUS
<1>4. Tree!IsTree(new) /\ new \in SUBSET Tree!Entries /\ Tree!Projected(new, m) = new
  BY <1>2, <1>3, ChangedKeeps, ChangedStays DEF Tree!IsTree
<1>5. /\ disk' = [disk EXCEPT ![r] = new] /\ mutation' = [m EXCEPT !.step = "done"]
      /\ UNCHANGED <<trees, root, items, poll, reported, behind, mutations, outside, moves, faults>>
  BY <1>1, <1>3 DEF Tree!Execute
<1>6. disk'[r] = new /\ (\A q \in Roots \ {r} : disk'[q] = disk[q]) /\ disk' \in [Roots -> SUBSET Tree!Entries]
  BY <1>2, <1>4, <1>5 DEF TreeInvariant, FoldersFit
<1>7. PICK n : n = mutation'
  OBVIOUS
<1>8. /\ n \in Tree!Commands /\ n # None /\ n.kind = m.kind /\ n.root = r /\ n.from = m.from /\ n.to = m.to
      /\ n.entries = m.entries /\ n.step = "done" /\ n.old = m.old
  BY <1>2, <1>5, <1>7, CommandSteps
<1>9. MutationFits'
  <2>1. Shows(Tree!Projected(new, n), new, n)
    BY <1>4, <1>8, SameCommand DEF Shows
  <2>2. ~n.old /\ ~behind[r] => Shows(Tree!Projected(trees[r], n), new, n)
    <3>1. SUFFICES ASSUME ~n.old, ~behind[r] PROVE Shows(Tree!Projected(trees[r], n), new, n)
      OBVIOUS
    <3>2. trees[r] = disk[r] /\ (m.kind = "duplicate" => m.entries = Tree!Remapped(Tree!Subtree(disk[r], m.from), m.from, m.to))
      BY <1>2, <1>8, <3>1 DEF CommandStands
    <3>3. Shows(Tree!Projected(trees[r], m), new, m)
      BY <1>2, <1>3, <3>2, ChangedShows DEF Shows
    <3> QED BY <1>8, <3>3, SameCommand
  <2>3. CommandStands(n, new, trees[r], behind[r])
    BY <1>2, <1>8, <2>1, <2>2, SameCommand DEF CommandStands
  <2> QED BY <1>5, <1>6, <1>7, <1>8, <2>3 DEF MutationFits
<1>10. FoldersFit' /\ WindowFits' /\ BudgetsFit'
  BY <1>4, <1>5, <1>6 DEF TreeInvariant, FoldersFit, WindowFits, BudgetsFit
<1>11. PollFits'
  BY <1>1, <1>2, <1>5 DEF TreeInvariant, PollFits
<1>12. OpeningFits'
  <2>1. CASE opening = None
    BY <2>1 DEF Tree!Execute, OpeningFits
  <2>2. CASE opening # None
    <3>1. /\ ListingStands(opening, disk[opening.root]) /\ opening \in Tree!Listings /\ opening.root \in Roots
          /\ opening.kind = "tab" => trees[opening.root] = None
      BY <2>2, ListingIs DEF TreeInvariant, OpeningFits, ListingStands
    <3>2. opening.kind # "load"
      BY <1>1, <1>2, <2>2 DEF TreeInvariant, OpeningFits
    <3>3. CASE opening.kind = "path"
      <4>1. opening' = Tree!Aged(opening, r)
        BY <1>1, <2>2, <3>3 DEF Tree!Execute
      <4>2. opening'.kind = "path" /\ opening'.root = opening.root
        BY <3>1, <3>3, <4>1, ListingAged
      <4>3. opening.root # r => disk'[opening.root] = disk[opening.root]
        BY <1>6, <3>1
      <4>4. ListingStands(opening', disk'[opening.root])
        BY <3>1, <4>1, <4>3, ListingAgedStands
      <4> QED BY <4>2, <4>4 DEF OpeningFits
    <3>4. CASE opening.kind # "path"
      <4>1. opening' = opening
        BY <3>4 DEF Tree!Execute
      <4>2. opening.root # r => disk'[opening.root] = disk[opening.root]
        BY <1>6, <3>1
      <4>3. opening.root # r \/ opening.kind # "tab"
        BY <1>2, <3>1
      <4>4. opening.kind = "tab"
        BY <2>2, <3>2, <3>4 DEF TreeInvariant, OpeningFits
      <4> QED BY <1>5, <3>1, <4>1, <4>2, <4>3, <4>4 DEF OpeningFits
    <3> QED BY <3>3, <3>4
  <2> QED BY <2>1, <2>2
<1>13. DownloadFits'
  <2>1. CASE download = None
    BY <2>1 DEF Tree!Execute, DownloadFits, Tree!Aged
  <2>2. CASE download # None
    <3>1. /\ ListingStands(download, disk[download.root]) /\ download \in Tree!Listings /\ download.root \in Roots
          /\ trees[download.root] # None
      BY <2>2, ListingIs DEF TreeInvariant, DownloadFits, ListingStands
    <3>2. download' = Tree!Aged(download, r)
      BY <1>1 DEF Tree!Execute
    <3>3. download'.root = download.root
      BY <3>1, <3>2, ListingAged
    <3>4. download.root # r => disk'[download.root] = disk[download.root]
      BY <1>6, <3>1
    <3>5. ListingStands(download', disk'[download.root])
      BY <3>1, <3>2, <3>4, ListingAgedStands
    <3> QED BY <1>5, <3>1, <3>3, <3>5 DEF DownloadFits
  <2> QED BY <2>1, <2>2
<1>14. Tree!OwnChangesAreShown'
  <2>1. SUFFICES ASSUME NEW q \in Roots, ~behind'[q], ~Tree!Affects(q)', trees'[q] # None PROVE trees'[q] = disk'[q]
    BY DEF Tree!OwnChangesAreShown
  <2>2. mutation' # None /\ mutation'.root = r
    BY <1>7, <1>8
  <2>3. q # r
    BY <2>1, <2>2 DEF Tree!Affects
  <2>4. ~Tree!Affects(q) /\ ~behind[q] /\ trees[q] # None /\ trees'[q] = trees[q]
    BY <1>1, <1>5, <2>1, <2>3 DEF Tree!Affects
  <2>5. trees[q] = disk[q]
    BY <2>4 DEF TreeInvariant, Tree!OwnChangesAreShown
  <2> QED BY <1>6, <2>3, <2>4, <2>5
<1> QED BY <1>9, <1>10, <1>11, <1>12, <1>13, <1>14 DEF TreeInvariant

\* A command that fails leaves a tree that is right, or one that is known to lack what was created.
LEMMA MutationFailsKeeps ==
  ASSUME TreeInvariant, Tree!MutationFails
  PROVE  TreeInvariant'
<1>1. PICK m : m = mutation
  OBVIOUS
<1> DEFINE r == m.root
           unshown == m.step # "running" /\ m.kind = "create" /\ ~Tree!Has(trees[r], m.to)
<1>2. /\ CommandStands(m, disk[r], trees[r], behind[r]) /\ m \in Tree!Commands /\ r \in Roots
      /\ m.step \in {"running", "listing", "listed"} /\ mutation' = None
      /\ behind' = [behind EXCEPT ![r] = @ \/ unshown]
      /\ UNCHANGED <<disk, trees, root, items, poll, reported, opening, download, mutations, outside, moves>>
  BY <1>1, CommandUnderWay DEF Tree!MutationFails
<1>3. unshown \in BOOLEAN
  OBVIOUS
<1>4. behind[r] \in BOOLEAN
  BY <1>2 DEF TreeInvariant, FoldersFit
<1>5. PICK b \in BOOLEAN : b <=> (behind[r] \/ unshown)
  OBVIOUS
<1>6. behind' \in [Roots -> BOOLEAN] /\ (behind'[r] <=> (behind[r] \/ unshown)) /\ \A q \in Roots \ {r} : behind'[q] = behind[q]
  <2> HIDE DEF unshown
  <2> QED BY <1>2, <1>3, <1>4 DEF TreeInvariant, FoldersFit
<1>7. ~behind'[r] => trees[r] = disk[r]
  <2>1. CASE m.step = "running"
    BY <1>2, <1>6, <2>1 DEF CommandStands
  <2>2. CASE m.step \in {"listing", "listed"}
    BY <1>2, <1>6, <2>2 DEF CommandStands, Shows
  <2> QED BY <1>2, <2>1, <2>2
<1>8. Tree!OwnChangesAreShown'
  <2>1. SUFFICES ASSUME NEW q \in Roots, ~behind'[q], trees'[q] # None PROVE trees'[q] = disk'[q]
    BY DEF Tree!OwnChangesAreShown
  <2>2. CASE q = r
    BY <1>2, <1>7, <2>1, <2>2
  <2>3. CASE q # r
    <3>1. ~Tree!Affects(q) /\ ~behind[q] /\ trees[q] # None
      BY <1>1, <1>2, <1>6, <2>1, <2>3 DEF Tree!Affects
    <3>2. trees[q] = disk[q]
      BY <3>1 DEF TreeInvariant, Tree!OwnChangesAreShown
    <3> QED BY <1>2, <3>2
  <2> QED BY <2>2, <2>3
<1>9. BudgetsFit'
  <2>1. faults' = faults \/ (Tree!Spent(faults) /\ faults' = faults - 1)
    BY DEF Tree!MutationFails
  <2> QED BY <1>2, <2>1, BudgetSpent, BudgetsAre DEF TreeInvariant, BudgetsFit
<1>10. FoldersFit' /\ WindowFits'
  BY <1>2, <1>6 DEF TreeInvariant, FoldersFit, WindowFits
<1>11. MutationFits' /\ PollFits' /\ DownloadFits'
  BY <1>2 DEF TreeInvariant, MutationFits, PollFits, DownloadFits
<1>12. OpeningFits'
  BY <1>2 DEF TreeInvariant, OpeningFits
<1> QED BY <1>8, <1>9, <1>10, <1>11, <1>12 DEF TreeInvariant

\* The answer is applied to the kept tree, whatever that shows by now.
LEMMA AcknowledgeKeeps ==
  ASSUME TreeInvariant, Tree!Acknowledge
  PROVE  TreeInvariant'
<1>1. PICK m : m = mutation
  OBVIOUS
<1> DEFINE r == m.root
<1>2. /\ CommandStands(m, disk[r], trees[r], behind[r]) /\ m \in Tree!Commands /\ r \in Roots /\ m.step = "done"
      /\ CommandFits(m) /\ trees[r] # None /\ Tree!IsTree(trees[r]) /\ m # None
  BY <1>1, CommandUnderWay DEF Tree!Acknowledge
<1>3. PICK new : new = Tree!Projected(trees[r], m)
  OBVIOUS
<1>4. Tree!IsTree(new) /\ new # None
  BY <1>2, <1>3, ProjectedKeeps, NotNone
<1>5. m.old \in BOOLEAN /\ behind[r] \in BOOLEAN
  BY <1>2, CommandIs DEF TreeInvariant, FoldersFit
<1>6. /\ Tree!Keep(r, new) /\ mutation' = [m EXCEPT !.step = "listing"]
      /\ behind' = [behind EXCEPT ![r] = @ \/ m.old]
      /\ UNCHANGED <<disk, root, poll, reported, opening, download, mutations, outside, moves, faults>>
  BY <1>1, <1>3 DEF Tree!Acknowledge
<1>7. PICK b \in BOOLEAN : b <=> (behind[r] \/ m.old)
  BY <1>5
<1>8. behind' = [behind EXCEPT ![r] = b]
  <2>1. behind' \in [Roots -> BOOLEAN] /\ (behind'[r] <=> b) /\ \A q \in Roots \ {r} : behind'[q] = behind[q]
    BY <1>2, <1>5, <1>6, <1>7 DEF TreeInvariant, FoldersFit
  <2>2. behind'[r] = b
    BY <1>2, <2>1
  <2>3. \A q \in Roots : behind'[q] = [behind EXCEPT ![r] = b][q]
    BY <1>2, <2>1, <2>2 DEF TreeInvariant, FoldersFit
  <2> QED BY <1>2, <1>7, <2>1, <2>3 DEF TreeInvariant, FoldersFit
<1>9. trees' = [trees EXCEPT ![r] = new]
  BY <1>6 DEF Tree!Keep
<1>10. /\ FoldersFit' /\ trees'[r] = new /\ behind'[r] = b
       /\ \A q \in Roots \ {r} : trees'[q] = trees[q] /\ behind'[q] = behind[q]
       /\ \A q \in Roots : trees[q] # None => trees'[q] # None
  BY <1>2, <1>4, <1>6, <1>8, <1>9, TreePlaced
<1>11. WindowFits'
  BY <1>2, <1>4, <1>6, KeptIsShown
<1>12. PICK n : n = mutation'
  OBVIOUS
<1>13. /\ n \in Tree!Commands /\ n # None /\ n.kind = m.kind /\ n.root = r /\ n.from = m.from /\ n.to = m.to
       /\ n.entries = m.entries /\ n.step = "listing" /\ n.old = m.old
  BY <1>2, <1>6, <1>12, CommandSteps
<1>14. MutationFits'
  <2>1. ~b => Shows(new, disk[r], n)
    <3>1. ~b => Shows(new, disk[r], m)
      BY <1>2, <1>3, <1>7 DEF CommandStands
    <3> QED BY <1>13, <3>1, SameCommand
  <2>2. CommandStands(n, disk[r], new, b)
    BY <1>2, <1>4, <1>13, <2>1, SameCommand DEF CommandStands
  <2> QED BY <1>6, <1>10, <1>12, <1>13, <2>2 DEF MutationFits
<1>15. Tree!OwnChangesAreShown'
  <2>1. SUFFICES ASSUME NEW q \in Roots, ~behind'[q], ~Tree!Affects(q)', trees'[q] # None PROVE trees'[q] = disk'[q]
    BY DEF Tree!OwnChangesAreShown
  <2>2. mutation' # None /\ mutation'.root = r
    BY <1>12, <1>13
  <2>3. q # r
    BY <2>1, <2>2 DEF Tree!Affects
  <2>4. ~Tree!Affects(q) /\ ~behind[q] /\ trees[q] # None /\ trees'[q] = trees[q]
    BY <1>1, <1>10, <2>1, <2>3 DEF Tree!Affects
  <2>5. trees[q] = disk[q]
    BY <2>4 DEF TreeInvariant, Tree!OwnChangesAreShown
  <2> QED BY <1>6, <2>4, <2>5
<1>16. OpeningFits'
  <2>1. opening # None => opening.root \in Roots
    BY ListingIs DEF TreeInvariant, OpeningFits, ListingStands
  <2>2. opening # None /\ opening.kind = "tab" => opening.root # r
    BY <1>2 DEF TreeInvariant, OpeningFits
  <2>3. opening # None => opening.kind # "load"
    BY <1>1, <1>2 DEF TreeInvariant, OpeningFits
  <2> QED BY <1>6, <1>10, <2>1, <2>2, <2>3 DEF TreeInvariant, OpeningFits
<1>17. DownloadFits'
  <2>1. download # None => download.root \in Roots
    BY ListingIs DEF TreeInvariant, DownloadFits, ListingStands
  <2> QED BY <1>6, <1>10, <2>1 DEF TreeInvariant, DownloadFits
<1>18. PollFits'
  <2>1. poll # None => poll.root \in Roots /\ ~poll.permitted
    BY <1>1, <1>2, ListingIs DEF TreeInvariant, PollFits
  <2> QED BY <1>6, <1>10, <2>1 DEF TreeInvariant, PollFits
<1> QED BY <1>6, <1>10, <1>11, <1>14, <1>15, <1>16, <1>17, <1>18 DEF TreeInvariant, BudgetsFit

\* The listing after a command reads what is on disk.
LEMMA ListMutatedKeeps ==
  ASSUME TreeInvariant, Tree!ListMutated
  PROVE  TreeInvariant'
<1>1. PICK m : m = mutation
  OBVIOUS
<1> DEFINE r == m.root
<1>2. /\ CommandStands(m, disk[r], trees[r], behind[r]) /\ m \in Tree!Commands /\ r \in Roots /\ m.step = "listing"
      /\ m # None /\ Tree!IsTree(disk[r]) /\ disk[r] # None
  BY <1>1, CommandUnderWay, NotNone DEF Tree!ListMutated
<1>3. PICK k : k = [m EXCEPT !.tree = disk[r], !.old = FALSE]
  OBVIOUS
<1>4. /\ k \in Tree!Commands /\ k.kind = m.kind /\ k.root = r /\ k.from = m.from /\ k.to = m.to
      /\ k.entries = m.entries /\ k.tree = disk[r] /\ k.old = FALSE
  <2>1. disk[r] \in SUBSET Tree!Entries
    BY <1>2 DEF Tree!IsTree
  <2>2. k \in Tree!Commands
    BY <1>2, <1>3, <2>1 DEF Tree!Commands
  <2>3. /\ k.kind = m.kind /\ k.root = r /\ k.from = m.from /\ k.to = m.to
        /\ k.entries = m.entries /\ k.tree = disk[r] /\ k.old = FALSE
    BY <1>2, <1>3 DEF Tree!Commands
  <2> QED BY <2>2, <2>3
<1>5. PICK n : n = mutation'
  OBVIOUS
<1>6. n = [k EXCEPT !.step = "listed"]
  BY <1>1, <1>3, <1>5 DEF Tree!ListMutated, Tree!Read
<1>7. /\ n \in Tree!Commands /\ n # None /\ n.kind = m.kind /\ n.root = r /\ n.from = m.from /\ n.to = m.to
      /\ n.entries = m.entries /\ n.step = "listed" /\ n.tree = disk[r] /\ n.old = FALSE
  BY <1>4, <1>6, CommandSteps
<1>8. UNCHANGED <<disk, trees, root, items, poll, reported, opening, download, behind, mutations, outside, moves, faults>>
  BY DEF Tree!ListMutated
<1>9. MutationFits'
  <2>1. CommandStands(n, disk[r], trees[r], behind[r])
    BY <1>2, <1>7, SameCommand DEF CommandStands
  <2> QED BY <1>5, <1>7, <1>8, <2>1 DEF MutationFits
<1>10. FoldersFit' /\ WindowFits'
  BY <1>8, TreesStay
<1>11. DownloadFits' /\ BudgetsFit'
  BY <1>8 DEF TreeInvariant, DownloadFits, BudgetsFit
<1>12. PollFits'
  BY <1>1, <1>2, <1>8 DEF TreeInvariant, PollFits
<1>13. OpeningFits'
  BY <1>1, <1>2, <1>8 DEF TreeInvariant, OpeningFits
<1>14. Tree!OwnChangesAreShown'
  BY <1>1, <1>2, <1>5, <1>7, <1>8 DEF TreeInvariant, Tree!OwnChangesAreShown, Tree!Affects
<1> QED BY <1>9, <1>10, <1>11, <1>12, <1>13, <1>14 DEF TreeInvariant

\* The listing after a command becomes the kept tree.
LEMMA RefreshedKeeps ==
  ASSUME TreeInvariant, Tree!Refreshed
  PROVE  TreeInvariant'
<1>1. PICK m : m = mutation
  OBVIOUS
<1> DEFINE r == m.root
<1>2. /\ CommandStands(m, disk[r], trees[r], behind[r]) /\ m \in Tree!Commands /\ r \in Roots /\ m.step = "listed"
      /\ m # None /\ trees[r] # None
  BY <1>1, CommandUnderWay DEF Tree!Refreshed
<1>3. Tree!IsTree(m.tree) /\ m.old \in BOOLEAN /\ (~m.old => m.tree = disk[r])
  BY <1>2, CommandIs DEF CommandStands
<1>4. /\ Tree!Keep(r, m.tree) /\ behind' = [behind EXCEPT ![r] = m.old] /\ mutation' = None
      /\ UNCHANGED <<disk, root, poll, reported, opening, download, mutations, outside, moves, faults>>
  BY <1>1 DEF Tree!Refreshed, Tree!KeepListing
<1>5. trees' = [trees EXCEPT ![r] = m.tree]
  BY <1>4 DEF Tree!Keep
<1>6. /\ FoldersFit' /\ trees'[r] = m.tree /\ behind'[r] = m.old
      /\ \A q \in Roots \ {r} : trees'[q] = trees[q] /\ behind'[q] = behind[q]
      /\ \A q \in Roots : trees[q] # None => trees'[q] # None
  BY <1>2, <1>3, <1>4, <1>5, TreePlaced
<1>7. WindowFits'
  BY <1>2, <1>3, <1>4, KeptIsShown
<1>8. Tree!OwnChangesAreShown'
  <2>1. SUFFICES ASSUME NEW q \in Roots, ~behind'[q], trees'[q] # None PROVE trees'[q] = disk'[q]
    BY DEF Tree!OwnChangesAreShown
  <2>2. CASE q = r
    BY <1>3, <1>4, <1>6, <2>1, <2>2
  <2>3. CASE q # r
    <3>1. ~Tree!Affects(q) /\ ~behind[q] /\ trees[q] # None
      BY <1>1, <1>6, <2>1, <2>3 DEF Tree!Affects
    <3>2. trees[q] = disk[q]
      BY <3>1 DEF TreeInvariant, Tree!OwnChangesAreShown
    <3> QED BY <1>4, <1>6, <2>3, <3>2
  <2> QED BY <2>2, <2>3
<1>9. OpeningFits'
  <2>1. opening # None => opening.root \in Roots
    BY ListingIs DEF TreeInvariant, OpeningFits, ListingStands
  <2>2. opening # None /\ opening.kind = "tab" => opening.root # r
    BY <1>2 DEF TreeInvariant, OpeningFits
  <2> QED BY <1>4, <1>6, <2>1, <2>2 DEF TreeInvariant, OpeningFits
<1>10. DownloadFits'
  <2>1. download # None => download.root \in Roots
    BY ListingIs DEF TreeInvariant, DownloadFits, ListingStands
  <2> QED BY <1>4, <1>6, <2>1 DEF TreeInvariant, DownloadFits
<1>11. PollFits'
  <2>1. poll # None => poll.root \in Roots
    BY ListingIs DEF TreeInvariant, PollFits
  <2> QED BY <1>4, <1>6, <2>1 DEF TreeInvariant, PollFits
<1>12. MutationFits' /\ BudgetsFit'
  BY <1>4 DEF TreeInvariant, MutationFits, BudgetsFit
<1> QED BY <1>6, <1>7, <1>8, <1>9, <1>10, <1>11, <1>12 DEF TreeInvariant

(* The surroundings, and every step *)

\* What others change makes every listing of that workspace old.
LEMMA OutsideKeeps ==
  ASSUME TreeInvariant, Tree!Outside
  PROVE  TreeInvariant'
<1>1. PICK r \in Roots, path \in Tree!EntryPaths :
        /\ Tree!Spent(outside) /\ outside' = outside - 1
        /\ disk' = [disk EXCEPT ![r] = IF Tree!Has(@, path) THEN Tree!Without(@, path)
                                       ELSE IF Tree!HasParent(@, path) THEN @ \cup {Tree!Entry(path, FALSE)} ELSE @]
        /\ behind' = [behind EXCEPT ![r] = TRUE]
        /\ poll' = Tree!Aged(poll, r) /\ mutation' = Tree!Aged(mutation, r) /\ opening' = Tree!Aged(opening, r) /\ download' = Tree!Aged(download, r)
        /\ UNCHANGED <<trees, root, items, reported, mutations, moves, faults>>
  BY DEF Tree!Outside
<1>2. PICK new : new = IF Tree!Has(disk[r], path) THEN Tree!Without(disk[r], path)
                       ELSE IF Tree!HasParent(disk[r], path) THEN disk[r] \cup {Tree!Entry(path, FALSE)} ELSE disk[r]
  OBVIOUS
<1>3. disk' = [disk EXCEPT ![r] = new]
  BY <1>1, <1>2 DEF TreeInvariant, FoldersFit
<1>4. Tree!IsTree(new)
  <2>1. Tree!IsTree(disk[r])
    BY DEF TreeInvariant, FoldersFit
  <2>2. Tree!IsTree(Tree!Without(disk[r], path))
    BY <2>1, WithoutKeeps
  <2>3. EntriesFit({Tree!Entry(path, FALSE)}, path)
    <3>1. PICK e : e = Tree!Entry(path, FALSE)
      OBVIOUS
    <3>2. e = [path |-> path, folder |-> FALSE]
      BY <3>1 DEF Tree!Entry
    <3>3. \E p \in Tree!EntryPaths, f \in BOOLEAN : e = [path |-> p, folder |-> f]
      BY <3>2
    <3>4. e \in Tree!Entries
      BY <3>3 DEF Tree!Entries, Tree!Entry
    <3>5. e.path = path
      BY <3>2
    <3> QED BY <3>1, <3>4, <3>5 DEF EntriesFit
  <2>4. Tree!HasParent(disk[r], path) => Tree!IsTree(disk[r] \cup {Tree!Entry(path, FALSE)})
    BY <2>1, <2>3, JoinKeeps
  <2> QED BY <1>2, <2>1, <2>2, <2>4
<1>5. disk'[r] = new /\ (\A q \in Roots \ {r} : disk'[q] = disk[q]) /\ disk' \in [Roots -> SUBSET Tree!Entries]
  BY <1>3, <1>4 DEF TreeInvariant, FoldersFit, Tree!IsTree
<1>6. /\ behind'[r] = TRUE /\ (\A q \in Roots \ {r} : behind'[q] = behind[q]) /\ behind' \in [Roots -> BOOLEAN]
  BY <1>1 DEF TreeInvariant, FoldersFit
<1>7. FoldersFit' /\ WindowFits'
  BY <1>1, <1>4, <1>5, <1>6 DEF TreeInvariant, FoldersFit, WindowFits
<1>8. BudgetsFit'
  BY <1>1, BudgetSpent, BudgetsAre DEF TreeInvariant, BudgetsFit
<1>9. MutationFits' /\ (mutation' # None => mutation # None /\ mutation'.root = mutation.root)
      /\ (mutation = None => mutation' = None) /\ (mutation # None => mutation' # None)
  <2>1. CASE mutation = None
    BY <1>1, <2>1 DEF MutationFits, Tree!Aged
  <2>2. CASE mutation # None
    <3>1. /\ CommandStands(mutation, disk[mutation.root], trees[mutation.root], behind[mutation.root])
          /\ mutation \in Tree!Commands /\ mutation.root \in Roots
      BY <2>2, CommandUnderWay
    <3>2. PICK n : n = mutation'
      OBVIOUS
    <3>3. n = Tree!Aged(mutation, r)
      BY <1>1, <3>2
    <3>4. /\ n \in Tree!Commands /\ n # None /\ n.kind = mutation.kind /\ n.root = mutation.root
          /\ n.from = mutation.from /\ n.to = mutation.to /\ n.entries = mutation.entries
          /\ n.step = mutation.step /\ n.tree = mutation.tree /\ (n.old <=> (mutation.old \/ mutation.root = r))
      BY <3>1, <3>3, CommandAged
    <3>5. CASE mutation.root = r
      <4>1. CommandStands(n, new, trees[r], TRUE)
        BY <3>1, <3>4, <3>5, SameCommand DEF CommandStands
      <4> QED BY <1>1, <1>5, <1>6, <2>2, <3>2, <3>4, <3>5, <4>1 DEF MutationFits
    <3>6. CASE mutation.root # r
      <4>1. CommandStands(n, disk[mutation.root], trees[mutation.root], behind[mutation.root])
        BY <3>1, <3>4, <3>6, SameCommand DEF CommandStands
      <4> QED BY <1>1, <1>5, <1>6, <2>2, <3>1, <3>2, <3>4, <3>6, <4>1 DEF MutationFits
    <3> QED BY <3>5, <3>6
  <2> QED BY <2>1, <2>2
<1>10. PollFits'
  <2>1. CASE poll = None
    BY <1>1, <2>1 DEF PollFits, Tree!Aged
  <2>2. CASE poll # None
    <3>1. /\ poll \in Tree!Listings /\ poll.root \in Roots /\ trees[poll.root] # None /\ (poll.permitted => mutation = None)
          /\ poll.tree # None => Tree!IsTree(poll.tree) /\ (poll.permitted /\ ~poll.old => poll.tree = disk[poll.root])
      BY <2>2, ListingIs DEF TreeInvariant, PollFits
    <3>2. PICK l : l = poll'
      OBVIOUS
    <3>3. /\ l \in Tree!Listings /\ l.root = poll.root /\ l.tree = poll.tree /\ l.permitted = poll.permitted
          /\ l.old <=> (poll.old \/ poll.root = r)
      BY <1>1, <3>1, <3>2, ListingAged
    <3>4. poll.root # r => disk'[poll.root] = disk[poll.root]
      BY <1>5, <3>1
    <3>5. l.tree # None => Tree!IsTree(l.tree) /\ (l.permitted /\ ~l.old => l.tree = disk'[l.root])
      BY <3>1, <3>3, <3>4
    <3> QED BY <1>1, <1>9, <3>1, <3>2, <3>3, <3>5 DEF PollFits
  <2> QED BY <2>1, <2>2
<1>11. OpeningFits'
  <2>1. CASE opening = None
    BY <1>1, <2>1 DEF OpeningFits, Tree!Aged
  <2>2. CASE opening # None
    <3>1. /\ ListingStands(opening, disk[opening.root]) /\ opening \in Tree!Listings /\ opening.root \in Roots
          /\ opening.kind \in {"tab", "path", "load"}
          /\ opening.kind = "tab" => trees[opening.root] = None
          /\ opening.kind = "load" => mutation = None
      BY <2>2, ListingIs DEF TreeInvariant, OpeningFits, ListingStands
    <3>2. PICK l : l = opening'
      OBVIOUS
    <3>3. l.root = opening.root /\ l.kind = opening.kind
      BY <1>1, <3>1, <3>2, ListingAged
    <3>4. opening.root # r => disk'[opening.root] = disk[opening.root]
      BY <1>5, <3>1
    <3>5. ListingStands(l, disk'[opening.root])
      BY <1>1, <3>1, <3>2, <3>4, ListingAgedStands
    <3> QED BY <1>1, <1>9, <3>1, <3>2, <3>3, <3>5 DEF OpeningFits
  <2> QED BY <2>1, <2>2
<1>12. DownloadFits'
  <2>1. CASE download = None
    BY <1>1, <2>1 DEF DownloadFits, Tree!Aged
  <2>2. CASE download # None
    <3>1. /\ ListingStands(download, disk[download.root]) /\ download \in Tree!Listings /\ download.root \in Roots
          /\ trees[download.root] # None
      BY <2>2, ListingIs DEF TreeInvariant, DownloadFits, ListingStands
    <3>2. PICK l : l = download'
      OBVIOUS
    <3>3. l.root = download.root
      BY <1>1, <3>1, <3>2, ListingAged
    <3>4. download.root # r => disk'[download.root] = disk[download.root]
      BY <1>5, <3>1
    <3>5. ListingStands(l, disk'[download.root])
      BY <1>1, <3>1, <3>2, <3>4, ListingAgedStands
    <3> QED BY <1>1, <3>1, <3>2, <3>3, <3>5 DEF DownloadFits
  <2> QED BY <2>1, <2>2
<1>13. Tree!OwnChangesAreShown'
  <2>1. SUFFICES ASSUME NEW q \in Roots, ~behind'[q], ~Tree!Affects(q)', trees'[q] # None PROVE trees'[q] = disk'[q]
    BY DEF Tree!OwnChangesAreShown
  <2>2. q # r
    BY <1>6, <2>1
  <2>3. ~Tree!Affects(q) /\ ~behind[q] /\ trees[q] # None
    BY <1>1, <1>6, <1>9, <2>1, <2>2 DEF Tree!Affects
  <2>4. trees[q] = disk[q]
    BY <2>3 DEF TreeInvariant, Tree!OwnChangesAreShown
  <2> QED BY <1>1, <1>5, <2>2, <2>4
<1> QED BY <1>7, <1>8, <1>9, <1>10, <1>11, <1>12, <1>13 DEF TreeInvariant

\* The first state fits.
LEMMA TreeInitFits == Tree!Init => TreeInvariant
<1>1. SUFFICES ASSUME Tree!Init PROVE TreeInvariant
  OBVIOUS
<1>2. Before \in [Roots -> SUBSET Tree!Entries] /\ \A r \in Roots : Tree!IsTree(Before[r])
  BY PartsAssumption DEF Tree!TreeAssumption, Tree!IsTree
<1>3. FoldersFit
  BY <1>1, <1>2 DEF Tree!Init, FoldersFit
<1>4. BudgetsFit
  BY <1>1, BudgetsAre DEF Tree!Init, BudgetsFit
<1> QED BY <1>1, <1>3, <1>4 DEF Tree!Init, TreeInvariant, WindowFits, MutationFits, PollFits, OpeningFits,
   DownloadFits,
          Tree!OwnChangesAreShown

\* Every step keeps what fits.
LEMMA TreeNextKeeps == TreeInvariant /\ [Tree!Next]_(Tree!vars) => TreeInvariant'
<1> SUFFICES ASSUME TreeInvariant, [Tree!Next]_(Tree!vars) PROVE TreeInvariant'
  OBVIOUS
<1>1. CASE UNCHANGED Tree!vars
  BY <1>1 DEF Tree!vars, TreeInvariant, FoldersFit, WindowFits, MutationFits, PollFits, OpeningFits,
     DownloadFits, BudgetsFit,
     Tree!OwnChangesAreShown, Tree!Affects
<1>2. CASE Tree!Create \/ Tree!Relocate \/ Tree!Duplicate \/ Tree!Delete
  BY <1>2, CreateKeeps, RelocateKeeps, DuplicateKeeps, DeleteKeeps
<1>3. CASE Tree!Polling \/ Tree!PollFails
  BY <1>3, PollKeeps, PollReadsKeeps, PollReturnsKeeps, PollFailsKeeps DEF Tree!Polling
<1>4. CASE Tree!Commanded
  BY <1>4, ExecuteKeeps, MutationFailsKeeps, AcknowledgeKeeps, ListMutatedKeeps, RefreshedKeeps DEF Tree!Commanded
<1>5. CASE Tree!Answered \/ Tree!OpeningFails \/ Tree!DownloadFails
  BY <1>5, OpeningReadsKeeps, OpenedKeeps, DownloadReadsKeeps, DownloadedKeeps, OpeningFailsKeeps,
     DownloadFailsKeeps
     DEF Tree!Answered
<1>6. CASE Tree!ActivateTab \/ Tree!Download \/ Tree!Outside
  BY <1>6, ActivateTabKeeps, DownloadKeeps, OutsideKeeps
<1>7. CASE Tree!OpenPath \/ Tree!LoadWorkspace
  <2>1. CASE Tree!OpenPath
    BY <2>1, OpenKeeps DEF Tree!OpenPath
  <2>2. CASE Tree!LoadWorkspace
    BY <2>2, OpenKeeps DEF Tree!LoadWorkspace
  <2> QED BY <1>7, <2>1, <2>2
<1> QED BY <1>1, <1>2, <1>3, <1>4, <1>5, <1>6, <1>7 DEF Tree!Next

\* What fits is what is promised.
LEMMA TreePromised == TreeInvariant => Tree!TreeIsSound
<1> SUFFICES ASSUME TreeInvariant PROVE Tree!TreeIsSound
  OBVIOUS
<1>1. Tree!IsTree(items)
  BY NotNone DEF TreeInvariant, WindowFits, FoldersFit, Tree!IsTree
<1>2. \A listing \in {poll, opening, download} \ {None} :
        listing \in Tree!Listings /\ (listing.tree # None => Tree!IsTree(listing.tree))
  BY DEF TreeInvariant, PollFits, OpeningFits, DownloadFits, ListingStands
<1>3. mutation \in Tree!Commands \cup {None}
  BY DEF TreeInvariant, MutationFits, CommandStands
<1>4. Tree!TypeOK
  BY <1>1, <1>2, <1>3 DEF Tree!TypeOK, TreeInvariant, FoldersFit, WindowFits, BudgetsFit
<1> QED BY <1>4 DEF Tree!TreeIsSound, Tree!ItemsAreKept, TreeInvariant, WindowFits

-----------------------------------------------------------------------------
(* The system. *)

\* Of a behaviour of syncs nothing is said here.
PartsInvariant ==
  /\ part = "repository" => RepositoryInvariant /\ GateInvariant
  /\ part = "tree" => TreeInvariant

\* At first, the invariant of the part holds.
LEMMA PartsInvariantInit == Init => PartsInvariant
BY RepositoryInitFits, GateInitFits, TreeInitFits DEF Init, PartsInvariant

\* A step is one of the part, and the part remains.
LEMMA StepIsOfPart ==
  ASSUME [Next]_vars
  PROVE  /\ part' = part
         /\ part = "repository" => [Repository!Next]_(Repository!vars)
         /\ part = "tree" => [Tree!Next]_(Tree!vars)
<1>1. CASE Next
  BY <1>1 DEF Next
<1>2. CASE UNCHANGED vars
  <2>1. part' = part
    BY <1>2 DEF vars
  <2>2. UNCHANGED Repository!vars
    BY <1>2 DEF vars, repositoryVars, Repository!vars, Repository!bounds
  <2>3. UNCHANGED Tree!vars
    BY <1>2 DEF vars, treeVars, Tree!vars
  <2> QED BY <2>1, <2>2, <2>3
<1> QED BY <1>1, <1>2

\* Every step keeps the invariant of the part.
LEMMA PartsInvariantStep == PartsInvariant /\ [Next]_vars => PartsInvariant'
<1>1. SUFFICES ASSUME PartsInvariant, [Next]_vars PROVE PartsInvariant'
  OBVIOUS
<1>2. ASSUME part = "repository" PROVE RepositoryInvariant' /\ GateInvariant'
  BY <1>1, <1>2, StepIsOfPart, RepositoryNextKeeps, GateNextKeeps DEF PartsInvariant
<1>3. ASSUME part = "tree" PROVE TreeInvariant'
  BY <1>1, <1>3, StepIsOfPart, TreeNextKeeps DEF PartsInvariant
<1> QED BY <1>1, <1>2, <1>3, StepIsOfPart DEF PartsInvariant

\* So it always holds.
THEOREM PartsInvariantHolds == FairSpec => []PartsInvariant
<1>1. Init => PartsInvariant
  BY PartsInvariantInit
<1>2. PartsInvariant /\ [Next]_vars => PartsInvariant'
  BY PartsInvariantStep
<1> QED BY <1>1, <1>2, PTL DEF FairSpec

-----------------------------------------------------------------------------
(* What the run checks. *)

\* At rest the window shows the stored account and binding, no reading of a workspace that was left becomes the
\* binding or status of the open one, and one sync runs at a time (useRepositoryWorkflow); the tree of files shows
\* what commands changed, whatever listings come late (workspacePathMutations).
THEOREM WorkspaceIsSoundHolds == FairSpec => []WorkspaceIsSound
<1>1. PartsInvariant => WorkspaceIsSound
  BY RepositoryPromised, TreePromised DEF PartsInvariant, WorkspaceIsSound
<1> QED BY <1>1, PartsInvariantHolds, PTL

\* When a sync begins, its workspace's documents are stored as they are shown, however many are saved one after
\* another and whatever is typed and saved meanwhile, but for the exception StoredAsShown names (saveWorkspaceDocuments).
THEOREM SyncsAreOfSavedHolds == FairSpec => SyncsAreOfSaved
<1> DEFINE Stored == \A t \in tasks' \ tasks : t.step = "sync" /\ t.answer = None => Repository!StoredAsShown(t.root)
<1>1. ASSUME PartsInvariant, [Next]_vars
      PROVE  [part = "repository" => Stored]_vars
  <2>1. ASSUME part = "repository" PROVE Stored
    BY <1>1, <2>1, StepIsOfPart, GateNextKeeps DEF PartsInvariant
  <2> QED BY <2>1
<1> QED BY <1>1, PartsInvariantHolds, PTL DEF FairSpec, SyncsAreOfSaved
==============================================================================

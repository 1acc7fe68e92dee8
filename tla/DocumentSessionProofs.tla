----------------------- MODULE DocumentSessionProofs -----------------------
(***************************************************************************)
(* Theorems about DocumentSession, for any folders, files, identities and  *)
(* contents and every bound: no answer reaches a tab it was not made for,  *)
(* a clean mark hides no edit, paths are reserved while they change, and   *)
(* neither a step nor a quit loses what was typed.                         *)
(***************************************************************************)
EXTENDS DocumentSession, FiniteSetTheorems, TLAPS

\* The tabs a section leaves, and one document of them.
Tabs == [Ids -> Documents \cup {None}]
Shown(now) == {id \in Ids : now[id] # None}

-----------------------------------------------------------------------------
(* The inductive invariant. *)

\* What a call is made of, whatever the tabs are now.
WellFormed(t) ==
  /\ t \in Tasks
  /\ t.fn \in Reads \cup Mutations \cup {"save"} => t.place \in Places
  /\ t.fn = "saveAs" /\ t.at # "ask" => t.place \in Places
  /\ t.fn = "rename" => t.to \in Places
  /\ t.fn \in Saves \cup {"close", "reload", "discardReload", "select"} => t.id \in Ids
  /\ t.fn = "select" => t.id \notin Untitled
  /\ t.fn \in Saves => t.text \in Contents
  /\ t.fn \in Mutations \cup {"opened", "close"} => t.then = "end"
  /\ t.fn = "saveAs" /\ t.at = "refresh" => t.next \in Ids
  /\ t.fn = "saveAs" /\ t.then = "close" => t.id \in Untitled
  /\ t.at = "refresh" => t.fn \in Mutations \cup {"saveAs", "opened"}
  /\ t.at = "ask" => t.fn \in {"saveAs", "close", "delete"}
  /\ "document" \in t.holds => t.fn \in Saves \cup {"close", "reload", "discardReload"}
  /\ "read" \in t.holds => "document" \in t.holds /\ t.fn \in {"reload", "discardReload"}

\* What a call may still do fits the tab it would do it to.
FitsTabs(t, now) ==
  /\ "document" \in t.holds =>
       /\ now[Subject(t)] # None
       /\ t.fn \in {"save", "reload", "discardReload"} => now[t.id].place = t.place
  /\ "read" \in t.holds => IF t.fn = "reload" THEN ~now[t.id].dirty ELSE t.text = now[t.id].text
  /\ t.fn = "saveAs" /\ t.then = "close" /\ t.at = "refresh" => now[t.id] = None

\* A clean tab shows its file, and only an untitled document has none.
TabsAreSound(now) ==
  /\ now \in Tabs
  /\ \A id \in Shown(now) :
       /\ ~now[id].dirty => now[id].text = IF now[id].place = Nowhere THEN Empty ELSE now[id].base
       /\ now[id].place = Nowhere => id \in Untitled

Working(T) == {t \in T : t.fn \in Mutations \cup {"opened"} /\ t.at # "ask"}
SavesOf(T) == {t \in T : t.fn \in Saves}

\* Calls do not meet: one save for an identity, one change of paths, which no rename or
\* delete makes while a save is at work, and no save once the window closes.
CallsAreApart(T, reserved, closing) ==
  /\ \A t, u \in SavesOf(T) : t.id = u.id => t = u
  /\ \A t, u \in Working(T) : t = u
  /\ reserved # None <=> Working(T) # {}
  /\ \A t \in Working(T) : t.place[1] = reserved /\ (t.fn \in {"rename", "delete"} => SavesOf(T) = {})
  /\ closing => SavesOf(T) = {}

CallsAreSound(T, now, reserved, closing) ==
  /\ \A t \in T : WellFormed(t) /\ FitsTabs(t, now)
  /\ CallsAreApart(T, reserved, closing)

\* What the window shows.
ViewIsSound ==
  /\ disk \in [Places -> Versions]
  /\ active \in Shown(docs) \cup {None} /\ workspace \in Roots /\ mutation \in Roots \cup {None}
  /\ conflict \in [id : Ids, place : Places, reason : {"changed", "deleted"}] \cup {None}
  /\ quit \in Quits
  /\ budget \in [edits : Nat, foreign : Nat, tasks : Nat]

SessionInvariant ==
  /\ ViewIsSound /\ TabsAreSound(docs) /\ CallsAreSound(tasks, docs, mutation, Closing) /\ QuitKeepsEdits

-----------------------------------------------------------------------------
(* Calls and their permissions. *)

\* None is no path, identity or document, and no place is nowhere.
LEMMA Names ==
  /\ None \notin Roots /\ None \notin Ids /\ None \notin Documents /\ None \notin Contents
  /\ Nowhere \notin Places /\ Files \subseteq Ids /\ Untitled \subseteq Ids /\ Spare \subseteq Ids
  /\ \A id \in Files \cup Spare : id \notin Untitled
  /\ \A place \in Places : place[1] \in Roots /\ place[2] \in Files
BY SessionAssumption DEF Ids, Places, Nowhere

\* A call that may do less is the same call.
LEMMA Weaker ==
  ASSUME NEW t, WellFormed(t), NEW h \in SUBSET t.holds, "read" \in h => "document" \in h
  PROVE  LET u == [t EXCEPT !.holds = h] IN
         /\ WellFormed(u) /\ Subject(u) = Subject(t)
         /\ u.fn = t.fn /\ u.at = t.at /\ u.id = t.id /\ u.place = t.place /\ u.text = t.text /\ u.then = t.then
         /\ u.next = t.next /\ u.holds = h
         /\ \A now : FitsTabs(t, now) => FitsTabs(u, now)
<1>. DEFINE u == [t EXCEPT !.holds = h]
<1>1. t \in Tasks /\ h \in SUBSET Permissions
  BY DEF WellFormed, Tasks
<1>2. u \in Tasks /\ u.fn = t.fn /\ u.at = t.at /\ u.id = t.id /\ u.place = t.place /\ u.text = t.text
      /\ u.then = t.then /\ u.next = t.next /\ u.holds = h /\ u.to = t.to
  BY <1>1 DEF Tasks
<1>. HIDE DEF u
<1>3. Subject(u) = Subject(t)
  BY <1>2 DEF Subject
<1>4. WellFormed(u)
  BY <1>2 DEF WellFormed
<1>5. \A now : FitsTabs(t, now) => FitsTabs(u, now)
  BY <1>2, <1>3 DEF FitsTabs
<1>. QED BY <1>2, <1>3, <1>4, <1>5 DEF u

\* What keeps every call but its permissions keeps calls apart.
LEMMA MapKeeps ==
  ASSUME NEW T, NEW F, NEW reserved, NEW closing, CallsAreApart(T, reserved, closing),
         \A t \in T : F[t].fn = t.fn /\ F[t].at = t.at /\ F[t].id = t.id /\ F[t].place = t.place
  PROVE  CallsAreApart({F[t] : t \in T}, reserved, closing)
BY DEF CallsAreApart, SavesOf, Working

\* Permissions that are lost harm nobody.
LEMMA LosingKeeps ==
  ASSUME NEW T, NEW now, NEW reserved, NEW closing, CallsAreSound(T, now, reserved, closing),
         NEW ids, NEW permissions \in {{"read"}, {"document", "read"}}
  PROVE  CallsAreSound(Losing(T, ids, permissions), now, reserved, closing)
<1>. DEFINE F == [t \in T |-> IF Subject(t) \in ids THEN [t EXCEPT !.holds = @ \ permissions] ELSE t]
<1>1. \A t \in T : WellFormed(t) /\ FitsTabs(t, now)
  BY DEF CallsAreSound
<1>2. ASSUME NEW t \in T
      PROVE  /\ F[t].fn = t.fn /\ F[t].at = t.at /\ F[t].id = t.id /\ F[t].place = t.place
             /\ WellFormed(F[t]) /\ FitsTabs(F[t], now)
  <2>1. t.holds \ permissions \in SUBSET t.holds
        /\ ("read" \in t.holds \ permissions => "document" \in t.holds \ permissions)
    BY <1>1 DEF WellFormed
  <2>2. CASE Subject(t) \in ids
    <3>1. F[t] = [t EXCEPT !.holds = t.holds \ permissions]
      BY <2>2
    <3>. QED BY <1>1, <2>1, <3>1, Weaker
  <2>3. CASE Subject(t) \notin ids
    BY <1>1, <2>3
  <2>. QED BY <2>2, <2>3
<1>3. Losing(T, ids, permissions) = {F[t] : t \in T}
  BY DEF Losing
<1>. HIDE DEF F
<1>4. CallsAreApart({F[t] : t \in T}, reserved, closing)
  BY <1>2, MapKeeps DEF CallsAreSound
<1>. QED BY <1>2, <1>3, <1>4 DEF CallsAreSound

\* So it is with intents.
LEMMA IntentsKeep ==
  ASSUME NEW T, NEW now, NEW reserved, NEW closing, CallsAreSound(T, now, reserved, closing)
  PROVE  CallsAreSound(WithoutIntents(T), now, reserved, closing)
<1>. DEFINE F == [t \in T |-> [t EXCEPT !.holds = @ \ {"intent"}]]
<1>1. \A t \in T : WellFormed(t) /\ FitsTabs(t, now)
  BY DEF CallsAreSound
<1>2. ASSUME NEW t \in T
      PROVE  /\ F[t].fn = t.fn /\ F[t].at = t.at /\ F[t].id = t.id /\ F[t].place = t.place
             /\ WellFormed(F[t]) /\ FitsTabs(F[t], now)
  <2>1. t.holds \ {"intent"} \in SUBSET t.holds
        /\ ("read" \in t.holds \ {"intent"} => "document" \in t.holds \ {"intent"})
    BY <1>1 DEF WellFormed
  <2>2. F[t] = [t EXCEPT !.holds = t.holds \ {"intent"}]
    OBVIOUS
  <2>. QED BY <1>1, <2>1, <2>2, Weaker
<1>3. WithoutIntents(T) = {F[t] : t \in T}
  BY DEF WithoutIntents
<1>. HIDE DEF F
<1>4. CallsAreApart({F[t] : t \in T}, reserved, closing)
  BY <1>2, MapKeeps DEF CallsAreSound
<1>. QED BY <1>2, <1>3, <1>4 DEF CallsAreSound

\* Every call that lost permissions is one of those there were.
LEMMA LosingFrom ==
  ASSUME NEW T, \A t \in T : WellFormed(t), NEW ids, NEW permissions \in {{"read"}, {"document", "read"}},
         NEW u \in Losing(T, ids, permissions)
  PROVE  \E t \in T : /\ u.holds \subseteq t.holds /\ Subject(u) = Subject(t) /\ u.fn = t.fn /\ u.id = t.id
                      /\ u.then = t.then /\ u.at = t.at
                      /\ \A p \in permissions : p \in u.holds => Subject(u) \notin ids
<1>1. PICK t \in T : u = IF Subject(t) \in ids THEN [t EXCEPT !.holds = @ \ permissions] ELSE t
  BY DEF Losing
<1>2. /\ t.holds \ permissions \in SUBSET t.holds
      /\ "read" \in t.holds \ permissions => "document" \in t.holds \ permissions
  BY DEF WellFormed
<1>3. CASE Subject(t) \in ids
  <2>1. u = [t EXCEPT !.holds = t.holds \ permissions]
    BY <1>1, <1>3
  <2>2. /\ u.holds = t.holds \ permissions /\ Subject(u) = Subject(t) /\ u.fn = t.fn /\ u.id = t.id
        /\ u.then = t.then /\ u.at = t.at
    BY <1>2, <2>1, Weaker
  <2>. QED BY <2>2
<1>4. CASE Subject(t) \notin ids
  BY <1>1, <1>4
<1>. QED BY <1>3, <1>4

\* A section leaves the tabs as now: nothing turns dirty that kept its buffer, revision and path.
Follows(now) ==
  /\ TabsAreSound(now)
  /\ \A id \in Open :
       now[id] # None /\ now[id].place = docs[id].place /\ now[id].text = docs[id].text
         /\ now[id].base = docs[id].base /\ ~docs[id].dirty => ~now[id].dirty

\* The identity a Save As of a closing tab gave up is not taken again.
NotTaken(T, now) ==
  \A t \in T : t.fn = "saveAs" /\ t.then = "close" /\ t.at = "refresh" => now[t.id] = None

\* Reconciled calls fit the tabs a section leaves.
LEMMA ReconciledKeeps ==
  ASSUME NEW T, NEW now, NEW reserved, NEW closing, CallsAreSound(T, docs, reserved, closing),
         Follows(now), NotTaken(T, now)
  PROVE  CallsAreSound(Reconciled(T, now), now, reserved, closing)
<1>. DEFINE replaced == {id \in Ids : \/ docs[id] = None \/ now[id] = None
                                      \/ docs[id].place # now[id].place}
            touched == {id \in Ids \ replaced : \/ docs[id].text # now[id].text
                                                \/ docs[id].base # now[id].base}
            L == Losing(T, replaced, {"document", "read"})
            R == Losing(L, touched, {"read"})
<1>1. R = Reconciled(T, now)
  BY DEF Reconciled
<1>2. CallsAreSound(L, docs, reserved, closing) /\ (\A t \in T : WellFormed(t) /\ FitsTabs(t, docs))
  <2>1. CallsAreSound(L, docs, reserved, closing)
    BY LosingKeeps
  <2>. QED BY <2>1 DEF CallsAreSound
<1>3. CallsAreSound(R, docs, reserved, closing) /\ (\A t \in L : WellFormed(t) /\ FitsTabs(t, docs))
  <2>1. CallsAreSound(R, docs, reserved, closing)
    BY <1>2, LosingKeeps
  <2>. QED BY <1>2, <2>1 DEF CallsAreSound
<1>4. \A t \in R : WellFormed(t) /\ FitsTabs(t, docs)
  BY <1>3 DEF CallsAreSound
<1>5. ASSUME NEW u \in R PROVE FitsTabs(u, now)
  <2>. HIDE DEF L, touched, replaced
  <2>1. \A t \in L : WellFormed(t)
    BY <1>3
  <2>2. PICK l \in L : /\ u.holds \subseteq l.holds /\ Subject(u) = Subject(l) /\ u.fn = l.fn /\ u.id = l.id
                       /\ u.then = l.then /\ u.at = l.at
                       /\ \A p \in {"read"} : p \in u.holds => Subject(u) \notin touched
    BY <1>5, <2>1, LosingFrom, Zenon
  <2>3. l \in Losing(T, replaced, {"document", "read"}) /\ \A t \in T : WellFormed(t)
    BY <1>2, <2>2 DEF L
  <2>4. PICK t \in T : /\ l.holds \subseteq t.holds /\ Subject(l) = Subject(t) /\ l.fn = t.fn /\ l.id = t.id
                       /\ l.then = t.then /\ l.at = t.at
                       /\ \A p \in {"document", "read"} : p \in l.holds => Subject(l) \notin replaced
    BY <2>3, LosingFrom, Zenon
  <2>. USE DEF L, touched, replaced
  <2>5. WellFormed(u) /\ FitsTabs(u, docs)
    BY <1>4
  <2>6. "document" \in u.holds => Subject(u) \in Ids \ replaced
    <3>1. ASSUME "document" \in u.holds PROVE Subject(u) \in Ids
      BY <2>5, <3>1 DEF WellFormed, Subject
    <3>. QED BY <2>2, <2>4, <3>1
  <2>7. "read" \in u.holds => "document" \in u.holds /\ Subject(u) = u.id /\ u.fn \in {"reload", "discardReload"}
    BY <2>5 DEF WellFormed, Subject
  <2>8. u.fn \in {"save", "reload", "discardReload"} => Subject(u) = u.id
    BY DEF Subject
  <2>9. ASSUME "document" \in u.holds
        PROVE  /\ now[Subject(u)] # None /\ docs[Subject(u)] # None
               /\ now[Subject(u)].place = docs[Subject(u)].place
               /\ u.fn \in {"save", "reload", "discardReload"} => docs[u.id].place = u.place
    BY <2>5, <2>6, <2>9 DEF FitsTabs
  <2>10. ASSUME "read" \in u.holds
         PROVE  IF u.fn = "reload" THEN ~now[u.id].dirty ELSE u.text = now[u.id].text
    <3>1. now[u.id].text = docs[u.id].text /\ now[u.id].base = docs[u.id].base /\ u.id \in Open
      BY <2>2, <2>6, <2>7, <2>9, <2>10 DEF Open
    <3>2. IF u.fn = "reload" THEN ~docs[u.id].dirty ELSE u.text = docs[u.id].text
      BY <2>5, <2>10 DEF FitsTabs
    <3>. QED BY <2>7, <2>9, <2>10, <3>1, <3>2 DEF Follows
  <2>11. u.fn = "saveAs" /\ u.then = "close" /\ u.at = "refresh" => now[u.id] = None
    BY <2>2, <2>4 DEF NotTaken
  <2>. QED BY <2>8, <2>9, <2>10, <2>11 DEF FitsTabs
<1>. QED BY <1>1, <1>3, <1>4, <1>5 DEF CallsAreSound

-----------------------------------------------------------------------------
(* Calls begin, go on and end. *)

\* A call that ended changes nothing for the others, unless it was the change of paths.
LEMMA FewerCalls ==
  ASSUME NEW T, NEW now, NEW reserved, NEW closing, CallsAreSound(T, now, reserved, closing),
         NEW S \in SUBSET T
  PROVE  /\ Working(T) \subseteq S => CallsAreSound(S, now, reserved, closing)
         /\ Working(S) = {} => CallsAreSound(S, now, None, closing)
BY DEF CallsAreSound, CallsAreApart, SavesOf, Working

\* The change of paths is over.
LEMMA WorkEnds ==
  ASSUME NEW T, NEW now, NEW reserved, NEW closing, CallsAreSound(T, now, reserved, closing),
         NEW t \in Working(T)
  PROVE  CallsAreSound(T \ {t}, now, None, closing) /\ reserved # None
<1>1. Working(T \ {t}) = {}
  BY DEF CallsAreSound, CallsAreApart, Working
<1>2. reserved # None
  BY DEF CallsAreSound, CallsAreApart
<1>. QED BY <1>1, <1>2, FewerCalls

\* A call goes on.
LEMMA CallGoesOn ==
  ASSUME NEW T, NEW now, NEW reserved, NEW closing, CallsAreSound(T, now, reserved, closing),
         NEW t \in T, NEW u, WellFormed(u), FitsTabs(u, now),
         u.fn \in Saves <=> t.fn \in Saves, u.id = t.id,
         u \in Working({u}) <=> t \in Working({t}), u.place = t.place \/ t \notin Working({t}),
         u.fn \in {"rename", "delete"} => t.fn \in {"rename", "delete"}
  PROVE  CallsAreSound((T \ {t}) \cup {u}, now, reserved, closing)
<1>. DEFINE S == (T \ {t}) \cup {u}
<1>1. \A x \in S : WellFormed(x) /\ FitsTabs(x, now)
  BY DEF CallsAreSound
<1>2. /\ \A x \in SavesOf(S) : x = u \/ (x \in SavesOf(T) /\ x # t)
      /\ \A x \in Working(S) : x = u \/ (x \in Working(T) /\ x # t)
      /\ u \in SavesOf(S) <=> t \in SavesOf(T)
      /\ u \in Working(S) <=> t \in Working(T)
  BY DEF SavesOf, Working
<1>3. CallsAreApart(T, reserved, closing)
  BY DEF CallsAreSound
<1>4. CallsAreApart(S, reserved, closing)
  <2>1. \A x, y \in SavesOf(S) : x.id = y.id => x = y
    BY <1>2, <1>3 DEF CallsAreApart
  <2>2. \A x, y \in Working(S) : x = y
    BY <1>2, <1>3 DEF CallsAreApart
  <2>3. SavesOf(T) = {} => SavesOf(S) = {}
    BY <1>2
  <2>4. Working(T) # {} <=> Working(S) # {}
    <3>1. ASSUME NEW x \in Working(T), x # t PROVE x \in Working(S)
      BY <3>1 DEF Working
    <3>. QED BY <1>2, <3>1
  <2>5. \A x \in Working(S) : x.place[1] = reserved /\ (x.fn \in {"rename", "delete"} => SavesOf(S) = {})
    <3>1. ASSUME NEW x \in Working(S) PROVE x.place[1] = reserved /\ (x.fn \in {"rename", "delete"} => SavesOf(S) = {})
      <4>1. CASE x \in Working(T)
        BY <1>3, <2>3, <4>1 DEF CallsAreApart
      <4>2. CASE x = u
        <5>1. t \in Working(T) /\ t \in Working({t})
          BY <1>2, <3>1, <4>2 DEF Working
        <5>2. x.place = t.place /\ (x.fn \in {"rename", "delete"} => t.fn \in {"rename", "delete"})
          BY <4>2, <5>1
        <5>. QED BY <1>3, <2>3, <5>1, <5>2 DEF CallsAreApart
      <4>. QED BY <1>2, <3>1, <4>1, <4>2
    <3>. QED BY <3>1
  <2>. QED BY <1>3, <2>1, <2>2, <2>3, <2>4, <2>5 DEF CallsAreApart
<1>. QED BY <1>1, <1>4 DEF CallsAreSound

\* A call begins that neither saves nor changes paths.
LEMMA CallBegins ==
  ASSUME NEW T, NEW now, NEW reserved, NEW closing, CallsAreSound(T, now, reserved, closing),
         NEW u, WellFormed(u), FitsTabs(u, now), u.fn \notin Saves, u \notin Working({u})
  PROVE  CallsAreSound(T \cup {u}, now, reserved, closing)
<1>1. SavesOf(T \cup {u}) = SavesOf(T) /\ Working(T \cup {u}) = Working(T)
  BY DEF SavesOf, Working
<1>. QED BY <1>1 DEF CallsAreSound, CallsAreApart

\* A save begins, when no rename or delete is at work and no other save has its identity.
LEMMA SaveBegins ==
  ASSUME NEW T, NEW now, NEW reserved, NEW closing, CallsAreSound(T, now, reserved, closing), ~closing,
         NEW u, WellFormed(u), FitsTabs(u, now), u.fn \in Saves, \A t \in SavesOf(T) : t.id # u.id,
         \A t \in Working(T) : t.fn \notin {"rename", "delete"}
  PROVE  CallsAreSound(T \cup {u}, now, reserved, closing)
<1>1. SavesOf(T \cup {u}) = SavesOf(T) \cup {u} /\ Working(T \cup {u}) = Working(T)
  BY DEF SavesOf, Working, Saves, Mutations
<1>. QED BY <1>1 DEF CallsAreSound, CallsAreApart

\* Paths begin to change.
LEMMA WorkBegins ==
  ASSUME NEW T, NEW now, NEW closing, CallsAreSound(T, now, None, closing),
         NEW u, WellFormed(u), FitsTabs(u, now), u.fn \in Mutations, u \in Working({u}), u.place[1] # None,
         u.fn \in {"rename", "delete"} => SavesOf(T) = {}
  PROVE  CallsAreSound(T \cup {u}, now, u.place[1], closing)
<1>1. SavesOf(T \cup {u}) = SavesOf(T) /\ Working(T \cup {u}) = Working(T) \cup {u}
  BY DEF SavesOf, Working, Saves, Mutations
<1>2. Working(T) = {}
  BY DEF CallsAreSound, CallsAreApart
<1>. QED BY <1>1, <1>2 DEF CallsAreSound, CallsAreApart

-----------------------------------------------------------------------------
(* The parts of a step. *)

Budgets == [edits : Nat, foreign : Nat, tasks : Nat]
Conflicts == [id : Ids, place : Places, reason : {"changed", "deleted"}] \cup {None}

\* No edit comes from nowhere: what is dirty now was, or holds what its file does.
KeepsEdits(now) ==
  \A id \in Shown(now) : now[id].dirty =>
    \/ now[id].text = now[id].base
    \/ docs[id] # None /\ docs[id].dirty /\ docs[id].text = now[id].text /\ docs[id].base = now[id].base

\* A step that leaves the quit alone keeps the invariant if it keeps tabs, calls and view.
LEMMA StepIsSound ==
  ASSUME SessionInvariant, Running, quit' = quit,
         disk' \in [Places -> Versions], active' \in Shown(docs') \cup {None}, workspace' \in Roots,
         mutation' \in Roots \cup {None}, conflict' \in Conflicts, budget' \in Budgets,
         TabsAreSound(docs'), CallsAreSound(tasks', docs', mutation', Closing),
         Closing => KeepsEdits(docs')
  PROVE  SessionInvariant'
<1>1. Closing' = Closing
  BY DEF Closing
<1>2. ViewIsSound'
  BY DEF SessionInvariant, ViewIsSound, Conflicts, Budgets
<1>3. QuitKeepsEdits'
  BY DEF SessionInvariant, QuitKeepsEdits, KeepsEdits, Shown, Closing, Running, Dirty, Open
<1>. QED BY <1>1, <1>2, <1>3 DEF SessionInvariant

\* What a step counts on.
LEMMA Counts ==
  ASSUME SessionInvariant
  PROVE  /\ disk \in [Places -> Versions] /\ active \in Open \cup {None} /\ workspace \in Roots
         /\ mutation \in Roots \cup {None} /\ conflict \in Conflicts /\ quit \in Quits /\ budget \in Budgets
         /\ docs \in Tabs /\ TabsAreSound(docs) /\ CallsAreSound(tasks, docs, mutation, Closing)
         /\ \A t \in tasks : WellFormed(t) /\ FitsTabs(t, docs) /\ t \in Tasks
         /\ CallsAreApart(tasks, mutation, Closing) /\ Shown(docs) = Open
         /\ \A id \in Open : docs[id] \in Documents
         /\ KeepsEdits(docs) /\ Follows(docs)
<1>1. /\ disk \in [Places -> Versions] /\ active \in Open \cup {None} /\ workspace \in Roots
      /\ mutation \in Roots \cup {None} /\ conflict \in Conflicts /\ quit \in Quits /\ budget \in Budgets
      /\ TabsAreSound(docs) /\ CallsAreSound(tasks, docs, mutation, Closing) /\ Shown(docs) = Open
  BY DEF SessionInvariant, ViewIsSound, Conflicts, Budgets, Shown, Open
<1>2. docs \in Tabs /\ \A id \in Open : docs[id] \in Documents
  BY <1>1 DEF TabsAreSound, Tabs, Open
<1>3. /\ \A t \in tasks : WellFormed(t) /\ FitsTabs(t, docs) /\ t \in Tasks
      /\ CallsAreApart(tasks, mutation, Closing)
  BY <1>1 DEF CallsAreSound, WellFormed
<1>. QED BY <1>1, <1>2, <1>3 DEF KeepsEdits, Follows, Shown

\* A bound is spent.
LEMMA Spending ==
  ASSUME budget \in Budgets, NEW kind \in {"edits", "foreign", "tasks"}, Spend(kind)
  PROVE  budget' \in Budgets /\ budget'[kind] < budget[kind]
BY DEF Budgets, Spend

\* A step that leaves the tabs alone.
LEMMA TabsStay ==
  ASSUME SessionInvariant, Running, quit' = quit, docs' = docs,
         disk' \in [Places -> Versions], active' \in Open \cup {None}, workspace' \in Roots,
         mutation' \in Roots \cup {None}, conflict' \in Conflicts, budget' \in Budgets,
         CallsAreSound(tasks', docs, mutation', Closing)
  PROVE  SessionInvariant'
BY Counts, StepIsSound

\* What every call starts from is one.
LEMMA NoTaskIsOne == NoTask \in Tasks
BY DEF NoTask, Tasks, Answers, Versions, Permissions, Reads, Saves, Mutations

-----------------------------------------------------------------------------
(* Typing, tabs and reads. *)

\* A read of a file begins.
LEMMA ReadBegins ==
  ASSUME NEW T, NEW now, NEW reserved, NEW closing, CallsAreSound(T, now, reserved, closing),
         NEW u \in Tasks, u.fn \in {"select", "openPath", "workspace"}, u.at = "native", u.place \in Places,
         u.holds = {"intent"}, u.fn = "select" => u.id \in Ids \ Untitled
  PROVE  CallsAreSound(T \cup {u}, now, reserved, closing)
<1>1. WellFormed(u)
  BY DEF WellFormed, Reads, Saves, Mutations
<1>2. FitsTabs(u, now) /\ u.fn \notin Saves /\ u \notin Working({u})
  BY DEF FitsTabs, Saves, Working, Mutations
<1>. QED BY <1>1, <1>2, CallBegins

\* selectFile
LEMMA SelectFileSound ==
  ASSUME SessionInvariant, Running, NEW file \in Files, SelectFile(file) PROVE SessionInvariant'
<1>. DEFINE place == <<workspace, file>>
<1>1. place \in Places /\ CallsAreSound(WithoutIntents(tasks), docs, mutation, Closing)
  BY Counts, IntentsKeep DEF Places
<1>2. UNCHANGED <<disk, docs, workspace, mutation, conflict, quit>>
  BY DEF SelectFile, Start
<1>3. CASE TabsAt(place) # {}
  <2>1. tasks' = WithoutIntents(tasks) /\ active' \in Open /\ UNCHANGED budget
    BY <1>3 DEF SelectFile, TabsAt
  <2>. QED BY <1>1, <1>2, <2>1, Counts, TabsStay
<1>4. CASE TabsAt(place) = {}
  <2>1. PICK id \in Identities(place, workspace, Open) :
          Start([NoTask EXCEPT !.fn = "select", !.id = id, !.place = place, !.holds = {"intent"}], WithoutIntents(tasks))
    BY <1>4 DEF SelectFile
  <2>2. id \in Ids \ Untitled
    BY <1>1, <2>1, Names DEF Identities
  <2>3. UNCHANGED active
    BY <1>4 DEF SelectFile
  <2>4. CallsAreSound(tasks', docs, mutation, Closing)
    <3>. DEFINE u == [NoTask EXCEPT !.fn = "select", !.id = id, !.place = place, !.holds = {"intent"}]
    <3>1. /\ u \in Tasks /\ u.fn = "select" /\ u.at = "native" /\ u.place = place /\ u.holds = {"intent"}
          /\ u.id = id
      BY <1>1, <2>2, NoTaskIsOne DEF NoTask, Tasks, Permissions, Reads
    <3>2. tasks' = WithoutIntents(tasks) \cup {u}
      BY <2>1 DEF Start
    <3>. HIDE DEF u
    <3>. QED BY <1>1, <2>2, <3>1, <3>2, ReadBegins
  <2>5. budget' \in Budgets
    BY <2>1, Counts, Spending DEF Start
  <2>. QED BY <1>2, <2>3, <2>4, <2>5, Counts, TabsStay
<1>. QED BY <1>3, <1>4

\* openMarkdownPath
LEMMA OpenPathSound ==
  ASSUME SessionInvariant, Running, NEW place \in Places, OpenPath(place) \/ LoadWorkspace(place)
  PROVE  SessionInvariant'
<1>1. CallsAreSound(WithoutIntents(tasks), docs, mutation, Closing)
  BY Counts, IntentsKeep
<1>2. PICK fn \in {"openPath", "workspace"} :
        Start([NoTask EXCEPT !.fn = fn, !.place = place, !.holds = {"intent"}], WithoutIntents(tasks)) /\ SameView
  BY DEF OpenPath, LoadWorkspace
<1>. DEFINE u == [NoTask EXCEPT !.fn = fn, !.place = place, !.holds = {"intent"}]
<1>3. u \in Tasks /\ u.fn = fn /\ u.at = "native" /\ u.place = place /\ u.holds = {"intent"}
  BY NoTaskIsOne DEF NoTask, Tasks, Permissions, Reads
<1>4. CallsAreSound(tasks', docs, mutation, Closing)
  <2>1. tasks' = WithoutIntents(tasks) \cup {u}
    BY <1>2 DEF Start
  <2>. HIDE DEF u
  <2>. QED BY <1>1, <1>3, <2>1, ReadBegins
<1>5. budget' \in Budgets
  BY <1>2, Counts, Spending DEF Start
<1>. QED BY <1>2, <1>4, <1>5, Counts, TabsStay DEF Start, SameView

\* A read of an open tab begins.
LEMMA ReloadBegins ==
  ASSUME NEW T, NEW now, NEW reserved, NEW closing, CallsAreSound(T, now, reserved, closing),
         NEW u \in Tasks, u.fn \in {"reload", "discardReload"}, u.at = "native", u.id \in Ids,
         u.holds = {"document", "read"}, u.place \in Places, now[u.id] # None, now[u.id].place = u.place,
         IF u.fn = "reload" THEN ~now[u.id].dirty ELSE u.text = now[u.id].text
  PROVE  CallsAreSound(T \cup {u}, now, reserved, closing)
<1>1. WellFormed(u)
  BY DEF WellFormed, Reads, Saves, Mutations
<1>2. FitsTabs(u, now) /\ u.fn \notin Saves /\ u \notin Working({u})
  BY DEF FitsTabs, Saves, Working, Mutations, Subject
<1>. QED BY <1>1, <1>2, CallBegins

\* reloadDocumentFromDisk
LEMMA ReloadSound ==
  ASSUME SessionInvariant, Running, NEW id \in Open, Reload(id) PROVE SessionInvariant'
<1>. DEFINE place == docs[id].place
            read == [NoTask EXCEPT !.fn = "reload", !.id = id, !.place = place, !.holds = {"document", "read"}]
<1>1. id \in Ids /\ docs[id] \in Documents /\ docs[id] # None /\ place \in Places
  BY Counts DEF Reload, Documents, Open
<1>2. UNCHANGED <<disk, docs, active, workspace, mutation, quit>>
  BY DEF Reload, Start, Same
<1>3. CASE docs[id].dirty
  <2>1. conflict' = [id |-> id, place |-> place, reason |-> "changed"]
        /\ tasks' = Losing(tasks, {id}, {"read"}) /\ UNCHANGED budget
    BY <1>3 DEF Reload, Conflict, Same
  <2>2. conflict' \in Conflicts
    BY <1>1, <2>1 DEF Conflicts
  <2>3. CallsAreSound(Losing(tasks, {id}, {"read"}), docs, mutation, Closing)
    BY Counts, LosingKeeps
  <2>. QED BY <1>2, <2>1, <2>2, <2>3, Counts, TabsStay
<1>4. CASE ~docs[id].dirty
  <2>1. Start(read, Losing(tasks, {id}, {"read"})) /\ UNCHANGED conflict
    BY <1>4 DEF Reload
  <2>2. /\ read \in Tasks /\ read.fn = "reload" /\ read.at = "native" /\ read.id = id /\ read.place = place
        /\ read.holds = {"document", "read"}
    BY <1>1, NoTaskIsOne DEF NoTask, Tasks, Permissions, Reads
  <2>3. CallsAreSound(Losing(tasks, {id}, {"read"}), docs, mutation, Closing)
    BY Counts, LosingKeeps
  <2>4. CallsAreSound(tasks', docs, mutation, Closing)
    <3>1. tasks' = Losing(tasks, {id}, {"read"}) \cup {read}
      BY <2>1 DEF Start
    <3>. HIDE DEF read
    <3>. QED BY <1>1, <1>4, <2>2, <2>3, <3>1, ReloadBegins
  <2>5. budget' \in Budgets
    BY <2>1, Counts, Spending DEF Start
  <2>. QED BY <1>2, <2>1, <2>4, <2>5, Counts, TabsStay
<1>. QED BY <1>3, <1>4

\* reloadExternalDocumentFromDisk
LEMMA ReloadFromDiskSound ==
  ASSUME SessionInvariant, Running, ReloadFromDisk PROVE SessionInvariant'
<1>. DEFINE id == conflict.id
            place == conflict.place
<1>1. id \in Open /\ id \in Ids /\ docs[id] # None /\ docs[id].place = place /\ place \in Places /\ docs[id].text \in Versions
  BY Counts DEF ReloadFromDisk, Conflicts, Open, Documents, Versions
<1>2. Start([NoTask EXCEPT !.fn = "discardReload", !.id = id, !.place = place, !.text = docs[id].text,
                           !.holds = {"document", "read"}], Losing(tasks, {id}, {"read"})) /\ SameView
  BY DEF ReloadFromDisk
<1>3. CallsAreSound(Losing(tasks, {id}, {"read"}), docs, mutation, Closing)
  BY Counts, LosingKeeps
<1>4. CallsAreSound(tasks', docs, mutation, Closing)
  <2>. DEFINE u == [NoTask EXCEPT !.fn = "discardReload", !.id = id, !.place = place, !.text = docs[id].text,
                                  !.holds = {"document", "read"}]
  <2>1. /\ u \in Tasks /\ u.fn = "discardReload" /\ u.at = "native" /\ u.id = id /\ u.place = place
        /\ u.holds = {"document", "read"} /\ u.text = docs[id].text
    <3>. HIDE DEF id, place
    <3>. QED BY <1>1, NoTaskIsOne DEF NoTask, Tasks, Permissions, Reads
  <2>2. tasks' = Losing(tasks, {id}, {"read"}) \cup {u}
    BY <1>2 DEF Start
  <2>. HIDE DEF u, id, place
  <2>. QED BY <1>1, <1>3, <2>1, <2>2, ReloadBegins
<1>5. budget' \in Budgets
  BY <1>2, Counts, Spending DEF Start
<1>. QED BY <1>2, <1>4, <1>5, Counts, TabsStay DEF Start, SameView

\* The rest of the window's steps that only look at tabs.
LEMMA LookSound ==
  ASSUME SessionInvariant, Running,
         \/ ReportMissing \/ KeepEditing \/ (\E id \in Open : ActivateTab(id))
         \/ \E place \in Places, v \in Versions : Foreign(place, v)
  PROVE  SessionInvariant'
<1>1. CASE ReportMissing
  <2>1. conflict' = [id |-> active, place |-> docs[active].place, reason |-> "deleted"]
        /\ active # None /\ docs[active].place # Nowhere
    BY <1>1 DEF ReportMissing, Conflict
  <2>2. conflict' \in Conflicts
    BY <2>1, Counts DEF Conflicts, Documents, Open
  <2>. QED BY <1>1, <2>2, Counts, TabsStay DEF ReportMissing
<1>2. CASE KeepEditing
  <2>1. CallsAreSound(Losing(tasks, {conflict.id}, {"read"}), docs, mutation, Closing)
    BY Counts, LosingKeeps
  <2>. QED BY <1>2, <2>1, Counts, TabsStay DEF KeepEditing, Conflicts, Same
<1>3. ASSUME NEW id \in Open, ActivateTab(id) PROVE SessionInvariant'
  <2>1. CallsAreSound(WithoutIntents(tasks), docs, mutation, Closing)
    BY Counts, IntentsKeep
  <2>2. workspace' \in Roots /\ active' \in Open
    BY <1>3, Counts, Names DEF ActivateTab, Show, Documents
  <2>. QED BY <1>3, <2>1, <2>2, Counts, TabsStay DEF ActivateTab
<1>4. ASSUME NEW place \in Places, NEW v \in Versions, Foreign(place, v) PROVE SessionInvariant'
  <2>1. disk' \in [Places -> Versions]
    BY <1>4, Counts DEF Foreign
  <2>2. budget' \in Budgets
    BY <1>4, Counts, Spending DEF Foreign
  <2>. QED BY <1>4, <2>1, <2>2, Counts, TabsStay DEF Foreign, SameView
<1>. QED BY <1>1, <1>2, <1>3, <1>4

\* A section that leaves sound tabs leaves calls that fit them.
LEMMA CommitIsSound ==
  ASSUME SessionInvariant, NEW now, NEW T, NEW reserved, CallsAreSound(T, docs, reserved, Closing), Follows(now),
         \/ NotTaken(T, now)
         \/ \A id \in Untitled : docs[id] = None => now[id] = None,
         Commit(now, T)
  PROVE  docs' = now /\ TabsAreSound(docs') /\ CallsAreSound(tasks', docs', reserved, Closing)
<1>1. \A t \in T : WellFormed(t) /\ FitsTabs(t, docs)
  BY DEF CallsAreSound
<1>2. NotTaken(T, now)
  BY <1>1 DEF NotTaken, WellFormed, FitsTabs
<1>3. CallsAreSound(Reconciled(T, now), now, reserved, Closing)
  BY <1>2, ReconciledKeeps
<1>. QED BY <1>3 DEF Commit, Follows

\* A call ends that changed no paths.
LEMMA QuietEnd ==
  ASSUME SessionInvariant, NEW t \in tasks, t.fn \notin Mutations \cup {"opened"} \/ t.at = "ask"
  PROVE  CallsAreSound(tasks \ {t}, docs, mutation, Closing)
<1>1. Working(tasks) \subseteq tasks \ {t}
  BY DEF Working
<1>. QED BY <1>1, Counts, FewerCalls

\* A file is given an identity nobody has, and no untitled document's.
LEMMA IdentitiesAreFree ==
  ASSUME NEW place \in Places, NEW root, NEW taken, NEW id \in Identities(place, root, taken)
  PROVE  id \in Ids /\ id \notin Untitled /\ id \notin taken
BY Names DEF Identities

\* A file is opened in a new tab.
LEMMA OpeningFollows ==
  ASSUME SessionInvariant, NEW place \in Places, NEW v \in Contents, NEW id \in Ids \ (Untitled \cup Open)
  PROVE  LET now == [docs EXCEPT ![id] = Loaded(place, v)] IN
         /\ Follows(now) /\ KeepsEdits(now) /\ id \in Shown(now) /\ Open \subseteq Shown(now)
         /\ \A other \in Untitled : docs[other] = None => now[other] = None
<1>. DEFINE now == [docs EXCEPT ![id] = Loaded(place, v)]
            loaded == Loaded(place, v)
<1>1. /\ loaded \in Documents /\ loaded # None /\ loaded.place = place /\ loaded.text = v /\ loaded.base = v
      /\ loaded.dirty = FALSE /\ place # Nowhere
  <2>1. loaded \in Documents /\ loaded.place = place /\ loaded.text = v /\ loaded.base = v /\ loaded.dirty = FALSE
    BY DEF Loaded, Documents, Versions
  <2>. HIDE DEF loaded
  <2>. QED BY <2>1, Names
<1>2. /\ now \in Tabs /\ now[id] = loaded /\ \A other \in Ids \ {id} : now[other] = docs[other]
  BY <1>1, Counts DEF Tabs
<1>. HIDE DEF now, loaded
<1>3. TabsAreSound(now)
  BY <1>1, <1>2, Counts DEF TabsAreSound, Shown
<1>4. Follows(now)
  BY <1>1, <1>2, <1>3 DEF Follows, Open
<1>5. KeepsEdits(now)
  BY <1>1, <1>2, Counts DEF KeepsEdits, Shown
<1>. QED BY <1>1, <1>2, <1>4, <1>5, Names DEF now, Shown, Open

\* selectFile reads the file into its tab, which may have been opened since.
LEMMA SelectedSound ==
  ASSUME SessionInvariant, Running, NEW t \in tasks, Selected(t) PROVE SessionInvariant'
<1>1. /\ t.fn = "select" /\ t.id \in Ids /\ t.id \notin Untitled /\ t.place \in Places
      /\ CallsAreSound(tasks \ {t}, docs, mutation, Closing)
  BY Counts, QuietEnd DEF Selected, WellFormed, Reads, Mutations
<1>2. UNCHANGED <<disk, budget, workspace, mutation, conflict, quit>>
  BY DEF Selected, Same
<1>3. CASE "intent" \in t.holds /\ t.answer \in Contents
  <2>. DEFINE loaded == [Loaded(t.place, t.answer) EXCEPT !.dirty = t.id \in Dirty]
              now == [docs EXCEPT ![t.id] = loaded]
  <2>1. Commit(now, tasks \ {t}) /\ active' = t.id
    BY <1>3 DEF Selected
  <2>2. /\ loaded \in Documents /\ loaded # None /\ loaded.place = t.place /\ loaded.text = t.answer
        /\ loaded.base = t.answer /\ loaded.dirty = (t.id \in Dirty) /\ t.place # Nowhere
    <3>1. /\ loaded \in Documents /\ loaded.place = t.place /\ loaded.text = t.answer /\ loaded.base = t.answer
          /\ loaded.dirty = (t.id \in Dirty)
      <4>1. ASSUME NEW b \in BOOLEAN
            PROVE  LET l == [Loaded(t.place, t.answer) EXCEPT !.dirty = b] IN
                   l \in Documents /\ l.place = t.place /\ l.text = t.answer /\ l.base = t.answer /\ l.dirty = b
        BY <1>1, <1>3 DEF Loaded, Documents, Versions
      <4>2. (t.id \in Dirty) \in BOOLEAN
        OBVIOUS
      <4>. QED BY <4>1, <4>2, Zenon
    <3>. HIDE DEF loaded
    <3>. QED BY <1>1, <3>1, Names
  <2>3. now \in Tabs /\ now[t.id] = loaded /\ \A id \in Ids \ {t.id} : now[id] = docs[id]
    BY <1>1, <2>2, Counts DEF Tabs
  <2>. HIDE DEF now, loaded
  <2>4. TabsAreSound(now)
    BY <1>1, <2>2, <2>3, Counts DEF TabsAreSound, Shown
  <2>5. Follows(now)
    BY <1>1, <2>2, <2>3, <2>4 DEF Follows, Open, Dirty
  <2>6. KeepsEdits(now) /\ t.id \in Shown(now)
    BY <1>1, <2>2, <2>3, Counts DEF KeepsEdits, Shown
  <2>7. \A id \in Untitled : docs[id] = None => now[id] = None
    BY <1>1, <2>3, Names
  <2>8. docs' = now /\ TabsAreSound(docs') /\ CallsAreSound(tasks', docs', mutation, Closing)
    BY <1>1, <2>1, <2>5, <2>7, CommitIsSound
  <2>. QED BY <1>2, <2>1, <2>6, <2>8, Counts, StepIsSound
<1>4. CASE ~("intent" \in t.holds /\ t.answer \in Contents)
  BY <1>1, <1>2, <1>4, Counts, TabsStay DEF Selected
<1>. QED BY <1>3, <1>4

\* openMarkdownPath
LEMMA OpenedPathSound ==
  ASSUME SessionInvariant, Running, NEW t \in tasks, OpenedPath(t) PROVE SessionInvariant'
<1>1. /\ t.fn = "openPath" /\ t.place \in Places
      /\ CallsAreSound(tasks \ {t}, docs, mutation, Closing)
      /\ CallsAreSound(WithoutIntents(tasks \ {t}), docs, mutation, Closing)
  BY Counts, QuietEnd, IntentsKeep DEF OpenedPath, WellFormed, Reads, Mutations
<1>2. UNCHANGED <<disk, budget, mutation, conflict, quit>>
  BY DEF OpenedPath, Same
<1>3. CASE tasks' = tasks \ {t} /\ UNCHANGED <<docs, active, workspace>>
  BY <1>1, <1>2, <1>3, Counts, TabsStay
<1>4. ASSUME tasks' = WithoutIntents(tasks \ {t}), NEW id \in TabsAt(t.place), Show(id, docs), UNCHANGED docs
      PROVE  SessionInvariant'
  <2>1. id \in Open /\ docs[id].place \in Places
    BY <1>1 DEF TabsAt
  <2>2. active' \in Open /\ workspace' \in Roots
    BY <1>4, <2>1, Counts, Names DEF Show
  <2>. QED BY <1>1, <1>2, <1>4, <2>2, Counts, TabsStay
<1>5. ASSUME NEW id \in Identities(t.place, workspace, Open), t.answer \in Contents,
             Commit([docs EXCEPT ![id] = Loaded(t.place, t.answer)], tasks \ {t}),
             active' = id, workspace' = t.place[1]
      PROVE  SessionInvariant'
  <2>. DEFINE now == [docs EXCEPT ![id] = Loaded(t.place, t.answer)]
  <2>1. id \in Ids \ (Untitled \cup Open)
    BY <1>1, <1>5, IdentitiesAreFree
  <2>2. /\ Follows(now) /\ KeepsEdits(now) /\ id \in Shown(now)
        /\ \A other \in Untitled : docs[other] = None => now[other] = None
    BY <1>1, <1>5, <2>1, OpeningFollows
  <2>. HIDE DEF now
  <2>3. docs' = now /\ TabsAreSound(docs') /\ CallsAreSound(tasks', docs', mutation, Closing)
    BY <1>1, <1>5, <2>2, CommitIsSound DEF now
  <2>4. workspace' \in Roots
    BY <1>1, <1>5, Names
  <2>. QED BY <1>2, <1>5, <2>2, <2>3, <2>4, Counts, StepIsSound
<1>. QED BY <1>3, <1>4, <1>5 DEF OpenedPath

\* loadWorkspace replaces tabs that are all clean.
LEMMA LoadedWorkspaceSound ==
  ASSUME SessionInvariant, Running, NEW t \in tasks, LoadedWorkspace(t) PROVE SessionInvariant'
<1>1. /\ t.fn = "workspace" /\ t.place \in Places /\ t.place[1] \in Roots /\ t.place[2] \in Ids
      /\ t.place[2] \notin Untitled /\ t.place # Nowhere
      /\ CallsAreSound(tasks \ {t}, docs, mutation, Closing)
  BY Counts, QuietEnd, Names DEF LoadedWorkspace, WellFormed, Reads, Mutations
<1>2. UNCHANGED <<disk, budget, mutation, conflict, quit>>
  BY DEF LoadedWorkspace, Same
<1>3. CASE "intent" \in t.holds /\ t.answer \in Contents /\ Dirty = {}
  <2>. DEFINE loaded == Loaded(t.place, t.answer)
              now == [id \in Ids |-> IF id = t.place[2] THEN loaded ELSE None]
  <2>1. Commit(now, tasks \ {t}) /\ active' = t.place[2] /\ workspace' = t.place[1]
    BY <1>3 DEF LoadedWorkspace
  <2>2. /\ loaded \in Documents /\ loaded # None /\ loaded.place = t.place /\ loaded.text = t.answer
        /\ loaded.base = t.answer /\ loaded.dirty = FALSE
    <3>1. /\ loaded \in Documents /\ loaded.place = t.place /\ loaded.text = t.answer /\ loaded.base = t.answer
          /\ loaded.dirty = FALSE
      BY <1>1, <1>3 DEF Loaded, Documents, Versions
    <3>. HIDE DEF loaded
    <3>. QED BY <1>1, <3>1, Names
  <2>3. now \in Tabs /\ now[t.place[2]] = loaded /\ \A id \in Ids \ {t.place[2]} : now[id] = None
    BY <1>1, <2>2 DEF Tabs
  <2>. HIDE DEF now, loaded
  <2>4. TabsAreSound(now)
    BY <1>1, <2>2, <2>3 DEF TabsAreSound, Shown
  <2>5. Follows(now) /\ KeepsEdits(now) /\ t.place[2] \in Shown(now)
    BY <1>1, <2>2, <2>3, <2>4 DEF Follows, Open, KeepsEdits, Shown
  <2>6. \A id \in Untitled : docs[id] = None => now[id] = None
    BY <1>1, <2>3, Names
  <2>7. docs' = now /\ TabsAreSound(docs') /\ CallsAreSound(tasks', docs', mutation, Closing)
    BY <1>1, <2>1, <2>5, <2>6, CommitIsSound
  <2>. QED BY <1>1, <1>2, <2>1, <2>5, <2>7, Counts, StepIsSound
<1>4. CASE ~("intent" \in t.holds /\ t.answer \in Contents /\ Dirty = {})
  BY <1>1, <1>2, <1>4, Counts, TabsStay DEF LoadedWorkspace
<1>. QED BY <1>3, <1>4

\* One tab changes.
LEMMA OneTabChanges ==
  ASSUME SessionInvariant, NEW id \in Ids, NEW doc \in Documents,
         ~doc.dirty => doc.text = IF doc.place = Nowhere THEN Empty ELSE doc.base,
         doc.place = Nowhere => id \in Untitled,
         docs[id] # None /\ doc.place = docs[id].place /\ doc.text = docs[id].text /\ doc.base = docs[id].base
           /\ ~docs[id].dirty => ~doc.dirty
  PROVE  LET now == [docs EXCEPT ![id] = doc] IN
         /\ now \in Tabs /\ now[id] = doc /\ \A other \in Ids \ {id} : now[other] = docs[other]
         /\ Follows(now) /\ id \in Shown(now) /\ Open \subseteq Shown(now)
<1>. DEFINE now == [docs EXCEPT ![id] = doc]
<1>1. now \in Tabs /\ now[id] = doc /\ \A other \in Ids \ {id} : now[other] = docs[other]
  BY Counts DEF Tabs
<1>. HIDE DEF now
<1>2. TabsAreSound(now)
  BY <1>1, Counts DEF TabsAreSound, Shown
<1>3. Follows(now)
  BY <1>1, <1>2 DEF Follows, Open
<1>4. id \in Shown(now) /\ Open \subseteq Shown(now)
  BY <1>1, Names DEF Shown, Open
<1>. QED BY <1>1, <1>3, <1>4 DEF now

\* updateActiveDocument
LEMMA TypeSound ==
  ASSUME SessionInvariant, Running, NEW v \in Contents, Type(v) PROVE SessionInvariant'
<1>. DEFINE doc == [docs[active] EXCEPT !.text = v, !.dirty = TRUE]
            now == [docs EXCEPT ![active] = doc]
<1>1. active \in Open /\ active \in Ids /\ docs[active] \in Documents /\ docs[active] # None /\ v # docs[active].text
      /\ ~Closing
  BY Counts DEF Type, Open
<1>2. /\ doc \in Documents /\ doc.text = v /\ doc.dirty = TRUE /\ doc.base = docs[active].base
      /\ doc.place = docs[active].place
  BY <1>1 DEF Documents
<1>3. Commit(now, tasks)
  <2>1. now = [docs EXCEPT ![active].text = v, ![active].dirty = TRUE]
    OBVIOUS
  <2>. QED BY <2>1 DEF Type
<1>4. UNCHANGED <<disk, active, workspace, mutation, conflict, quit>> /\ budget' \in Budgets
  BY Counts, Spending DEF Type, SameView
<1>5. doc.place = Nowhere => active \in Untitled
  BY <1>1, <1>2, Counts DEF TabsAreSound
<1>. HIDE DEF doc
<1>6. now \in Tabs /\ Follows(now) /\ Open \subseteq Shown(now) /\ \A other \in Ids \ {active} : now[other] = docs[other]
  BY <1>1, <1>2, <1>5, OneTabChanges
<1>. HIDE DEF now
<1>7. \A id \in Untitled : docs[id] = None => now[id] = None
  BY <1>1, <1>6, Names
<1>8. docs' = now /\ TabsAreSound(docs') /\ CallsAreSound(tasks', docs', mutation, Closing)
  BY <1>3, <1>6, <1>7, Counts, CommitIsSound
<1>. QED BY <1>1, <1>4, <1>6, <1>8, Counts, StepIsSound

\* createUntitledDocument takes an identity nothing refers to.
LEMMA CreateUntitledSound ==
  ASSUME SessionInvariant, Running, NEW id \in Untitled, CreateUntitled(id) PROVE SessionInvariant'
<1>. DEFINE doc == [place |-> Nowhere, text |-> Empty, base |-> NoFile, dirty |-> TRUE]
            now == [docs EXCEPT ![id] = doc]
<1>1. id \in Ids /\ docs[id] = None /\ ~Closing /\ \A t \in tasks : t.id # id /\ t.next # id
  BY Names DEF CreateUntitled, Mentioned
<1>2. doc \in Documents /\ doc.dirty = TRUE /\ doc.place = Nowhere
  BY SessionAssumption DEF Documents, Versions
<1>3. Commit(now, WithoutIntents(tasks)) /\ active' = id /\ UNCHANGED <<disk, workspace, mutation, conflict, quit>>
      /\ budget' \in Budgets
  BY Counts, Spending DEF CreateUntitled
<1>. HIDE DEF doc
<1>4. now \in Tabs /\ Follows(now) /\ id \in Shown(now) /\ \A other \in Ids \ {id} : now[other] = docs[other]
  BY <1>1, <1>2, OneTabChanges
<1>. HIDE DEF now
<1>5. NotTaken(WithoutIntents(tasks), now)
  <2>1. ASSUME NEW u \in WithoutIntents(tasks), u.fn = "saveAs", u.then = "close", u.at = "refresh"
        PROVE  now[u.id] = None
    <3>1. PICK t \in tasks : u = [t EXCEPT !.holds = @ \ {"intent"}]
      BY <2>1 DEF WithoutIntents
    <3>2. u.id = t.id /\ t.fn = "saveAs" /\ t.then = "close" /\ t.at = "refresh" /\ t.id \in Ids
      BY <2>1, <3>1, Counts DEF Tasks, WellFormed, Saves
    <3>3. docs[t.id] = None
      BY <3>2, Counts DEF FitsTabs
    <3>. QED BY <1>1, <1>4, <3>2, <3>3
  <2>. QED BY <2>1 DEF NotTaken
<1>6. CallsAreSound(WithoutIntents(tasks), docs, mutation, Closing)
  BY Counts, IntentsKeep
<1>7. docs' = now /\ TabsAreSound(docs') /\ CallsAreSound(tasks', docs', mutation, Closing)
  BY <1>3, <1>4, <1>5, <1>6, CommitIsSound
<1>. QED BY <1>1, <1>3, <1>4, <1>7, Counts, StepIsSound

\* A read that still holds its request finds the tab it was made for, without edits of its own.
LEMMA ReloadedSound ==
  ASSUME SessionInvariant, Running, NEW t \in tasks, Reloaded(t) PROVE SessionInvariant'
<1>1. /\ t.fn \in {"reload", "discardReload"} /\ t.id \in Ids /\ t.place \in Places /\ Subject(t) = t.id
      /\ CallsAreSound(tasks \ {t}, docs, mutation, Closing)
  BY Counts, QuietEnd DEF Reloaded, WellFormed, Reads, Mutations, Subject
<1>2. UNCHANGED <<disk, budget, active, workspace, mutation, quit>>
  BY DEF Reloaded, Same
<1>3. "document" \in t.holds => docs[t.id] # None /\ docs[t.id].place = t.place /\ docs[t.id] \in Documents
  BY <1>1, Counts DEF FitsTabs, Open
<1>4. conflict' \in Conflicts
  <2>1. Conflict(t.id, "changed") \in Conflicts \/ "document" \notin t.holds
    BY <1>1, <1>3 DEF Conflict, Conflicts
  <2>2. None \in Conflicts
    BY DEF Conflicts
  <2>. QED BY <2>1, <2>2, Counts DEF Reloaded
<1>5. CASE "read" \in t.holds /\ t.answer \in Contents
  <2>. DEFINE doc == [docs[t.id] EXCEPT !.text = t.answer, !.base = t.answer, !.dirty = @ /\ t.fn = "reload"]
              now == [docs EXCEPT ![t.id] = doc]
  <2>1. docs[t.id] # None /\ docs[t.id].place = t.place /\ docs[t.id] \in Documents /\ t.place # Nowhere
    BY <1>1, <1>3, <1>5, Names, Counts DEF WellFormed
  <2>2. ~(docs[t.id].dirty /\ t.fn = "reload")
    BY <1>5, Counts DEF FitsTabs
  <2>3. doc = [docs[t.id] EXCEPT !.text = t.answer, !.base = t.answer, !.dirty = FALSE]
    BY <2>1, <2>2 DEF Documents
  <2>4. /\ doc \in Documents /\ doc.text = t.answer /\ doc.base = t.answer /\ doc.dirty = FALSE
        /\ doc.place = t.place
    BY <1>5, <2>1, <2>3 DEF Documents, Versions
  <2>5. Commit(now, tasks \ {t})
    <3>1. now = [docs EXCEPT ![t.id].text = t.answer, ![t.id].base = t.answer, ![t.id].dirty = @ /\ t.fn = "reload"]
      OBVIOUS
    <3>. HIDE DEF now
    <3>. QED BY <1>5, <3>1 DEF Reloaded
  <2>. HIDE DEF doc
  <2>6. now[t.id] = doc /\ Follows(now) /\ Open \subseteq Shown(now) /\ \A other \in Ids \ {t.id} : now[other] = docs[other]
    <3>1. doc.place # Nowhere
      BY <2>1, <2>4
    <3>2. doc \in Documents /\ doc.text = doc.base /\ ~doc.dirty
      BY <2>4
    <3>. QED BY <1>1, <3>1, <3>2, OneTabChanges
  <2>. HIDE DEF now
  <2>7. KeepsEdits(now)
    BY <2>4, <2>6, Counts DEF KeepsEdits, Shown
  <2>8. \A id \in Untitled : docs[id] = None => now[id] = None
    BY <2>1, <2>6, Names
  <2>9. docs' = now /\ TabsAreSound(docs') /\ CallsAreSound(tasks', docs', mutation, Closing)
    BY <1>1, <2>5, <2>6, <2>8, CommitIsSound
  <2>. QED BY <1>2, <1>4, <2>6, <2>7, <2>9, Counts, StepIsSound
<1>6. CASE ~("read" \in t.holds /\ t.answer \in Contents)
  <2>1. tasks' = tasks \ {t} /\ UNCHANGED docs
    BY <1>6 DEF Reloaded
  <2>. QED BY <1>1, <1>2, <1>4, <2>1, Counts, TabsStay
<1>. QED BY <1>5, <1>6

-----------------------------------------------------------------------------
(* Path mutations. *)

\* A change of paths, or the opening of what was created, goes on.
LEMMA WorkGoesOn ==
  ASSUME SessionInvariant, NEW t \in tasks, t.fn \in Mutations \cup {"opened"}, t.at # "ask",
         NEW u \in Tasks, u.fn = t.fn \/ (t.fn = "create" /\ u.fn = "opened"), u.at # "ask",
         u.id = t.id, u.place = t.place, u.to = t.to, u.then = t.then, u.holds = t.holds
  PROVE  CallsAreSound((tasks \ {t}) \cup {u}, docs, mutation, Closing)
<1>1. WellFormed(t) /\ CallsAreSound(tasks, docs, mutation, Closing)
  BY Counts
<1>2. u.fn \in Mutations \cup {"opened"} /\ u.fn \notin Saves /\ t.fn \notin Saves
  BY DEF Mutations, Saves
<1>3. WellFormed(u)
  BY <1>1, <1>2 DEF WellFormed, Mutations, Reads, Saves
<1>4. FitsTabs(u, docs)
  BY <1>2, <1>3 DEF WellFormed, FitsTabs, Mutations, Saves
<1>5. u \in Working({u}) /\ t \in Working({t})
  BY <1>2 DEF Working
<1>6. u.fn \in {"rename", "delete"} => t.fn \in {"rename", "delete"}
  OBVIOUS
<1>. QED BY <1>1, <1>2, <1>3, <1>4, <1>5, <1>6, CallGoesOn

\* A change of paths is over: the folder is free.
LEMMA WorkIsOver ==
  ASSUME SessionInvariant, NEW t \in tasks, t.fn \in Mutations \cup {"opened"}, t.at # "ask"
  PROVE  CallsAreSound(tasks \ {t}, docs, None, Closing)
<1>1. t \in Working(tasks)
  BY DEF Working
<1>. QED BY <1>1, Counts, WorkEnds

\* No save is at work exactly when none is in progress.
LEMMA NoSaves == SavesInProgress = {} <=> SavesOf(tasks) = {}
BY DEF SavesInProgress, SavesOf

\* pathMutations.begin of a rename or a delete.
LEMMA PathsBegin ==
  ASSUME NEW T, NEW closing, CallsAreSound(T, docs, None, closing), SavesOf(T) = {},
         NEW u \in Tasks, u.fn \in {"rename", "delete"}, u.at = "native", u.place \in Places,
         u.fn = "rename" => u.to \in Places, u.then = "end", "document" \notin u.holds, "read" \notin u.holds
  PROVE  CallsAreSound(Losing(WithoutIntents(T), Open, {"read"}) \cup {u}, docs, u.place[1], closing)
<1>. DEFINE L == Losing(WithoutIntents(T), Open, {"read"})
<1>1. CallsAreSound(T, docs, None, TRUE)
  BY DEF CallsAreSound, CallsAreApart
<1>2. CallsAreSound(L, docs, None, TRUE)
  BY <1>1, IntentsKeep, LosingKeeps
<1>. HIDE DEF L
<1>3. SavesOf(L) = {}
  BY <1>2 DEF CallsAreSound, CallsAreApart
<1>4. WellFormed(u)
  BY DEF WellFormed, Mutations, Reads, Saves
<1>5. FitsTabs(u, docs) /\ u.fn \in Mutations /\ u \in Working({u}) /\ u.place[1] # None
  BY Names DEF FitsTabs, Mutations, Working
<1>6. CallsAreSound(L \cup {u}, docs, u.place[1], TRUE)
  BY <1>2, <1>3, <1>4, <1>5, WorkBegins
<1>. QED BY <1>6 DEF L, CallsAreSound, CallsAreApart

\* runPathMutation
LEMMA RenameEntrySound ==
  ASSUME SessionInvariant, Running, NEW from \in Places, NEW to \in Places, RenameEntry(from, to) PROVE SessionInvariant'
<1>. DEFINE u == [NoTask EXCEPT !.fn = "rename", !.place = from, !.to = to]
<1>1. /\ u \in Tasks /\ u.fn = "rename" /\ u.at = "native" /\ u.place = from /\ u.to = to /\ u.then = "end"
      /\ u.holds = {}
  BY NoTaskIsOne DEF NoTask, Tasks, Mutations
<1>2. /\ mutation = None /\ SavesOf(tasks) = {} /\ mutation' = from[1]
      /\ tasks' = Losing(WithoutIntents(tasks), Open, {"read"}) \cup {u}
      /\ UNCHANGED <<disk, docs, active, workspace, conflict, quit>>
  BY NoSaves DEF RenameEntry, Begin
<1>. HIDE DEF u
<1>3. CallsAreSound(tasks', docs, mutation', Closing)
  BY <1>1, <1>2, Counts, PathsBegin
<1>4. budget' \in Budgets
  BY Counts, Spending DEF RenameEntry
<1>5. mutation' \in Roots
  BY <1>2, Names
<1>. QED BY <1>2, <1>3, <1>4, <1>5, Counts, TabsStay

\* deleteWorkspaceItem asks, and begins once the user agreed.
LEMMA DeletesBegin ==
  ASSUME SessionInvariant, Running,
         \/ \E place \in Places : AskDelete(place)
         \/ \E t \in tasks, confirmed \in BOOLEAN : DeleteChosen(t, confirmed)
  PROVE  SessionInvariant'
<1>1. ASSUME NEW place \in Places, AskDelete(place) PROVE SessionInvariant'
  <2>. DEFINE u == [NoTask EXCEPT !.fn = "delete", !.at = "ask", !.place = place]
  <2>1. /\ u \in Tasks /\ u.fn = "delete" /\ u.at = "ask" /\ u.place = place /\ u.then = "end"
        /\ u.holds = {}
    BY NoTaskIsOne DEF NoTask, Tasks, Mutations
  <2>2. tasks' = tasks \cup {u} /\ UNCHANGED <<disk, docs, active, workspace, conflict, mutation, quit>>
    BY <1>1 DEF AskDelete, Start, SameView
  <2>. HIDE DEF u
  <2>3. WellFormed(u)
    BY <2>1 DEF WellFormed, Mutations, Reads, Saves
  <2>4. FitsTabs(u, docs) /\ u \notin Working({u}) /\ u.fn \notin Saves
    BY <2>1 DEF FitsTabs, Working, Saves
  <2>5. CallsAreSound(tasks', docs, mutation, Closing)
    BY <2>2, <2>3, <2>4, Counts, CallBegins
  <2>6. budget' \in Budgets
    BY <1>1, Counts, Spending DEF AskDelete, Start
  <2>. QED BY <2>2, <2>5, <2>6, Counts, TabsStay
<1>2. ASSUME NEW t \in tasks, NEW confirmed \in BOOLEAN, DeleteChosen(t, confirmed) PROVE SessionInvariant'
  <2>1. CallsAreSound(tasks \ {t}, docs, mutation, Closing)
    BY <1>2, QuietEnd DEF DeleteChosen
  <2>2. UNCHANGED <<disk, budget, docs, active, workspace, conflict, quit>>
    BY <1>2 DEF DeleteChosen, Same
  <2>3. CASE tasks' = tasks \ {t} /\ UNCHANGED mutation
    BY <2>1, <2>2, <2>3, Counts, TabsStay
  <2>4. CASE ~Rejected /\ SavesInProgress = {} /\ Begin([t EXCEPT !.at = "native"], t.place, tasks \ {t})
    <3>. DEFINE u == [t EXCEPT !.at = "native"]
    <3>1. t \in Tasks /\ t.fn = "delete" /\ t.at = "ask" /\ t.place \in Places /\ t.then = "end"
          /\ "document" \notin t.holds /\ "read" \notin t.holds
      BY <1>2, Counts DEF DeleteChosen, WellFormed, Mutations, Saves
    <3>2. u \in Tasks /\ u.fn = t.fn /\ u.at = "native" /\ u.place = t.place /\ u.then = t.then /\ u.holds = t.holds
      BY <3>1 DEF Tasks
    <3>3. /\ mutation = None /\ SavesOf(tasks \ {t}) = {} /\ mutation' = t.place[1]
          /\ tasks' = Losing(WithoutIntents(tasks \ {t}), Open, {"read"}) \cup {u}
      BY <2>4, NoSaves DEF Begin, Rejected, SavesOf
    <3>. HIDE DEF u
    <3>4. CallsAreSound(tasks', docs, mutation', Closing)
      BY <2>1, <3>1, <3>2, <3>3, PathsBegin
    <3>5. mutation' \in Roots
      BY <3>1, <3>3, Names
    <3>. QED BY <2>2, <3>4, <3>5, Counts, TabsStay
  <2>. QED BY <1>2, <2>3, <2>4 DEF DeleteChosen
<1>. QED BY <1>1, <1>2

\* createWorkspaceItem
LEMMA CreateFileSound ==
  ASSUME SessionInvariant, Running, NEW place \in Places, CreateFile(place) PROVE SessionInvariant'
<1>. DEFINE u == [NoTask EXCEPT !.fn = "create", !.place = place, !.holds = {"intent"}]
<1>1. /\ u \in Tasks /\ u.fn = "create" /\ u.at = "native" /\ u.place = place /\ u.then = "end"
      /\ u.holds = {"intent"}
  BY NoTaskIsOne DEF NoTask, Tasks, Mutations, Permissions
<1>2. /\ mutation = None /\ mutation' = place[1] /\ tasks' = WithoutIntents(tasks) \cup {u}
      /\ UNCHANGED <<disk, docs, active, workspace, conflict, quit>>
  BY DEF CreateFile, Start, Rejected
<1>. HIDE DEF u
<1>3. WellFormed(u)
  BY <1>1 DEF WellFormed, Mutations, Reads, Saves
<1>4. FitsTabs(u, docs) /\ u.fn \in Mutations /\ u \in Working({u}) /\ u.place[1] \in Roots /\ u.place[1] # None
  BY <1>1, Names DEF FitsTabs, Mutations, Working
<1>5. CallsAreSound(WithoutIntents(tasks), docs, None, Closing)
  BY <1>2, Counts, IntentsKeep
<1>6. CallsAreSound(tasks', docs, mutation', Closing)
  BY <1>1, <1>2, <1>3, <1>4, <1>5, WorkBegins
<1>7. budget' \in Budgets
  BY Counts, Spending DEF CreateFile, Start
<1>. QED BY <1>1, <1>2, <1>4, <1>6, <1>7, Counts, TabsStay

\* createWorkspaceItem has its answer, or refreshMutatedTree is over.
LEMMA CreatedSound ==
  ASSUME SessionInvariant, Running, NEW t \in tasks, Created(t) \/ Release(t) PROVE SessionInvariant'
<1>1. t.fn \in Mutations \cup {"opened"} /\ t.at # "ask" /\ CallsAreSound(tasks \ {t}, docs, None, Closing)
  BY WorkIsOver DEF Created, Release, Mutations
<1>2. UNCHANGED <<disk, budget, docs, active, workspace, conflict, quit>>
  BY DEF Created, Release, Same
<1>3. CASE tasks' = tasks \ {t} /\ mutation' = None
  BY <1>1, <1>2, <1>3, Counts, TabsStay
<1>4. ASSUME t.fn = "create", UNCHANGED mutation, NEW fn \in {"create", "opened"}, NEW at \in {"native", "refresh"},
             NEW answer \in {None, t.answer},
             tasks' = (tasks \ {t}) \cup {[t EXCEPT !.fn = fn, !.at = at, !.answer = answer]}
      PROVE  SessionInvariant'
  <2>. DEFINE u == [t EXCEPT !.fn = fn, !.at = at, !.answer = answer]
  <2>1. /\ u \in Tasks /\ u.fn = fn /\ u.at = at /\ u.id = t.id /\ u.place = t.place /\ u.to = t.to
        /\ u.then = t.then /\ u.holds = t.holds
    <3>1. t \in Tasks
      BY Counts
    <3>2. [t EXCEPT !.fn = fn] \in Tasks
      BY <3>1 DEF Tasks, Reads, Mutations
    <3>3. answer \in Answers
      BY <3>1 DEF Tasks, Answers
    <3>4. u \in Tasks
      BY <3>2, <3>3 DEF Tasks
    <3>. QED BY <3>1, <3>4 DEF Tasks
  <2>. HIDE DEF u
  <2>2. CallsAreSound((tasks \ {t}) \cup {u}, docs, mutation, Closing)
    <3>1. u.at # "ask" /\ (u.fn = t.fn \/ (t.fn = "create" /\ u.fn = "opened"))
      BY <1>4, <2>1
    <3>2. u \in Tasks /\ u.id = t.id /\ u.place = t.place /\ u.to = t.to /\ u.then = t.then /\ u.holds = t.holds
      BY <2>1
    <3>. QED BY <1>1, <3>1, <3>2, WorkGoesOn, Zenon
  <2>. QED BY <1>2, <1>4, <2>2, Counts, TabsStay DEF u
<1>5. CASE /\ t.fn = "create" /\ UNCHANGED mutation
           /\ \/ tasks' = (tasks \ {t}) \cup {[t EXCEPT !.fn = "opened", !.at = "native", !.answer = None]}
              \/ tasks' = (tasks \ {t}) \cup {[t EXCEPT !.at = "refresh"]}
  <2>1. [t EXCEPT !.at = "refresh"] = [t EXCEPT !.fn = "create", !.at = "refresh", !.answer = t.answer]
    BY <1>5, Counts DEF Tasks
  <2>. QED BY <1>4, <1>5, <2>1
<1>. QED BY <1>3, <1>5 DEF Created, Release

\* openCreatedDocument
LEMMA OpenedCreatedSound ==
  ASSUME SessionInvariant, Running, NEW t \in tasks, OpenedCreated(t) PROVE SessionInvariant'
<1>. DEFINE u == [t EXCEPT !.at = "refresh"]
            T == (tasks \ {t}) \cup {u}
<1>1. /\ t.fn = "opened" /\ t.at = "answered" /\ t.place \in Places
      /\ UNCHANGED <<disk, budget, workspace, mutation, conflict, quit>>
  BY Counts DEF OpenedCreated, Same, WellFormed, Reads
<1>2. /\ u \in Tasks /\ u.fn = t.fn /\ u.at = "refresh" /\ u.id = t.id /\ u.place = t.place /\ u.to = t.to
      /\ u.then = t.then /\ u.holds = t.holds
  BY Counts DEF Tasks
<1>3. CallsAreSound(T, docs, mutation, Closing)
  <2>. HIDE DEF u
  <2>. QED BY <1>1, <1>2, WorkGoesOn
<1>4. CASE tasks' = T /\ UNCHANGED <<docs, active>>
  BY <1>1, <1>3, <1>4, Counts, TabsStay
<1>5. ASSUME NEW id \in Identities(t.place, workspace, Open), t.answer \in Contents,
             Commit([docs EXCEPT ![id] = Loaded(t.place, t.answer)], T), active' = id
      PROVE  SessionInvariant'
  <2>. DEFINE now == [docs EXCEPT ![id] = Loaded(t.place, t.answer)]
  <2>1. id \in Ids \ (Untitled \cup Open)
    BY <1>1, <1>5, IdentitiesAreFree
  <2>2. /\ Follows(now) /\ KeepsEdits(now) /\ id \in Shown(now)
        /\ \A other \in Untitled : docs[other] = None => now[other] = None
    BY <1>1, <1>5, <2>1, OpeningFollows
  <2>. HIDE DEF now, T, u
  <2>3. docs' = now /\ TabsAreSound(docs') /\ CallsAreSound(tasks', docs', mutation, Closing)
    BY <1>3, <1>5, <2>2, CommitIsSound DEF now
  <2>. QED BY <1>1, <1>5, <2>2, <2>3, Counts, StepIsSound
<1>. QED BY <1>4, <1>5 DEF OpenedCreated

\* What activateTab shows.
LEMMA ShowIsSound ==
  ASSUME SessionInvariant, NEW now, TabsAreSound(now), NEW id \in Shown(now) \cup {None}, Show(id, now)
  PROVE  active' = id /\ workspace' \in Roots
<1>1. id # None => now[id] \in Documents
  BY DEF TabsAreSound, Tabs, Shown
<1>. QED BY <1>1, Counts, Names DEF Show, Documents

\* Tabs close.
LEMMA ClosingFollows ==
  ASSUME NEW now, Follows(now), NEW ids
  PROVE  LET left == [id \in Ids |-> IF id \in ids THEN None ELSE now[id]] IN
         /\ Follows(left) /\ Shown(left) = Shown(now) \ ids /\ (KeepsEdits(now) => KeepsEdits(left))
         /\ \A id \in Ids : now[id] = None => left[id] = None
<1>. DEFINE left == [id \in Ids |-> IF id \in ids THEN None ELSE now[id]]
<1>1. left \in Tabs /\ \A id \in Ids : left[id] = IF id \in ids THEN None ELSE now[id]
  BY DEF Follows, TabsAreSound, Tabs
<1>. HIDE DEF left
<1>2. Shown(left) = Shown(now) \ ids
  BY <1>1 DEF Shown
<1>3. \A id \in Shown(left) : left[id] = now[id]
  BY <1>1 DEF Shown
<1>4. TabsAreSound(left)
  BY <1>1, <1>2, <1>3 DEF Follows, TabsAreSound
<1>5. Follows(left)
  BY <1>1, <1>4 DEF Follows, Open
<1>6. KeepsEdits(now) => KeepsEdits(left)
  BY <1>2, <1>3 DEF KeepsEdits
<1>. QED BY <1>1, <1>2, <1>5, <1>6 DEF left

\* applyPathMutation: the tabs of the file keep their identity and follow it.
LEMMA RenamedSound ==
  ASSUME SessionInvariant, Running, NEW t \in tasks, Renamed(t) PROVE SessionInvariant'
<1>1. /\ t.fn = "rename" /\ t.at = "answered" /\ t.place \in Places /\ t.to \in Places
      /\ UNCHANGED <<disk, budget, active, workspace, quit>>
  BY Counts DEF Renamed, Same, WellFormed, Mutations
<1>2. CASE tasks' = tasks \ {t} /\ mutation' = None /\ UNCHANGED <<docs, conflict>>
  <2>1. CallsAreSound(tasks \ {t}, docs, None, Closing)
    BY <1>1, WorkIsOver DEF Mutations
  <2>. QED BY <1>1, <1>2, <2>1, Counts, TabsStay
<1>3. CASE t.answer = "ok"
  <2>. DEFINE u == [t EXCEPT !.at = "refresh"]
              T == (tasks \ {t}) \cup {u}
              now == [id \in Ids |-> IF id \in TabsAt(t.place) THEN [docs[id] EXCEPT !.place = t.to] ELSE docs[id]]
  <2>1. Commit(now, T) /\ UNCHANGED mutation
    BY <1>3 DEF Renamed
  <2>2. conflict' \in Conflicts
    <3>1. conflict' = IF conflict # None /\ conflict.place = t.place THEN [conflict EXCEPT !.place = t.to] ELSE conflict
      BY <1>3 DEF Renamed
    <3>. QED BY <1>1, <3>1, Counts DEF Conflicts
  <2>3. CallsAreSound(T, docs, mutation, Closing)
    <3>1. /\ u \in Tasks /\ u.fn = t.fn /\ u.at = "refresh" /\ u.id = t.id /\ u.place = t.place /\ u.to = t.to
          /\ u.then = t.then /\ u.holds = t.holds
      BY Counts DEF Tasks
    <3>. HIDE DEF u
    <3>2. t.fn \in Mutations \cup {"opened"} /\ t.at # "ask" /\ u.at # "ask"
      BY <1>1, <3>1 DEF Mutations
    <3>. QED BY <3>1, <3>2, WorkGoesOn
  <2>4. ASSUME NEW id \in Open
        PROVE  /\ now[id] \in Documents /\ now[id].text = docs[id].text /\ now[id].base = docs[id].base
               /\ now[id].dirty = docs[id].dirty /\ now[id].place \in {docs[id].place, t.to}
               /\ now[id].place # docs[id].place => docs[id].place # Nowhere
    <3>1. docs[id] \in Documents /\ id \in Ids
      BY Counts DEF Open
    <3>. QED BY <1>1, <3>1, Names DEF Documents, TabsAt
  <2>5. \A id \in Ids \ Open : now[id] = None
    BY DEF Open, TabsAt
  <2>6. now \in Tabs /\ Shown(now) = Open
    <3>1. \A id \in Ids : now[id] \in Documents \cup {None}
      BY <2>4, <2>5
    <3>2. now \in Tabs
      BY <3>1 DEF Tabs
    <3>. HIDE DEF now
    <3>. QED BY <2>4, <2>5, <3>2, Names DEF Shown, Open
  <2>. HIDE DEF now, T
  <2>7. TabsAreSound(now)
    <3>1. ASSUME NEW id \in Open
          PROVE  /\ ~now[id].dirty => now[id].text = IF now[id].place = Nowhere THEN Empty ELSE now[id].base
                 /\ now[id].place = Nowhere => id \in Untitled
      <4>1. now[id].place = Nowhere => docs[id].place = Nowhere
        BY <1>1, <2>4, Names
      <4>2. docs[id].place = Nowhere => now[id].place = Nowhere
        BY <2>4
      <4>3. /\ ~docs[id].dirty => docs[id].text = IF docs[id].place = Nowhere THEN Empty ELSE docs[id].base
            /\ docs[id].place = Nowhere => id \in Untitled
        BY Counts DEF TabsAreSound
      <4>. QED BY <2>4, <4>1, <4>2, <4>3
    <3>. QED BY <2>6, <3>1 DEF TabsAreSound
  <2>8. Follows(now) /\ KeepsEdits(now)
    <3>1. Follows(now)
      BY <2>4, <2>7 DEF Follows
    <3>2. KeepsEdits(now)
      BY <2>4, <2>6 DEF KeepsEdits, Open
    <3>. QED BY <3>1, <3>2
  <2>9. \A id \in Untitled : docs[id] = None => now[id] = None
    BY <2>5, Names DEF Open
  <2>10. docs' = now /\ TabsAreSound(docs') /\ CallsAreSound(tasks', docs', mutation, Closing)
    BY <2>1, <2>3, <2>8, <2>9, CommitIsSound
  <2>. QED BY <1>1, <2>1, <2>2, <2>6, <2>8, <2>10, Counts, StepIsSound
<1>. QED BY <1>2, <1>3 DEF Renamed

\* applyDeletedEntry: clean tabs of the file close.
LEMMA DeletedSound ==
  ASSUME SessionInvariant, Running, NEW t \in tasks, Deleted(t) PROVE SessionInvariant'
<1>1. /\ t.fn = "delete" /\ t.at = "answered" /\ t.place \in Places
      /\ UNCHANGED <<disk, budget, quit>>
  BY Counts DEF Deleted, Same, WellFormed, Mutations
<1>2. CASE tasks' = tasks \ {t} /\ mutation' = None /\ UNCHANGED <<docs, conflict, active, workspace>>
  <2>1. CallsAreSound(tasks \ {t}, docs, None, Closing)
    BY <1>1, WorkIsOver DEF Mutations
  <2>. QED BY <1>1, <1>2, <2>1, Counts, TabsStay
<1>3. CASE t.answer = "ok"
  <2>. DEFINE retained == TabsAt(t.place) \cap Dirty
              closed == TabsAt(t.place) \ Dirty
              now == [id \in Ids |-> IF id \in closed THEN None ELSE docs[id]]
              others == Open \ closed
              u == [t EXCEPT !.at = "refresh"]
              T == (tasks \ {t}) \cup {u}
              S == IF active \in closed THEN WithoutIntents(T) ELSE T
  <2>1. /\ Commit(now, S) /\ UNCHANGED mutation
        /\ IF retained # {}
             THEN \E id \in retained : conflict' = Conflict(id, "deleted")
             ELSE conflict' = IF conflict # None /\ conflict.id \in closed THEN None ELSE conflict
        /\ IF active \in closed
             THEN \E next \in (IF others = {} THEN {None} ELSE others) : Show(next, now)
             ELSE UNCHANGED <<active, workspace>>
    BY <1>3 DEF Deleted
  <2>2. CallsAreSound(S, docs, mutation, Closing)
    <3>1. /\ u \in Tasks /\ u.fn = t.fn /\ u.at = "refresh" /\ u.id = t.id /\ u.place = t.place /\ u.to = t.to
          /\ u.then = t.then /\ u.holds = t.holds
      BY Counts DEF Tasks
    <3>. HIDE DEF u
    <3>2. CallsAreSound(T, docs, mutation, Closing)
      <4>1. t.fn \in Mutations \cup {"opened"} /\ t.at # "ask" /\ u.at # "ask"
        BY <1>1, <3>1 DEF Mutations
      <4>. QED BY <3>1, <4>1, WorkGoesOn
    <3>. HIDE DEF T
    <3>. QED BY <3>2, IntentsKeep
  <2>3. conflict' \in Conflicts
    <3>1. ASSUME NEW id \in retained PROVE Conflict(id, "deleted") \in Conflicts
      BY <1>1, <3>1 DEF Conflict, Conflicts, TabsAt, Open
    <3>2. None \in Conflicts /\ conflict \in Conflicts
      BY Counts DEF Conflicts
    <3>. QED BY <2>1, <3>1, <3>2
  <2>. HIDE DEF S, retained
  <2>4. Follows(now) /\ KeepsEdits(now) /\ Shown(now) = others /\ \A id \in Ids : docs[id] = None => now[id] = None
    <3>. HIDE DEF closed
    <3>. QED BY Counts, ClosingFollows DEF others
  <2>. HIDE DEF now
  <2>5. docs' = now /\ TabsAreSound(docs') /\ CallsAreSound(tasks', docs', mutation, Closing)
    BY <2>1, <2>2, <2>4, Names, CommitIsSound
  <2>6. active' \in Shown(now) \cup {None} /\ workspace' \in Roots
    <3>1. CASE active \in closed
      <4>1. PICK next \in (IF others = {} THEN {None} ELSE others) : Show(next, now)
        BY <2>1, <3>1
      <4>. QED BY <2>4, <2>5, <4>1, ShowIsSound
    <3>2. CASE active \notin closed
      <4>. HIDE DEF closed
      <4>. QED BY <2>1, <2>4, <3>2, Counts
    <3>. QED BY <3>1, <3>2
  <2>. HIDE DEF closed
  <2>. QED BY <1>1, <2>1, <2>3, <2>4, <2>5, <2>6, Counts, StepIsSound
<1>. QED BY <1>2, <1>3 DEF Deleted

-----------------------------------------------------------------------------
(* Saves and closes. *)

\* A step while the window does not close.
LEMMA CalmStep ==
  ASSUME SessionInvariant, quit' \in Quits, quit'.stage \notin {"closing", "gone"},
         disk' \in [Places -> Versions], active' \in Shown(docs') \cup {None}, workspace' \in Roots,
         mutation' \in Roots \cup {None}, conflict' \in Conflicts, budget' \in Budgets,
         TabsAreSound(docs'), NEW closing, CallsAreSound(tasks', docs', mutation', closing)
  PROVE  SessionInvariant'
<1>1. ViewIsSound'
  BY DEF SessionInvariant, ViewIsSound, Conflicts, Budgets
<1>2. QuitKeepsEdits' /\ ~Closing'
  BY DEF QuitKeepsEdits, Closing
<1>3. CallsAreSound(tasks', docs', mutation', Closing')
  BY <1>2 DEF CallsAreSound, CallsAreApart
<1>. QED BY <1>1, <1>2, <1>3 DEF SessionInvariant

\* While a save is in flight the window does not close, and no rename or delete is at work.
LEMMA SavesAreCalm ==
  ASSUME SessionInvariant, Running, NEW t \in tasks, t.fn \in Saves
  PROVE  /\ quit.stage \notin {"closing", "gone"} /\ ~Closing /\ \A u \in Working(tasks) : u.fn \notin {"rename", "delete"}
         /\ \A u \in SavesOf(tasks \ {t}) : u.id # t.id
BY Counts DEF CallsAreApart, SavesOf, Closing, Running

\* What saveTab admits.
LEMMA MaySaveMeans ==
  ASSUME SessionInvariant, Running, NEW id, MaySave(id)
  PROVE  /\ id \in Open /\ ~Closing /\ mutation = None /\ Working(tasks) = {} /\ \A u \in SavesOf(tasks) : u.id # id
         /\ quit.stage \notin {"closing", "gone"}
BY Counts DEF MaySave, Rejected, CallsAreApart, SavesInProgress, SavesOf, Closing, Running

\* performSaveTab captures the tab.
LEMMA SaveTaskIs ==
  ASSUME SessionInvariant, NEW id \in Open, NEW saveAs \in BOOLEAN, NEW then \in {"end", "close", "quit"},
         then = "close" => ~saveAs
  PROVE  LET u == SaveTask(id, saveAs, then) IN
         WellFormed(u) /\ FitsTabs(u, docs) /\ u.fn \in Saves /\ u.id = id
<1>. DEFINE u == SaveTask(id, saveAs, then)
            asks == saveAs \/ docs[id].place = Nowhere
<1>1. id \in Ids /\ docs[id] \in Documents /\ docs[id] # None /\ (docs[id].place = Nowhere => id \in Untitled)
  BY Counts DEF TabsAreSound, Open
<1>2. /\ u \in Tasks /\ u.fn = (IF asks THEN "saveAs" ELSE "save") /\ u.at = (IF asks THEN "ask" ELSE "native")
      /\ u.id = id /\ u.place = docs[id].place /\ u.text = docs[id].text /\ u.holds = {"document"} /\ u.then = then
  <2>1. /\ docs[id].place \in Places \cup {Nowhere} /\ docs[id].text \in Versions /\ docs[id].base \in Versions
        /\ docs[id].text \in Contents
    BY <1>1 DEF Documents, Versions
  <2>2. CASE asks
    <3>1. u = [NoTask EXCEPT !.fn = "saveAs", !.at = "ask", !.id = id, !.place = docs[id].place, !.text = docs[id].text,
                             !.base = docs[id].base, !.holds = {"document"}, !.then = then]
      BY <2>2 DEF SaveTask
    <3>. HIDE DEF u
    <3>. QED BY <1>1, <2>1, <2>2, <3>1, NoTaskIsOne DEF NoTask, Tasks, Permissions, Saves
  <2>3. CASE ~asks
    <3>1. u = [NoTask EXCEPT !.fn = "save", !.at = "native", !.id = id, !.place = docs[id].place, !.text = docs[id].text,
                             !.base = docs[id].base, !.holds = {"document"}, !.then = then]
      BY <2>3 DEF SaveTask
    <3>. HIDE DEF u
    <3>. QED BY <1>1, <2>1, <2>3, <3>1, NoTaskIsOne DEF NoTask, Tasks, Permissions, Saves
  <2>. QED BY <2>2, <2>3
<1>3. docs[id].text \in Contents /\ docs[id].place \in Places \cup {Nowhere}
  BY <1>1 DEF Documents
<1>. HIDE DEF u
<1>4. WellFormed(u)
  BY <1>1, <1>2, <1>3 DEF WellFormed, Reads, Mutations, Saves
<1>5. FitsTabs(u, docs) /\ u.fn \in Saves
  BY <1>1, <1>2 DEF FitsTabs, Subject, Saves
<1>. QED BY <1>2, <1>4, <1>5 DEF u

\* saveTab
LEMMA SaveSound ==
  ASSUME SessionInvariant, Running, NEW id \in Open, NEW saveAs \in BOOLEAN, Save(id, saveAs)
  PROVE  SessionInvariant'
<1>. DEFINE u == SaveTask(id, saveAs, "end")
<1>1. tasks' = tasks \cup {u} /\ UNCHANGED <<disk, docs, active, workspace, mutation, conflict, quit>> /\ budget' \in Budgets
  BY Counts, Spending DEF Save, Start, SameView
<1>2. WellFormed(u) /\ FitsTabs(u, docs) /\ u.fn \in Saves /\ u.id = id
  BY SaveTaskIs
<1>. HIDE DEF u
<1>3. CallsAreSound(tasks', docs, mutation, Closing)
  <2>1. ~Closing /\ Working(tasks) = {} /\ \A t \in SavesOf(tasks) : t.id # u.id
    BY <1>2, MaySaveMeans DEF Save
  <2>. QED BY <1>1, <1>2, <2>1, Counts, SaveBegins
<1>. QED BY <1>1, <1>3, Counts, TabsStay

\* chooseMarkdownSavePath
LEMMA ChooseDestinationSound ==
  ASSUME SessionInvariant, Running, NEW t \in tasks, NEW place \in Places, ChooseDestination(t, place)
  PROVE  SessionInvariant'
<1>. DEFINE u == [t EXCEPT !.at = "native", !.place = place]
<1>1. /\ t.fn = "saveAs" /\ t.at = "ask" /\ tasks' = (tasks \ {t}) \cup {u} /\ WellFormed(t) /\ FitsTabs(t, docs)
      /\ UNCHANGED <<disk, budget, docs, active, workspace, mutation, conflict, quit>>
  BY Counts DEF ChooseDestination, Same, SameView
<1>2. /\ u \in Tasks /\ u.fn = t.fn /\ u.at = "native" /\ u.place = place /\ u.id = t.id /\ u.text = t.text
      /\ u.holds = t.holds /\ u.then = t.then /\ u.next = t.next
  BY Counts DEF Tasks
<1>. HIDE DEF u
<1>3. WellFormed(u)
  BY <1>1, <1>2 DEF WellFormed, Mutations, Saves, Reads
<1>4. FitsTabs(u, docs)
  BY <1>1, <1>2, <1>3 DEF FitsTabs, Subject, WellFormed
<1>5. t \notin Working({t}) /\ u \notin Working({u}) /\ (u.fn \in Saves <=> t.fn \in Saves) /\ u.fn \notin {"rename", "delete"}
  BY <1>1, <1>2 DEF Working, Saves, Mutations
<1>6. CallsAreSound(tasks', docs, mutation, Closing)
  BY <1>1, <1>2, <1>3, <1>4, <1>5, Counts, CallGoesOn
<1>. QED BY <1>1, <1>6, Counts, TabsStay

\* closeTab removes tabs from the tabs its section made, and a neighbour is shown.
LEMMA RemoveSound ==
  ASSUME SessionInvariant, Running, ~Closing, NEW ids, NEW now, Follows(now), Open \subseteq Shown(now),
         \A id \in Untitled : docs[id] = None => now[id] = None,
         NEW T, CallsAreSound(T, docs, mutation, Closing), Remove(ids, now, T), Same
  PROVE  SessionInvariant'
<1>. DEFINE left == [id \in Ids |-> IF id \in ids THEN None ELSE now[id]]
            others == {id \in Ids : left[id] # None}
            S == IF active \in ids THEN WithoutIntents(T) ELSE T
<1>1. /\ Commit(left, S)
      /\ conflict' = IF conflict # None /\ conflict.id \in ids THEN None ELSE conflict
      /\ IF active \in ids
           THEN \E next \in (IF others = {} THEN {None} ELSE others) : Show(next, left)
           ELSE UNCHANGED <<active, workspace>>
      /\ UNCHANGED <<mutation, quit, disk, budget>>
  BY DEF Remove, Same
<1>2. CallsAreSound(S, docs, mutation, Closing)
  BY IntentsKeep
<1>3. /\ Follows(left) /\ Shown(left) = Shown(now) \ ids /\ Shown(left) = others
      /\ \A id \in Untitled : docs[id] = None => left[id] = None
  BY ClosingFollows, Names DEF Shown
<1>. HIDE DEF left, S
<1>4. docs' = left /\ TabsAreSound(docs') /\ CallsAreSound(tasks', docs', mutation, Closing)
  BY <1>1, <1>2, <1>3, CommitIsSound
<1>. HIDE DEF others
<1>5. active' \in Shown(left) \cup {None} /\ workspace' \in Roots
  <2>1. CASE active \in ids
    <3>1. PICK next \in (IF others = {} THEN {None} ELSE others) : Show(next, left)
      BY <1>1, <2>1
    <3>. QED BY <1>3, <1>4, <3>1, ShowIsSound
  <2>2. CASE active \notin ids
    BY <1>1, <1>3, <2>2, Counts
  <2>. QED BY <2>1, <2>2
<1>6. conflict' \in Conflicts /\ quit.stage \notin {"closing", "gone"}
  BY <1>1, Counts DEF Conflicts, Closing, Running
<1>. QED BY <1>1, <1>4, <1>5, <1>6, Counts, CalmStep

\* closeTab and its dialog.
LEMMA CloseTabSound ==
  ASSUME SessionInvariant, Running, NEW id \in Open, CloseTab(id) PROVE SessionInvariant'
<1>1. ~Closing /\ id \in Ids /\ docs[id] # None /\ CallsAreSound(WithoutIntents(tasks), docs, mutation, Closing)
  BY Counts, IntentsKeep DEF CloseTab, Rejected, Open
<1>2. CASE docs[id].dirty
  <2>. DEFINE u == [NoTask EXCEPT !.fn = "close", !.at = "ask", !.id = id, !.holds = {"document"}]
  <2>1. tasks' = WithoutIntents(tasks) \cup {u} /\ UNCHANGED <<disk, docs, active, workspace, mutation, conflict, quit>>
        /\ budget' \in Budgets
    BY <1>2, Counts, Spending DEF CloseTab, Start, SameView
  <2>2. /\ u \in Tasks /\ u.fn = "close" /\ u.at = "ask" /\ u.id = id /\ u.holds = {"document"} /\ u.then = "end"
    BY <1>1, NoTaskIsOne DEF NoTask, Tasks, Permissions
  <2>. HIDE DEF u
  <2>3. WellFormed(u) /\ FitsTabs(u, docs) /\ u.fn \notin Saves /\ u \notin Working({u})
    BY <1>1, <2>2 DEF WellFormed, FitsTabs, Subject, Reads, Mutations, Saves, Working
  <2>4. CallsAreSound(tasks', docs, mutation, Closing)
    BY <1>1, <2>1, <2>3, CallBegins
  <2>. QED BY <2>1, <2>4, Counts, TabsStay
<1>3. CASE ~docs[id].dirty
  <2>1. Remove({id}, docs, WithoutIntents(tasks)) /\ Same
    BY <1>3 DEF CloseTab
  <2>. QED BY <1>1, <2>1, Counts, RemoveSound
<1>. QED BY <1>2, <1>3

\* The dialog of closeTab answers.
LEMMA CloseChosenSound ==
  ASSUME SessionInvariant, Running, NEW t \in tasks, NEW choice \in {"save", "discard", "cancel"}, CloseChosen(t, choice)
  PROVE  SessionInvariant'
<1>1. /\ t.fn = "close" /\ t.at = "ask" /\ CallsAreSound(tasks \ {t}, docs, mutation, Closing)
      /\ WellFormed(t) /\ FitsTabs(t, docs) /\ Subject(t) = t.id /\ t.id \in Ids
  BY Counts, QuietEnd DEF CloseChosen, Subject, WellFormed
<1>2. CASE ~Rejected /\ Remove({t.id}, docs, tasks \ {t}) /\ Same
  <2>1. ~Closing
    BY <1>2 DEF Rejected
  <2>. QED BY <1>1, <1>2, <2>1, Counts, RemoveSound
<1>3. CASE /\ "document" \in t.holds /\ MaySave(t.id)
           /\ tasks' = (tasks \ {t}) \cup {[t EXCEPT !.at = "native"], SaveTask(t.id, FALSE, "close")}
           /\ Same /\ UNCHANGED docs /\ SameView
  <2>. DEFINE c == [t EXCEPT !.at = "native"]
              u == SaveTask(t.id, FALSE, "close")
              T == (tasks \ {t}) \cup {c}
  <2>1. tasks' = T \cup {u} /\ UNCHANGED <<disk, docs, active, workspace, mutation, conflict, quit, budget>>
    BY <1>3 DEF Same, SameView
  <2>2. /\ c \in Tasks /\ c.fn = t.fn /\ c.at = "native" /\ c.place = t.place /\ c.id = t.id /\ c.text = t.text
        /\ c.holds = t.holds /\ c.then = t.then /\ c.next = t.next
    BY Counts DEF Tasks
  <2>3. ~Closing /\ mutation = None /\ Working(tasks) = {} /\ t.id \in Open /\ \A x \in SavesOf(tasks) : x.id # t.id
    BY <1>3, MaySaveMeans
  <2>4. WellFormed(u) /\ FitsTabs(u, docs) /\ u.fn \in Saves /\ u.id = t.id
    BY <2>3, SaveTaskIs
  <2>. HIDE DEF u, c
  <2>5. WellFormed(c)
    BY <1>1, <2>2 DEF WellFormed, Reads, Mutations, Saves
  <2>6. FitsTabs(c, docs)
    BY <1>1, <2>2 DEF FitsTabs, Subject
  <2>7. t \notin Working({t}) /\ c \notin Working({c}) /\ c.fn \notin Saves /\ t.fn \notin Saves /\ c.fn \notin {"rename", "delete"}
    BY <1>1, <2>2 DEF Working, Saves, Mutations
  <2>8. CallsAreSound(T, docs, mutation, Closing)
    BY <2>2, <2>5, <2>6, <2>7, Counts, CallGoesOn
  <2>9. SavesOf(T) \subseteq SavesOf(tasks) /\ Working(T) \subseteq Working(tasks)
    BY <2>7 DEF SavesOf, Working
  <2>. HIDE DEF T
  <2>10. CallsAreSound(tasks', docs, mutation, Closing)
    BY <2>1, <2>3, <2>4, <2>8, <2>9, SaveBegins
  <2>. QED BY <2>1, <2>10, Counts, TabsStay
<1>4. CASE tasks' = tasks \ {t} /\ Same /\ UNCHANGED docs /\ SameView
  BY <1>1, <1>4, Counts, TabsStay DEF Same, SameView
<1>. QED BY <1>2, <1>3, <1>4 DEF CloseChosen

\* A save returns to a close, to a quit or to nobody.
LEMMA ReturnSound ==
  ASSUME SessionInvariant, Running, NEW t \in tasks, t.fn \in Saves, NEW now, Follows(now), Open \subseteq Shown(now),
         \A id \in Untitled : docs[id] = None => now[id] = None,
         NEW told \in Conflicts, NEW saved \in Ids \cup {None},
         Return(t, now, tasks \ {t}, active, workspace, told, saved), Same
  PROVE  SessionInvariant'
<1>. DEFINE T == tasks \ {t}
<1>1. CallsAreSound(T, docs, mutation, Closing)
  BY QuietEnd DEF Saves, Mutations
<1>2. CallsAreSound(T \ CloseTask(t.id), docs, mutation, Closing)
  <2>1. Working(T) \subseteq T \ CloseTask(t.id)
    BY DEF Working, CloseTask, Mutations
  <2>. QED BY <1>1, <2>1, FewerCalls
<1>3. quit.stage \notin {"closing", "gone"} /\ ~Closing
  BY SavesAreCalm
<1>4. t.text \in Contents /\ t.id \in Ids
  BY Counts DEF WellFormed
<1>5. CASE Remove({t.id, saved}, now, T \ CloseTask(t.id))
  <2>. HIDE DEF T
  <2>. QED BY <1>2, <1>3, <1>5, RemoveSound
<1>6. ASSUME NEW S \in {T, T \ CloseTask(t.id)}, Commit(now, S), quit' \in Quits, quit'.stage \notin {"closing", "gone"},
             active' = active, workspace' = workspace, conflict' = told, UNCHANGED mutation
      PROVE  SessionInvariant'
  <2>1. CallsAreSound(S, docs, mutation, Closing)
    BY <1>1, <1>2, <1>6
  <2>2. docs' = now /\ TabsAreSound(docs') /\ CallsAreSound(tasks', docs', mutation, Closing)
    BY <1>6, <2>1, CommitIsSound
  <2>. QED BY <1>6, <2>2, Counts, CalmStep DEF Same
<1>7. CASE /\ saved # None /\ Commit(now, T)
           /\ quit' = [quit EXCEPT !.saved = @ \cup {<<saved, t.text>>}, !.todo = @ \ {t.id}]
           /\ active' = active /\ workspace' = workspace /\ conflict' = told /\ UNCHANGED mutation
  <2>1. quit' \in Quits /\ quit'.stage = quit.stage
    <3>1. <<saved, t.text>> \in Ids \X Contents /\ quit \in Quits
      BY <1>4, <1>7, Counts
    <3>2. ASSUME NEW p \in Ids \X Contents, quit \in Quits
          PROVE  LET q == [quit EXCEPT !.saved = @ \cup {p}, !.todo = @ \ {t.id}] IN q \in Quits /\ q.stage = quit.stage
      BY <3>2 DEF Quits
    <3>. QED BY <1>7, <3>1, <3>2
  <2>. QED BY <1>3, <1>6, <1>7, <2>1
<1>8. CASE /\ Commit(now, IF t.then = "close" THEN T \ CloseTask(t.id) ELSE T)
           /\ quit' = IF t.then = "quit" THEN NoQuit ELSE quit
           /\ active' = active /\ workspace' = workspace /\ conflict' = told /\ UNCHANGED mutation
  <2>1. quit' \in Quits /\ quit'.stage \notin {"closing", "gone"}
    BY <1>3, <1>8, Counts DEF Quits, NoQuit
  <2>. QED BY <1>6, <1>8, <2>1
<1>. QED BY <1>5, <1>7, <1>8 DEF Return

\* What saveTab returns is a tab or null.
LEMMA AnswerIs == ASSUME NEW t, NEW now, NEW id \in Ids PROVE AnswerOf(t, now, id) \in Ids \cup {None}
BY DEF AnswerOf

\* saveTab ends without a write, or its folder was listed.
LEMMA SaveEndsSound ==
  ASSUME SessionInvariant, Running, NEW t \in tasks, NoDestination(t) \/ SavedAsListed(t)
  PROVE  SessionInvariant'
<1>1. t.fn \in Saves /\ Follows(docs) /\ Open \subseteq Shown(docs) /\ conflict \in Conflicts
  BY Counts DEF NoDestination, SavedAsListed, Saves
<1>2. CASE NoDestination(t)
  BY <1>1, <1>2, ReturnSound DEF NoDestination
<1>3. CASE SavedAsListed(t)
  <2>1. t.next \in Ids
    BY <1>3, Counts DEF SavedAsListed, WellFormed
  <2>2. (IF "document" \in t.holds THEN AnswerOf(t, docs, t.next) ELSE None) \in Ids \cup {None}
    BY <2>1, AnswerIs
  <2>. QED BY <1>1, <1>3, <2>2, ReturnSound DEF SavedAsListed
<1>. QED BY <1>2, <1>3

\* The tab of an acknowledged save.
LEMMA AcknowledgedFollows ==
  ASSUME SessionInvariant, NEW t \in tasks, t.fn = "save", "document" \in t.holds
  PROVE  LET now == [docs EXCEPT ![t.id].base = t.text, ![t.id].dirty = docs[t.id].text # t.text] IN
         /\ Follows(now) /\ Open \subseteq Shown(now)
         /\ \A id \in Untitled : docs[id] = None => now[id] = None
         /\ now[t.id].text = docs[t.id].text /\ \A id \in Ids \ {t.id} : now[id] = docs[id]
<1>. DEFINE doc == [docs[t.id] EXCEPT !.base = t.text, !.dirty = docs[t.id].text # t.text]
            now == [docs EXCEPT ![t.id] = doc]
<1>1. /\ t.id \in Ids /\ docs[t.id] # None /\ docs[t.id] \in Documents /\ docs[t.id].place = t.place
      /\ t.place \in Places /\ t.text \in Contents
  BY Counts DEF WellFormed, FitsTabs, Subject, Saves, Open
<1>2. /\ doc \in Documents /\ doc.place = t.place /\ doc.text = docs[t.id].text /\ doc.base = t.text
      /\ doc.dirty = (docs[t.id].text # t.text)
  <2>1. ASSUME NEW d \in BOOLEAN
        PROVE  LET x == [docs[t.id] EXCEPT !.base = t.text, !.dirty = d] IN
               /\ x \in Documents /\ x.place = docs[t.id].place /\ x.text = docs[t.id].text /\ x.base = t.text
               /\ x.dirty = d
    BY <1>1 DEF Documents, Versions
  <2>2. (docs[t.id].text # t.text) \in BOOLEAN
    OBVIOUS
  <2>3. doc.place = docs[t.id].place
    BY <2>1, <2>2, Zenon
  <2>. QED BY <1>1, <2>1, <2>2, <2>3, Zenon
<1>3. t.place # Nowhere /\ (~docs[t.id].dirty => docs[t.id].text = docs[t.id].base)
  <2>1. t.place # Nowhere /\ t.id \in Shown(docs)
    BY <1>1, Names DEF Shown
  <2>. QED BY <1>1, <2>1, Counts DEF TabsAreSound
<1>4. now = [docs EXCEPT ![t.id].base = t.text, ![t.id].dirty = docs[t.id].text # t.text]
  OBVIOUS
<1>. HIDE DEF doc
<1>5. /\ now[t.id] = doc /\ \A other \in Ids \ {t.id} : now[other] = docs[other]
      /\ Follows(now) /\ Open \subseteq Shown(now)
  <2>1. ~doc.dirty => doc.text = IF doc.place = Nowhere THEN Empty ELSE doc.base
    BY <1>2, <1>3
  <2>2. doc.place = Nowhere => t.id \in Untitled
    BY <1>2, <1>3
  <2>3. docs[t.id] # None /\ doc.place = docs[t.id].place /\ doc.text = docs[t.id].text /\ doc.base = docs[t.id].base
          /\ ~docs[t.id].dirty => ~doc.dirty
    BY <1>2, <1>3
  <2>4. t.id \in Ids /\ doc \in Documents
    BY <1>1, <1>2
  <2>5. docs[t.id] # None /\ doc.place # Nowhere
    BY <1>1, <1>2, <1>3
  <2>. QED BY <2>1, <2>2, <2>3, <2>4, <2>5, OneTabChanges, ZenonT(40)
<1>. HIDE DEF now
<1>6. \A id \in Untitled : docs[id] = None => now[id] = None
  BY <1>1, <1>5, Names
<1>. QED BY <1>2, <1>4, <1>5, <1>6

\* save_markdown_file answers.
LEMMA SavedSound ==
  ASSUME SessionInvariant, Running, NEW t \in tasks, Saved(t) PROVE SessionInvariant'
<1>1. t.fn = "save" /\ t.fn \in Saves /\ Follows(docs) /\ Open \subseteq Shown(docs) /\ conflict \in Conflicts
  BY Counts DEF Saved, Saves
<1>2. /\ t.id \in Ids /\ t.place \in Places
      /\ [id |-> t.id, place |-> t.place, reason |-> "changed"] \in Conflicts
      /\ [id |-> t.id, place |-> t.place, reason |-> "deleted"] \in Conflicts
  BY <1>1, Counts DEF WellFormed, Conflicts
<1>3. Same
  BY DEF Saved
<1>. DEFINE now == [docs EXCEPT ![t.id].base = t.text, ![t.id].dirty = docs[t.id].text # t.text]
<1>4. CASE "document" \in t.holds /\ Return(t, now, tasks \ {t}, active, workspace, conflict, AnswerOf(t, now, t.id))
  <2>1. /\ Follows(now) /\ Open \subseteq Shown(now)
        /\ \A id \in Untitled : docs[id] = None => now[id] = None
    BY <1>1, <1>4, AcknowledgedFollows
  <2>2. AnswerOf(t, now, t.id) \in Ids \cup {None}
    BY <1>2, AnswerIs
  <2>. HIDE DEF now
  <2>. QED BY <1>1, <1>3, <1>4, <2>1, <2>2, ReturnSound
<1>5. ASSUME NEW told \in Conflicts, Return(t, docs, tasks \ {t}, active, workspace, told, None) PROVE SessionInvariant'
  BY <1>1, <1>3, <1>5, ReturnSound
<1>6. \/ "document" \in t.holds /\ Return(t, now, tasks \ {t}, active, workspace, conflict, AnswerOf(t, now, t.id))
      \/ Return(t, docs, tasks \ {t}, active, workspace, conflict, None)
      \/ Return(t, docs, tasks \ {t}, active, workspace,
                [id |-> t.id, place |-> t.place, reason |-> "changed"], None)
      \/ Return(t, docs, tasks \ {t}, active, workspace,
                [id |-> t.id, place |-> t.place, reason |-> "deleted"], None)
  BY DEF Saved
<1>. QED BY <1>1, <1>2, <1>4, <1>5, <1>6

\* Every call the tabs were reconciled for is one of those there were.
LEMMA ReconciledFrom ==
  ASSUME NEW T, NEW now, NEW reserved, NEW closing, CallsAreSound(T, docs, reserved, closing), NEW u \in Reconciled(T, now)
  PROVE  \E t \in T : u.fn = t.fn /\ u.id = t.id /\ u.at = t.at /\ u.then = t.then
<1>. DEFINE replaced == {id \in Ids : \/ docs[id] = None \/ now[id] = None
                                      \/ docs[id].place # now[id].place}
            touched == {id \in Ids \ replaced : \/ docs[id].text # now[id].text
                                                \/ docs[id].base # now[id].base}
            L == Losing(T, replaced, {"document", "read"})
<1>1. u \in Losing(L, touched, {"read"})
  BY DEF Reconciled
<1>2. CallsAreSound(L, docs, reserved, closing)
  BY LosingKeeps
<1>3. \A t \in T : WellFormed(t)
  BY DEF CallsAreSound
<1>. HIDE DEF touched, replaced
<1>4. \A t \in L : WellFormed(t)
  BY <1>2 DEF CallsAreSound
<1>5. ASSUME NEW l \in L PROVE \E t \in T : l.fn = t.fn /\ l.id = t.id /\ l.at = t.at /\ l.then = t.then
  <2>1. l \in Losing(T, replaced, {"document", "read"})
    BY <1>5
  <2>. HIDE DEF L
  <2>2. PICK t \in T : /\ l.holds \subseteq t.holds /\ Subject(l) = Subject(t) /\ l.fn = t.fn /\ l.id = t.id
                       /\ l.then = t.then /\ l.at = t.at
                       /\ \A p \in {"document", "read"} : p \in l.holds => Subject(l) \notin replaced
    BY <1>3, <2>1, LosingFrom, Zenon
  <2>. QED BY <2>2
<1>. HIDE DEF L
<1>6. PICK l \in L : /\ u.holds \subseteq l.holds /\ Subject(u) = Subject(l) /\ u.fn = l.fn /\ u.id = l.id
                     /\ u.then = l.then /\ u.at = l.at
                     /\ \A p \in {"read"} : p \in u.holds => Subject(u) \notin touched
  BY <1>1, <1>4, LosingFrom, Zenon
<1>. QED BY <1>5, <1>6

\* write_markdown_file answers: the tab takes the identity of its new file.
LEMMA SavedAsSound ==
  ASSUME SessionInvariant, Running, NEW t \in tasks, SavedAs(t) PROVE SessionInvariant'
<1>1. /\ t.fn = "saveAs" /\ t.at = "answered" /\ t.fn \in Saves /\ t.id \in Ids /\ t.place \in Places
      /\ t.text \in Contents /\ Subject(t) = t.id /\ (t.then = "close" => t.id \in Untitled) /\ Same
  BY Counts DEF SavedAs, Saves, WellFormed, Subject
<1>2. CASE Return(t, docs, tasks \ {t}, active, workspace, conflict, None)
  BY <1>1, <1>2, Counts, ReturnSound
<1>3. CASE "document" \in t.holds /\ t.answer = "ok"
  <2>. DEFINE moved == [place |-> t.place, text |-> docs[t.id].text, base |-> t.text, dirty |-> docs[t.id].text # t.text]
  <2>1. PICK next \in Identities(t.place, t.place[1], Open \ {t.id}) :
          LET now == [id \in Ids |-> IF id = next THEN moved ELSE IF id = t.id THEN None ELSE docs[id]] IN
          /\ docs' = now
          /\ tasks' = Reconciled(tasks \ {t}, now)
                        \cup {[t EXCEPT !.at = "refresh", !.next = next, !.holds = {"document"}]}
          /\ IF active = t.id THEN Show(next, now) ELSE UNCHANGED <<active, workspace>>
          /\ UNCHANGED <<mutation, conflict, quit>>
    BY <1>3 DEF SavedAs
  <2>. DEFINE now == [id \in Ids |-> IF id = next THEN moved ELSE IF id = t.id THEN None ELSE docs[id]]
              u == [t EXCEPT !.at = "refresh", !.next = next, !.holds = {"document"}]
              R == Reconciled(tasks \ {t}, now)
  <2>2. next \in Ids /\ next \notin Untitled /\ next \notin Open \ {t.id}
    BY <1>1, <2>1, IdentitiesAreFree
  <2>3. /\ docs[t.id] # None /\ docs[t.id] \in Documents /\ docs[t.id].text \in Contents /\ t.id \in Open
        /\ t.place # Nowhere
    BY <1>1, <1>3, Counts, Names DEF FitsTabs, Documents, Open
  <2>4. /\ moved \in Documents /\ moved.place = t.place /\ moved.text = docs[t.id].text /\ moved.base = t.text
        /\ moved.dirty = (docs[t.id].text # t.text)
    <3>1. ASSUME NEW d \in BOOLEAN
          PROVE  [place |-> t.place, text |-> docs[t.id].text, base |-> t.text, dirty |-> d] \in Documents
      BY <1>1, <2>3 DEF Documents, Versions
    <3>2. (docs[t.id].text # t.text) \in BOOLEAN
      OBVIOUS
    <3>3. moved \in Documents
      BY <3>1, <3>2, Zenon
    <3>. QED BY <3>3
  <2>5. /\ u \in Tasks /\ u.fn = t.fn /\ u.at = "refresh" /\ u.next = next /\ u.holds = {"document"} /\ u.id = t.id
        /\ u.place = t.place /\ u.text = t.text /\ u.then = t.then
    BY <2>2, Counts DEF Tasks, Permissions
  <2>6. /\ docs' = now /\ tasks' = R \cup {u} /\ UNCHANGED <<mutation, conflict, quit>>
        /\ IF active = t.id THEN Show(next, now) ELSE UNCHANGED <<active, workspace>>
    BY <2>1, Zenon
  <2>. HIDE DEF moved, u
  <2>7. /\ now[next] = moved /\ (next # t.id => now[t.id] = None)
        /\ \A id \in Ids \ {next, t.id} : now[id] = docs[id]
    BY <1>1, <2>2
  <2>8. now \in Tabs /\ moved # None
    BY <2>4, Counts, Names DEF Tabs
  <2>. HIDE DEF now, R
  <2>9. TabsAreSound(now)
    <3>1. ASSUME NEW id \in Shown(now)
          PROVE  /\ ~now[id].dirty => now[id].text = IF now[id].place = Nowhere THEN Empty ELSE now[id].base
                 /\ now[id].place = Nowhere => id \in Untitled
      <4>1. CASE id = next
        BY <2>3, <2>4, <2>7, <4>1
      <4>2. CASE id # next
        BY <2>7, <4>2, Counts DEF Shown, TabsAreSound
      <4>. QED BY <4>1, <4>2
    <3>. QED BY <2>8, <3>1 DEF TabsAreSound
  <2>10. Follows(now)
    <3>1. ~docs[t.id].dirty /\ docs[t.id].place # Nowhere => docs[t.id].text = docs[t.id].base
      BY <2>3, Counts DEF TabsAreSound
    <3>2. ASSUME NEW id \in Open, now[id] # None, now[id].place = docs[id].place, now[id].text = docs[id].text,
                 now[id].base = docs[id].base, ~docs[id].dirty
          PROVE  ~now[id].dirty
      <4>1. CASE id = next
        <5>1. id = t.id
          BY <2>2, <3>2, <4>1
        <5>2. /\ moved.base = docs[t.id].base /\ moved.place = docs[t.id].place /\ ~docs[t.id].dirty
              /\ now[id] = moved
          BY <2>7, <3>2, <4>1, <5>1
        <5>3. docs[t.id].text = t.text
          BY <2>3, <2>4, <3>1, <5>2
        <5>. QED BY <2>4, <5>2, <5>3
      <4>2. CASE id # next
        BY <2>7, <3>2, <4>2 DEF Open
      <4>. QED BY <4>1, <4>2
    <3>. QED BY <2>9, <3>2 DEF Follows
  <2>11. CallsAreSound(R, now, mutation, Closing) /\ \A x \in R : \E y \in tasks \ {t} : x.fn = y.fn /\ x.id = y.id /\ x.at = y.at
    <3>1. CallsAreSound(tasks \ {t}, docs, mutation, Closing)
      BY <1>1, QuietEnd DEF Mutations
    <3>2. NotTaken(tasks \ {t}, now)
      <4>1. ASSUME NEW y \in tasks \ {t}, y.fn = "saveAs", y.then = "close", y.at = "refresh" PROVE now[y.id] = None
        <5>1. y.id \in Untitled /\ y.id \in Ids /\ docs[y.id] = None
          BY <4>1, Counts, Names DEF WellFormed, FitsTabs
        <5>. QED BY <2>2, <2>3, <2>7, <5>1
      <4>. QED BY <4>1 DEF NotTaken
    <3>3. CallsAreSound(R, now, mutation, Closing)
      BY <2>10, <3>1, <3>2, ReconciledKeeps DEF R
    <3>4. \A x \in R : \E y \in tasks \ {t} : x.fn = y.fn /\ x.id = y.id /\ x.at = y.at
      BY <3>1, ReconciledFrom DEF R
    <3>. QED BY <3>3, <3>4
  <2>12. WellFormed(u)
    BY <1>1, <2>2, <2>5 DEF WellFormed, Reads, Mutations, Saves
  <2>13. FitsTabs(u, now)
    <3>1. Subject(u) = next
      BY <1>1, <2>5 DEF Subject
    <3>. QED BY <1>1, <2>2, <2>5, <2>7, <2>8, <3>1 DEF FitsTabs
  <2>14. (\A x \in SavesOf(R) : x.id # u.id) /\ (\A x \in Working(R) : x.fn \notin {"rename", "delete"}) /\ ~Closing
         /\ quit.stage \notin {"closing", "gone"}
    <3>1. /\ quit.stage \notin {"closing", "gone"} /\ ~Closing /\ \A y \in Working(tasks) : y.fn \notin {"rename", "delete"}
          /\ \A y \in SavesOf(tasks \ {t}) : y.id # t.id
      BY <1>1, SavesAreCalm
    <3>2. ASSUME NEW x \in SavesOf(R) PROVE x.id # u.id
      BY <2>5, <2>11, <3>1 DEF SavesOf
    <3>3. ASSUME NEW x \in Working(R) PROVE x.fn \notin {"rename", "delete"}
      BY <2>11, <3>1 DEF Working
    <3>. QED BY <3>1, <3>2, <3>3
  <2>15. CallsAreSound(tasks', docs', mutation, Closing)
    BY <1>1, <2>5, <2>6, <2>11, <2>12, <2>13, <2>14, SaveBegins
  <2>16. active' \in Shown(now) \cup {None} /\ workspace' \in Roots
    <3>1. next \in Shown(now)
      BY <2>2, <2>7, <2>8 DEF Shown
    <3>2. CASE active = t.id
      <4>1. Show(next, now)
        BY <2>6, <3>2
      <4>. QED BY <2>9, <3>1, <4>1, ShowIsSound
    <3>3. CASE active # t.id
      <4>1. active = None \/ active = next \/ (active \in Ids /\ now[active] = docs[active] /\ docs[active] # None)
        BY <2>7, <3>3, Counts DEF Open
      <4>. QED BY <2>6, <3>1, <3>3, <4>1, Counts DEF Shown
    <3>. QED BY <3>2, <3>3
  <2>. QED BY <1>1, <2>6, <2>9, <2>14, <2>15, <2>16, Counts, CalmStep DEF Same
<1>. QED BY <1>2, <1>3 DEF SavedAs

-----------------------------------------------------------------------------
(* The native process. *)

\* A native command answers.
LEMMA AnsweredIsSound ==
  ASSUME SessionInvariant, NEW t \in tasks, t.at = "native", NEW answer \in Answers, Answered(t, answer)
  PROVE  CallsAreSound(tasks', docs, mutation, Closing)
<1>. DEFINE u == [t EXCEPT !.at = "answered", !.answer = answer]
<1>1. WellFormed(t) /\ FitsTabs(t, docs) /\ tasks' = (tasks \ {t}) \cup {u}
  BY Counts DEF Answered
<1>2. /\ u \in Tasks /\ u.fn = t.fn /\ u.at = "answered" /\ u.place = t.place /\ u.to = t.to /\ u.id = t.id
      /\ u.text = t.text /\ u.holds = t.holds /\ u.then = t.then /\ u.next = t.next
  BY Counts DEF Tasks
<1>. HIDE DEF u
<1>3. WellFormed(u)
  BY <1>1, <1>2 DEF WellFormed
<1>4. FitsTabs(u, docs)
  BY <1>1, <1>2 DEF FitsTabs, Subject
<1>5. u \in Working({u}) <=> t \in Working({t})
  BY <1>2 DEF Working
<1>. QED BY <1>1, <1>2, <1>3, <1>4, <1>5, Counts, CallGoesOn

\* A native command reads, writes or changes paths, and answers.
LEMMA NativeSound ==
  ASSUME SessionInvariant, Running, NEW t \in tasks, Native(t) PROVE SessionInvariant'
<1>1. /\ WellFormed(t) /\ t.at = "native" /\ disk \in [Places -> Versions]
      /\ UNCHANGED <<docs, budget, active, workspace, mutation, conflict, quit>>
  BY Counts DEF Native, SameView
<1>2. \E answer \in Answers : Answered(t, answer)
  <2>1. CASE Read(t)
    <3>1. t.place \in Places
      BY <1>1, <2>1 DEF Read, WellFormed
    <3>. QED BY <1>1, <2>1, <3>1 DEF Read, Answers
  <2>2. CASE Write(t)
    BY <2>2 DEF Write, Answers
  <2>3. CASE Change(t)
    BY <2>3 DEF Change, Answers
  <2>. QED BY <2>1, <2>2, <2>3 DEF Native
<1>3. CallsAreSound(tasks', docs, mutation, Closing)
  BY <1>1, <1>2, AnsweredIsSound
<1>4. disk' \in [Places -> Versions]
  <2>1. CASE Read(t)
    BY <1>1, <2>1 DEF Read
  <2>2. CASE Write(t)
    <3>1. t.text \in Versions
      BY Counts DEF Tasks
    <3>2. disk' = disk \/ disk' = [disk EXCEPT ![t.place] = t.text]
      BY <2>2 DEF Write
    <3>. QED BY <1>1, <3>1, <3>2
  <2>3. CASE Change(t)
    <3>1. t.place \in Places
      BY <1>1, <2>3 DEF Change, WellFormed
    <3>2. NoFile \in Versions /\ Empty \in Versions
      BY SessionAssumption DEF Versions
    <3>3. \/ disk' = disk
          \/ disk' = [disk EXCEPT ![t.to] = disk[t.place], ![t.place] = NoFile]
          \/ disk' = [disk EXCEPT ![t.place] = NoFile]
          \/ disk' = [disk EXCEPT ![t.place] = Empty]
      BY <2>3 DEF Change
    <3>4. CASE disk' = disk
      BY <1>1, <3>4
    <3>5. CASE disk' = [disk EXCEPT ![t.to] = disk[t.place], ![t.place] = NoFile]
      BY <1>1, <3>1, <3>2, <3>5
    <3>6. CASE disk' = [disk EXCEPT ![t.place] = NoFile]
      BY <1>1, <3>2, <3>6
    <3>7. CASE disk' = [disk EXCEPT ![t.place] = Empty]
      BY <1>1, <3>2, <3>7
    <3>. QED BY <3>3, <3>4, <3>5, <3>6, <3>7
  <2>. QED BY <2>1, <2>2, <2>3 DEF Native
<1>. QED BY <1>1, <1>3, <1>4, Counts, TabsStay

-----------------------------------------------------------------------------
(* Quitting. *)

\* A step of a quit leaves the rest of the window alone.
LEMMA QuitStep ==
  ASSUME SessionInvariant, UNCHANGED <<disk, docs, active, workspace, mutation, conflict>>, budget' \in Budgets,
         quit' \in Quits, CallsAreSound(tasks', docs, mutation, Closing'), QuitKeepsEdits'
  PROVE  SessionInvariant'
<1>1. ViewIsSound'
  BY Counts DEF ViewIsSound, Conflicts, Budgets, Shown, Open
<1>2. TabsAreSound(docs') /\ CallsAreSound(tasks', docs', mutation', Closing')
  BY Counts
<1>. QED BY <1>1, <1>2 DEF SessionInvariant

\* A quit that is not at its end leaves the calls as they are.
LEMMA QuitGoesOn ==
  ASSUME SessionInvariant, UNCHANGED <<disk, docs, active, workspace, mutation, conflict, tasks>>, budget' \in Budgets,
         quit' \in Quits, quit'.stage \notin {"closing", "gone"}
  PROVE  SessionInvariant'
<1>1. CallsAreSound(tasks', docs', mutation', FALSE)
  BY Counts DEF CallsAreSound, CallsAreApart
<1>. QED BY <1>1, Counts, CalmStep

\* The last look of requestAppQuit: nothing is half done, and no edit is left that no file holds.
LEMMA LeaveSound ==
  ASSUME SessionInvariant, Running, UNCHANGED <<disk, docs, active, workspace, mutation, conflict>>, budget' \in Budgets,
         NEW discards \in BOOLEAN, Leave(discards),
         discards \/ \A id \in Dirty : <<id, docs[id].text>> \in quit.saved
  PROVE  SessionInvariant'
<1>1. CASE mutation # None \/ SavesInProgress # {} \/ ClosesInProgress # {}
  <2>1. quit' = NoQuit /\ UNCHANGED tasks
    BY <1>1 DEF Leave
  <2>2. quit' \in Quits /\ quit'.stage = "no"
    BY <2>1 DEF Quits, NoQuit
  <2>. QED BY <2>1, <2>2, QuitGoesOn
<1>2. CASE ~(mutation # None \/ SavesInProgress # {} \/ ClosesInProgress # {})
  <2>1. quit' = [quit EXCEPT !.stage = "closing", !.discards = discards, !.todo = {}] /\ tasks' = WithoutIntents(tasks)
    BY <1>2 DEF Leave
  <2>2. quit' \in Quits /\ quit'.discards = discards /\ quit'.saved = quit.saved
    BY <2>1, Counts DEF Quits
  <2>3. CallsAreSound(tasks, docs, mutation, TRUE)
    BY <1>2, NoSaves, Counts DEF CallsAreSound, CallsAreApart
  <2>4. CallsAreSound(tasks', docs, mutation, TRUE)
    BY <2>1, <2>3, IntentsKeep
  <2>5. CallsAreSound(tasks', docs, mutation, Closing')
    BY <2>4 DEF CallsAreSound, CallsAreApart
  <2>6. QuitKeepsEdits'
    BY <2>2 DEF QuitKeepsEdits, Dirty, Open
  <2>. QED BY <2>2, <2>5, <2>6, QuitStep
<1>. QED BY <1>1, <1>2

\* requestAppQuit and its dialog.
LEMMA RequestQuitSound ==
  ASSUME SessionInvariant, Running, RequestQuit \/ \E choice \in {"save", "discard", "cancel"} : QuitChosen(choice)
  PROVE  SessionInvariant'
<1>1. UNCHANGED <<disk, docs, active, workspace, mutation, conflict>> /\ budget' \in Budgets
  BY Counts, Spending DEF RequestQuit, QuitChosen, Same
<1>2. CASE RequestQuit
  <2>1. CASE Dirty = {}
    BY <1>1, <1>2, <2>1, LeaveSound DEF RequestQuit
  <2>2. CASE Dirty # {}
    <3>1. quit' = [NoQuit EXCEPT !.stage = "ask"] /\ UNCHANGED tasks
      BY <1>2, <2>2 DEF RequestQuit
    <3>2. quit' \in Quits /\ quit'.stage = "ask"
      BY <3>1 DEF Quits, NoQuit
    <3>. QED BY <1>1, <3>1, <3>2, QuitGoesOn
  <2>. QED BY <2>1, <2>2
<1>3. ASSUME NEW choice \in {"save", "discard", "cancel"}, QuitChosen(choice) PROVE SessionInvariant'
  <2>1. CASE Leave(TRUE)
    BY <1>1, <2>1, LeaveSound
  <2>2. CASE quit' = [quit EXCEPT !.stage = "saving", !.todo = Dirty] /\ UNCHANGED tasks
    <3>1. quit' \in Quits /\ quit'.stage = "saving"
      BY <2>2, Counts DEF Quits, Dirty, Open
    <3>. QED BY <1>1, <2>2, <3>1, QuitGoesOn
  <2>3. CASE quit' = NoQuit /\ UNCHANGED tasks
    <3>1. quit' \in Quits /\ quit'.stage = "no"
      BY <2>3 DEF Quits, NoQuit
    <3>. QED BY <1>1, <2>3, <3>1, QuitGoesOn
  <2>. QED BY <1>3, <2>1, <2>2, <2>3 DEF QuitChosen
<1>. QED BY <1>2, <1>3

\* saveWorkspaceDocuments
LEMMA QuitSavesSound ==
  ASSUME SessionInvariant, QuitSaved \/ \E id \in quit.todo : QuitSaveNext(id) PROVE SessionInvariant'
<1>1. /\ Running /\ quit.stage = "saving" /\ budget' \in Budgets
      /\ UNCHANGED <<disk, docs, active, workspace, mutation, conflict>>
  BY Counts DEF QuitSaved, QuitSaveNext, SavingTurn, Running, Same
<1>2. CASE quit' = NoQuit /\ UNCHANGED tasks
  <2>1. quit' \in Quits /\ quit'.stage = "no"
    BY <1>2 DEF Quits, NoQuit
  <2>. QED BY <1>1, <1>2, <2>1, QuitGoesOn
<1>3. CASE (\A id \in Dirty : <<id, docs[id].text>> \in quit.saved) /\ Leave(FALSE)
  BY <1>1, <1>3, LeaveSound
<1>4. ASSUME NEW id, MaySave(id), tasks' = tasks \cup {SaveTask(id, FALSE, "quit")}, UNCHANGED quit PROVE SessionInvariant'
  <2>. DEFINE u == SaveTask(id, FALSE, "quit")
  <2>1. id \in Open /\ ~Closing /\ Working(tasks) = {} /\ \A t \in SavesOf(tasks) : t.id # id
    BY <1>1, <1>4, MaySaveMeans
  <2>2. WellFormed(u) /\ FitsTabs(u, docs) /\ u.fn \in Saves /\ u.id = id
    BY <2>1, SaveTaskIs
  <2>3. tasks' = tasks \cup {u}
    BY <1>4
  <2>. HIDE DEF u
  <2>4. CallsAreSound(tasks', docs, mutation, Closing)
    BY <2>1, <2>2, <2>3, Counts, SaveBegins
  <2>. QED BY <1>1, <1>4, <2>4, Counts, TabsStay
<1>. QED BY <1>2, <1>3, <1>4 DEF QuitSaved, QuitSaveNext

\* quit_app answers.
LEMMA QuitAppSound ==
  ASSUME SessionInvariant, Running, NEW answer \in {"ok", "failed"}, QuitApp(answer) PROVE SessionInvariant'
<1>1. UNCHANGED <<disk, docs, active, workspace, mutation, conflict, tasks, budget>> /\ Closing
  BY DEF QuitApp, Same
<1>2. CASE quit' = NoQuit
  <2>1. quit' \in Quits /\ quit'.stage = "no"
    BY <1>2 DEF Quits, NoQuit
  <2>. QED BY <1>1, <1>2, <2>1, Counts, QuitGoesOn
<1>3. CASE quit' = [quit EXCEPT !.stage = "gone"]
  <2>1. quit' \in Quits /\ quit'.stage = "gone" /\ quit'.discards = quit.discards /\ quit'.saved = quit.saved
    BY <1>3, Counts DEF Quits
  <2>2. QuitKeepsEdits'
    BY <1>1, <2>1 DEF SessionInvariant, QuitKeepsEdits, Closing, Dirty, Open
  <2>3. CallsAreSound(tasks', docs, mutation, Closing')
    BY <1>1, Counts DEF CallsAreSound, CallsAreApart
  <2>. QED BY <1>1, <2>1, <2>2, <2>3, Counts, QuitStep
<1>. QED BY <1>2, <1>3 DEF QuitApp

-----------------------------------------------------------------------------
(* The invariant holds, and what follows from it. *)

\* The window starts with at most one untouched document.
LEMMA SessionInvariantInit == Init => SessionInvariant
<1>. SUFFICES ASSUME Init PROVE SessionInvariant
  OBVIOUS
<1>. DEFINE first == [place |-> Nowhere, text |-> Empty, base |-> NoFile, dirty |-> FALSE]
<1>1. first \in Documents /\ first.dirty = FALSE /\ first.place = Nowhere /\ first.text = Empty
  BY SessionAssumption DEF Documents, Versions
<1>. HIDE DEF first
<1>2. \A id \in Ids : docs[id] = IF id = active /\ id # None THEN first ELSE None
  BY DEF Init, first
<1>3. docs \in Tabs /\ first # None
  <2>1. docs = [id \in Ids |-> IF id = active /\ id # None THEN first ELSE None]
    BY DEF Init, first
  <2>. QED BY <1>1, <2>1, Names DEF Tabs
<1>4. Shown(docs) \subseteq {active} /\ (active # None => active \in Shown(docs) /\ active \in Untitled)
  BY <1>2, <1>3, Names DEF Init, Shown
<1>5. TabsAreSound(docs)
  BY <1>1, <1>2, <1>3, <1>4 DEF TabsAreSound, Shown
<1>6. ViewIsSound
  <2>1. disk \in [Places -> Versions]
    BY SessionAssumption DEF Init, Versions
  <2>2. quit \in Quits
    BY DEF Init, NoQuit, Quits
  <2>3. budget \in [edits : Nat, foreign : Nat, tasks : Nat]
    BY SessionAssumption DEF Init
  <2>. QED BY <1>4, <2>1, <2>2, <2>3 DEF Init, ViewIsSound
<1>7. CallsAreSound(tasks, docs, mutation, Closing)
  BY DEF Init, CallsAreSound, CallsAreApart, SavesOf, Working
<1>8. QuitKeepsEdits
  BY DEF Init, NoQuit, QuitKeepsEdits
<1>. QED BY <1>5, <1>6, <1>7, <1>8 DEF SessionInvariant

\* Every section of the program keeps it.
LEMMA SessionInvariantStep == SessionInvariant /\ [Next]_vars => SessionInvariant'
<1>. SUFFICES ASSUME SessionInvariant, [Next]_vars PROVE SessionInvariant'
  OBVIOUS
<1>1. CASE UNCHANGED vars
  BY <1>1 DEF vars, SessionInvariant, ViewIsSound, QuitKeepsEdits, Closing, Dirty, Open
<1>2. CASE Quiet
  BY <1>1, <1>2 DEF Quiet
<1>3. CASE QuitSaved \/ \E id \in quit.todo : QuitSaveNext(id)
  BY <1>3, QuitSavesSound
<1>4. CASE Running /\ UserStarts
  <2>1. CASE \E v \in Contents : Type(v)
    BY <1>4, <2>1, TypeSound
  <2>2. CASE \E id \in Untitled : CreateUntitled(id)
    BY <1>4, <2>2, CreateUntitledSound
  <2>3. CASE \E id \in Open : ActivateTab(id) \/ CloseTab(id)
    BY <1>4, <2>3, LookSound, CloseTabSound
  <2>4. CASE \E file \in Files : SelectFile(file)
    BY <1>4, <2>4, SelectFileSound
  <2>5. CASE \E place \in Places : OpenPath(place) \/ LoadWorkspace(place) \/ AskDelete(place) \/ CreateFile(place)
    BY <1>4, <2>5, OpenPathSound, DeletesBegin, CreateFileSound
  <2>6. CASE \E from, to \in Places : RenameEntry(from, to)
    BY <1>4, <2>6, RenameEntrySound
  <2>7. CASE \E id \in Open, saveAs \in BOOLEAN : Save(id, saveAs)
    BY <1>4, <2>7, SaveSound
  <2>8. CASE ReloadFromDisk \/ KeepEditing \/ RequestQuit
    BY <1>4, <2>8, ReloadFromDiskSound, LookSound, RequestQuitSound
  <2>. QED BY <1>4, <2>1, <2>2, <2>3, <2>4, <2>5, <2>6, <2>7, <2>8 DEF UserStarts
<1>5. CASE Running /\ WorldStarts
  BY <1>5, ReloadSound, LookSound DEF WorldStarts
<1>6. CASE Running /\ UserAnswers
  <2>1. ASSUME NEW t \in tasks,
               \/ \E place \in Places : ChooseDestination(t, place)
               \/ NoDestination(t)
               \/ \E choice \in {"save", "discard", "cancel"} : CloseChosen(t, choice)
               \/ \E confirmed \in BOOLEAN : DeleteChosen(t, confirmed)
        PROVE  SessionInvariant'
    BY <1>6, <2>1, ChooseDestinationSound, SaveEndsSound, CloseChosenSound, DeletesBegin
  <2>2. CASE \E choice \in {"save", "discard", "cancel"} : QuitChosen(choice)
    BY <1>6, <2>2, RequestQuitSound
  <2>. QED BY <1>6, <2>1, <2>2 DEF UserAnswers
<1>7. CASE Running /\ Progress
  <2>1. ASSUME NEW t \in tasks, Continuation(t) PROVE SessionInvariant'
    BY <1>7, <2>1, SelectedSound, OpenedPathSound, LoadedWorkspaceSound, ReloadedSound, SavedSound, SavedAsSound,
       SaveEndsSound, RenamedSound, DeletedSound, CreatedSound, OpenedCreatedSound DEF Continuation
  <2>2. ASSUME NEW t \in tasks, Native(t) PROVE SessionInvariant'
    BY <1>7, <2>2, NativeSound
  <2>3. CASE \E answer \in {"ok", "failed"} : QuitApp(answer)
    BY <1>7, <2>3, QuitAppSound
  <2>. QED BY <1>7, <2>1, <2>2, <2>3 DEF Progress
<1>. QED BY <1>1, <1>2, <1>3, <1>4, <1>5, <1>6, <1>7 DEF Next

\* What is inductive: every call fits the tab it holds, clean tabs show their files, calls do
\* not meet, and a closing window keeps no edit from its files.
THEOREM SessionInvariantHolds == Spec => []SessionInvariant
BY SessionInvariantInit, SessionInvariantStep, PTL DEF Spec

\* Every variable of useDocumentSession keeps its type.
THEOREM TypeIsCorrect == Spec => []TypeOK
<1>1. SessionInvariant => TypeOK
  <2>. SUFFICES ASSUME SessionInvariant PROVE TypeOK
    OBVIOUS
  <2>1. \A id \in Ids : docs[id] \in Documents \cup {None}
    BY Counts DEF Tabs
  <2>2. conflict # None => conflict.id \in Ids /\ conflict.place \in Places /\ conflict.reason \in {"changed", "deleted"}
    BY Counts DEF Conflicts
  <2>. QED BY <2>1, <2>2, Counts DEF TypeOK
<1>. QED BY <1>1, SessionInvariantHolds, PTL

\* Whatever save acknowledgment, reload or Save As came last, the mark of a clean tab hides no edit.
THEOREM CleanIsSavedHolds == Spec => []CleanIsSaved
<1>1. SessionInvariant => CleanIsSaved
  BY Counts DEF CleanIsSaved, TabsAreSound, Dirty
<1>. QED BY <1>1, SessionInvariantHolds, PTL

\* captureIdentity: no answer for one path is applied to a tab that was renamed, closed or reopened.
THEOREM AnswersMatchTabsHolds == Spec => []AnswersMatchTabs
<1>1. SessionInvariant => AnswersMatchTabs
  <2>. SUFFICES ASSUME SessionInvariant, NEW t \in tasks, "document" \in t.holds
                PROVE  Subject(t) \in Open /\ (t.fn \in {"save", "reload", "discardReload"} => docs[t.id].place = t.place)
    BY DEF AnswersMatchTabs
  <2>1. Subject(t) \in Ids
    BY Counts DEF WellFormed, Subject
  <2>. QED BY <2>1, Counts DEF FitsTabs, Open
<1>. QED BY <1>1, SessionInvariantHolds, PTL

\* WorkspacePathMutations: one change of paths at a time, its folder reserved until it is over,
\* and no rename or delete beside a save.
THEOREM PathsAreReservedHolds == Spec => []PathsAreReserved
<1>1. SessionInvariant => PathsAreReserved
  <2>. SUFFICES ASSUME SessionInvariant PROVE PathsAreReserved
    OBVIOUS
  <2>. DEFINE working == {t \in tasks : t.fn \in Mutations \cup {"opened"} /\ t.at # "ask"}
  <2>1. working = Working(tasks)
    BY DEF Working
  <2>. HIDE DEF working
  <2>2. /\ \A t, u \in working : t = u
        /\ mutation # None <=> working # {}
        /\ \A t \in working : t.place[1] = mutation /\ (t.fn \in {"rename", "delete"} => SavesInProgress = {})
    BY <2>1, Counts, NoSaves DEF CallsAreApart
  <2>3. Cardinality(working) <= 1
    <3>1. CASE working = {}
      BY <3>1, FS_EmptySet
    <3>2. CASE working # {}
      <4>1. PICK t \in working : working = {t}
        BY <2>2, <3>2
      <4>2. Cardinality({t}) = 1
        BY FS_Singleton
      <4>. QED BY <4>1, <4>2
    <3>. QED BY <3>1, <3>2
  <2>. QED BY <2>2, <2>3 DEF PathsAreReserved, working
<1>. QED BY <1>1, SessionInvariantHolds, PTL

\* requestAppQuit: a window that quits without "discard" leaves no text behind that no file holds or held.
THEOREM QuitKeepsEditsHolds == Spec => []QuitKeepsEdits
<1>1. SessionInvariant => QuitKeepsEdits
  BY DEF SessionInvariant
<1>. QED BY <1>1, SessionInvariantHolds, PTL

-----------------------------------------------------------------------------
(* What was typed survives every step. *)

\* What EditsSurvive allows to happen to a dirty tab in one step.
Survives(id) ==
  \/ Kept(id)
  \/ active = id /\ budget'.edits < budget.edits
  \/ \E t \in tasks : \/ SavedFor(t, id) \/ CarriedBy(t, id)
                      \/ t.id = id /\ t.text = docs[id].text /\ Reloaded(t)
                      \/ t.id = id /\ "document" \in t.holds /\ CloseChosen(t, "discard")
                      \/ t.id = id /\ Selected(t)

\* A dirty tab is open; one that the section leaves as it was is kept.
LEMMA Untouched ==
  ASSUME SessionInvariant, NEW id \in Dirty
  PROVE  /\ id \in Ids /\ id \in Open /\ docs[id] # None /\ docs[id].dirty
         /\ docs'[id] = docs[id] => Survives(id)
BY DEF Dirty, Open, Survives, Kept

\* A save that returned is no longer among the calls.
LEMMA ReturnedIsGone ==
  ASSUME SessionInvariant, NEW t \in tasks, t.fn \in Saves, NEW S \in SUBSET (tasks \ {t}), NEW now,
         CallsAreSound(S, docs, mutation, Closing)
  PROVE  t \notin Reconciled(S, now) /\ t \notin Reconciled(WithoutIntents(S), now)
<1>1. \A x \in S : ~(x.fn = t.fn /\ x.id = t.id)
  BY Counts DEF CallsAreApart, SavesOf
<1>2. \A x \in WithoutIntents(S) : ~(x.fn = t.fn /\ x.id = t.id)
  <2>1. ASSUME NEW x \in WithoutIntents(S) PROVE \E y \in S : x.fn = y.fn /\ x.id = y.id
    <3>1. PICK y \in S : x = [y EXCEPT !.holds = @ \ {"intent"}]
      BY DEF WithoutIntents
    <3>2. y \in Tasks
      BY Counts
    <3>. QED BY <3>1, <3>2 DEF Tasks
  <2>. QED BY <1>1, <2>1
<1>3. CallsAreSound(WithoutIntents(S), docs, mutation, Closing)
  BY IntentsKeep
<1>. QED BY <1>1, <1>2, <1>3, ReconciledFrom

\* A save that returns loses no edit but the text it saved.
LEMMA ReturnKeepsEdits ==
  ASSUME SessionInvariant, NEW t \in tasks, t.fn \in Saves, NEW now, NEW told, NEW saved \in Ids \cup {None},
         Return(t, now, tasks \ {t}, active, workspace, told, saved), t.at = "ask" => saved = None,
         \A id \in Open : now[id] # None /\ now[id].text = docs[id].text,
         saved # None => saved = Subject(t) /\ now[saved].text = t.text,
         t.then = "close" /\ saved # None => saved = t.id \/ docs[t.id] = None,
         t.at \in {"ask", "answered", "refresh"}, NEW id \in Dirty
  PROVE  Survives(id)
<1>. DEFINE T == tasks \ {t}
            C == T \ CloseTask(t.id)
            left == [x \in Ids |-> IF x \in {t.id, saved} THEN None ELSE now[x]]
<1>1. id \in Ids /\ id \in Open /\ docs[id] # None /\ now[id] # None /\ now[id].text = docs[id].text
  BY Untouched
<1>2. CASE docs' = now
  BY <1>1, <1>2 DEF Survives, Kept
<1>3. CASE t.then = "close" /\ saved # None /\ Remove({t.id, saved}, now, C)
  <2>1. docs' = left /\ tasks' \in {Reconciled(C, left), Reconciled(WithoutIntents(C), left)}
    BY <1>3 DEF Remove, Commit
  <2>2. CASE id \notin {t.id, saved}
    BY <1>1, <2>1, <2>2 DEF Survives, Kept
  <2>3. CASE id \in {t.id, saved}
    <3>1. id = saved
      BY <1>1, <1>3, <2>3
    <3>2. CallsAreSound(C, docs, mutation, Closing)
      <4>1. CallsAreSound(T, docs, mutation, Closing) /\ Working(T) \subseteq C
        BY QuietEnd DEF Saves, Mutations, Working, CloseTask
      <4>. QED BY <4>1, FewerCalls
    <3>3. t \notin tasks'
      <4>. HIDE DEF left
      <4>. QED BY <2>1, <3>2, ReturnedIsGone
    <3>4. SavedFor(t, id)
      BY <1>1, <1>3, <3>1, <3>3 DEF SavedFor
    <3>. QED BY <3>4 DEF Survives
  <2>. QED BY <2>2, <2>3
<1>. QED BY <1>2, <1>3 DEF Return, Commit

\* The answers of saves.
LEMMA SavesKeepEdits ==
  ASSUME SessionInvariant, Running, NEW t \in tasks, NoDestination(t) \/ SavedAsListed(t) \/ Saved(t), NEW id \in Dirty
  PROVE  Survives(id)
<1>1. \A x \in Open : docs[x] # None
  BY DEF Open
<1>2. CASE NoDestination(t)
  BY <1>1, <1>2, ReturnKeepsEdits DEF NoDestination, Saves
<1>3. CASE SavedAsListed(t)
  <2>. DEFINE saved == IF "document" \in t.holds THEN AnswerOf(t, docs, t.next) ELSE None
  <2>1. t.fn = "saveAs" /\ t.at = "refresh" /\ t.next \in Ids /\ t.fn \in Saves /\ Subject(t) = t.next
        /\ (t.then = "close" => docs[t.id] = None)
    BY <1>3, Counts DEF SavedAsListed, WellFormed, Saves, Subject, FitsTabs
  <2>2. saved \in Ids \cup {None} /\ (saved # None => saved = t.next /\ docs[saved].text = t.text)
    BY <2>1 DEF AnswerOf
  <2>3. Return(t, docs, tasks \ {t}, active, workspace, conflict, saved)
    BY <1>3 DEF SavedAsListed
  <2>. HIDE DEF saved
  <2>. QED BY <1>1, <2>1, <2>2, <2>3, ReturnKeepsEdits
<1>4. CASE Saved(t)
  <2>. DEFINE now == [docs EXCEPT ![t.id].base = t.text, ![t.id].dirty = docs[t.id].text # t.text]
              saved == AnswerOf(t, now, t.id)
  <2>1. t.fn = "save" /\ t.at = "answered" /\ t.fn \in Saves /\ Subject(t) = t.id /\ t.id \in Ids
    BY <1>4, Counts DEF Saved, Saves, Subject, WellFormed
  <2>2. ASSUME "document" \in t.holds, Return(t, now, tasks \ {t}, active, workspace, conflict, saved) PROVE Survives(id)
    <3>1. Follows(now) /\ Open \subseteq Shown(now) /\ now[t.id].text = docs[t.id].text /\ \A x \in Ids \ {t.id} : now[x] = docs[x]
      BY <2>1, <2>2, AcknowledgedFollows
    <3>2. saved \in Ids \cup {None} /\ (saved # None => saved = t.id /\ now[saved].text = t.text)
      BY <2>1 DEF AnswerOf
    <3>. HIDE DEF now, saved
    <3>3. \A x \in Open : now[x] # None /\ now[x].text = docs[x].text
      BY <3>1 DEF Shown, Open
    <3>. QED BY <2>1, <2>2, <3>2, <3>3, ReturnKeepsEdits
  <2>3. ASSUME NEW told, Return(t, docs, tasks \ {t}, active, workspace, told, None) PROVE Survives(id)
    BY <1>1, <2>1, <2>3, ReturnKeepsEdits
  <2>. QED BY <1>4, <2>2, <2>3 DEF Saved
<1>. QED BY <1>2, <1>3, <1>4

\* The answer of a Save As: the text goes to the tab of the new file.
LEMMA SavedAsKeepsEdits ==
  ASSUME SessionInvariant, Running, NEW t \in tasks, SavedAs(t), NEW id \in Dirty PROVE Survives(id)
<1>1. \A x \in Open : docs[x] # None
  BY DEF Open
<1>2. t.fn = "saveAs" /\ t.at = "answered" /\ t.fn \in Saves /\ t.id \in Ids /\ t.place \in Places
  BY Counts DEF SavedAs, Saves, WellFormed
<1>3. CASE Return(t, docs, tasks \ {t}, active, workspace, conflict, None)
  BY <1>1, <1>2, <1>3, ReturnKeepsEdits
<1>4. CASE "document" \in t.holds /\ t.answer = "ok"
  <2>. DEFINE moved == [place |-> t.place, text |-> docs[t.id].text, base |-> t.text, dirty |-> docs[t.id].text # t.text]
  <2>1. PICK next \in Identities(t.place, t.place[1], Open \ {t.id}) :
          LET now == [x \in Ids |-> IF x = next THEN moved ELSE IF x = t.id THEN None ELSE docs[x]] IN
          /\ docs' = now
          /\ tasks' = Reconciled(tasks \ {t}, now)
                        \cup {[t EXCEPT !.at = "refresh", !.next = next, !.holds = {"document"}]}
    BY <1>4 DEF SavedAs
  <2>. DEFINE now == [x \in Ids |-> IF x = next THEN moved ELSE IF x = t.id THEN None ELSE docs[x]]
              u == [t EXCEPT !.at = "refresh", !.next = next, !.holds = {"document"}]
  <2>2. next \in Ids /\ next \notin Open \ {t.id}
    BY <1>2, <2>1, IdentitiesAreFree
  <2>3. docs' = now /\ tasks' = Reconciled(tasks \ {t}, now) \cup {u}
    BY <2>1, Zenon
  <2>4. docs'[next] # None /\ docs'[next].text = docs[t.id].text
    <3>1. docs'[next] = moved
      BY <2>2, <2>3
    <3>2. moved # None
      <4>1. docs[t.id] \in Documents /\ t.text \in Contents
        BY <1>2, <1>4, Counts DEF FitsTabs, Subject, WellFormed, Open
      <4>2. ASSUME NEW d \in BOOLEAN
            PROVE  [place |-> t.place, text |-> docs[t.id].text, base |-> t.text, dirty |-> d] \in Documents
        BY <1>2, <4>1 DEF Documents, Versions
      <4>3. (docs[t.id].text # t.text) \in BOOLEAN
        OBVIOUS
      <4>4. moved \in Documents
        BY <4>2, <4>3, Zenon
      <4>. HIDE DEF moved
      <4>. QED BY <4>4, Names
    <3>. QED BY <3>1, <3>2
  <2>5. t \notin tasks'
    <3>1. u.at = "refresh"
      BY Counts DEF Tasks
    <3>2. CallsAreSound(tasks \ {t}, docs, mutation, Closing)
      BY <1>2, QuietEnd DEF Mutations
    <3>. HIDE DEF now, u
    <3>3. t \notin Reconciled(tasks \ {t}, now)
      BY <1>2, <3>2, ReturnedIsGone
    <3>. QED BY <1>2, <2>3, <3>1, <3>3
  <2>6. CASE id = t.id
    <3>1. CarriedBy(t, id)
      BY <1>2, <2>2, <2>4, <2>5, <2>6 DEF CarriedBy
    <3>. QED BY <3>1 DEF Survives
  <2>7. CASE id # t.id
    <3>1. docs'[id] = docs[id]
      BY <2>2, <2>3, <2>7, Untouched
    <3>. QED BY <3>1, Untouched
  <2>. QED BY <2>6, <2>7
<1>. QED BY <1>3, <1>4 DEF SavedAs

\* Tabs that are opened, renamed or deleted are not the dirty ones, or keep their text.
LEMMA OthersKeepEdits ==
  ASSUME SessionInvariant, Running, NEW t \in tasks, NEW id \in Dirty,
         OpenedPath(t) \/ LoadedWorkspace(t) \/ OpenedCreated(t) \/ Renamed(t) \/ Deleted(t)
  PROVE  Survives(id)
<1>1. id \in Ids /\ id \in Open /\ docs[id] # None
  BY Untouched
<1>2. CASE docs' = docs
  BY <1>2, Untouched
<1>3. ASSUME NEW place \in Places, NEW new \in Identities(place, workspace, Open), NEW doc,
             docs' = [docs EXCEPT ![new] = doc]
      PROVE  Survives(id)
  <2>1. new # id
    BY <1>1, <1>3, IdentitiesAreFree
  <2>2. docs'[id] = docs[id]
    BY <1>1, <1>3, <2>1, Counts DEF Tabs
  <2>. QED BY <2>2, Untouched
<1>4. CASE OpenedPath(t) \/ OpenedCreated(t)
  <2>1. t.place \in Places
    BY <1>4, Counts DEF OpenedPath, OpenedCreated, WellFormed, Reads
  <2>. QED BY <1>2, <1>3, <1>4, <2>1 DEF OpenedPath, OpenedCreated, Commit
<1>5. CASE LoadedWorkspace(t)
  BY <1>2, <1>5 DEF LoadedWorkspace
<1>6. CASE Renamed(t)
  <2>. DEFINE now == [x \in Ids |-> IF x \in TabsAt(t.place) THEN [docs[x] EXCEPT !.place = t.to] ELSE docs[x]]
  <2>1. CASE docs' = now
    <3>1. docs[id] \in Documents /\ t.to \in Places
      BY <1>1, <1>6, Counts DEF Renamed, WellFormed
    <3>2. docs'[id] = IF id \in TabsAt(t.place) THEN [docs[id] EXCEPT !.place = t.to] ELSE docs[id]
      BY <1>1, <2>1
    <3>3. [docs[id] EXCEPT !.place = t.to] \in Documents /\ [docs[id] EXCEPT !.place = t.to].text = docs[id].text
      BY <3>1 DEF Documents
    <3>4. docs'[id] \in Documents /\ docs'[id].text = docs[id].text
      BY <3>1, <3>2, <3>3
    <3>. QED BY <3>4, Names DEF Survives, Kept
  <2>. QED BY <1>2, <1>6, <2>1 DEF Renamed, Commit
<1>7. CASE Deleted(t)
  <2>1. CASE docs' = [x \in Ids |-> IF x \in TabsAt(t.place) \ Dirty THEN None ELSE docs[x]]
    <3>1. docs'[id] = docs[id]
      BY <1>1, <2>1
    <3>. QED BY <3>1, Untouched
  <2>. QED BY <1>2, <1>7, <2>1 DEF Deleted, Commit
<1>. QED BY <1>4, <1>5, <1>6, <1>7

\* A reload takes a buffer only if nothing was typed since the user gave it up.
LEMMA ReadsKeepEdits ==
  ASSUME SessionInvariant, Running, NEW t \in tasks, Selected(t) \/ Reloaded(t), NEW id \in Dirty
  PROVE  Survives(id)
<1>1. id \in Ids /\ id \in Open /\ docs[id] # None /\ docs[id].dirty /\ docs \in Tabs
  BY Untouched, Counts
<1>2. CASE docs' = docs
  BY <1>2, Untouched
<1>3. CASE Selected(t)
  <2>1. CASE id = t.id
    BY <1>3, <2>1 DEF Survives
  <2>2. ASSUME NEW doc, docs' = [docs EXCEPT ![t.id] = doc], id # t.id PROVE Survives(id)
    <3>1. docs'[id] = docs[id]
      BY <1>1, <2>2 DEF Tabs
    <3>. QED BY <3>1, Untouched
  <2>. QED BY <1>2, <1>3, <2>1, <2>2 DEF Selected, Commit
<1>4. CASE Reloaded(t) /\ "read" \in t.holds /\ t.answer \in Contents
  <2>1. CASE id = t.id
    <3>1. t.text = docs[id].text
      BY <1>1, <1>4, <2>1, Counts DEF FitsTabs
    <3>. QED BY <1>4, <2>1, <3>1 DEF Survives
  <2>2. CASE id # t.id
    <3>1. docs' = [docs EXCEPT ![t.id].text = t.answer, ![t.id].base = t.answer,
                               ![t.id].dirty = @ /\ t.fn = "reload"]
      BY <1>4 DEF Reloaded, Commit
    <3>2. docs'[id] = docs[id]
      BY <1>1, <2>2, <3>1 DEF Tabs
    <3>. QED BY <3>2, Untouched
  <2>. QED BY <2>1, <2>2
<1>5. CASE Reloaded(t) /\ ~("read" \in t.holds /\ t.answer \in Contents)
  BY <1>2, <1>5 DEF Reloaded
<1>. QED BY <1>3, <1>4, <1>5

\* The user types, opens a document or closes a tab.
LEMMA UserKeepsEdits ==
  ASSUME SessionInvariant, Running, NEW id \in Dirty,
         \/ \E v \in Contents : Type(v)
         \/ \E new \in Untitled : CreateUntitled(new)
         \/ \E x \in Open : CloseTab(x)
         \/ \E t \in tasks, choice \in {"save", "discard", "cancel"} : CloseChosen(t, choice)
  PROVE  Survives(id)
<1>1. id \in Ids /\ id \in Open /\ docs[id] # None /\ docs[id].dirty /\ docs \in Tabs
  BY Untouched, Counts
<1>2. CASE docs' = docs
  BY <1>2, Untouched
<1>3. ASSUME NEW v \in Contents, Type(v) PROVE Survives(id)
  <2>1. CASE id = active
    <3>1. budget'.edits < budget.edits
      BY <1>3, Counts, Spending DEF Type
    <3>. QED BY <2>1, <3>1 DEF Survives
  <2>2. CASE id # active
    <3>1. docs' = [docs EXCEPT ![active].text = v, ![active].dirty = TRUE]
      BY <1>3 DEF Type, Commit
    <3>2. docs'[id] = docs[id]
      BY <1>1, <2>2, <3>1 DEF Tabs
    <3>. QED BY <3>2, Untouched
  <2>. QED BY <2>1, <2>2
<1>4. ASSUME NEW new \in Untitled, CreateUntitled(new) PROVE Survives(id)
  <2>1. new # id
    BY <1>1, <1>4 DEF CreateUntitled
  <2>2. docs' = [docs EXCEPT ![new] = [place |-> Nowhere, text |-> Empty, base |-> NoFile, dirty |-> TRUE]]
    BY <1>4 DEF CreateUntitled, Commit
  <2>3. docs'[id] = docs[id]
    BY <1>1, <2>1, <2>2 DEF Tabs
  <2>. QED BY <2>3, Untouched
<1>5. ASSUME NEW x, NEW T, Remove({x}, docs, T), x # id PROVE Survives(id)
  <2>1. docs' = [y \in Ids |-> IF y \in {x} THEN None ELSE docs[y]]
    BY <1>5 DEF Remove, Commit
  <2>2. docs'[id] = docs[id]
    BY <1>1, <1>5, <2>1
  <2>. QED BY <2>2, Untouched
<1>6. ASSUME NEW x \in Open, CloseTab(x) PROVE Survives(id)
  <2>1. CASE docs[x].dirty
    BY <1>2, <1>6, <2>1 DEF CloseTab, Start
  <2>2. CASE ~docs[x].dirty
    <3>1. Remove({x}, docs, WithoutIntents(tasks)) /\ x # id
      BY <1>1, <1>6, <2>2 DEF CloseTab
    <3>. QED BY <1>5, <3>1
  <2>. QED BY <2>1, <2>2
<1>7. ASSUME NEW t \in tasks, NEW choice \in {"save", "discard", "cancel"}, CloseChosen(t, choice) PROVE Survives(id)
  <2>1. CASE choice = "discard" /\ "document" \in t.holds /\ ~Rejected /\ t.id # id
    BY <1>5, <1>7, <2>1 DEF CloseChosen
  <2>2. CASE choice = "discard" /\ "document" \in t.holds /\ ~Rejected /\ t.id = id
    BY <1>7, <2>2 DEF Survives
  <2>3. CASE ~(choice = "discard" /\ "document" \in t.holds /\ ~Rejected)
    BY <1>2, <1>7, <2>3 DEF CloseChosen
  <2>. QED BY <2>1, <2>2, <2>3
<1>. QED BY <1>3, <1>4, <1>6, <1>7

\* The steps that leave every tab as it is.
LEMMA TabsUntouched ==
  ASSUME \/ \E id \in Open : ActivateTab(id) \/ Reload(id)
         \/ \E file \in Files : SelectFile(file)
         \/ \E place \in Places : OpenPath(place) \/ LoadWorkspace(place) \/ AskDelete(place) \/ CreateFile(place)
         \/ \E from, to \in Places : RenameEntry(from, to)
         \/ \E id \in Open, saveAs \in BOOLEAN : Save(id, saveAs)
         \/ ReloadFromDisk \/ KeepEditing \/ RequestQuit \/ ReportMissing \/ QuitSaved \/ Quiet
         \/ \E place \in Places, v \in Versions : Foreign(place, v)
         \/ \E t \in tasks : \/ \E place \in Places : ChooseDestination(t, place)
                             \/ \E confirmed \in BOOLEAN : DeleteChosen(t, confirmed)
                             \/ Created(t) \/ Release(t) \/ Native(t)
         \/ \E choice \in {"save", "discard", "cancel"} : QuitChosen(choice)
         \/ \E answer \in {"ok", "failed"} : QuitApp(answer)
         \/ \E id \in quit.todo : QuitSaveNext(id)
  PROVE  docs' = docs
BY DEF ActivateTab, Reload, SelectFile, OpenPath, LoadWorkspace, AskDelete, CreateFile, RenameEntry, Save, Start,
       ReloadFromDisk, KeepEditing, RequestQuit, ReportMissing, QuitSaved, Quiet, vars, Foreign, ChooseDestination,
       DeleteChosen, Created, Release, Native, QuitChosen, QuitApp, QuitSaveNext

\* No step but those the user decided takes a text that is in no file.
THEOREM EditsSurviveHolds == Spec => EditsSurvive
<1>1. ASSUME SessionInvariant, Next, NEW id \in Dirty PROVE Survives(id)
  <2>1. CASE docs' = docs
    BY <1>1, <2>1, Untouched
  <2>2. CASE Running /\ UserStarts
    BY <1>1, <2>1, <2>2, UserKeepsEdits, TabsUntouched DEF UserStarts
  <2>3. CASE WorldStarts
    BY <2>1, <2>3, TabsUntouched DEF WorldStarts
  <2>4. CASE Running /\ UserAnswers
    BY <1>1, <2>1, <2>4, UserKeepsEdits, SavesKeepEdits, TabsUntouched DEF UserAnswers
  <2>5. CASE Running /\ Progress
    BY <1>1, <2>1, <2>5, ReadsKeepEdits, SavesKeepEdits, SavedAsKeepsEdits, OthersKeepEdits, TabsUntouched
       DEF Progress, Continuation
  <2>6. CASE QuitSaved \/ Quiet \/ \E x \in quit.todo : QuitSaveNext(x)
    BY <2>1, <2>6, TabsUntouched
  <2>. QED BY <1>1, <2>2, <2>3, <2>4, <2>5, <2>6 DEF Next
<1>2. SessionInvariant /\ [Next]_vars => [\A id \in Dirty : Survives(id)]_vars
  BY <1>1
<1>3. [][\A id \in Dirty : Survives(id)]_vars <=> EditsSurvive
  BY DEF EditsSurvive, Survives
<1>. QED BY <1>2, <1>3, SessionInvariantHolds, PTL DEF Spec
=============================================================================

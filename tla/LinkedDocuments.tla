--------------------------- MODULE LinkedDocuments ----------------------------
(***************************************************************************)
(* A document of a linked folder on an Apple system (LinkedDocumentStore). *)
(* The edits of a session are written to a local journal before they are   *)
(* acknowledged (persistDraft); a save archives the draft and replaces the *)
(* source, in one coordinated access, if the source is still the version   *)
(* the session was opened with (save); a draft found when the document is  *)
(* opened anew has to be taken up explicitly (resumeDraft).                *)
(*                                                                         *)
(* One document is modelled, so at most one session exists: open ends the  *)
(* earlier ones.  The store's lock makes one call run at a time; others    *)
(* read and write the source meanwhile, except during a coordinated        *)
(* access, and the process may end between any two steps.  Contents are    *)
(* told apart, not looked into; the copies kept of a conflict, the folder's *)
(* bookmark and the reasons a call fails for are left out.                 *)
(***************************************************************************)
EXTENDS Naturals

CONSTANTS
  None,
  Contents,        \* what the document may hold
  MaxGenerations,  \* edits of a session
  MaxSessions      \* sessions opened

VARIABLES
  source,       \* content of the file, None when there is none
  pending,      \* DocumentDraft of the journal, or None
  history,      \* drafts archived before a save
  session,      \* Session, or None
  call,         \* the call that runs: its step and its draft, or None
  opened,       \* sessions opened so far
  overwritten,  \* versions of the source a save replaced
  put           \* contents saves wrote

vars == <<source, pending, history, session, call, opened, overwritten, put>>

Generations == 1..MaxGenerations
Sessions == 1..MaxSessions

\* The draft's id is its session and its generation: they name one draft.
Drafts == [session : Sessions, generation : Generations, base : Contents, text : Contents]
Calls == [step : {"persisted", "saving", "archived", "written", "resumed"}, draft : Drafts]

LinkedAssumption ==
  /\ None \notin Contents \union Drafts \union Calls
  /\ MaxGenerations \in Nat /\ MaxSessions \in Nat

TypeOK ==
  /\ source \in Contents \union {None}
  /\ pending \in Drafts \union {None}
  /\ history \subseteq Drafts
  /\ session \in [id : Sessions, base : Contents, generation : 0..MaxGenerations, saved : 0..MaxGenerations,
                  recovery : Drafts \union {None}] \union {None}
  /\ call \in Calls \union {None}
  /\ opened \in 0..MaxSessions
  /\ overwritten \subseteq Contents /\ put \subseteq Contents

Init ==
  /\ source \in Contents /\ pending = None /\ history = {} /\ session = None /\ call = None
  /\ opened = 0 /\ overwritten = {} /\ put = {}

-----------------------------------------------------------------------------
\* open: what is pending is shown for recovery; it is not replayed.
Open ==
  /\ call = None /\ source # None /\ opened < MaxSessions
  /\ opened' = opened + 1
  /\ session' = [id |-> opened + 1, base |-> source, generation |-> 0, saved |-> 0, recovery |-> pending]
  /\ UNCHANGED <<source, pending, history, call, overwritten, put>>

Close ==
  /\ call = None /\ session # None /\ session' = None
  /\ UNCHANGED <<source, pending, history, call, opened, overwritten, put>>

\* Mutant: a draft found at opening does not stop new edits.
MayPersistAnew(generation) ==
  /\ session # None /\ generation > session.saved /\ generation >= session.generation
  /\ pending # None /\ pending.session = session.id => generation > pending.generation

\* The guards of persistDraft.  A repetition of a pending draft is acknowledged again and changes nothing.
MayPersist(generation) ==
  /\ session # None /\ session.recovery = None
  /\ generation > session.saved /\ generation >= session.generation
  /\ pending # None => pending.session = session.id /\ generation > pending.generation

\* The draft is in the journal.
PersistDraft(generation, text) ==
  /\ call = None /\ MayPersist(generation)
  /\ LET draft == [session |-> session.id, generation |-> generation, base |-> session.base, text |-> text]
     IN pending' = draft /\ call' = [step |-> "persisted", draft |-> draft]
  /\ UNCHANGED <<source, history, session, opened, overwritten, put>>

\* And acknowledged.
DraftPersisted ==
  /\ call # None /\ call.step = "persisted"
  /\ session' = [session EXCEPT !.generation = call.draft.generation] /\ call' = None
  /\ UNCHANGED <<source, pending, history, opened, overwritten, put>>

\* The guards of save.
MaySave ==
  /\ session # None /\ session.recovery = None
  /\ pending # None /\ pending.session = session.id /\ pending.generation = session.generation

Save ==
  /\ call = None /\ MaySave /\ call' = [step |-> "saving", draft |-> pending]
  /\ UNCHANGED <<source, pending, history, session, opened, overwritten, put>>

\* Mutant: the version is compared before the access only.
ArchiveUnchecked ==
  /\ call # None /\ call.step = "saving"
  /\ history' = history \union {call.draft} /\ call' = [call EXCEPT !.step = "archived"]
  /\ UNCHANGED <<source, pending, session, opened, overwritten, put>>

\* The access is granted and the source is the expected version: the draft is archived.  A source that is
\* not is a conflict, or missing (GiveUp).
Archive ==
  /\ call # None /\ call.step = "saving" /\ source = session.base
  /\ history' = history \union {call.draft} /\ call' = [call EXCEPT !.step = "archived"]
  /\ UNCHANGED <<source, pending, session, opened, overwritten, put>>

\* content.write: the last step of the access.
Replace ==
  /\ call # None /\ call.step = "archived"
  /\ overwritten' = overwritten \union {source} /\ put' = put \union {call.draft.text}
  /\ source' = call.draft.text /\ call' = [call EXCEPT !.step = "written"]
  /\ UNCHANGED <<pending, history, session, opened>>

\* journal.complete, and the answer "saved".
Complete ==
  /\ call # None /\ call.step = "written" /\ pending = call.draft
  /\ pending' = None /\ call' = None
  /\ session' = [session EXCEPT !.base = call.draft.text, !.saved = call.draft.generation]
  /\ UNCHANGED <<source, history, opened, overwritten, put>>

\* A save ends otherwise: with a conflict, a missing or unavailable source, or a failure of a step of it.
GiveUp ==
  /\ call # None /\ call.step \in {"saving", "archived", "written"} /\ call' = None
  /\ UNCHANGED <<source, pending, history, session, opened, overwritten, put>>

\* Mutant: a draft is taken up whatever it was made from.
ResumeDraftAnywhere ==
  /\ call = None /\ session # None /\ session.recovery # None /\ pending = session.recovery
  /\ pending' = [pending EXCEPT !.session = session.id]
  /\ call' = [step |-> "resumed", draft |-> pending']
  /\ UNCHANGED <<source, history, session, opened, overwritten, put>>

\* resumeDraft: the draft becomes one of the session, of the same generation.
ResumeDraft ==
  /\ call = None /\ session # None /\ session.recovery # None
  /\ pending = session.recovery /\ pending.base = session.base
  /\ pending' = [pending EXCEPT !.session = session.id]
  /\ call' = [step |-> "resumed", draft |-> pending']
  /\ UNCHANGED <<source, history, session, opened, overwritten, put>>

DraftResumed ==
  /\ call # None /\ call.step = "resumed"
  /\ session' = [session EXCEPT !.generation = call.draft.generation, !.recovery = None] /\ call' = None
  /\ UNCHANGED <<source, pending, history, opened, overwritten, put>>

-----------------------------------------------------------------------------
\* Another program, or the same folder under another link, writes or deletes the document; a coordinated
\* access is not interrupted.
Foreign ==
  /\ call # None => call.step # "archived"
  /\ source' \in Contents \union {None}
  /\ UNCHANGED <<pending, history, session, call, opened, overwritten, put>>

\* The process ends.
Crash ==
  /\ session' = None /\ call' = None
  /\ UNCHANGED <<source, pending, history, opened, overwritten, put>>

Next ==
  \/ Open \/ Close
  \/ \E generation \in Generations, text \in Contents : PersistDraft(generation, text)
  \/ DraftPersisted \/ Save \/ Archive \/ Replace \/ Complete \/ GiveUp \/ ResumeDraft \/ DraftResumed
  \/ Foreign \/ Crash

Spec == Init /\ [][Next]_vars

-----------------------------------------------------------------------------
\* A version a save replaced is the base of an archived draft ("Do not write the source unless its recovery
\* history has been stored first", LinkedDocumentStore.save).
ReplacedIsRecoverable == \A content \in overwritten : \E draft \in history : draft.base = content

\* An edit that was acknowledged and not saved is the pending draft, of this session and of its base
\* (README: "writes the base and edited text locally before acknowledging a generation").
DraftsAreDurable ==
  session # None /\ session.generation > session.saved =>
    /\ pending # None /\ pending.session = session.id /\ pending.base = session.base
    /\ pending.generation >= session.generation
    /\ call = None => pending.generation = session.generation

\* A draft leaves the journal for a later one of its session and its base, when another session takes it up
\* with all it holds, or after it was archived and written ("Pending work is never subject to age-based
\* eviction", DraftJournal).
Succeeds ==
  \/ pending = None \/ pending' = pending
  \/ /\ pending' # None /\ pending'.session = pending.session /\ pending'.base = pending.base
     /\ pending'.generation > pending.generation
  \/ /\ session # None /\ session.recovery = pending
     /\ pending' = [pending EXCEPT !.session = session.id]
  \/ pending' = None /\ pending \in history /\ pending.text \in put

\* What the store writes is a draft that was acknowledged and is still in the journal, over the version it
\* was made from (save: "The revision check and replacement share the same coordinated accessor").
ReplacesItsBase ==
  source' # source /\ call' # call =>
    /\ pending # None /\ pending.base = source /\ pending.text = source'
    /\ session # None /\ pending.session = session.id /\ pending.generation = session.generation

StoreStepsAreSafe == Succeeds /\ ReplacesItsBase
=============================================================================

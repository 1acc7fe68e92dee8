--------------------------- MODULE ReaderLibrary ----------------------------
(***************************************************************************)
(* The library of the iOS reader and the documents the system opens in it. *)
(* The native library serves one call after the other (the queue of        *)
(* ReaderPlugin).  A document opened from another application is imported   *)
(* there, put into an inbox of the Rust process and announced; the page    *)
(* drains the inbox one item at a time and acknowledges each (Drain).      *)
(* Meanwhile the user opens, imports and removes documents, and the page   *)
(* may be loaded anew at any time.                                         *)
(*                                                                         *)
(* A document is its collection and its path; a collection is a number     *)
(* that is used once, as a UUID is.  Contents, positions, sheets other     *)
(* than the question of a removal, the search and the settings are left    *)
(* out.                                                                    *)
(***************************************************************************)
EXTENDS Naturals, Sequences, Functions

CONSTANTS
  None,
  Books,          \* documents imported earlier, all of collection 0
  MaxDeliveries,  \* documents the system opens
  MaxMoves,       \* what the system and the user do
  MaxFaults       \* calls that fail without a reason of their own, and pages loaded anew

LibraryAssumption ==
  /\ \A book \in Books : book[1] = 0
  /\ None \notin Books /\ MaxDeliveries \in Nat /\ MaxMoves \in Nat /\ MaxFaults \in Nat

VARIABLES
  store,       \* the documents of the native library
  made,        \* collections made since
  calls,       \* calls the native library has not answered, in order
  picker,      \* whose call the document picker ends, None when it is not shown
  inbox,       \* OpenedDocument: [id, doc], doc None when the import failed
  page,        \* entries, active, busy and remove of ReaderApp; asked: what was asked for last
  drain,       \* running and changed of subscribeToOpenedDocuments, its place and its items
  listening,   \* "asked", "on" or "failed": the registration for reader://document-opened
  notified,    \* an event on its way to the listener
  settled,     \* items that were shown or reported, or that the user went past
  behind,      \* the page was not told of a change: a list failed, or the call was of an earlier page
  deliveries, clicks, faults

vars == <<store, made, calls, picker, inbox, page, drain, listening, notified, settled, behind,
          deliveries, clicks, faults>>

Fresh == 1..MaxMoves
AllDocuments == Books \union (Fresh \X {1})
Owners == {"open", "drain", "page", "import", "remove", "gone"}

\* "current" is generation === request.current, for those who compare it.
Call(kind, doc, by) ==
  [kind |-> kind, doc |-> doc, by |-> by, current |-> TRUE, done |-> FALSE, result |-> None]

TypeOK ==
  /\ store \subseteq AllDocuments /\ made \in 0..MaxMoves
  /\ \A i \in DOMAIN calls :
       /\ calls[i].kind \in {"read", "list", "remove", "import"} /\ calls[i].by \in Owners
       /\ calls[i].doc \in AllDocuments \union {None} /\ calls[i].done \in BOOLEAN
  /\ picker \in {None, "import", "gone"}
  /\ \A i \in DOMAIN inbox : inbox[i].doc \in AllDocuments \union {None} /\ inbox[i].id \in 1..MaxDeliveries
  /\ page.entries \subseteq AllDocuments /\ {page.active, page.asked, page.remove} \subseteq AllDocuments \union {None}
  /\ page.busy \in BOOLEAN /\ drain.step \in {"idle", "pending", "next", "read", "list", "acknowledge"}
  /\ listening \in {"asked", "on", "failed"} /\ notified \in BOOLEAN /\ behind \in BOOLEAN
  /\ settled \subseteq 1..MaxDeliveries /\ deliveries \in 0..MaxDeliveries /\ clicks \in 0..MaxMoves
  /\ faults \in 0..MaxFaults

NoDrain == [running |-> FALSE, changed |-> FALSE, step |-> "idle", items |-> <<>>, failed |-> FALSE]
NewPage == [entries |-> {}, active |-> None, busy |-> FALSE, remove |-> None, asked |-> None]

\* A page that is loaded lists the library and registers for events.
Init ==
  /\ store = Books /\ made = 0 /\ calls = <<Call("list", None, "page")>> /\ picker = None /\ inbox = <<>>
  /\ page = NewPage /\ drain = NoDrain /\ listening = "asked" /\ notified = FALSE
  /\ settled = {} /\ behind = FALSE
  /\ deliveries = 0 /\ clicks = 0 /\ faults = 0

Fault == faults < MaxFaults /\ faults' = faults + 1

-----------------------------------------------------------------------------
\* drain(), when it is asked for and when its loop asks again.
Again == [drain EXCEPT !.running = TRUE, !.changed = FALSE, !.step = "pending", !.items = <<>>, !.failed = FALSE]
Drained == IF drain.running THEN [drain EXCEPT !.changed = TRUE] ELSE Again
\* The call it waits for failed.
Failed == [NoDrain EXCEPT !.failed = TRUE]

\* pending_open_documents is answered.
Pended ==
  /\ drain.step = "pending"
  /\ \/ drain' = [drain EXCEPT !.step = "next", !.items = inbox] /\ UNCHANGED faults
     \/ Fault /\ drain' = Failed
  /\ UNCHANGED inbox

\* acknowledge_open_document; when it fails it may have been carried out.
Acknowledge ==
  LET rest == SelectSeq(inbox, LAMBDA item : item.id # Head(drain.items).id)
  IN /\ drain.step = "acknowledge"
     /\ \/ inbox' = rest /\ drain' = [drain EXCEPT !.step = "next", !.items = Tail(@)] /\ UNCHANGED faults
        \/ Fault /\ inbox' \in {inbox, rest} /\ drain' = Failed

\* ++request.current
Superseded == [i \in DOMAIN calls |-> IF calls[i].by \in {"open", "drain"} THEN [calls[i] EXCEPT !.current = FALSE] ELSE calls[i]]

\* Mutant: an item is acknowledged before it is shown.
HastyConsume ==
  /\ drain.step = "next" /\ drain.items # <<>>
  /\ inbox' = SelectSeq(inbox, LAMBDA item : item.id # Head(drain.items).id)
  /\ IF Head(drain.items).doc = None
     THEN settled' = settled \union {Head(drain.items).id} /\ drain' = [drain EXCEPT !.step = "acknowledge"] /\ UNCHANGED <<calls, page>>
     ELSE /\ calls' = Append(Superseded, Call("read", Head(drain.items).doc, "drain"))
          /\ page' = [page EXCEPT !.busy = TRUE, !.asked = Head(drain.items).doc]
          /\ drain' = [drain EXCEPT !.step = "read"] /\ UNCHANGED settled

\* The loop takes the next item: a failed import is reported, a document is read to be shown.
Consume ==
  /\ drain.step = "next" /\ drain.items # <<>>
  /\ LET item == Head(drain.items)
     IN \/ /\ item.doc = None
           /\ settled' = settled \union {item.id} /\ drain' = [drain EXCEPT !.step = "acknowledge"]
           /\ UNCHANGED <<calls, page>>
        \/ /\ item.doc # None
           /\ calls' = Append(Superseded, Call("read", item.doc, "drain"))
           /\ page' = [page EXCEPT !.busy = TRUE, !.asked = item.doc]
           /\ drain' = [drain EXCEPT !.step = "read"] /\ UNCHANGED settled
  /\ UNCHANGED inbox

\* Mutant: what was announced while the inbox was drained is not looked at.
HastyLoopEnds ==
  /\ drain.step = "next" /\ drain.items = <<>> /\ drain' = NoDrain

\* No item is left: while (active && changed).
LoopEnds ==
  /\ drain.step = "next" /\ drain.items = <<>>
  /\ drain' = IF drain.changed THEN Again ELSE NoDrain

Drains ==
  \/ (Pended \/ Acknowledge) /\ UNCHANGED <<calls, page, settled>>
  \/ Consume /\ UNCHANGED faults
  \/ LoopEnds /\ UNCHANGED <<inbox, calls, page, settled, faults>>

-----------------------------------------------------------------------------
\* An answer of consume(): what was read is shown with the list, unless the user went elsewhere.
DrainAnswered(call, ok) ==
  /\ call.by = "drain"
  /\ \/ /\ call.kind = "read" /\ ok
        /\ calls' = Append(Tail(calls), [Call("list", call.doc, "drain") EXCEPT !.current = call.current])
        /\ drain' = [drain EXCEPT !.step = "list"] /\ UNCHANGED <<page, settled>>
     \/ /\ call.kind = "list" /\ ok
        /\ calls' = Tail(calls) /\ drain' = [drain EXCEPT !.step = "acknowledge"]
        /\ page' = IF call.current
                   THEN [page EXCEPT !.entries = call.result, !.active = call.doc, !.remove = None, !.busy = FALSE]
                   ELSE page
        /\ settled' = settled \union {Head(drain.items).id}
     \/ /\ ~ok /\ calls' = Tail(calls) /\ drain' = Failed
        /\ page' = [page EXCEPT !.busy = @ /\ ~call.current] /\ UNCHANGED settled

\* Mutant: a document that was read late is shown all the same.
LateOpenAnswered(call, ok) ==
  /\ call.by = "open" /\ calls' = Tail(calls)
  /\ page' = [page EXCEPT !.active = IF ok THEN call.doc ELSE @, !.busy = @ /\ ~call.current]
  /\ UNCHANGED <<drain, settled>>

\* The end of open.
OpenAnswered(call, ok) ==
  /\ call.by = "open" /\ calls' = Tail(calls)
  /\ page' = IF call.current THEN [page EXCEPT !.active = IF ok THEN call.doc ELSE @, !.busy = FALSE] ELSE page
  /\ UNCHANGED <<drain, settled>>

\* An import or a removal lists the library again when it succeeded, and the page is no longer busy after it.
ChangeAnswered(call, ok) ==
  /\ call.by \in {"import", "remove"}
  /\ calls' = IF ok /\ call.kind # "list" THEN Append(Tail(calls), Call("list", None, call.by)) ELSE Tail(calls)
  /\ page' = [page EXCEPT !.remove = IF call.kind = "remove" /\ ok THEN None ELSE @,
                          !.entries = IF call.kind = "list" /\ ok THEN call.result ELSE @,
                          !.busy = @ /\ ok /\ call.kind # "list"]
  /\ UNCHANGED <<drain, settled>>

\* refresh() of the page, and the calls of a page that is gone.
OtherAnswered(call, ok) ==
  /\ call.by \in {"page", "gone"} /\ calls' = Tail(calls)
  /\ page' = IF call.by = "page" /\ ok THEN [page EXCEPT !.entries = call.result] ELSE page
  /\ UNCHANGED <<drain, settled>>

Answered(call, ok) ==
  DrainAnswered(call, ok) \/ OpenAnswered(call, ok) \/ ChangeAnswered(call, ok) \/ OtherAnswered(call, ok)

\* The native library serves the first call; only the answer of a list, which tells more than whether it
\* was carried out, may come later than it was read.
Serve ==
  /\ calls # <<>>
  /\ LET call == Head(calls)
         Unheard == behind' = (behind \/ call.by = "gone")
     IN \/ call.kind = "read" /\ Answered(call, call.doc \in store) /\ UNCHANGED <<store, made, behind, faults>>
        \/ /\ call.kind = "list" /\ ~call.done
           /\ calls' = [calls EXCEPT ![1].done = TRUE, ![1].result = store]
           /\ behind' = (behind /\ ~call.current)
           /\ UNCHANGED <<store, made, page, drain, settled, faults>>
        \/ call.done /\ Answered(call, TRUE) /\ UNCHANGED <<store, made, behind, faults>>
        \/ /\ call.kind = "remove"
           /\ store' = {doc \in store : doc[1] # call.doc[1]} /\ Answered(call, store' # store)
           /\ Unheard /\ UNCHANGED <<made, faults>>
        \/ /\ call.kind = "import"  \* importSnapshot
           /\ store' = store \union {<<made + 1, 1>>} /\ made' = made + 1 /\ Answered(call, TRUE)
           /\ Unheard /\ UNCHANGED faults
        \/ /\ call.kind = "import"  \* the document is too large, not UTF-8, ...
           /\ Answered(call, FALSE) /\ UNCHANGED <<store, made, behind, faults>>
        \/ /\ call.kind # "import" /\ ~call.done /\ Fault /\ Answered(call, FALSE)
           /\ behind' = (behind \/ call.kind = "list") /\ UNCHANGED <<store, made>>

-----------------------------------------------------------------------------
\* RunEvent::Opened: the document is imported, or refused, and put into the inbox, and that is announced.
\* Nothing between these steps looks at more than one of them.
Open(ok) ==
  /\ deliveries < MaxDeliveries /\ deliveries + clicks < MaxMoves /\ deliveries' = deliveries + 1
  /\ store' = IF ok THEN store \union {<<made + 1, 1>>} ELSE store
  /\ made' = IF ok THEN made + 1 ELSE made
  /\ inbox' = Append(inbox, [id |-> deliveries + 1, doc |-> IF ok THEN <<made + 1, 1>> ELSE None])
  /\ notified' = (notified \/ listening = "on")

\* Mutant: the page that has registered for events does not look what came before.
DeafListen ==
  /\ listening = "asked" /\ listening' = "on" /\ UNCHANGED <<drain, faults>>

\* bridge.listen(refresh).then(refresh)
Listen ==
  /\ listening = "asked"
  /\ \/ listening' = "on" /\ drain' = Drained /\ UNCHANGED faults
     \/ Fault /\ listening' = "failed" /\ UNCHANGED drain

Notify == notified /\ notified' = FALSE /\ drain' = Drained

Clicks == deliveries + clicks < MaxMoves /\ clicks' = clicks + 1
\* No sheet and no picker is over the page.
Touchable == picker = None /\ page.remove = None

\* The window is focused or visible again.
Resume == Clicks /\ drain' = Drained

\* open, of the library or of a link.
OpenEntry(doc) ==
  /\ Clicks /\ Touchable /\ doc \in page.entries
  /\ IF page.active = None THEN ~page.busy ELSE doc[1] = page.active[1]
  /\ calls' = Append(Superseded, Call("read", doc, "open"))
  /\ page' = [page EXCEPT !.busy = TRUE, !.asked = doc]
  /\ UNCHANGED picker

\* Mutant: going back leaves it to the reading to end the busy state.
BusyBack ==
  /\ Clicks /\ Touchable /\ page.active # None
  /\ calls' = Append(Superseded, Call("list", None, "page"))
  /\ page' = [page EXCEPT !.active = None, !.asked = None] /\ UNCHANGED picker

\* The button back to the library.
Back ==
  /\ Clicks /\ Touchable /\ page.active # None
  /\ calls' = Append(Superseded, Call("list", None, "page"))
  /\ page' = [page EXCEPT !.active = None, !.asked = None, !.busy = FALSE]
  /\ UNCHANGED picker

\* The sheet that asks about a removal.
AskRemoval(doc) ==
  /\ Clicks /\ Touchable /\ page.active = None /\ doc \in page.entries
  /\ page' = [page EXCEPT !.remove = doc] /\ UNCHANGED <<calls, picker>>

Dismiss ==
  /\ page.remove # None /\ picker = None /\ page' = [page EXCEPT !.remove = None] /\ UNCHANGED <<calls, picker, clicks>>

ConfirmRemoval ==
  /\ Clicks /\ page.remove # None /\ picker = None /\ ~page.busy
  /\ calls' = Append(calls, Call("remove", page.remove, "remove")) /\ page' = [page EXCEPT !.busy = TRUE]
  /\ UNCHANGED picker

\* importFiles shows the picker.
Import ==
  /\ Clicks /\ Touchable /\ page.active = None /\ ~page.busy
  /\ picker' = "import" /\ page' = [page EXCEPT !.busy = TRUE] /\ UNCHANGED calls

\* The picker ends: with a document, which is imported, or with none.
Picked ==
  /\ picker # None /\ picker' = None
  /\ \/ calls' = Append(calls, Call("import", None, picker))
     \/ calls' = IF picker = "import" THEN Append(calls, Call("list", None, "import")) ELSE calls

\* The page is loaded anew: what it waits for is answered to nobody.
Reload ==
  /\ Fault
  /\ LET pending == SelectSeq(calls, LAMBDA call : call.kind \in {"import", "remove"} /\ ~call.done)
     IN calls' = Append([i \in DOMAIN pending |-> [pending[i] EXCEPT !.by = "gone"]], Call("list", None, "page"))
  /\ page' = NewPage /\ drain' = NoDrain /\ listening' = "asked" /\ notified' = FALSE
  /\ picker' = IF picker = None THEN None ELSE "gone"
  /\ UNCHANGED <<store, made, inbox, settled, behind, deliveries, clicks>>

Touch ==
  /\ \/ (\E doc \in page.entries : OpenEntry(doc) \/ AskRemoval(doc))
     \/ Back \/ Dismiss \/ ConfirmRemoval \/ Import
  /\ UNCHANGED <<store, made, inbox, drain, listening, notified, settled, behind, deliveries, faults>>

\* What the process and the page owe to what was begun; the user ends a picker that is shown.
Served ==
  \/ Picked /\ UNCHANGED <<store, made, inbox, page, drain, listening, notified, settled, behind, deliveries, clicks, faults>>
  \/ Drains /\ UNCHANGED <<store, made, picker, listening, notified, behind, deliveries, clicks>>
  \/ Serve /\ UNCHANGED <<picker, inbox, listening, notified, deliveries, clicks>>
  \/ Listen /\ UNCHANGED <<store, made, calls, picker, inbox, page, notified, settled, behind, deliveries, clicks>>
  \/ Notify /\ UNCHANGED <<store, made, calls, picker, inbox, page, listening, settled, behind, deliveries, clicks, faults>>

Next ==
  \/ Served
  \/ \E ok \in BOOLEAN : Open(ok)
     /\ UNCHANGED <<calls, picker, page, drain, listening, settled, behind, clicks, faults>>
  \/ Resume /\ UNCHANGED <<store, made, calls, picker, inbox, page, listening, notified, settled, behind, deliveries, faults>>
  \/ Touch
  \/ Reload

FairSpec == Init /\ [][Next]_vars /\ WF_vars(Served)

-----------------------------------------------------------------------------
\* What comes on the screen is what was asked for last, by the user or by the system (request.current);
\* and an item leaves the inbox only after it was shown or reported, or the user had asked for something
\* else meanwhile ("retains cold start results until acknowledged", "replays it to a new subscriber").
ReaderStepsAreSound ==
  /\ page'.active # page.active => page'.active = page'.asked
  /\ \A i \in DOMAIN inbox : inbox[i] \notin Range(inbox') => inbox[i].id \in settled'

\* The page comes to rest: it is not busy, the inbox is empty unless the last attempt to drain it failed or
\* the page could not listen, and the library shown is the one there is.
Rests ==
  /\ calls = <<>> /\ picker = None /\ ~page.busy /\ ~drain.running
  /\ inbox = <<>> \/ drain.failed \/ listening = "failed"
  /\ (page.active = None /\ page.asked = None /\ ~drain.failed /\ listening = "on") => (page.entries = store \/ behind)
=============================================================================

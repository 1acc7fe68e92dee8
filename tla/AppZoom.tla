------------------------------ MODULE AppZoom ------------------------------
(***************************************************************************)
(* The zoomed canvas of the window (features/zoom): wheel and pinch gestures *)
(* move an elastic zoom, a timer settles it, an animation snaps it back to   *)
(* normal, and the text panes do not scroll meanwhile.                      *)
(*                                                                         *)
(* Four timers and frames are pending at once and each handler may cancel   *)
(* or start others.  A hidden window gets no frames, so that timers pass    *)
(* them.  Of the two timers the settling one is always due first (320 ms    *)
(* against 560 ms after the same event).                                    *)
(*                                                                         *)
(* A zoom is a level: 0 is every elastic zoom below normal, 1 is normal.    *)
(* Where the pointer holds the canvas, any position within its bounds may   *)
(* result.  One axis and one text pane are modelled.                        *)
(***************************************************************************)
EXTENDS Integers

CONSTANTS
  MaxZoom,      \* the largest level
  Widths,       \* widths of the window
  None,         \* no frame, no lock, no command
  MaxGestures,  \* bound on the events of gestures
  MaxChanges    \* bound on commands, resizes and scrolls

Normal == 1

ZoomAssumption ==
  /\ MaxZoom \in Nat /\ MaxZoom > Normal
  /\ Widths \subseteq Nat \ {0} /\ Widths # {}
  /\ MaxGestures \in Nat /\ MaxChanges \in Nat
  /\ None \notin Int

VARIABLES
  zoom, left,       \* the transform of the canvas: its level and its left edge
  canvas, window,   \* their widths
  zooming,          \* the mark appCanvasZooming of the document
  frame,            \* the level a requested frame will show
  anchored,         \* a gesture holds a point of the canvas
  settling,         \* the timer that ends a gesture
  snapping,         \* the animation back to normal
  locked, unlocking,\* the time of the scroll lock, and the timer that ends it
  pinched,          \* a native pinch was seen just now
  pane,             \* a text pane: where it is scrolled to, and where it is held
  asked,            \* (history) the level a command asked for, until the next gesture
  gestures, changes \* bounds: events left

view == <<zoom, left, canvas, window, zooming>>
timers == <<frame, anchored, settling, snapping, locked, unlocking>>
vars == <<view, timers, pinched, pane, asked, gestures, changes>>

Levels == 0..MaxZoom
Positions == 0..1

-----------------------------------------------------------------------------

\* clampCanvasTranslate: a small canvas stays inside the window, a large one covers it.
Bounds(level, size, width) ==
  LET rest == width - size * level IN IF rest >= 0 THEN 0..rest ELSE rest..0

Clamped(x, bounds) == CHOOSE y \in bounds : \A z \in bounds : (y - x) * (y - x) <= (z - x) * (z - x)

ClampCommitted(level) == IF level < Normal THEN Normal ELSE level

\* applyCanvasTransform while a gesture lasts: an elastic zoom may go below normal.
ShowElastic(level) ==
  /\ zoom' = level
  /\ left' \in Bounds(level, canvas, window)
  /\ zooming' = TRUE
  /\ UNCHANGED <<canvas, window>>

\* applyCanvasTransform without elasticity: normal has no translation.
ShowCommitted(level, x) ==
  /\ zoom' = ClampCommitted(level)
  /\ left' = IF zoom' = Normal THEN 0 ELSE Clamped(x, Bounds(zoom', canvas', window'))
  /\ zooming' = (zoom' > Normal)

\* The canvas and the window are as wide as before.
SameSizes == UNCHANGED <<canvas, window>>

Capture(p) == IF p.held = None THEN [p EXCEPT !.held = p.at] ELSE p
Restore(p) == IF p.held = None THEN p ELSE [p EXCEPT !.at = p.held]

\* Mutant: locks are kept.
ReleaseNothing(p) == p

Release(p) == [p EXCEPT !.held = None]

\* lockAppZoomScroll
Lock ==
  /\ locked' = TRUE
  /\ unlocking' = TRUE
  /\ pane' = Restore(Capture(pane))

Gesturing == anchored \/ frame # None \/ settling \/ snapping
Frozen == locked \/ Gesturing

-----------------------------------------------------------------------------

Init ==
  /\ zoom = Normal /\ left = 0 /\ zooming = FALSE
  /\ window \in Widths /\ canvas = window
  /\ frame = None /\ anchored = FALSE /\ settling = FALSE /\ snapping = FALSE
  /\ locked = FALSE /\ unlocking = FALSE /\ pinched = FALSE
  /\ pane = [at |-> 0, held |-> None]
  /\ asked = None /\ gestures = MaxGestures /\ changes = MaxChanges

\* Bounds
Gesture == gestures > 0 /\ gestures' = gestures - 1 /\ UNCHANGED changes
Change == changes > 0 /\ changes' = changes - 1 /\ UNCHANGED gestures
Passing == UNCHANGED <<gestures, changes>>

\* scheduleZoomAtPoint and scheduleZoomSettle: the gesture keeps its first anchor, ends an
\* animation and shares a frame that is already requested.
Schedule(level) ==
  /\ Lock
  /\ zooming' = TRUE
  /\ snapping' = FALSE
  /\ anchored' = TRUE
  /\ frame' = level
  /\ settling' = TRUE
  /\ UNCHANGED <<zoom, left, canvas, window>>

\* handleAppZoomWheel with the zoom modifier: noise of a native pinch is dropped.
ZoomWheel(level) ==
  /\ Gesture /\ ~pinched
  /\ Schedule(level)
  /\ asked' = None
  /\ UNCHANGED pinched

\* handleNativePinchPayload: the last event of a pinch only settles.
Pinch(level) ==
  /\ Gesture
  /\ pinched' = TRUE
  /\ asked' = None
  /\ \/ Schedule(level)
     \/ /\ Lock /\ zooming' = TRUE /\ settling' = TRUE
        /\ UNCHANGED <<zoom, left, canvas, window, frame, anchored, snapping>>

\* panZoomViewport and controlledInnerScroll: a zoomed canvas is moved first, and the
\* pane below the pointer when the canvas is at its border.
PanOrScroll ==
  \/ \E x \in Bounds(zoom, canvas, window) \ {left} :
       left' = x /\ zooming' = TRUE /\ pane' = Restore(Capture(pane))
  \/ /\ UNCHANGED <<left, zooming>>
     /\ \E p \in Positions : pane' = [at |-> p, held |-> p]

\* handleAppZoomWheel without the modifier: swallowed while a gesture lasts, and left to
\* the pane at normal zoom.
Wheel ==
  /\ Change
  /\ IF pinched \/ Frozen
     THEN pane' = Restore(pane) /\ UNCHANGED <<left, zooming>>
     ELSE IF zoom > Normal
     THEN PanOrScroll
     ELSE (\E p \in Positions : pane' = [pane EXCEPT !.at = p]) /\ UNCHANGED <<left, zooming>>
  /\ UNCHANGED <<zoom, canvas, window, timers, pinched, asked>>

\* Mutant: a scroll during a gesture becomes the position that is held.
ScrollHeld(p) ==
  /\ Change
  /\ pane' = IF pane.held # None THEN [at |-> p, held |-> p] ELSE [pane EXCEPT !.at = p]
  /\ UNCHANGED <<view, timers, pinched, asked>>

\* handleScrollCapture: a pane scrolled by something else (a scroll bar, a key, a search)
\* goes back while a gesture lasts; a zoomed canvas at rest holds the new position.
Scroll(p) ==
  /\ Change
  /\ pane' = IF pane.held = None THEN [pane EXCEPT !.at = p]
             ELSE IF Frozen THEN Restore(pane) ELSE [at |-> p, held |-> p]
  /\ UNCHANGED <<view, timers, pinched, asked>>

\* A pane is replaced; its lock goes with the element.
ReplacePane ==
  /\ Change
  /\ pane' = [at |-> 0, held |-> None]
  /\ UNCHANGED <<view, timers, pinched, asked>>

\* placeEditorCursorDuringAppZoom: the cursor moves, the pane does not.
PlaceCursor ==
  /\ Change
  /\ ~Frozen /\ zoom > Normal
  /\ pane' = [pane EXCEPT !.held = pane.at]
  /\ UNCHANGED <<view, timers, pinched, asked>>

-----------------------------------------------------------------------------

\* The frame scheduleZoomAtPoint requested.
ShowFrame ==
  /\ frame # None
  /\ ShowElastic(frame)
  /\ frame' = None
  /\ Passing
  /\ UNCHANGED <<anchored, settling, snapping, locked, unlocking, pinched, pane, asked>>

\* settleZoomAfterGesture: shows a frame that is still requested, and goes back from below
\* normal; otherwise what the last frame showed is kept as it is.
Settle ==
  /\ settling /\ settling' = FALSE
  /\ Lock /\ SameSizes
  /\ frame' = None /\ anchored' = FALSE
  /\ LET level == IF frame = None THEN zoom ELSE frame
     IN \E x \in IF frame = None THEN {left} ELSE Bounds(level, canvas, window) :
          IF level = Normal
          THEN ShowCommitted(Normal, 0) /\ UNCHANGED snapping
          ELSE /\ zoom' = level /\ left' = x /\ zooming' = TRUE
               /\ snapping' = (snapping \/ level < Normal)
  /\ Passing
  /\ UNCHANGED <<pinched, asked>>

\* Mutant: the animation measures its time from its last frame.
SnapRestarted ==
  /\ snapping /\ Lock /\ ShowElastic(0) /\ Passing
  /\ UNCHANGED <<frame, anchored, settling, snapping, pinched, asked>>

\* animateZoomTo: every frame locks again; the last commits.
Snap ==
  /\ snapping
  /\ Lock
  /\ \/ ShowElastic(0) /\ UNCHANGED snapping
     \/ SameSizes /\ ShowCommitted(Normal, 0) /\ snapping' = FALSE
  /\ Passing
  /\ UNCHANGED <<frame, anchored, settling, pinched, asked>>

\* The timer of lockAppZoomScroll: at normal zoom the panes are free again.
Unlock ==
  /\ unlocking /\ ~locked /\ ~settling
  /\ unlocking' = FALSE
  /\ SameSizes
  /\ IF zoom <= Normal
     THEN ShowCommitted(Normal, 0) /\ pane' = Release(Restore(pane))
     ELSE zooming' = TRUE /\ pane' = Restore(pane) /\ UNCHANGED <<zoom, left>>
  /\ Passing
  /\ UNCHANGED <<frame, anchored, settling, snapping, locked, pinched, asked>>

\* Time passes: a pinch is forgotten 160 ms after its last event, a lock 520 ms.
PinchPasses ==
  /\ pinched /\ pinched' = FALSE
  /\ Passing /\ UNCHANGED <<view, timers, pane, asked>>

LockPasses ==
  /\ locked /\ ~pinched /\ ~settling
  /\ locked' = FALSE
  /\ Passing
  /\ UNCHANGED <<view, frame, anchored, settling, snapping, unlocking, pinched, pane, asked>>

\* Mutant: a command leaves the requested frame and the settling timer alone.
CommandAmongFrames(level) ==
  /\ Change
  /\ level \in {zoom - 1, zoom + 1, Normal} /\ level <= MaxZoom
  /\ SameSizes /\ ShowCommitted(level, left)
  /\ asked' = zoom'
  /\ pane' = IF zoom' > Normal THEN Restore(Capture(pane)) ELSE Release(Restore(pane))
  /\ snapping' = FALSE /\ anchored' = FALSE /\ locked' = FALSE /\ unlocking' = FALSE
  /\ pinched' = FALSE
  /\ UNCHANGED <<frame, settling>>

\* runAppZoomCommand (in, out, reset): every gesture in hand is over.
Command(level) ==
  /\ Change
  /\ level \in {zoom - 1, zoom + 1, Normal} /\ level <= MaxZoom
  /\ zoom' = ClampCommitted(level)
  /\ left' \in IF zoom' = Normal THEN {0} ELSE Bounds(zoom', canvas, window)
  /\ zooming' = (zoom' > Normal) /\ SameSizes
  /\ asked' = zoom'
  /\ frame' = None /\ settling' = FALSE /\ snapping' = FALSE /\ anchored' = FALSE
  /\ locked' = FALSE /\ unlocking' = FALSE /\ pinched' = FALSE
  /\ pane' = IF zoom' > Normal THEN Restore(Capture(pane)) ELSE Release(Restore(pane))

\* syncCanvasViewportBounds: a gesture in hand is not disturbed, and the canvas keeps its
\* old width then.
Resize(width) ==
  /\ Change
  /\ window' = width
  /\ IF anchored \/ frame # None \/ snapping
     THEN UNCHANGED <<zoom, left, canvas, zooming>>
     ELSE canvas' = width /\ ShowCommitted(zoom, left)
  /\ UNCHANGED <<timers, pinched, pane, asked>>

Quiet == ~Frozen /\ ~unlocking /\ ~pinched /\ gestures = 0 /\ changes = 0 /\ UNCHANGED vars

Input ==
  \/ \E level \in Levels : ZoomWheel(level) \/ Pinch(level) \/ Command(level)
  \/ Wheel
  \/ \E p \in Positions : Scroll(p)
  \/ ReplacePane
  \/ PlaceCursor
  \/ \E width \in Widths : Resize(width)

Timer == ShowFrame \/ Settle \/ Snap \/ Unlock \/ PinchPasses \/ LockPasses

Next == Input \/ Timer \/ Quiet

Spec == Init /\ [][Next]_vars

\* The browser fires its timers, shows frames in a window that is visible, and an animation
\* comes to its end.
FairSpec ==
  /\ Spec
  /\ WF_vars(ShowFrame) /\ WF_vars(Settle) /\ WF_vars(Unlock)
  /\ WF_vars(PinchPasses) /\ WF_vars(LockPasses)
  /\ SF_vars(Snap /\ ~snapping')

-----------------------------------------------------------------------------

TypeOK ==
  /\ zoom \in Levels /\ left \in Int /\ canvas \in Widths /\ window \in Widths
  /\ {zooming, anchored, settling, snapping, locked, unlocking, pinched} \subseteq BOOLEAN
  /\ frame \in Levels \cup {None} /\ asked \in Levels \cup {None}
  /\ pane.at \in Positions /\ pane.held \in Positions \cup {None}

\* When no gesture and no timer is left, the zoom is one the user may keep, normal zoom is
\* untranslated, the document is marked as zooming exactly if it is zoomed, and a pane is
\* held only under a zoomed canvas (settleZoomAfterGesture, lockAppZoomScroll).
RestIsCommitted ==
  ~Gesturing /\ ~unlocking =>
    /\ zoom >= Normal
    /\ zoom = Normal => left = 0
    /\ zooming = (zoom > Normal)
    /\ pane.held # None => zoom > Normal

\* What a command asked for stays until the next gesture: nothing queued by a gesture
\* before it is shown after it (runAppZoomCommand cancels frames, timers and animation).
CommandsStay == asked # None => zoom = asked

\* While a gesture lasts a held pane stays where it is held (restoreInnerScrollLocks), and
\* a pane is never held anywhere else than where it was when the gesture took it.
GesturesHoldText ==
  [][Frozen /\ pane.held # None /\ pane'.held # None => pane'.at = pane.held /\ pane'.held = pane.held]_vars

\* Every gesture comes to rest: no elastic zoom, lock or mark of zooming is left behind.
GesturesEnd == []<>(~Gesturing /\ ~unlocking /\ ~locked)
=============================================================================

---------------------------- MODULE ImageViewer ----------------------------
(***************************************************************************)
(* An image of the reading view (MarkdownImage) and the viewer it opens over  *)
(* the window (ImageViewer), where wheel, trackpad gestures, fingers and the  *)
(* pointer move and scale it.                                              *)
(*                                                                         *)
(* Both axes behave alike: there is one here.  A scale is a number of         *)
(* quarters, so 4 is the natural size.  The point of the image under a        *)
(* gesture is a fraction, <<distance, scale>>, and never rounded.           *)
(***************************************************************************)
EXTENDS Integers, FiniteSets

CONSTANTS
  Places, ImageWidths,  \* documents the image may be in, and its widths there
  None,
  Viewport, Padding,    \* width of the canvas, and what a fitted image leaves of it
  MinScale, MaxScale,
  Points, Ratios,       \* where the user points, and how far one event zooms: <<n, d>> is n/d
  MaxEvents             \* bound on what the user does

One == 4
ViewerAssumption ==
  /\ None \notin Places /\ MinScale \in 1..One /\ MaxScale \in Nat /\ MaxScale >= One
  /\ Viewport \in Nat /\ Padding \in 0..Viewport /\ MaxEvents \in Nat
  /\ Points \subseteq 0..Viewport /\ \A r \in Ratios : r[1] \in Nat \ {0} /\ r[2] \in Nat \ {0}

VARIABLES
  place, image, requests,   \* where the image is now, what is known of it, answers to come
  wanted,                   \* the viewer is asked for
  width,                    \* what the image element of the viewer has loaded
  view,                     \* scale and translation
  fitted, drag, dragged, gesture, recent, touch,
  pressed,                  \* how far the pressed pointer ever was from where it went down
  untouched, kept,          \* ghosts: nothing moved the view since it was fitted, or since the gesture's last change
  events

viewer == <<width, view, fitted, drag, dragged, gesture, recent, touch, pressed, untouched, kept>>
vars == <<place, image, requests, wanted, viewer, events>>

Visible == wanted /\ image.status = "ready"
Doing == events > 0 /\ events' = events - 1

Clamp(n, low, high) == IF n < low THEN low ELSE IF n > high THEN high ELSE n
Scaled(n, ratio) == Clamp((n * ratio[1]) \div ratio[2], MinScale, MaxScale)

FitScale(w) == Clamp(Clamp((One * (Viewport - Padding)) \div w, 0, One), MinScale, MaxScale)
Fit(w) == [scale |-> FitScale(w), at |-> (Viewport - (w * FitScale(w)) \div One) \div 2]

\* getContentPointAtFocus: the point of the image that is shown at the focus.
ContentAt(v, focus) == <<focus - v.at, v.scale>>
SamePoint(p, q) == p[1] * q[2] = q[1] * p[2]

\* Mutant: the image is placed for the scale asked for, and shown with the one that is allowed.
ZoomToUnclamped(content, focus, base, ratio) ==
  [scale |-> Scaled(base, ratio), at |-> focus - (content[1] * ((base * ratio[1]) \div ratio[2])) \div content[2]]

\* zoomToScaleAtLockedContentPoint
ZoomTo(content, focus, base, ratio) ==
  [scale |-> Scaled(base, ratio), at |-> focus - (content[1] * Scaled(base, ratio)) \div content[2]]

-----------------------------------------------------------------------------
(* MarkdownImage *)

Request(p) == /\ image' = [status |-> "loading", of |-> None, width |-> 0]
              /\ requests' = requests \cup {p}

\* A new viewer: the image may be there at once, or be loaded later.
Mounted(w) ==
  \E there \in BOOLEAN :
    /\ width' = (IF there THEN w ELSE 0)
    /\ view' = IF there THEN Fit(w) ELSE [scale |-> One, at |-> 0]
    /\ fitted' = there /\ untouched' = there
    /\ drag' = None /\ dragged' = FALSE /\ gesture' = None /\ recent' = FALSE /\ touch' = None
    /\ pressed' = 0 /\ kept' = FALSE

\* The document is renamed: the image is asked for again and the viewer, if open, waits.
Moves(p) ==
  /\ Doing /\ p # place /\ p \notin requests /\ place' = p /\ Request(p)
  /\ UNCHANGED <<wanted, viewer>>

\* Mutant: an answer for where the image was is taken as well.
ResolvedLate(p) ==
  /\ p \in requests /\ requests' = requests \ {p}
  /\ \E w \in ImageWidths \cup {0} :
       /\ image' = [status |-> IF w = 0 THEN "error" ELSE "ready", of |-> p, width |-> w]
       /\ IF w > 0 /\ wanted THEN Mounted(w) ELSE UNCHANGED viewer
  /\ UNCHANGED <<place, wanted, events>>

\* Only the answer to the last question counts; a viewer that was open opens anew.
Resolved(p) ==
  /\ p \in requests /\ requests' = requests \ {p}
  /\ IF p # place THEN UNCHANGED <<image, viewer>>
     ELSE \E w \in ImageWidths \cup {0} :
       /\ image' = [status |-> IF w = 0 THEN "error" ELSE "ready", of |-> p, width |-> w]
       /\ IF w > 0 /\ wanted THEN Mounted(w) ELSE UNCHANGED viewer
  /\ UNCHANGED <<place, wanted, events>>

Open ==
  /\ Doing /\ image.status = "ready" /\ ~wanted /\ wanted' = TRUE /\ Mounted(image.width)
  /\ UNCHANGED <<place, image, requests>>

Close == Doing /\ Visible /\ wanted' = FALSE /\ UNCHANGED <<place, image, requests, viewer>>

-----------------------------------------------------------------------------
(* ImageViewer *)

Handling == Visible /\ UNCHANGED <<place, image, requests, wanted>>
Moved == untouched' = FALSE /\ kept' = FALSE
Rest == UNCHANGED <<width, fitted>>

\* onLoad: an image that could not be fitted when the viewer opened.
Load ==
  /\ Handling /\ width = 0 /\ width' = image.width /\ fitted' = TRUE
  /\ IF fitted THEN UNCHANGED <<view, untouched, kept>> ELSE view' = Fit(image.width) /\ untouched' = TRUE /\ kept' = FALSE
  /\ UNCHANGED <<drag, dragged, gesture, recent, touch, pressed, events>>

\* resetView, from the button or a double click; it does nothing before the image is loaded.
Reset ==
  /\ Doing /\ Handling /\ width > 0 /\ view' = Fit(width) /\ untouched' = TRUE /\ kept' = FALSE
  /\ Rest /\ UNCHANGED <<drag, dragged, gesture, recent, touch, pressed>>

\* A pinch that arrives as a wheel.  Where there is no point to zoom at, it is the middle.
WheelZoom(focus, ratio) ==
  /\ Doing /\ Handling /\ ~recent /\ Moved
  /\ view' = ZoomTo(ContentAt(view, focus), focus, view.scale, ratio)
  /\ Rest /\ UNCHANGED <<drag, dragged, gesture, recent, touch, pressed>>

WheelPan(distance) ==
  /\ Doing /\ Handling /\ ~recent /\ Moved /\ view' = [view EXCEPT !.at = @ - distance]
  /\ Rest /\ UNCHANGED <<drag, dragged, gesture, recent, touch, pressed>>

\* The wheel is heard again 120 ms after the last event of a gesture.
Quiet ==
  /\ Handling /\ recent /\ recent' = FALSE /\ Rest
  /\ UNCHANGED <<view, drag, dragged, gesture, touch, pressed, untouched, kept, events>>

\* A gesture whose end was not seen keeps its point.
GestureStart(focus) ==
  /\ Doing /\ Handling /\ recent' = TRUE
  /\ gesture' = IF gesture # None THEN [gesture EXCEPT !.base = view.scale]
                ELSE [focus |-> focus, content |-> ContentAt(view, focus), base |-> view.scale]
  /\ kept' = IF gesture # None THEN kept ELSE TRUE
  /\ Rest /\ UNCHANGED <<view, drag, dragged, touch, pressed, untouched>>

GestureChange(ratio) ==
  /\ Doing /\ Handling /\ gesture # None /\ recent' = TRUE
  /\ view' = ZoomTo(gesture.content, gesture.focus, gesture.base, ratio)
  /\ untouched' = FALSE /\ kept' = TRUE
  /\ Rest /\ UNCHANGED <<drag, dragged, gesture, touch, pressed>>

GestureEnd ==
  /\ Handling /\ gesture # None /\ gesture' = None /\ recent' = TRUE /\ kept' = FALSE
  /\ Rest /\ UNCHANGED <<view, drag, dragged, touch, pressed, untouched, events>>

\* The left button of a mouse.
PointerDown(x) ==
  /\ Doing /\ Handling /\ drag = None
  /\ drag' = [start |-> x, at |-> view.at] /\ dragged' = FALSE /\ pressed' = 0
  /\ Rest /\ UNCHANGED <<view, gesture, recent, touch, untouched, kept>>

\* Any distance is more than the three pixels that are no drag.
PointerMove(x) ==
  /\ Doing /\ Handling /\ drag # None
  /\ view' = [view EXCEPT !.at = drag.at + x - drag.start]
  /\ dragged' = (dragged \/ x # drag.start)
  /\ pressed' = IF x # drag.start THEN 1 ELSE pressed
  /\ IF view' = view THEN UNCHANGED <<untouched, kept>> ELSE Moved
  /\ Rest /\ UNCHANGED <<drag, gesture, recent, touch>>

\* The button goes up: a click follows, on the image or beside it, but not after a cancelled press.
Click(beside) ==
  /\ dragged' = FALSE
  /\ wanted' = (wanted /\ (dragged \/ ~beside))

Release ==
  /\ Visible /\ drag # None /\ drag' = None
  /\ \/ \E beside \in BOOLEAN : Click(beside)
     \/ UNCHANGED <<dragged, wanted>>
  /\ Rest /\ UNCHANGED <<place, image, requests, view, gesture, recent, touch, pressed, untouched, kept, events>>

\* A tap is a click that no mouse button began.
Tap ==
  /\ Doing /\ Visible /\ drag = None /\ \E beside \in BOOLEAN : Click(beside)
  /\ pressed' = 0
  /\ Rest /\ UNCHANGED <<place, image, requests, view, drag, gesture, recent, touch, untouched, kept>>

\* Two fingers; any other number of them forgets the pinch.
TouchStart(focus) ==
  /\ Doing /\ Handling
  /\ touch' = [focus |-> focus, content |-> ContentAt(view, focus), base |-> view.scale]
  /\ Rest /\ UNCHANGED <<view, drag, dragged, gesture, recent, pressed, untouched, kept>>

TouchMove(ratio) ==
  /\ Doing /\ Handling /\ touch # None /\ Moved
  /\ view' = ZoomTo(touch.content, touch.focus, touch.base, ratio)
  /\ Rest /\ UNCHANGED <<drag, dragged, gesture, recent, touch, pressed>>

TouchEnd ==
  /\ Handling /\ touch # None /\ touch' = None
  /\ Rest /\ UNCHANGED <<view, drag, dragged, gesture, recent, pressed, untouched, kept, events>>

-----------------------------------------------------------------------------

Init ==
  /\ place \in Places /\ image = [status |-> "loading", of |-> None, width |-> 0] /\ requests = {place}
  /\ wanted = FALSE
  /\ width = 0 /\ view = [scale |-> One, at |-> 0] /\ fitted = FALSE
  /\ drag = None /\ dragged = FALSE /\ gesture = None /\ recent = FALSE /\ touch = None
  /\ pressed = 0 /\ untouched = FALSE /\ kept = FALSE
  /\ events = MaxEvents

Next ==
  \/ \E p \in Places : Moves(p) \/ Resolved(p)
  \/ Open \/ Close \/ Load \/ Reset \/ Quiet \/ GestureEnd \/ Release \/ Tap \/ TouchEnd
  \/ \E x \in Points : WheelPan(x) \/ GestureStart(x) \/ PointerDown(x) \/ PointerMove(x) \/ TouchStart(x)
  \/ \E r \in Ratios : GestureChange(r) \/ TouchMove(r) \/ \E x \in Points : WheelZoom(x, r)

Spec == Init /\ [][Next]_vars /\ \A p \in Places : WF_vars(Resolved(p))
-----------------------------------------------------------------------------
\* The image and the requests are of places.
TypeOK ==
  /\ place \in Places /\ requests \subseteq Places /\ image.status \in {"loading", "ready", "error"}
  /\ image.width \in ImageWidths \cup {0} /\ width \in ImageWidths \cup {0}
  /\ view.scale \in Nat /\ view.at \in Int
  /\ {wanted, fitted, dragged, recent, untouched, kept} \subseteq BOOLEAN /\ pressed \in Nat /\ events \in 0..MaxEvents

\* What is shown was found for the document the image is in now, however the answers come (isMounted).
ImageIsCurrent == image.status # "loading" => image.of = place

\* The view never leaves its range, however often it is zoomed (clamp).
InRange == view.scale \in MinScale..MaxScale

\* Until something else moves the view, the point under a gesture is the one it began at, at the ends of
\* the range too (zoomToScaleAtLockedContentPoint).
PointStays == gesture # None /\ kept => SamePoint(ContentAt(view, gesture.focus), gesture.content)

\* A loaded image nobody has moved is shown whole, in the middle (resetView).
FitIsShown == Visible /\ untouched /\ width > 0 => view = Fit(width)

ViewerIsSound == TypeOK /\ ImageIsCurrent /\ InRange /\ PointStays /\ FitIsShown

\* A click closes the viewer only if its press never left the place where it began, though it may have
\* come back there (didDragRef).
ClosesByClick == drag # None /\ drag' = None /\ wanted /\ ~wanted' => pressed = 0

\* The image does not stay unknown where the file system answers.
ImageIsKnown == <>[](image.status # "loading")
=============================================================================

--------------------------- MODULE WorkspaceLayout ---------------------------
(***************************************************************************)
(* The two sidebars of a window: how wide they are shown in the room there    *)
(* is (resolveWorkspaceLayout), how dragging and keys change what the user    *)
(* prefers (useWorkspaceResize), and the drawer that shows a sidebar where    *)
(* there is no room for it (AppShell).                                     *)
(*                                                                         *)
(* Preferences change at once here; that they are stored, and come from other *)
(* windows too, is UserSettings.  A render and its layout effects belong to   *)
(* the step that causes them.                                              *)
(***************************************************************************)
EXTENDS Integers, FiniteSets

CONSTANTS
  None,
  Rooms,                        \* widths of the window
  DefaultWidth, MinWidth, SideMax, Separator, EditorMin, SplitEditorMin, Step,
  Distances,                    \* how far a pointer drags
  MaxDrags                      \* bound on what the user does

Sides == {"left", "right"}
Other(side) == IF side = "left" THEN "right" ELSE "left"

LayoutAssumption ==
  /\ Rooms \subseteq Nat /\ Distances \subseteq Int /\ MaxDrags \in Nat
  /\ {MinWidth, DefaultWidth, Separator, EditorMin, SplitEditorMin, Step} \subseteq Nat \ {0}
  /\ SideMax \in [Sides -> Nat] /\ \A side \in Sides : MinWidth <= DefaultWidth /\ DefaultWidth <= SideMax[side]

VARIABLES
  room,       \* width of the window
  measured,   \* width it was measured with
  split,      \* editor and preview side by side
  prefers,    \* width the user gave each side, and whether it is open
  held,       \* what a change of one side keeps of the other
  drag, frame,
  css,        \* widths on the screen
  drawer,     \* side asked for where there is no room
  unpainted,  \* ghost: the last drag ended where it began, with another width on the screen
  drags

vars == <<room, measured, split, prefers, held, drag, frame, css, drawer, unpainted, drags>>

Least(a, b) == IF a < b THEN a ELSE b
Most(a, b) == IF a > b THEN a ELSE b
CenterMin(sp) == IF sp THEN SplitEditorMin ELSE EditorMin
Total(left, right) == left + right + (IF left > 0 THEN Separator ELSE 0) + (IF right > 0 THEN Separator ELSE 0)

\* Mutant: the left side is hidden before the right one.
ResolveLeftFirst(width, p, sp) ==
  LET Overflows(l, r) == Total(l, r) + CenterMin(sp) > width
      left == IF p.left.open THEN p.left.width ELSE 0
      right == IF p.right.open THEN p.right.width ELSE 0
      shownLeft == IF Overflows(left, right) THEN 0 ELSE left
  IN [left |-> shownLeft, right |-> IF Overflows(shownLeft, right) THEN 0 ELSE right]

\* resolveWorkspaceLayout: both sides shrink, the right one first, and are hidden, the right one first.
Resolve(width, p, sp) ==
  LET Overflows(l, r) == Total(l, r) + CenterMin(sp) > width
      left == IF p.left.open THEN p.left.width ELSE 0
      right == IF p.right.open THEN p.right.width ELSE 0
      excess == Most(0, Total(left, right) + CenterMin(sp) - width)
      fromRight == Least(excess, Most(0, right - MinWidth))
      narrowLeft == left - Least(excess - fromRight, Most(0, left - MinWidth))
      shownRight == IF Overflows(narrowLeft, right - fromRight) THEN 0 ELSE right - fromRight
  IN [left |-> IF Overflows(narrowLeft, shownRight) THEN 0 ELSE narrowLeft, right |-> shownRight]

\* What is held counts until the window, the split or a preference changes.
Effective ==
  Resolve(measured,
          IF held # None /\ held.width = measured /\ held.split = split /\ held.expected = prefers THEN held.displayed ELSE prefers,
          split)

\* maximumSidebarWidth
Maximum(side) ==
  LET other == Effective[Other(side)]
  IN Most(MinWidth, Least(SideMax[side],
          measured - CenterMin(split) - Separator - other - (IF other > 0 THEN Separator ELSE 0)))

\* After a render: widths that changed are put on the screen and end a drag.
Shown ==
  IF Effective' # Effective
  THEN css' = Effective' /\ drag' = None /\ frame' = FALSE /\ unpainted' = FALSE
  ELSE UNCHANGED <<css, drag, frame, unpainted>>

Moving == drags > 0 /\ drags' = drags - 1

-----------------------------------------------------------------------------
(* useWorkspaceResize *)

\* finish(false): the drag is forgotten and the screen goes back.
Cancelled == drag' = None /\ frame' = FALSE /\ css' = Effective /\ unpainted' = FALSE

\* commitWidth: the other side stays as wide as it is shown, though it may be preferred wider.
Commit(side, width) ==
  /\ prefers' = [prefers EXCEPT ![side].width = width]
  /\ held' = [width |-> measured, split |-> split, expected |-> prefers',
              displayed |-> [s \in Sides |-> [width |-> IF s = side THEN width ELSE Effective[s], open |-> Effective[s] > 0]]]

Resize(w) ==
  /\ Moving /\ w # room /\ room' = w
  /\ UNCHANGED <<measured, split, prefers, held, drag, frame, css, drawer, unpainted>>

\* The observer measures the window again, which ends a drag and closes the drawer.
Measure ==
  /\ measured # room /\ measured' = room /\ drawer' = None
  /\ drag' = None /\ frame' = FALSE /\ UNCHANGED <<room, split, prefers, held, drags>>
  /\ IF Effective' # Effective \/ drag # None THEN css' = Effective' /\ unpainted' = FALSE ELSE UNCHANGED <<css, unpainted>>

Press(side) ==
  /\ Moving /\ Effective[side] > 0 /\ drag = None
  /\ drag' = [side |-> side, start |-> Effective[side], width |-> Effective[side], max |-> Maximum(side), split |-> split]
  /\ UNCHANGED <<room, measured, split, prefers, held, frame, css, drawer, unpainted>>

Dragged(distance) == Least(drag.max, Most(MinWidth, drag.start + distance))

Drag(distance) ==
  /\ Moving /\ drag # None
  /\ drag' = [drag EXCEPT !.width = Dragged(distance)] /\ frame' = TRUE
  /\ UNCHANGED <<room, measured, split, prefers, held, css, drawer, unpainted>>

Paint ==
  /\ frame /\ frame' = FALSE /\ css' = [Effective EXCEPT ![drag.side] = drag.width] /\ unpainted' = FALSE
  /\ UNCHANGED <<room, measured, split, prefers, held, drag, drawer, drags>>

\* The pointer goes up: the frame that waits is dropped and the width becomes the preferred one.
Release(distance) ==
  /\ Moving /\ drag # None
  /\ Commit(drag.side, Dragged(distance))
  /\ drag' = None /\ frame' = FALSE /\ UNCHANGED <<room, measured, split, drawer>>
  /\ IF Effective' # Effective THEN css' = Effective' /\ unpainted' = FALSE
     ELSE unpainted' = (css # Effective) /\ UNCHANGED css

\* Escape, a lost capture or focus.
Cancel ==
  /\ drag # None /\ Cancelled
  /\ UNCHANGED <<room, measured, split, prefers, held, drawer, drags>>

Key(side, step) ==
  /\ Moving /\ Effective[side] > 0
  /\ Commit(side, Most(MinWidth, Least(Maximum(side), Effective[side] + step)))
  /\ UNCHANGED <<room, measured, split, drawer>> /\ Shown

-----------------------------------------------------------------------------
(* AppShell *)

Prefer(p) == prefers' = p /\ UNCHANGED <<room, measured, split, held>> /\ Shown

\* A double click on the separator.
Default(side) ==
  /\ Moving /\ Effective[side] > 0 /\ Prefer([prefers EXCEPT ![side].width = DefaultWidth])
  /\ UNCHANGED drawer

DrawerVisible == IF drawer # None /\ Effective[drawer] = 0 THEN drawer ELSE None
Visible(side) == Effective[side] > 0 \/ DrawerVisible = side

\* The button of a sidebar.
Toggle(side) ==
  /\ Moving
  /\ IF Effective[side] = 0 /\ \/ measured < CenterMin(split) + MinWidth + Separator
                               \/ side = "right" /\ prefers.right.open
     THEN drawer' = (IF DrawerVisible = side THEN None ELSE side)
          /\ UNCHANGED <<room, measured, split, prefers, held, drag, frame, css, unpainted>>
     ELSE Prefer([prefers EXCEPT ![side].open = ~@]) /\ UNCHANGED drawer

CloseDrawer ==
  /\ DrawerVisible # None /\ drawer' = None
  /\ UNCHANGED <<room, measured, split, prefers, held, drag, frame, css, unpainted, drags>>

Split ==
  /\ Moving /\ split' = ~split /\ UNCHANGED <<room, measured, prefers, held, drawer>> /\ Shown

-----------------------------------------------------------------------------

Init ==
  /\ room \in Rooms /\ measured = room /\ split = FALSE
  /\ prefers \in [Sides -> {[width |-> DefaultWidth, open |-> open] : open \in BOOLEAN}]
  /\ held = None /\ drag = None /\ frame = FALSE /\ css = Effective /\ drawer = None /\ unpainted = FALSE
  /\ drags = MaxDrags

Next ==
  \/ \E w \in Rooms : Resize(w)
  \/ Measure \/ Paint \/ Cancel \/ CloseDrawer \/ Split
  \/ \E side \in Sides : Press(side) \/ Default(side) \/ Toggle(side) \/ \E sign \in {-1, 1} : Key(side, sign * Step)
  \/ \E d \in Distances : Drag(d) \/ Release(d)

Spec == Init /\ [][Next]_vars /\ WF_vars(Measure) /\ WF_vars(Paint)
-----------------------------------------------------------------------------
\* Widths are natural numbers, and a drag is of a side.
TypeOK ==
  /\ {room, measured} \subseteq Rooms /\ {split, frame, unpainted} \subseteq BOOLEAN
  /\ prefers \in [Sides -> [width : Nat, open : BOOLEAN]] /\ {css.left, css.right} \subseteq Nat
  /\ drag # None => drag.side \in Sides /\ drag.width \in Nat
  /\ drawer \in Sides \cup {None} /\ drags \in 0..MaxDrags

\* The editor keeps its room beside the sidebars, which are never narrower than they may be; and the
\* left one is only hidden when there is no room for it alone (resolveWorkspaceLayout).
EditorHasRoom ==
  LET shown == Effective
  IN /\ shown.left + shown.right > 0 => Total(shown.left, shown.right) + CenterMin(split) <= measured
     /\ \A side \in Sides : shown[side] = 0 \/ shown[side] \in MinWidth..SideMax[side]
     /\ prefers.left.open /\ shown.left = 0 => measured < CenterMin(split) + MinWidth + Separator

\* With no drag under way the screen shows the layout, but after a drag that came back to where it began
\* before its last width was painted (finish).
ScreenIsLayout == drag = None => css = Effective \/ unpainted

\* No drag goes on with a layout that has changed under it (useLayoutEffect); only a view that is split
\* while the widths stay what they are leaves it the room it had before.
DragIsCurrent == drag # None => drag.start = Effective[drag.side] /\ (drag.split = split => drag.max = Maximum(drag.side))

LayoutIsSound == TypeOK /\ EditorHasRoom /\ ScreenIsLayout /\ DragIsCurrent

\* A new width of one side neither drags the other side nor changes what is preferred of it.
OtherSideStays ==
  \A side \in Sides :
    prefers'[side].width # prefers[side].width /\ held' # held /\ (drag # None => drag.split = split) =>
      /\ Effective'[Other(side)] = Effective[Other(side)] /\ prefers'[Other(side)] = prefers[Other(side)]
      /\ Effective'[side] = prefers'[side].width

\* The button of a sidebar shows what is hidden and hides what is shown, unless the left one takes its
\* room or it drags between a drawer that is still asked for and its own place (toggle).
ToggleIsSeen ==
  \A side \in Sides : Toggle(side) =>
    \/ Visible(side)' # Visible(side)
    \/ side = "right" /\ Effective.left > 0 /\ prefers'.right.open
    \/ drawer = side /\ (Effective[side] > 0 \/ Effective'[side] > 0)
=============================================================================

SPECIFICATION FairSpec
CONSTANTS
  None = None
  MaxFaults = 1
  MaxChanges = 2
  MaxZoom = 2
  Widths = {2, 3}
  MaxGestures = 3
  Documents = {d, e}
  Limit = 2
  Configs = {x, y}
  Stored = {x}
  Queries = {q, r}
  Forms = {f}
  Memories = {m, n}
  MaxActions = 3
  MaxMoves = 1
  Files = {d, e}
  Texts = {"t"}
  Sizes = {1}
  Sources = {x, y, q}
  Remote = {q}
  Previews = {v, w}
  Blocks = {b}
  Concurrency = 1
  Pending = 1
  Units = 2
  Entries = 1
  MaxAsks = 3
  Places = {d, e}
  ImageWidths = {1024, 16384}
  Viewport = 2304
  Padding = 256
  MinScale = 1
  MaxScale = 16
  Points = {0, 1152}
  MaxEvents = 4
  Rooms = {500, 700, 1000}
  DefaultWidth = 240
  MinWidth = 180
  Separator = 6
  EditorMin = 360
  SplitEditorMin = 640
  Step = 32
  MaxDrags = 3
  MaxMarks = 2
  MaxVisits = 3
  MaxDeliveries = 2
  Words = {w, v}
  Passages = {p}
  MaxSelections = 2
  MaxLooks = 3
  MaxOverrides = 2
INVARIANTS InputIsSound ContextIsSound TextsAreSound ViewsAreSound
PROPERTIES StepsAreSound WindowSettles
CHECK_DEADLOCK FALSE

------------------------------ MODULE GridView ------------------------------
(***************************************************************************)
(* lvgl/widgets/gridview/lv_gridview.c: a grid of items keeps views only   *)
(* for the rows near the visible area. A view is in use, for the item at a *)
(* position, or free. LVGL calls every handler from one thread; a step is  *)
(* a whole handler, written as an operator from the grid to the grid.      *)
(***************************************************************************)
EXTENDS Integers, Sequences, SequencesExt, FiniteSetsExt

CONSTANTS
    Modes,        \* how the application changes its data (see below)
    Columns,      \* column counts of lv_gridview_set_config
    RowHeights,   \* and its row heights
    Heights,      \* heights of the content area; 0 before the first layout
    Scrolls,      \* scroll positions
    PadRow, PadTop, PadBottom,
    MaxItems,     \* bound: items in the data
    MaxViews,     \* bound: views in use
    Later         \* bound: positions of lv_gridview_focus_when_available

ASSUME SizesAssumption == /\ Columns \subseteq Nat \ {0} /\ RowHeights \subseteq Nat \ {0}
                          /\ Heights \subseteq Nat /\ Scrolls \subseteq Nat
                          /\ {PadRow, PadTop, PadBottom} \subseteq Nat
ASSUME ItemsAssumption == MaxItems \in Nat /\ Later \subseteq Int
ASSUME ModesAssumption == Modes \subseteq {"edits", "reloads", "rebinds"}

VARIABLES
    grid,   \* lv_grid_t
    mode    \* the application: "edits" reports changes anywhere in the data,
            \* "reloads" only at its end, "rebinds" changes it in place and
            \* deletes views; each may reload it

vars == <<grid, mode>>

\* pool_inuse: a view's position, the cell it was put in, whether it was bound
\* since the data last changed, and got the focus; the head first. The views of
\* pool_free are alike. gone and stale are history: the positions whose view was
\* deleted, and from which one on the data has changed in place since.
Node == [pos : 0..MaxItems - 1, cell : Nat \X Nat, bound : BOOLEAN, focus : BOOLEAN]

Init == /\ mode \in Modes
        /\ \E c \in Columns, h \in RowHeights :
             grid = [columns |-> c, rowHeight |-> h, items |-> 0, rows |-> 0,
                     start |-> -1, end |-> -1, focused |-> -1, later |-> -1, height |-> 0,
                     scroll |-> 0, used |-> <<>>, failed |-> FALSE,
                     gone |-> {}, stale |-> MaxItems]

\* the integers from a to b in order
Interval(a, b) == [k \in 1..Max({b - a + 1, 0}) |-> a + k - 1]
CeilDivide(a, b) == (a + b - 1) \div b

-----------------------------------------------------------------------------
(* The pools                                                                *)

\* view_pool_node_by_position: the first node there, or 0
NodeAt(g, p) == SelectInSeq(g.used, LAMBDA n : n.pos = p)
Cell(g, p) == <<p \div g.columns, p % g.columns>>

\* grid_recycle_item; if not optional it asserts that the item is in use
RecycleItem(g, p, optional) ==
    LET i == NodeAt(g, p)
    IN  IF i # 0 THEN [g EXCEPT !.used = RemoveAt(@, i)]
        ELSE [g EXCEPT !.failed = @ \/ ~optional]

RecycleAll(g, positions, optional) ==
    FoldLeft(LAMBDA acc, p : RecycleItem(acc, p, optional), g, positions)

\* grid_obtain_item, the cell of a view put to use, and bind_view
\* mutant: a view in use is not looked for
ObtainNew(g, p) ==
    [g EXCEPT !.used = <<[pos |-> p, cell |-> Cell(g, p), bound |-> TRUE, focus |-> FALSE]>> \o @]
ObtainItem(g, p) ==
    LET i == NodeAt(g, p)
    IN  IF i # 0 THEN [g EXCEPT !.used[i].bound = TRUE]
        ELSE [g EXCEPT !.used = <<[pos |-> p, cell |-> Cell(g, p), bound |-> TRUE,
                                   focus |-> FALSE]>> \o @,
                       !.gone = @ \ {p}]

\* the data is not what the views were bound to any more
Unbound(g) == [g EXCEPT !.used = [i \in DOMAIN @ |-> [@[i] EXCEPT !.bound = FALSE]]]

-----------------------------------------------------------------------------
(* Focus                                                                    *)

\* the focused view, if it is in use, is told that it lost the focus
Unfocus(g, p) ==
    LET i == NodeAt(g, g.focused)
    IN  IF g.focused < 0 \/ p = g.focused THEN g
        ELSE IF i = 0 THEN [g EXCEPT !.focused = -1]
        ELSE [g EXCEPT !.focused = -1, !.used[i].focus = FALSE]

GiveFocus(g, p) == [g EXCEPT !.focused = p, !.used[NodeAt(g, p)].focus = TRUE]

\* lv_gridview_focus: a view off the screen is put to use for it
\* mutant: positions are not checked
FocusUnchecked(g, p) ==
    LET u == Unfocus(g, p)
    IN  IF p < 0 THEN u
        ELSE GiveFocus(IF NodeAt(u, p) = 0 THEN ObtainItem(u, p) ELSE u, p)
\* mutant: the view that had the focus is not told
FocusAnother(g, p) ==
    IF p < 0 \/ p >= g.items THEN [g EXCEPT !.focused = -1]
    ELSE GiveFocus(IF NodeAt(g, p) = 0 THEN ObtainItem(g, p) ELSE g, p)
Focus(g, p) ==
    LET u == Unfocus(g, p)
    IN  IF p < 0 \/ p >= u.items THEN u
        ELSE GiveFocus(IF NodeAt(u, p) = 0 THEN ObtainItem(u, p) ELSE u, p)

-----------------------------------------------------------------------------
(* The window of rows                                                       *)

\* the positions of the items in rows from a to b
Positions(g, a, b) == Interval(Max({a, 0}) * g.columns, Min({(b + 1) * g.columns, g.items}) - 1)

\* clear_rows, which leaves out the last row of the window
ClearRows(g) == RecycleAll(g, Positions(g, g.start, g.end - 1), TRUE)

\* fill_rows: recycle what left the window, bind what is in it, and store it
\* mutant: the last row is not filled
FillShort(g, start, end) ==
    IF start < 0 \/ end < start THEN g
    ELSE LET g1 == RecycleAll(g, Positions(g, g.start, start - 1)
                                 \o Positions(g, end + 1, g.end), FALSE)
         IN  [FoldLeft(ObtainItem, g1, Positions(g, start, end - 1))
                EXCEPT !.start = start, !.end = end, !.stale = MaxItems]
FillRows(g, start, end) ==
    IF start < 0 \/ end < start THEN g
    ELSE LET g1 == RecycleAll(g, Positions(g, g.start, start - 1)
                                 \o Positions(g, end + 1, g.end), FALSE)
             g2 == FoldLeft(ObtainItem, g1, Positions(g, start, end))
             g3 == [g2 EXCEPT !.start = start, !.end = end, !.stale = MaxItems]
         IN  IF g3.later < 0 \/ g3.later >= g3.items THEN g3
             ELSE [Focus(g3, g3.later) EXCEPT !.later = -1]

\* update_grid: the rows to keep views for, a quarter of a row more on each side
Extend(g) == g.rowHeight \div 4
Pitch(g) == g.rowHeight + PadRow

RenderStart(g) ==
    LET R == {i \in 0..g.rows - 1 :
                g.scroll - PadTop - Extend(g) <= Pitch(g) * i + g.rowHeight}
    IN  IF R = {} THEN -1 ELSE Min(R)
RenderEnd(g) ==
    LET R == {i \in RenderStart(g)..g.rows - 1 :
                g.scroll + g.height + PadBottom + Extend(g) >= Pitch(g) * i}
    IN  IF R = {} THEN -1 ELSE Max(R)

\* the last position that could be visible, as update_grid estimates it
MaxItemEnd(g) ==
    LET visibleEnd == RenderStart(g) + CeilDivide(g.height + PadRow + Extend(g), Pitch(g))
    IN  g.columns * (visibleEnd + 1) - 1

\* one item's view is moved to where a change puts the item; uint8_t row_idx
\* mutant: the view stays in its cell
MoveItemOnly(g, p, delta) ==
    LET q == p + delta
        i == NodeAt(g, p)
    IN  IF q < g.columns * RenderStart(g) \/ q > MaxItemEnd(g) THEN RecycleItem(g, p, TRUE)
        ELSE IF i = 0 THEN g
        ELSE [g EXCEPT !.used[i].pos = q]
MoveItem(g, p, delta) ==
    LET q == p + delta
        i == NodeAt(g, p)
    IN  IF q < g.columns * RenderStart(g) \/ q > MaxItemEnd(g) THEN RecycleItem(g, p, TRUE)
        ELSE IF i = 0 THEN g
        ELSE [g EXCEPT !.used[i].pos = q,
                       !.used[i].cell = <<(q \div g.columns) % 256, q % g.columns>>]

\* one change of the data: recycle the removed, move the rest, last first
ApplyChange(g, c, expected) ==
    LET delta == c.add - c.remove
        last == Min({expected - 1, MaxItemEnd(g)})
        g1 == RecycleAll(g, Interval(c.start, c.start + c.remove - 1), TRUE)
    IN  IF delta = 0 THEN g1
        ELSE FoldLeft(LAMBDA acc, p : MoveItem(acc, p, delta), g1,
                      Reverse(Interval(c.start + c.remove, last)))

\* each change counts from where the changes before it left the data
UpdateGrid(g, changes, oldItems) ==
    IF g.height <= 0 THEN g
    ELSE LET step(acc, c) == [g |-> ApplyChange(acc.g, c, acc.expected),
                              expected |-> acc.expected + c.add - c.remove]
             done == FoldLeft(step, [g |-> g, expected |-> oldItems], changes)
         IN  FillRows(done.g, RenderStart(g), RenderEnd(g))

\* update_row_count keeps the old count when there are no items
RowCount(g) == [g EXCEPT !.rows = IF g.items > 0 THEN CeilDivide(g.items, g.columns) ELSE @]

-----------------------------------------------------------------------------
(* The calls and events                                                     *)

Do(g) == ~grid.failed /\ Len(g.used) <= MaxViews /\ grid' = g /\ UNCHANGED mode

\* the items a list of changes leaves, and the changes an application may report:
\* bound: one change, of at most two items
NewCount(n, changes) == FoldLeft(LAMBDA acc, c : acc + c.add - c.remove, n, changes)
Changes(n) == {<<c>> : c \in {c \in [start : 0..n, remove : 0..2, add : 0..2] :
                  /\ c.start + c.remove <= n /\ n + c.add - c.remove <= MaxItems
                  /\ c.add + c.remove > 0
                  /\ mode = "reloads" => c.start + c.remove = n}}

\* lv_gridview_set_data: no changes, so the views are scrapped; null data leaves
\* the number of items as it is
SetData(n) ==
    LET g1 == Unbound(ClearRows(grid))
        g2 == IF n = g1.items THEN g1 ELSE RowCount([g1 EXCEPT !.items = n])
    IN  Do(UpdateGrid(g2, <<>>, n))

\* lv_gridview_set_data_advanced, with the changes that make the new data
SetDataAdvanced ==
    /\ mode # "rebinds"
    /\ \E changes \in Changes(grid.items) :
          LET n  == NewCount(grid.items, changes)
              g1 == Unbound(grid)
              g2 == IF n = g1.items THEN g1 ELSE RowCount([g1 EXCEPT !.items = n])
          IN  Do(UpdateGrid(g2, changes, grid.items))

\* the application changes the data in place, and asks for it to be bound again
Touch == mode = "rebinds" /\ Do([Unbound(grid) EXCEPT !.stale = 0])

\* lv_gridview_rebind stops at the first item of the window without a view
Rebind ==
    LET window == Positions(grid, grid.start, grid.end)
        stop == Min({k \in DOMAIN window : NodeAt(grid, window[k]) = 0} \cup {Len(window) + 1})
    IN  /\ mode = "rebinds"
        /\ Do([FoldLeft(ObtainItem, grid, SubSeq(window, 1, stop - 1)) EXCEPT
                  !.stale = IF stop > Len(window) THEN MaxItems ELSE Max({@, window[stop]})])

RebindItem(p) == /\ mode = "rebinds" /\ NodeAt(grid, p) # 0
                 /\ Do(ObtainItem(grid, p))

\* item_delete_cb, when the application deletes a view
DeleteItem(i) == /\ mode = "rebinds"
                 /\ Do([grid EXCEPT !.used = RemoveAt(@, i), !.gone = @ \cup {grid.used[i].pos}])

\* lv_gridview_set_config
SetConfig(c, h) ==
    LET g1 == IF c # grid.columns THEN ClearRows(grid) ELSE grid
        g2 == [g1 EXCEPT !.columns = c, !.rowHeight = h]
    IN  Do(IF c # grid.columns THEN UpdateGrid(RowCount(g2), <<>>, g2.items) ELSE g2)

\* LVGL lays out or scrolls: LV_EVENT_SIZE_CHANGED, LV_EVENT_SCROLL
Resize(h) == h # grid.height /\ Do(UpdateGrid([grid EXCEPT !.height = h], <<>>, grid.items))

\* (LVGL lays an object out before it scrolls it, and bounds the scroll)
Scroll(y) == /\ grid.height > 0
             /\ y <= Max({0, grid.rows * Pitch(grid) + PadTop + PadBottom - grid.height})
             /\ Do(UpdateGrid([grid EXCEPT !.scroll = y], <<>>, grid.items))

FocusCall(p) == Do(Focus(grid, p))

FocusWhenAvailable(p) == Do([grid EXCEPT !.later = p])

\* key_cb; with key_focus_clamp the position is clamped
Key(offset, clamp) ==
    LET index == IF grid.focused < 0 THEN grid.start * grid.columns ELSE grid.focused + offset
        to == IF clamp THEN Max({0, Min({index, grid.items - 1})}) ELSE index
    IN  /\ clamp \/ (index >= 0 /\ index < grid.items)
        /\ Do(Focus(grid, to))

\* LV_ASSERT_MSG in grid_recycle_item stops the program, when the view it looks
\* for was deleted
Halted == grid.failed /\ grid.gone # {} /\ UNCHANGED vars

Next == \/ \E n \in 0..MaxItems : SetData(n)
        \/ SetDataAdvanced
        \/ Touch \/ Rebind
        \/ \E p \in 0..MaxItems - 1 : RebindItem(p)
        \/ \E i \in DOMAIN grid.used : DeleteItem(i)
        \/ \E c \in Columns, h \in RowHeights : SetConfig(c, h)
        \/ \E h \in Heights : Resize(h)
        \/ \E y \in Scrolls : Scroll(y)
        \/ \E p \in -1..MaxItems : FocusCall(p)
        \/ \E p \in Later : FocusWhenAvailable(p)
        \/ \E o \in {-grid.columns, -1, 1, grid.columns}, k \in BOOLEAN : Key(o, k)
        \/ Halted

Spec == Init /\ [][Next]_vars

-----------------------------------------------------------------------------
(* Properties                                                               *)

Used == {grid.used[i] : i \in DOMAIN grid.used}
Window == LET s == Positions(grid, grid.start, grid.end) IN {s[i] : i \in DOMAIN s}

TypeOK == /\ grid.used \in Seq(Node)
          /\ grid.items \in 0..MaxItems /\ grid.rows \in 0..MaxItems
          /\ grid.focused \in -1..MaxItems - 1 /\ grid.later \in Later \cup {-1}
          /\ grid.start \in -1..MaxItems /\ grid.end \in grid.start..MaxItems
          /\ grid.gone \subseteq 0..MaxItems - 1

\* Every item in the window has a view bound to the data as it is now, but for
\* one whose view was deleted, and what lv_gridview_rebind leaves out: it stops
\* at the first item without a view (lv_gridview.c:273).
WindowFilled ==
    grid.start >= 0 => \A p \in Window :
        /\ NodeAt(grid, p) # 0 \/ p \in grid.gone
        /\ NodeAt(grid, p) # 0 /\ p < grid.stale => grid.used[NodeAt(grid, p)].bound

\* The assertion of grid_recycle_item holds ("should not recycle invalid item",
\* lv_gridview.c:644): what fill_rows recycles, from the window of an earlier
\* update to the new one, was in use.
RecyclesOnlyInUse == ~grid.failed

\* No two views stand for one item, when the application changes its data only
\* at the end or in place, however it scrolls, focuses, rebinds and deletes views. (After changes elsewhere a view
\* may be left outside the window, and two come to stand for one item.)
OneViewEach ==
    mode # "edits" => \A i, j \in DOMAIN grid.used : grid.used[i].pos = grid.used[j].pos => i = j

\* A view is in the cell of its position, whichever way it got there.
CellsRight == \A n \in Used : n.cell = Cell(grid, n.pos)

\* At most one view has the focus, and it is that of the focused item, when the
\* application reloads, or edits at the end or in place: a key press or a call moves it.
OneFocused == mode # "edits" => \A n \in Used : n.focus => n.pos = grid.focused

\* A reload leaves no view in use for an item that is gone (lv_gridview.h: "it
\* will invalidate the whole dataset, which makes all the visible items to be
\* recycled").
NoLeftovers == \A n \in Used : n.pos < grid.items

=============================================================================

---------------------------- MODULE DesktopProofs ----------------------------
(***************************************************************************)
(* For any screen, any number of windows and any movement of the mouse:    *)
(* a press acts on the window that is seen (PressHitsSeen), a drag ends    *)
(* with the button (DragEnds), and no window leaves the desktop            *)
(* (WindowsStay).                                                          *)
(***************************************************************************)
EXTENDS Desktop, FiniteSetTheorems, WellFoundedInduction, TLAPS

(* The parts of the state a frame works on. *)
Shape(d) ==
  DOMAIN d = {"windows", "zorder", "active", "dock", "menu", "drag", "prev"}

(* Every window is in the stack once, the active one at the front. *)
StackOK(z, a) ==
  /\ z \in [1 .. WINDOW_COUNT -> Windows]
  /\ \A i \in Windows : \E k \in 1 .. WINDOW_COUNT : z[k] = i
  /\ \A k, l \in 1 .. WINDOW_COUNT : z[k] = z[l] => k = l
  /\ z[WINDOW_COUNT] = a

(* Every window is inside the desktop. *)
WindowShape(w) == DOMAIN w = {"x", "y", "visible"} /\ w.x \in Int /\ w.y \in Int

PlacedOK(ws) ==
  /\ DOMAIN ws = Windows
  /\ \A i \in Windows :
       /\ WindowShape(ws[i])
       /\ 1 <= ws[i].x /\ ws[i].x <= MaxX(i)
       /\ DESKTOP_TOP + 1 <= ws[i].y /\ ws[i].y <= MaxY(i)

DeskOK(d) ==
  /\ Shape(d)
  /\ StackOK(d.zorder, d.active) /\ d.active \in Windows
  /\ PlacedOK(d.windows)
  /\ d.dock \in Windows

(* Only what is visible is dragged. *)
DragOK(d) == d.drag # -1 => d.drag \in Windows /\ d.windows[d.drag].visible

DeskInv == DeskOK(Desk) /\ DragOK(Desk) /\ (g_drag_window # -1 => g_left_prev)
-----------------------------------------------------------------------------
(* A non-empty set of natural numbers has a least element. *)
LEMMA LeastOfNats ==
  ASSUME NEW S \in SUBSET Nat, S # {}
  PROVE  \E x \in S : \A y \in S : x <= y
<1>. DEFINE R == OpToRel(<, Nat)
<1>1. IsWellFoundedOn(R, Nat)
  BY NatLessThanWellFounded
<1>2. \A a, b \in Nat : a < b => <<a, b>> \in R
  BY DEF OpToRel
<1>. HIDE DEF R
<1>3. PICK x \in S : \A y \in S : ~ (<<y, x>> \in R)
  BY <1>1, WFMin
<1>4. \A y \in S : ~(y < x) /\ y \in Nat /\ x \in Nat
  BY <1>2, <1>3
<1>. QED
  BY <1>4

(* A non-empty set of places has a front-most one. *)
LEMMA GreatestPlace ==
  ASSUME NEW S \in SUBSET (1 .. WINDOW_COUNT), S # {}
  PROVE  \E x \in S : \A y \in S : y <= x
<1>. DEFINE T == {WINDOW_COUNT - k : k \in S}
<1>1. WINDOW_COUNT \in Nat
  BY ScreenAssumption
<1>2. T \in SUBSET Nat /\ T # {}
  <2>1. \A k \in S : k \in 1 .. WINDOW_COUNT
    OBVIOUS
  <2>2. \A k \in S : WINDOW_COUNT - k \in Nat
    BY <1>1, <2>1
  <2>. QED
    BY <2>2
<1>3. PICK t \in T : \A u \in T : t <= u
  BY <1>2, LeastOfNats
<1>4. PICK x \in S : t = WINDOW_COUNT - x
  BY <1>3
<1>5. ASSUME NEW y \in S PROVE y <= x
  <2>1. WINDOW_COUNT - x <= WINDOW_COUNT - y
    BY <1>3, <1>4
  <2>. QED
    BY <1>1, <2>1
<1>. QED
  BY <1>5

(* The numbers. *)
LEMMA WindowNumbers ==
  /\ WINDOW_COUNT \in Nat /\ WINDOW_COUNT > 0
  /\ \A i : i \in Windows <=> i \in Nat /\ i < WINDOW_COUNT
  /\ VGA_WIDTH \in Int /\ DESKTOP_TOP \in Int /\ DESKTOP_BOTTOM \in Int
  /\ \A i \in Windows :
       /\ Size[i].w \in Int /\ Size[i].h \in Int
       /\ MaxX(i) \in Int /\ MaxX(i) >= 1 /\ MaxX(i) = VGA_WIDTH - Size[i].w - 1
       /\ MaxY(i) \in Int /\ MaxY(i) >= DESKTOP_TOP + 1
       /\ MaxY(i) = DESKTOP_BOTTOM - Size[i].h
<1>1. /\ WINDOW_COUNT \in Nat /\ WINDOW_COUNT > 0
      /\ \A i : i \in Windows <=> i \in Nat /\ i < WINDOW_COUNT
      /\ VGA_WIDTH \in Int /\ DESKTOP_TOP \in Int /\ DESKTOP_BOTTOM \in Int
  BY ScreenAssumption DEF Windows
<1>2. ASSUME NEW i \in Windows
      PROVE  /\ Size[i].w \in Int /\ Size[i].h \in Int
             /\ Size[i].w <= VGA_WIDTH - 2 /\ Size[i].h <= DESKTOP_BOTTOM - DESKTOP_TOP - 1
  BY <1>1, ScreenAssumption
<1>. QED
  BY <1>1, <1>2 DEF MaxX, MaxY

(* The front-most window of some places is in one of them. *)
LEMMA FrontMostFacts ==
  ASSUME NEW d, StackOK(d.zorder, d.active), NEW S \in SUBSET (1 .. WINDOW_COUNT)
  PROVE  /\ S = {} => FrontMost(d, S) = -1
         /\ S # {} => \E k \in S : FrontMost(d, S) = d.zorder[k] /\ FrontMost(d, S) \in Windows
         /\ WINDOW_COUNT \in S => FrontMost(d, S) = d.active
<1>. DEFINE k == CHOOSE k \in S : \A l \in S : l <= k
<1>1. S # {} => k \in S /\ \A l \in S : l <= k
  BY GreatestPlace
<1>2. FrontMost(d, S) = IF S = {} THEN -1 ELSE d.zorder[k]
  BY DEF FrontMost
<1>. HIDE DEF k
<1>3. WINDOW_COUNT \in S => k = WINDOW_COUNT
  <2>1. WINDOW_COUNT \in S => k \in 1 .. WINDOW_COUNT /\ WINDOW_COUNT <= k
    BY <1>1
  <2>. QED
    BY <2>1, WindowNumbers
<1>4. \A l \in 1 .. WINDOW_COUNT : d.zorder[l] \in Windows
  BY DEF StackOK
<1>5. S # {} => FrontMost(d, S) = d.zorder[k] /\ k \in 1 .. WINDOW_COUNT /\ k \in S
  BY <1>1, <1>2
<1>6. S # {} => FrontMost(d, S) \in Windows
  BY <1>4, <1>5
<1>7. WINDOW_COUNT \in S => FrontMost(d, S) = d.active
  BY <1>3, <1>5 DEF StackOK
<1>8. S = {} => FrontMost(d, S) = -1
  BY <1>2
<1>. QED
  BY <1>5, <1>6, <1>7, <1>8

LEMMA ResetOK == DeskOK(reset_layout) /\ reset_layout.drag = -1
<1>1. 0 \in Windows
  BY WindowNumbers
<1>2. StackOK(Order, About) /\ About \in Windows
  BY OrderAssumption DEF StackOK
<1>3. PlacedOK(Layout)
  <2>1. DOMAIN Layout = Windows /\ \A i \in Windows : WindowShape(Layout[i])
    BY LayoutAssumption DEF WindowShape
  <2>2. ASSUME NEW i \in Windows
        PROVE  /\ 1 <= Layout[i].x /\ Layout[i].x <= MaxX(i)
               /\ DESKTOP_TOP + 1 <= Layout[i].y /\ Layout[i].y <= MaxY(i)
    BY LayoutAssumption, WindowNumbers
  <2>. QED
    BY <2>1, <2>2 DEF PlacedOK
<1>. QED
  BY <1>1, <1>2, <1>3 DEF DeskOK, Shape, reset_layout

(* bring_to_front moves a window to the front and keeps the others' order. *)
LEMMA BringShape ==
  ASSUME NEW d, Shape(d), NEW i
  PROVE  LET e == bring_to_front(d, i)
         IN  /\ Shape(e) /\ e.zorder = MovedUp(d.zorder, Place(d, i), i) /\ e.active = i
             /\ e.windows = d.windows /\ e.dock = d.dock /\ e.menu = d.menu
             /\ e.drag = d.drag /\ e.prev = d.prev
BY DEF bring_to_front, Shape

LEMMA PlaceFacts ==
  ASSUME NEW d, StackOK(d.zorder, d.active), NEW i \in Windows
  PROVE  Place(d, i) \in 1 .. WINDOW_COUNT /\ d.zorder[Place(d, i)] = i
BY DEF StackOK, Place

LEMMA BringOK ==
  ASSUME NEW d, DeskOK(d), NEW i \in Windows
  PROVE  DeskOK(bring_to_front(d, i))
<1>. DEFINE z == d.zorder
            p == Place(d, i)
            n == WINDOW_COUNT
            y == MovedUp(z, p, i)
<1>1. n \in Nat /\ n > 0 /\ p \in 1 .. n /\ z[p] = i
  BY PlaceFacts, WindowNumbers DEF DeskOK
<1>2. /\ z \in [1 .. n -> Windows]
      /\ \A j \in Windows : \E k \in 1 .. n : z[k] = j
      /\ \A k, l \in 1 .. n : z[k] = z[l] => k = l
  BY DEF DeskOK, StackOK
<1>3. \A k \in 1 .. n : y[k] = IF k < p THEN z[k] ELSE IF k < n THEN z[k + 1] ELSE i
  BY DEF MovedUp
<1>4. y \in [1 .. n -> Windows] /\ y[n] = i
  <2>1. ASSUME NEW k \in 1 .. n
        PROVE  (IF k < p THEN z[k] ELSE IF k < n THEN z[k + 1] ELSE i) \in Windows
    <3>1. k < n => k + 1 \in 1 .. n
      BY <1>1
    <3>2. z[k] \in Windows /\ (k < n => z[k + 1] \in Windows)
      BY <1>2, <3>1
    <3>. QED
      BY <3>2
  <2>2. y \in [1 .. n -> Windows]
    BY <2>1 DEF MovedUp
  <2>3. n \in 1 .. n /\ ~(n < p)
    BY <1>1
  <2>. QED
    BY <1>3, <2>2, <2>3
<1>. HIDE DEF p, y, z
<1>5. ASSUME NEW j \in Windows PROVE \E k \in 1 .. n : y[k] = j
  <2>1. PICK k \in 1 .. n : z[k] = j
    BY <1>2
  <2>2. CASE k = p
    BY <1>1, <1>4, <2>1, <2>2
  <2>3. CASE k < p
    BY <1>1, <1>3, <2>1, <2>3
  <2>4. CASE k > p
    <3>1. k - 1 \in 1 .. n /\ ~(k - 1 < p) /\ k - 1 < n /\ (k - 1) + 1 = k
      BY <1>1, <2>4
    <3>. QED
      BY <1>3, <2>1, <3>1
  <2>. QED
    BY <1>1, <2>2, <2>3, <2>4
<1>6. ASSUME NEW k \in 1 .. n, NEW l \in 1 .. n, y[k] = y[l] PROVE k = l
  <2>. DEFINE from(m) == IF m < p THEN m ELSE IF m < n THEN m + 1 ELSE p
  <2>1. \A m \in 1 .. n : from(m) \in 1 .. n /\ y[m] = z[from(m)]
    BY <1>1, <1>3
  <2>2. from(k) = from(l)
    BY <1>2, <1>6, <2>1
  <2>. QED
    BY <1>1, <2>2
<1>7. StackOK(y, i)
  BY <1>4, <1>5, <1>6 DEF StackOK
<1>8. /\ Shape(bring_to_front(d, i))
      /\ bring_to_front(d, i).zorder = y /\ bring_to_front(d, i).active = i
      /\ bring_to_front(d, i).windows = d.windows /\ bring_to_front(d, i).dock = d.dock
  BY BringShape DEF y, p, z, DeskOK
<1>. QED
  BY <1>7, <1>8 DEF DeskOK

(* Showing and hiding a window moves nothing. *)
LEMMA VisibleOK ==
  ASSUME NEW ws, PlacedOK(ws), NEW i \in Windows, NEW v \in BOOLEAN
  PROVE  /\ PlacedOK([ws EXCEPT ![i].visible = v])
         /\ [ws EXCEPT ![i].visible = v][i].visible = v
         /\ \A j \in Windows : j # i =>
              [ws EXCEPT ![i].visible = v][j].visible = ws[j].visible
<1>. DEFINE us == [ws EXCEPT ![i].visible = v]
<1>1. DOMAIN ws = Windows /\ \A j \in Windows : WindowShape(ws[j])
  BY DEF PlacedOK
<1>2. DOMAIN us = Windows
  BY <1>1
<1>3. \A j \in Windows : us[j].x = ws[j].x /\ us[j].y = ws[j].y /\ WindowShape(us[j])
  BY <1>1 DEF WindowShape
<1>4. us[i].visible = v /\ \A j \in Windows : j # i => us[j].visible = ws[j].visible
  BY <1>1 DEF WindowShape
<1>. HIDE DEF us
<1>5. PlacedOK(us)
  BY <1>2, <1>3 DEF PlacedOK
<1>. QED
  BY <1>4, <1>5 DEF us

LEMMA SetVisible ==
  ASSUME NEW d, DeskOK(d), NEW i \in Windows, NEW v \in BOOLEAN
  PROVE  LET e == [d EXCEPT !.windows[i].visible = v]
         IN  DeskOK(e) /\ e.windows[i].visible = v /\ e.drag = d.drag /\ e.active = d.active
<1>. DEFINE e == [d EXCEPT !.windows[i].visible = v]
<1>1. /\ Shape(e) /\ e.windows = [d.windows EXCEPT ![i].visible = v] /\ e.zorder = d.zorder
      /\ e.active = d.active /\ e.dock = d.dock /\ e.drag = d.drag
  BY DEF DeskOK, Shape
<1>2. PlacedOK(e.windows) /\ e.windows[i].visible = v
  BY <1>1, VisibleOK DEF DeskOK
<1>. HIDE DEF e
<1>3. DeskOK(e)
  BY <1>1, <1>2 DEF DeskOK
<1>. QED
  BY <1>1, <1>2, <1>3 DEF e

LEMMA ShowOK ==
  ASSUME NEW d, DeskOK(d), NEW i \in Windows
  PROVE  DeskOK(Show(d, i)) /\ Show(d, i).drag = d.drag
<1>. DEFINE e == [d EXCEPT !.windows[i].visible = TRUE]
<1>1. DeskOK(e) /\ e.drag = d.drag
  BY SetVisible
<1>. HIDE DEF e
<1>2. DeskOK(bring_to_front(e, i)) /\ bring_to_front(e, i).drag = e.drag
  <2>1. Shape(e)
    BY <1>1 DEF DeskOK
  <2>2. bring_to_front(e, i).drag = e.drag
    BY <2>1, BringShape
  <2>3. DeskOK(bring_to_front(e, i))
    BY <1>1, BringOK
  <2>. QED
    BY <2>2, <2>3
<1>3. Show(d, i) = bring_to_front(e, i)
  BY DEF Show, e
<1>. QED
  BY <1>1, <1>2, <1>3

(* The parts that no other part depends on. *)
LEMMA OtherParts ==
  ASSUME NEW d, DeskOK(d), NEW v
  PROVE  /\ DeskOK([d EXCEPT !.menu = v]) /\ [d EXCEPT !.menu = v].drag = d.drag
         /\ DeskOK([d EXCEPT !.drag = v]) /\ [d EXCEPT !.drag = v].drag = v
         /\ [d EXCEPT !.drag = v].windows = d.windows
         /\ v \in Windows => DeskOK([d EXCEPT !.dock = v]) /\ [d EXCEPT !.dock = v].drag = d.drag
         /\ [d EXCEPT !.menu = v].windows = d.windows
         /\ [d EXCEPT !.menu = v].zorder = d.zorder
         /\ [d EXCEPT !.dock = v].windows = d.windows
<1>1. Shape(d)
  BY DEF DeskOK
<1>2. LET e == [d EXCEPT !.menu = v]
      IN  /\ Shape(e) /\ e.windows = d.windows /\ e.zorder = d.zorder /\ e.active = d.active
          /\ e.dock = d.dock /\ e.drag = d.drag
  BY <1>1 DEF Shape
<1>3. LET e == [d EXCEPT !.drag = v]
      IN  /\ Shape(e) /\ e.windows = d.windows /\ e.zorder = d.zorder /\ e.active = d.active
          /\ e.dock = d.dock /\ e.drag = v
  BY <1>1 DEF Shape
<1>4. LET e == [d EXCEPT !.dock = v]
      IN  /\ Shape(e) /\ e.windows = d.windows /\ e.zorder = d.zorder /\ e.active = d.active
          /\ e.dock = v /\ e.drag = d.drag
  BY <1>1 DEF Shape
<1>. QED
  BY <1>2, <1>3, <1>4 DEF DeskOK

(* The menu leaves nothing dragged, if nothing was. *)
LEMMA MenuOK ==
  ASSUME NEW d, DeskOK(d), d.drag = -1, NEW y \in (MENU_Y + 1) .. (MENU_Y + 4)
  PROVE  DeskOK(handle_menu_action(d, y)) /\ handle_menu_action(d, y).drag = -1
<1>. DEFINE e == CASE y = MENU_Y + 1 -> Show(d, About)
                   [] y = MENU_Y + 2 -> reset_layout
                   [] y = MENU_Y + 3 -> [d EXCEPT !.windows[d.active].visible = FALSE]
                   [] y = MENU_Y + 4 -> d
<1>1. DeskOK(Show(d, About)) /\ Show(d, About).drag = -1
  BY ShowOK, OrderAssumption
<1>2. LET f == [d EXCEPT !.windows[d.active].visible = FALSE] IN DeskOK(f) /\ f.drag = -1
  BY SetVisible DEF DeskOK
<1>3. y = MENU_Y + 1 \/ y = MENU_Y + 2 \/ y = MENU_Y + 3 \/ y = MENU_Y + 4
  BY ScreenAssumption
<1>4. DeskOK(e) /\ e.drag = -1
  <2>1. CASE y = MENU_Y + 1
    <3>1. e = Show(d, About)
      BY <2>1, ScreenAssumption
    <3>. QED
      BY <1>1, <3>1
  <2>2. CASE y = MENU_Y + 2
    <3>1. e = reset_layout
      BY <2>2, ScreenAssumption
    <3>. QED
      BY <3>1, ResetOK
  <2>3. CASE y = MENU_Y + 3
    <3>1. e = [d EXCEPT !.windows[d.active].visible = FALSE]
      BY <2>3, ScreenAssumption
    <3>. QED
      BY <1>2, <3>1
  <2>4. CASE y = MENU_Y + 4
    <3>1. e = d
      BY <2>4, ScreenAssumption
    <3>. QED
      BY <3>1
  <2>. QED
    BY <1>3, <2>1, <2>2, <2>3, <2>4
<1>5. handle_menu_action(d, y) = [e EXCEPT !.menu = FALSE]
  BY DEF handle_menu_action
<1>. HIDE DEF e
<1>6. LET f == [e EXCEPT !.menu = FALSE]
      IN  /\ Shape(f) /\ f.windows = e.windows /\ f.zorder = e.zorder /\ f.active = e.active
          /\ f.dock = e.dock /\ f.drag = e.drag
  BY <1>4 DEF DeskOK, Shape
<1>. QED
  BY <1>4, <1>5, <1>6 DEF DeskOK

(* A window that is hit is visible. *)
LEMMA HitFacts ==
  ASSUME NEW d, DeskOK(d), NEW x, NEW y, window_hit_test(d, x, y) # -1
  PROVE  /\ window_hit_test(d, x, y) \in Windows
         /\ d.windows[window_hit_test(d, x, y)].visible
<1>. DEFINE S == {k \in 1 .. WINDOW_COUNT : Covers(d.zorder[k], d.windows[d.zorder[k]], x, y)}
<1>1. window_hit_test(d, x, y) = FrontMost(d, S)
  BY DEF window_hit_test
<1>2. S # {} /\ StackOK(d.zorder, d.active)
  BY <1>1, FrontMostFacts DEF DeskOK
<1>3. PICK k \in S : FrontMost(d, S) = d.zorder[k] /\ FrontMost(d, S) \in Windows
  BY <1>2, FrontMostFacts
<1>4. d.windows[d.zorder[k]].visible
  BY DEF Covers
<1>. QED
  BY <1>1, <1>3, <1>4

LEMMA PressWindowOK ==
  ASSUME NEW d, DeskOK(d), d.drag = -1, NEW i \in Windows, d.windows[i].visible, NEW x, NEW y
  PROVE  DeskOK(PressWindow(d, i, x, y)) /\ DragOK(PressWindow(d, i, x, y))
<1>. DEFINE f == bring_to_front(d, i)
<1>1. DeskOK(f) /\ f.drag = -1 /\ f.windows = d.windows
  <2>1. Shape(d)
    BY DEF DeskOK
  <2>2. f.drag = d.drag /\ f.windows = d.windows
    BY <2>1, BringShape
  <2>3. DeskOK(f)
    BY BringOK
  <2>. QED
    BY <2>2, <2>3
<1>2. \/ PressWindow(d, i, x, y) = f
      \/ PressWindow(d, i, x, y) = [f EXCEPT !.windows[i].visible = FALSE]
      \/ PressWindow(d, i, x, y) = [f EXCEPT !.drag = i]
  BY DEF PressWindow
<1>. HIDE DEF f
<1>3. LET e == [f EXCEPT !.windows[i].visible = FALSE] IN DeskOK(e) /\ e.drag = f.drag
  BY <1>1, SetVisible
<1>4. LET e == [f EXCEPT !.drag = i] IN DeskOK(e) /\ e.drag = i /\ e.windows = f.windows
  BY <1>1, OtherParts
<1>5. CASE PressWindow(d, i, x, y) = f
  BY <1>1, <1>5 DEF DragOK
<1>6. CASE PressWindow(d, i, x, y) = [f EXCEPT !.windows[i].visible = FALSE]
  BY <1>1, <1>3, <1>6 DEF DragOK
<1>7. CASE PressWindow(d, i, x, y) = [f EXCEPT !.drag = i]
  BY <1>1, <1>4, <1>7 DEF DragOK
<1>. QED
  BY <1>2, <1>5, <1>6, <1>7

(* The window of the dock's item that is pressed. *)
LEMMA DockFacts ==
  ASSUME NEW S \in SUBSET Windows, S # {}
  PROVE  (CHOOSE i \in S : \A j \in S : i <= j) \in Windows
<1>1. S \in SUBSET Nat
  BY WindowNumbers
<1>2. \E i \in S : \A j \in S : i <= j
  BY <1>1, LeastOfNats
<1>. QED
  BY <1>2

LEMMA PressOK ==
  ASSUME NEW d, DeskOK(d), d.drag = -1, NEW x, NEW y
  PROVE  DeskOK(handle_mouse_press(d, x, y)) /\ DragOK(handle_mouse_press(d, x, y))
<1>. DEFINE e == [d EXCEPT !.menu = @ /\ menu_contains(x, y)]
            docked == {i \in Windows : dock_item_hit_test(i, x, y)}
            hit == window_hit_test(e, x, y)
            slot == CHOOSE i \in docked : \A j \in docked : i <= j
            result == handle_mouse_press(d, x, y)
<1>1. DeskOK(e) /\ e.drag = -1
  BY OtherParts
<1>2. CASE y = 0 /\ x <= MENU_BAR_END
  <2>1. result = [d EXCEPT !.menu = ~@]
    BY <1>2 DEF handle_mouse_press
  <2>2. /\ Shape(result) /\ result.windows = d.windows /\ result.zorder = d.zorder
        /\ result.active = d.active /\ result.dock = d.dock /\ result.drag = d.drag
    BY <2>1 DEF DeskOK, Shape
  <2>. QED
    BY <2>2 DEF DragOK, DeskOK
<1>3. CASE ~(y = 0 /\ x <= MENU_BAR_END) /\ d.menu /\ menu_item_hit_test(x, y)
  <2>1. result = handle_menu_action(d, y)
    BY <1>3 DEF handle_mouse_press
  <2>2. y \in (MENU_Y + 1) .. (MENU_Y + 4)
    BY <1>3 DEF menu_item_hit_test
  <2>. QED
    BY <2>1, <2>2, MenuOK DEF DragOK
<1>4. CASE /\ ~(y = 0 /\ x <= MENU_BAR_END) /\ ~(d.menu /\ menu_item_hit_test(x, y))
           /\ docked # {}
  <2>1. result = Show([e EXCEPT !.dock = slot], slot)
    BY <1>4 DEF handle_mouse_press
  <2>2. slot \in Windows
    BY <1>4, DockFacts
  <2>. HIDE DEF e, slot
  <2>3. DeskOK([e EXCEPT !.dock = slot]) /\ [e EXCEPT !.dock = slot].drag = -1
    BY <1>1, <2>2, OtherParts
  <2>. QED
    BY <2>1, <2>2, <2>3, ShowOK DEF DragOK
<1>5. CASE /\ ~(y = 0 /\ x <= MENU_BAR_END) /\ ~(d.menu /\ menu_item_hit_test(x, y))
           /\ docked = {}
  <2>1. result = IF hit >= 0 THEN PressWindow(e, hit, x, y) ELSE e
    BY <1>5 DEF handle_mouse_press
  <2>. HIDE DEF e
  <2>2. CASE hit >= 0
    <3>1. hit # -1
      BY <2>2
    <3>2. hit \in Windows /\ e.windows[hit].visible
      BY <1>1, <3>1, HitFacts
    <3>. QED
      BY <1>1, <2>1, <2>2, <3>2, PressWindowOK
  <2>3. CASE ~(hit >= 0)
    BY <1>1, <2>1, <2>3 DEF DragOK
  <2>. QED
    BY <2>2, <2>3
<1>. QED
  BY <1>2, <1>3, <1>4, <1>5

(* A drag keeps the window inside the desktop. *)
LEMMA ClampFacts ==
  ASSUME NEW i \in Windows, NEW v, WindowShape(v)
  PROVE  LET c == clamp_window(i, v)
         IN  /\ WindowShape(c) /\ c.visible = v.visible
             /\ 1 <= c.x /\ c.x <= MaxX(i) /\ DESKTOP_TOP + 1 <= c.y /\ c.y <= MaxY(i)
<1>. DEFINE c == clamp_window(i, v)
<1>2. /\ c.x = clampi(v.x, 1, MaxX(i)) /\ c.y = clampi(v.y, DESKTOP_TOP + 1, MaxY(i))
      /\ c.visible = v.visible /\ DOMAIN c = {"x", "y", "visible"}
  BY DEF clamp_window, WindowShape
<1>. HIDE DEF c
<1>3. v.x \in Int /\ v.y \in Int
  BY DEF WindowShape
<1>4. /\ MaxX(i) \in Int /\ 1 <= MaxX(i) /\ MaxY(i) \in Int /\ DESKTOP_TOP + 1 <= MaxY(i)
      /\ DESKTOP_TOP + 1 \in Int
  BY WindowNumbers
<1>5. c.x \in Int /\ 1 <= c.x /\ c.x <= MaxX(i)
  BY <1>2, <1>3, <1>4 DEF clampi
<1>6. c.y \in Int /\ DESKTOP_TOP + 1 <= c.y /\ c.y <= MaxY(i)
  BY <1>2, <1>3, <1>4 DEF clampi
<1>. QED
  BY <1>2, <1>5, <1>6 DEF c, WindowShape

LEMMA MovedOK ==
  ASSUME NEW d, DeskOK(d), DragOK(d), d.drag # -1, NEW m \in Moves
  PROVE  DeskOK(Moved(d, m)) /\ DragOK(Moved(d, m)) /\ Moved(d, m).drag = d.drag
<1>. DEFINE i == d.drag
            w == d.windows[i]
            v == Shifted(w, m)
            c == clamp_window(i, v)
            e == Moved(d, m)
<1>1. i \in Windows /\ w.visible /\ DOMAIN d.windows = Windows /\ WindowShape(w)
  BY DEF DragOK, DeskOK, PlacedOK
<1>2. m[1] \in Int /\ m[2] \in Int
  BY ScreenAssumption
<1>3. WindowShape(v) /\ v.visible = w.visible
  <2>1. /\ v.x = w.x + m[1] /\ v.y = w.y + m[2] /\ v.visible = w.visible
        /\ DOMAIN v = DOMAIN w
    BY <1>1 DEF WindowShape, Shifted
  <2>. HIDE DEF v, w
  <2>. QED
    BY <1>1, <1>2, <2>1 DEF WindowShape
<1>4. e = [d EXCEPT !.windows[i] = c]
  BY DEF Moved
<1>. HIDE DEF v, e
<1>5. /\ WindowShape(c) /\ c.visible = w.visible
      /\ 1 <= c.x /\ c.x <= MaxX(i) /\ DESKTOP_TOP + 1 <= c.y /\ c.y <= MaxY(i)
  BY <1>1, <1>3, ClampFacts
<1>. HIDE DEF c
<1>6. /\ Shape(e) /\ e.windows = [d.windows EXCEPT ![i] = c] /\ e.zorder = d.zorder
      /\ e.active = d.active /\ e.dock = d.dock /\ e.drag = d.drag
  BY <1>4 DEF DeskOK, Shape
<1>7. PlacedOK(e.windows)
  BY <1>1, <1>5, <1>6 DEF DeskOK, PlacedOK
<1>8. e.windows[i].visible
  BY <1>1, <1>5, <1>6
<1>9. DeskOK(e) /\ DragOK(e) /\ e.drag = d.drag
  BY <1>1, <1>6, <1>7, <1>8 DEF DeskOK, DragOK
<1>. QED
  BY <1>9 DEF e

(* The mouse's half of a frame. *)
LEMMA MouseOK ==
  ASSUME NEW d, DeskOK(d), DragOK(d), d.drag # -1 => d.prev, NEW x, NEW y, NEW m \in Moves,
         NEW left \in BOOLEAN
  PROVE  LET e == process_mouse(d, x, y, m, left)
         IN  DeskOK(e) /\ DragOK(e) /\ (e.drag # -1 => e.prev)
<1>. DEFINE moved == IF d.drag >= 0 /\ left THEN Moved(d, m) ELSE d
            f == DragOrPress(d, x, y, m, left)
            e == process_mouse(d, x, y, m, left)
<1>1. DeskOK(moved) /\ DragOK(moved) /\ moved.drag = d.drag
  <2>1. CASE d.drag >= 0 /\ left
    <3>1. d.drag # -1
      BY <2>1
    <3>. QED
      BY <2>1, <3>1, MovedOK
  <2>2. CASE ~(d.drag >= 0 /\ left)
    BY <2>2
  <2>. QED
    BY <2>1, <2>2
<1>2. f = IF left /\ ~d.prev THEN handle_mouse_press(moved, x, y) ELSE moved
  BY DEF DragOrPress, Moved
<1>. HIDE DEF moved
<1>3. DeskOK(f) /\ DragOK(f)
  <2>1. CASE left /\ ~d.prev
    BY <1>1, <1>2, <2>1, PressOK
  <2>2. CASE ~(left /\ ~d.prev)
    BY <1>1, <1>2, <2>2
  <2>. QED
    BY <2>1, <2>2
<1>4. ~left /\ ~d.prev => f.drag = -1
  BY <1>1, <1>2
<1>5. e = [f EXCEPT !.prev = left, !.drag = IF ~left /\ d.prev THEN -1 ELSE @]
  BY DEF process_mouse
<1>. HIDE DEF f, e
<1>6. /\ Shape(e) /\ e.windows = f.windows /\ e.zorder = f.zorder /\ e.active = f.active
      /\ e.dock = f.dock /\ e.prev = left
      /\ e.drag = IF ~left /\ d.prev THEN -1 ELSE f.drag
  BY <1>3, <1>5 DEF DeskOK, Shape
<1>7. DeskOK(e) /\ DragOK(e) /\ (e.drag # -1 => e.prev)
  BY <1>3, <1>4, <1>6 DEF DeskOK, DragOK
<1>. QED
  BY <1>7 DEF e

(* The keyboard's half of a frame: a drag goes on. *)
LEMMA BringDrag ==
  ASSUME NEW d, DeskOK(d), DragOK(d), NEW i \in Windows
  PROVE  /\ DeskOK(bring_to_front(d, i)) /\ DragOK(bring_to_front(d, i))
         /\ bring_to_front(d, i).drag = d.drag /\ bring_to_front(d, i).prev = d.prev
<1>. DEFINE e == bring_to_front(d, i)
<1>1. DeskOK(e) /\ e.windows = d.windows /\ e.drag = d.drag /\ e.prev = d.prev
  <2>1. Shape(d)
    BY DEF DeskOK
  <2>2. e.windows = d.windows /\ e.drag = d.drag /\ e.prev = d.prev
    BY <2>1, BringShape
  <2>3. DeskOK(e)
    BY BringOK
  <2>. QED
    BY <2>2, <2>3
<1>. HIDE DEF e
<1>2. DragOK(e)
  BY <1>1 DEF DragOK
<1>. QED
  BY <1>1, <1>2 DEF e

LEMMA ShowDrag ==
  ASSUME NEW d, DeskOK(d), DragOK(d), NEW i \in Windows
  PROVE  /\ DeskOK(Show(d, i)) /\ DragOK(Show(d, i))
         /\ Show(d, i).drag = d.drag /\ Show(d, i).prev = d.prev
<1>. DEFINE e == [d EXCEPT !.windows[i].visible = TRUE]
<1>1. DeskOK(e) /\ e.drag = d.drag
  BY SetVisible
<1>2. e.windows = [d.windows EXCEPT ![i].visible = TRUE] /\ e.prev = d.prev
  BY DEF DeskOK, Shape
<1>. HIDE DEF e
<1>3. e.windows[i].visible /\ \A j \in Windows : j # i => e.windows[j].visible = d.windows[j].visible
  <2>1. PlacedOK(d.windows)
    BY DEF DeskOK
  <2>2. e.windows[i].visible = TRUE
    BY <1>2, <2>1, VisibleOK
  <2>3. \A j \in Windows : j # i => e.windows[j].visible = d.windows[j].visible
    BY <1>2, <2>1, VisibleOK
  <2>. QED
    BY <2>2, <2>3
<1>4. DragOK(e)
  BY <1>1, <1>3 DEF DragOK
<1>5. Show(d, i) = bring_to_front(e, i)
  BY DEF Show, e
<1>. QED
  BY <1>1, <1>2, <1>4, <1>5, BringDrag

LEMMA DockOK ==
  ASSUME NEW d, DeskOK(d), DragOK(d), NEW i \in Windows
  PROVE  LET e == [d EXCEPT !.dock = i]
         IN  DeskOK(e) /\ DragOK(e) /\ e.drag = d.drag /\ e.prev = d.prev
<1>. DEFINE e == [d EXCEPT !.dock = i]
<1>1. /\ Shape(e) /\ e.windows = d.windows /\ e.zorder = d.zorder /\ e.active = d.active
      /\ e.dock = i /\ e.drag = d.drag /\ e.prev = d.prev
  BY DEF DeskOK, Shape
<1>. HIDE DEF e
<1>2. DeskOK(e) /\ DragOK(e)
  BY <1>1 DEF DeskOK, DragOK
<1>. QED
  BY <1>1, <1>2 DEF e

Keys == {"tab", "left", "right", "enter", "m"}

LEMMA KeyOK ==
  ASSUME NEW d, DeskOK(d), DragOK(d), NEW key \in Keys
  PROVE  LET e == handle_keyboard_fallback(d, key)
         IN  DeskOK(e) /\ DragOK(e) /\ e.drag = d.drag /\ e.prev = d.prev
<1>. DEFINE e == handle_keyboard_fallback(d, key)
<1>1. CASE key = "tab"
  <2>. DEFINE p == Place(d, d.active)
              i == d.zorder[(p % WINDOW_COUNT) + 1]
              f == bring_to_front(d, i)
  <2>1. e = [f EXCEPT !.dock = i]
    BY <1>1 DEF handle_keyboard_fallback
  <2>2. p \in 1 .. WINDOW_COUNT
    BY PlaceFacts DEF DeskOK
  <2>3. (p % WINDOW_COUNT) + 1 \in 1 .. WINDOW_COUNT
    <3>. HIDE DEF p
    <3>. QED
      BY <2>2, WindowNumbers
  <2>4. i \in Windows
    BY <2>3 DEF DeskOK, StackOK
  <2>. HIDE DEF i
  <2>5. DeskOK(f) /\ DragOK(f) /\ f.drag = d.drag /\ f.prev = d.prev
    BY <2>4, BringDrag
  <2>. HIDE DEF f
  <2>. QED
    BY <2>1, <2>4, <2>5, DockOK
<1>2. CASE key = "left" \/ key = "right"
  <2>1. d.dock \in Windows
    BY DEF DeskOK
  <2>2. PICK i \in Windows : e = [d EXCEPT !.dock = i]
    <3>. DEFINE l == IF d.dock = 0 THEN WINDOW_COUNT - 1 ELSE d.dock - 1
                r == IF d.dock = WINDOW_COUNT - 1 THEN 0 ELSE d.dock + 1
    <3>1. l \in Windows /\ r \in Windows
      BY <2>1, WindowNumbers
    <3>2. e = [d EXCEPT !.dock = l] \/ e = [d EXCEPT !.dock = r]
      BY <1>2 DEF handle_keyboard_fallback
    <3>. QED
      BY <3>1, <3>2
  <2>. QED
    BY <2>2, DockOK
<1>3. CASE key = "enter"
  <2>1. e = Show(d, d.dock)
    BY <1>3 DEF handle_keyboard_fallback
  <2>. QED
    BY <2>1, ShowDrag DEF DeskOK
<1>4. CASE key = "m"
  <2>1. e = [d EXCEPT !.menu = ~@]
    BY <1>4 DEF handle_keyboard_fallback
  <2>2. /\ Shape(e) /\ e.windows = d.windows /\ e.zorder = d.zorder /\ e.active = d.active
        /\ e.dock = d.dock /\ e.drag = d.drag /\ e.prev = d.prev
    BY <2>1 DEF DeskOK, Shape
  <2>. HIDE DEF e
  <2>3. DeskOK(e) /\ DragOK(e)
    BY <2>2 DEF DeskOK, DragOK
  <2>. QED
    BY <2>2, <2>3 DEF e
<1>. QED
  BY <1>1, <1>2, <1>3, <1>4 DEF Keys

-----------------------------------------------------------------------------
(* The inductive invariant. *)
LEMMA BecomesInv ==
  ASSUME NEW d, DeskOK(d), DragOK(d), d.drag # -1 => d.prev, Becomes(d)
  PROVE  DeskInv'
<1>1. /\ Desk'.windows = d.windows /\ Desk'.zorder = d.zorder /\ Desk'.active = d.active
      /\ Desk'.dock = d.dock /\ Desk'.drag = d.drag /\ Shape(Desk')
  BY DEF Becomes, Desk, Shape
<1>2. g_drag_window' = d.drag /\ g_left_prev' = d.prev
  BY DEF Becomes
<1>3. DeskOK(Desk')
  BY <1>1 DEF DeskOK
<1>4. DragOK(Desk')
  BY <1>1 DEF DragOK
<1>. QED
  BY <1>2, <1>3, <1>4 DEF DeskInv, DeskOK, DragOK

LEMMA InitDesk == Init => DeskInv
<1>. SUFFICES ASSUME Init PROVE DeskInv
  OBVIOUS
<1>1. /\ Desk.windows = reset_layout.windows /\ Desk.zorder = reset_layout.zorder
      /\ Desk.active = reset_layout.active /\ Desk.dock = reset_layout.dock
      /\ Desk.drag = -1 /\ Shape(Desk) /\ g_drag_window = -1
  BY ResetOK DEF Init, Desk, Shape
<1>. QED
  BY <1>1, ResetOK DEF DeskInv, DeskOK, DragOK

LEMMA StepDesk == DeskInv /\ [Next]_vars => DeskInv'
<1>. SUFFICES ASSUME DeskInv, [Next]_vars PROVE DeskInv'
  OBVIOUS
<1>1. /\ DeskOK(Desk) /\ DragOK(Desk) /\ (Desk.drag # -1 => Desk.prev)
  BY DEF DeskInv, Desk
<1>2. CASE MouseFrame
  <2>1. PICK p \in Area, m \in Moves, left \in BOOLEAN :
          Becomes(process_mouse(Desk, p[1], p[2], m, left))
    BY <1>2 DEF MouseFrame
  <2>. QED
    BY <1>1, <2>1, MouseOK, BecomesInv
<1>3. CASE KeyFrame
  <2>1. PICK key \in Keys : Becomes(handle_keyboard_fallback(Desk, key))
    BY <1>3 DEF KeyFrame, Keys
  <2>. QED
    BY <1>1, <2>1, KeyOK, BecomesInv
<1>4. CASE Escape \/ UNCHANGED vars
  <2>1. Desk' = Desk /\ g_drag_window' = g_drag_window /\ g_left_prev' = g_left_prev
    BY <1>4 DEF Escape, vars, layoutVars, Desk
  <2>. QED
    BY <2>1 DEF DeskInv, DeskOK, DragOK
<1>5. CASE desktop_run
  <2>1. Becomes(reset_layout)
    BY <1>5 DEF desktop_run
  <2>. QED
    BY <2>1, ResetOK, BecomesInv DEF DragOK
<1>. QED
  BY <1>2, <1>3, <1>4, <1>5 DEF Next

(* What window_hit_test finds is what render_desktop draws last, because   *)
(* the active window is at the front of the stack.                         *)
LEMMA HitIsSeen ==
  ASSUME DeskInv, NEW x, NEW y
  PROVE  window_hit_test(Desk, x, y) = Seen(x, y)
<1>. DEFINE hits == {k \in 1 .. WINDOW_COUNT : Covers(g_zorder[k], g_windows[g_zorder[k]], x, y)}
            rest == {k \in 1 .. WINDOW_COUNT :
                       g_zorder[k] # g_active_win /\ Covers(g_zorder[k], g_windows[g_zorder[k]], x, y)}
<1>1. Desk.zorder = g_zorder /\ Desk.windows = g_windows /\ Desk.active = g_active_win
  BY DEF Desk
<1>2. window_hit_test(Desk, x, y) = FrontMost(Desk, hits)
  BY <1>1 DEF window_hit_test
<1>3. Seen(x, y) = IF Covers(g_active_win, g_windows[g_active_win], x, y) THEN g_active_win
                   ELSE FrontMost(Desk, rest)
  BY DEF Seen
<1>4. StackOK(Desk.zorder, Desk.active) /\ g_zorder[WINDOW_COUNT] = g_active_win
  BY <1>1 DEF DeskInv, DeskOK, StackOK
<1>5. CASE Covers(g_active_win, g_windows[g_active_win], x, y)
  <2>1. WINDOW_COUNT \in hits
    BY <1>4, <1>5, WindowNumbers
  <2>2. FrontMost(Desk, hits) = Desk.active
    BY <1>4, <2>1, FrontMostFacts
  <2>. QED
    BY <1>1, <1>2, <1>3, <1>5, <2>2
<1>6. CASE ~Covers(g_active_win, g_windows[g_active_win], x, y)
  <2>1. hits = rest
    BY <1>6
  <2>. QED
    BY <1>2, <1>3, <1>6, <2>1
<1>. QED
  BY <1>5, <1>6

LEMMA OncePerStack ==
  ASSUME DeskInv, NEW i \in Windows
  PROVE  Cardinality({k \in DOMAIN g_zorder : g_zorder[k] = i}) = 1
<1>1. StackOK(g_zorder, g_active_win)
  BY DEF DeskInv, DeskOK, Desk
<1>2. PICK k \in 1 .. WINDOW_COUNT : g_zorder[k] = i
  BY <1>1 DEF StackOK
<1>3. {l \in DOMAIN g_zorder : g_zorder[l] = i} = {k}
  BY <1>1, <1>2 DEF StackOK
<1>4. Cardinality({k}) = 1
  BY FS_Singleton
<1>. QED
  BY <1>3, <1>4

(* After any presses, drags, keys and menu actions a press acts on the     *)
(* window that render_desktop shows at the pointer.                        *)
THEOREM PressHitsSeen == Spec => []SeenIsHit
<1>1. DeskInv => SeenIsHit
  BY HitIsSeen, OncePerStack DEF SeenIsHit
<1>. QED
  BY <1>1, InitDesk, StepDesk, PTL DEF Spec

(* process_mouse drags a window only while the button is down and the      *)
(* window is shown.                                                        *)
THEOREM DragEnds == Spec => []DragSane
<1>1. DeskInv => DragSane
  BY DEF DeskInv, DragOK, Desk, DragSane
<1>. QED
  BY <1>1, InitDesk, StepDesk, PTL DEF Spec

(* clamp_window keeps every window off the menu bar, the dock and the      *)
(* edges, however far the mouse goes in one frame.                         *)
THEOREM WindowsStay == Spec => []InBounds
<1>1. DeskInv => InBounds
  <2>. SUFFICES ASSUME DeskInv, NEW i \in Windows
                PROVE  /\ 1 <= g_windows[i].x /\ g_windows[i].x + Size[i].w < VGA_WIDTH
                       /\ DESKTOP_TOP < g_windows[i].y
                       /\ g_windows[i].y + Size[i].h <= DESKTOP_BOTTOM
    BY DEF InBounds
  <2>1. /\ g_windows[i].x \in Int /\ g_windows[i].y \in Int
        /\ 1 <= g_windows[i].x /\ g_windows[i].x <= MaxX(i)
        /\ DESKTOP_TOP + 1 <= g_windows[i].y /\ g_windows[i].y <= MaxY(i)
    BY DEF DeskInv, DeskOK, PlacedOK, WindowShape, Desk
  <2>. QED
    BY <2>1, WindowNumbers
<1>. QED
  BY <1>1, InitDesk, StepDesk, PTL DEF Spec
=============================================================================

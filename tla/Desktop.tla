------------------------------ MODULE Desktop ------------------------------
(***************************************************************************)
(* The text desktop of src/apps/desktop.c: windows that are stacked,       *)
(* dragged, hidden and shown, a dock, and a menu.  One step is one frame   *)
(* of desktop_run's loop: what the mouse did since the last frame, then    *)
(* one key; the frame ends by drawing, which changes nothing.              *)
(*                                                                         *)
(* The mouse driver adds up the packets of a frame and clamps the pointer  *)
(* at the edges of the screen, but not the sum: pushing against an edge    *)
(* gives any difference between the two, so a frame may come with any      *)
(* pointer position and any movement.                                      *)
(***************************************************************************)
EXTENDS Integers, FiniteSets

CONSTANTS
  VGA_WIDTH, DESKTOP_TOP, DESKTOP_BOTTOM, DOCK_TOP,
  MENU_X, MENU_Y, MENU_W, MENU_H, MENU_BAR_END,
  DOCK_SLOT_W, WINDOW_COUNT,
  Size,                \* [w, h] of each window
  Layout,              \* [x, y, visible] of each window after a reset
  Order,               \* the stacking order after a reset, the front last
  About,               \* the window the menu's first item shows
  Moves                \* how far <<dx, dy>> the mouse may go in a frame

Windows == 0 .. (WINDOW_COUNT - 1)
Area == (0 .. (VGA_WIDTH - 1)) \X (0 .. (DOCK_TOP + 2))

(* clampi of the range a window may be in. *)
clampi(v, lo, hi) == IF v < lo THEN lo ELSE IF v > hi THEN hi ELSE v
MaxX(i) == LET m == VGA_WIDTH - Size[i].w - 1 IN IF m < 1 THEN 1 ELSE m
MaxY(i) ==
  LET m == DESKTOP_BOTTOM - Size[i].h
  IN  IF m < DESKTOP_TOP + 1 THEN DESKTOP_TOP + 1 ELSE m

ASSUME ScreenAssumption ==
  /\ WINDOW_COUNT \in Nat \ {0}
  /\ VGA_WIDTH \in Int /\ DESKTOP_TOP \in Int /\ DESKTOP_BOTTOM \in Int /\ MENU_Y \in Int
  /\ Moves \subseteq Int \X Int
  /\ \A i \in Windows :
       /\ Size[i].w \in 1 .. (VGA_WIDTH - 2)
       /\ Size[i].h \in 1 .. (DESKTOP_BOTTOM - DESKTOP_TOP - 1)

ASSUME OrderAssumption ==
  /\ About \in Windows
  /\ Order \in [1 .. WINDOW_COUNT -> Windows]
  /\ \A i \in Windows : \E k \in 1 .. WINDOW_COUNT : Order[k] = i
  /\ \A k, l \in 1 .. WINDOW_COUNT : Order[k] = Order[l] => k = l
  /\ Order[WINDOW_COUNT] = About

ASSUME LayoutAssumption ==
  /\ Layout \in [Windows -> [x : Int, y : Int, visible : BOOLEAN]]
  /\ \A i \in Windows :
       /\ Layout[i].x \in 1 .. MaxX(i)
       /\ Layout[i].y \in (DESKTOP_TOP + 1) .. MaxY(i)

VARIABLES
  g_windows,           \* [x, y, visible] of each window
  g_zorder,            \* windows, the front last
  g_active_win, g_dock_index, g_menu_open,
  g_drag_window,       \* -1 when g_drag_active is false
  g_left_prev,
  g_mouse_ok,
  running              \* desktop_run has been called and has not returned

layoutVars == <<g_windows, g_zorder, g_active_win, g_dock_index, g_menu_open,
                g_drag_window, g_left_prev>>
vars == <<layoutVars, g_mouse_ok, running>>

(* The state a frame works on, step by step. *)
Desk == [windows |-> g_windows, zorder |-> g_zorder, active |-> g_active_win,
         dock |-> g_dock_index, menu |-> g_menu_open, drag |-> g_drag_window,
         prev |-> g_left_prev]

Becomes(d) ==
  /\ g_windows' = d.windows /\ g_zorder' = d.zorder /\ g_active_win' = d.active
  /\ g_dock_index' = d.dock /\ g_menu_open' = d.menu
  /\ g_drag_window' = d.drag /\ g_left_prev' = d.prev

reset_layout ==
  [windows |-> Layout, zorder |-> Order, active |-> About,
   dock |-> 0, menu |-> FALSE, drag |-> -1, prev |-> FALSE]

Init ==
  /\ running = TRUE
  /\ g_mouse_ok \in BOOLEAN
  /\ LET d == reset_layout
     IN  /\ g_windows = d.windows /\ g_zorder = d.zorder /\ g_active_win = d.active
         /\ g_dock_index = d.dock /\ g_menu_open = d.menu
         /\ g_drag_window = d.drag /\ g_left_prev = d.prev

-----------------------------------------------------------------------------
(* Mutant: the range reaches one cell too far. *)
ClampWindowWide(i, w) ==
  [w EXCEPT !.x = clampi(@, 1, MaxX(i) + 1), !.y = clampi(@, DESKTOP_TOP + 1, MaxY(i) + 1)]

clamp_window(i, w) ==
  [w EXCEPT !.x = clampi(@, 1, MaxX(i)), !.y = clampi(@, DESKTOP_TOP + 1, MaxY(i))]

(* Mutant: the window becomes active where it is. *)
BringActiveOnly(d, i) == [d EXCEPT !.active = i]

(* The place of window i in the stacking order. *)
Place(d, i) == CHOOSE k \in 1 .. WINDOW_COUNT : d.zorder[k] = i

(* The windows before place p stay, those behind it move up by one. *)
MovedUp(z, p, i) ==
  [k \in 1 .. WINDOW_COUNT |->
     IF k < p THEN z[k] ELSE IF k < WINDOW_COUNT THEN z[k + 1] ELSE i]

bring_to_front(d, i) ==
  [d EXCEPT !.zorder = MovedUp(@, Place(d, i), i), !.active = i]

Show(d, i) == bring_to_front([d EXCEPT !.windows[i].visible = TRUE], i)

Covers(i, w, x, y) ==
  /\ w.visible
  /\ w.x <= x /\ x < w.x + Size[i].w
  /\ w.y <= y /\ y < w.y + Size[i].h

(* The front-most of the windows in some places, -1 if there is none. *)
FrontMost(d, places) ==
  IF places = {} THEN -1
  ELSE d.zorder[CHOOSE k \in places : \A l \in places : l <= k]

window_hit_test(d, x, y) ==
  FrontMost(d, {k \in 1 .. WINDOW_COUNT : Covers(d.zorder[k], d.windows[d.zorder[k]], x, y)})

dock_slot_x(i) == (VGA_WIDTH - WINDOW_COUNT * DOCK_SLOT_W) \div 2 + i * DOCK_SLOT_W
dock_item_hit_test(i, x, y) ==
  y = DOCK_TOP + 1 /\ dock_slot_x(i) <= x /\ x < dock_slot_x(i) + DOCK_SLOT_W - 1

menu_contains(x, y) ==
  MENU_X <= x /\ x < MENU_X + MENU_W /\ MENU_Y <= y /\ y < MENU_Y + MENU_H
menu_item_hit_test(x, y) == menu_contains(x, y) /\ y \in (MENU_Y + 1) .. (MENU_Y + 4)

(* The item in row y: About, Reset Layout, Hide Active Window, Close Menu. *)
handle_menu_action(d, y) ==
  [(CASE y = MENU_Y + 1 -> Show(d, About)
      [] y = MENU_Y + 2 -> reset_layout
      [] y = MENU_Y + 3 -> [d EXCEPT !.windows[d.active].visible = FALSE]
      [] y = MENU_Y + 4 -> d) EXCEPT !.menu = FALSE]

(* A press on window i: the close box hides it, the rest of the title row  *)
(* begins a drag.                                                          *)
PressWindow(d, i, x, y) ==
  LET f == bring_to_front(d, i)
      w == d.windows[i]
  IN  IF y # w.y THEN f
      ELSE IF x \in (w.x + 1) .. (w.x + 2) THEN [f EXCEPT !.windows[i].visible = FALSE]
      ELSE [f EXCEPT !.drag = i]

(* A press in the open menu, but on none of its items, goes on to what the *)
(* menu hides.                                                             *)
handle_mouse_press(d, x, y) ==
  LET e == [d EXCEPT !.menu = @ /\ menu_contains(x, y)]
      docked == {i \in Windows : dock_item_hit_test(i, x, y)}
      hit == window_hit_test(e, x, y)
  IN  IF y = 0 /\ x <= MENU_BAR_END THEN [d EXCEPT !.menu = ~@]
      ELSE IF d.menu /\ menu_item_hit_test(x, y) THEN handle_menu_action(d, y)
      ELSE IF docked # {}
           THEN LET i == CHOOSE i \in docked : \A j \in docked : i <= j
                IN  Show([e EXCEPT !.dock = i], i)
      ELSE IF hit >= 0 THEN PressWindow(e, hit, x, y)
      ELSE e

(* The window that is dragged follows the mouse. *)
Shifted(w, m) == [w EXCEPT !.x = w.x + m[1], !.y = w.y + m[2]]
Moved(d, m) ==
  [d EXCEPT !.windows[d.drag] = clamp_window(d.drag, Shifted(d.windows[d.drag], m))]

(* process_mouse up to the release: the drag goes on while the button is   *)
(* down, and a new press is handled.                                       *)
DragOrPress(d, x, y, m, left) ==
  LET moved == IF d.drag >= 0 /\ left THEN Moved(d, m) ELSE d
  IN  IF left /\ ~d.prev THEN handle_mouse_press(moved, x, y) ELSE moved

(* Mutant: letting go of the button does not end the drag. *)
ProcessMouseHolds(d, x, y, m, left) ==
  [DragOrPress(d, x, y, m, left) EXCEPT !.prev = left]

process_mouse(d, x, y, m, left) ==
  [DragOrPress(d, x, y, m, left) EXCEPT !.prev = left,
                                        !.drag = IF ~left /\ d.prev THEN -1 ELSE @]

handle_keyboard_fallback(d, key) ==
  CASE key = "tab" ->
         LET i == d.zorder[(Place(d, d.active) % WINDOW_COUNT) + 1]
         IN  [bring_to_front(d, i) EXCEPT !.dock = i]
    [] key = "left" -> [d EXCEPT !.dock = IF @ = 0 THEN WINDOW_COUNT - 1 ELSE @ - 1]
    [] key = "right" -> [d EXCEPT !.dock = IF @ = WINDOW_COUNT - 1 THEN 0 ELSE @ + 1]
    [] key = "enter" -> Show(d, d.dock)
    [] key = "m" -> [d EXCEPT !.menu = ~@]

-----------------------------------------------------------------------------
(* A frame is its mouse half and its keyboard half; without a key, or      *)
(* without a mouse, there is only one.                                     *)
MouseFrame ==
  /\ running /\ g_mouse_ok
  /\ \E p \in Area, m \in Moves, left \in BOOLEAN :
       Becomes(process_mouse(Desk, p[1], p[2], m, left))
  /\ UNCHANGED <<g_mouse_ok, running>>

KeyFrame ==
  /\ running
  /\ \E key \in {"tab", "left", "right", "enter", "m"} :
       Becomes(handle_keyboard_fallback(Desk, key))
  /\ UNCHANGED <<g_mouse_ok, running>>

Escape == running /\ running' = FALSE /\ UNCHANGED <<layoutVars, g_mouse_ok>>

desktop_run ==
  /\ ~running
  /\ running' = TRUE
  /\ g_mouse_ok' \in BOOLEAN
  /\ Becomes(reset_layout)

Next == MouseFrame \/ KeyFrame \/ Escape \/ desktop_run

Spec == Init /\ [][Next]_vars

-----------------------------------------------------------------------------
(* render_desktop: the active window is drawn last, whatever its place in  *)
(* the stacking order.  The window seen at a point is the last one drawn.  *)
Seen(x, y) ==
  LET covers(i) == Covers(i, g_windows[i], x, y)
  IN  IF covers(g_active_win) THEN g_active_win
      ELSE FrontMost(Desk, {k \in 1 .. WINDOW_COUNT :
                              g_zorder[k] # g_active_win /\ covers(g_zorder[k])})

(* A press acts on the window the user sees: after any presses, drags, Tab *)
(* and menu actions window_hit_test finds, at every point, the window that *)
(* render_desktop draws there last, and every window is still in the stack *)
(* once.                                                                   *)
SeenIsHit ==
  /\ \A i \in Windows : Cardinality({k \in DOMAIN g_zorder : g_zorder[k] = i}) = 1
  /\ \A p \in Area : window_hit_test(Desk, p[1], p[2]) = Seen(p[1], p[2])

(* A drag lasts as long as the button: process_mouse moves no window that  *)
(* was let go of, and never one that is hidden.                            *)
DragSane ==
  g_drag_window # -1 => g_left_prev /\ g_windows[g_drag_window].visible

(* No window is dragged over the menu bar, the dock or an edge of the      *)
(* screen, so a press there is never taken by a window.                    *)
InBounds ==
  \A i \in Windows :
    /\ 1 <= g_windows[i].x /\ g_windows[i].x + Size[i].w < VGA_WIDTH
    /\ DESKTOP_TOP < g_windows[i].y /\ g_windows[i].y + Size[i].h <= DESKTOP_BOTTOM
=============================================================================

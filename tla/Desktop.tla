------------------------------ MODULE Desktop ------------------------------
(***************************************************************************)
(* The graphical session after login (kernel/gde/gde_main.c, desktop.c,    *)
(* taskbar.c) over the window manager: one thread drains the key ring and  *)
(* dispatches mouse events, while the keyboard and mouse interrupts        *)
(* (kernel/drivers/keyboard.c, mouse.c) change what it reads.              *)
(*                                                                         *)
(* The screen is a grid of cells; a cell is as high as a title bar and as  *)
(* wide as a title bar button, a taskbar button, a menu item or an icon.   *)
(* What is drawn is left out, and so is what the applications do inside    *)
(* their windows, except that it opens windows and changes the resolution. *)
(***************************************************************************)
EXTENDS Windows

CONSTANTS
  Resolutions,       \* g_disp_res: records [w, h]
  MIN_W, MIN_H,      \* the least size of a window being resized
  CTX_W, MENU_W,     \* widths of the menus
  Icons,             \* kinds of window the desktop icons open
  CtxItems,          \* items of the context menu, "-" a separator
  StartItems,        \* items of the start menu
  Geo(_),            \* where a window of a kind opens
  KB_BUF_SIZE,
  Boot, Opened,      \* the resolution at boot; pairs of windows that may be open at first
  Points,            \* positions the mouse is moved to
  MaxEvents,         \* interrupts of a behaviour
  MaxBurst           \* interrupts of a round of the loop

Modes == Resolutions \cup {Boot}
Kinds == {"Editor"} \cup Range(Icons) \cup (Range(CtxItems) \ {"-"})
                    \cup (Range(StartItems) \ {"-", "Reboot"}) \cup UNION { Range(o) : o \in Opened }

\* Some of a title bar at g, above the taskbar, is on a screen of resolution r.
Reachable(g, r) ==
  /\ g[1] < r.w /\ g[1] + g[3] > 0
  /\ g[2] >= 0 /\ g[2] + TITLEBAR_H <= r.h - TASKBAR_H /\ g[4] >= TITLEBAR_H

\* Every resolution has room for the taskbar and a title bar, and every kind of
\* window opens where its title bar can be reached on each of them.
ASSUME DesktopAssumption ==
  /\ Modes \subseteq [w : Nat \ {0}, h : Nat] /\ \A r \in Modes : r.h >= TASKBAR_H + TITLEBAR_H
  /\ {MIN_W, MIN_H} \subseteq Nat \ {0} /\ {CTX_W, MENU_W} \subseteq Nat
  /\ {Icons, CtxItems, StartItems} \subseteq Seq(STRING) /\ Opened \subseteq STRING \X STRING
  /\ Points \subseteq Nat \X Nat
  /\ \A k \in Kinds : /\ Geo(k) \in Int \X Int \X (Nat \ {0}) \X Nat
                        /\ \A r \in Modes : Reachable(Geo(k), r)

VARIABLES
  mouse,             \* g_mx, g_my, g_buttons, g_btn_latch, g_changed
  ring,              \* kb_buf
  wm, scr,           \* the windows; the resolution
  ctx, menu,         \* the context menu; whether the start menu is open
  drag,              \* what the held button moves or resizes
  icon,              \* g_last_icon_idx, 0 for none
  sel, pending,      \* g_disp_sel; g_pending_res_w, _h
  prev, seen, pc,    \* g_prev_buttons; what was read of the mouse; the thread
  events, burst      \* interrupts so far, in all and in this round

ui     == <<wm, ctx, menu, drag, icon, sel, pending>>
vars   == <<mouse, ring, wm, scr, ctx, menu, drag, icon, sel, pending, prev, seen, pc, events, burst>>

Buttons == {"left", "right"}
NoRes  == [w |-> 0, h |-> 0]
NoDrag == [kind |-> "none", idx |-> 0, off |-> <<0, 0>>]
NoCtx  == [open |-> FALSE, at |-> <<0, 0>>, hover |-> 0]
AtRest == [pos |-> <<0, 0>>, buttons |-> {}, latch |-> {}, changed |-> FALSE]
NothingSeen == [pos |-> <<0, 0>>, buttons |-> {}, pressed |-> {}]

BarTop == scr.h - TASKBAR_H

Init ==
  /\ mouse = AtRest /\ ring = <<>> /\ scr = Boot
  /\ wm \in { NoWindows } \cup
       { wm_create(wm_create(NoWindows, o[1], Geo(o[1])), o[2], Geo(o[2])) : o \in Opened }
  /\ ctx = NoCtx /\ menu = FALSE /\ drag = NoDrag /\ icon = 0 /\ sel = Boot /\ pending = NoRes
  /\ prev = {} /\ seen = NothingSeen /\ pc = "keys" /\ events = 0 /\ burst = 0

-----------------------------------------------------------------------------
(* Interrupts *)

Interrupt == /\ events < MaxEvents /\ events' = events + 1
             /\ burst < MaxBurst /\ burst' = burst + 1

\* A packet of the mouse, decoded: a position, clamped to the screen, and
\* the buttons that are down.  A press is latched until the thread clears it.
Packet(p, b) ==
  mouse' = [pos |-> p, buttons |-> b, latch |-> mouse.latch \cup (b \ mouse.buttons), changed |-> TRUE]

\* One packet may do both; two in a row come to the same.
mouse_handler ==
  /\ Interrupt
  /\ \/ \E p \in { q \in Points : q # mouse.pos /\ q[1] < scr.w /\ q[2] < scr.h } : Packet(p, mouse.buttons)
     \/ \E b \in Buttons : Packet(mouse.pos, SymDiff(mouse.buttons, {b}))
  /\ UNCHANGED <<ring, ui, scr, prev, seen, pc>>

\* A key goes into the ring, or is dropped when it is full.
keyboard_handler ==
  /\ Interrupt
  /\ \E k \in {"esc", "enter"} :
       ring' = IF Len(ring) < KB_BUF_SIZE - 1 THEN Append(ring, k) ELSE ring
  /\ UNCHANGED <<mouse, ui, scr, prev, seen, pc>>

-----------------------------------------------------------------------------
(* Windows opening *)

\* Opening a window comes to nothing without memory or a free slot.
Opens(s, kind) == {s, wm_create(s, kind, Geo(kind))}

\* What a key or a click does in a window of a kind, as far as others see it.
Opens_in(s, i) == IF s.win[i].kind = "Explorer" THEN Opens(s, "Editor") ELSE {s}

\* Resetting the machine ends the session: the next one starts like the first.
Reboot ==
  /\ wm' = NoWindows /\ ctx' = NoCtx /\ menu' = FALSE /\ drag' = NoDrag /\ icon' = 0
  /\ sel' = Boot /\ pending' = NoRes /\ scr' = Boot /\ mouse' = AtRest /\ ring' = <<>>
  /\ prev' = {} /\ seen' = NothingSeen /\ pc' = "keys"

-----------------------------------------------------------------------------
(* Hit testing *)

Within(p, x, y, w, h) == p[1] >= x /\ p[1] < x + w /\ p[2] >= y /\ p[2] < y + h
In(p, w) == Within(p, X(w), Y(w), Wd(w), Ht(w))

\* The highest window under a point, 0 if none.
hit_window(p) ==
  LET under == { k \in DOMAIN wm.z : wm.win[wm.z[k]].state # "minimized" /\ In(p, wm.win[wm.z[k]]) }
  IN IF under = {} THEN 0 ELSE wm.z[Max(under)]

InTitle(p, w) == p[2] >= Y(w) /\ p[2] < Y(w) + TITLEBAR_H
InGrip(p, w)  == p[1] >= X(w) + Wd(w) - 1 /\ p[2] >= Y(w) + Ht(w) - 1

title_btn_at(w, p) ==
  CASE p[1] = X(w) + Wd(w) - 1 -> "close"
    [] p[1] = X(w) + Wd(w) - 2 -> "max"
    [] p[1] = X(w) + Wd(w) - 3 -> "min"
    [] OTHER                   -> "none"

\* The context menu opens where it fits on the screen.
ctx_open(p) ==
  [open |-> TRUE, hover |-> 0,
   at |-> << IF p[1] + CTX_W > scr.w THEN scr.w - CTX_W ELSE p[1],
             IF p[2] + Len(CtxItems) > BarTop THEN BarTop - Len(CtxItems) ELSE p[2] >>]

InCtx(p) == Within(p, ctx.at[1], ctx.at[2], CTX_W, Len(CtxItems))

\* The item of the context menu under a point, 0 for none or a separator.
Hover(p) ==
  LET i == p[2] - ctx.at[2] + 1
  IN IF InCtx(p) /\ CtxItems[i] # "-" THEN i ELSE 0

-----------------------------------------------------------------------------
(* What desktop_handle_mouse does, case by case, with what it has read.     *)

\* A context menu whose highlighted item changes takes the whole event.
HoverMoves == ctx.open /\ Hover(seen.pos) # ctx.hover

OnHover ==
  /\ HoverMoves
  /\ ctx' = [ctx EXCEPT !.hover = Hover(seen.pos)]
  /\ UNCHANGED <<wm, menu, drag, icon, sel, pending>>

Clamp(x, least, most) == LET up == IF x < least THEN least ELSE x
                         IN IF up > most THEN most ELSE up

\* Mutant: the lower edge of the screen is forgotten.
Mutant_Dragged(w) ==
  [w EXCEPT !.geo = << Clamp(seen.pos[1] - drag.off[1], 0, scr.w - Wd(w)),
                       Clamp(seen.pos[2] - drag.off[2], 0, scr.h), Wd(w), Ht(w) >>]

\* The window follows the mouse; its title bar stays on the screen.
Dragged(w) ==
  [w EXCEPT !.geo = << Clamp(seen.pos[1] - drag.off[1], 0, scr.w - Wd(w)),
                       Clamp(seen.pos[2] - drag.off[2], 0, BarTop - TITLEBAR_H), Wd(w), Ht(w) >>]

Resized(w) ==
  [w EXCEPT !.geo = << X(w), Y(w), Max({seen.pos[1] - X(w) + drag.off[1], MIN_W}),
                       Min({Max({seen.pos[2] - Y(w) + drag.off[2], MIN_H}), BarTop - Y(w)}) >>]

\* drag.idx is an index into the z-order, which may have changed.
OnDrag ==
  /\ ~HoverMoves /\ drag # NoDrag
  /\ wm' = IF drag.idx > Len(wm.z) THEN wm
           ELSE [wm EXCEPT !.win[wm.z[drag.idx]] = IF drag.kind = "size" THEN Resized(@) ELSE Dragged(@)]
  /\ drag' = IF "left" \in prev \ seen.buttons THEN NoDrag ELSE drag
  /\ UNCHANGED <<ctx, menu, icon, sel, pending>>

Pressed(b) == ~HoverMoves /\ drag = NoDrag /\ b \in seen.pressed

\* A click runs the highlighted item, if it is in the context menu, and
\* closes it.
OnCtx ==
  /\ Pressed("left") /\ ctx.open
  /\ wm' \in IF InCtx(seen.pos) /\ ctx.hover # 0 THEN Opens(wm, CtxItems[ctx.hover]) ELSE {wm}
  /\ ctx' = [ctx EXCEPT !.open = FALSE, !.hover = 0]
  /\ UNCHANGED <<menu, drag, icon, sel, pending>>

\* A window's taskbar button restores, minimises or focuses it.
BarButton(i) ==
  LET w == wm.win[i]
  IN CASE w.state = "minimized" -> wm_focus([wm EXCEPT !.win[i].state = "normal"], i)
       [] w.state # "minimized" /\ w.focused -> wm_minimize(wm, i)
       [] OTHER -> wm_focus(wm, i)

OnBar ==
  /\ Pressed("left") /\ ~ctx.open /\ seen.pos[2] >= BarTop /\ seen.pos[2] < scr.h
  /\ menu' = IF seen.pos[1] = 0 THEN ~menu ELSE menu
  /\ wm' = IF seen.pos[1] \in DOMAIN wm.z THEN BarButton(wm.z[seen.pos[1]]) ELSE wm
  /\ UNCHANGED <<ctx, drag, icon, sel, pending>>

InMenu(p) == Within(p, 0, BarTop - Len(StartItems), MENU_W, Len(StartItems))
MenuItem(p) == IF InMenu(p) THEN StartItems[p[2] - (BarTop - Len(StartItems)) + 1] ELSE "outside"

\* The start menu takes every click above the taskbar; one outside closes it.
\* (A mouse that a smaller resolution left below the screen is outside, too.)
OnMenu ==
  /\ Pressed("left") /\ ~ctx.open /\ menu
  /\ seen.pos[2] < BarTop \/ seen.pos[2] >= scr.h
  /\ LET item == MenuItem(seen.pos)
     IN /\ item # "Reboot"
        /\ menu' = (item = "-")
        /\ wm' \in IF item \in {"-", "outside"} THEN {wm} ELSE Opens(wm, item)
  /\ UNCHANGED <<ctx, drag, icon, sel, pending>>

PressedDesk ==
  /\ Pressed("left") /\ ~ctx.open /\ ~menu /\ seen.pos[2] < BarTop

IconAt(p) == IF p[1] = 0 /\ p[2] + 1 \in DOMAIN Icons THEN p[2] + 1 ELSE 0

\* The second click on an icon activates it, if it comes soon enough.
OnIcon ==
  /\ PressedDesk /\ hit_window(seen.pos) = 0 /\ IconAt(seen.pos) # 0
  /\ LET i == IconAt(seen.pos)
     IN \/ icon = i /\ icon' = 0 /\ wm' \in Opens(wm, Icons[i])
        \/ icon' = i /\ UNCHANGED wm
  /\ UNCHANGED <<ctx, menu, drag, sel, pending>>

Opening == ctx' = IF "right" \in seen.pressed THEN ctx_open(seen.pos) ELSE ctx

OnBlank ==
  /\ PressedDesk /\ hit_window(seen.pos) = 0 /\ IconAt(seen.pos) = 0
  /\ icon' = 0 /\ Opening
  /\ UNCHANGED <<wm, menu, drag, sel, pending>>

\* The window that was hit gets the focus first.
Raised(i) == IF wm.win[i].focused THEN wm ELSE wm_focus(wm, i)

\* A drag takes hold of the top of the z-order, whatever window that is.
Grab(kind, off) == drag' = [kind |-> kind, idx |-> Len(wm.z), off |-> off]

OnTitle ==
  /\ PressedDesk /\ hit_window(seen.pos) # 0
  /\ LET i == hit_window(seen.pos)
         w == wm.win[i]
         b == title_btn_at(w, seen.pos)
     IN /\ InTitle(seen.pos, w)
        /\ wm' = CASE b = "close" -> wm_close(Raised(i), i)
                   [] b = "max"   -> wm_toggle_maximized(Raised(i), i, scr)
                   [] b = "min"   -> wm_minimize(Raised(i), i)
                   [] OTHER       -> Raised(i)
        /\ IF b = "none" /\ w.state = "normal"
           THEN Grab("move", <<seen.pos[1] - X(w), seen.pos[2] - Y(w)>>) ELSE UNCHANGED drag
  /\ UNCHANGED <<ctx, menu, icon, sel, pending>>

OnGrip ==
  /\ PressedDesk /\ hit_window(seen.pos) # 0
  /\ LET i == hit_window(seen.pos)
         w == wm.win[i]
     IN /\ ~InTitle(seen.pos, w) /\ w.state = "normal" /\ InGrip(seen.pos, w)
        /\ wm' = Raised(i)
        /\ Grab("size", <<Wd(w) - (seen.pos[1] - X(w)), Ht(w) - (seen.pos[2] - Y(w))>>)
  /\ UNCHANGED <<ctx, menu, icon, sel, pending>>

\* The display settings choose a resolution, or ask for the one chosen.
display_settings_mousedown ==
  \/ sel' \in Resolutions /\ UNCHANGED pending
  \/ pending' = (IF sel = scr THEN pending ELSE sel) /\ UNCHANGED sel

OnContent ==
  /\ PressedDesk /\ hit_window(seen.pos) # 0
  /\ LET i == hit_window(seen.pos)
         w == wm.win[i]
     IN /\ ~InTitle(seen.pos, w) /\ ~(w.state = "normal" /\ InGrip(seen.pos, w))
        /\ wm' \in Opens_in(Raised(i), i)
        /\ IF w.kind = "Display" THEN display_settings_mousedown ELSE UNCHANGED <<sel, pending>>
  /\ UNCHANGED <<ctx, menu, drag, icon>>

\* A right press on the desktop opens the context menu (open or not before).
OnRight ==
  /\ Pressed("right") /\ "left" \notin seen.pressed /\ seen.pos[2] < BarTop
  /\ hit_window(seen.pos) = 0
  /\ ctx' = ctx_open(seen.pos)
  /\ UNCHANGED <<wm, menu, drag, icon, sel, pending>>

\* Anything else only moves the cursor, or the highlight of the start menu.
Consumed ==
  \/ HoverMoves \/ drag # NoDrag
  \/ "left" \in seen.pressed /\ (seen.pos[2] < scr.h \/ ctx.open \/ menu)
  \/ "right" \in seen.pressed /\ seen.pos[2] < BarTop /\ hit_window(seen.pos) = 0

OnMove == ~Consumed /\ UNCHANGED ui

-----------------------------------------------------------------------------
(* The loop of gde_run_desktop *)

\* Escape closes the context menu; other keys go to the focused window.
desktop_handle_key(k) ==
  LET i == wm_focused(wm)
  IN IF k = "esc" THEN ctx' = [ctx EXCEPT !.open = FALSE] /\ UNCHANGED wm
     ELSE /\ wm' \in IF i # 0 /\ wm.win[i].state # "minimized" THEN Opens_in(wm, i) ELSE {wm}
          /\ UNCHANGED ctx

DispatchKey ==
  /\ pc = "keys" /\ ring # <<>>
  /\ ring' = Tail(ring) /\ desktop_handle_key(Head(ring))
  /\ UNCHANGED <<mouse, scr, menu, drag, icon, sel, pending, prev, seen, pc, events, burst>>

KeysDone ==
  /\ pc = "keys" /\ ring = <<>>
  /\ pc' = IF mouse.changed THEN "x" ELSE "present"
  /\ mouse' = [mouse EXCEPT !.changed = FALSE]
  /\ UNCHANGED <<ring, ui, scr, prev, seen, events, burst>>

\* desktop_handle_mouse begins: the mouse is read field by field, and packets
\* come between.
ReadX == /\ pc = "x" /\ pc' = "y" /\ seen' = [seen EXCEPT !.pos[1] = mouse.pos[1]]
         /\ UNCHANGED <<mouse, ring, ui, scr, prev, events, burst>>
ReadY == /\ pc = "y" /\ pc' = "buttons" /\ seen' = [seen EXCEPT !.pos[2] = mouse.pos[2]]
         /\ UNCHANGED <<mouse, ring, ui, scr, prev, events, burst>>
ReadButtons == /\ pc = "buttons" /\ pc' = "latch" /\ seen' = [seen EXCEPT !.buttons = mouse.buttons]
               /\ UNCHANGED <<mouse, ring, ui, scr, prev, events, burst>>
\* The latch is read here and cleared in the next step: a press that an
\* interrupt latches between the two is lost.
ReadLatch == /\ pc = "latch" /\ pc' = "handle" /\ seen' = [seen EXCEPT !.pressed = mouse.latch]
             /\ UNCHANGED <<mouse, ring, ui, scr, prev, events, burst>>

desktop_handle_mouse ==
  /\ pc = "handle" /\ pc' = "present"
  /\ mouse' = [mouse EXCEPT !.latch = {}]
  /\ prev' = seen.buttons /\ seen' = NothingSeen
  /\ \/ OnHover \/ OnDrag \/ OnCtx \/ OnBar \/ OnMenu \/ OnIcon \/ OnBlank
     \/ OnTitle \/ OnGrip \/ OnContent \/ OnRight \/ OnMove
  /\ UNCHANGED <<ring, scr, events, burst>>

\* The start menu's last item resets the machine.
action_exit_gde ==
  /\ pc = "handle" /\ Pressed("left") /\ ~ctx.open /\ menu /\ seen.pos[2] < BarTop
  /\ MenuItem(seen.pos) = "Reboot"
  /\ Reboot /\ UNCHANGED <<events, burst>>

\* Mutant: the flag is cleared when the round is over.
Mutant_desktop_present ==
  /\ pc = "present" /\ pc' = "keys"
  /\ mouse' = [mouse EXCEPT !.changed = FALSE]
  /\ IF pending = NoRes THEN UNCHANGED <<wm, scr>> ELSE scr' = pending /\ wm' = NoWindows
  /\ pending' = NoRes
  /\ burst' = 0
  /\ UNCHANGED <<ring, ctx, menu, drag, icon, sel, prev, seen, events>>

\* A resolution that was asked for closes every window.
desktop_present ==
  /\ pc = "present" /\ pc' = "keys"
  /\ IF pending = NoRes THEN UNCHANGED <<wm, scr>> ELSE scr' = pending /\ wm' = NoWindows
  /\ pending' = NoRes
  /\ burst' = 0
  /\ UNCHANGED <<mouse, ring, ctx, menu, drag, icon, sel, prev, seen, events>>

Loop == DispatchKey \/ KeysDone \/ ReadX \/ ReadY \/ ReadButtons \/ ReadLatch \/ desktop_handle_mouse \/ action_exit_gde \/ desktop_present

Next == mouse_handler \/ keyboard_handler \/ Loop

\* Every round of the loop ends, and the timer ends its hlt.
Spec == Init /\ [][Next]_vars /\ WF_vars(Loop)
-----------------------------------------------------------------------------
(* Properties *)

(* After any sequence of clicks, keys and windows opening, the z-order     *)
(* lists every window once, the window that is shown as focused is the one *)
(* keys go to, there is no other, and a window that is not minimised means *)
(* that there is one.                                                      *)
FocusSound ==
  /\ IsInjective(wm.z) /\ Range(wm.z) = { i \in Slots : wm.win[i].visible }
  /\ \A i \in Slots : wm.win[i].focused <=> i = wm_focused(wm)
  /\ wm_focused(wm) = 0 => \A i \in Range(wm.z) : wm.win[i].state = "minimized"

(* However windows are dragged, resized, maximised and restored, also by a *)
(* drag that has got hold of another window, some of every window's title  *)
(* bar is on the screen, above the taskbar, where it can be reached.       *)
TitleBarReachable ==
  \A i \in Range(wm.z) : Reachable(wm.win[i].geo, scr)

\* A drag takes hold of a window under the pointer.
DragGrabsPressed ==
  [][ drag = NoDrag /\ drag' # NoDrag => In(seen.pos, wm.win[wm'.z[drag'.idx]]) ]_vars
=============================================================================

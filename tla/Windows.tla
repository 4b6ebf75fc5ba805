------------------------------ MODULE Windows ------------------------------
(***************************************************************************)
(* The window manager (kernel/gde/wm.c): operators on its state, a record  *)
(* of the window pool (win), the z-order (z, bottom first) and the index   *)
(* in it of the focused window (foc, 0 for none).  Positions and sizes     *)
(* count units of the height of a title bar.                               *)
(***************************************************************************)
EXTENDS Integers, Sequences, FiniteSets, SequencesExt, FiniteSetsExt

CONSTANTS
  MAX_WINDOWS,       \* GDE_MAX_WINDOWS
  TASKBAR_H          \* GDE_TASKBAR_H

ASSUME WindowsAssumption == MAX_WINDOWS \in Nat \ {0} /\ TASKBAR_H \in Nat \ {0}

TITLEBAR_H == 1
Slots == 1..MAX_WINDOWS

Unused == [visible |-> FALSE, kind |-> "none", geo |-> <<0, 0, 0, 0>>, prev |-> <<0, 0, 0, 0>>,
           state |-> "normal", focused |-> FALSE]
NoWindows == [win |-> [i \in Slots |-> Unused], z |-> <<>>, foc |-> 0]

\* geo and prev are <<x, y, w, h>>.
X(w) == w.geo[1]
Y(w) == w.geo[2]
Wd(w) == w.geo[3]
Ht(w) == w.geo[4]

\* The pool with a change to the focused flags of the windows in the z-order.
Defocused(s) == [i \in Slots |-> IF i \in Range(s.z) THEN [s.win[i] EXCEPT !.focused = FALSE]
                                 ELSE s.win[i]]

\* The new window takes the first free slot and goes on top; nothing happens
\* when the pool is full.
wm_create(s, kind, geo) ==
  LET free == { j \in Slots : ~s.win[j].visible }
      i == Min(free)
  IN IF Len(s.z) >= MAX_WINDOWS \/ free = {} THEN s
     ELSE [win |-> [Defocused(s) EXCEPT ![i] = [visible |-> TRUE, kind |-> kind, geo |-> geo, prev |-> geo,
                                                 state |-> "normal", focused |-> TRUE]],
           z   |-> Append(s.z, i),
           foc |-> Len(s.z) + 1]

\* The z-order without a window that is in it (once: FocusSound of Desktop).
wm_remove_zorder(s, i) == RemoveAt(s.z, CHOOSE k \in DOMAIN s.z : s.z[k] = i)

\* The window that is then on top gets the focus, minimised or not.  (What
\* wm_close leaves in the slot, wm_create overwrites.)
wm_close(s, i) ==
  LET z == wm_remove_zorder(s, i)
      gone == [s.win EXCEPT ![i] = Unused]
  IN [win |-> IF z = <<>> THEN gone ELSE [gone EXCEPT ![Last(z)].focused = TRUE],
      z   |-> z,
      foc |-> Len(z)]

\* Mutant: the index of the focused window is left as it was.
Mutant_wm_focus(s, i) ==
  [win |-> [Defocused(s) EXCEPT ![i].focused = TRUE],
   z   |-> Append(wm_remove_zorder(s, i), i),
   foc |-> s.foc]

wm_focus(s, i) ==
  [win |-> [Defocused(s) EXCEPT ![i].focused = TRUE],
   z   |-> Append(wm_remove_zorder(s, i), i),
   foc |-> Len(s.z)]

\* 0 if no window has the focus.
wm_focused(s) == IF s.foc = 0 THEN 0 ELSE s.z[s.foc]

wm_toggle_maximized(s, i, scr) ==
  LET w == s.win[i]
  IN [s EXCEPT !.win[i] =
        IF w.state = "maximized" THEN [w EXCEPT !.geo = w.prev, !.state = "normal"]
        ELSE [w EXCEPT !.prev = w.geo, !.geo = <<0, 0, scr.w, scr.h - TASKBAR_H>>, !.state = "maximized"]]

\* The focus goes to the highest window that is not minimised.
wm_minimize(s, i) ==
  LET next == { k \in DOMAIN s.z : s.z[k] # i /\ s.win[s.z[k]].state # "minimized" }
      gone == [s.win EXCEPT ![i].state = "minimized", ![i].focused = FALSE]
  IN [s EXCEPT !.foc = IF next = {} THEN 0 ELSE Max(next),
               !.win = IF next = {} THEN gone ELSE [gone EXCEPT ![s.z[Max(next)]].focused = TRUE]]
=============================================================================

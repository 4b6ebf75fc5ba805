--------------------------- MODULE Desktop_proofs ---------------------------
(***************************************************************************)
(* Proofs about the graphical session.                                     *)
(*                                                                         *)
(* Desktop.tla: FocusSound and TitleBarReachable hold for every number of  *)
(* windows, every set of resolutions and every place where windows open,   *)
(* the hands of the user and the two interrupt handlers doing what they    *)
(* like.  First come the window manager's operators, one lemma each; then  *)
(* the invariant of the session, and one lemma for every case of           *)
(* desktop_handle_mouse.                                                   *)
(*                                                                         *)
(* Apps.tla: TreeSound holds for every size of the sidebar and every file  *)
(* system.  The code takes out the nodes below one by their depth, so the  *)
(* invariant says that the depth of a node is the length of its path; and  *)
(* a node that counts as collapsed has no children in the sidebar, so      *)
(* that none comes twice when it is expanded.                              *)
(***************************************************************************)
EXTENDS Desktop, Apps, DataLemmas

-----------------------------------------------------------------------------
(* What is true of the window manager's state between its calls *)

Geometry == Int \X Int \X Nat \X Nat
Win == [visible : BOOLEAN, kind : Kinds \cup {"none"}, geo : Geometry, prev : Geometry,
        state : {"normal", "maximized", "minimized"}, focused : BOOLEAN]
Wm  == [win : [Slots -> Win], z : Seq(Slots), foc : Nat]

(* The z-order lists the visible windows, each once, and the focused flags *)
(* agree with the index of the focused window, which is in the z-order.    *)
Listed(s) ==
  /\ s \in Wm /\ s.foc <= Len(s.z)
  /\ IsInjective(s.z) /\ Range(s.z) = { i \in Slots : s.win[i].visible }
  /\ \A i \in Slots : s.win[i].focused <=> i = wm_focused(s)

\* Without a focused window all are minimised.
Sound(s) ==
  /\ Listed(s)
  /\ s.foc = 0 => \A i \in Range(s.z) : s.win[i].state = "minimized"

(* Every window is where it can be reached on a screen of resolution r,    *)
(* and so is the place it goes back to when it is no longer maximised.     *)
Well(g, r) == g[3] > 0 /\ Reachable(g, r)
Placed(s, r) == \A i \in Range(s.z) : Well(s.win[i].geo, r) /\ Well(s.win[i].prev, r)

\* What the loop keeps between its steps besides the windows: the item of the
\* context menu that is highlighted opens something; a drag is of one of two
\* kinds, and one that resizes holds the grip from the left.
CtxSound ==
  /\ ctx \in [open : BOOLEAN, at : Int \X Int, hover : Nat]
  /\ ctx.hover # 0 => ctx.hover \in DOMAIN CtxItems /\ CtxItems[ctx.hover] # "-"

DragSound ==
  drag # NoDrag =>
    /\ drag \in [kind : {"move", "size"}, idx : Nat \ {0}, off : Int \X Int]
    /\ drag.kind = "size" => drag.off[1] > 0

ModesSound == scr \in Modes /\ sel \in Modes /\ pending \in Modes \cup {NoRes}

MouseSound ==
  /\ mouse \in [pos : Nat \X Nat, buttons : SUBSET Buttons, latch : SUBSET Buttons, changed : BOOLEAN]
  /\ seen \in [pos : Nat \X Nat, buttons : SUBSET Buttons, pressed : SUBSET Buttons]

Inv == Sound(wm) /\ Placed(wm, scr) /\ CtxSound /\ DragSound /\ ModesSound /\ MouseSound

-----------------------------------------------------------------------------
(* The window manager *)

(* Slots of the pool are numbers from 1.                                   *)
LEMMA SlotsNat == Slots \subseteq Nat \ {0} /\ MAX_WINDOWS \in Nat \ {0}
BY WindowsAssumption DEF Slots

(* The focused window is in the z-order.                                   *)
LEMMA FocusedIs ==
  ASSUME NEW s, Listed(s)
  PROVE  /\ s.foc = 0 => wm_focused(s) = 0
         /\ s.foc # 0 => wm_focused(s) = s.z[s.foc] /\ wm_focused(s) \in Range(s.z) /\ wm_focused(s) # 0
BY SlotsNat DEF Listed, Wm, wm_focused, Range

(* A free slot holds a window that is neither visible nor focused.         *)
LEMMA UnusedIs == Unused \in Win /\ ~Unused.visible /\ ~Unused.focused
<1>1. <<0, 0, 0, 0>> \in Geometry
  BY DEF Geometry
<1>. QED  BY <1>1 DEF Unused, Win

(* No window is open.                                                      *)
LEMMA NoWindowsSound == Sound(NoWindows) /\ \A r : Placed(NoWindows, r)
<1>1. NoWindows \in Wm
  <2>1. <<>> \in Seq(Slots)
    BY EmptySeq
  <2>. QED  BY <2>1, UnusedIs DEF NoWindows, Wm
<1>2. Range(NoWindows.z) = {}
  BY DEF NoWindows, Range
<1>. QED
  BY <1>1, <1>2, SlotsNat DEF Sound, Listed, Placed, NoWindows, Unused, IsInjective, wm_focused

(* Two windows that differ at most in the focused flag.                    *)
Alike(v, w) == v.visible = w.visible /\ v.geo = w.geo /\ v.prev = w.prev /\ v.state = w.state

(* Setting the focus flag changes nothing else of a window.                *)
LEMMA Flagged ==
  ASSUME NEW w \in Win, NEW b \in BOOLEAN
  PROVE  LET v == [w EXCEPT !.focused = b]
         IN v \in Win /\ v.focused = b /\ Alike(v, w)
BY DEF Win, Alike

(* The focused flags are all taken back, and nothing else changes.         *)
LEMMA DefocusedIs ==
  ASSUME NEW s, Listed(s)
  PROVE  /\ Defocused(s) \in [Slots -> Win]
         /\ \A j \in Slots : ~Defocused(s)[j].focused /\ Alike(Defocused(s)[j], s.win[j])
<1>1. s.win \in [Slots -> Win]
  BY DEF Listed, Wm
<1>2. ASSUME NEW j \in Slots
      PROVE  Defocused(s)[j] \in Win /\ ~Defocused(s)[j].focused /\ Alike(Defocused(s)[j], s.win[j])
  <2>1. CASE j \in Range(s.z)
    <3>1. Defocused(s)[j] = [s.win[j] EXCEPT !.focused = FALSE]
      BY <2>1 DEF Defocused
    <3>. QED  BY <3>1, <1>1 DEF Win, Alike
  <2>2. CASE j \notin Range(s.z)
    <3>1. Defocused(s)[j] = s.win[j]
      BY <2>2 DEF Defocused
    <3>2. j # wm_focused(s)
      BY <2>2, FocusedIs, SlotsNat DEF Listed
    <3>. QED  BY <3>1, <3>2, <1>1 DEF Listed, Alike
  <2>. QED  BY <2>1, <2>2
<1>3. Defocused(s) = [j \in Slots |-> Defocused(s)[j]]
  BY DEF Defocused
<1>. QED  BY <1>2, <1>3

(* A window that opens gets the focus; the others keep their places.       *)
LEMMA CreateSound ==
  ASSUME NEW s, Sound(s), NEW kind \in Kinds, NEW g \in Geometry
  PROVE  /\ Sound(wm_create(s, kind, g))
         /\ \A r : Placed(s, r) /\ Well(g, r) => Placed(wm_create(s, kind, g), r)
<1>. Listed(s)
  BY DEF Sound
<1>. DEFINE free == { j \in Slots : ~s.win[j].visible }
            i == Min(free)
            t == wm_create(s, kind, g)
<1>1. CASE Len(s.z) >= MAX_WINDOWS \/ free = {}
  BY <1>1 DEF wm_create
<1>2. CASE ~(Len(s.z) >= MAX_WINDOWS \/ free = {})
  <2>1. i \in free
    BY <1>2, MinIs, SlotsNat
  <2>2. t = [win |-> [Defocused(s) EXCEPT ![i] = [visible |-> TRUE, kind |-> kind, geo |-> g, prev |-> g,
                                                  state |-> "normal", focused |-> TRUE]],
             z |-> Append(s.z, i), foc |-> Len(s.z) + 1]
    BY <1>2 DEF wm_create
  <2>. HIDE DEF t, free, i
  <2>3. i \in Slots /\ ~s.win[i].visible /\ i \notin Range(s.z)
    BY <2>1 DEF Sound, Listed, free
  <2>4. s.z \in Seq(Slots) /\ s.win \in [Slots -> Win]
    BY DEF Sound, Listed, Wm
  <2>5. /\ t.z \in Seq(Slots) /\ Len(t.z) = Len(s.z) + 1 /\ t.z[Len(s.z) + 1] = i
        /\ \A k \in 1..Len(s.z) : t.z[k] = s.z[k]
    BY <2>2, <2>3, <2>4, AppendProperties
  <2>6. /\ t.win \in [Slots -> Win]
        /\ t.win[i].visible /\ t.win[i].focused /\ t.win[i].geo = g /\ t.win[i].prev = g
        /\ \A j \in Slots \ {i} : ~t.win[j].focused /\ Alike(t.win[j], s.win[j])
    BY <2>2, <2>3, DefocusedIs DEF Win
  <2>7. t \in Wm /\ t.foc = Len(t.z) /\ wm_focused(t) = i /\ t.foc # 0
    BY <2>2, <2>3, <2>4, <2>5, <2>6 DEF Wm, wm_focused
  <2>8. IsInjective(t.z) /\ Range(t.z) = Range(s.z) \cup {i}
    BY <2>2, <2>3, <2>4, AppendRange DEF Sound, Listed
  <2>9. Sound(t)
    <3>1. Range(t.z) = { j \in Slots : t.win[j].visible }
      BY <2>8, <2>6, <2>3 DEF Sound, Listed, Alike
    <3>2. \A j \in Slots : t.win[j].focused <=> j = wm_focused(t)
      BY <2>7, <2>6
    <3>. QED  BY <3>1, <3>2, <2>7, <2>8, <2>5 DEF Sound, Listed, Wm
  <2>10. ASSUME NEW r, Placed(s, r), Well(g, r) PROVE Placed(t, r)
    BY <2>10, <2>8, <2>6, <2>3 DEF Placed, Sound, Listed, Alike
  <2>. QED  BY <2>9, <2>10 DEF t
<1>. QED  BY <1>1, <1>2

(* Taking a window out of the z-order and, for wm_focus, putting it back.  *)
LEMMA RemoveIs ==
  ASSUME NEW s, Listed(s), NEW i \in Range(s.z)
  PROVE  LET z == wm_remove_zorder(s, i)
         IN /\ z \in Seq(Slots) /\ Len(z) = Len(s.z) - 1 /\ IsInjective(z)
            /\ Range(z) = Range(s.z) \ {i} /\ i \in Slots
            /\ Append(z, i) \in Seq(Slots) /\ Len(Append(z, i)) = Len(s.z) /\ Len(s.z) # 0
            /\ IsInjective(Append(z, i)) /\ Range(Append(z, i)) = Range(s.z)
            /\ Append(z, i)[Len(s.z)] = i
<1>. DEFINE k == CHOOSE k \in DOMAIN s.z : s.z[k] = i
            z == RemoveAt(s.z, k)
<1>1. s.z \in Seq(Slots) /\ IsInjective(s.z) /\ Range(s.z) \subseteq Slots
  BY DEF Listed, Wm
<1>2. k \in DOMAIN s.z /\ s.z[k] = i
  BY DEF Range
<1>3. wm_remove_zorder(s, i) = z
  BY DEF wm_remove_zorder
<1>. HIDE DEF k
<1>4. z \in Seq(Slots) /\ Len(z) = Len(s.z) - 1 /\ IsInjective(z) /\ Range(z) = Range(s.z) \ {i}
  BY <1>1, <1>2, RemoveAtIs, RemoveAtRange
<1>5. Len(s.z) # 0 /\ Len(s.z) \in Nat
  BY <1>1, <1>2, LenProperties
<1>. HIDE DEF z
<1>6. /\ Append(z, i) \in Seq(Slots) /\ Len(Append(z, i)) = Len(s.z)
      /\ Append(z, i)[Len(s.z)] = i
  BY <1>1, <1>4, <1>5, AppendProperties
<1>7. IsInjective(Append(z, i)) /\ Range(Append(z, i)) = Range(s.z)
  <2>1. i \in Slots /\ i \notin Range(z)
    BY <1>1, <1>4
  <2>2. IsInjective(Append(z, i)) /\ Range(Append(z, i)) = Range(z) \cup {i}
    BY <2>1, <1>4, AppendRange
  <2>. QED  BY <2>2, <1>4
<1>. QED  BY <1>1, <1>3, <1>4, <1>5, <1>6, <1>7

(* A window that gets the focus goes on top.                               *)
LEMMA FocusSoundly ==
  ASSUME NEW s, Listed(s), NEW i \in Range(s.z)
  PROVE  LET t == wm_focus(s, i)
         IN /\ Sound(t) /\ Range(t.z) = Range(s.z) /\ t.win[i].focused
            /\ \A j \in Slots : Alike(t.win[j], s.win[j])
<1>. DEFINE t == wm_focus(s, i)
<1>1. t = [win |-> [Defocused(s) EXCEPT ![i].focused = TRUE],
           z |-> Append(wm_remove_zorder(s, i), i), foc |-> Len(s.z)]
  BY DEF wm_focus
<1>2. i \in Slots /\ Len(s.z) \in Nat \ {0}
  BY RemoveIs, LenProperties DEF Sound, Listed, Wm
<1>. HIDE DEF t
<1>3. /\ t.win \in [Slots -> Win] /\ t.win[i].focused
      /\ \A j \in Slots \ {i} : t.win[j] = Defocused(s)[j]
      /\ Alike(t.win[i], Defocused(s)[i])
  <2>. DEFINE v == [Defocused(s)[i] EXCEPT !.focused = TRUE]
  <2>1. v \in Win /\ v.focused /\ Alike(v, Defocused(s)[i])
    BY <1>2, DefocusedIs, Flagged
  <2>2. t.win = [Defocused(s) EXCEPT ![i] = v]
    BY <1>1, <1>2, DefocusedIs
  <2>. HIDE DEF v
  <2>. QED  BY <2>1, <2>2, <1>2, DefocusedIs
<1>4. \A j \in Slots : Alike(t.win[j], s.win[j])
  BY <1>3, DefocusedIs DEF Alike
<1>5. /\ t.z \in Seq(Slots) /\ Len(t.z) = Len(s.z) /\ IsInjective(t.z)
      /\ Range(t.z) = Range(s.z) /\ t.foc = Len(s.z) /\ t.z[t.foc] = i
  BY <1>1, RemoveIs
<1>6. t \in Wm /\ wm_focused(t) = i
  BY <1>1, <1>2, <1>3, <1>5 DEF Wm, wm_focused
<1>7. Range(t.z) = { j \in Slots : t.win[j].visible }
  BY <1>4, <1>5 DEF Sound, Listed, Alike
<1>8. \A j \in Slots : t.win[j].focused <=> j = wm_focused(t)
  BY <1>3, <1>6, DefocusedIs
<1>9. Sound(t)
  BY <1>2, <1>5, <1>6, <1>7, <1>8 DEF Sound, Listed
<1>. QED  BY <1>3, <1>4, <1>5, <1>9 DEF t

(* A window that changes its place or its state.                           *)
LEMMA ChangedListed ==
  ASSUME NEW s, Listed(s), NEW i \in Range(s.z), NEW w \in Win,
         w.visible, w.focused = s.win[i].focused
  PROVE  LET t == [s EXCEPT !.win[i] = w]
         IN /\ Listed(t) /\ t.z = s.z /\ t.foc = s.foc
            /\ t.win[i] = w /\ \A j \in Slots \ {i} : t.win[j] = s.win[j]
<1>. DEFINE t == [s EXCEPT !.win[i] = w]
<1>1. s \in Wm /\ i \in Slots /\ s.win[i].visible
  BY DEF Listed, Wm
<1>2. /\ t \in Wm /\ t.z = s.z /\ t.foc = s.foc /\ t.win[i] = w
      /\ \A j \in Slots \ {i} : t.win[j] = s.win[j]
  BY <1>1 DEF Wm
<1>. HIDE DEF t
<1>3. wm_focused(t) = wm_focused(s)
  BY <1>2 DEF wm_focused
<1>4. Listed(t)
  BY <1>1, <1>2, <1>3 DEF Listed
<1>. QED  BY <1>2, <1>4 DEF t

(* Closing the focused window hands the focus to the one below it.         *)
LEMMA CloseSound ==
  ASSUME NEW s, Sound(s), NEW i \in Range(s.z), s.win[i].focused
  PROVE  LET t == wm_close(s, i)
         IN /\ Sound(t) /\ Range(t.z) = Range(s.z) \ {i}
            /\ \A j \in Slots \ {i} : Alike(t.win[j], s.win[j])
<1>. Listed(s)
  BY DEF Sound
<1>. DEFINE t == wm_close(s, i)
            z == wm_remove_zorder(s, i)
            gone == [s.win EXCEPT ![i] = Unused]
<1>1. /\ z \in Seq(Slots) /\ IsInjective(z) /\ Range(z) = Range(s.z) \ {i} /\ i \in Slots
      /\ Len(z) \in Nat /\ (z # <<>> => Len(z) # 0 /\ Last(z) = z[Len(z)] /\ Last(z) \in Range(z))
  <2>1. z \in Seq(Slots) /\ IsInjective(z) /\ Range(z) = Range(s.z) \ {i} /\ i \in Slots
    BY RemoveIs
  <2>. HIDE DEF z
  <2>2. Len(z) \in Nat /\ DOMAIN z = 1..Len(z)
    BY <2>1, LenProperties
  <2>3. z # <<>> => Len(z) # 0
    BY <2>1, EmptySeq
  <2>4. z # <<>> => z[Len(z)] \in Range(z)
    BY <2>2, <2>3 DEF Range
  <2>. QED  BY <2>1, <2>2, <2>3, <2>4 DEF Last
<1>2. t = [win |-> IF z = <<>> THEN gone ELSE [gone EXCEPT ![Last(z)].focused = TRUE],
           z |-> z, foc |-> Len(z)]
  BY DEF wm_close
<1>3. s.win \in [Slots -> Win] /\ Range(s.z) \subseteq Slots
      /\ \A j \in Slots \ {i} : ~s.win[j].focused
  BY FocusedIs DEF Sound, Listed, Wm
<1>4. Unused \in Win /\ ~Unused.visible /\ ~Unused.focused
  BY UnusedIs
<1>5. gone \in [Slots -> Win] /\ gone[i] = Unused /\ \A j \in Slots \ {i} : gone[j] = s.win[j]
  BY <1>1, <1>3, <1>4
<1>. HIDE DEF t, z, gone
<1>6. /\ t.win \in [Slots -> Win] /\ Alike(t.win[i], Unused)
      /\ \A j \in Slots \ {i} : Alike(t.win[j], s.win[j])
      /\ \A j \in Slots : t.win[j].focused <=> z # <<>> /\ j = Last(z)
  <2>1. CASE z = <<>>
    BY <2>1, <1>2, <1>3, <1>4, <1>5 DEF Alike
  <2>2. CASE z # <<>>
    <3>. DEFINE l == Last(z)
                v == [gone[l] EXCEPT !.focused = TRUE]
    <3>1. l \in Slots \ {i}
      BY <2>2, <1>1, <1>3
    <3>2. v \in Win /\ v.focused /\ Alike(v, gone[l])
      BY <3>1, <1>5, Flagged
    <3>3. t.win = [gone EXCEPT ![l] = v]
      BY <2>2, <1>2
    <3>. HIDE DEF v
    <3>4. /\ t.win \in [Slots -> Win] /\ t.win[l] = v
          /\ \A j \in Slots \ {l} : t.win[j] = gone[j]
      BY <3>1, <3>2, <3>3, <1>5
    <3>. QED  BY <2>2, <3>1, <3>2, <3>4, <1>3, <1>4, <1>5 DEF Alike
  <2>. QED  BY <2>1, <2>2
<1>7. t.z = z /\ t.foc = Len(z) /\ t \in Wm
  BY <1>1, <1>2, <1>6 DEF Wm
<1>8. \A j \in Slots : t.win[j].focused <=> j = wm_focused(t)
  <2>1. CASE z = <<>>
    BY <2>1, <1>6, <1>7, EmptySeq, SlotsNat DEF wm_focused
  <2>2. CASE z # <<>>
    BY <2>2, <1>1, <1>6, <1>7 DEF wm_focused
  <2>. QED  BY <2>1, <2>2
<1>9. Range(t.z) = { j \in Slots : t.win[j].visible }
  BY <1>1, <1>4, <1>6, <1>7 DEF Sound, Listed, Alike
<1>10. t.foc = 0 => Range(t.z) = {}
  BY <1>1, <1>7, EmptySeq DEF Range
<1>11. Sound(t)
  BY <1>1, <1>7, <1>8, <1>9, <1>10 DEF Sound, Listed
<1>. QED  BY <1>1, <1>6, <1>7, <1>11 DEF t

(* Minimising the focused window hands the focus to the highest window     *)
(* that is not minimised, if there is one.                                 *)
LEMMA MinimizeSound ==
  ASSUME NEW s, Sound(s), NEW i \in Range(s.z), s.win[i].focused
  PROVE  LET t == wm_minimize(s, i)
         IN /\ Sound(t) /\ t.z = s.z
            /\ \A j \in Slots : t.win[j].geo = s.win[j].geo /\ t.win[j].prev = s.win[j].prev
<1>. Listed(s)
  BY DEF Sound
<1>. DEFINE t == wm_minimize(s, i)
            up == { k \in DOMAIN s.z : s.z[k] # i /\ s.win[s.z[k]].state # "minimized" }
            gone == [s.win EXCEPT ![i].state = "minimized", ![i].focused = FALSE]
<1>1. t = [s EXCEPT !.foc = IF up = {} THEN 0 ELSE Max(up),
                    !.win = IF up = {} THEN gone ELSE [gone EXCEPT ![s.z[Max(up)]].focused = TRUE]]
  BY DEF wm_minimize
<1>2. /\ s.win \in [Slots -> Win] /\ i \in Slots /\ s.z \in Seq(Slots)
      /\ DOMAIN s.z = 1..Len(s.z) /\ Len(s.z) \in Nat
      /\ \A j \in Slots \ {i} : ~s.win[j].focused
  BY FocusedIs, LenProperties DEF Sound, Listed, Wm
<1>3. /\ gone \in [Slots -> Win] /\ ~gone[i].focused /\ gone[i].state = "minimized"
      /\ gone[i].visible = s.win[i].visible /\ gone[i].geo = s.win[i].geo /\ gone[i].prev = s.win[i].prev
      /\ \A j \in Slots \ {i} : gone[j] = s.win[j]
  <2>. DEFINE v == [s.win[i] EXCEPT !.state = "minimized", !.focused = FALSE]
  <2>1. /\ v \in Win /\ ~v.focused /\ v.state = "minimized" /\ v.visible = s.win[i].visible
        /\ v.geo = s.win[i].geo /\ v.prev = s.win[i].prev
    BY <1>2 DEF Win
  <2>2. gone = [s.win EXCEPT ![i] = v]
    BY <1>2
  <2>. HIDE DEF v
  <2>. QED  BY <2>1, <2>2, <1>2
<1>4. up # {} => /\ Max(up) \in 1..Len(s.z) /\ s.z[Max(up)] \in Range(s.z)
                 /\ s.z[Max(up)] \in Slots \ {i} /\ s.win[s.z[Max(up)]].state # "minimized"
  <2>1. up \in SUBSET (0..Len(s.z))
    BY <1>2
  <2>2. up # {} => Max(up) \in up
    BY <2>1, <1>2, MaxIs
  <2>3. ASSUME up # {} PROVE LET k == Max(up) IN
          /\ k \in 1..Len(s.z) /\ s.z[k] \in Range(s.z) /\ s.z[k] \in Slots \ {i}
          /\ s.win[s.z[k]].state # "minimized"
    <3>. DEFINE k == Max(up)
    <3>1. k \in up
      BY <2>2, <2>3
    <3>. HIDE DEF k
    <3>2. k \in 1..Len(s.z) /\ s.z[k] # i /\ s.win[s.z[k]].state # "minimized"
      BY <3>1, <1>2
    <3>3. s.z[k] \in Range(s.z) /\ s.z[k] \in Slots
      BY <3>2, <1>2, ElementOfSeq DEF Range
    <3>. QED  BY <3>2, <3>3 DEF k
  <2>. QED  BY <2>3
<1>5. up = {} => \A j \in Range(s.z) \ {i} : s.win[j].state = "minimized"
  BY DEF Range
<1>. HIDE DEF t, up, gone
<1>6. /\ t.z = s.z /\ t.foc = (IF up = {} THEN 0 ELSE Max(up))
      /\ t.win \in [Slots -> Win] /\ \A j \in Slots : Alike(t.win[j], gone[j])
      /\ \A j \in Slots : t.win[j].focused <=> up # {} /\ j = s.z[Max(up)]
  <2>1. CASE up = {}
    BY <2>1, <1>1, <1>2, <1>3 DEF Alike, Sound, Listed, Wm
  <2>2. CASE up # {}
    <3>. DEFINE l == s.z[Max(up)]
                v == [gone[l] EXCEPT !.focused = TRUE]
    <3>1. l \in Slots \ {i}
      BY <2>2, <1>4
    <3>2. v \in Win /\ v.focused /\ Alike(v, gone[l])
      BY <3>1, <1>3, Flagged
    <3>3. t = [s EXCEPT !.foc = Max(up), !.win = [gone EXCEPT ![l] = v]]
      BY <2>2, <1>1
    <3>. HIDE DEF v
    <3>4. t.z = s.z /\ t.foc = Max(up) /\ t.win = [gone EXCEPT ![l] = v]
      BY <3>3 DEF Sound, Listed, Wm
    <3>5. /\ t.win \in [Slots -> Win] /\ t.win[l] = v
          /\ \A j \in Slots \ {l} : t.win[j] = gone[j]
      BY <3>1, <3>2, <3>4, <1>3
    <3>. QED  BY <2>2, <3>1, <3>2, <3>4, <3>5, <1>2, <1>3 DEF Alike
  <2>. QED  BY <2>1, <2>2
<1>7. t \in Wm /\ t.foc <= Len(t.z)
  <2>1. t = [win |-> t.win, z |-> t.z, foc |-> t.foc]
    BY <1>1 DEF Sound, Listed, Wm
  <2>. QED  BY <2>1, <1>2, <1>4, <1>6 DEF Wm
<1>8. \A j \in Slots : t.win[j].focused <=> j = wm_focused(t)
  BY <1>4, <1>6, SlotsNat DEF wm_focused
<1>9. Range(t.z) = { j \in Slots : t.win[j].visible }
  BY <1>2, <1>3, <1>6 DEF Sound, Listed, Alike
<1>10. t.foc = 0 => \A j \in Range(t.z) : t.win[j].state = "minimized"
  <2>1. ASSUME t.foc = 0, NEW j \in Range(t.z) PROVE t.win[j].state = "minimized"
    <3>1. up = {}
      BY <2>1, <1>4, <1>6
    <3>2. j \in Slots
      BY <2>1, <1>9
    <3>. QED  BY <3>1, <3>2, <2>1, <1>3, <1>5, <1>6 DEF Alike
  <2>. QED  BY <2>1
<1>11. Sound(t)
  BY <1>6, <1>7, <1>8, <1>9, <1>10 DEF Sound, Listed
<1>12. \A j \in Slots : t.win[j].geo = s.win[j].geo /\ t.win[j].prev = s.win[j].prev
  BY <1>3, <1>6 DEF Alike
<1>. QED  BY <1>6, <1>11, <1>12 DEF t

-----------------------------------------------------------------------------
(* What the cases of desktop_handle_mouse have in common *)

\* Both halves of what is said of the windows.
Good(s, r) == Sound(s) /\ Placed(s, r)

(* Every resolution has room for the task bar and a title bar.             *)
LEMMA ModesAre ==
  ASSUME NEW r \in Modes
  PROVE  r.w \in Nat \ {0} /\ r.h \in Nat /\ r.h >= TASKBAR_H + TITLEBAR_H /\ TASKBAR_H \in Nat
BY DesktopAssumption, WindowsAssumption DEF TITLEBAR_H

(* Opening a window of a known kind, or not.                               *)
LEMMA OpensGood ==
  ASSUME NEW s, NEW r \in Modes, Good(s, r), NEW kind \in Kinds, NEW t \in Opens(s, kind)
  PROVE  Good(t, r)
<1>1. Geo(kind) \in Geometry /\ Well(Geo(kind), r)
  <2>1. Geo(kind) \in Int \X Int \X (Nat \ {0}) \X Nat /\ Reachable(Geo(kind), r)
    BY DesktopAssumption
  <2>. HIDE DEF Kinds
  <2>. QED  BY <2>1 DEF Geometry, Well
<1>2. CASE t = s
  BY <1>2
<1>3. CASE t = wm_create(s, kind, Geo(kind))
  BY <1>1, <1>3, CreateSound DEF Good
<1>. QED  BY <1>2, <1>3 DEF Opens

(* The editor is one of the programs.                                      *)
LEMMA EditorIsKind == "Editor" \in Kinds
BY DEF Kinds

(* Opening a file from a program's window keeps the pool sound.            *)
LEMMA OpensInGood ==
  ASSUME NEW s, NEW r \in Modes, Good(s, r), NEW i, NEW t \in Opens_in(s, i)
  PROVE  Good(t, r)
BY OpensGood, EditorIsKind DEF Opens_in

(* A window that is hit is in the z-order, not minimised, under the point. *)
LEMMA HitIs ==
  ASSUME Sound(wm), NEW p, hit_window(p) # 0
  PROVE  LET i == hit_window(p)
         IN /\ i \in Range(wm.z) /\ i \in Slots /\ wm.win[i] \in Win
            /\ wm.win[i].state # "minimized" /\ In(p, wm.win[i])
<1>. DEFINE under == { k \in DOMAIN wm.z : wm.win[wm.z[k]].state # "minimized" /\ In(p, wm.win[wm.z[k]]) }
            m == Max(under)
<1>1. /\ wm.z \in Seq(Slots) /\ wm.win \in [Slots -> Win]
      /\ DOMAIN wm.z = 1..Len(wm.z) /\ Len(wm.z) \in Nat
  BY LenProperties DEF Sound, Listed, Wm
<1>2. under # {} /\ hit_window(p) = wm.z[m]
  BY DEF hit_window
<1>3. m \in under
  <2>1. under \in SUBSET (0..Len(wm.z))
    BY <1>1
  <2>. HIDE DEF under
  <2>. QED  BY <2>1, <1>1, <1>2, MaxIs
<1>. HIDE DEF m
<1>4. m \in 1..Len(wm.z) /\ wm.win[wm.z[m]].state # "minimized" /\ In(p, wm.win[wm.z[m]])
  BY <1>1, <1>3
<1>5. wm.z[m] \in Range(wm.z) /\ wm.z[m] \in Slots
  BY <1>1, <1>4, ElementOfSeq DEF Range
<1>. QED  BY <1>1, <1>2, <1>4, <1>5

(* The window that was hit has the focus, and the windows are where they   *)
(* were.                                                                   *)
LEMMA RaisedGood ==
  ASSUME NEW r, Good(wm, r), NEW i \in Range(wm.z)
  PROVE  LET t == Raised(i)
         IN /\ Good(t, r) /\ Range(t.z) = Range(wm.z) /\ t.win[i].focused
            /\ \A j \in Slots : Alike(t.win[j], wm.win[j])
<1>1. CASE wm.win[i].focused
  BY <1>1 DEF Raised, Alike, Good
<1>2. CASE ~wm.win[i].focused
  <2>. DEFINE t == wm_focus(wm, i)
  <2>1. /\ Sound(t) /\ Range(t.z) = Range(wm.z) /\ t.win[i].focused
        /\ \A j \in Slots : Alike(t.win[j], wm.win[j])
    BY FocusSoundly DEF Good, Sound
  <2>2. Raised(i) = t /\ Range(wm.z) \subseteq Slots
    BY <1>2 DEF Raised, Good, Sound, Listed
  <2>. HIDE DEF t
  <2>3. Placed(t, r)
    BY <2>1, <2>2 DEF Good, Placed, Alike
  <2>. QED  BY <2>1, <2>2, <2>3 DEF Good
<1>. QED  BY <1>1, <1>2

(* Focusing, closing, minimising and maximising keep windows in reach.     *)
LEMMA FocusGood ==
  ASSUME NEW s, NEW r, Listed(s), Placed(s, r), NEW i \in Range(s.z)
  PROVE  Good(wm_focus(s, i), r)
<1>. DEFINE t == wm_focus(s, i)
<1>1. Sound(t) /\ Range(t.z) = Range(s.z) /\ \A j \in Slots : Alike(t.win[j], s.win[j])
  BY FocusSoundly
<1>. HIDE DEF t
<1>2. Placed(t, r)
  BY <1>1 DEF Listed, Placed, Alike
<1>. QED  BY <1>1, <1>2 DEF Good, t

(* So does the close button,                                               *)
LEMMA CloseGood ==
  ASSUME NEW s, NEW r, Good(s, r), NEW i \in Range(s.z), s.win[i].focused
  PROVE  Good(wm_close(s, i), r)
<1>. DEFINE t == wm_close(s, i)
<1>1. /\ Sound(t) /\ Range(t.z) = Range(s.z) \ {i}
      /\ \A j \in Slots \ {i} : Alike(t.win[j], s.win[j])
  BY CloseSound DEF Good
<1>. HIDE DEF t
<1>2. Placed(t, r)
  BY <1>1 DEF Good, Sound, Listed, Placed, Alike
<1>. QED  BY <1>1, <1>2 DEF Good, t

(* and the minimise button,                                                *)
LEMMA MinimizeGood ==
  ASSUME NEW s, NEW r, Good(s, r), NEW i \in Range(s.z), s.win[i].focused
  PROVE  Good(wm_minimize(s, i), r)
<1>. DEFINE t == wm_minimize(s, i)
<1>1. /\ Sound(t) /\ t.z = s.z
      /\ \A j \in Slots : t.win[j].geo = s.win[j].geo /\ t.win[j].prev = s.win[j].prev
  BY MinimizeSound DEF Good
<1>. HIDE DEF t
<1>2. Placed(t, r)
  BY <1>1 DEF Good, Sound, Listed, Placed
<1>. QED  BY <1>1, <1>2 DEF Good, t

(* A window whose place or state changes, and that can still be reached.   *)
LEMMA ChangedPlaced ==
  ASSUME NEW s, NEW r, Listed(s), Placed(s, r), NEW i \in Range(s.z), NEW w \in Win,
         w.visible, w.focused = s.win[i].focused, Well(w.geo, r), Well(w.prev, r)
  PROVE  LET t == [s EXCEPT !.win[i] = w]
         IN /\ Listed(t) /\ Placed(t, r) /\ t.z = s.z /\ t.foc = s.foc
            /\ t.win[i] = w /\ \A j \in Slots \ {i} : t.win[j] = s.win[j]
<1>. DEFINE t == [s EXCEPT !.win[i] = w]
<1>1. /\ Listed(t) /\ t.z = s.z /\ t.foc = s.foc /\ t.win[i] = w
      /\ \A j \in Slots \ {i} : t.win[j] = s.win[j]
  BY ChangedListed
<1>. HIDE DEF t
<1>2. Placed(t, r)
  BY <1>1 DEF Listed, Placed
<1>. QED  BY <1>1, <1>2 DEF t

(* and any change to one window that leaves it visible, focused as it was  *)
(* and within reach,                                                       *)
LEMMA ChangedGood ==
  ASSUME NEW s, NEW r, Good(s, r), NEW i \in Range(s.z), NEW w \in Win,
         w.visible, w.focused = s.win[i].focused, s.foc = 0 => w.state = "minimized",
         Well(w.geo, r), Well(w.prev, r)
  PROVE  Good([s EXCEPT !.win[i] = w], r)
<1>. DEFINE t == [s EXCEPT !.win[i] = w]
<1>. Listed(s) /\ Placed(s, r)
  BY DEF Good, Sound
<1>1. /\ Listed(t) /\ Placed(t, r) /\ t.z = s.z /\ t.foc = s.foc /\ t.win[i] = w
      /\ \A j \in Slots \ {i} : t.win[j] = s.win[j]
  BY ChangedPlaced
<1>. HIDE DEF t
<1>. QED  BY <1>1 DEF Good, Sound, Listed, t

(* and the maximise button,                                                *)
LEMMA MaximizeGood ==
  ASSUME NEW s, NEW r \in Modes, Good(s, r), NEW i \in Range(s.z), s.win[i].focused
  PROVE  Good(wm_toggle_maximized(s, i, r), r)
<1>. DEFINE v == s.win[i]
            full == <<0, 0, r.w, r.h - TASKBAR_H>>
            w == IF v.state = "maximized" THEN [v EXCEPT !.geo = v.prev, !.state = "normal"]
                 ELSE [v EXCEPT !.prev = v.geo, !.geo = full, !.state = "maximized"]
<1>1. v \in Win /\ v.visible /\ Well(v.geo, r) /\ Well(v.prev, r) /\ s.foc # 0
  <2>1. v \in Win /\ v.visible /\ i \in Slots /\ i = wm_focused(s)
    BY DEF Good, Sound, Listed, Wm
  <2>2. s.foc # 0
    BY <2>1, FocusedIs, SlotsNat DEF Good, Sound, Listed
  <2>. QED  BY <2>1, <2>2 DEF Good, Placed
<1>2. full \in Geometry /\ Well(full, r)
  BY ModesAre DEF Geometry, Well, Reachable, TITLEBAR_H
<1>3. w \in Win /\ w.visible /\ w.focused = v.focused /\ Well(w.geo, r) /\ Well(w.prev, r)
  BY <1>1, <1>2 DEF Win
<1>4. wm_toggle_maximized(s, i, r) = [s EXCEPT !.win[i] = w]
  BY DEF wm_toggle_maximized
<1>. HIDE DEF w
<1>. QED  BY <1>1, <1>3, <1>4, ChangedGood

-----------------------------------------------------------------------------
(* Dragging *)

\* What Clamp, Max and Min come to for integers.
LEMMA ClampIs ==
  ASSUME NEW x \in Int, NEW least \in Int, NEW most \in Int
  PROVE  /\ Clamp(x, least, most) \in Int /\ Clamp(x, least, most) <= most
         /\ Clamp(x, least, most) >= least \/ Clamp(x, least, most) = most
BY DEF Clamp

(* A window that is dragged stays in reach.                                *)
LEMMA DraggedWell ==
  ASSUME ModesSound, MouseSound, drag.off \in Int \X Int,
         NEW w \in Win, Well(w.geo, scr)
  PROVE  LET g == Dragged(w).geo
         IN Dragged(w) = [w EXCEPT !.geo = g] /\ g \in Geometry /\ Well(g, scr)
<1>. DEFINE x == Clamp(seen.pos[1] - drag.off[1], 0, scr.w - Wd(w))
            y == Clamp(seen.pos[2] - drag.off[2], 0, BarTop - TITLEBAR_H)
            g == <<x, y, Wd(w), Ht(w)>>
<1>1. /\ seen.pos[1] \in Int /\ seen.pos[2] \in Int /\ drag.off[1] \in Int /\ drag.off[2] \in Int
      /\ Wd(w) \in Nat \ {0} /\ Ht(w) \in Nat /\ Ht(w) >= TITLEBAR_H
  BY DEF MouseSound, Win, Geometry, Well, Reachable, Wd, Ht
<1>2. /\ scr.w \in Nat \ {0} /\ BarTop \in Nat /\ BarTop >= TITLEBAR_H /\ TITLEBAR_H = 1
      /\ BarTop = scr.h - TASKBAR_H
  BY ModesAre DEF ModesSound, BarTop, TITLEBAR_H
<1>3. x \in Int /\ x <= scr.w - Wd(w) /\ (x >= 0 \/ x = scr.w - Wd(w))
  <2>. DEFINE from == seen.pos[1] - drag.off[1]
              most == scr.w - Wd(w)
  <2>1. from \in Int /\ most \in Int /\ 0 \in Int
    BY <1>1, <1>2
  <2>2. x = Clamp(from, 0, most)
    OBVIOUS
  <2>. HIDE DEF from, most, x
  <2>3. x \in Int /\ x <= most /\ (x >= 0 \/ x = most)
    BY <2>1, <2>2, ClampIs
  <2>. QED  BY <2>3 DEF most
<1>4. y \in Int /\ y <= BarTop - TITLEBAR_H /\ y >= 0
  <2>1. seen.pos[2] - drag.off[2] \in Int /\ BarTop - TITLEBAR_H \in Nat
    BY <1>1, <1>2
  <2>2. y \in Int /\ y <= BarTop - TITLEBAR_H /\ (y >= 0 \/ y = BarTop - TITLEBAR_H)
    BY <2>1, ClampIs
  <2>. QED  BY <2>1, <2>2
<1>5. Dragged(w) = [w EXCEPT !.geo = g]
  BY DEF Dragged
<1>. HIDE DEF x, y
<1>6. g \in Geometry /\ Well(g, scr)
  BY <1>1, <1>2, <1>3, <1>4 DEF Geometry, Well, Reachable
<1>7. Dragged(w).geo = g
  BY <1>5 DEF Win
<1>. QED  BY <1>5, <1>6, <1>7

(* A window that is resized by its grip stays in reach: its right edge is  *)
(* not left of the pointer.                                                *)
LEMMA ResizedWell ==
  ASSUME ModesSound, MouseSound, drag.off \in Int \X Int, drag.off[1] > 0,
         NEW w \in Win, Well(w.geo, scr)
  PROVE  LET g == Resized(w).geo
         IN Resized(w) = [w EXCEPT !.geo = g] /\ g \in Geometry /\ Well(g, scr)
<1>. DEFINE dx == seen.pos[1] - X(w) + drag.off[1]
            dy == seen.pos[2] - Y(w) + drag.off[2]
            wd == Max({dx, MIN_W})
            up == Max({dy, MIN_H})
            ht == Min({up, BarTop - Y(w)})
            g  == <<X(w), Y(w), wd, ht>>
<1>1. /\ seen.pos[1] \in Nat /\ seen.pos[2] \in Nat /\ drag.off[1] \in Int /\ drag.off[2] \in Int
      /\ X(w) \in Int /\ Y(w) \in Int
      /\ X(w) < scr.w /\ Y(w) >= 0 /\ Y(w) + TITLEBAR_H <= scr.h - TASKBAR_H
  BY DEF MouseSound, Win, Geometry, Well, Reachable, X, Y
<1>2. /\ scr.w \in Nat \ {0} /\ BarTop \in Nat /\ BarTop >= TITLEBAR_H /\ TITLEBAR_H = 1
      /\ BarTop = scr.h - TASKBAR_H
  BY ModesAre DEF ModesSound, BarTop, TITLEBAR_H
<1>3. MIN_W \in Nat \ {0} /\ MIN_H \in Nat \ {0}
  BY DesktopAssumption
<1>4. dx \in Int /\ dy \in Int /\ dx + X(w) > 0
  BY <1>1
<1>5. wd = (IF dx >= MIN_W THEN dx ELSE MIN_W) /\ up = (IF dy >= MIN_H THEN dy ELSE MIN_H)
  BY <1>3, <1>4, MinMaxOfTwo
<1>6. wd \in Nat \ {0} /\ wd >= dx /\ up \in Nat \ {0}
  BY <1>3, <1>4, <1>5
<1>7. ht = IF up <= BarTop - Y(w) THEN up ELSE BarTop - Y(w)
  <2>1. BarTop - Y(w) \in Int /\ up \in Int
    BY <1>1, <1>2, <1>6
  <2>. QED  BY <2>1, MinMaxOfTwo
<1>8. ht \in Nat /\ ht >= 1
  BY <1>1, <1>2, <1>6, <1>7
<1>9. Resized(w) = [w EXCEPT !.geo = g]
  BY DEF Resized
<1>. HIDE DEF dx, dy, up, wd, ht
<1>10. g \in Geometry /\ Well(g, scr)
  BY <1>1, <1>2, <1>4, <1>6, <1>8 DEF Geometry, Well, Reachable
<1>11. Resized(w).geo = g
  BY <1>9 DEF Win
<1>. QED  BY <1>9, <1>10, <1>11

(* A drag moves or resizes one window of the z-order, if its index is in   *)
(* it, and nothing else.                                                   *)
LEMMA OnDragGood ==
  ASSUME Inv, OnDrag
  PROVE  Good(wm', scr) /\ DragSound'
<1>1. Good(wm, scr) /\ wm \in Wm /\ Len(wm.z) \in Nat /\ DOMAIN wm.z = 1..Len(wm.z)
  BY LenProperties DEF Inv, Good, Sound, Listed, Wm
<1>2. DragSound'
  BY DEF OnDrag, Inv, DragSound, NoDrag
<1>3. /\ drag \in [kind : {"move", "size"}, idx : Nat \ {0}, off : Int \X Int]
      /\ drag.kind = "size" => drag.off[1] > 0
  BY DEF OnDrag, Inv, DragSound
<1>4. CASE drag.idx > Len(wm.z)
  BY <1>1, <1>2, <1>4 DEF OnDrag
<1>5. CASE ~(drag.idx > Len(wm.z))
  <2>. DEFINE i == wm.z[drag.idx]
              v == wm.win[i]
              w == IF drag.kind = "size" THEN Resized(v) ELSE Dragged(v)
  <2>1. wm' = [wm EXCEPT !.win[i] = w]
    BY <1>1, <1>5 DEF OnDrag
  <2>2. i \in Range(wm.z) /\ i \in Slots /\ v \in Win /\ v.visible
    <3>1. drag.idx \in DOMAIN wm.z
      BY <1>1, <1>3, <1>5
    <3>2. i \in Range(wm.z)
      BY <3>1 DEF Range
    <3>. QED  BY <3>2 DEF Inv, Sound, Listed, Wm
  <2>3. Well(v.geo, scr) /\ Well(v.prev, scr)
    BY <2>2 DEF Inv, Placed
  <2>4. w = [v EXCEPT !.geo = w.geo] /\ w.geo \in Geometry /\ Well(w.geo, scr)
    <3>1. CASE drag.kind = "size"
      BY <3>1, <1>3, <2>2, <2>3, ResizedWell DEF Inv
    <3>2. CASE drag.kind # "size"
      BY <3>2, <1>3, <2>2, <2>3, DraggedWell DEF Inv
    <3>. QED  BY <3>1, <3>2
  <2>. HIDE DEF w
  <2>5. w \in Win /\ w.visible /\ w.focused = v.focused /\ w.prev = v.prev /\ w.state = v.state
    BY <2>2, <2>4 DEF Win
  <2>6. wm.foc = 0 => w.state = "minimized"
    BY <2>2, <2>5 DEF Inv, Sound, Listed
  <2>. HIDE DEF v
  <2>. QED  BY <1>1, <1>2, <2>1, <2>2, <2>3, <2>4, <2>5, <2>6, ChangedGood DEF v
<1>. QED  BY <1>2, <1>4, <1>5

-----------------------------------------------------------------------------
(* The other cases of desktop_handle_mouse *)

(* An item that is highlighted opens a window.                             *)
LEMMA OnCtxGood ==
  ASSUME Inv, OnCtx
  PROVE  Good(wm', scr) /\ CtxSound'
<1>1. CtxSound'
  BY DEF OnCtx, Inv, CtxSound
<1>2. CASE InCtx(seen.pos) /\ ctx.hover # 0
  <2>1. CtxItems[ctx.hover] \in Kinds
    BY <1>2 DEF Inv, CtxSound, Kinds, Range
  <2>2. wm' \in Opens(wm, CtxItems[ctx.hover])
    BY <1>2 DEF OnCtx
  <2>. QED  BY <1>1, <2>1, <2>2, OpensGood DEF Inv, Good, ModesSound
<1>3. CASE ~(InCtx(seen.pos) /\ ctx.hover # 0)
  BY <1>1, <1>3 DEF OnCtx, Inv, Good
<1>. QED  BY <1>2, <1>3

(* What is highlighted is under the pointer.                               *)
LEMMA OnHoverSound ==
  ASSUME Inv, OnHover
  PROVE  CtxSound'
<1>. DEFINE i == seen.pos[2] - ctx.at[2] + 1
<1>1. seen.pos[2] \in Int /\ ctx.at[2] \in Int /\ ctx \in [open : BOOLEAN, at : Int \X Int, hover : Nat]
  BY DEF Inv, CtxSound, MouseSound
<1>2. DOMAIN CtxItems = 1..Len(CtxItems) /\ Len(CtxItems) \in Nat
  <2>1. CtxItems \in Seq(STRING)
    BY DesktopAssumption
  <2>. QED  BY <2>1, LenProperties
<1>3. CASE InCtx(seen.pos) /\ CtxItems[i] # "-"
  <2>1. Hover(seen.pos) = i
    BY <1>3 DEF Hover
  <2>2. i \in 1..Len(CtxItems)
    BY <1>1, <1>2, <1>3 DEF InCtx, Within
  <2>. QED  BY <1>1, <1>2, <1>3, <2>1, <2>2 DEF OnHover, CtxSound
<1>4. CASE ~(InCtx(seen.pos) /\ CtxItems[i] # "-")
  <2>1. Hover(seen.pos) = 0
    BY <1>4 DEF Hover
  <2>. QED  BY <1>1, <2>1 DEF OnHover, CtxSound
<1>. QED  BY <1>3, <1>4

(* The context menu opens with nothing highlighted.                        *)
LEMMA CtxOpenSound ==
  ASSUME Inv, NEW p \in Nat \X Nat, ctx' \in {ctx, ctx_open(p)}
  PROVE  CtxSound'
<1>1. scr.w \in Nat /\ BarTop \in Int /\ CTX_W \in Nat /\ Len(CtxItems) \in Nat
  <2>1. CtxItems \in Seq(STRING) /\ CTX_W \in Nat
    BY DesktopAssumption
  <2>2. Len(CtxItems) \in Nat
    BY <2>1, LenProperties
  <2>. QED  BY <2>1, <2>2, ModesAre DEF Inv, ModesSound, BarTop
<1>2. ctx_open(p) \in [open : BOOLEAN, at : Int \X Int, hover : Nat] /\ ctx_open(p).hover = 0
  BY <1>1 DEF ctx_open
<1>. QED  BY <1>2 DEF Inv, CtxSound

(* A taskbar button changes the focus.                                     *)
LEMMA BarButtonGood ==
  ASSUME Inv, NEW i \in Range(wm.z)
  PROVE  Good(BarButton(i), scr)
<1>. DEFINE w == wm.win[i]
            v == [w EXCEPT !.state = "normal"]
<1>1. Good(wm, scr) /\ i \in Slots /\ wm \in Wm /\ w \in Win /\ w.visible
  BY DEF Inv, Good, Sound, Listed, Wm
<1>2. CASE w.state = "minimized"
  <2>. DEFINE s == [wm EXCEPT !.win[i] = v]
  <2>1. BarButton(i) = wm_focus([wm EXCEPT !.win[i].state = "normal"], i)
    BY <1>2 DEF BarButton
  <2>2. [wm EXCEPT !.win[i].state = "normal"] = s
    BY <1>1 DEF Wm
  <2>3. v \in Win /\ v.visible /\ v.focused = w.focused /\ v.geo = w.geo /\ v.prev = w.prev
    BY <1>1 DEF Win
  <2>4. Listed(wm) /\ Placed(wm, scr) /\ Well(w.geo, scr) /\ Well(w.prev, scr)
    BY <1>1 DEF Good, Sound, Placed
  <2>. HIDE DEF v
  <2>5. Listed(s) /\ Placed(s, scr) /\ s.z = wm.z
    BY <2>3, <2>4, ChangedPlaced
  <2>. HIDE DEF s
  <2>. QED  BY <2>1, <2>2, <2>5, FocusGood
<1>3. CASE w.state # "minimized" /\ w.focused
  BY <1>1, <1>3, MinimizeGood DEF BarButton
<1>4. CASE w.state # "minimized" /\ ~w.focused
  BY <1>1, <1>4, FocusGood DEF BarButton, Good, Sound
<1>. QED  BY <1>2, <1>3, <1>4

(* and a press on the task bar,                                            *)
LEMMA OnBarGood ==
  ASSUME Inv, OnBar
  PROVE  Good(wm', scr)
<1>1. CASE seen.pos[1] \in DOMAIN wm.z
  <2>1. wm.z[seen.pos[1]] \in Range(wm.z)
    BY <1>1 DEF Range
  <2>2. wm' = BarButton(wm.z[seen.pos[1]])
    BY <1>1 DEF OnBar
  <2>. QED  BY <2>1, <2>2, BarButtonGood
<1>2. CASE seen.pos[1] \notin DOMAIN wm.z
  BY <1>2 DEF OnBar, Inv, Good
<1>. QED  BY <1>1, <1>2

(* An item of the start menu that is none of the others opens a window.    *)
LEMMA OnMenuGood ==
  ASSUME Inv, OnMenu
  PROVE  Good(wm', scr)
<1>. DEFINE item == MenuItem(seen.pos)
            i == seen.pos[2] - (BarTop - Len(StartItems)) + 1
<1>1. item # "Reboot" /\ wm' \in IF item \in {"-", "outside"} THEN {wm} ELSE Opens(wm, item)
  BY DEF OnMenu
<1>2. CASE item \in {"-", "outside"}
  BY <1>1, <1>2 DEF Inv, Good
<1>3. CASE item \notin {"-", "outside"}
  <2>1. item = StartItems[i] /\ InMenu(seen.pos)
    BY <1>3 DEF MenuItem
  <2>2. /\ seen.pos[2] \in Int /\ BarTop \in Int
        /\ DOMAIN StartItems = 1..Len(StartItems) /\ Len(StartItems) \in Nat
    <3>1. StartItems \in Seq(STRING)
      BY DesktopAssumption
    <3>2. DOMAIN StartItems = 1..Len(StartItems) /\ Len(StartItems) \in Nat
      BY <3>1, LenProperties
    <3>3. seen.pos[2] \in Int
      BY DEF Inv, MouseSound
    <3>4. BarTop \in Int
      BY ModesAre DEF Inv, ModesSound, BarTop
    <3>. QED  BY <3>2, <3>3, <3>4
  <2>3. i \in 1..Len(StartItems)
    BY <2>1, <2>2 DEF InMenu, Within
  <2>4. item \in Range(StartItems)
    BY <2>1, <2>2, <2>3 DEF Range
  <2>5. item \in Kinds
    BY <1>1, <1>3, <2>4 DEF Kinds
  <2>. HIDE DEF item
  <2>. QED  BY <1>1, <1>3, <2>5, OpensGood DEF Inv, Good, ModesSound
<1>. QED  BY <1>2, <1>3

(* and one on an icon,                                                     *)
LEMMA OnIconGood ==
  ASSUME Inv, OnIcon
  PROVE  Good(wm', scr)
<1>. DEFINE i == IconAt(seen.pos)
<1>1. CASE wm' \in Opens(wm, Icons[i])
  <2>1. i \in DOMAIN Icons
    BY DEF OnIcon, IconAt
  <2>2. Icons[i] \in Kinds
    BY <2>1 DEF Kinds, Range
  <2>. QED  BY <1>1, <2>2, OpensGood DEF Inv, Good, ModesSound
<1>2. CASE wm' = wm
  BY <1>2 DEF Inv, Good
<1>. QED  BY <1>1, <1>2 DEF OnIcon

(* A drag that begins holds an entry of the z-order.                       *)
LEMMA GrabSound ==
  ASSUME Inv, wm.z # <<>>, NEW kind \in {"move", "size"}, NEW off \in Int \X Int,
         kind = "size" => off[1] > 0, Grab(kind, off)
  PROVE  DragSound'
<1>1. Len(wm.z) \in Nat \ {0}
  BY EmptySeq DEF Inv, Sound, Listed, Wm
<1>. QED  BY <1>1 DEF Grab, DragSound

(* A sequence with an element is not empty.                                *)
LEMMA RangeEmpty == ASSUME NEW s, NEW i \in Range(s) PROVE s # <<>>
BY DEF Range

(* A press on a title bar keeps the pool sound, and a drag starts within   *)
(* reach.                                                                  *)
LEMMA OnTitleGood ==
  ASSUME Inv, OnTitle
  PROVE  Good(wm', scr) /\ DragSound'
<1>. DEFINE i == hit_window(seen.pos)
            w == wm.win[i]
            b == title_btn_at(w, seen.pos)
            t == Raised(i)
<1>1. i \in Range(wm.z) /\ w \in Win
  BY HitIs DEF OnTitle, Inv
<1>2. Good(t, scr) /\ Range(t.z) = Range(wm.z) /\ t.win[i].focused
  BY <1>1, RaisedGood DEF Inv, Good
<1>3. Good(wm', scr)
  <2>1. wm' = CASE b = "close" -> wm_close(t, i)
                [] b = "max"   -> wm_toggle_maximized(t, i, scr)
                [] b = "min"   -> wm_minimize(t, i)
                [] OTHER       -> t
    BY DEF OnTitle
  <2>2. Good(wm_close(t, i), scr) /\ Good(wm_minimize(t, i), scr)
    BY <1>1, <1>2, CloseGood, MinimizeGood
  <2>3. Good(wm_toggle_maximized(t, i, scr), scr)
    BY <1>1, <1>2, MaximizeGood DEF Inv, ModesSound
  <2>. HIDE DEF b, t, i
  <2>. QED  BY <2>1, <2>2, <2>3, <1>2
<1>4. DragSound'
  <2>. DEFINE off == <<seen.pos[1] - X(w), seen.pos[2] - Y(w)>>
  <2>1. off \in Int \X Int
    BY <1>1 DEF Inv, MouseSound, Win, Geometry, X, Y
  <2>2. drag' = drag \/ Grab("move", off)
    BY DEF OnTitle
  <2>3. CASE drag' = drag
    BY <2>3 DEF Inv, DragSound
  <2>4. CASE Grab("move", off)
    BY <2>1, <2>4, <1>1, RangeEmpty, GrabSound
  <2>. QED  BY <2>2, <2>3, <2>4
<1>. QED  BY <1>3, <1>4

(* The grip of a window is left of its right edge.                         *)
LEMMA OnGripGood ==
  ASSUME Inv, OnGrip
  PROVE  Good(wm', scr) /\ DragSound'
<1>. DEFINE i == hit_window(seen.pos)
            w == wm.win[i]
            off == <<Wd(w) - (seen.pos[1] - X(w)), Ht(w) - (seen.pos[2] - Y(w))>>
<1>1. i \in Range(wm.z) /\ w \in Win /\ In(seen.pos, w)
  BY HitIs DEF OnGrip, Inv
<1>2. Good(wm', scr)
  BY <1>1, RaisedGood DEF OnGrip, Inv, Good
<1>3. off \in Int \X Int /\ off[1] > 0
  BY <1>1 DEF Inv, MouseSound, Win, Geometry, X, Y, Wd, Ht, In, Within
<1>4. Grab("size", off)
  BY DEF OnGrip
<1>. HIDE DEF off
<1>5. DragSound'
  BY <1>1, <1>3, <1>4, RangeEmpty, GrabSound
<1>. QED  BY <1>2, <1>5

(* A press inside a window keeps the pool sound, whatever the program      *)
(* does.                                                                   *)
LEMMA OnContentGood ==
  ASSUME Inv, OnContent, scr' = scr
  PROVE  Good(wm', scr) /\ ModesSound'
<1>. DEFINE i == hit_window(seen.pos)
<1>1. i \in Range(wm.z)
  BY HitIs DEF OnContent, Inv
<1>2. Good(Raised(i), scr) /\ wm' \in Opens_in(Raised(i), i)
  BY <1>1, RaisedGood DEF OnContent, Inv, Good
<1>3. Good(wm', scr)
  BY <1>2, OpensInGood DEF Inv, ModesSound
<1>4. ModesSound'
  BY DEF OnContent, display_settings_mousedown, Inv, ModesSound, Modes
<1>. QED  BY <1>3, <1>4

-----------------------------------------------------------------------------
(* The steps *)

(* Each event the loop handles keeps the invariant.                        *)
LEMMA HandleMouseInv ==
  ASSUME Inv, desktop_handle_mouse
  PROVE  Inv'
<1>1. scr' = scr /\ MouseSound'
  BY DEF desktop_handle_mouse, Inv, MouseSound, NothingSeen
<1>2. ASSUME wm' = wm PROVE Good(wm', scr')
  BY <1>1, <1>2 DEF Inv, Good
<1>3. ASSUME ctx' = ctx PROVE CtxSound'
  BY <1>3 DEF Inv, CtxSound
<1>4. ASSUME drag' = drag PROVE DragSound'
  BY <1>4 DEF Inv, DragSound
<1>5. ASSUME sel' = sel, pending' = pending PROVE ModesSound'
  BY <1>1, <1>5 DEF Inv, ModesSound
<1>6. seen.pos \in Nat \X Nat
  BY DEF Inv, MouseSound
<1>7. ASSUME Good(wm', scr'), CtxSound', DragSound', ModesSound' PROVE Inv'
  BY <1>1, <1>7 DEF Inv, Good
<1>8. CASE OnHover
  BY <1>2, <1>4, <1>5, <1>7, <1>8, OnHoverSound DEF OnHover
<1>9. CASE OnDrag
  BY <1>1, <1>3, <1>5, <1>7, <1>9, OnDragGood DEF OnDrag
<1>10. CASE OnCtx
  BY <1>1, <1>4, <1>5, <1>7, <1>10, OnCtxGood DEF OnCtx
<1>11. CASE OnBar
  BY <1>1, <1>3, <1>4, <1>5, <1>7, <1>11, OnBarGood DEF OnBar
<1>12. CASE OnMenu
  BY <1>1, <1>3, <1>4, <1>5, <1>7, <1>12, OnMenuGood DEF OnMenu
<1>13. CASE OnIcon
  BY <1>1, <1>3, <1>4, <1>5, <1>7, <1>13, OnIconGood DEF OnIcon
<1>14. CASE OnBlank
  <2>1. ctx' \in {ctx, ctx_open(seen.pos)}
    BY <1>14 DEF OnBlank, Opening
  <2>. QED  BY <1>2, <1>4, <1>5, <1>6, <1>7, <1>14, <2>1, CtxOpenSound DEF OnBlank
<1>15. CASE OnTitle
  BY <1>1, <1>3, <1>5, <1>7, <1>15, OnTitleGood DEF OnTitle
<1>16. CASE OnGrip
  BY <1>1, <1>3, <1>5, <1>7, <1>16, OnGripGood DEF OnGrip
<1>17. CASE OnContent
  BY <1>1, <1>3, <1>4, <1>7, <1>17, OnContentGood DEF OnContent
<1>18. CASE OnRight
  BY <1>2, <1>4, <1>5, <1>6, <1>7, <1>18, CtxOpenSound DEF OnRight
<1>19. CASE OnMove
  BY <1>2, <1>3, <1>4, <1>5, <1>7, <1>19 DEF OnMove, ui
<1>. QED
  BY <1>8, <1>9, <1>10, <1>11, <1>12, <1>13, <1>14, <1>15, <1>16, <1>17, <1>18, <1>19
  DEF desktop_handle_mouse

(* An interrupt changes what the loop will read, and nothing else.         *)
LEMMA InterruptsInv ==
  ASSUME Inv, mouse_handler \/ keyboard_handler
  PROVE  Inv'
<1>1. UNCHANGED <<wm, ctx, drag, sel, pending, scr, seen>>
  BY DEF mouse_handler, keyboard_handler, ui
<1>2. MouseSound'
  <2>1. CASE keyboard_handler
    BY <2>1 DEF keyboard_handler, Inv, MouseSound
  <2>2. CASE mouse_handler
    <3>1. mouse.pos \in Nat \X Nat /\ mouse.buttons \in SUBSET Buttons /\ mouse.latch \in SUBSET Buttons
      BY DEF Inv, MouseSound
    <3>2. ASSUME NEW p \in Nat \X Nat, NEW b \in SUBSET Buttons, Packet(p, b) PROVE MouseSound'
      BY <1>1, <3>1, <3>2 DEF Packet, Inv, MouseSound
    <3>3. ASSUME NEW p \in Points, Packet(p, mouse.buttons) PROVE MouseSound'
      BY <3>1, <3>2, <3>3, DesktopAssumption
    <3>4. ASSUME NEW b \in Buttons, Packet(mouse.pos, SymDiff(mouse.buttons, {b})) PROVE MouseSound'
      BY <3>1, <3>2, <3>4 DEF SymDiff
    <3>. QED  BY <2>2, <3>3, <3>4 DEF mouse_handler
  <2>. QED  BY <2>1, <2>2
<1>. QED  BY <1>1, <1>2 DEF Inv, Sound, Listed, Placed, CtxSound, DragSound, ModesSound

(* A key opens a window or closes the context menu.                        *)
LEMMA DispatchKeyInv ==
  ASSUME Inv, DispatchKey
  PROVE  Inv'
<1>1. UNCHANGED <<mouse, scr, drag, sel, pending, seen>> /\ desktop_handle_key(Head(ring))
  BY DEF DispatchKey
<1>2. Good(wm', scr)
  <2>1. wm' = wm \/ wm' \in Opens_in(wm, wm_focused(wm))
    BY <1>1 DEF desktop_handle_key
  <2>. QED  BY <2>1, OpensInGood DEF Inv, Good, ModesSound
<1>3. CtxSound'
  BY <1>1 DEF desktop_handle_key, Inv, CtxSound
<1>. QED  BY <1>1, <1>2, <1>3 DEF Inv, Good, DragSound, ModesSound, MouseSound

(* A resolution that was asked for closes every window.                    *)
LEMMA PresentInv ==
  ASSUME Inv, desktop_present
  PROVE  Inv'
<1>1. UNCHANGED <<mouse, ctx, drag, sel, seen>> /\ pending' = NoRes
  BY DEF desktop_present
<1>2. Good(wm', scr') /\ scr' \in Modes
  <2>1. CASE pending = NoRes
    BY <2>1 DEF desktop_present, Inv, Good, ModesSound
  <2>2. CASE pending # NoRes
    BY <2>2, NoWindowsSound DEF desktop_present, Inv, Good, ModesSound
  <2>. QED  BY <2>1, <2>2
<1>. QED  BY <1>1, <1>2 DEF Inv, Good, CtxSound, DragSound, ModesSound, MouseSound

(* Every step keeps the invariant,                                         *)
LEMMA StepInv ==
  ASSUME Inv, [Next]_vars
  PROVE  Inv'
<1>1. CASE mouse_handler \/ keyboard_handler
  BY <1>1, InterruptsInv
<1>2. CASE DispatchKey
  BY <1>2, DispatchKeyInv
<1>3. CASE KeysDone
  BY <1>3 DEF KeysDone, ui, Inv, Sound, Listed, Placed, CtxSound, DragSound, ModesSound, MouseSound
<1>4. CASE ReadX \/ ReadY \/ ReadButtons \/ ReadLatch
  BY <1>4 DEF ReadX, ReadY, ReadButtons, ReadLatch, ui, Inv, Sound, Listed, Placed, CtxSound, DragSound, ModesSound, MouseSound
<1>5. CASE desktop_handle_mouse
  BY <1>5, HandleMouseInv
<1>6. CASE action_exit_gde
  <2>1. (/\ wm = NoWindows /\ ctx = NoCtx /\ drag = NoDrag /\ sel = Boot /\ scr = Boot /\ pending = NoRes
         /\ mouse = AtRest /\ seen = NothingSeen)'
    BY <1>6 DEF action_exit_gde, Reboot
  <2>2. MouseSound' /\ CtxSound' /\ DragSound' /\ ModesSound'
    BY <2>1 DEF MouseSound, AtRest, NothingSeen, CtxSound, NoCtx, DragSound, ModesSound, Modes
  <2>. QED  BY <2>1, <2>2, NoWindowsSound DEF Inv
<1>7. CASE desktop_present
  BY <1>7, PresentInv
<1>8. CASE UNCHANGED vars
  BY <1>8 DEF vars, Inv, Sound, Listed, Placed, CtxSound, DragSound, ModesSound, MouseSound
<1>. QED  BY <1>1, <1>2, <1>3, <1>4, <1>5, <1>6, <1>7, <1>8 DEF Next, Loop

(* and it holds at the start.                                              *)
LEMMA InitInv == Init => Inv
<1>. SUFFICES ASSUME Init PROVE Inv
  OBVIOUS
<1>1. MouseSound /\ CtxSound /\ DragSound /\ ModesSound
  BY DEF Init, MouseSound, AtRest, NothingSeen, CtxSound, NoCtx, DragSound, ModesSound, Modes
<1>2. Boot \in Modes /\ scr = Boot /\ Good(NoWindows, Boot)
  BY NoWindowsSound DEF Init, Modes, Good
<1>3. ASSUME NEW o \in Opened
      PROVE  Good(wm_create(wm_create(NoWindows, o[1], Geo(o[1])), o[2], Geo(o[2])), Boot)
  <2>. DEFINE s == wm_create(NoWindows, o[1], Geo(o[1]))
  <2>1. o[1] \in Kinds /\ o[2] \in Kinds
    BY DesktopAssumption DEF Kinds, Range
  <2>2. s \in Opens(NoWindows, o[1]) /\ wm_create(s, o[2], Geo(o[2])) \in Opens(s, o[2])
    BY DEF Opens
  <2>. HIDE DEF s
  <2>3. Good(s, Boot)
    BY <1>2, <2>1, <2>2, OpensGood
  <2>. QED  BY <1>2, <2>1, <2>2, <2>3, OpensGood DEF s
<1>4. Good(wm, scr)
  BY <1>2, <1>3 DEF Init
<1>. QED  BY <1>1, <1>4 DEF Inv, Good

-----------------------------------------------------------------------------
(* The theorems about the session *)

(* The windows, the z-order, the focus, the context menu and what a drag   *)
(* holds stay as the invariant says, in every session.                     *)
THEOREM Invariance == Spec => []Inv
<1>. QED  BY InitInv, StepInv, PTL DEF Spec

(* After any sequence of clicks, keys and windows opening, the z-order     *)
(* lists the windows in use, each once, the window that is shown as        *)
(* focused is the one keys go to (wm.c:105), there is no other, and there  *)
(* is one while some window is not minimised.                              *)
THEOREM FocusIsSound == Spec => []FocusSound
<1>1. Inv => FocusSound
  BY FocusedIs DEF Inv, Sound, Listed, FocusSound
<1>. QED  BY <1>1, Invariance, PTL

(* However windows are dragged, resized, maximised and restored, some of   *)
(* every title bar can be reached (desktop.c:343).                         *)
THEOREM TitleBarStaysReachable == Spec => []TitleBarReachable
<1>1. Inv => TitleBarReachable
  BY DEF Inv, Placed, Well, TitleBarReachable
<1>. QED  BY <1>1, Invariance, PTL

-----------------------------------------------------------------------------
(* Apps.tla: the Explorer's sidebar *)

PathSet == Seq(Range(Order))
Node    == [path : PathSet, depth : Nat, expanded : BOOLEAN, has_children : BOOLEAN]

\* Node j of t is the parent of node i, with nothing but descendants between.
Parents(t, i, j) ==
  /\ t[j].expanded /\ t[j].path = Front(t[i].path)
  /\ \A k \in (j + 1)..i : IsStrictPrefix(t[j].path, t[k].path)

\* What the sidebar is at every time: the depth of a node, by which the code
\* tells what to remove, is the length of its path.
Sidebar(t) ==
  /\ t \in Seq(Node) /\ Len(t) >= 1 /\ t[1].path = Root
  /\ \A i \in 1..Len(t) : t[i].depth = Len(t[i].path)
  /\ \A i, j \in 1..Len(t) : t[i].path = t[j].path => i = j
  /\ \A i \in 2..Len(t) : \E j \in 1..(i - 1) : Parents(t, i, j)

\* The Explorer's record has the fields it begins with.
Fields(e) ==
  e = [cwd |-> e.cwd, tree |-> e.tree, tree_sel |-> e.tree_sel,
       pane |-> e.pane, pane_sel |-> e.pane_sel, last_row |-> e.last_row]

ExplorerInv(e) ==
  /\ Fields(e) /\ Sidebar(e.tree) /\ Len(e.tree) <= TREE_MAX
  /\ e.tree_sel \in 1..Len(e.tree)

\* A strict prefix, element by element.
LEMMA StrictPrefixIs ==
  ASSUME NEW S, NEW p \in Seq(S), NEW q \in Seq(S)
  PROVE  IsStrictPrefix(p, q) <=> Len(p) < Len(q) /\ \A k \in 1..Len(p) : p[k] = q[k]
<1>. Len(p) \in Nat /\ Len(q) \in Nat
  BY LenProperties
<1>1. ASSUME IsStrictPrefix(p, q) PROVE Len(p) < Len(q) /\ \A k \in 1..Len(p) : p[k] = q[k]
  <2>1. Len(p) <= Len(q) /\ SubSeq(p, 1, Len(p)) = SubSeq(q, 1, Len(p)) /\ p # q
    BY <1>1 DEF IsStrictPrefix, IsPrefix
  <2>2. SubSeq(p, 1, Len(p)) = p
    BY SubSeqFull
  <2>3. \A k \in 1..Len(p) : q[k] \in S
    BY <2>1, ElementOfSeq
  <2>4. \A k \in 1..Len(p) : SubSeq(q, 1, Len(p))[k] = q[k]
    BY <2>3, SubSeqProperties
  <2>5. Len(p) # Len(q)
    <3>1. SUFFICES ASSUME Len(p) = Len(q) PROVE FALSE
      OBVIOUS
    <3>2. SubSeq(q, 1, Len(q)) = q
      BY SubSeqFull
    <3>. QED  BY <2>1, <2>2, <3>1, <3>2
  <2>. QED  BY <2>1, <2>2, <2>4, <2>5
<1>2. ASSUME Len(p) < Len(q), \A k \in 1..Len(p) : p[k] = q[k] PROVE IsStrictPrefix(p, q)
  <2>1. Len(p) <= Len(p) /\ Len(p) <= Len(q)
    BY <1>2
  <2>2. SubSeq(p, 1, Len(p)) = SubSeq(q, 1, Len(p))
    BY <1>2, <2>1, SameBeginning
  <2>. QED  BY <1>2, <2>1, <2>2 DEF IsStrictPrefix, IsPrefix
<1>. QED  BY <1>1, <1>2

\* It is transitive.
LEMMA StrictPrefixChain ==
  ASSUME NEW S, NEW p \in Seq(S), NEW q \in Seq(S), NEW r \in Seq(S),
         IsStrictPrefix(p, q), IsStrictPrefix(q, r)
  PROVE  IsStrictPrefix(p, r)
<1>. Len(p) \in Nat /\ Len(q) \in Nat /\ Len(r) \in Nat
  BY LenProperties
<1>1. Len(p) < Len(q) /\ \A k \in 1..Len(p) : p[k] = q[k]
  BY StrictPrefixIs
<1>2. Len(q) < Len(r) /\ \A k \in 1..Len(q) : q[k] = r[k]
  BY StrictPrefixIs
<1>. QED  BY <1>1, <1>2, StrictPrefixIs

\* A path and one of its entries.
LEMMA ChildPath ==
  ASSUME NEW S, NEW p \in Seq(S), NEW n \in S
  PROVE  /\ Append(p, n) \in Seq(S) /\ Len(Append(p, n)) = Len(p) + 1
         /\ Front(Append(p, n)) = p /\ IsStrictPrefix(p, Append(p, n))
         /\ \A m \in S : Append(p, m) = Append(p, n) => m = n
<1>. DEFINE q == Append(p, n)
<1>1. /\ q \in Seq(S) /\ Len(q) = Len(p) + 1 /\ q[Len(p) + 1] = n
      /\ \A k \in 1..Len(p) : q[k] = p[k]
  BY AppendProperties
<1>2. \A m \in S : Append(p, m)[Len(p) + 1] = m
  BY AppendProperties
<1>3. Len(p) \in Nat
  BY LenProperties
<1>. HIDE DEF q
<1>4. IsStrictPrefix(p, q)
  BY <1>1, <1>3, StrictPrefixIs
<1>5. Front(q) = p
  <2>1. Len(p) <= Len(q) /\ Len(q) - 1 = Len(p)
    BY <1>1, <1>3
  <2>2. Len(p) <= Len(p)
    BY <1>3
  <2>3. SubSeq(q, 1, Len(p)) = SubSeq(p, 1, Len(p))
    BY <1>1, <1>3, <2>1, <2>2, SameBeginning
  <2>4. SubSeq(p, 1, Len(p)) = p
    BY SubSeqFull
  <2>. QED  BY <2>1, <2>3, <2>4 DEF Front
<1>. QED  BY <1>1, <1>2, <1>4, <1>5 DEF q

-----------------------------------------------------------------------------
\* The names of a set are listed without repetitions.
LEMMA InSlotOrderIs ==
  ASSUME NEW S
  PROVE  /\ InSlotOrder(S) \in Seq(Range(Order)) /\ IsInjective(InSlotOrder(S))
         /\ Range(InSlotOrder(S)) \subseteq S
<1>. DEFINE Body(f, i) == IF i = 0 THEN <<>> ELSE IF Order[i] \in S THEN Append(f[i - 1], Order[i]) ELSE f[i - 1]
            N == Len(Order)
            Ok(g, m) == g = [i \in 0..m |-> Body(g, i)]
            T == { m \in Nat : \E g : Ok(g, m) }
<1>1. 0 \in T
  <2>. DEFINE g == [i \in 0..0 |-> <<>>]
  <2>1. Ok(g, 0)
    OBVIOUS
  <2>. HIDE DEF g, Ok
  <2>. QED  BY <2>1
<1>2. ASSUME NEW m \in Nat, m \in T PROVE m + 1 \in T
  <2>1. PICK g : Ok(g, m)
    BY <1>2
  <2>. DEFINE h == [i \in 0..(m + 1) |-> IF i = m + 1 THEN Body(g, m + 1) ELSE g[i]]
  <2>2. ASSUME NEW i \in 0..(m + 1) PROVE h[i] = Body(h, i)
    <3>1. CASE i = m + 1
      <4>1. h[m] = g[m]
        OBVIOUS
      <4>. QED  BY <3>1, <4>1
    <3>2. CASE i # m + 1
      <4>1. i \in 0..m /\ h[i] = g[i] /\ g[i] = Body(g, i)
        <5>1. i \in 0..m
          BY <3>2
        <5>2. h[i] = g[i]
          BY <3>2
        <5>3. g[i] = Body(g, i)
          <6>. HIDE DEF Body
          <6>. QED  BY <5>1, <2>1
        <5>. QED  BY <5>1, <5>2, <5>3
      <4>2. i # 0 => h[i - 1] = g[i - 1]
        BY <4>1
      <4>. QED  BY <4>1, <4>2
    <3>. QED  BY <3>1, <3>2
  <2>3. h = [i \in 0..(m + 1) |-> Body(h, i)]
    BY <2>2
  <2>. HIDE DEF h, Body
  <2>4. Ok(h, m + 1)
    BY <2>3
  <2>. QED  BY <2>4
<1>3. N \in T
  <2>1. \A m \in Nat : m \in T
    <3>. HIDE DEF T
    <3>. QED  BY <1>1, <1>2, Induction
  <2>2. N \in Nat
    BY ExplorerAssumption, LenProperties
  <2>. HIDE DEF T
  <2>. QED  BY <2>1, <2>2
<1>4. PICK g : Ok(g, N) /\ InSlotOrder(S) = g[N]
  <2>. DEFINE F == CHOOSE g : Ok(g, N)
  <2>1. Ok(F, N)
    BY <1>3
  <2>2. InSlotOrder(S) = F[N]
    BY DEF InSlotOrder
  <2>. HIDE DEF F, Ok
  <2>. QED  BY <2>1, <2>2
<1>. DEFINE Fine(i) == /\ g[i] \in Seq(Range(Order)) /\ IsInjective(g[i]) /\ Range(g[i]) \subseteq S
                       /\ \A x \in Range(g[i]) : \E k \in 1..i : x = Order[k]
            U == { i \in Nat : i <= N => Fine(i) }
<1>5. 0 \in U
  <2>1. g[0] = <<>>
    BY <1>4, ExplorerAssumption, LenProperties
  <2>2. Range(<<>>) = {} /\ IsInjective(<<>>)
    BY DEF Range, IsInjective
  <2>3. <<>> \in Seq(Range(Order))
    OBVIOUS
  <2>4. Fine(0)
    BY <2>1, <2>2, <2>3
  <2>. HIDE DEF Fine
  <2>. QED  BY <2>4
<1>6. ASSUME NEW i \in Nat, i \in U PROVE i + 1 \in U
  <2>. SUFFICES ASSUME i + 1 <= N PROVE Fine(i + 1)
    OBVIOUS
  <2>1. N \in Nat /\ i + 1 \in 1..N /\ i + 1 \in 0..N /\ Order[i + 1] \in Range(Order) /\ Fine(i)
    <3>1. N \in Nat /\ DOMAIN Order = 1..N
      BY ExplorerAssumption, LenProperties
    <3>2. i + 1 \in 1..N /\ i + 1 \in 0..N /\ i <= N
      BY <3>1
    <3>3. Order[i + 1] \in Range(Order)
      BY <3>1, <3>2 DEF Range
    <3>4. Fine(i)
      BY <3>2, <1>6
    <3>. QED  BY <3>1, <3>2, <3>3, <3>4
  <2>2. g[i + 1] = IF Order[i + 1] \in S THEN Append(g[i], Order[i + 1]) ELSE g[i]
    <3>1. g[i + 1] = Body(g, i + 1)
      BY <2>1, <1>4
    <3>2. i + 1 # 0 /\ (i + 1) - 1 = i
      OBVIOUS
    <3>. QED  BY <3>1, <3>2
  <2>3. \A k \in 1..i : k \in 1..(i + 1) /\ Order[k] # Order[i + 1]
    <3>1. DOMAIN Order = 1..N
      BY ExplorerAssumption, LenProperties
    <3>. QED  BY <2>1, <3>1, ExplorerAssumption DEF IsInjective
  <2>. HIDE DEF N
  <2>4. CASE Order[i + 1] \notin S
    BY <2>1, <2>2, <2>3, <2>4
  <2>5. CASE Order[i + 1] \in S
    <3>1. Order[i + 1] \notin Range(g[i])
      BY <2>1, <2>3
    <3>2. /\ Range(g[i + 1]) = Range(g[i]) \cup {Order[i + 1]} /\ IsInjective(g[i + 1])
          /\ g[i + 1] \in Seq(Range(Order))
      BY <2>1, <2>2, <2>5, <3>1, AppendRange, AppendProperties
    <3>3. i + 1 \in 1..(i + 1)
      OBVIOUS
    <3>. QED  BY <2>1, <2>3, <2>5, <3>2, <3>3
  <2>. QED  BY <2>4, <2>5
<1>7. Fine(N)
  <2>1. \A i \in Nat : i \in U
    <3>. HIDE DEF U
    <3>. QED  BY <1>5, <1>6, Induction
  <2>2. N \in Nat
    BY ExplorerAssumption, LenProperties
  <2>. HIDE DEF N, Fine
  <2>3. N \in U
    BY <2>1, <2>2
  <2>. QED  BY <2>2, <2>3
<1>. QED  BY <1>4, <1>7

-----------------------------------------------------------------------------
\* The nodes of a sidebar, and what a descendant's depth says.
LEMMA NodesOf ==
  ASSUME NEW t, Sidebar(t)
  PROVE  /\ Len(t) \in Nat /\ DOMAIN t = 1..Len(t)
         /\ \A k \in 1..Len(t) : t[k] \in Node /\ t[k].path \in PathSet /\ t[k].depth \in Nat
         /\ \A j, k \in 1..Len(t) : IsStrictPrefix(t[j].path, t[k].path) => t[j].depth < t[k].depth
<1>1. Len(t) \in Nat /\ DOMAIN t = 1..Len(t)
  BY LenProperties DEF Sidebar
<1>2. \A k \in 1..Len(t) : t[k] \in Node
  BY ElementOfSeq DEF Sidebar
<1>3. \A k \in 1..Len(t) : t[k].path \in PathSet /\ t[k].depth \in Nat
  BY <1>2 DEF Node
<1>4. ASSUME NEW j \in 1..Len(t), NEW k \in 1..Len(t), IsStrictPrefix(t[j].path, t[k].path)
      PROVE  t[j].depth < t[k].depth
  <2>1. Len(t[j].path) < Len(t[k].path)
    BY <1>3, <1>4, StrictPrefixIs DEF PathSet
  <2>. QED  BY <2>1 DEF Sidebar
<1>. QED  BY <1>1, <1>2, <1>3, <1>4

\* u is t with m children of its node i put in behind it.
Grown(t, u, i, m) ==
  /\ u \in Seq(Node) /\ Len(u) = Len(t) + m
  /\ \A k \in 1..(i - 1) : u[k] = t[k]
  /\ u[i].path = t[i].path /\ u[i].depth = t[i].depth /\ u[i].expanded
  /\ \A k \in 1..m : /\ u[i + k].depth = t[i].depth + 1
                     /\ \E x \in Range(Order) : u[i + k].path = Append(t[i].path, x)
  /\ \A k, l \in 1..m : u[i + k].path = u[i + l].path => k = l
  /\ \A k \in (i + 1)..Len(t) : u[m + k] = t[k]

\* A node that counts as collapsed has no children yet, so that those put in
\* behind it are the only ones.
LEMMA InsertedBelow ==
  ASSUME NEW t, NEW u, NEW i \in 1..Len(t), NEW m \in Nat,
         Sidebar(t), ~t[i].expanded, Grown(t, u, i, m)
  PROVE  Sidebar(u)
<1>0. /\ u \in Seq(Node) /\ Len(u) = Len(t) + m
      /\ \A k \in 1..(i - 1) : u[k] = t[k]
      /\ u[i].path = t[i].path /\ u[i].depth = t[i].depth /\ u[i].expanded
      /\ \A k \in 1..m : /\ u[i + k].depth = t[i].depth + 1
                         /\ \E x \in Range(Order) : u[i + k].path = Append(t[i].path, x)
      /\ \A k, l \in 1..m : u[i + k].path = u[i + l].path => k = l
      /\ \A k \in (i + 1)..Len(t) : u[m + k] = t[k]
  BY DEF Grown
<1>1. m \in Nat /\ Len(t) \in Nat /\ Len(u) = Len(t) + m /\ i \in 1..Len(t)
  BY <1>0, NodesOf
<1>2. /\ t[i].path \in PathSet /\ t[i].depth = Len(t[i].path) /\ t[i].depth \in Nat
      /\ \A k \in 1..Len(t) : t[k].path \in PathSet
  BY NodesOf DEF Sidebar
<1>. DEFINE To(k) == IF k <= i THEN k ELSE m + k     \* where node k of t is now
<1>3. ASSUME NEW k \in 1..Len(t)
      PROVE  /\ To(k) \in 1..Len(u) /\ u[To(k)].path = t[k].path /\ u[To(k)].depth = t[k].depth
             /\ t[k].expanded => u[To(k)].expanded
  <2>1. To(k) \in 1..Len(u)
    BY <1>0, <1>1
  <2>2. CASE k = i
    BY <2>1, <2>2, <1>0
  <2>3. CASE k < i
    <3>1. k \in 1..(i - 1) /\ To(k) = k
      BY <2>3, <1>1
    <3>. QED  BY <2>1, <3>1, <1>0
  <2>4. CASE k > i
    <3>1. k \in (i + 1)..Len(t) /\ To(k) = m + k
      BY <2>4, <1>1
    <3>. QED  BY <2>1, <3>1, <1>0
  <2>. QED  BY <2>2, <2>3, <2>4, <1>0, <1>1
<1>4. ASSUME NEW k \in 1..m
      PROVE  /\ i + k \in 1..Len(u) /\ u[i + k].path \in PathSet
             /\ u[i + k].depth = Len(u[i + k].path)
             /\ Front(u[i + k].path) = t[i].path /\ IsStrictPrefix(t[i].path, u[i + k].path)
  <2>1. PICK x \in Range(Order) : u[i + k].path = Append(t[i].path, x)
    BY <1>0
  <2>2. /\ Append(t[i].path, x) \in PathSet /\ Len(Append(t[i].path, x)) = Len(t[i].path) + 1
        /\ Front(Append(t[i].path, x)) = t[i].path
        /\ IsStrictPrefix(t[i].path, Append(t[i].path, x))
    BY <1>2, ChildPath DEF PathSet
  <2>3. u[i + k].depth = t[i].depth + 1
    BY <1>0
  <2>4. i + k \in 1..Len(u)
    BY <1>1
  <2>. QED  BY <2>1, <2>2, <2>3, <2>4, <1>2
<1>5. ASSUME NEW n \in 1..Len(u)
      PROVE  (\E k \in 1..Len(t) : n = To(k)) \/ (\E k \in 1..m : n = i + k)
  <2>1. CASE n <= i
    <3>1. n \in 1..Len(t) /\ n = To(n)
      BY <2>1, <1>1
    <3>. QED  BY <3>1
  <2>2. CASE n > i /\ n <= i + m
    <3>1. n - i \in 1..m /\ n = i + (n - i)
      BY <2>2, <1>1
    <3>. QED  BY <3>1
  <2>3. CASE n > i + m
    <3>1. n - m \in 1..Len(t) /\ n - m > i
      BY <2>3, <1>1
    <3>2. n = To(n - m)
      BY <3>1, <1>1
    <3>. QED  BY <3>1, <3>2
  <2>. QED  BY <2>1, <2>2, <2>3, <1>1
\* The child of a collapsed node is not among the nodes.
<1>6. ASSUME NEW n \in 1..Len(t), NEW k \in 1..m, t[n].path = u[i + k].path
      PROVE  FALSE
  <2>1. t[n].path # Root /\ Front(t[n].path) = t[i].path
    <3>1. Len(t[i].path) < Len(u[i + k].path) /\ Len(t[i].path) \in Nat
      BY <1>4, <1>2, StrictPrefixIs, LenProperties DEF PathSet
    <3>2. Len(<<>>) = 0
      OBVIOUS
    <3>3. u[i + k].path # <<>>
      BY <3>1, <3>2
    <3>. QED  BY <3>3, <1>4, <1>6 DEF Root
  <2>2. n \in 2..Len(t)
    BY <2>1, <1>1 DEF Sidebar
  <2>3. PICK j \in 1..(n - 1) : Parents(t, n, j)
    BY <2>2 DEF Sidebar
  <2>4. j \in 1..Len(t) /\ t[j].expanded /\ t[j].path = t[i].path
    BY <2>1, <2>2, <2>3, <1>1 DEF Parents
  <2>. QED  BY <2>4 DEF Sidebar
<1>7. ASSUME NEW n \in 1..Len(u) PROVE u[n].depth = Len(u[n].path)
  <2>1. CASE \E k \in 1..Len(t) : n = To(k)
    <3>1. PICK k \in 1..Len(t) : n = To(k)
      BY <2>1
    <3>2. t[k].depth = Len(t[k].path)
      BY DEF Sidebar
    <3>. HIDE DEF To
    <3>. QED  BY <3>1, <3>2, <1>3
  <2>2. CASE \E k \in 1..m : n = i + k
    BY <2>2, <1>4
  <2>. QED  BY <2>1, <2>2, <1>5
<1>8. ASSUME NEW a \in 1..Len(u), NEW b \in 1..Len(u), u[a].path = u[b].path PROVE a = b
  <2>1. ASSUME NEW k \in 1..Len(t), NEW l \in 1..Len(t), u[To(k)].path = u[To(l)].path PROVE k = l
    BY <2>1, <1>3 DEF Sidebar
  <2>2. ASSUME NEW k \in 1..Len(t), NEW l \in 1..m, u[To(k)].path = u[i + l].path PROVE FALSE
    <3>1. t[k].path = u[i + l].path
      <4>. HIDE DEF To
      <4>. QED  BY <2>2, <1>3, <1>4
    <3>. QED  BY <3>1, <1>6
  <2>3. ASSUME NEW k \in 1..m, NEW l \in 1..m, u[i + k].path = u[i + l].path PROVE k = l
    BY <2>3, <1>0
  <2>. HIDE DEF To
  <2>4. ASSUME NEW k \in 1..Len(t), a = To(k) PROVE a = b
    <3>1. CASE \E l \in 1..Len(t) : b = To(l)
      BY <3>1, <2>4, <2>1, <1>8
    <3>2. CASE \E l \in 1..m : b = i + l
      BY <3>2, <2>4, <2>2, <1>8
    <3>. QED  BY <3>1, <3>2, <1>5
  <2>5. ASSUME NEW k \in 1..m, a = i + k PROVE a = b
    <3>1. CASE \E l \in 1..Len(t) : b = To(l)
      BY <3>1, <2>5, <2>2, <1>8
    <3>2. CASE \E l \in 1..m : b = i + l
      BY <3>2, <2>5, <2>3, <1>8
    <3>. QED  BY <3>1, <3>2, <1>5
  <2>. QED  BY <2>4, <2>5, <1>5
<1>9. ASSUME NEW n \in 2..Len(u) PROVE \E j \in 1..(n - 1) : Parents(u, n, j)
  <2>1. CASE \E k \in 1..m : n = i + k
    <3>1. PICK k \in 1..m : n = i + k
      BY <2>1
    <3>2. \A a \in (i + 1)..n : IsStrictPrefix(u[i].path, u[a].path)
      <4>1. ASSUME NEW a \in (i + 1)..n PROVE IsStrictPrefix(u[i].path, u[a].path)
        <5>1. a \in (i + 1)..(i + k) /\ i \in Nat /\ k \in Nat /\ k <= m
          BY <3>1, <1>1
        <5>2. PICK b \in 1..m : a = i + b
          <6>1. a - i \in 1..m /\ a = i + (a - i)
            BY <5>1, <1>1
          <6>. QED  BY <6>1
        <5>. QED  BY <5>2, <1>0, <1>4
      <4>. QED  BY <4>1
    <3>3. i \in 1..(n - 1)
      BY <3>1, <1>1
    <3>4. u[i].expanded /\ u[i].path = Front(u[n].path)
      BY <3>1, <1>0, <1>4
    <3>5. Parents(u, n, i)
      BY <3>2, <3>4 DEF Parents
    <3>. QED  BY <3>3, <3>5
  <2>2. CASE \E k \in 1..Len(t) : n = To(k)
    <3>1. PICK k \in 1..Len(t) : n = To(k)
      BY <2>2
    <3>2. k \in 2..Len(t)
      BY <3>1, <1>1
    <3>3. PICK j \in 1..(k - 1) : Parents(t, k, j)
      BY <3>2 DEF Sidebar
    <3>4. j \in 1..Len(t) /\ j # i /\ To(j) \in 1..(n - 1)
      BY <3>1, <3>2, <3>3, <1>1 DEF Parents
    <3>5. u[To(j)].expanded /\ u[To(j)].path = Front(u[n].path)
      BY <3>1, <3>3, <3>4, <1>3 DEF Parents
    <3>6. ASSUME NEW a \in (To(j) + 1)..n PROVE IsStrictPrefix(u[To(j)].path, u[a].path)
      <4>1. a \in 1..Len(u)
        BY <3>1, <3>4, <1>3, <1>1
      <4>2. CASE \E b \in 1..Len(t) : a = To(b)
        <5>1. PICK b \in 1..Len(t) : a = To(b)
          BY <4>2
        <5>2. b \in (j + 1)..k
          BY <5>1, <3>1, <3>4, <1>1
        <5>3. IsStrictPrefix(t[j].path, t[b].path)
          BY <5>2, <3>3 DEF Parents
        <5>. QED  BY <5>1, <5>3, <3>4, <1>3
      <4>3. CASE \E b \in 1..m : a = i + b
        <5>1. PICK b \in 1..m : a = i + b
          BY <4>3
        <5>2. i \in (j + 1)..k
          BY <5>1, <3>1, <3>4, <1>1
        <5>3. IsStrictPrefix(t[j].path, t[i].path)
          BY <5>2, <3>3 DEF Parents
        <5>4. IsStrictPrefix(t[i].path, u[a].path) /\ u[a].path \in PathSet
          BY <5>1, <1>4
        <5>5. IsStrictPrefix(t[j].path, u[a].path)
          BY <5>3, <5>4, <1>2, <3>4, StrictPrefixChain DEF PathSet
        <5>. QED  BY <5>5, <3>4, <1>3
      <4>. QED  BY <4>1, <4>2, <4>3, <1>5
    <3>7. Parents(u, n, To(j))
      BY <3>5, <3>6 DEF Parents
    <3>. QED  BY <3>4, <3>7
  <2>. QED  BY <2>1, <2>2, <1>5, <1>1
<1>10. Len(u) >= 1 /\ u[1].path = Root
  <2>1. 1 \in 1..Len(t) /\ To(1) = 1
    BY <1>0, <1>1
  <2>. QED  BY <2>1, <1>1, <1>3 DEF Sidebar
<1>. QED  BY <1>0, <1>7, <1>8, <1>9, <1>10 DEF Sidebar

\* The nodes below a node, which are those behind it that are deeper, are
\* taken out.
LEMMA RemovedBelow ==
  ASSUME NEW t, Sidebar(t), NEW i \in 1..Len(t), NEW l \in i..Len(t),
         \A k \in (i + 1)..l : t[k].depth > t[i].depth,
         l < Len(t) => t[l + 1].depth <= t[i].depth,
         NEW m, m = l - i,
         NEW u \in Seq(Node), Len(u) = Len(t) - m,
         \A k \in 1..(i - 1) : u[k] = t[k],
         u[i].path = t[i].path, u[i].depth = t[i].depth,
         \A k \in (i + 1)..Len(u) : u[k] = t[k + m]
  PROVE  Sidebar(u)
<1>1. m \in Nat /\ Len(t) \in Nat /\ Len(u) \in Nat /\ l \in Nat
  BY NodesOf
<1>. DEFINE From(k) == IF k <= i THEN k ELSE k + m
<1>2. \A k \in 1..Len(u) : /\ From(k) \in 1..Len(t) /\ u[k].path = t[From(k)].path /\ u[k].depth = t[From(k)].depth
                           /\ k # i => u[k].expanded = t[From(k)].expanded
  BY <1>1
<1>3. \A a, b \in 1..Len(u) : /\ From(a) = From(b) => a = b
                              /\ From(a) < From(b) <=> a < b
  BY <1>1
<1>4. ASSUME NEW k \in 1..Len(t), k <= i \/ k > l
      PROVE  \E a \in 1..Len(u) : k = From(a)
  <2>1. CASE k <= i
    <3>1. k \in 1..Len(u) /\ k = From(k)
      BY <2>1, <1>1
    <3>. QED  BY <3>1
  <2>2. CASE k > l
    <3>1. k - m \in 1..Len(u) /\ k = From(k - m)
      BY <2>2, <1>1
    <3>. QED  BY <3>1
  <2>. QED  BY <1>4, <2>1, <2>2
<1>5. ASSUME NEW n \in 2..Len(u) PROVE \E j \in 1..(n - 1) : Parents(u, n, j)
  <2>1. n \in 1..Len(u) /\ From(n) \in 2..Len(t) /\ (From(n) <= i \/ From(n) > l)
    BY <1>1
  <2>2. PICK j \in 1..(From(n) - 1) : Parents(t, From(n), j)
    <3>. HIDE DEF From
    <3>. QED  BY <2>1 DEF Sidebar
  <2>3. j \in 1..Len(t)
    <3>. HIDE DEF From
    <3>. QED  BY <2>1, <2>2, <1>1
  <2>4. j <= i \/ j > l
    <3>. SUFFICES ASSUME j \in (i + 1)..l PROVE FALSE
      BY <2>3, <1>1
    <3>1. From(n) > l /\ l + 1 \in (j + 1)..From(n) /\ l < Len(t) /\ l + 1 \in 1..Len(t)
      <4>1. From(n) > l
        <5>. HIDE DEF From
        <5>. QED  BY <2>1, <2>2, <1>1
      <4>. HIDE DEF From
      <4>. QED  BY <4>1, <2>1, <1>1
    <3>2. IsStrictPrefix(t[j].path, t[l + 1].path)
      BY <3>1, <2>2 DEF Parents
    <3>3. t[j].depth < t[l + 1].depth /\ t[j].depth \in Nat /\ t[l + 1].depth \in Nat /\ t[i].depth \in Nat
      BY <3>1, <3>2, <2>3, NodesOf
    <3>4. t[j].depth > t[i].depth
      OBVIOUS
    <3>5. t[l + 1].depth <= t[i].depth
      BY <3>1
    <3>. QED  BY ONLY <3>3, <3>4, <3>5
  <2>5. j # i
    <3>. SUFFICES ASSUME j = i PROVE FALSE
      OBVIOUS
    <3>1. From(n) > l /\ l + 1 \in (j + 1)..From(n) /\ l < Len(t) /\ l + 1 \in 1..Len(t)
      <4>1. From(n) > l
        <5>. HIDE DEF From
        <5>. QED  BY <2>1, <2>2, <1>1
      <4>. HIDE DEF From
      <4>. QED  BY <4>1, <2>1, <1>1
    <3>2. IsStrictPrefix(t[j].path, t[l + 1].path)
      BY <3>1, <2>2 DEF Parents
    <3>3. t[j].depth < t[l + 1].depth /\ t[j].depth \in Nat /\ t[l + 1].depth \in Nat /\ t[i].depth \in Nat
      BY <3>1, <3>2, <2>3, NodesOf
    <3>4. t[l + 1].depth <= t[i].depth
      BY <3>1
    <3>5. t[j].depth = t[i].depth
      OBVIOUS
    <3>. QED  BY ONLY <3>3, <3>4, <3>5
  <2>6. PICK a \in 1..Len(u) : j = From(a)
    BY <2>3, <2>4, <1>4
  <2>7. a \in 1..(n - 1) /\ a # i
    <3>1. From(a) < From(n)
      <4>. HIDE DEF From
      <4>. QED  BY <2>1, <2>2, <2>6
    <3>2. a < n
      BY <3>1, <2>1, <1>3
    <3>3. a # i
      BY <2>5, <2>6
    <3>. QED  BY <3>2, <3>3, <2>1
  <2>8. u[a].expanded /\ u[a].path = Front(u[n].path)
    <3>. HIDE DEF From
    <3>. QED  BY <2>1, <2>2, <2>6, <2>7, <1>2 DEF Parents
  <2>9. ASSUME NEW b \in (a + 1)..n PROVE IsStrictPrefix(u[a].path, u[b].path)
    <3>1. b \in 1..Len(u) /\ From(b) \in (From(a) + 1)..From(n)
      <4>1. b \in 1..Len(u) /\ a < b /\ (b < n \/ b = n)
        BY <1>1, <2>1
      <4>. HIDE DEF From
      <4>a. a \in 1..Len(u) /\ n \in 1..Len(u)
        BY <4>1, <1>1, <2>1
      <4>b. From(a) \in 1..Len(t) /\ From(b) \in 1..Len(t) /\ From(n) \in 1..Len(t)
        BY ONLY <4>1, <4>a, <1>2
      <4>c. From(a) < From(b) /\ (b < n => From(b) < From(n))
        BY ONLY <4>1, <4>a, <1>3
      <4>d. From(a) \in Int /\ From(b) \in Int /\ From(n) \in Int
        BY ONLY <4>b
      <4>2. From(a) < From(b) /\ From(b) <= From(n) /\ From(a) \in Int /\ From(b) \in Int /\ From(n) \in Int
        BY ONLY <4>1, <4>c, <4>d
      <4>. QED  BY <4>1, <4>2
    <3>2. IsStrictPrefix(t[From(a)].path, t[From(b)].path)
      <4>. HIDE DEF From
      <4>. QED  BY <3>1, <2>2, <2>6 DEF Parents
    <3>. HIDE DEF From
    <3>. QED  BY <3>1, <3>2, <1>2
  <2>10. Parents(u, n, a)
    BY <2>8, <2>9 DEF Parents
  <2>. QED  BY <2>7, <2>10
<1>6. Len(u) >= 1 /\ u[1].path = Root
  <2>1. 1 \in 1..Len(u) /\ From(1) = 1
    BY <1>1
  <2>. QED  BY <2>1, <1>1, <1>2 DEF Sidebar
<1>7. ASSUME NEW n \in 1..Len(u) PROVE u[n].depth = Len(u[n].path)
  <2>1. PICK k \in 1..Len(t) : u[n].path = t[k].path /\ u[n].depth = t[k].depth
    <3>. HIDE DEF From
    <3>. QED  BY <1>2
  <2>2. t[k].depth = Len(t[k].path)
    BY DEF Sidebar
  <2>. QED  BY <2>1, <2>2
<1>8. ASSUME NEW a \in 1..Len(u), NEW b \in 1..Len(u), u[a].path = u[b].path PROVE a = b
  <2>. HIDE DEF From
  <2>1. From(a) \in 1..Len(t) /\ From(b) \in 1..Len(t) /\ t[From(a)].path = t[From(b)].path
    BY <1>2, <1>8
  <2>2. From(a) = From(b)
    BY <2>1 DEF Sidebar
  <2>. QED  BY <2>2, <1>3
<1>. QED  BY <1>5, <1>6, <1>7, <1>8 DEF Sidebar

-----------------------------------------------------------------------------
\* The nodes below one are those up to some place behind it.
LEMMA SubtreeIs ==
  ASSUME NEW e, Sidebar(e.tree), NEW i \in 1..Len(e.tree)
  PROVE  \E l \in i..Len(e.tree) :
           /\ Subtree(e, i) = (i + 1)..l /\ Cardinality(Subtree(e, i)) = l - i
           /\ \A k \in (i + 1)..l : e.tree[k].depth > e.tree[i].depth
           /\ l < Len(e.tree) => e.tree[l + 1].depth <= e.tree[i].depth
<1>. DEFINE t == e.tree
            n == Len(t)
            Deep(l) == \A k \in (i + 1)..l : t[k].depth > t[i].depth
            T == { l \in i..n : Deep(l) }
<1>1. n \in Nat /\ i \in 1..n /\ \A k \in 1..n : t[k].depth \in Nat
  BY NodesOf
<1>. HIDE DEF n
<1>2. PICK l \in T : \A y \in T : l >= y
  <2>1. T \in SUBSET (0..n)
    BY <1>1
  <2>2. i \in T
    BY <1>1
  <2>. HIDE DEF T
  <2>. QED  BY <1>1, <2>1, <2>2, Greatest
<1>3. l \in i..n /\ Deep(l) /\ l \in Nat /\ i \in Nat
  BY <1>1
<1>4. ASSUME l < n PROVE t[l + 1].depth <= t[i].depth
  <2>1. l + 1 \in i..n /\ l + 1 \notin T
    BY <1>1, <1>2, <1>3, <1>4
  <2>2. ~Deep(l + 1)
    BY <2>1
  <2>3. PICK k \in (i + 1)..(l + 1) : ~(t[k].depth > t[i].depth)
    BY <2>2
  <2>4. k = l + 1
    <3>1. k \notin (i + 1)..l
      BY <2>3, <1>3
    <3>. HIDE DEF Deep, T
    <3>. QED  BY <3>1, <1>3
  <2>5. t[l + 1].depth \in Nat /\ t[i].depth \in Nat
    BY <1>1, <1>3, <1>4
  <2>. QED  BY <2>3, <2>4, <2>5
<1>5. Subtree(e, i) = (i + 1)..l
  <2>1. Subtree(e, i) = { j \in (i + 1)..n : Deep(j) }
    BY DEF Subtree, n
  <2>2. ASSUME NEW j \in (i + 1)..n, Deep(j) PROVE j \in (i + 1)..l
    <3>1. j \in T
      BY <2>2, <1>3
    <3>2. l >= j
      BY <3>1, <1>2
    <3>. HIDE DEF Deep, T
    <3>. QED  BY <3>2, <1>3
  <2>3. ASSUME NEW j \in (i + 1)..l PROVE j \in (i + 1)..n /\ Deep(j)
    <3>1. j \in (i + 1)..n /\ (i + 1)..j \subseteq (i + 1)..l
      BY <1>1, <1>3
    <3>. QED  BY <3>1, <1>3
  <2>. HIDE DEF Deep
  <2>. QED  BY <2>1, <2>2, <2>3
<1>6. Cardinality((i + 1)..l) = l - i
  BY <1>3, FS_Interval
<1>7. Cardinality(Subtree(e, i)) = l - i
  BY <1>5, <1>6
<1>. QED  BY <1>3, <1>4, <1>5, <1>7 DEF n

\* Collapsing a node: the selection stays, or goes to the node.
LEMMA CollapseKeeps ==
  ASSUME NEW e, ExplorerInv(e), NEW i \in 1..Len(e.tree)
  PROVE  ExplorerInv(tree_remove_children(e, i))
<1>. DEFINE t == e.tree
            r == tree_remove_children(e, i)
            c == [t EXCEPT ![i].expanded = FALSE]
<1>1. PICK l \in i..Len(t) :
         /\ Subtree(e, i) = (i + 1)..l /\ Cardinality(Subtree(e, i)) = l - i
         /\ \A k \in (i + 1)..l : t[k].depth > t[i].depth
         /\ l < Len(t) => t[l + 1].depth <= t[i].depth
  BY SubtreeIs DEF ExplorerInv
<1>2. /\ Len(t) \in Nat /\ i \in 1..Len(t) /\ l \in Nat /\ l \in i..Len(t)
      /\ DOMAIN t = 1..Len(t) /\ t \in Seq(Node)
  BY NodesOf DEF ExplorerInv, Sidebar
<1>. DEFINE u == SubSeq(c, 1, i) \o SubSeq(t, l + 1, Len(t))
            picked == IF e.tree_sel \in (i + 1)..l THEN i ELSE IF e.tree_sel > l THEN e.tree_sel - (l - i) ELSE e.tree_sel
<1>3. r = [cwd |-> e.cwd, tree |-> u, tree_sel |-> picked, pane |-> e.pane, pane_sel |-> e.pane_sel,
           last_row |-> e.last_row]
  <2>1. i + Cardinality(Subtree(e, i)) = l
    BY <1>1, <1>2
  <2>2. r = [e EXCEPT !.tree = u, !.tree_sel = picked]
    BY <1>1, <2>1 DEF tree_remove_children
  <2>. HIDE DEF r, u, picked, t
  <2>. QED  BY <2>2 DEF ExplorerInv, Fields
<1>4. /\ c \in Seq(Node) /\ Len(c) = Len(t)
      /\ c[i].path = t[i].path /\ c[i].depth = t[i].depth
      /\ \A k \in 1..Len(t) : k # i => c[k] = t[k]
  <2>1. t[i] \in Node /\ \A k \in 1..Len(t) : t[k] \in Node
    BY NodesOf DEF ExplorerInv
  <2>2. c = [k \in 1..Len(t) |-> IF k = i THEN [t[i] EXCEPT !.expanded = FALSE] ELSE t[k]]
    BY <1>2
  <2>3. /\ [t[i] EXCEPT !.expanded = FALSE] \in Node
        /\ [t[i] EXCEPT !.expanded = FALSE].path = t[i].path
        /\ [t[i] EXCEPT !.expanded = FALSE].depth = t[i].depth
    BY <2>1 DEF Node
  <2>4. c \in [1..Len(t) -> Node]
    BY <2>1, <2>2, <2>3
  <2>5. c \in Seq(Node)
    BY <2>4, <1>2, FunctionIsSeq
  <2>6. Len(c) = Len(t)
    BY <2>2, <2>5, <1>2
  <2>. QED  BY <2>2, <2>3, <2>5, <2>6, <1>2
<1>. HIDE DEF c, t, r
<1>5. /\ SubSeq(c, 1, i) \in Seq(Node) /\ Len(SubSeq(c, 1, i)) = i
      /\ \A k \in 1..i : SubSeq(c, 1, i)[k] = c[k]
  <2>1. \A k \in 1..i : c[k] \in Node
    BY <1>2, <1>4, ElementOfSeq
  <2>. QED  BY <2>1, <1>2, SubSeqProperties
<1>6. /\ SubSeq(t, l + 1, Len(t)) \in Seq(Node) /\ Len(SubSeq(t, l + 1, Len(t))) = Len(t) - l
      /\ \A k \in 1..(Len(t) - l) : SubSeq(t, l + 1, Len(t))[k] = t[l + k]
  <2>1. \A k \in (l + 1)..Len(t) : t[k] \in Node
    BY <1>2, ElementOfSeq
  <2>2. l + 1 \in Int /\ Len(t) \in Int
    BY <1>2
  <2>. DEFINE b == SubSeq(t, l + 1, Len(t))
  <2>3. /\ b \in Seq(Node) /\ Len(b) = IF l + 1 <= Len(t) THEN Len(t) - (l + 1) + 1 ELSE 0
        /\ \A k \in 1..(Len(t) - (l + 1) + 1) : b[k] = t[(l + 1) + k - 1]
    BY <2>1, <2>2, SubSeqProperties
  <2>. HIDE DEF b
  <2>4. Len(b) = Len(t) - l /\ Len(t) - (l + 1) + 1 = Len(t) - l
    <3>. DEFINE n == Len(t)
    <3>1. n \in Nat /\ l <= n
      BY <1>2
    <3>. HIDE DEF n
    <3>2. Len(b) = IF l + 1 <= n THEN n - (l + 1) + 1 ELSE 0
      BY <2>3 DEF n
    <3>3. Len(b) = n - l /\ n - (l + 1) + 1 = n - l
      BY <3>1, <3>2, <1>2
    <3>. QED  BY <3>3 DEF n
  <2>5. \A k \in 1..(Len(t) - l) : (l + 1) + k - 1 = l + k
    BY <1>2
  <2>. QED  BY <2>3, <2>4, <2>5 DEF b
<1>. DEFINE m == l - i
            b == SubSeq(t, l + 1, Len(t))
            a == SubSeq(c, 1, i)
<1>12. /\ a \o b \in Seq(Node) /\ Len(a \o b) = Len(a) + Len(b)
       /\ \A k \in 1..(Len(a) + Len(b)) : (a \o b)[k] = IF k <= Len(a) THEN a[k] ELSE b[k - Len(a)]
  <2>. HIDE DEF a, b
  <2>. QED  BY <1>5, <1>6, ConcatProperties DEF a, b
<1>13. u = a \o b /\ Len(a) = i /\ Len(b) = Len(t) - l /\ i + (Len(t) - l) = Len(t) - m
  <2>1. i + (Len(t) - l) = Len(t) - m
    BY <1>2
  <2>2. u = a \o b
    OBVIOUS
  <2>3. Len(a) = i
    BY <1>5
  <2>4. Len(b) = Len(t) - l
    BY <1>6
  <2>. HIDE DEF u, a, b, m
  <2>. QED  BY <2>1, <2>2, <2>3, <2>4
<1>7. u \in Seq(Node) /\ Len(u) = Len(t) - m
  <2>. HIDE DEF u, m, a, b
  <2>. QED  BY <1>12, <1>13
<1>8. \A k \in 1..Len(u) : u[k] = IF k <= i THEN c[k] ELSE t[k + m]
  <2>1. \A k \in 1..(Len(t) - m) : u[k] = IF k <= i THEN SubSeq(c, 1, i)[k] ELSE SubSeq(t, l + 1, Len(t))[k - i]
    <3>1. \A k \in 1..(Len(t) - m) : u[k] = IF k <= i THEN a[k] ELSE b[k - i]
      <4>. HIDE DEF u, m, a, b
      <4>. QED  BY <1>12, <1>13
    <3>. QED  BY <3>1
  <2>2. ASSUME NEW k \in 1..(Len(t) - m), k > i PROVE k - i \in 1..(Len(t) - l) /\ l + (k - i) = k + m
    BY <1>2, <2>2
  <2>. HIDE DEF u, m
  <2>3. ASSUME NEW k \in 1..(Len(t) - m) PROVE u[k] = IF k <= i THEN c[k] ELSE t[k + m]
    <3>1. CASE k <= i
      BY <2>1, <3>1, <1>5
    <3>2. CASE ~(k <= i)
      <4>1. k > i
        BY <3>2, <1>2
      <4>. QED  BY <2>1, <2>2, <3>2, <4>1, <1>6
    <3>. QED  BY <3>1, <3>2
  <2>. QED  BY <2>3, <1>7
<1>. HIDE DEF u
<1>9. Sidebar(u)
  <2>1. ASSUME NEW k \in 1..(i - 1) PROVE u[k] = t[k]
    <3>1. k \in 1..Len(t) /\ k \in 1..Len(u) /\ k # i /\ k <= i
      BY <1>2, <1>7
    <3>. QED  BY <3>1, <1>4, <1>8
  <2>2. u[i] = c[i]
    BY <1>2, <1>7, <1>8
  <2>3. \A k \in (i + 1)..Len(u) : u[k] = t[k + m]
    BY <1>2, <1>7, <1>8
  <2>4. Sidebar(t)
    BY DEF ExplorerInv, t
  <2>5. u[i].path = t[i].path /\ u[i].depth = t[i].depth
    BY <2>2, <1>4
  <2>6. m = l - i
    OBVIOUS
  <2>. HIDE DEF Sidebar, m
  <2>. QED  BY <1>1, <1>2, <1>7, <2>1, <2>3, <2>4, <2>5, <2>6, RemovedBelow
<1>10. Len(u) <= TREE_MAX /\ picked \in 1..Len(u)
  BY <1>2, <1>7, ExplorerAssumption DEF ExplorerInv, t
<1>. HIDE DEF picked
<1>11. r.tree = u /\ r.tree_sel = picked /\ Fields(r)
  BY <1>3 DEF Fields
<1>. QED  BY <1>9, <1>10, <1>11 DEF ExplorerInv, r

\* Expanding a node, whether its children fit or not.
LEMMA ExpandKeeps ==
  ASSUME NEW e, ExplorerInv(e), NEW files, NEW i \in 1..Len(e.tree)
  PROVE  ExplorerInv(tree_expand(e, files, i))
<1>. DEFINE t == e.tree
            n == t[i]
            dirs == SubDirs(files, n.path)
            names == Prefix(dirs, CHILD_MAX)
            Child(name) == [path |-> Append(n.path, name), depth |-> n.depth + 1, expanded |-> FALSE,
                            has_children |-> tree_probe(files, Append(n.path, name))]
            kids == [k \in DOMAIN names |-> Child(names[k])]
            shown == [n EXCEPT !.expanded = TRUE, !.has_children = names # <<>>]
            r == tree_expand(e, files, i)
<1>1. Len(t) \in Nat /\ i \in 1..Len(t) /\ DOMAIN t = 1..Len(t) /\ t \in Seq(Node) /\ n \in Node
  BY NodesOf DEF ExplorerInv, Sidebar
<1>2. n.path \in PathSet /\ n.depth \in Nat
  BY <1>1 DEF Node
<1>3. names \in Seq(Range(Order)) /\ IsInjective(names) /\ DOMAIN names = 1..Len(names) /\ Len(names) \in Nat
  <2>1. dirs \in Seq(Range(Order)) /\ IsInjective(dirs)
    BY InSlotOrderIs DEF SubDirs
  <2>. HIDE DEF dirs
  <2>2. PICK k \in Nat : names = SubSeq(dirs, 1, k) /\ k <= Len(dirs)
    <3>1. Len(dirs) \in Nat /\ CHILD_MAX \in Nat
      BY <2>1, LenProperties, ExplorerAssumption
    <3>. QED  BY <3>1 DEF Prefix
  <2>3. DOMAIN dirs = 1..Len(dirs) /\ Len(dirs) \in Nat /\ \A j \in 1..k : dirs[j] \in Range(Order)
    BY <2>1, <2>2, LenProperties, ElementOfSeq
  <2>4. /\ names \in Seq(Range(Order)) /\ Len(names) = k
        /\ \A j \in 1..k : names[j] = dirs[j]
    <3>1. /\ SubSeq(dirs, 1, k) \in Seq(Range(Order))
          /\ Len(SubSeq(dirs, 1, k)) = IF 1 <= k THEN k - 1 + 1 ELSE 0
          /\ \A j \in 1..(k - 1 + 1) : SubSeq(dirs, 1, k)[j] = dirs[1 + j - 1]
      BY <2>3, SubSeqProperties
    <3>. HIDE DEF names
    <3>. QED  BY <2>2, <3>1
  <2>. HIDE DEF names
  <2>5. DOMAIN names = 1..k
    BY <2>4, LenProperties
  <2>. QED  BY <2>1, <2>2, <2>3, <2>4, <2>5 DEF IsInjective
<1>. HIDE DEF names
<1>4. shown \in Node /\ shown.path = n.path /\ shown.depth = n.depth /\ shown.expanded
  BY <1>1 DEF Node
<1>5. CASE n.expanded
  BY <1>5 DEF tree_expand
<1>6. CASE ~n.expanded /\ Len(t) + Len(names) > TREE_MAX
  <2>. DEFINE c == [t EXCEPT ![i].expanded = TRUE]
  <2>1. r = [e EXCEPT !.tree = c]
    <3>1. r = [e EXCEPT !.tree[i].expanded = TRUE]
      BY <1>6 DEF tree_expand, names
    <3>. QED  BY <3>1
  <2>2. r = [cwd |-> e.cwd, tree |-> c, tree_sel |-> e.tree_sel, pane |-> e.pane, pane_sel |-> e.pane_sel,
             last_row |-> e.last_row]
    <3>. HIDE DEF r, c
    <3>. QED  BY <2>1 DEF ExplorerInv, Fields
  <2>. DEFINE open == [n EXCEPT !.expanded = TRUE]
  <2>3. open \in Node /\ open.path = n.path /\ open.depth = n.depth /\ open.expanded
    BY <1>1 DEF Node
  <2>4. c = [k \in 1..Len(t) |-> IF k = i THEN open ELSE t[k]]
    BY <1>1
  <2>5. \A k \in 1..Len(t) : t[k] \in Node
    BY <1>1, ElementOfSeq
  <2>. HIDE DEF c, open
  <2>6. c \in Seq(Node) /\ Len(c) = Len(t)
    <3>1. c \in [1..Len(t) -> Node]
      BY <2>3, <2>4, <2>5
    <3>2. c \in Seq(Node)
      BY <3>1, <1>1, FunctionIsSeq
    <3>. QED  BY <3>2, <2>4, <1>1
  <2>7. Sidebar(c)
    <3>1. \A k, l \in 1..0 : c[i + k].path = c[i + l].path => k = l
      OBVIOUS
    <3>2. \A k \in 1..0 : /\ c[i + k].depth = t[i].depth + 1
                          /\ \E x \in Range(Order) : c[i + k].path = Append(t[i].path, x)
      OBVIOUS
    <3>3. \A k \in 1..(i - 1) : c[k] = t[k]
      BY <2>4, <1>1
    <3>4. \A k \in (i + 1)..Len(t) : c[0 + k] = t[k]
      BY <2>4, <1>1
    <3>5. c[i] = open
      BY <2>4, <1>1
    <3>8. c[i].path = t[i].path /\ c[i].depth = t[i].depth /\ c[i].expanded
      BY <3>5, <2>3
    <3>6. Len(c) = Len(t) + 0
      BY <2>6, <1>1
    <3>7. Sidebar(t)
      BY DEF ExplorerInv
    <3>9. Grown(t, c, i, 0)
      BY <2>6, <3>1, <3>2, <3>3, <3>4, <3>6, <3>8 DEF Grown
    <3>. QED  BY <1>1, <1>6, <3>7, <3>9, InsertedBelow
  <2>8. r.tree = c /\ r.tree_sel = e.tree_sel /\ Fields(r)
    <3>. HIDE DEF r
    <3>. QED  BY <2>2 DEF Fields
  <2>. HIDE DEF r
  <2>9. ExplorerInv(r)
    BY <2>6, <2>7, <2>8 DEF ExplorerInv
  <2>. QED  BY <2>9 DEF r
<1>7. CASE ~n.expanded /\ ~(Len(t) + Len(names) > TREE_MAX)
  <2>. DEFINE m == Len(names)
              a == SubSeq(t, 1, i - 1)
              b == SubSeq(t, i + 1, Len(t))
              u == a \o <<shown>> \o kids \o b
  <2>1. r = [e EXCEPT !.tree = u]
    BY <1>7 DEF tree_expand, names
  <2>2. r = [cwd |-> e.cwd, tree |-> u, tree_sel |-> e.tree_sel, pane |-> e.pane, pane_sel |-> e.pane_sel,
             last_row |-> e.last_row]
    <3>. HIDE DEF r, u
    <3>. QED  BY <2>1 DEF ExplorerInv, Fields
  <2>3. a \in Seq(Node) /\ Len(a) = i - 1 /\ \A k \in 1..(i - 1) : a[k] = t[k]
    <3>1. \A k \in 1..(i - 1) : t[k] \in Node
      BY <1>1, ElementOfSeq
    <3>. QED  BY <3>1, <1>1, SubSeqProperties
  <2>4. b \in Seq(Node) /\ Len(b) = Len(t) - i /\ \A k \in 1..(Len(t) - i) : b[k] = t[i + k]
    <3>1. \A k \in (i + 1)..Len(t) : t[k] \in Node
      BY <1>1, ElementOfSeq
    <3>. QED  BY <3>1, <1>1, SubSeqProperties
  <2>5. ASSUME NEW k \in 1..m
        PROVE  kids[k] \in Node /\ kids[k].depth = n.depth + 1 /\ kids[k].path = Append(n.path, names[k])
    <3>1. names[k] \in Range(Order) /\ kids[k] = Child(names[k])
      BY <1>3, ElementOfSeq
    <3>2. Append(n.path, names[k]) \in PathSet
      BY <3>1, <1>2, ChildPath DEF PathSet
    <3>3. n.depth + 1 \in Nat
      BY <1>2
    <3>. HIDE DEF n, kids
    <3>. QED  BY <3>1, <3>2, <3>3 DEF Node, tree_probe
  <2>6. kids \in Seq(Node) /\ Len(kids) = m
    <3>1. kids = [k \in 1..m |-> kids[k]]
      BY <1>3
    <3>. HIDE DEF kids
    <3>2. kids \in [1..m -> Node]
      BY <3>1, <2>5
    <3>3. kids \in Seq(Node)
      BY <3>2, <1>3, FunctionIsSeq
    <3>. QED  BY <3>1, <3>3, <1>3
  <2>. HIDE DEF a, b, kids, shown, n, t, r
  <2>7. /\ a \o <<shown>> \in Seq(Node) /\ Len(a \o <<shown>>) = i
        /\ \A k \in 1..i : (a \o <<shown>>)[k] = IF k <= i - 1 THEN t[k] ELSE shown
    <3>1. <<shown>> \in Seq(Node) /\ Len(<<shown>>) = 1 /\ <<shown>>[1] = shown
      BY <1>4
    <3>2. /\ a \o <<shown>> \in Seq(Node) /\ Len(a \o <<shown>>) = Len(a) + Len(<<shown>>)
          /\ \A k \in 1..(Len(a) + Len(<<shown>>)) :
               (a \o <<shown>>)[k] = IF k <= Len(a) THEN a[k] ELSE <<shown>>[k - Len(a)]
      BY <2>3, <3>1, ConcatProperties
    <3>3. Len(a) + Len(<<shown>>) = i
      BY <2>3, <3>1, <1>1
    <3>4. ASSUME NEW k \in 1..i PROVE (a \o <<shown>>)[k] = IF k <= i - 1 THEN t[k] ELSE shown
      <4>1. CASE k <= i - 1
        BY <4>1, <3>2, <3>3, <2>3
      <4>2. CASE ~(k <= i - 1)
        <5>1. k - Len(a) = 1
          BY <4>2, <2>3, <1>1
        <5>. QED  BY <4>2, <5>1, <3>1, <3>2, <3>3, <2>3
      <4>. QED  BY <4>1, <4>2
    <3>. QED  BY <3>2, <3>3, <3>4
  <2>. DEFINE g == a \o <<shown>>
              h == g \o kids
  <2>. HIDE DEF g
  <2>8. /\ h \in Seq(Node) /\ Len(h) = i + m
        /\ \A k \in 1..(i + m) : h[k] = IF k <= i THEN g[k] ELSE kids[k - i]
    BY <2>6, <2>7, ConcatProperties DEF g
  <2>. HIDE DEF h
  <2>9. /\ u \in Seq(Node) /\ Len(u) = Len(t) + m
        /\ \A k \in 1..(Len(t) + m) : u[k] = IF k <= i + m THEN h[k] ELSE b[k - (i + m)]
    <3>1. u = h \o b
      BY DEF h, g
    <3>2. i + m + (Len(t) - i) = Len(t) + m
      BY <1>1, <1>3
    <3>3. /\ h \o b \in Seq(Node) /\ Len(h \o b) = Len(h) + Len(b)
          /\ \A k \in 1..(Len(h) + Len(b)) : (h \o b)[k] = IF k <= Len(h) THEN h[k] ELSE b[k - Len(h)]
      <4>. HIDE DEF m, u
      <4>. QED  BY <2>4, <2>8, ConcatProperties
    <3>. HIDE DEF u, m
    <3>. QED  BY <3>1, <3>2, <3>3, <2>4, <2>8
  <2>. HIDE DEF u
  <2>10. \A k \in 1..(i - 1) : u[k] = t[k]
    BY <2>7, <2>8, <2>9, <1>1, <1>3 DEF g
  <2>11. u[i] = shown
    BY <2>7, <2>8, <2>9, <1>1, <1>3 DEF g
  <2>12. ASSUME NEW k \in 1..m PROVE u[i + k] = kids[k]
    BY <2>8, <2>9, <1>1, <1>3
  <2>13. ASSUME NEW k \in (i + 1)..Len(t) PROVE u[m + k] = t[k]
    <3>1. m + k \in 1..(Len(t) + m) /\ ~(m + k <= i + m) /\ (m + k) - (i + m) = k - i
          /\ k - i \in 1..(Len(t) - i) /\ i + (k - i) = k
      BY <1>1, <1>3
    <3>. HIDE DEF m
    <3>. QED  BY <3>1, <2>4, <2>9
  <2>14. Sidebar(u)
    <3>1. Sidebar(t)
      BY DEF ExplorerInv, t
    <3>2. n = t[i] /\ m = Len(names)
      BY DEF n
    <3>. HIDE DEF Sidebar, m
    <3>3. ~t[i].expanded /\ u[i].path = t[i].path /\ u[i].depth = t[i].depth /\ u[i].expanded
      BY <3>2, <1>4, <1>7, <2>11
    <3>4. ASSUME NEW k \in 1..m
          PROVE  /\ u[i + k].depth = t[i].depth + 1 /\ u[i + k].path = Append(t[i].path, names[k])
                 /\ names[k] \in Range(Order)
      BY <3>2, <2>5, <2>12, <1>3, ElementOfSeq
    <3>5. ASSUME NEW k \in 1..m, NEW l \in 1..m, u[i + k].path = u[i + l].path PROVE k = l
      <4>1. Append(n.path, names[k]) = Append(n.path, names[l])
        BY <3>2, <3>4, <3>5
      <4>2. n.path \in Seq(Range(Order))
        BY <1>2 DEF PathSet
      <4>3. names[k] = names[l]
        BY <4>1, <4>2, <3>4, ChildPath
      <4>. QED  BY <4>3, <3>2, <1>3 DEF IsInjective
    <3>7. i \in 1..Len(t) /\ m \in Nat
      BY <1>1, <1>3, <3>2
    <3>6. u \in Seq(Node) /\ Len(u) = Len(t) + m
      BY <2>9
    <3>8. \A k \in 1..m : /\ u[i + k].depth = t[i].depth + 1
                          /\ \E x \in Range(Order) : u[i + k].path = Append(t[i].path, x)
      BY <3>4
    <3>9. Grown(t, u, i, m)
      BY <2>10, <2>13, <3>3, <3>5, <3>6, <3>8 DEF Grown
    <3>. QED  BY <3>1, <3>3, <3>7, <3>9, InsertedBelow
  <2>15. Len(u) <= TREE_MAX /\ e.tree_sel \in 1..Len(u)
    BY <2>9, <1>1, <1>3, <1>7, ExplorerAssumption DEF ExplorerInv, t
  <2>16. r.tree = u /\ r.tree_sel = e.tree_sel /\ Fields(r)
    BY <2>2 DEF Fields
  <2>17. ExplorerInv(r)
    BY <2>14, <2>15, <2>16 DEF ExplorerInv
  <2>. QED  BY <2>17 DEF r
<1>. QED  BY <1>5, <1>6, <1>7

-----------------------------------------------------------------------------
\* The record with another pane, selection in it or row clicked before.
LEMMA FieldsSet ==
  ASSUME NEW e, Fields(e), NEW q, NEW s
  PROVE  /\ s = [e EXCEPT !.pane = q, !.pane_sel = 0] =>
              s = [cwd |-> e.cwd, tree |-> e.tree, tree_sel |-> e.tree_sel,
                   pane |-> q, pane_sel |-> 0, last_row |-> e.last_row]
         /\ s = [e EXCEPT !.pane_sel = q] =>
              s = [cwd |-> e.cwd, tree |-> e.tree, tree_sel |-> e.tree_sel,
                   pane |-> e.pane, pane_sel |-> q, last_row |-> e.last_row]
         /\ s = [e EXCEPT !.last_row = q] =>
              s = [cwd |-> e.cwd, tree |-> e.tree, tree_sel |-> e.tree_sel,
                   pane |-> e.pane, pane_sel |-> e.pane_sel, last_row |-> q]
         /\ s = [e EXCEPT !.pane_sel = q, !.last_row = q] =>
              s = [cwd |-> e.cwd, tree |-> e.tree, tree_sel |-> e.tree_sel,
                   pane |-> e.pane, pane_sel |-> q, last_row |-> q]
<1>1. ASSUME s = [e EXCEPT !.pane = q, !.pane_sel = 0]
      PROVE  s = [cwd |-> e.cwd, tree |-> e.tree, tree_sel |-> e.tree_sel,
                  pane |-> q, pane_sel |-> 0, last_row |-> e.last_row]
  BY <1>1 DEF Fields
<1>2. ASSUME s = [e EXCEPT !.pane_sel = q]
      PROVE  s = [cwd |-> e.cwd, tree |-> e.tree, tree_sel |-> e.tree_sel,
                  pane |-> e.pane, pane_sel |-> q, last_row |-> e.last_row]
  BY <1>2 DEF Fields
<1>3. ASSUME s = [e EXCEPT !.last_row = q]
      PROVE  s = [cwd |-> e.cwd, tree |-> e.tree, tree_sel |-> e.tree_sel,
                  pane |-> e.pane, pane_sel |-> e.pane_sel, last_row |-> q]
  BY <1>3 DEF Fields
<1>4. ASSUME s = [e EXCEPT !.pane_sel = q, !.last_row = q]
      PROVE  s = [cwd |-> e.cwd, tree |-> e.tree, tree_sel |-> e.tree_sel,
                  pane |-> e.pane, pane_sel |-> q, last_row |-> q]
  BY <1>4 DEF Fields
<1>. QED  BY <1>1, <1>2, <1>3, <1>4

\* So the sidebar is sound in all of them.
LEMMA SameSidebar ==
  ASSUME NEW e, ExplorerInv(e), NEW d, NEW c, NEW q, NEW r, NEW l,
         d = [cwd |-> c, tree |-> e.tree, tree_sel |-> e.tree_sel,
              pane |-> q, pane_sel |-> r, last_row |-> l]
  PROVE  ExplorerInv(d) /\ d.tree = e.tree
<1>1. d.tree = e.tree /\ d.tree_sel = e.tree_sel /\ Fields(d)
  BY DEF Fields
<1>. QED  BY <1>1 DEF ExplorerInv

\* What the pane does changes nothing of the sidebar.
LEMMA PaneKeeps ==
  ASSUME NEW e, ExplorerInv(e), NEW files, NEW p
  PROVE  /\ ExplorerInv(pane_load(e, files))
         /\ ExplorerInv(pane_navigate(e, files, p))
<1>1. ASSUME NEW d, ExplorerInv(d) PROVE ExplorerInv(pane_load(d, files))
  <2>1. PICK s : s = pane_load(d, files)
    OBVIOUS
  <2>2. PICK x : s = [d EXCEPT !.pane = x, !.pane_sel = 0]
    BY <2>1 DEF pane_load
  <2>3. s = [cwd |-> d.cwd, tree |-> d.tree, tree_sel |-> d.tree_sel,
             pane |-> x, pane_sel |-> 0, last_row |-> d.last_row]
    BY <2>2, <1>1, FieldsSet DEF ExplorerInv
  <2>. QED  BY <2>1, <2>3, <1>1, SameSidebar
<1>2. PICK m : m = [e EXCEPT !.cwd = p]
  OBVIOUS
<1>3. m = [cwd |-> p, tree |-> e.tree, tree_sel |-> e.tree_sel,
           pane |-> e.pane, pane_sel |-> e.pane_sel, last_row |-> e.last_row]
  BY <1>2 DEF ExplorerInv, Fields
<1>4. ExplorerInv(m)
  BY <1>3, SameSidebar
<1>. QED  BY <1>1, <1>2, <1>4 DEF pane_navigate

\* The selection goes to the node of the directory, if there is one.
LEMMA GotoKeeps ==
  ASSUME NEW e, ExplorerInv(e), NEW files, NEW p
  PROVE  ExplorerInv(Goto(e, files, p))
<1>. DEFINE to == pane_navigate(e, files, p)
            at == tree_find(to, p)
            picked == IF at # 0 THEN at ELSE to.tree_sel
            r == [to EXCEPT !.tree_sel = picked]
<1>1. ExplorerInv(to)
  BY PaneKeeps
<1>2. Goto(e, files, p) = r
  BY DEF Goto
<1>. HIDE DEF to
<1>3. at = 0 \/ at \in 1..Len(to.tree)
  <2>. DEFINE I == { i \in 1..Len(to.tree) : to.tree[i].path = p }
  <2>1. at = IF I # {} THEN Min(I) ELSE 0
    BY DEF tree_find, SelectInSeq
  <2>2. I \in SUBSET Nat /\ I \subseteq 1..Len(to.tree)
    OBVIOUS
  <2>. HIDE DEF I, at
  <2>. QED  BY <2>1, <2>2, MinIs
<1>4. picked \in 1..Len(to.tree)
  BY <1>1, <1>3 DEF ExplorerInv
<1>. HIDE DEF picked, at
<1>5. r = [cwd |-> to.cwd, tree |-> to.tree, tree_sel |-> picked,
           pane |-> to.pane, pane_sel |-> to.pane_sel, last_row |-> to.last_row]
  BY <1>1 DEF ExplorerInv, Fields
<1>. HIDE DEF r
<1>6. r.tree = to.tree /\ r.tree_sel = picked /\ Fields(r)
  BY <1>5 DEF Fields
<1>. QED  BY <1>1, <1>2, <1>4, <1>6 DEF ExplorerInv

\* The selection or the row clicked before are set to what the code sets them.
LEMMA PaneFieldsKeep ==
  ASSUME NEW e, ExplorerInv(e), NEW r, NEW s,
         \/ s = [e EXCEPT !.pane_sel = r]
         \/ s = [e EXCEPT !.last_row = r]
         \/ s = [e EXCEPT !.pane_sel = r, !.last_row = r]
  PROVE  ExplorerInv(s)
<1>1. \/ s = [cwd |-> e.cwd, tree |-> e.tree, tree_sel |-> e.tree_sel,
              pane |-> e.pane, pane_sel |-> r, last_row |-> e.last_row]
      \/ s = [cwd |-> e.cwd, tree |-> e.tree, tree_sel |-> e.tree_sel,
              pane |-> e.pane, pane_sel |-> e.pane_sel, last_row |-> r]
      \/ s = [cwd |-> e.cwd, tree |-> e.tree, tree_sel |-> e.tree_sel,
              pane |-> e.pane, pane_sel |-> r, last_row |-> r]
  BY FieldsSet DEF ExplorerInv
<1>. QED  BY <1>1, SameSidebar

\* A window that opens shows the root and, if they fit, its directories.
LEMMA OpenKeeps ==
  ASSUME NEW files
  PROVE  ExplorerInv(explorer_open(files))
<1>. DEFINE e == [cwd |-> Root, tree |-> <<RootNode>>, tree_sel |-> 1,
                  pane |-> <<>>, pane_sel |-> 0, last_row |-> 0]
<1>1. Root \in PathSet /\ Len(Root) = 0
  BY DEF Root, PathSet
<1>2. RootNode \in Node /\ RootNode.path = Root /\ RootNode.depth = 0
  BY <1>1 DEF RootNode, Node
<1>3. <<RootNode>> \in Seq(Node) /\ Len(<<RootNode>>) = 1 /\ <<RootNode>>[1] = RootNode
  BY <1>2
<1>4. Sidebar(<<RootNode>>)
  BY <1>1, <1>2, <1>3 DEF Sidebar
<1>5. ExplorerInv(e)
  <2>1. Fields(e)
    BY DEF Fields
  <2>. QED  BY <1>3, <1>4, <2>1, ExplorerAssumption DEF ExplorerInv
<1>6. 1 \in 1..Len(e.tree)
  BY <1>3
<1>. HIDE DEF e
<1>7. ExplorerInv(tree_expand(e, files, 1))
  BY <1>5, <1>6, ExpandKeeps
<1>. QED  BY <1>7, PaneKeeps DEF explorer_open, e

\* What a key, but for Enter, does to the Explorer.
LEMMA KeyKeeps ==
  ASSUME NEW e, ExplorerInv(e), NEW files, NEW k
  PROVE  ExplorerInv(exp_key(e, files, k))
<1>1. CASE k = 38 /\ e.pane_sel > 1
  <2>1. PICK s : s = exp_key(e, files, k)
    OBVIOUS
  <2>2. s = [e EXCEPT !.pane_sel = e.pane_sel - 1]
    BY <1>1, <2>1 DEF exp_key
  <2>. QED  BY <2>1, <2>2, PaneFieldsKeep
<1>2. CASE k = 40 /\ e.pane_sel < Len(e.pane)
  <2>1. PICK s : s = exp_key(e, files, k)
    OBVIOUS
  <2>2. s = [e EXCEPT !.pane_sel = e.pane_sel + 1]
    BY <1>2, <2>1 DEF exp_key
  <2>. QED  BY <2>1, <2>2, PaneFieldsKeep
<1>3. CASE k = 8
  <2>1. exp_key(e, files, k) = Goto(e, files, path_up(e.cwd))
    BY <1>3 DEF exp_key
  <2>. QED  BY <2>1, GotoKeeps
<1>4. CASE ~(k = 38 /\ e.pane_sel > 1) /\ ~(k = 40 /\ e.pane_sel < Len(e.pane)) /\ k # 8
  <2>1. exp_key(e, files, k) = e
    BY <1>4 DEF exp_key
  <2>. QED  BY <2>1
<1>. QED  BY <1>1, <1>2, <1>3, <1>4

-----------------------------------------------------------------------------
\* It holds in the beginning, and whatever happens keeps it.
LEMMA AppsInitial ==
  ASSUME AppsInit
  PROVE  ExplorerInv(ex)
BY OpenKeeps DEF AppsInit

LEMMA AppsStep ==
  ASSUME ExplorerInv(ex), [AppsNext]_appsVars
  PROVE  ExplorerInv(ex')
<1>1. CASE UNCHANGED appsVars
  BY <1>1 DEF appsVars
<1>2. CASE Terminal \/ action_new_textfile \/ te_mousedown \/ CloseEditor
  BY <1>2 DEF Terminal, action_new_textfile, te_mousedown, CloseEditor
<1>3. CASE exp_mousedown
  <2>1. ASSUME NEW i \in DOMAIN ex.tree, ex' \in {ClickArrow(ex, fs, i), ClickNode(ex, fs, i)}
        PROVE  ExplorerInv(ex')
    <3>1. i \in 1..Len(ex.tree)
      BY NodesOf DEF ExplorerInv
    <3>2. ExplorerInv(ClickArrow(ex, fs, i))
      BY <3>1, CollapseKeeps, ExpandKeeps DEF ClickArrow
    <3>3. ExplorerInv(ClickNode(ex, fs, i))
      <4>. DEFINE e == [ex EXCEPT !.tree_sel = i]
      <4>1. ExplorerInv(e)
        BY <3>1 DEF ExplorerInv, Fields
      <4>. HIDE DEF e
      <4>2. \A p : ExplorerInv(pane_navigate(e, fs, p))
        BY <4>1, PaneKeeps
      <4>. QED  BY <4>2 DEF ClickNode, e
    <3>. QED  BY <2>1, <3>2, <3>3
  <2>2. ASSUME NEW r, ex' = ClickRow(ex, r) PROVE ExplorerInv(ex')
    BY <2>2, PaneFieldsKeep DEF ClickRow
  <2>3. ASSUME NEW r, ex' = SecondClick(ex, fs, r) PROVE ExplorerInv(ex')
    <3>1. ExplorerInv(Activated(ex, fs, r))
      BY GotoKeeps DEF Activated
    <3>. DEFINE e == Activated(ex, fs, r)
    <3>. HIDE DEF e
    <3>2. ExplorerInv([e EXCEPT !.last_row = 0])
      BY <3>1, PaneFieldsKeep DEF e
    <3>. QED  BY <2>3, <3>2 DEF SecondClick, e
  <2>. QED  BY <1>3, <2>1, <2>2, <2>3 DEF exp_mousedown
<1>4. CASE action_open_explorer
  BY <1>4, OpenKeeps DEF action_open_explorer
<1>5. ASSUME NEW k \in Keys, Key(k) PROVE ExplorerInv(ex')
  <2>1. CASE EditorKey(k)
    BY <2>1 DEF EditorKey
  <2>2. CASE ExplorerKey(k)
    <3>1. ExplorerInv(Activated(ex, fs, ex.pane_sel)) /\ ExplorerInv(exp_key(ex, fs, k))
      BY GotoKeeps, KeyKeeps DEF Activated
    <3>. QED  BY <2>2, <3>1 DEF ExplorerKey
  <2>. QED  BY <1>5, <2>1, <2>2 DEF Key
<1>. QED  BY <1>1, <1>2, <1>3, <1>4, <1>5 DEF AppsNext, Other

LEMMA SidebarIsSound ==
  ASSUME ExplorerInv(ex)
  PROVE  TreeSound
<1>. DEFINE t == ex.tree
<1>1. Sidebar(t) /\ DOMAIN t = 1..Len(t) /\ Len(t) \in Nat
  BY NodesOf DEF ExplorerInv
<1>2. ASSUME NEW i \in DOMAIN t \ {1}
      PROVE  \E j \in 1..(i - 1) : Parents(t, i, j)
  <2>1. i \in 2..Len(t)
    BY <1>1
  <2>. QED  BY <1>1, <2>1 DEF Sidebar
<1>. QED  BY <1>1, <1>2 DEF TreeSound, ExplorerInv, Sidebar, Parents

(* However nodes of the Explorer's sidebar are expanded and collapsed      *)
(* while directories come and go, for every file system, every number of   *)
(* nodes that fit and every number of directories read: it is a preorder   *)
(* of the tree, and the selection is one of its nodes.                     *)
THEOREM AlwaysTreeSound == AppsSpec => []TreeSound
<1>1. AppsInit => ExplorerInv(ex)
  BY AppsInitial
<1>2. ExplorerInv(ex) /\ [AppsNext]_appsVars => ExplorerInv(ex)'
  BY AppsStep
<1>3. ExplorerInv(ex) => TreeSound
  BY SidebarIsSound
<1>. QED  BY <1>1, <1>2, <1>3, PTL DEF AppsSpec
=============================================================================

----------------------------- MODULE MCDesktop -----------------------------
(***************************************************************************)
(* The desktop on a small screen, with a history of what becomes of each   *)
(* press: whether it came to the code for clicks of desktop_handle_mouse   *)
(* (desktop.c:362), which a round that moves the highlight of the context  *)
(* menu or a drag returns ahead of.                                        *)
(***************************************************************************)
EXTENDS Desktop

Small == [w |-> 5, h |-> 4]
Large == [w |-> 6, h |-> 4]
MCResolutions == {Small, Large}
MCBoot == Large

\* Windows four cells wide and two high, at two places.
MCGeo(kind) == IF kind = "Explorer" THEN <<0, 0, 4, 2>> ELSE <<1, 1, 4, 2>>

MCIcons == <<"Explorer">>
MCCtxItems == <<"Display", "-">>
MCStartItems == <<"Explorer", "-", "Reboot">>

\* The start button, two taskbar buttons, an icon and menu item, title bar,
\* its buttons, content and grip of a window, and the bare desktop.
MCPoints == {<<0, 3>>, <<2, 3>>, <<0, 0>>, <<1, 1>>, <<2, 1>>, <<3, 1>>, <<4, 1>>, <<1, 2>>, <<4, 2>>, <<5, 0>>}

MCOpened == {<<"Explorer", "Display">>}

-----------------------------------------------------------------------------
VARIABLE acted   \* the buttons whose last press has come to the code for clicks

Acting == IF pc = "handle" /\ pc' # pc THEN { b \in Buttons : Pressed(b) } ELSE {}

\* A bound: a second interrupt in one round of the loop is a release.
SecondIsRelease == burst = 1 /\ burst' = 2 => mouse.buttons \ mouse'.buttons # {}

MCInit == Init /\ acted = {}
MCNext == /\ Next /\ SecondIsRelease
          /\ acted' = (acted \cup Acting) \ (mouse'.buttons \ mouse.buttons)
MCSpec == MCInit /\ [][MCNext]_<<vars, acted>> /\ WF_<<vars, acted>>(Loop /\ MCNext)

\* A press that comes while nothing is dragged, no context menu is open and the
\* loop is not between reading the latch and clearing it comes to the code for
\* clicks, wherever else in a round (mouse.c:162, gde_main.c:56) it falls, also
\* if the button is up again by then and no other event follows.
PressActedOn ==
  \A b \in Buttons : b \in mouse.latch /\ drag = NoDrag /\ ~ctx.open /\ pc # "handle" ~> b \in acted

\* What the comment at desktop.c:280 says: with the latch, a press between two
\* rounds of the loop is never dropped.
PressNeverDropped == \A b \in Buttons : b \in mouse.latch ~> b \in acted
=============================================================================

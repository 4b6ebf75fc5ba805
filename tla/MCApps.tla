------------------------------- MODULE MCApps -------------------------------
(* A volume with two directories in its root, one of them with another and a *)
(* text file in it; a sidebar that is full when all three are shown, texts   *)
(* of up to four characters.                                                 *)
EXTENDS Apps

a == 97
MCVolume == Root :> Dir @@ <<"d">> :> Dir @@ <<"e">> :> Dir @@ <<"d", "e">> :> Dir @@ <<"d", "t">> :> File(<<a, NL>>)
MCVolumes == {MCVolume}
MCOrder == <<"d", "e", "t">>
MCContents == { <<>>, <<NL, a, NL>> }
MCPlaceholder == <<a, a, NL>>
MCNewFile == <<"d", "t">>
\* The codes te_key tests for to go up, down, left, right and a page down, the
\* code of the left arrow (19), Backspace, Enter and a letter.
MCKeys == {K_UP, K_DOWN, K_LEFT, K_RIGHT, K_PGDN, K_BACKSPACE, K_SAVE, 10, a}

VARIABLE key      \* the key of the last step, 0 if there was none

InitK == AppsInit /\ key = 0
NextK == \/ \E k \in Keys : Key(k) /\ key' = k
         \/ Other /\ key' = 0
SpecK == InitK /\ [][NextK]_<<appsVars, key>>

\* "Keys: Up/Down arrow, PgUp/PgDn, Home/End" (text_editor.c:13): the arrow
\* keys, as the keyboard delivers them, move about and change no file.
Arrows == 17..22
ArrowsOnlyMove == [][ key' \in Arrows => fs' = fs ]_<<appsVars, key>>

=============================================================================

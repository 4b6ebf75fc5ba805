------------------------------- MODULE Editor -------------------------------
(***************************************************************************)
(* PD-Text (kernel/gde/text_editor.c): a flat buffer, an index of where    *)
(* its lines start that is rebuilt after every change, and a cursor kept   *)
(* as a line and a column that may lie behind the end of the line.  As in  *)
(* the code, lines and columns count from 0.  What is drawn is left out,   *)
(* and so is the asterisk of a title, which nothing reads.                 *)
(***************************************************************************)
EXTENDS Integers, FiniteSetsExt, SequencesExt

CONSTANTS
  TE_BUF_MAX,     \* size of the buffer
  TE_LINE_MAX,    \* size of the line index
  VISIBLE,        \* lines the window shows
  Placeholder     \* the text shown for a file that is empty or not there

NL == 10          \* '\n'

NoEditor == [open |-> FALSE]

\* Rebuild the index: a line starts behind every newline that is not the last
\* character, as long as there is room in the index.
te_index_lines(buf) ==
  LET starts == {0} \cup { i \in 1..(Len(buf) - 1) : buf[i] = NL }
      all    == SetToSortSeq(starts, <)
  IN  IF buf = <<>> THEN <<>> ELSE SubSeq(all, 1, Min({Len(all), TE_LINE_MAX}))

nlines(st) == Len(st.lstart)

\* Where a line starts; the line behind the last one is the end of the text.
LineStart(st, ln) == IF ln < nlines(st) THEN st.lstart[ln + 1] ELSE Len(st.buf)

\* The length of a line without the newlines at its end.
te_get_line(st, ln) ==
  LET from == LineStart(st, ln) IN
  Max({0} \cup { k \in 1..(LineStart(st, ln + 1) - from) : st.buf[from + k] # NL })

\* The offset of the cursor in the buffer.
Offset(st) == LineStart(st, st.cursor) + Min({st.col, te_get_line(st, st.cursor)})

Rebuilt(st, buf) == [st EXCEPT !.buf = buf, !.lstart = te_index_lines(buf)]
ScrollDown(st) == [st EXCEPT !.scroll = IF st.cursor >= @ + VISIBLE THEN st.cursor - VISIBLE + 1 ELSE @]
ScrollUp(st)   == [st EXCEPT !.scroll = Min({@, st.cursor})]

te_insert(st, c) ==
  LET new == Rebuilt(st, InsertAt(st.buf, Offset(st) + 1, c))
  IN  IF Len(st.buf) >= TE_BUF_MAX - 1 THEN st
      ELSE IF c = NL THEN ScrollDown([new EXCEPT !.cursor = @ + 1, !.col = 0])
      ELSE [new EXCEPT !.col = @ + 1]

\* One step to the left: into the line, or to the end of the line before.
Back(st) ==
  IF st.col > 0 THEN [st EXCEPT !.col = @ - 1]
  ELSE IF st.cursor = 0 THEN st
  ELSE ScrollUp([st EXCEPT !.cursor = @ - 1, !.col = te_get_line(st, st.cursor - 1)])

\* Mutant: the cursor moves after the character is gone.
Mutant_te_backspace(st) ==
  IF Offset(st) = 0 THEN st ELSE Back(Rebuilt(st, RemoveAt(st.buf, Offset(st))))

\* The cursor moves first: a line that is joined to the one before must not
\* count in its length.  A column behind the end of its line counts as the
\* end of it, but loses only one.
te_backspace(st) ==
  IF Offset(st) = 0 THEN st
  ELSE LET moved == IF Min({st.col, te_get_line(st, st.cursor)}) > 0 THEN [st EXCEPT !.col = @ - 1]
                    ELSE Back([st EXCEPT !.col = 0])
       IN  Rebuilt(moved, RemoveAt(st.buf, Offset(st)))

-----------------------------------------------------------------------------
(* The keys te_key tests for.  The keyboard delivers a printable character *)
(* or one of its own codes for an arrow key, of which only one is tested   *)
(* for, as Ctrl+S: 38 is also `&', 19 the left arrow.                      *)
K_UP        == 38
K_DOWN      == 40
K_LEFT      == 37
K_RIGHT     == 39
K_PGUP      == 33
K_PGDN      == 34
K_HOME      == 36
K_END       == 35
K_BACKSPACE == 8
K_SAVE      == 19
K_NEW       == 14
Enter     == {10, 13}
Printable == 32..126 \ {K_UP, K_DOWN, K_LEFT, K_RIGHT, K_PGUP, K_PGDN, K_HOME, K_END}

LastLine(st) == Max({0, nlines(st) - 1})

\* What the keys do that move the cursor.
Moved(st, k) ==
  CASE k = K_UP    -> ScrollUp([st EXCEPT !.cursor = Max({0, @ - 1})])
    [] k = K_DOWN  -> ScrollDown([st EXCEPT !.cursor = IF @ < nlines(st) - 1 THEN @ + 1 ELSE @])
    [] k = K_LEFT  -> Back(st)
    [] k = K_RIGHT -> IF st.col < te_get_line(st, st.cursor) THEN [st EXCEPT !.col = @ + 1]
                      ELSE IF st.cursor < nlines(st) - 1
                      THEN ScrollDown([st EXCEPT !.cursor = @ + 1, !.col = 0]) ELSE st
    [] k = K_PGUP  -> LET up == Max({0, st.cursor - VISIBLE})
                      IN [st EXCEPT !.cursor = up, !.scroll = up]
    [] k = K_PGDN  -> ScrollDown([st EXCEPT !.cursor = IF @ + VISIBLE >= nlines(st) THEN LastLine(st)
                                                       ELSE @ + VISIBLE])
    [] k = K_HOME  -> [st EXCEPT !.col = 0]
    [] k = K_END   -> [st EXCEPT !.col = te_get_line(st, st.cursor)]
    [] OTHER       -> st

\* te_file_action, New: the window forgets its file.
Emptied(st) == [Rebuilt(st, <<>>) EXCEPT !.cursor = 0, !.col = 0, !.scroll = 0, !.path = <<>>]

\* te_key, but for saving.
te_key(st, k) ==
  CASE k = K_NEW       -> Emptied(st)
    [] k = K_BACKSPACE -> te_backspace(st)
    [] k \in Enter     -> te_insert(st, NL)
    [] k \in Printable -> te_insert(st, k)
    [] OTHER           -> Moved(st, k)

\* A click in the text puts the cursor on a line that is shown, the one cut off at
\* the bottom included, at or before its end.
Clicked(st) ==
  { [st EXCEPT !.cursor = at[1], !.col = at[2]] :
      at \in { x \in (st.scroll..(st.scroll + VISIBLE)) \X (0..Len(st.buf)) :
                 x[1] < nlines(st) /\ x[2] <= te_get_line(st, x[1]) } }

\* text_editor_open, with what could be read of the file.
Editing(path, content) ==
  LET read == SubSeq(content, 1, Min({Len(content), TE_BUF_MAX}))
      buf  == IF read = <<>> THEN Placeholder ELSE read
  IN  [open |-> TRUE, path |-> path, buf |-> buf, lstart |-> te_index_lines(buf),
       scroll |-> 0, cursor |-> 0, col |-> 0, menu |-> FALSE]
=============================================================================

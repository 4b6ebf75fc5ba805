-------------------------------- MODULE Apps --------------------------------
(***************************************************************************)
(* An Explorer and an editor window on one file system, which commands in  *)
(* a terminal window change under them.  One thread, the desktop loop,     *)
(* runs everything, event by event; which window gets an event is decided  *)
(* in Desktop.                                                             *)
(***************************************************************************)
EXTENDS Explorer, Editor

CONSTANTS
  Volumes,        \* file systems to begin with
  Contents,       \* contents of files commands make
  NewFile,        \* the path of the desktop's New Text File
  Keys,           \* key codes the keyboard delivers
  MaxInputs

VARIABLES
  fs,             \* the files
  ex,             \* the Explorer's exp_state_t
  ed,             \* the editor's tedit_state_t, if it is open
  inputs

appsVars == <<fs, ex, ed, inputs>>

AppsInit ==
  /\ fs \in Volumes
  /\ ex = explorer_open(fs) /\ ed = NoEditor /\ inputs = 0

Event == inputs < MaxInputs /\ inputs' = inputs + 1

-----------------------------------------------------------------------------
(* Commands of a terminal *)

Paths == UNION { {Append(d, n) : n \in Range(Order)} : d \in { p \in DOMAIN fs : fs[p].dir } }

MakeDir(p) ==
  /\ p \notin DOMAIN fs /\ Last(p) \notin TextNames
  /\ fs' = fs @@ (p :> Dir)

WriteFile(p, text) ==
  /\ ~IsDir(fs, p) /\ Last(p) \in TextNames
  /\ fs' = (p :> File(text)) @@ fs

\* With a directory goes what is in it.
Delete(p) ==
  /\ p \in DOMAIN fs
  /\ fs' = [q \in { x \in DOMAIN fs : ~IsPrefix(p, x) } |-> fs[q]]

Terminal ==
  /\ Event
  /\ \E p \in Paths : \/ MakeDir(p) \/ Delete(p)
                      \/ \E text \in Contents : WriteFile(p, text)
  /\ UNCHANGED <<ex, ed>>

-----------------------------------------------------------------------------
(* The editor *)

\* vfs_create works where the directory is there.
CanCreate(p) == p # <<>> /\ IsDir(fs, Front(p))

\* A window opens if there is memory, and a slot of the window pool, for it.
\* Here one editor fits.
text_editor_open(files, p) ==
  \/ UNCHANGED ed
  \/ ed = NoEditor /\ ed' = Editing(p, IF p \in DOMAIN files THEN files[p].text ELSE <<>>)

action_new_textfile ==
  /\ Event
  /\ fs' = IF NewFile \notin DOMAIN fs /\ CanCreate(NewFile) THEN fs @@ (NewFile :> File(<<>>)) ELSE fs
  /\ text_editor_open(fs', NewFile)
  /\ UNCHANGED ex

\* te_file_action, Save.  When the file is gone and cannot be created again,
\* the open node that the write uses was never filled in: it may be invalid,
\* or the one of any file.
Save ==
  LET to(p) == (p :> File(ed.buf)) @@ fs IN
  CASE ed.path = <<>> -> UNCHANGED fs
    [] ed.path # <<>> /\ (ed.path \in DOMAIN fs \/ CanCreate(ed.path)) -> fs' = to(ed.path)
    [] OTHER -> UNCHANGED fs \/ \E p \in { x \in DOMAIN fs : ~fs[x].dir } : fs' = to(p)

\* A key first closes the File menu.
EditorKey(k) ==
  /\ ed.open /\ k \in Keys
  /\ ed' = te_key([ed EXCEPT !.menu = FALSE], k)
  /\ IF k = K_SAVE THEN Save ELSE UNCHANGED fs
  /\ UNCHANGED ex

\* te_mousedown: the menu bar opens and closes the File menu, of which New and
\* Save do something; a click elsewhere closes it.
MenuBar == ed' \in { [ed EXCEPT !.menu = m] : m \in {~ed.menu, FALSE} } /\ UNCHANGED fs
FileMenuItem ==
  /\ ed.menu
  /\ \/ ed' = [Emptied(ed) EXCEPT !.menu = FALSE] /\ UNCHANGED fs
     \/ ed' = [ed EXCEPT !.menu = FALSE] /\ Save
ClickText == ~ed.menu /\ ed' \in Clicked(ed) /\ UNCHANGED fs

te_mousedown ==
  /\ Event /\ ed.open
  /\ MenuBar \/ FileMenuItem \/ ClickText
  /\ UNCHANGED ex

\* What was not saved is lost, without a question.
CloseEditor == Event /\ ed.open /\ ed' = NoEditor /\ UNCHANGED <<fs, ex>>

-----------------------------------------------------------------------------
(* The Explorer *)

OpenFile(r) == IF OpensText(ex, r) THEN text_editor_open(fs, Target(ex, r)) ELSE UNCHANGED ed

ExplorerKey(k) ==
  /\ k \in Keys
  /\ IF k \in Enter /\ ex.pane_sel \in DOMAIN ex.pane
     THEN ex' = Activated(ex, fs, ex.pane_sel) /\ OpenFile(ex.pane_sel)
     ELSE ex' = exp_key(ex, fs, k) /\ UNCHANGED ed
  /\ UNCHANGED fs

\* Whether a second click on a row comes soon enough is left open.
exp_mousedown ==
  /\ Event
  /\ \/ /\ \E i \in DOMAIN ex.tree : ex' \in {ClickArrow(ex, fs, i), ClickNode(ex, fs, i)}
        /\ UNCHANGED ed
     \/ \E r \in DOMAIN ex.pane :
          \/ ex' = ClickRow(ex, r) /\ UNCHANGED ed
          \/ ex.last_row = r /\ ex' = SecondClick(ex, fs, r) /\ OpenFile(r)
  /\ UNCHANGED fs

\* Closing the Explorer and opening it again.
action_open_explorer == Event /\ ex' = explorer_open(fs) /\ UNCHANGED <<fs, ed>>

-----------------------------------------------------------------------------
Key(k) == Event /\ (EditorKey(k) \/ ExplorerKey(k))
Other  == Terminal \/ action_new_textfile \/ te_mousedown \/ CloseEditor
          \/ exp_mousedown \/ action_open_explorer

AppsNext == Other \/ \E k \in Keys : Key(k)
AppsSpec == AppsInit /\ [][AppsNext]_appsVars
-----------------------------------------------------------------------------
(* Properties *)

(* However nodes are expanded and collapsed while directories come and go: *)
(* the sidebar is a preorder of the tree.  Every node but the root comes   *)
(* after its parent, which counts as expanded, with only descendants of    *)
(* that parent between them; none comes twice; and the selection is one.   *)
TreeSound ==
  /\ Len(ex.tree) <= TREE_MAX /\ ex.tree_sel \in DOMAIN ex.tree
  /\ \A i, j \in DOMAIN ex.tree : ex.tree[i].path = ex.tree[j].path => i = j
  /\ \A i \in DOMAIN ex.tree \ {1} :
       \E j \in 1..(i - 1) :
         /\ ex.tree[j].expanded /\ ex.tree[j].path = Front(ex.tree[i].path)
         /\ \A k \in (j + 1)..i : IsStrictPrefix(ex.tree[j].path, ex.tree[k].path)

\* As long as the line index is large enough, the editor is one of Text: what
\* is typed goes where the cursor is, whichever keys and clicks moved it there.
Caret == IF ed.open THEN Offset(ed) ELSE 0
Shown == INSTANCE Text WITH Char <- 0..127, open <- ed.open, text <- (IF ed.open THEN ed.buf ELSE <<>>),
                            caret <- Caret
EditsText == Shown!Spec
=============================================================================

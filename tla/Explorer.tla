------------------------------ MODULE Explorer ------------------------------
(***************************************************************************)
(* PD-Explorer (kernel/gde/explorer.c): a sidebar that keeps an expanded   *)
(* directory tree as a flat array of nodes with depths, and a file pane    *)
(* with the entries of one directory as they were when it was loaded.      *)
(*                                                                         *)
(* It always acts as root, so that no directory is ever denied to it and   *)
(* the branches that say so are never taken.  Rows count from 1, 0 is      *)
(* "none".  Scrolling and drawing are left out.                            *)
(***************************************************************************)
EXTENDS Integers, SequencesExt

CONSTANTS
  TREE_MAX,       \* nodes of the sidebar
  CHILD_MAX,      \* directories read when a node is expanded
  PANE_MAX,       \* entries of the pane
  Order,          \* names, in the order of the slots of a directory
  TextNames       \* those that end in .txt

ASSUME ExplorerAssumption ==
  /\ TREE_MAX \in Nat \ {0} /\ CHILD_MAX \in Nat
  /\ Order \in Seq(Range(Order)) /\ IsInjective(Order)

\* A file system is a function from paths to Dir or a content.
Root == <<>>
Up   == ".."
Dir  == [dir |-> TRUE, text |-> <<>>]
File(text) == [dir |-> FALSE, text |-> text]
IsDir(fs, p) == p \in DOMAIN fs /\ fs[p].dir

\* The names of a set, in the order of the slots.
InSlotOrder(S) ==
  LET upto[i \in 0..Len(Order)] ==
        IF i = 0 THEN <<>> ELSE IF Order[i] \in S THEN Append(upto[i - 1], Order[i]) ELSE upto[i - 1]
  IN upto[Len(Order)]

\* The entries of a directory, none if it is gone.
InDir(fs, p)    == { n \in Range(Order) : IsDir(fs, p) /\ Append(p, n) \in DOMAIN fs }
stat_dir(fs, p) == InSlotOrder(InDir(fs, p))
SubDirs(fs, p)  == InSlotOrder({ n \in InDir(fs, p) : fs[Append(p, n)].dir })

-----------------------------------------------------------------------------
(* The file pane *)

Prefix(s, n) == SubSeq(s, 1, IF Len(s) < n THEN Len(s) ELSE n)

pane_load(e, fs) ==
  LET up   == IF e.cwd = Root THEN <<>> ELSE << [name |-> Up, dir |-> TRUE] >>
      here == [i \in DOMAIN stat_dir(fs, e.cwd) |->
                 LET n == stat_dir(fs, e.cwd)[i] IN [name |-> n, dir |-> fs[Append(e.cwd, n)].dir]]
  IN  [e EXCEPT !.pane = Prefix(up \o here, PANE_MAX), !.pane_sel = 0]

tree_find(e, p) == SelectInSeq(e.tree, LAMBDA n : n.path = p)

pane_navigate(e, fs, p) == pane_load([e EXCEPT !.cwd = p], fs)

path_up(p) == IF p = Root THEN p ELSE Front(p)

\* Go to a directory and, if the sidebar shows it, select it there.
Goto(e, fs, p) ==
  LET to == pane_navigate(e, fs, p)
  IN  [to EXCEPT !.tree_sel = IF tree_find(to, p) # 0 THEN tree_find(to, p) ELSE @]

-----------------------------------------------------------------------------
(* The sidebar *)

\* Mutant: deeper descendants of the node stay.
Mutant_Subtree(e, i) ==
  { j \in (i + 1)..Len(e.tree) : \A k \in (i + 1)..j : e.tree[k].depth = e.tree[i].depth + 1 }

\* The nodes below node i: those behind it that are deeper, up to the first
\* that is not.
Subtree(e, i) ==
  { j \in (i + 1)..Len(e.tree) : \A k \in (i + 1)..j : e.tree[k].depth > e.tree[i].depth }

tree_remove_children(e, i) ==
  LET below == Subtree(e, i)
      last  == i + Cardinality(below)
  IN  [e EXCEPT !.tree = SubSeq([@ EXCEPT ![i].expanded = FALSE], 1, i) \o SubSeq(@, last + 1, Len(@)),
                !.tree_sel = IF @ \in below THEN i ELSE IF @ > last THEN @ - Cardinality(below) ELSE @]

tree_probe(fs, p) == SubDirs(fs, p) # <<>>

\* A node whose children would not fit counts as expanded without any.  The
\* selection keeps its index, whatever moves behind the new nodes.
tree_expand(e, fs, i) ==
  LET n     == e.tree[i]
      names == Prefix(SubDirs(fs, n.path), CHILD_MAX)
      Child(name) == LET p == Append(n.path, name)
                     IN [path |-> p, depth |-> n.depth + 1, expanded |-> FALSE, has_children |-> tree_probe(fs, p)]
      kids  == [k \in DOMAIN names |-> Child(names[k])]
      shown == [n EXCEPT !.expanded = TRUE, !.has_children = names # <<>>]
  IN  IF n.expanded THEN e
      ELSE IF Len(e.tree) + Len(names) > TREE_MAX THEN [e EXCEPT !.tree[i].expanded = TRUE]
      ELSE [e EXCEPT !.tree = SubSeq(@, 1, i - 1) \o <<shown>> \o kids \o SubSeq(@, i + 1, Len(@))]

RootNode == [path |-> Root, depth |-> 0, expanded |-> FALSE, has_children |-> TRUE]

explorer_open(fs) ==
  pane_load(tree_expand([cwd |-> Root, tree |-> <<RootNode>>, tree_sel |-> 1,
                         pane |-> <<>>, pane_sel |-> 0, last_row |-> 0], fs, 1), fs)

-----------------------------------------------------------------------------
(* Events.  Activating an entry goes to its directory; what it opens, a    *)
(* text file, is the caller's affair.                                      *)

Entry(e, r)    == e.pane[r]
Target(e, r)   == IF Entry(e, r).name = Up THEN path_up(e.cwd) ELSE Append(e.cwd, Entry(e, r).name)
OpensText(e, r) == ~Entry(e, r).dir /\ Entry(e, r).name \in TextNames
Activated(e, fs, r) == IF Entry(e, r).dir THEN Goto(e, fs, Target(e, r)) ELSE e

\* A click on the arrow of a node.
ClickArrow(e, fs, i) ==
  IF e.tree[i].expanded THEN tree_remove_children(e, i)
  ELSE IF e.tree[i].has_children THEN tree_expand(e, fs, i) ELSE e

\* A click on its name.
ClickNode(e, fs, i) == pane_navigate([e EXCEPT !.tree_sel = i], fs, e.tree[i].path)

\* A click on a row selects it; a second one, soon enough, activates it.
ClickRow(e, r)      == [e EXCEPT !.pane_sel = r, !.last_row = r]
SecondClick(e, fs, r) == [Activated(e, fs, r) EXCEPT !.last_row = 0]

\* exp_key, but for the Enter key: 38 is up, 40 down, 8 the parent.
exp_key(e, fs, k) ==
  CASE k = 38 /\ e.pane_sel > 1 -> [e EXCEPT !.pane_sel = @ - 1]
    [] k = 40 /\ e.pane_sel < Len(e.pane) -> [e EXCEPT !.pane_sel = @ + 1]
    [] k = 8  -> Goto(e, fs, path_up(e.cwd))
    [] OTHER  -> e
=============================================================================

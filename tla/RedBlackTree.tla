---------------------------- MODULE RedBlackTree ----------------------------
(***************************************************************************)
(* The red-black trees of libhashish's hi_rbtree.c, as operators from tree *)
(* to tree.  A node is named by the key it holds, and 0 is the null        *)
(* pointer.  The code spells every case out twice, once for each side;     *)
(* here the side is a parameter.                                           *)
(***************************************************************************)
EXTENDS Integers, Sequences, FiniteSets

CONSTANT Nodes        \* the keys, positive integers

NULL == 0
Sides == {"left", "right"}
Opposite(s) == IF s = "left" THEN "right" ELSE "left"

EmptyTree ==
  [root |-> NULL, child |-> [s \in Sides |-> [n \in Nodes |-> NULL]],
   parent |-> [n \in Nodes |-> NULL], red |-> [n \in Nodes |-> FALSE],
   data |-> [n \in Nodes |-> NULL]]

IsBlack(t, n) == n = NULL \/ ~ t.red[n]
Blacken(t, n) == IF n = NULL THEN t ELSE [t EXCEPT !.red[n] = FALSE]
SetParent(t, n, p) == IF n = NULL THEN t ELSE [t EXCEPT !.parent[n] = p]
SideOf(t, parent, n) == IF t.child["left"][parent] = n THEN "left" ELSE "right"

\* What led from parent, or from the root, to old leads to new.
Relink(t, parent, old, new) ==
  IF parent = NULL THEN [t EXCEPT !.root = new]
  ELSE [t EXCEPT !.child[SideOf(t, parent, old)][parent] = new]

\* __rb_rotate_left (s = "left") and __rb_rotate_right.
rotate(t, node, s) ==
  LET up == t.child[Opposite(s)][node]
      inner == t.child[s][up]
      parent == t.parent[node]
      turned == [t EXCEPT !.child[Opposite(s)][node] = inner, !.child[s][up] = node,
                          !.parent[up] = parent, !.parent[node] = up]
  IN Relink(SetParent(turned, inner, node), parent, node, up)

-----------------------------------------------------------------------------
(* Insertion.                                                              *)

RECURSIVE rb_insert_color(_, _)
rb_insert_color(t, node) ==
  LET parent == t.parent[node]
      gparent == t.parent[parent]
      s == SideOf(t, gparent, parent)
      uncle == t.child[Opposite(s)][gparent]
      between == t.child[Opposite(s)][parent] = node
      turned == IF between THEN rotate(t, parent, s) ELSE t
      upper == IF between THEN node ELSE parent
      lower == IF between THEN parent ELSE node
  IN IF IsBlack(t, parent) THEN Blacken(t, t.root)
     ELSE IF ~ IsBlack(t, uncle)
     THEN rb_insert_color([t EXCEPT !.red[uncle] = FALSE, !.red[parent] = FALSE, !.red[gparent] = TRUE],
                          gparent)
     ELSE rb_insert_color(rotate([turned EXCEPT !.red[upper] = FALSE, !.red[gparent] = TRUE],
                                 gparent, Opposite(s)), lower)

\* The node where the search for key ends: its own, or the one it would hang from.
\* A smaller key is looked for on the right.
RECURSIVE Descend(_, _, _)
Descend(t, key, n) ==
  LET next == IF n = NULL THEN NULL ELSE t.child[IF key < n THEN "right" ELSE "left"][n]
  IN IF n = key \/ next = NULL THEN n ELSE Descend(t, key, next)

found(t, key) == Descend(t, key, t.root) = key

\* rb_link_node and rb_insert_color.
inserted(t, key, data) ==
  LET parent == Descend(t, key, t.root)
      s == IF key < parent THEN "right" ELSE "left"
      linked == [t EXCEPT !.parent[key] = parent, !.red[key] = TRUE, !.data[key] = data]
  IN rb_insert_color(IF parent = NULL THEN [linked EXCEPT !.root = key]
                     ELSE [linked EXCEPT !.child[s][parent] = key], key)

-----------------------------------------------------------------------------
(* Removal.                                                                *)

\* A black node is missing at node, a child of parent.
RECURSIVE rb_erase_color(_, _, _)
rb_erase_color(t, node, parent) ==
  LET s == SideOf(t, parent, node)
      o == Opposite(s)
      sibling == t.child[o][parent]
      t1 == IF IsBlack(t, sibling) THEN t
            ELSE rotate([t EXCEPT !.red[sibling] = FALSE, !.red[parent] = TRUE], parent, s)
      other == t1.child[o][parent]
      outerBlack == IsBlack(t1, t1.child[o][other])
      t2 == IF ~ outerBlack THEN t1
            ELSE rotate([Blacken(t1, t1.child[s][other]) EXCEPT !.red[other] = TRUE], other, o)
      last == t2.child[o][parent]
      t3 == [t2 EXCEPT !.red[last] = t2.red[parent], !.red[parent] = FALSE]
      t4 == rotate(Blacken(t3, t3.child[o][last]), parent, s)
  IN IF node = t.root \/ ~ IsBlack(t, node) THEN Blacken(t, node)
     ELSE IF outerBlack /\ IsBlack(t1, t1.child[s][other])
     THEN rb_erase_color([t1 EXCEPT !.red[other] = TRUE], parent, t1.parent[parent])
     ELSE Blacken(t4, t4.root)

RECURSIVE Leftmost(_, _)
Leftmost(t, n) == IF t.child["left"][n] = NULL THEN n ELSE Leftmost(t, t.child["left"][n])

free(t, n) ==
  [t EXCEPT !.parent[n] = NULL, !.red[n] = FALSE, !.data[n] = NULL,
            !.child = [s \in Sides |-> [@[s] EXCEPT ![n] = NULL]]]

\* node, with one child at most, is cut out of the tree.
CutOut(t, node, child) ==
  Relink(SetParent(t, child, t.parent[node]), t.parent[node], node, child)

\* next, cut out already, takes the place of old.
Replace(t, old, next) ==
  LET placed == [t EXCEPT !.parent[next] = t.parent[old], !.red[next] = t.red[old],
                          !.child = [s \in Sides |-> [@[s] EXCEPT ![next] = t.child[s][old]]]]
      linked == Relink(placed, t.parent[old], old, next)
  IN SetParent(SetParent(linked, linked.child["left"][next], next), linked.child["right"][next], next)

\* rb_erase that never looks at the colour of the node it has cut out.
EraseNoColor(t, node) ==
  LET two == t.child["left"][node] # NULL /\ t.child["right"][node] # NULL
      out == IF two THEN Leftmost(t, t.child["right"][node]) ELSE node
      child == IF t.child["left"][out] = NULL THEN t.child["right"][out] ELSE t.child["left"][out]
      cut == CutOut(t, out, child)
  IN free(IF two THEN Replace(cut, node, out) ELSE cut, node)

rb_erase(t, node) ==
  LET two == t.child["left"][node] # NULL /\ t.child["right"][node] # NULL
      out == IF two THEN Leftmost(t, t.child["right"][node]) ELSE node
      child == IF t.child["left"][out] = NULL THEN t.child["right"][out] ELSE t.child["left"][out]
      parent == IF two /\ t.parent[out] = node THEN out ELSE t.parent[out]
      cut == CutOut(t, out, child)
      relinked == IF two THEN Replace(cut, node, out) ELSE cut
  IN free(IF t.red[out] THEN relinked ELSE rb_erase_color(relinked, child, parent), node)

-----------------------------------------------------------------------------
(* Traversal, and what makes a tree a red-black tree.                      *)

\* hi_rbtree_traverse puts a node before what hangs from it, left before right.
RECURSIVE hi_rbtree_traverse(_, _)
hi_rbtree_traverse(t, n) ==
  IF n = NULL THEN << >>
  ELSE <<[key |-> n, data |-> t.data[n]]>> \o hi_rbtree_traverse(t, t.child["left"][n])
       \o hi_rbtree_traverse(t, t.child["right"][n])

RECURSIVE KeysBelow(_, _)
KeysBelow(t, n) ==
  IF n = NULL THEN {}
  ELSE {n} \union KeysBelow(t, t.child["left"][n]) \union KeysBelow(t, t.child["right"][n])

\* Black nodes on every way down from n, -1 if the ways differ.
RECURSIVE BlackHeight(_, _)
BlackHeight(t, n) ==
  LET l == BlackHeight(t, t.child["left"][n])
      r == BlackHeight(t, t.child["right"][n])
  IN IF n = NULL THEN 0 ELSE IF l # r \/ l = -1 THEN -1 ELSE IF t.red[n] THEN l ELSE l + 1

\* Larger keys on the left, smaller ones on the right; parents that know their
\* children; a black root; no red child of a red node; the same black height on
\* every way down.
IsRedBlack(t) ==
  LET all == KeysBelow(t, t.root)
  IN /\ IsBlack(t, t.root)
     /\ BlackHeight(t, t.root) >= 0
     /\ t.root # NULL => t.parent[t.root] = NULL
     /\ \A n \in all, s \in Sides :
          LET c == t.child[s][n]
          IN c # NULL => /\ t.parent[c] = n
                         /\ ~ (t.red[n] /\ t.red[c])
                         /\ \A k \in KeysBelow(t, c) : IF s = "left" THEN k > n ELSE k < n
=============================================================================

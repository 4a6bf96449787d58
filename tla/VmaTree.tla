------------------------------ MODULE VmaTree -------------------------------
(***************************************************************************)
(* The red-black tree of libk/tree/rbt.h, as vm_manager.c keeps the areas  *)
(* of an address space in it: registered by start address, looked up by    *)
(* start or by any address inside, unregistered.  The page's lock makes    *)
(* each call one step.  A node is named by the start of its area; NIL is   *)
(* the black sentinel of INIT(vma), linked to itself.  AddressSpace keeps  *)
(* the areas as a set; this module is why it may.                          *)
(***************************************************************************)
EXTENDS Integers, FiniteSets

CONSTANTS Top,       \* addresses are 1 .. Top
          Longest    \* of an area

ASSUME TreeAssumption == Top \in Nat \ {0} /\ Longest \in Nat \ {0}

VARIABLES tree,      \* page->tree and its nodes
          areas      \* (ghost) start address -> length, of what is registered
treeVars == <<tree, areas>>

NIL == 0
Starts == 1 .. Top
Links == Starts \cup {NIL}
Other == [left |-> "right", right |-> "left"]

EmptyTree ==
    [root |-> NIL, parent |-> [n \in Links |-> NIL], color |-> [n \in Links |-> "black"],
     child |-> [s \in {"left", "right"} |-> [n \in Links |-> NIL]]]

TreeInit == tree = EmptyTree /\ areas = <<>>

-----------------------------------------------------------------------------
(* The pieces of rbt.h.  Left and right mirror each other throughout, so a *)
(* side is a parameter.                                                    *)
SideOf(t, n) == IF n = t.child.left[t.parent[n]] THEN "left" ELSE "right"

Paint(t, black, red) ==
    [t EXCEPT !.color = [n \in Links |-> IF n \in black THEN "black"
                                         ELSE IF n \in red THEN "red" ELSE @[n]]]

(* The link from above that named z names x.                               *)
Relink(t, z, x) ==
    IF t.parent[z] = NIL THEN [t EXCEPT !.root = x]
    ELSE [t EXCEPT !.child[SideOf(t, z)][t.parent[z]] = x]

(* x->parent = p, left out for NIL, whose parent stays its own.            *)
Adopt(t, x, p) == IF x = NIL THEN t ELSE [t EXCEPT !.parent[x] = p]


(* rbt_rotate_left and rbt_rotate_right: x sinks to side s.                *)
Rotate(t, x, s) ==
    LET y == t.child[Other[s]][x]
        inner == t.child[s][y]
        freed == Adopt([t EXCEPT !.child[Other[s]][x] = inner], inner, x)
        up == Relink(freed, x, y)
    IN  [up EXCEPT !.parent[y] = t.parent[x], !.child[s][y] = x, !.parent[x] = y]

RECURSIVE FixInsert(_, _)
FixInsert(t, y) ==
    LET p == t.parent[y]
        g == t.parent[p]
        s == SideOf(t, p)
        uncle == t.child[Other[s]][g]
        inner == y = t.child[Other[s]][p]
        turned == IF inner THEN Rotate(t, p, s) ELSE t
        low == IF inner THEN p ELSE y
        mid == turned.parent[low]
    IN  IF t.color[p] # "red" THEN Paint(t, {t.root}, {})
        ELSE IF uncle # NIL /\ t.color[uncle] = "red"
             THEN FixInsert(Paint(t, {p, uncle}, {g}), g)
             ELSE FixInsert(Rotate(Paint(turned, {mid}, {turned.parent[mid]}), turned.parent[mid], Other[s]), low)

(* The leaf under which the descent of rbt_insert_node ends.               *)
RECURSIVE Leaf(_, _, _, _)
Leaf(t, z, parent, n) ==
    IF n = NIL THEN parent
    ELSE Leaf(t, z, n, t.child[IF z < n THEN "left" ELSE "right"][n])

InsertNode(t, z) ==
    LET p == Leaf(t, z, NIL, t.root)
        fresh == [t EXCEPT !.parent[z] = p, !.color[z] = "red",
                           !.child.left[z] = NIL, !.child.right[z] = NIL]
        linked == IF p = NIL THEN [fresh EXCEPT !.root = z]
                  ELSE [fresh EXCEPT !.child[IF z < p THEN "left" ELSE "right"][p] = z]
    IN  IF p = NIL THEN Paint(linked, {z}, {})
        ELSE IF t.parent[p] = NIL THEN linked
        ELSE FixInsert(linked, z)

RECURSIVE SearchNode(_, _, _)
SearchNode(t, n, id) ==
    IF n = NIL \/ n = id THEN n
    ELSE SearchNode(t, t.child[IF id < n THEN "left" ELSE "right"][n], id)

-----------------------------------------------------------------------------
(* rbt_fix_delete: x carries one black too many.  Its sibling w is made    *)
(* black; if both of w's children are black the surplus moves up, else a   *)
(* red child of w, turned outward first if need be, absorbs it.            *)
RECURSIVE FixDelete(_, _, _)
FixDelete(t, x, p) ==
    LET s == IF x = t.child.left[p] THEN "left" ELSE "right"
        o == Other[s]
        w0 == t.child[o][p]
        raised == IF t.color[w0] = "red" THEN Rotate(Paint(t, {w0}, {p}), p, s) ELSE t
        w1 == raised.child[o][p]
        near == raised.child[s][w1]
        far == raised.child[o][w1]
        outward == IF raised.color[far] = "black" THEN Rotate(Paint(raised, {near}, {w1}), w1, o) ELSE raised
        w2 == outward.child[o][p]
        taken == [outward EXCEPT !.color[w2] = outward.color[p]]
        settled == Rotate(Paint(taken, {p, taken.child[o][w2]}, {}), p, s)
    IN  IF x = t.root \/ t.color[x] = "red" THEN Paint(t, {x}, {})
        ELSE IF raised.color[near] = "black" /\ raised.color[far] = "black"
             THEN FixDelete(Paint(raised, {}, {w1}), p, raised.parent[p])
             ELSE FixDelete(settled, settled.root, NIL)

RECURSIVE Leftmost(_, _)
Leftmost(t, n) == IF t.child.left[n] = NIL THEN n ELSE Leftmost(t, t.child.left[n])

(* z has one child at most: the child takes its place.                     *)
Splice(t, z, x) ==
    LET spliced == Adopt(Relink(t, z, x), x, t.parent[z])
    IN  IF t.color[z] = "black" THEN FixDelete(spliced, x, t.parent[z]) ELSE spliced

(* z has two: its successor y leaves its own place to its right child and  *)
(* takes z's place and color.                                              *)
Succeed(t, z) ==
    LET y == Leftmost(t, t.child.right[z])
        x == t.child.right[y]
        right == t.child.right[z]
        p == IF t.parent[y] = z THEN y ELSE t.parent[y]
        moved == IF t.parent[y] = z THEN t
              ELSE LET cut == Adopt([t EXCEPT !.child.left[p] = x], x, p)
                   IN  Adopt([cut EXCEPT !.child.right[y] = right], right, y)
        linked == Relink(moved, z, y)
        taken == [linked EXCEPT !.parent[y] = t.parent[z], !.child.left[y] = t.child.left[z],
                         !.color[y] = t.color[z]]
        settled == Adopt(taken, t.child.left[z], y)
    IN  IF t.color[y] = "black" THEN FixDelete(settled, x, p) ELSE settled

RemoveNode(t, z) ==
    IF t.child.left[z] = NIL THEN Splice(t, z, t.child.right[z])
    ELSE IF t.child.right[z] = NIL THEN Splice(t, z, t.child.left[z])
    ELSE Succeed(t, z)

(* A freed node's fields mean nothing: they are put back as at the start.  *)
Freed(t, z) ==
    [t EXCEPT !.parent[z] = NIL, !.color[z] = "black", !.child.left[z] = NIL, !.child.right[z] = NIL]

-----------------------------------------------------------------------------
(* The calls.  Callers register areas that overlap no other: they come     *)
(* from vma_lookup_free_vaddr, or replace what they unregistered.          *)
Area(a) == {n \in DOMAIN areas : n <= a /\ a < n + areas[n]}

VmaRegister(a, len) ==
    /\ a + len - 1 <= Top
    /\ \A b \in a .. a + len - 1 : Area(b) \subseteq {a}
    /\ IF SearchNode(tree, tree.root, a) # NIL THEN UNCHANGED treeVars
       ELSE /\ tree' = InsertNode(tree, a)
            /\ areas' = [n \in DOMAIN areas \cup {a} |-> IF n = a THEN len ELSE areas[n]]

VmaUnregister(a) ==
    LET n == SearchNode(tree, tree.root, a)
    IN  /\ n # NIL
        /\ tree' = Freed(RemoveNode(tree, n), n)
        /\ areas' = [m \in DOMAIN areas \ {n} |-> areas[m]]

RECURSIVE FindContains(_, _)
FindContains(n, a) ==
    IF n = NIL \/ (n <= a /\ a < n + areas[n]) THEN n
    ELSE FindContains(tree.child[IF a < n THEN "left" ELSE "right"][n], a)

TreeNext == \E a \in Starts : VmaUnregister(a) \/ \E len \in 1 .. Longest : VmaRegister(a, len)

-----------------------------------------------------------------------------
RECURSIVE Under(_)
Under(n) == IF n = NIL THEN {} ELSE {n} \cup Under(tree.child.left[n]) \cup Under(tree.child.right[n])

(* Black nodes on the way from n down to a leaf; -1 if the ways differ.    *)
RECURSIVE BlackHeight(_)
BlackHeight(n) ==
    LET l == BlackHeight(tree.child.left[n])
        r == BlackHeight(tree.child.right[n])
    IN  IF n = NIL THEN 0
        ELSE IF l # r THEN -1 ELSE IF tree.color[n] = "black" /\ l >= 0 THEN l + 1 ELSE l

(* Whatever areas were registered and unregistered, and in whatever order, *)
(* the tree links exactly the registered ones, in order and with parents   *)
(* that match; it is balanced as a red-black tree is; and                  *)
(* vma_find_contains finds the one area an address lies in, vma_find the   *)
(* one that starts there.                                                  *)
TreeExact ==
    /\ Under(tree.root) = DOMAIN areas
    /\ tree.parent[tree.root] = NIL
    /\ \A n \in DOMAIN areas, s \in {"left", "right"} :
          LET c == tree.child[s][n]
          IN  /\ c # NIL => tree.parent[c] = n
              /\ \A m \in Under(c) : IF s = "left" THEN m < n ELSE m > n
              /\ tree.color[n] = "red" => tree.color[c] = "black"
    /\ \A s \in {"left", "right"} : tree.child[s][NIL] = NIL
    /\ tree.color[tree.root] = "black" /\ BlackHeight(tree.root) >= 0
    /\ \A a \in Starts :
          /\ {FindContains(tree.root, a)} \ {NIL} = Area(a)
          /\ {SearchNode(tree, tree.root, a)} \ {NIL} = {a} \cap DOMAIN areas
=============================================================================

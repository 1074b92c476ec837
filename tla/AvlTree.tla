------------------------------ MODULE AvlTree ------------------------------
(***************************************************************************)
(* The AVL tree of price levels of backend/src/engine/tree.rs, as pure     *)
(* operators, with Arena::add_limit and the two collectors of price levels *)
(* from orderbook.rs.  The tree lives in an arena: a map from a price to   *)
(* its limit, whose parent, left and right fields hold prices.  Any other  *)
(* field of a limit is carried along untouched.                            *)
(*                                                                         *)
(* A side of the book is the record                                        *)
(*   [limits |-> the arena, tree |-> the root, edge |-> the best price,    *)
(*    rebalances |-> the rotations counted since the call began].          *)
(* The height stored in a limit is the code's, not the one the shape of    *)
(* the tree would give: the two may differ, see LimitTree.                 *)
(***************************************************************************)
EXTENDS Integers, Sequences, FiniteSets, SequencesExt

CONSTANTS NIL,                   \* Option::None
          Price                  \* the limit prices callers use

ASSUME PricesAreIntegers == Price \subseteq Int
ASSUME NilIsNoPrice == NIL \notin Price

Side == {"Bid", "Ask"}           \* BidOrAsk

(* Bids rank from the highest price down, asks from the lowest price up. *)
Outranks(side, p, q) == IF side = "Bid" THEN p > q ELSE p < q

(* The best price of a set of prices, NIL when there is none. *)
BestOf(side, prices) ==
  IF prices = {} THEN NIL
  ELSE CHOOSE p \in prices : \A q \in prices \ {p} : Outranks(side, p, q)

EmptySide == [limits |-> << >>, tree |-> NIL, edge |-> NIL, rebalances |-> 0]

(* The child field under which p belongs, seen from an ancestor q. *)
Toward(p, q) == IF p < q THEN "left" ELSE "right"
Opposite(dir) == IF dir = "left" THEN "right" ELSE "left"

Larger(a, b) == IF a < b THEN b ELSE a
Height_NoneIsOne(m, c) == IF c = NIL THEN 1 ELSE m[c].height
Height(m, c) == IF c = NIL THEN 0 ELSE m[c].height
BalanceFactor(m, p) == Height(m, m[p].left) - Height(m, m[p].right)

(* m with the height of p one above its higher child. *)
SetHeight_Increment(m, p) == [m EXCEPT ![p].height = @ + 1]
SetHeight(m, p) ==
  [m EXCEPT ![p].height = 1 + Larger(Height(m, m[p].left), Height(m, m[p].right))]

(* m with the child of q on the way to p replaced by c; q may be NIL. *)
Relink(m, q, p, c) == IF q = NIL THEN m ELSE [m EXCEPT ![q][Toward(p, q)] = c]

(* m with q as the parent of c; c may be NIL. *)
Reparent_Forgotten(m, c, q) == m
Reparent(m, c, q) == IF c = NIL THEN m ELSE [m EXCEPT ![c].parent = q]

-----------------------------------------------------------------------------
(* Rotations.  t is a tree being balanced: the arena m, the root tree, the  *)
(* price top that heads the subtree balanced last, the rotations counted in *)
(* rot.  The root is NIL while an insertion balances, which returns its     *)
(* root instead.                                                            *)

(* ll_rotate for near = "left", rr_rotate for near = "right": the near      *)
(* child of p takes the place of p, which becomes its far child.            *)
Rotate(t, p, near) ==
  LET far     == Opposite(near)
      up      == t.m[p][near]
      inner   == t.m[up][far]
      above   == t.m[p].parent
      lowered == Reparent(SetHeight([t.m EXCEPT ![p][near] = inner], p), inner, p)
      raised  == SetHeight([lowered EXCEPT ![up][far] = p], up)
  IN  [t EXCEPT !.m    = [raised EXCEPT ![up].parent = above, ![p].parent = up],
                !.tree = IF above = NIL /\ @ # NIL THEN up ELSE @,
                !.top  = up]

(* lr_rotate for near = "left", rl_rotate for near = "right". *)
DoubleRotate(t, p, near) ==
  LET child == t.m[p][near]
      grand == t.m[child][Opposite(near)]
      inner == Rotate(t, child, Opposite(near))
  IN  Rotate([inner EXCEPT !.m[p][near] = grand], p, near)

(* balance_tree of the subtree of p. *)
BalanceTree(t, p) ==
  LET bf    == BalanceFactor(t.m, p)
      left  == t.m[p].left
      right == t.m[p].right
      turn(near, single) ==
        [IF single THEN Rotate(t, p, near) ELSE DoubleRotate(t, p, near)
           EXCEPT !.rot = @ + 1]
  IN  CASE bf >= 2  -> turn("left",  BalanceFactor(t.m, left) >= 0)
        [] bf <= -2 -> turn("right", BalanceFactor(t.m, right) <= 0)
        [] OTHER    -> [t EXCEPT !.top = p]

(* The side b with the balanced tree t. *)
Balance(b, t) ==
  [b EXCEPT !.limits = t.m, !.tree = t.tree, !.rebalances = @ + t.rot]

-----------------------------------------------------------------------------
(* Insertion. *)

(* insert_recursive: p, already in the arena, becomes a leaf; on the way   *)
(* back up every visited limit links its child again, recomputes its       *)
(* height and is balanced.                                                 *)
Unwind(p, q, t) ==
  LET linked == [t.m EXCEPT ![q][Toward(p, q)] = t.top]
  IN  BalanceTree([t EXCEPT !.m = SetHeight(linked, q)], q)

InsertRecursive(m, root, p) ==
  LET leaf(q) == [m |-> [m EXCEPT ![p].parent = q], top |-> p, tree |-> NIL, rot |-> 0]
      insert[q \in DOMAIN m] ==
        LET c == m[q][Toward(p, q)]
        IN  Unwind(p, q, IF c = NIL THEN leaf(q) ELSE insert[c])
  IN  insert[root]

(* Arena::add_limit of a price that has no limit.  Option ordering puts    *)
(* None below every price, so only a bid can replace an edge of None.      *)
AddLimitTo(b, side, p, limit) ==
  LET m      == [q \in DOMAIN b.limits \cup {p} |->
                   IF q = p THEN limit ELSE b.limits[q]]
      better == IF b.edge = NIL THEN side = "Bid" ELSE Outranks(side, p, b.edge)
      rooted(t) == [t EXCEPT !.tree = t.top]
  IN  IF b.tree = NIL
      THEN [b EXCEPT !.limits = m, !.tree = p, !.edge = p]
      ELSE [Balance(b, rooted(InsertRecursive(m, b.tree, p)))
              EXCEPT !.edge = IF better THEN p ELSE @]

-----------------------------------------------------------------------------
(* Removal. *)

Leftmost(m, p) ==
  LET walk[q \in DOMAIN m] == IF m[q].left \notin DOMAIN m THEN q ELSE walk[m[q].left]
  IN  walk[p]

NextEdge_Parent(b, side) ==
  IF b.edge # b.tree THEN b.limits[b.edge].parent ELSE NIL

(* The first lines of delete_limit: the edge after the limit at the edge   *)
(* is gone is its child on the worse side, else its parent, else none.     *)
NextEdge(b, side) ==
  LET limit == b.limits[b.edge]
      worse == IF side = "Bid" THEN limit.left ELSE limit.right
  IN  IF worse # NIL THEN worse
      ELSE IF b.edge # b.tree THEN limit.parent ELSE NIL

(* handle_delete_limit: m is the arena without p, gone the limit p had.    *)
(* With two children the leftmost limit of the right subtree moves up and  *)
(* keeps the height it had there.                                          *)
HandleDeleteLimit(m, p, gone) ==
  IF gone.left = NIL \/ gone.right = NIL
  THEN LET only == IF gone.left = NIL THEN gone.right ELSE gone.left
       IN  Reparent(Relink(m, gone.parent, p, only), only, gone.parent)
  ELSE LET temp     == Leftmost(m, gone.right)
           orphan   == m[temp].right
           detached == [Reparent(m, orphan, m[temp].parent) EXCEPT
                          ![m[temp].parent].left = orphan,
                          ![temp].right          = gone.right,
                          ![gone.right].parent   = temp]
           freed    == IF m[gone.right].left = NIL THEN m ELSE detached
           placed   == [freed EXCEPT ![temp].parent = gone.parent,
                                     ![temp].left   = gone.left,
                                     ![gone.left].parent = temp]
       IN  Relink(placed, gone.parent, p, temp)

(* q, its parent, and so on up to the root. *)
Ancestors(m, q) ==
  LET up[r \in DOMAIN m] ==
        IF m[r].parent = NIL THEN <<r>> ELSE <<r>> \o up[m[r].parent]
  IN  IF q = NIL THEN << >> ELSE up[q]

(* The balancing pass from q, the parent of the limit p that is gone, up   *)
(* to the root.  No height is recomputed unless a rotation does it.        *)
RebalanceUp(m, root, q, p) ==
  LET path == Ancestors(m, q)
      hang(t) == [t EXCEPT !.m = Relink(t.m, t.m[t.top].parent, p, t.top)]
      pass[i \in 0..Len(path)] ==
        IF i = 0 THEN [m |-> m, tree |-> root, top |-> NIL, rot |-> 0]
        ELSE hang(BalanceTree(pass[i - 1], path[i]))
  IN  pass[Len(path)]

(* delete_limit: the edge, the root, the links, then the balancing pass.   *)
DeleteLimitFrom(b, side, p) ==
  LET gone == b.limits[p]
      rest == [q \in DOMAIN b.limits \ {p} |-> b.limits[q]]
      root == IF b.tree # p THEN b.tree
              ELSE IF gone.right # NIL THEN Leftmost(rest, gone.right)
              ELSE gone.left
      cut  == HandleDeleteLimit(rest, p, gone)
  IN  [Balance(b, RebalanceUp(cut, root, gone.parent, p))
         EXCEPT !.edge = IF @ = p THEN NextEdge(b, side) ELSE @]

-----------------------------------------------------------------------------
(* Reading the tree. *)

(* The prices under root in the order of collect_n_bids or collect_n_asks. *)
Traverse(m, root, side) ==
  LET first == IF side = "Bid" THEN "right" ELSE "left"
      visit[q \in DOMAIN m] ==
        LET sub(dir) == IF m[q][dir] = NIL THEN << >> ELSE visit[m[q][dir]]
        IN  sub(first) \o <<q>> \o sub(Opposite(first))
  IN  IF root \in DOMAIN m THEN visit[root] ELSE << >>

TopLevels_FromEdge(b, side, n, bestLevels) ==
  LET all == Traverse(b.limits, b.edge, side)
  IN  SubSeq(all, 1, IF Len(all) < n THEN Len(all) ELSE n)

(* get_top_n_bids and get_top_n_asks: the collectors start at the root, or *)
(* at the edge when the arena was made to show the best levels only.       *)
TopLevels(b, side, n, bestLevels) ==
  LET all == Traverse(b.limits, IF bestLevels THEN b.edge ELSE b.tree, side)
  IN  SubSeq(all, 1, IF Len(all) < n THEN Len(all) ELSE n)

-----------------------------------------------------------------------------
(* What the operators above do to a limit and may not do to it: they move   *)
(* its links and set its height; whatever else it has stays.                *)
OnlyLinksMoved(before, after) ==
  after = [before EXCEPT !.parent = after.parent, !.left = after.left,
                         !.right = after.right, !.height = after.height]

(* A tree in which an only child is always a leaf, as in every AVL tree.    *)
Bushy(m) ==
  \A p \in DOMAIN m :
    LET Leaf(c) == m[c].left = NIL /\ m[c].right = NIL
    IN  /\ m[p].left = NIL /\ m[p].right # NIL => Leaf(m[p].right)
        /\ m[p].right = NIL /\ m[p].left # NIL => Leaf(m[p].left)
=============================================================================

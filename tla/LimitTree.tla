----------------------------- MODULE LimitTree -----------------------------
(***************************************************************************)
(* One side of the book as the matching engine drives it: price levels     *)
(* appear (Arena::add_limit) and disappear (tree::delete_limit) in any     *)
(* order.  The orders queued at a level are OrderBook's business.          *)
(***************************************************************************)
EXTENDS AvlTree

VARIABLES bid_or_ask,   \* the side this tree keeps, fixed by Init
          book,         \* the arena, root, edge and rotation count of the side
          cancelled     \* history: a level other than the edge was removed

vars == <<bid_or_ask, book, cancelled>>

(* Limit::new, its tree fields. *)
NewLimit == [parent |-> NIL, left |-> NIL, right |-> NIL, height |-> 1]

Init ==
  /\ bid_or_ask \in Side
  /\ book = EmptySide
  /\ cancelled = FALSE

(* add_limit is called only for a price that has no limit yet; the count   *)
(* of rotations starts from 0 with the order that adds the level.          *)
AddLimit(p) ==
  /\ p \notin DOMAIN book.limits
  /\ book' = AddLimitTo([book EXCEPT !.rebalances = 0], bid_or_ask, p, NewLimit)
  /\ UNCHANGED <<bid_or_ask, cancelled>>

(* The last order at p is executed, which happens at the edge only, or is  *)
(* cancelled or modified away, which happens anywhere.                     *)
DeleteLimit(p) ==
  /\ p \in DOMAIN book.limits
  /\ book' = DeleteLimitFrom([book EXCEPT !.rebalances = 0], bid_or_ask, p)
  /\ cancelled' = (cancelled \/ p # book.edge)
  /\ UNCHANGED bid_or_ask

Next == \E p \in Price : AddLimit(p) \/ DeleteLimit(p)

Spec == Init /\ [][Next]_vars

-----------------------------------------------------------------------------
Live == DOMAIN book.limits

(* The height the shape of the tree gives to every level. *)
Depth ==
  LET at[p \in Live] ==
        LET below(c) == IF c = NIL THEN 0 ELSE at[c]
        IN  1 + Larger(below(book.limits[p].left), below(book.limits[p].right))
  IN  at

(* The fields of the arena hold prices, heights and counts of their types. *)
TypeOK ==
  /\ bid_or_ask \in Side
  /\ Live \subseteq Price
  /\ \A p \in Live : /\ {book.limits[p].parent, book.limits[p].left,
                         book.limits[p].right} \subseteq Price \cup {NIL}
                     /\ book.limits[p].height \in 1..Cardinality(Price)
  /\ {book.tree, book.edge} \subseteq Price \cup {NIL}
  /\ book.rebalances \in 0..Cardinality(Price)

(* Every link has its reverse, and the root is the only level without one. *)
Linked ==
  /\ \A p \in Live, dir \in {"left", "right"} :
       LET c == book.limits[p][dir]
       IN  c # NIL => c \in Live /\ book.limits[c].parent = p
  /\ \A p \in Live :
       LET q == book.limits[p].parent
       IN  IF q = NIL THEN p = book.tree
           ELSE q \in Live /\ book.limits[q][Toward(p, q)] = p

(* The tree is a search tree of exactly the live levels: walking it from   *)
(* the root meets each of them once, in the order of their prices.  This   *)
(* is what add, execute and cancel rely on to find a level and what the    *)
(* snapshots sent to the client are read from.                             *)
SearchTree ==
  /\ Linked
  /\ LET asks == Traverse(book.limits, book.tree, "Ask")
     IN  /\ Len(asks) = Cardinality(Live)
         /\ \A i \in 1..Len(asks)-1 : asks[i] < asks[i+1]

(* highest_buy is the highest bid level and lowest_sell the lowest ask     *)
(* level, None exactly when the side is empty: the engine matches against  *)
(* this price alone, so price priority rests on it.                        *)
BookEdgeIsBest == book.edge = BestOf(bid_or_ask, Live)

(* The stored heights, from which balance_tree decides, are the true ones. *)
HeightsExact == \A p \in Live : book.limits[p].height = Depth[p]

(* The AVL balance condition on the true heights. *)
Balanced ==
  \A p \in Live :
    LET below(c) == IF c = NIL THEN 0 ELSE Depth[c]
        d == below(book.limits[p].left) - below(book.limits[p].right)
    IN  d \in -1..1

(* get_top_n_bids and get_top_n_asks list the n best live levels, best     *)
(* first: the snapshot leaves out no level that outranks one it shows.     *)
SnapshotIsTopN ==
  \A n \in 1..Cardinality(Price) :
    LET top == TopLevels(book, bid_or_ask, n, FALSE)
    IN  /\ Len(top) = IF Cardinality(Live) < n THEN Cardinality(Live) ELSE n
        /\ \A i \in 1..Len(top) :
             top[i] = BestOf(bid_or_ask, Live \ {top[j] : j \in 1..i-1})

(* An only child is a leaf: all of a balanced tree that the three          *)
(* properties above rest on, see LimitTreeProofs.                          *)
BushyTree == Bushy(book.limits)

(* A level added to a balanced tree with true heights leaves a balanced    *)
(* tree with true heights, after at most one counted rebalance: only       *)
(* removal lets the stored heights go stale.                               *)
InsertionBalances ==
  [][ HeightsExact /\ Balanced /\ Live \subseteq Live'
        => HeightsExact' /\ Balanced' /\ book'.rebalances <= 1 ]_vars

(* The histories that remove levels by execution alone. *)
ExecutedOnly == ~ cancelled

(* The histories the passing run explores to their end: those, which seven *)
(* prices keep in order and eight do not, and of the others one step past  *)
(* the point where a stored height is no longer the true one.              *)
TrustedHistory == HeightsExact \/ ExecutedOnly
=============================================================================

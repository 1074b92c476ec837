-------------------------- MODULE LimitTreeProofs --------------------------
(***************************************************************************)
(* One side of the book stays a search tree with the best price at its     *)
(* edge for as long as an only child in it is a leaf: for every set of     *)
(* prices, whatever the rotations do with heights gone stale.  Where no    *)
(* level was removed no height is stale, and the tree is an AVL tree.      *)
(***************************************************************************)
EXTENDS LimitTree, AvlTreeProofs

(* The inductive invariant: U of IsTree, a set of prices below every one,   *)
(* is what SearchTree cannot say of itself.                                 *)
TreeInv == bid_or_ask \in Side /\ GoodSide(book, bid_or_ask)

(* An empty side is in good order. *)
LEMMA TreeStart ==
  ASSUME Init
  PROVE  TreeInv
BY EmptySideIsSide DEF Init, TreeInv

(* A new limit is a leaf of height 1. *)
LEMMA NewIsNode ==
  /\ IsNode(NewLimit) /\ NewLimit.parent = NIL /\ NewLimit.left = NIL /\ NewLimit.right = NIL
  /\ NewLimit.height = 1
<1> DEFINE l == NewLimit
<1>1. DOMAIN l = Fields /\ l = [x \in Fields |-> l[x]] /\ l.height = 1
  BY DEF NewLimit, Fields
<1>2. l.parent = NIL /\ l.left = NIL /\ l.right = NIL
  BY DEF NewLimit
<1> HIDE DEF l
<1>3. IsNode(l)
  BY <1>1 DEF IsNode
<1> QED BY <1>1, <1>2, <1>3 DEF l

(* Adding a level keeps the order, and removing one from a bushy tree does. *)
LEMMA TreeStep ==
  ASSUME TreeInv, BushyTree, [Next]_vars
  PROVE  TreeInv'
<1> DEFINE b0 == [book EXCEPT !.rebalances = 0]
<1>1. /\ bid_or_ask \in Side /\ GoodSide(b0, bid_or_ask) /\ b0.limits = book.limits
  BY CountsFromZero DEF TreeInv
<1> HIDE DEF b0
<1>2. ASSUME NEW p \in Price, AddLimit(p) PROVE TreeInv'
  <2>1. IsNode(NewLimit) /\ NewLimit.parent = NIL /\ NewLimit.left = NIL /\ NewLimit.right = NIL
    BY NewIsNode
  <2>3. GoodSide(AddLimitTo(b0, bid_or_ask, p, NewLimit), bid_or_ask)
    BY <1>1, <1>2, <2>1, AddKeepsSide DEF AddLimit
  <2> QED BY <1>1, <1>2, <2>3 DEF AddLimit, TreeInv, b0
<1>3. ASSUME NEW p \in Price, DeleteLimit(p) PROVE TreeInv'
  <2>1. GoodSide(DeleteLimitFrom(b0, bid_or_ask, p), bid_or_ask)
    BY <1>1, <1>3, DeleteKeepsSide DEF DeleteLimit, BushyTree
  <2> QED BY <1>1, <1>3, <2>1 DEF DeleteLimit, TreeInv, b0
<1>4. CASE UNCHANGED vars
  BY <1>4 DEF TreeInv, vars
<1> QED BY <1>2, <1>3, <1>4 DEF Next

(* A tree in good order is linked both ways and read in order. *)
LEMMA OrderIsRead ==
  ASSUME TreeInv
  PROVE  SearchTree /\ BookEdgeIsBest /\ SnapshotIsTopN
<1> DEFINE all(side) == Traverse(book.limits, book.tree, side)
<1>1. ASSUME NEW side \in Side
      PROVE  Lists(side, all(side), Live) /\ Live \subseteq Int
  <2>1. CASE Live = {}
    <3>1. all(side) = << >>
      BY <2>1 DEF Traverse, Live
    <3> QED BY <2>1, <3>1, EmptyLists
  <2>2. CASE Live # {}
    <3>1. PICK U : IsTree(book.limits, U, book.tree)
      BY <2>2 DEF TreeInv, GoodSide, Live
    <3>2. Lists(side, all(side), Live)
      BY <3>1, TraverseLists DEF Live
    <3>3. Live \subseteq Int
      BY <3>1, PricesAreIntegers DEF IsTree, Live
    <3> QED BY <3>2, <3>3
  <2> QED BY <2>1, <2>2
<1>2. Linked
  <2>1. CASE Live = {}
    BY <2>1 DEF Linked
  <2>2. CASE Live # {}
    <3>1. PICK U : IsTree(book.limits, U, book.tree)
      BY <2>2 DEF TreeInv, GoodSide, Live
    <3> QED BY <3>1 DEF IsTree, NodeOK, Linked, Live, Dirs
  <2> QED BY <2>1, <2>2
<1>3. SearchTree
  <2> DEFINE s == all("Ask")
  <2>1. Lists("Ask", s, Live) /\ Live \subseteq Int
    BY <1>1 DEF Side
  <2> HIDE DEF s
  <2>2. /\ Len(s) \in Nat /\ Len(s) = Cardinality(Live)
        /\ \A i, j \in 1..Len(s) : i < j => s[i] < s[j]
    BY <2>1 DEF Lists, Outranks
  <2>3. \A i \in 1..Len(s)-1 : s[i] < s[i+1]
    <3> SUFFICES ASSUME NEW i \in 1..Len(s)-1 PROVE s[i] < s[i+1]
      OBVIOUS
    <3>1. i \in 1..Len(s) /\ i + 1 \in 1..Len(s) /\ i < i + 1
      BY <2>2
    <3> QED BY <2>2, <3>1
  <2> QED BY <1>2, <2>2, <2>3 DEF SearchTree, s
<1>4. BookEdgeIsBest
  <2>1. CASE Live = {}
    BY <2>1 DEF BookEdgeIsBest, BestOf, TreeInv, GoodSide, Live
  <2>2. CASE Live # {}
    <3>1. IsBest(bid_or_ask, Live, book.edge)
      BY <2>2 DEF TreeInv, GoodSide, Live
    <3>2. Live \subseteq Int
      BY <1>1 DEF TreeInv
    <3> QED BY <3>1, <3>2, BestIs DEF BookEdgeIsBest
  <2> QED BY <2>1, <2>2
<1>5. SnapshotIsTopN
  <2> SUFFICES ASSUME NEW n \in 1..Cardinality(Price)
               PROVE  LET top == TopLevels(book, bid_or_ask, n, FALSE)
                      IN  /\ Len(top) = IF Cardinality(Live) < n THEN Cardinality(Live) ELSE n
                          /\ \A i \in 1..Len(top) :
                               top[i] = BestOf(bid_or_ask, Live \ {top[j] : j \in 1..i-1})
    BY DEF SnapshotIsTopN
  <2> DEFINE s == all(bid_or_ask)
             k == IF Len(s) < n THEN Len(s) ELSE n
  <2>1. Lists(bid_or_ask, s, Live) /\ Live \subseteq Int
    BY <1>1 DEF TreeInv
  <2>2. TopLevels(book, bid_or_ask, n, FALSE) = SubSeq(s, 1, k)
    BY DEF TopLevels
  <2> HIDE DEF s
  <2>3. Len(s) \in Nat /\ Len(s) = Cardinality(Live)
    BY <2>1 DEF Lists
  <2>4. k \in 0..Len(s) /\ k = IF Cardinality(Live) < n THEN Cardinality(Live) ELSE n
    BY <2>3
  <2> HIDE DEF k
  <2> DEFINE top == SubSeq(s, 1, k)
  <2>5. IsTop(bid_or_ask, Live, top, k)
    BY <2>1, <2>4, ListIsTop
  <2> HIDE DEF top
  <2>6. TopLevels(book, bid_or_ask, n, FALSE) = top
    BY <2>2 DEF top
  <2>7. /\ Len(top) = IF Cardinality(Live) < n THEN Cardinality(Live) ELSE n
        /\ \A i \in 1..Len(top) : top[i] = BestOf(bid_or_ask, Live \ {top[j] : j \in 1..i-1})
    <3>1. /\ Len(top) = k
          /\ \A i \in 1..k : top[i] = BestOf(bid_or_ask, Live \ {top[j] : j \in 1..i-1})
      BY <2>5 DEF IsTop
    <3> QED BY <2>4, <3>1
  <2> QED BY <2>6, <2>7, Zenon
<1> QED BY <1>3, <1>4, <1>5

(* So a side stays in good order while its tree is bushy. *)
LEMMA TreeAlways == Spec /\ []BushyTree => []TreeInv
<1>1. Init => TreeInv
  BY TreeStart
<1>2. TreeInv /\ BushyTree /\ [Next]_vars => TreeInv'
  BY TreeStep
<1> QED BY <1>1, <1>2, PTL DEF Spec

-----------------------------------------------------------------------------
(* What Arena::add_limit and delete_limit make of the links is always a     *)
(* search tree of exactly the live levels: none is lost, doubled or put     *)
(* out of the order of the prices.                                          *)
THEOREM TreeStaysSearchTree == Spec /\ []BushyTree => []SearchTree
<1>1. TreeInv => SearchTree
  BY OrderIsRead
<1> QED BY <1>1, TreeAlways, PTL

(* highest_buy and lowest_sell follow the best level through every removal, *)
(* by the two steps of delete_limit that look at a child and a parent only. *)
THEOREM EdgeStaysBest == Spec /\ []BushyTree => []BookEdgeIsBest
<1>1. TreeInv => BookEdgeIsBest
  BY OrderIsRead
<1> QED BY <1>1, TreeAlways, PTL

(* The collectors of the snapshots list the n best levels, best first.      *)
THEOREM SnapshotStaysTopN == Spec /\ []BushyTree => []SnapshotIsTopN
<1>1. TreeInv => SnapshotIsTopN
  BY OrderIsRead
<1> QED BY <1>1, TreeAlways, PTL

-----------------------------------------------------------------------------
(* A balanced tree is bushy: an only child has a sibling of depth 0.        *)

DepthBelow(f, c) == IF c = NIL THEN 0 ELSE f[c]
DepthAt(f, m, p) == 1 + Larger(DepthBelow(f, m[p].left), DepthBelow(f, m[p].right))
AreDepths(f, m) == f = [p \in DOMAIN m |-> DepthAt(f, m, p)]

(* The recursion of Depth has a solution in a tree. *)
LEMMA DepthsExist ==
  ASSUME NEW m, NEW U, NEW root, IsTree(m, U, root)
  PROVE  \E f : AreDepths(f, m)
<1> DEFINE D == DOMAIN m
           N == Cardinality(D)
           Step(f) == [p \in D |-> DepthAt(f, m, p)]
           T == {n \in Nat : \E f : \A p \in D : Cardinality(U[p]) <= n => f[p] = DepthAt(f, m, p)}
<1>1. /\ N \in Nat
      /\ \A p \in D : Cardinality(U[p]) \in 1..N
      /\ \A p \in D, d \in Dirs : m[p][d] # NIL =>
           m[p][d] \in D /\ Cardinality(U[m[p][d]]) < Cardinality(U[p])
  BY Sizes
<1> HIDE DEF N
<1>2. 0 \in T
  BY <1>1
<1>3. ASSUME NEW n \in Nat, n \in T PROVE n + 1 \in T
  <2>1. PICK f : \A p \in D : Cardinality(U[p]) <= n => f[p] = DepthAt(f, m, p)
    BY <1>3
  <2>2. ASSUME NEW p \in D, Cardinality(U[p]) <= n + 1
        PROVE  Step(f)[p] = DepthAt(Step(f), m, p)
    <3>1. ASSUME NEW d \in Dirs PROVE DepthBelow(Step(f), m[p][d]) = DepthBelow(f, m[p][d])
      <4> DEFINE c == m[p][d]
      <4>1. c # NIL => c \in D /\ Cardinality(U[c]) <= n
        <5> SUFFICES ASSUME c # NIL PROVE c \in D /\ Cardinality(U[c]) <= n
          OBVIOUS
        <5>1. /\ c \in D /\ Cardinality(U[c]) < Cardinality(U[p])
              /\ Cardinality(U[c]) \in Int /\ Cardinality(U[p]) \in Int
          BY <1>1
        <5> HIDE DEF c
        <5> QED BY <2>2, <5>1
      <4>2. c # NIL => Step(f)[c] = f[c]
        BY <2>1, <4>1
      <4> HIDE DEF Step
      <4> QED BY <4>2 DEF DepthBelow
    <3>2. Step(f)[p] = DepthAt(f, m, p)
      OBVIOUS
    <3> HIDE DEF Step
    <3> QED BY <3>1, <3>2 DEF DepthAt, Dirs
  <2> HIDE DEF Step
  <2>3. \E f2 : \A p \in D : Cardinality(U[p]) <= n + 1 => f2[p] = DepthAt(f2, m, p)
    BY <2>2
  <2> QED BY <2>3
<1> HIDE DEF T
<1>4. Nat \subseteq T
  BY <1>2, <1>3, NatInductionOnSet
<1>5. PICK f : \A p \in D : Cardinality(U[p]) <= N => f[p] = DepthAt(f, m, p)
  BY <1>1, <1>4 DEF T
<1>6. \A p \in D : f[p] = DepthAt(f, m, p)
  BY <1>1, <1>5
<1> DEFINE g == [p \in D |-> f[p]]
<1>7. ASSUME NEW p \in D PROVE DepthAt(f, m, p) = DepthAt(g, m, p)
  <2>1. ASSUME NEW d \in Dirs PROVE DepthBelow(f, m[p][d]) = DepthBelow(g, m[p][d])
    BY <1>1 DEF DepthBelow
  <2> HIDE DEF g
  <2> QED BY <2>1 DEF DepthAt, Dirs
<1>8. AreDepths(g, m)
  BY <1>6, <1>7, Zenon DEF AreDepths
<1> QED BY <1>8

(* Depth solves it. *)
LEMMA DepthIsDepth ==
  ASSUME NEW U, NEW root, IsTree(book.limits, U, root)
  PROVE  \A p \in Live : Depth[p] = DepthAt(Depth, book.limits, p)
<1> DEFINE f == CHOOSE f : AreDepths(f, book.limits)
<1>1. AreDepths(f, book.limits)
  BY DepthsExist
<1>2. Depth = f
  BY DEF Depth, AreDepths, DepthAt, DepthBelow, Live
<1>3. AreDepths(Depth, book.limits)
  BY <1>1, <1>2
<1> QED BY <1>3, Zenon DEF AreDepths, Live

(* An only child of a balanced tree has depth 1. *)
LEMMA BalancedIsBushy ==
  ASSUME TreeInv, Balanced
  PROVE  BushyTree
<1>1. CASE Live = {}
  BY <1>1 DEF BushyTree, Bushy, Live
<1>2. CASE Live # {}
  <2> DEFINE m == book.limits
  <2>1. PICK U : IsTree(m, U, book.tree)
    BY <1>2 DEF TreeInv, GoodSide, Live
  <2>3. \A p \in Live : Depth[p] = DepthAt(Depth, m, p)
    BY <2>1, DepthIsDepth
  <2>4. \A p \in Live, d \in Dirs : m[p][d] # NIL => m[p][d] \in Live
    BY <2>1, Sizes DEF Live
  <2> DEFINE S == {p \in Live : Depth[p] \in Nat \ {0}}
  <2>5. ASSUME NEW p \in DOMAIN m, \A d \in Dirs : m[p][d] # NIL => m[p][d] \in S
        PROVE  p \in S
    <3>1. \A d \in Dirs : DepthBelow(Depth, m[p][d]) \in Nat
      BY <2>5 DEF DepthBelow
    <3>2. Depth[p] = DepthAt(Depth, m, p)
      BY <2>3 DEF Live
    <3>3. DepthAt(Depth, m, p) \in Nat \ {0}
      BY <3>1 DEF DepthAt, Larger, Dirs
    <3> QED BY <3>2, <3>3 DEF Live
  <2>6. Live \subseteq S
    <3> HIDE DEF S
    <3>1. DOMAIN m \subseteq S
      BY <2>1, <2>5, UpTheTree
    <3> QED BY <3>1 DEF Live
  <2>7. ASSUME NEW p \in Live, NEW d \in Dirs,
               m[p][Opposite(d)] = NIL, m[p][d] # NIL
        PROVE  \A e \in Dirs : m[m[p][d]][e] = NIL
    <3> DEFINE c == m[p][d]
               below(x) == DepthBelow(Depth, x)
    <3>1. below(m[p].left) - below(m[p].right) \in -1..1
      BY DEF Balanced, DepthBelow
    <3>2. c \in Live /\ Depth[c] \in Nat \ {0}
      BY <2>4, <2>6, <2>7
    <3>3. below(m[p][d]) = Depth[c] /\ below(m[p][Opposite(d)]) = 0
      BY <2>7 DEF DepthBelow
    <3>4. Depth[c] = 1
      <4>1. CASE d = "left"
        BY <3>1, <3>2, <3>3, <4>1 DEF Opposite
      <4>2. CASE d = "right"
        BY <3>1, <3>2, <3>3, <4>2 DEF Opposite
      <4> QED BY <4>1, <4>2 DEF Dirs
    <3> HIDE DEF c
    <3>5. Depth[c] = 1 + Larger(below(m[c].left), below(m[c].right))
      BY <2>3, <3>2 DEF DepthAt
    <3>6. ASSUME NEW e \in Dirs
          PROVE  below(m[c][e]) \in Nat /\ (below(m[c][e]) = 0 => m[c][e] = NIL)
      BY <2>4, <2>6, <3>2 DEF DepthBelow
    <3> HIDE DEF below
    <3>7. \A e \in Dirs : below(m[c][e]) = 0
      BY <3>4, <3>5, <3>6 DEF Larger, Dirs
    <3>8. \A e \in Dirs : m[c][e] = NIL
      BY <3>6, <3>7
    <3> QED BY <3>8 DEF c
  <2>8. ASSUME NEW p \in Live
        PROVE  /\ m[p].left = NIL /\ m[p].right # NIL =>
                    m[m[p].right].left = NIL /\ m[m[p].right].right = NIL
               /\ m[p].right = NIL /\ m[p].left # NIL =>
                    m[m[p].left].left = NIL /\ m[m[p].left].right = NIL
    BY <2>7 DEF Opposite, Dirs
  <2> HIDE DEF m
  <2>9. Bushy(m)
    BY <2>8 DEF Bushy, Live, m
  <2> QED BY <2>9 DEF BushyTree, m
<1> QED BY <1>1, <1>2

(* So the AVL balance condition is more than the tree needs: what holds of  *)
(* bushy trees holds of balanced ones.                                      *)
THEOREM BalanceIsEnough == Spec /\ []Balanced => []BushyTree
<1>1. Init => TreeInv
  BY TreeStart
<1>2. TreeInv /\ Balanced => BushyTree
  BY BalancedIsBushy
<1>3. TreeInv /\ BushyTree /\ [Next]_vars => TreeInv'
  BY TreeStep
<1> QED BY <1>1, <1>2, <1>3, PTL DEF Spec

-----------------------------------------------------------------------------
(* Heights. *)

(* The levels in S have the height their children give them, and children  *)
(* of nearly the same height.                                              *)
Sound(m, S) ==
  \A x \in S : m[x].height = Above(m, x) /\ BalanceFactor(m, x) \in -1..1

(* By how much the child on one side is higher than the other. *)
Lean(m, x, d) == Height(m, m[x][d]) - Height(m, m[x][Opposite(d)])

(* Height and balance of a level, seen from either side. *)
LEMMA EitherWay ==
  ASSUME NEW m, IsArena(m), NEW x, NEW d \in Dirs,
         \A e \in Dirs : m[x][e] \in DOMAIN m \cup {NIL}
  PROVE  /\ Height(m, m[x][d]) \in Nat /\ Height(m, m[x][Opposite(d)]) \in Nat
         /\ Lean(m, x, d) \in Int
         /\ Above(m, x) = 1 + Larger(Height(m, m[x][d]), Height(m, m[x][Opposite(d)]))
         /\ BalanceFactor(m, x) = IF d = "left" THEN Lean(m, x, d) ELSE - Lean(m, x, d)
<1>1. \A e \in Dirs : Height(m, m[x][e]) \in Nat
  BY HeightIsNat
<1>2. CASE d = "left"
  <2>1. Opposite(d) = "right"
    BY <1>2 DEF Opposite
  <2> QED BY <1>1, <1>2, <2>1 DEF Dirs, Lean, Above, BalanceFactor, Larger
<1>3. CASE d = "right"
  <2>1. Opposite(d) = "left"
    BY <1>3 DEF Opposite
  <2> QED BY <1>1, <1>3, <2>1 DEF Dirs, Lean, Above, BalanceFactor, Larger
<1> QED BY <1>2, <1>3 DEF Dirs

(* Levels whose children are the same, at the same heights. *)
LEMMA SoundKept ==
  ASSUME NEW m, NEW m2, NEW S, Sound(m, S),
         \A x \in S : m2[x].height = m[x].height,
         \A x \in S, d \in Dirs : /\ m2[x][d] = m[x][d]
                                  /\ m[x][d] # NIL => m2[m[x][d]].height = m[m[x][d]].height
  PROVE  Sound(m2, S)
<1> SUFFICES ASSUME NEW x \in S
             PROVE  m2[x].height = Above(m2, x) /\ BalanceFactor(m2, x) \in -1..1
  BY DEF Sound
<1>1. \A d \in Dirs : m2[x][d] = m[x][d] /\ Height(m2, m[x][d]) = Height(m, m[x][d])
  BY DEF Height
<1>2. Above(m2, x) = Above(m, x)
  BY <1>1, AboveKept
<1>3. BalanceFactor(m2, x) = BalanceFactor(m, x)
  BY <1>1 DEF BalanceFactor, Dirs
<1> QED BY <1>2, <1>3 DEF Sound

(* Nothing below p has p, or a child of p, as its child, unless it is p.    *)
LEMMA ChildrenBelow ==
  ASSUME NEW m, NEW U, NEW root, IsTree(m, U, root), NEW p \in DOMAIN m,
         NEW x \in U[p], NEW d \in Dirs, m[x][d] # NIL
  PROVE  /\ x \in DOMAIN m /\ m[x][d] \in DOMAIN m \ {p} /\ m[x][d] \in U[p] \ {p}
         /\ m[m[x][d]].parent = x
<1>1. x \in DOMAIN m /\ U[x] \subseteq U[p]
  BY Nested, NodeFacts
<1>2. m[x][d] \in DOMAIN m /\ m[m[x][d]].parent = x /\ m[x][d] \in U[m[x][d]]
      /\ U[m[x][d]] \subseteq U[x] \ {x}
  BY <1>1, NodeFacts
<1>3. m[x][d] # p
  BY <1>1, <1>2
<1> QED BY <1>1, <1>2, <1>3

(* One rotation mends a limit whose higher child leans the same way. *)
LEMMA SingleSound ==
  ASSUME NEW m, NEW U, NEW root, IsTree(m, U, root), IsArena(m),
         NEW p \in DOMAIN m, NEW near \in Dirs, m[p][near] # NIL,
         NEW m2, IsRotation(m, m2, p, near), Sound(m, U[p] \ {p}),
         Lean(m, p, near) = 2, Lean(m, m[p][near], near) > 0
  PROVE  Sound(m2, U[p]) /\ m2[m[p][near]].height = m[m[p][near]].height
<1> DEFINE D == DOMAIN m
           far == Opposite(near)
           up == m[p][near]
           inner == m[up][far]
           outer == m[up][near]
           fc == m[p][far]
           Free == (D \cup {NIL}) \ {p, up}
<1>1. far \in Dirs /\ near # far /\ Dirs = {near, far}
  BY DEF Opposite, Dirs
<1>2. /\ NIL \notin D /\ p \in U[p] /\ U[p] \subseteq D
      /\ up \in D \ {p} /\ up \in U[p] \ {p} /\ m[up].parent = p
  BY NodeFacts
<1>3. \A x \in U[p] \ {p, up}, d \in Dirs : m[x][d] \in Free
  <2> SUFFICES ASSUME NEW x \in U[p] \ {p, up}, NEW d \in Dirs, m[x][d] # NIL PROVE m[x][d] \in Free
    BY <1>2
  <2>1. m[x][d] \in D \ {p} /\ m[m[x][d]].parent = x
    BY ChildrenBelow
  <2> QED BY <1>2, <2>1
<1>4. inner \in Free /\ outer \in Free
  <2> SUFFICES ASSUME NEW d \in Dirs PROVE m[up][d] \in Free
    BY <1>1
  <2> HIDE DEF up
  <2>1. m[up][d] # NIL => m[up][d] \in D \ {p} /\ m[m[up][d]].parent = up
    BY <1>2, ChildrenBelow
  <2> QED BY <1>2, <2>1
<1>5. fc \in Free
  <2>1. fc # NIL => fc \in D \ {p} /\ Toward(fc, p) = far
    BY <1>1, NodeFacts
  <2>2. Toward(up, p) = near
    BY NodeFacts
  <2> QED BY <1>1, <1>2, <2>1, <2>2
<1>6. /\ IsArena(m2) /\ DOMAIN m2 = D
      /\ m2[p][near] = inner /\ m2[p][far] = fc /\ m2[up][near] = outer /\ m2[up][far] = p
      /\ m2[p].height = Above(m2, p) /\ m2[up].height = Above(m2, up)
      /\ \A x \in D \ {p, up} : m2[x].left = m[x].left /\ m2[x].right = m[x].right /\ m2[x].height = m[x].height
  BY DEF IsRotation, KeepsRest
<1> HIDE DEF inner, outer, fc, up, far
<1>7. \A c \in Free : Height(m2, c) = Height(m, c) /\ Height(m, c) \in Nat
  <2>1. \A c \in Free : Height(m, c) \in Nat
    BY HeightIsNat
  <2> QED BY <1>6, <2>1 DEF Height
<1> DEFINE h == Height(m, fc)
<1>8. Height(m, outer) = h + 1 /\ Height(m, inner) = h /\ m[up].height = h + 2 /\ h \in Nat
  <2>1. Above(m, up) = 1 + Larger(Height(m, outer), Height(m, inner)) /\ Lean(m, up, near) = Height(m, outer) - Height(m, inner)
        /\ (BalanceFactor(m, up) = Lean(m, up, near) \/ BalanceFactor(m, up) = - Lean(m, up, near))
    <3>1. \A e \in Dirs : m[up][e] \in DOMAIN m \cup {NIL}
      BY <1>1, <1>4 DEF inner, outer
    <3> QED BY <3>1, EitherWay DEF inner, outer, far, Lean
  <2>2. m[up].height = Above(m, up) /\ BalanceFactor(m, up) \in -1..1
    BY <1>2 DEF Sound
  <2>3. m[up].height - h = 2
    <3>1. Height(m, up) = m[up].height
      BY <1>2 DEF Height
    <3> QED BY <3>1 DEF Lean, up, fc, far
  <2>4. Height(m, outer) \in Nat /\ Height(m, inner) \in Nat /\ h \in Nat
    BY <1>4, <1>5, <1>7
  <2>5. Lean(m, up, near) > 0
    BY DEF up
  <2> HIDE DEF h
  <2>6. Height(m, outer) - Height(m, inner) = 1
    BY <2>1, <2>2, <2>4, <2>5
  <2>7. m[up].height = 1 + Height(m, outer)
    BY <2>1, <2>2, <2>4, <2>6 DEF Larger
  <2> QED BY <2>3, <2>4, <2>6, <2>7
<1>9. m2[p].height = h + 1 /\ BalanceFactor(m2, p) \in -1..1
  <2>1. \A e \in Dirs : m2[p][e] \in DOMAIN m2 \cup {NIL}
    BY <1>1, <1>4, <1>5, <1>6
  <2>2. /\ Above(m2, p) = 1 + Larger(Height(m2, inner), Height(m2, fc))
        /\ Lean(m2, p, near) = Height(m2, inner) - Height(m2, fc)
        /\ (BalanceFactor(m2, p) = Lean(m2, p, near) \/ BalanceFactor(m2, p) = - Lean(m2, p, near))
    BY <1>6, <2>1, EitherWay DEF far, Lean
  <2> QED BY <1>4, <1>5, <1>6, <1>7, <1>8, <2>2 DEF Larger
<1>10. m2[up].height = h + 2 /\ BalanceFactor(m2, up) \in -1..1
  <2>1. \A e \in Dirs : m2[up][e] \in DOMAIN m2 \cup {NIL}
    BY <1>1, <1>4, <1>6
  <2>2. /\ Above(m2, up) = 1 + Larger(Height(m2, outer), Height(m2, p))
        /\ Lean(m2, up, near) = Height(m2, outer) - Height(m2, p)
        /\ (BalanceFactor(m2, up) = Lean(m2, up, near) \/ BalanceFactor(m2, up) = - Lean(m2, up, near))
    BY <1>6, <2>1, EitherWay DEF far, Lean
  <2>3. Height(m2, p) = h + 1
    BY <1>2, <1>9 DEF Height
  <2> QED BY <1>4, <1>6, <1>7, <1>8, <2>2, <2>3 DEF Larger
<1>11. Sound(m2, U[p] \ {p, up})
  <2> DEFINE S == U[p] \ {p, up}
  <2>1. Sound(m, S)
    BY DEF Sound
  <2>2. \A x \in S : m2[x].height = m[x].height
    BY <1>2, <1>6
  <2>3. \A x \in S, d \in Dirs : /\ m2[x][d] = m[x][d]
                                 /\ m[x][d] # NIL => m2[m[x][d]].height = m[m[x][d]].height
    BY <1>2, <1>3, <1>6 DEF Dirs
  <2> QED BY <2>1, <2>2, <2>3, SoundKept
<1>12. Sound(m2, U[p])
  BY <1>6, <1>9, <1>10, <1>11 DEF Sound
<1> QED BY <1>8, <1>10, <1>12 DEF up

(* Two rotations mend a limit whose higher child leans the other way. *)
LEMMA DoubleSound ==
  ASSUME NEW m, NEW U, NEW root, IsTree(m, U, root), IsArena(m),
         NEW p \in DOMAIN m, NEW near \in Dirs, m[p][near] # NIL,
         m[m[p][near]][Opposite(near)] # NIL,
         NEW m2, IsDoubleRotation(m, m2, p, near), Sound(m, U[p] \ {p}),
         Lean(m, p, near) = 2, Lean(m, m[p][near], near) < 0
  PROVE  /\ Sound(m2, U[p])
         /\ m2[m[m[p][near]][Opposite(near)]].height = m[m[p][near]].height
<1> DEFINE far == Opposite(near)
           child == m[p][near]
           grand == m[child][far]
<1> SUFFICES Sound(m2, U[p]) /\ m2[grand].height = m[child].height
  OBVIOUS
<1> PICK m1, mr : /\ IsRotation(m, m1, child, far) /\ IsPut(m1, mr, p, near, grand)
                  /\ IsRotation(mr, m2, p, near)
  BY DEF IsDoubleRotation
<1> /\ far = Opposite(near) /\ child = m[p][near] /\ child # NIL
    /\ grand = m[child][far] /\ grand # NIL /\ Lean(m, child, near) < 0
  OBVIOUS
<1> HIDE DEF far, child, grand
<1> DEFINE D == DOMAIN m
           a == m[grand][near]
           b == m[grand][far]
           oc == m[child][near]
           fc == m[p][far]
           Free == (D \cup {NIL}) \ {p, child, grand}
<1>1. far \in Dirs /\ near # far /\ Dirs = {near, far} /\ Opposite(far) = near
  BY DEF Opposite, Dirs
<1>2. /\ NIL \notin D /\ p \in U[p] /\ U[p] \subseteq D
      /\ child \in D \ {p} /\ child \in U[p] \ {p} /\ m[child].parent = p
  BY NodeFacts
<1>3. grand \in D \ {p, child} /\ grand \in U[p] \ {p, child} /\ m[grand].parent = child
  <2> DEFINE c == child
  <2>1. c \in U[p] /\ c \in D /\ m[c][far] # NIL
    BY <1>2
  <2> HIDE DEF c
  <2>2. m[c][far] \in D \ {p} /\ m[c][far] \in U[p] \ {p} /\ m[m[c][far]].parent = c
    BY <1>1, <2>1, ChildrenBelow
  <2>3. m[c][far] # c
    BY <1>1, <2>1, NodeFacts
  <2> QED BY <2>2, <2>3 DEF c
<1>4. ASSUME NEW x \in U[p] \ {p, child}, NEW d \in Dirs
      PROVE  m[x][d] \in Free
  <2> SUFFICES ASSUME m[x][d] # NIL PROVE m[x][d] \in Free
    BY <1>2, <1>3
  <2>1. m[x][d] \in D \ {p} /\ m[m[x][d]].parent = x
    BY ChildrenBelow
  <2> QED BY <1>2, <1>3, <2>1
<1>5. a \in Free /\ b \in Free
  BY <1>1, <1>3, <1>4
<1>6. fc \in Free
  <2>1. fc # NIL => fc \in D \ {p} /\ Toward(fc, p) = far /\ m[fc].parent = p
    BY <1>1, NodeFacts
  <2>2. Toward(child, p) = near
    BY NodeFacts
  <2> QED BY <1>1, <1>2, <1>3, <2>1, <2>2
<1>7. oc \in Free
  <2>1. oc # NIL => oc \in D \ {p, child} /\ Toward(oc, child) = near
    BY <1>2, NodeFacts, ChildrenBelow
  <2>2. Toward(grand, child) = far
    BY <1>1, <1>2, NodeFacts
  <2> QED BY <1>1, <1>2, <1>3, <2>1, <2>2
<1>8. /\ IsArena(m1) /\ DOMAIN m1 = D
      /\ m1[child][far] = a /\ m1[child][near] = oc /\ m1[grand][far] = b /\ m1[grand][near] = child
      /\ m1[child].height = Above(m1, child)
      /\ \A x \in D \ {child, grand} : m1[x].left = m[x].left /\ m1[x].right = m[x].right /\ m1[x].height = m[x].height
  <2>1. IsRotation(m, m1, child, far) /\ Opposite(far) = near /\ m[child][far] = grand
    BY <1>1
  <2> QED BY <2>1 DEF IsRotation, KeepsRest
<1>9. /\ IsArena(mr) /\ DOMAIN mr = D /\ mr[p][near] = grand
      /\ \A x \in D \ {p} : mr[x].left = m1[x].left /\ mr[x].right = m1[x].right /\ mr[x].height = m1[x].height
      /\ mr[p][far] = fc
  <2>1. IsPut(m1, mr, p, near, grand) /\ near \in Fields /\ far \in Fields /\ near # far /\ Dirs \subseteq Fields
        /\ "height" \in Fields
    BY <1>1 DEF Fields, Dirs
  <2>2. DOMAIN mr = D /\ IsArena(mr) /\ \A q \in D, g \in Fields : mr[q][g] = IF q = p /\ g = near THEN grand ELSE m1[q][g]
    BY <1>8, <2>1 DEF IsPut, KeepsRest
  <2>3. m1[p][far] = fc
    BY <1>1, <1>2, <1>3, <1>8 DEF Dirs
  <2>4. \A x \in D \ {p} : mr[x].left = m1[x].left /\ mr[x].right = m1[x].right /\ mr[x].height = m1[x].height
    BY <2>1, <2>2 DEF Dirs
  <2>5. mr[p][near] = grand /\ mr[p][far] = m1[p][far]
    BY <2>1, <2>2
  <2> QED BY <2>2, <2>3, <2>4, <2>5
<1>10. /\ IsArena(m2) /\ DOMAIN m2 = D
       /\ m2[p][near] = b /\ m2[p][far] = fc /\ m2[grand][near] = child /\ m2[grand][far] = p
       /\ m2[p].height = Above(m2, p) /\ m2[grand].height = Above(m2, grand)
       /\ \A x \in D \ {p, grand} : m2[x].left = mr[x].left /\ m2[x].right = mr[x].right /\ m2[x].height = mr[x].height
  <2>1. mr[grand][near] = child /\ mr[grand][far] = b
    BY <1>1, <1>2, <1>3, <1>8, <1>9 DEF Dirs
  <2> HIDE DEF a, b, oc, fc
  <2>2. mr[p][near] = grand /\ Opposite(near) = far
    BY <1>9
  <2>3. /\ IsArena(m2) /\ DOMAIN m2 = DOMAIN mr
        /\ m2[p][near] = mr[grand][far] /\ m2[p][far] = mr[p][far]
        /\ m2[grand][near] = mr[grand][near] /\ m2[grand][far] = p
        /\ m2[p].height = Above(m2, p) /\ m2[grand].height = Above(m2, grand)
        /\ \A x \in DOMAIN mr \ {p, grand} :
             m2[x].left = mr[x].left /\ m2[x].right = mr[x].right /\ m2[x].height = mr[x].height
    BY <2>2 DEF IsRotation, KeepsRest
  <2> QED BY <1>9, <2>1, <2>3
<1>11. /\ m2[child][far] = a /\ m2[child][near] = oc /\ m2[child].height = Above(m1, child)
       /\ \A x \in D \ {p, child, grand} : m2[x].left = m[x].left /\ m2[x].right = m[x].right /\ m2[x].height = m[x].height
  BY <1>1, <1>2, <1>3, <1>8, <1>9, <1>10 DEF Dirs
<1> HIDE DEF a, b, oc, fc
<1>12. \A c \in Free : Height(m2, c) = Height(m, c) /\ Height(m1, c) = Height(m, c) /\ Height(m, c) \in Nat
  <2>1. \A c \in Free : Height(m, c) \in Nat
    BY HeightIsNat
  <2> QED BY <1>8, <1>11, <2>1 DEF Height
<1> DEFINE h == Height(m, fc)
<1>13. /\ Height(m, oc) = h /\ Height(m, grand) = h + 1 /\ m[child].height = h + 2 /\ h \in Nat
  <2>1. Above(m, child) = 1 + Larger(Height(m, oc), Height(m, grand)) /\ Lean(m, child, near) = Height(m, oc) - Height(m, grand)
        /\ (BalanceFactor(m, child) = Lean(m, child, near) \/ BalanceFactor(m, child) = - Lean(m, child, near))
    <3>1. \A e \in Dirs : m[child][e] \in DOMAIN m \cup {NIL}
      BY <1>1, <1>3, <1>7 DEF oc
    <3> QED BY <3>1, EitherWay DEF oc, Lean
  <2>2. m[child].height = Above(m, child) /\ BalanceFactor(m, child) \in -1..1
    BY <1>2 DEF Sound
  <2>3. m[child].height - h = 2
    <3>1. Height(m, child) = m[child].height
      BY <1>2 DEF Height
    <3> QED BY <3>1 DEF Lean, fc
  <2>4. Height(m, oc) \in Nat /\ Height(m, grand) \in Nat /\ h \in Nat
    BY <1>3, <1>6, <1>7, <1>12, HeightIsNat
  <2>5. Lean(m, child, near) < 0
    OBVIOUS
  <2> HIDE DEF h
  <2>6. Height(m, grand) - Height(m, oc) = 1
    BY <2>1, <2>2, <2>4, <2>5
  <2>7. m[child].height = 1 + Height(m, grand)
    BY <2>1, <2>2, <2>4, <2>6 DEF Larger
  <2> QED BY <2>3, <2>4, <2>6, <2>7
<1>14. Larger(Height(m, a), Height(m, b)) = h /\ Height(m, a) - Height(m, b) \in -1..1
  <2>1. Above(m, grand) = 1 + Larger(Height(m, a), Height(m, b)) /\ Lean(m, grand, near) = Height(m, a) - Height(m, b)
        /\ (BalanceFactor(m, grand) = Lean(m, grand, near) \/ BalanceFactor(m, grand) = - Lean(m, grand, near))
    <3>1. \A e \in Dirs : m[grand][e] \in DOMAIN m \cup {NIL}
      BY <1>1, <1>5 DEF a, b
    <3> QED BY <3>1, EitherWay DEF a, b, Lean
  <2>2. m[grand].height = Above(m, grand) /\ BalanceFactor(m, grand) \in -1..1
    BY <1>3 DEF Sound
  <2>3. m[grand].height = h + 1
    BY <1>3, <1>13 DEF Height
  <2>4. Height(m, a) \in Nat /\ Height(m, b) \in Nat
    BY <1>5, <1>12
  <2> HIDE DEF h
  <2> QED BY <1>13, <2>1, <2>2, <2>3, <2>4 DEF Larger
<1>15. /\ Height(m, a) \in Nat /\ Height(m, b) \in Nat /\ h \in Nat /\ Height(m, oc) = h
       /\ Height(m, a) <= h /\ Height(m, a) >= h - 1
       /\ Height(m, b) <= h /\ Height(m, b) >= h - 1
  <2>1. Height(m, a) \in Nat /\ Height(m, b) \in Nat
    BY <1>5, <1>12
  <2> HIDE DEF h
  <2> QED BY <1>13, <1>14, <2>1 DEF Larger
<1> HIDE DEF h
<1>16. m2[child].height = h + 1 /\ m2[child].height = Above(m2, child) /\ BalanceFactor(m2, child) \in -1..1
  <2>1. \A e \in Dirs : m2[child][e] \in DOMAIN m2 \cup {NIL} /\ m1[child][e] \in DOMAIN m1 \cup {NIL}
    BY <1>1, <1>5, <1>7, <1>8, <1>10, <1>11
  <2>2. /\ Above(m2, child) = 1 + Larger(Height(m2, oc), Height(m2, a))
        /\ Lean(m2, child, near) = Height(m2, oc) - Height(m2, a)
        /\ (BalanceFactor(m2, child) = Lean(m2, child, near) \/ BalanceFactor(m2, child) = - Lean(m2, child, near))
    BY <1>10, <1>11, <2>1, EitherWay DEF Lean
  <2>3. Above(m1, child) = 1 + Larger(Height(m1, oc), Height(m1, a))
    BY <1>8, <2>1, EitherWay
  <2>4. /\ Height(m2, oc) = Height(m, oc) /\ Height(m1, oc) = Height(m, oc)
        /\ Height(m2, a) = Height(m, a) /\ Height(m1, a) = Height(m, a)
    BY <1>5, <1>7, <1>12
  <2>5. Above(m1, child) = h + 1 /\ Above(m2, child) = h + 1
    BY <1>15, <2>2, <2>3, <2>4 DEF Larger
  <2> QED BY <1>11, <1>15, <2>2, <2>4, <2>5
<1>17. m2[p].height = h + 1 /\ BalanceFactor(m2, p) \in -1..1
  <2>1. \A e \in Dirs : m2[p][e] \in DOMAIN m2 \cup {NIL}
    BY <1>1, <1>5, <1>6, <1>10
  <2>2. /\ Above(m2, p) = 1 + Larger(Height(m2, b), Height(m2, fc))
        /\ Lean(m2, p, near) = Height(m2, b) - Height(m2, fc)
        /\ (BalanceFactor(m2, p) = Lean(m2, p, near) \/ BalanceFactor(m2, p) = - Lean(m2, p, near))
    BY <1>10, <2>1, EitherWay DEF Lean
  <2>3. Height(m2, fc) = h /\ Height(m2, b) = Height(m, b)
    BY <1>5, <1>6, <1>12 DEF h
  <2> QED BY <1>10, <1>15, <2>2, <2>3 DEF Larger
<1>18. m2[grand].height = h + 2 /\ BalanceFactor(m2, grand) \in -1..1
  <2>1. \A e \in Dirs : m2[grand][e] \in DOMAIN m2 \cup {NIL}
    BY <1>1, <1>2, <1>10
  <2>2. /\ Above(m2, grand) = 1 + Larger(Height(m2, child), Height(m2, p))
        /\ Lean(m2, grand, near) = Height(m2, child) - Height(m2, p)
        /\ (BalanceFactor(m2, grand) = Lean(m2, grand, near) \/ BalanceFactor(m2, grand) = - Lean(m2, grand, near))
    BY <1>10, <2>1, EitherWay DEF Lean
  <2>3. Height(m2, child) = h + 1 /\ Height(m2, p) = h + 1
    BY <1>2, <1>16, <1>17 DEF Height
  <2> QED BY <1>10, <1>15, <2>2, <2>3 DEF Larger
<1>19. Sound(m2, U[p] \ {p, child, grand})
  <2> DEFINE S == U[p] \ {p, child, grand}
  <2>1. Sound(m, S)
    BY DEF Sound
  <2>2. \A x \in S : m2[x].height = m[x].height
    BY <1>2, <1>11
  <2>3. \A x \in S, d \in Dirs : /\ m2[x][d] = m[x][d]
                                 /\ m[x][d] # NIL => m2[m[x][d]].height = m[m[x][d]].height
    BY <1>2, <1>4, <1>11 DEF Dirs
  <2> QED BY <2>1, <2>2, <2>3, SoundKept
<1>20. Sound(m2, U[p])
  BY <1>10, <1>16, <1>17, <1>18, <1>19 DEF Sound
<1> QED BY <1>13, <1>18, <1>20

(* balance_tree mends a limit that leans by two, unless its higher child    *)
(* does not lean: then a rotation would not lower the subtree.              *)
LEMMA BalanceSettles ==
  ASSUME NEW t, IsState(t), IsArena(t.m), NEW U, NEW root, IsTree(t.m, U, root),
         NEW p \in DOMAIN t.m, Sound(t.m, U[p] \ {p}), t.m[p].height = Above(t.m, p),
         BalanceFactor(t.m, p) \in -2..2,
         \A d \in Dirs : Lean(t.m, p, d) = 2 => Lean(t.m, t.m[p][d], d) # 0
  PROVE  LET r  == BalanceTree(t, p)
             bf == BalanceFactor(t.m, p)
         IN  /\ Sound(r.m, U[p])
             /\ bf \in -1..1 => r.m = t.m /\ r.top = p /\ r.rot = t.rot
             /\ bf \notin -1..1 => r.m[r.top].height = t.m[p].height - 1 /\ r.rot = t.rot + 1
<1> DEFINE m == t.m
           bf == BalanceFactor(m, p)
           left == m[p].left
           right == m[p].right
           counted(r) == [r EXCEPT !.rot = @ + 1]
           Mends(r) == /\ Sound(r.m, U[p])
                       /\ r.m[r.top].height = m[p].height - 1
                       /\ r.rot = t.rot + 1
<1>1. \A q \in DOMAIN m, d \in Dirs : m[q][d] \in DOMAIN m \cup {NIL}
  BY NodeFacts
<1>2. NIL \notin DOMAIN m
  BY NodeFacts DEF Dirs
<1>3. ASSUME NEW r, IsState(r)
      PROVE  counted(r).m = r.m /\ counted(r).top = r.top /\ counted(r).rot = r.rot + 1
  BY <1>3 DEF IsState
<1>4. ASSUME NEW near \in Dirs, Lean(m, p, near) = 2, NEW single \in BOOLEAN,
             single <=> Lean(m, m[p][near], near) >= 0
      PROVE  Mends(counted(IF single THEN Rotate(t, p, near) ELSE DoubleRotate(t, p, near)))
  <2> DEFINE far == Opposite(near)
             child == m[p][near]
  <2>1. /\ Height(m, child) \in Nat /\ Height(m, m[p][far]) \in Nat
        /\ Above(m, p) = 1 + Larger(Height(m, child), Height(m, m[p][far]))
        /\ Height(m, child) - Height(m, m[p][far]) = 2
    BY <1>1, <1>4, EitherWay DEF Lean
  <2>2. child # NIL
    BY <2>1 DEF Height
  <2>3. child \in DOMAIN m /\ m[p].height = 1 + m[child].height /\ m[child].height \in Nat
    <3>1. child \in DOMAIN m
      BY <1>1, <2>2
    <3>2. Height(m, child) = m[child].height
      BY <2>2 DEF Height
    <3> QED BY <2>1, <3>1, <3>2 DEF Larger
  <2>4. Lean(m, child, near) \in Int /\ Lean(m, child, near) # 0
        /\ Height(m, m[child][near]) \in Nat
        /\ Lean(m, child, near) = Height(m, m[child][near]) - Height(m, m[child][far])
    BY <1>1, <1>4, <2>3, EitherWay DEF Lean
  <2> HIDE DEF counted
  <2>5. CASE single
    <3> DEFINE r == Rotate(t, p, near)
    <3>1. IsState(r) /\ IsRotation(m, r.m, p, near) /\ r.top = child /\ r.rot = t.rot
      BY <2>2, RotateTurns
    <3> HIDE DEF r
    <3>2. Lean(m, child, near) > 0
      BY <1>4, <2>4, <2>5
    <3>3. Sound(r.m, U[p]) /\ r.m[child].height = m[child].height
      BY <1>4, <2>2, <3>1, <3>2, SingleSound
    <3> QED BY <1>3, <2>3, <2>5, <3>1, <3>3 DEF r
  <2>6. CASE ~ single
    <3> DEFINE r == DoubleRotate(t, p, near)
               grand == m[child][far]
    <3>1. Lean(m, child, near) < 0
      BY <1>4, <2>4, <2>6
    <3>2. grand # NIL
      <4> DEFINE x == Height(m, m[child][near])
      <4>1. x - Height(m, grand) < 0 /\ x \in Nat
        BY <2>4, <3>1
      <4> HIDE DEF x, grand
      <4>2. grand = NIL => Height(m, grand) = 0
        BY DEF Height
      <4> QED BY <4>1, <4>2
    <3>3. /\ r.top = grand /\ r.rot = t.rot /\ IsState(r)
          /\ IsDoubleRotation(m, r.m, p, near)
      <4>1. /\ \E V : Rebuilt(t, r, U, V, root, p)
            /\ IsDoubleRotation(m, r.m, p, near) /\ r.top = grand /\ r.rot = t.rot
        BY <2>2, <3>2, DoubleRotateRebuilds
      <4> HIDE DEF r
      <4> QED BY <4>1 DEF Rebuilt
    <3> HIDE DEF r
    <3>4. Sound(r.m, U[p]) /\ r.m[grand].height = m[child].height
      BY <1>4, <2>2, <3>1, <3>2, <3>3, DoubleSound
    <3> QED BY <1>3, <2>3, <2>6, <3>3, <3>4 DEF r
  <2> QED BY <1>4, <2>5, <2>6
<1>5. /\ Lean(m, p, "left") = bf /\ Lean(m, p, "right") = - bf /\ bf \in Int
      /\ \A q \in DOMAIN m : /\ Lean(m, q, "left") = BalanceFactor(m, q) /\ BalanceFactor(m, q) \in Int
                             /\ Lean(m, q, "right") = - BalanceFactor(m, q)
  <2>1. \A q \in DOMAIN m : /\ Lean(m, q, "left") = BalanceFactor(m, q) /\ BalanceFactor(m, q) \in Int
                            /\ Lean(m, q, "right") = - BalanceFactor(m, q)
    <3> SUFFICES ASSUME NEW q \in DOMAIN m
                 PROVE  /\ Lean(m, q, "left") = BalanceFactor(m, q) /\ BalanceFactor(m, q) \in Int
                        /\ Lean(m, q, "right") = - BalanceFactor(m, q)
      OBVIOUS
    <3>1. /\ Lean(m, q, "left") \in Int /\ BalanceFactor(m, q) = Lean(m, q, "left")
      BY <1>1, EitherWay DEF Dirs
    <3>2. /\ Lean(m, q, "right") \in Int /\ BalanceFactor(m, q) = - Lean(m, q, "right")
      BY <1>1, EitherWay DEF Dirs
    <3> QED BY <3>1, <3>2
  <2> QED BY <2>1
<1>6. bf # 0 => p \in DOMAIN m
  OBVIOUS
<1>7. CASE bf = 2
  <2> DEFINE single == BalanceFactor(m, left) >= 0
  <2>1. left \in DOMAIN m
    <3>1. left # NIL
      BY <1>1, <1>7, HeightIsNat DEF BalanceFactor, Height, Dirs
    <3> QED BY <1>1, <3>1 DEF Dirs
  <2>2. BalanceTree(t, p) = counted(IF single THEN Rotate(t, p, "left") ELSE DoubleRotate(t, p, "left"))
    BY <1>7 DEF BalanceTree
  <2>3. "left" \in Dirs /\ single \in BOOLEAN /\ Lean(m, p, "left") = 2
        /\ (single <=> Lean(m, m[p]["left"], "left") >= 0)
    BY <1>5, <1>7, <2>1 DEF Dirs
  <2> HIDE DEF counted, single
  <2>4. Mends(BalanceTree(t, p))
    BY <1>4, <2>2, <2>3
  <2> QED BY <1>7, <2>4
<1>8. CASE bf = -2
  <2> DEFINE single == BalanceFactor(m, right) <= 0
  <2>1. right \in DOMAIN m
    <3>1. right # NIL
      BY <1>1, <1>8, HeightIsNat DEF BalanceFactor, Height, Dirs
    <3> QED BY <1>1, <3>1 DEF Dirs
  <2>2. BalanceTree(t, p) = counted(IF single THEN Rotate(t, p, "right") ELSE DoubleRotate(t, p, "right"))
    BY <1>8 DEF BalanceTree
  <2>3. "right" \in Dirs /\ single \in BOOLEAN /\ Lean(m, p, "right") = 2
        /\ (single <=> Lean(m, m[p]["right"], "right") >= 0)
    BY <1>5, <1>8, <2>1 DEF Dirs
  <2> HIDE DEF counted, single
  <2>4. Mends(BalanceTree(t, p))
    BY <1>4, <2>2, <2>3
  <2> QED BY <1>8, <2>4
<1>9. CASE bf \in -1..1
  <2> DEFINE r == [t EXCEPT !.top = p]
  <2>1. BalanceTree(t, p) = r
    BY <1>9 DEF BalanceTree
  <2>2. r.m = m /\ r.top = p /\ r.rot = t.rot
    BY DEF IsState
  <2> HIDE DEF r
  <2>3. Sound(m, U[p])
    BY <1>9 DEF Sound
  <2> QED BY <1>9, <2>1, <2>2, <2>3
<1> QED BY <1>5, <1>7, <1>8, <1>9

-----------------------------------------------------------------------------
(* Heights along an insertion. *)

(* The subtree of t.top, with the levels S, was h0 high before p came into  *)
(* it.  It has grown by one level at most, and then it leans, unless it is  *)
(* p alone; a rotation has taken the growth back.                           *)
Inserted(t, S, h0) ==
  /\ Sound(t.m, S) /\ t.rot \in 0..1
  /\ t.m[t.top].height \in {h0, h0 + 1}
  /\ t.rot = 1 => t.m[t.top].height = h0
  /\ t.m[t.top].height = h0 + 1 => h0 = 0 \/ BalanceFactor(t.m, t.top) # 0

(* One step of an insertion on its way back up: at most one of the steps    *)
(* finds a limit that leans by two, and that one has a child that leans.    *)
LEMMA UnwindSound ==
  ASSUME NEW p, NEW q, NEW t, IsState(t), t.rot \in 0..1,
         NEW m1, m1 = Joined(t, p, q), IsArena(m1), q \in DOMAIN m1,
         NEW V, NEW root, IsTree(m1, V, root), Sound(m1, V[q] \ {q}),
         NEW hc \in Nat, NEW hf, hf = Height(m1, m1[q][Opposite(Toward(p, q))]),
         hc - hf \in -1..1, m1[q][Toward(p, q)] = t.top, t.top # NIL,
         m1[t.top].height \in {hc, hc + 1},
         t.rot = 1 => m1[t.top].height = hc,
         m1[t.top].height = hc + 1 => hc = 0 \/ BalanceFactor(m1, t.top) # 0
  PROVE  Inserted(Unwind(p, q, t), V[q], 1 + Larger(hc, hf))
<1> DEFINE near == Toward(p, q)
           far == Opposite(near)
           m2 == SetHeight(m1, q)
           t2 == [m |-> m2, tree |-> t.tree, top |-> t.top, rot |-> t.rot]
           r == BalanceTree(t2, q)
           ht == m1[t.top].height
           bf == BalanceFactor(m2, q)
<1>1. near \in Dirs /\ far \in Dirs /\ far # near /\ Dirs = {near, far} /\ Opposite(far) = near
  BY DEF Toward, Opposite, Dirs
<1>2. Unwind(p, q, t) = r
  BY DEF Unwind, Joined, IsState
<1>3. /\ IsArena(m2) /\ KeepsRest(m1, m2) /\ IsTree(m2, V, root) /\ DOMAIN m2 = DOMAIN m1
      /\ \A x \in DOMAIN m1 \ {q} : m2[x] = m1[x]
      /\ m2[q].height = Above(m1, q) /\ \A d \in Dirs : m2[q][d] = m1[q][d]
  <2>1. IsArena(m2) /\ KeepsRest(m1, m2) /\ IsTree(m2, V, root) /\ \A x \in DOMAIN m1 \ {q} : m2[x] = m1[x]
    BY SetHeightKeepsTree
  <2>2. \A d \in Dirs : m1[q][d] \in DOMAIN m1 \cup {NIL}
    BY NodeFacts
  <2>3. IsPut(m1, m2, q, "height", Above(m1, q))
    BY <2>2, SetHeightPuts
  <2> QED BY <2>1, <2>3 DEF IsPut, KeepsRest, Dirs, Fields
<1>4. IsState(t2) /\ t2.m = m2 /\ t2.top = t.top /\ t2.rot = t.rot
  BY DEF IsState
<1>5. /\ t.top \in DOMAIN m1 \ {q} /\ t.top = m1[q][near] /\ NIL \notin DOMAIN m1 /\ q \in V[q]
      /\ \A d \in Dirs : m1[q][d] # NIL => m1[q][d] \in DOMAIN m1 \ {q}
  BY <1>1, NodeFacts
<1> HIDE DEF m2, t2, r
<1>6. Height(m1, t.top) = ht /\ ht \in Nat /\ hf \in Nat /\ m2[t.top] = m1[t.top]
      /\ hf = Height(m1, m1[q][far])
  BY <1>1, <1>3, <1>5, HeightIsNat DEF Height
<1>7. /\ Above(m1, q) = 1 + Larger(ht, hf)
      /\ Lean(m1, q, near) = ht - hf /\ Lean(m1, q, far) = hf - ht
      /\ BalanceFactor(m1, q) = Lean(m1, q, near) \/ BalanceFactor(m1, q) = - Lean(m1, q, near)
  <2>1. \A d \in Dirs : m1[q][d] \in DOMAIN m1 \cup {NIL}
    BY <1>5
  <2> HIDE DEF near, far, ht
  <2>2. /\ Above(m1, q) = 1 + Larger(Height(m1, m1[q][near]), Height(m1, m1[q][Opposite(near)]))
        /\ BalanceFactor(m1, q) = Lean(m1, q, near) \/ BalanceFactor(m1, q) = - Lean(m1, q, near)
    BY <1>1, <2>1, EitherWay
  <2> QED BY <1>1, <1>5, <1>6, <2>2 DEF Lean, far
<1>8. \A d \in Dirs : Height(m2, m1[q][d]) = Height(m1, m1[q][d])
  BY <1>3, <1>5 DEF Height
<1>9. Above(m2, q) = Above(m1, q) /\ BalanceFactor(m2, q) = BalanceFactor(m1, q)
      /\ \A d \in Dirs : Lean(m2, q, d) = Lean(m1, q, d)
  <2>1. \A d \in Dirs : Opposite(d) \in Dirs
    BY DEF Dirs, Opposite
  <2> QED BY <1>3, <1>8, <2>1, AboveKept DEF BalanceFactor, Lean, Dirs
<1>10. Sound(m2, V[q] \ {q})
  <2> DEFINE S == V[q] \ {q}
  <2>1. \A x \in S, d \in Dirs : m1[x][d] # NIL => x \in DOMAIN m1 /\ m1[x][d] \in DOMAIN m1 \ {q}
    BY ChildrenBelow
  <2>2. S \subseteq DOMAIN m1 \ {q}
    BY NodeFacts, <1>1
  <2>3. \A x \in S : m2[x].height = m1[x].height
    BY <1>3, <2>2
  <2>4. \A x \in S, d \in Dirs : /\ m2[x][d] = m1[x][d]
                                 /\ m1[x][d] # NIL => m2[m1[x][d]].height = m1[m1[x][d]].height
    BY <1>3, <2>1, <2>2
  <2> QED BY <2>3, <2>4, SoundKept
<1>11. BalanceFactor(m2, t.top) = BalanceFactor(m1, t.top)
  <2>1. t.top \in V[q] \ {q}
    BY <1>1, <1>5, NodeFacts
  <2>2. \A d \in Dirs : m1[t.top][d] # NIL => m1[t.top][d] \in DOMAIN m1 \ {q}
    BY <2>1, ChildrenBelow
  <2> QED BY <1>3, <1>6, <2>2 DEF BalanceFactor, Height, Dirs
<1>12. BalanceFactor(m2, t.top) = Lean(m2, t.top, near) \/ BalanceFactor(m2, t.top) = - Lean(m2, t.top, near)
  <2>1. \A d \in Dirs : m2[t.top][d] \in DOMAIN m2 \cup {NIL}
    BY <1>3, <1>5, NodeFacts
  <2> HIDE DEF near, far
  <2> QED BY <1>1, <1>3, <2>1, EitherWay
<1> HIDE DEF ht, near, far
<1>13. Larger(ht, hf) \in {ht, hf} /\ Larger(ht, hf) >= ht /\ Larger(ht, hf) >= hf
       /\ Larger(hc, hf) \in {hc, hf} /\ Larger(hc, hf) >= hc /\ Larger(hc, hf) >= hf
  BY <1>6 DEF Larger
<1>14. bf \in -2..2 /\ ht \in {hc, hc + 1} /\ (t.rot = 1 => ht = hc) /\ ht - hf \in -1..2
  BY <1>6, <1>7, <1>9 DEF ht
<1>15. bf = ht - hf \/ bf = hf - ht
  BY <1>6, <1>7, <1>9
<1>16. m2[q].height = 1 + Larger(ht, hf)
  BY <1>3, <1>7
<1>17. \A d \in Dirs : Lean(m2, q, d) = 2 => Lean(m2, m2[q][d], d) # 0
  <2>1. ASSUME Lean(m2, q, near) = 2 PROVE Lean(m2, m2[q][near], near) # 0
    <3>1. ht = hc + 1 /\ hc = hf + 1
      BY <1>1, <1>6, <1>7, <1>9, <1>14, <2>1
    <3>2. BalanceFactor(m1, t.top) # 0
      BY <1>6, <3>1 DEF ht
    <3>3. m2[q][near] = t.top
      BY <1>1, <1>3, <1>5
    <3> QED BY <1>11, <1>12, <3>2, <3>3
  <2>2. Lean(m2, q, far) # 2
    BY <1>1, <1>6, <1>7, <1>9, <1>14
  <2> QED BY <1>1, <2>1, <2>2
<1>18. /\ Sound(r.m, V[q])
       /\ bf \in -1..1 => r.m = m2 /\ r.top = q /\ r.rot = t.rot
       /\ bf \notin -1..1 => r.m[r.top].height = m2[q].height - 1 /\ r.rot = t.rot + 1
  <2> DEFINE bfs == BalanceFactor(t2.m, q)
  <2>1. q \in DOMAIN t2.m /\ IsArena(t2.m) /\ IsTree(t2.m, V, root) /\ Sound(t2.m, V[q] \ {q})
        /\ t2.m[q].height = Above(t2.m, q) /\ BalanceFactor(t2.m, q) \in -2..2
        /\ \A d \in Dirs : Lean(t2.m, q, d) = 2 => Lean(t2.m, t2.m[q][d], d) # 0
    BY <1>3, <1>4, <1>9, <1>10, <1>14, <1>17
  <2>2. /\ Sound(r.m, V[q])
        /\ bfs \in -1..1 => r.m = t2.m /\ r.top = q /\ r.rot = t2.rot
        /\ bfs \notin -1..1 => r.m[r.top].height = t2.m[q].height - 1 /\ r.rot = t2.rot + 1
    BY <1>4, <2>1, BalanceSettles DEF r
  <2> QED BY <1>4, <2>2
<1>19. CASE bf \in -1..1
  <2>1. r.m[r.top].height = 1 + Larger(ht, hf) /\ r.rot = t.rot /\ BalanceFactor(r.m, r.top) = bf
    BY <1>3, <1>7, <1>18, <1>19
  <2>2. 1 + Larger(ht, hf) \in {1 + Larger(hc, hf), 1 + Larger(hc, hf) + 1}
    BY <1>6, <1>14 DEF Larger
  <2>3. ht = hc => Larger(ht, hf) = Larger(hc, hf)
    OBVIOUS
  <2>4. ASSUME Larger(ht, hf) = Larger(hc, hf) + 1 PROVE bf # 0
    <3>1. ht = hc + 1 /\ hc >= hf
      BY <1>6, <1>14, <2>4 DEF Larger
    <3>2. ht - hf # 0
      BY <1>6, <3>1
    <3> QED BY <1>6, <1>15, <3>2
  <2>5. Larger(ht, hf) \in Nat /\ Larger(hc, hf) \in Nat
    BY <1>6 DEF Larger
  <2> QED BY <1>2, <1>14, <1>18, <2>1, <2>2, <2>3, <2>4, <2>5 DEF Inserted
<1>20. CASE bf \notin -1..1
  <2>1. ht = hc + 1 /\ hc = hf + 1 /\ t.rot = 0
    BY <1>6, <1>7, <1>9, <1>14, <1>20
  <2>2. r.m[r.top].height = m2[q].height - 1 /\ r.rot = t.rot + 1
    BY <1>18, <1>20
  <2>3. r.m[r.top].height = 1 + Larger(hc, hf) /\ r.rot = 1
    BY <1>6, <1>16, <2>1, <2>2 DEF Larger
  <2>4. Larger(hc, hf) \in Nat
    BY <1>6 DEF Larger
  <2> QED BY <1>2, <1>18, <2>3, <2>4 DEF Inserted
<1> QED BY <1>19, <1>20

(* The same step in the tree m0 the insertion started from: what came back  *)
(* to q is well balanced, and so is the other side of q, which has stayed.  *)
LEMMA StepSound ==
  ASSUME NEW m0, NEW U, NEW root, IsTree(m0, U, root), IsArena(m0), Sound(m0, DOMAIN m0),
         NEW p \in Price \ DOMAIN m0, NEW m, DOMAIN m = DOMAIN m0 \cup {p},
         NEW q \in DOMAIN m0, NEW t, Returns(t, m, m0, U, p, q),
         NEW V, IsTree(Joined(t, p, q), V, root), V[q] = U[q] \cup {p},
         NEW c, c = m0[q][Toward(p, q)], Inserted(t, Below(U, c) \cup {p}, Height(m0, c))
  PROVE  Inserted(Unwind(p, q, t), U[q] \cup {p}, m0[q].height)
<1> DEFINE D == DOMAIN m0
           near == Toward(p, q)
           far == Opposite(near)
           m1 == Joined(t, p, q)
           fc == m0[q][far]
           hc == Height(m0, c)
           hf == Height(m0, fc)
<1>1. near \in Dirs /\ far \in Dirs /\ far # near /\ Dirs = {near, far} /\ Opposite(far) = near
      /\ near \in Fields
  BY DEF Toward, Opposite, Dirs, Fields
<1>2. /\ IsState(t) /\ t.tree = NIL /\ t.top # NIL /\ IsArena(m1)
      /\ DOMAIN t.m = D \cup {p} /\ \A x \in D \ Below(U, c) : t.m[x] = m0[x]
  BY DEF Returns
<1>3. /\ q \in U[q] /\ U[q] \subseteq D /\ NIL \notin D
      /\ U[q] = {q} \cup Below(U, c) \cup Below(U, fc)
      /\ q \notin Below(U, c) /\ q \notin Below(U, fc)
      /\ Below(U, c) \cap Below(U, fc) = {}
      /\ fc # NIL => fc \in D \ {q} /\ fc \in U[fc] /\ fc \in Below(U, fc)
  <2>1. /\ q \in U[q] /\ U[q] \subseteq D /\ NIL \notin D
        /\ U[q] = {q} \cup Below(U, c) \cup Below(U, fc)
    BY <1>1, NodeFacts
  <2>2. c # NIL => /\ U[c] \subseteq U[q] \ {q} /\ \A x \in U[c] : Toward(x, q) = near
    BY <1>1, NodeFacts
  <2>3. fc # NIL => /\ U[fc] \subseteq U[q] \ {q} /\ \A x \in U[fc] : Toward(x, q) = far
                    /\ fc \in D \ {q} /\ fc \in U[fc]
    BY <1>1, NodeFacts
  <2> QED BY <1>1, <2>1, <2>2, <2>3 DEF Below
<1>4. /\ DOMAIN m1 = D \cup {p} /\ \A x \in DOMAIN m1 \ {q} : m1[x] = t.m[x]
      /\ m1[q][near] = t.top /\ m1[q][far] = fc
  <2>1. DOMAIN m1 = DOMAIN t.m
    BY DEF Joined
  <2>2. t.m[q] = m0[q] /\ IsNode(m0[q])
    BY <1>2, <1>3 DEF IsArena
  <2>3. m1[q] = [t.m[q] EXCEPT ![near] = t.top]
    BY <1>2 DEF Joined
  <2>4. near \in DOMAIN m0[q] /\ far \in DOMAIN m0[q]
    BY <1>1, <2>2 DEF IsNode, Fields, Dirs
  <2>5. \A x \in DOMAIN m1 \ {q} : m1[x] = t.m[x]
    BY <2>1 DEF Joined
  <2> HIDE DEF near, far, m1
  <2>6. m1[q][near] = t.top /\ m1[q][far] = fc
    BY <1>1, <2>2, <2>3, <2>4 DEF IsNode
  <2> QED BY <1>2, <2>1, <2>5, <2>6
<1> HIDE DEF m1, near, far
<1>5. /\ t.top \in DOMAIN m1 \ {q} /\ t.top \in V[q] \ {q}
      /\ \A x \in V[q] : x \in DOMAIN m1
      /\ \A x \in V[q], d \in Dirs : m1[x][d] # NIL => m1[x][d] \in DOMAIN m1 \ {q}
  <2>1. IsTree(m1, V, root) /\ q \in DOMAIN m1
    BY <1>4 DEF m1
  <2>2. m1[q][near] \in DOMAIN m1 \ {q} /\ m1[q][near] \in V[m1[q][near]] /\ V[m1[q][near]] \subseteq V[q] \ {q}
        /\ V[q] \subseteq DOMAIN m1
    BY <1>1, <1>2, <1>4, <2>1, NodeFacts
  <2>3. \A x \in V[q], d \in Dirs : m1[x][d] # NIL => m1[x][d] \in DOMAIN m1 \ {q}
    BY <2>1, ChildrenBelow
  <2> QED BY <1>4, <2>2, <2>3
<1>6. \A x \in Below(U, fc) : m1[x] = m0[x] /\ x \in D /\ x # q
  BY <1>2, <1>3, <1>4
<1>7. Height(m1, fc) = hf
  BY <1>3, <1>6 DEF Height
<1>8. hc \in Nat /\ hc - hf \in -1..1 /\ m0[q].height = 1 + Larger(hc, hf)
  <2>1. \A d \in Dirs : m0[q][d] \in DOMAIN m0 \cup {NIL}
    BY NodeFacts
  <2>2. /\ Height(m0, m0[q][near]) \in Nat /\ Height(m0, m0[q][Opposite(near)]) \in Nat
        /\ Above(m0, q) = 1 + Larger(Height(m0, m0[q][near]), Height(m0, m0[q][Opposite(near)]))
        /\ BalanceFactor(m0, q) = IF near = "left" THEN Lean(m0, q, near) ELSE - Lean(m0, q, near)
    BY <1>1, <2>1, EitherWay
  <2>3. c = m0[q][near] /\ fc = m0[q][Opposite(near)]
    BY DEF near, far
  <2>4. m0[q].height = Above(m0, q) /\ BalanceFactor(m0, q) \in -1..1
    BY DEF Sound
  <2>5. Lean(m0, q, near) = hc - hf /\ hc \in Nat /\ hf \in Nat /\ Above(m0, q) = 1 + Larger(hc, hf)
    BY <2>2, <2>3 DEF Lean
  <2> HIDE DEF hc, hf, fc
  <2>6. hc - hf \in -1..1
    <3>1. CASE near = "left"
      BY <2>2, <2>4, <2>5, <3>1
    <3>2. CASE near # "left"
      BY <2>2, <2>4, <2>5, <3>2
    <3> QED BY <3>1, <3>2
  <2> QED BY <2>4, <2>5, <2>6
<1>9. /\ t.rot \in 0..1 /\ t.m[t.top].height \in {hc, hc + 1} /\ (t.rot = 1 => t.m[t.top].height = hc)
      /\ t.m[t.top].height = hc + 1 => hc = 0 \/ BalanceFactor(t.m, t.top) # 0
      /\ Sound(t.m, Below(U, c) \cup {p})
  BY DEF Inserted
<1>10. m1[t.top] = t.m[t.top] /\ BalanceFactor(m1, t.top) = BalanceFactor(t.m, t.top)
  <2>1. m1[t.top] = t.m[t.top]
    BY <1>4, <1>5
  <2>2. \A d \in Dirs : m1[t.top][d] # NIL => m1[t.top][d] \in DOMAIN m1 \ {q}
    BY <1>5
  <2> QED BY <1>4, <2>1, <2>2 DEF BalanceFactor, Height, Dirs
<1>11. Sound(m1, Below(U, c) \cup {p})
  <2> DEFINE S == Below(U, c) \cup {p}
  <2>1. S \subseteq V[q] \ {q}
    BY <1>3
  <2>2. \A x \in S : m1[x] = t.m[x]
    BY <1>4, <1>5, <2>1
  <2>3. \A x \in S, d \in Dirs : m1[x][d] # NIL => m1[x][d] \in DOMAIN m1 \ {q}
    BY <1>5, <2>1
  <2>4. \A x \in S, d \in Dirs : t.m[x][d] # NIL => m1[t.m[x][d]].height = t.m[t.m[x][d]].height
    BY <1>4, <2>2, <2>3
  <2>5. Sound(t.m, S)
    BY <1>9
  <2> HIDE DEF S
  <2>6. \A x \in S : m1[x].height = t.m[x].height
    BY <2>2
  <2>7. \A x \in S, d \in Dirs : /\ m1[x][d] = t.m[x][d]
                                 /\ t.m[x][d] # NIL => m1[t.m[x][d]].height = t.m[t.m[x][d]].height
    BY <2>2, <2>4
  <2>8. Sound(m1, S)
    BY ONLY <2>5, <2>6, <2>7, SoundKept
  <2> QED BY <2>8 DEF S
<1>12. Sound(m1, Below(U, fc))
  <2> DEFINE S == Below(U, fc)
  <2>1. \A x \in S, d \in Dirs : m0[x][d] # NIL => m0[x][d] \in S
    <3> SUFFICES ASSUME NEW x \in S, NEW d \in Dirs, m0[x][d] # NIL PROVE m0[x][d] \in S
      OBVIOUS
    <3>1. fc # NIL /\ fc \in D /\ x \in U[fc]
      BY <1>3 DEF Below
    <3>2. m0[x][d] \in U[fc]
      BY <3>1, ChildrenBelow
    <3> QED BY <3>1, <3>2 DEF Below
  <2>2. Sound(m0, S)
    BY <1>6 DEF Sound
  <2> HIDE DEF S
  <2>3. \A x \in S : m1[x] = m0[x]
    BY <1>6 DEF S
  <2>4. \A x \in S : m1[x].height = m0[x].height
    BY <2>3
  <2>5. \A x \in S, d \in Dirs : /\ m1[x][d] = m0[x][d]
                                 /\ m0[x][d] # NIL => m1[m0[x][d]].height = m0[m0[x][d]].height
    BY <2>1, <2>3
  <2>6. Sound(m1, S)
    BY ONLY <2>2, <2>4, <2>5, SoundKept
  <2> QED BY <2>6 DEF S
<1>13. Sound(m1, V[q] \ {q})
  <2>1. V[q] \ {q} \subseteq Below(U, c) \cup {p} \cup Below(U, fc)
    BY <1>3
  <2> QED BY <1>11, <1>12, <2>1 DEF Sound
<1>14. Inserted(Unwind(p, q, t), V[q], 1 + Larger(hc, hf))
  <2>1. /\ m1 = Joined(t, p, q) /\ q \in DOMAIN m1 /\ IsTree(m1, V, root)
        /\ hf = Height(m1, m1[q][Opposite(Toward(p, q))]) /\ m1[q][Toward(p, q)] = t.top
    BY <1>4, <1>7 DEF m1, near, far
  <2>2. /\ m1[t.top].height \in {hc, hc + 1} /\ (t.rot = 1 => m1[t.top].height = hc)
        /\ m1[t.top].height = hc + 1 => hc = 0 \/ BalanceFactor(m1, t.top) # 0
    BY <1>9, <1>10
  <2> HIDE DEF hc, hf
  <2> QED BY <1>2, <1>8, <1>9, <1>13, <2>1, <2>2, UnwindSound
<1> QED BY <1>8, <1>14

(* insert_recursive keeps a balanced tree balanced, with at most one count. *)
LEMMA InsertSound ==
  ASSUME NEW m0, NEW U, NEW root, IsTree(m0, U, root), IsArena(m0), Sound(m0, DOMAIN m0),
         NEW p, NEW m, Added(m0, m, p), m[p].height = 1
  PROVE  LET t == InsertRecursive(m, root, p)
         IN  Sound(t.m, DOMAIN t.m) /\ t.rot \in 0..1
<1> DEFINE D == DOMAIN m0
           W == Way(m0, U, p)
<1>1. /\ p \in Price \ D /\ NIL \notin D /\ DOMAIN m = D \cup {p} /\ IsArena(m) /\ p # NIL
      /\ \A q \in D : m[q] = m0[q]
      /\ m[p].left = NIL /\ m[p].right = NIL
  BY NilIsNoPrice DEF Added, IsTree
<1>2. PICK f :
        /\ InsertRecursive(m, root, p) = f[root] /\ KeepsRest(m, f[root].m)
        /\ \A q \in W : LET t == Returned(f, m, p, q)
                        IN  /\ f[q] = Unwind(p, q, t)
                            /\ Returns(t, m, m0, U, p, q)
                            /\ \E V : IsTree(Joined(t, p, q), V, root) /\ V[q] = U[q] \cup {p}
  BY InsertSteps
<1> DEFINE Grown(q) == Inserted(f[q], U[q] \cup {p}, m0[q].height)
           S == {q \in D : q \in W => Grown(q)}
<1>3. \A q \in D : (\A d \in Dirs : m0[q][d] # NIL => m0[q][d] \in S) => q \in S
  <2> SUFFICES ASSUME NEW q \in D, \A d \in Dirs : m0[q][d] # NIL => m0[q][d] \in S, q \in W
               PROVE  Grown(q)
    OBVIOUS
  <2> DEFINE c == m0[q][Toward(p, q)]
             t == Returned(f, m, p, q)
  <2>1. PICK V : IsTree(Joined(t, p, q), V, root) /\ V[q] = U[q] \cup {p}
    BY <1>2
  <2>2. f[q] = Unwind(p, q, t) /\ Returns(t, m, m0, U, p, q)
    BY <1>2
  <2>3. m[q][Toward(p, q)] = c /\ Toward(p, q) \in Dirs
    BY <1>1 DEF Toward, Dirs
  <2>4. Inserted(t, Below(U, c) \cup {p}, Height(m0, c))
    <3>1. CASE c = NIL
      <4>1. t = Leaf(m, p, q)
        BY <2>3, <3>1 DEF Returned
      <4>2. t.m = [m EXCEPT ![p].parent = q] /\ t.rot = 0 /\ t.top = p
        BY <4>1 DEF Leaf
      <4>3. t.m[p].height = 1 /\ t.m[p].left = NIL /\ t.m[p].right = NIL
        <5>1. t.m[p] = [m[p] EXCEPT !.parent = q]
          BY <1>1, <4>2
        <5> QED BY <1>1, <5>1
      <4>4. Above(t.m, p) = 1 /\ BalanceFactor(t.m, p) = 0
        BY <4>3 DEF Above, BalanceFactor, Height, Larger
      <4>5. Sound(t.m, {p})
        BY <4>3, <4>4 DEF Sound
      <4>6. Below(U, c) \cup {p} = {p} /\ Height(m0, c) = 0
        BY <3>1 DEF Below, Height
      <4> HIDE DEF t, c
      <4>7. Sound(t.m, Below(U, c) \cup {p})
        BY <4>5, <4>6
      <4>8. t.rot \in 0..1 /\ t.rot # 1 /\ t.m[t.top].height \in {0, 0 + 1}
        BY <4>2, <4>3
      <4> QED BY <4>6, <4>7, <4>8 DEF Inserted
    <3>2. CASE c # NIL
      <4>1. t = f[c]
        BY <2>3, <3>2 DEF Returned
      <4>2. c \in W
        BY <3>2, WayFacts
      <4>3. c \in S
        BY <2>3, <3>2
      <4>4. Grown(c)
        BY <4>2, <4>3
      <4>5. Below(U, c) = U[c] /\ Height(m0, c) = m0[c].height
        BY <3>2 DEF Below, Height
      <4> QED BY <4>1, <4>4, <4>5
    <3> QED BY <3>1, <3>2
  <2>5. c = m0[q][Toward(p, q)]
    OBVIOUS
  <2> HIDE DEF c, t, S
  <2>6. Inserted(Unwind(p, q, t), U[q] \cup {p}, m0[q].height)
    BY <1>1, <2>1, <2>2, <2>4, <2>5, StepSound
  <2> QED BY <2>2, <2>6
<1> HIDE DEF S
<1>4. D \subseteq S
  BY <1>3, UpTheTree
<1>5. root \in W /\ root \in D /\ U[root] = D
  BY WayFacts DEF IsTree
<1>6. Grown(root)
  BY <1>4, <1>5 DEF S
<1>7. DOMAIN f[root].m = D \cup {p}
  BY <1>1, <1>2 DEF KeepsRest
<1> QED BY <1>2, <1>5, <1>6, <1>7 DEF Inserted

(* add_limit keeps a balanced side balanced, with at most one count.        *)
LEMMA AddSound ==
  ASSUME NEW side \in Side, NEW b, GoodSide(b, side), b.rebalances = 0,
         Sound(b.limits, DOMAIN b.limits),
         NEW p \in Price, p \notin DOMAIN b.limits,
         NEW limit, IsNode(limit), limit.parent = NIL, limit.left = NIL, limit.right = NIL,
         limit.height = 1
  PROVE  LET b2 == AddLimitTo(b, side, p, limit)
         IN  Sound(b2.limits, DOMAIN b2.limits) /\ b2.rebalances \in 0..1
<1> DEFINE m0 == b.limits
           D == DOMAIN m0
           m == [q \in D \cup {p} |-> IF q = p THEN limit ELSE m0[q]]
           b2 == AddLimitTo(b, side, p, limit)
           better == IF b.edge = NIL THEN side = "Bid" ELSE Outranks(side, p, b.edge)
           t == InsertRecursive(m, b.tree, p)
<1>1. /\ IsArena(m) /\ DOMAIN m = D \cup {p} /\ IsArena(m0)
      /\ \A q \in D : m[q] = m0[q]
      /\ m[p] = limit
  BY DEF IsArena, GoodSide
<1> HIDE DEF m
<1>2. CASE D = {}
  <2>1. b2 = [limits |-> m, tree |-> p, edge |-> p, rebalances |-> b.rebalances]
    BY <1>2 DEF AddLimitTo, GoodSide, m
  <2> HIDE DEF b2
  <2>2. b2.limits = m /\ b2.rebalances = 0 /\ DOMAIN m = {p}
    BY <1>1, <1>2, <2>1
  <2>3. Above(m, p) = 1 /\ BalanceFactor(m, p) = 0
    BY <1>1 DEF Above, BalanceFactor, Height, Larger
  <2>4. Sound(m, {p})
    BY <1>1, <2>3 DEF Sound
  <2> QED BY <2>2, <2>4 DEF b2
<1>3. CASE D # {}
  <2>1. PICK U : IsTree(m0, U, b.tree)
    BY <1>3 DEF GoodSide
  <2>2. b.tree # NIL
    BY <2>1, NilIsNoPrice DEF IsTree
  <2>3. Added(m0, m, p) /\ m[p].height = 1
    BY <1>1 DEF Added
  <2>4. IsState(t)
    BY <2>1, <2>3, InsertRebuilds
  <2>5. Sound(t.m, DOMAIN t.m) /\ t.rot \in 0..1
    BY <1>1, <2>1, <2>3, InsertSound
  <2>6. b2.limits = t.m /\ b2.rebalances = 0 + t.rot
    <3>1. b2 = [Balance(b, [t EXCEPT !.tree = t.top]) EXCEPT !.edge = IF better THEN p ELSE @]
      BY <2>2 DEF AddLimitTo, m
    <3> HIDE DEF t, better, b2
    <3>2. b2 = [limits |-> t.m, tree |-> t.top, edge |-> IF better THEN p ELSE b.edge,
                rebalances |-> b.rebalances + t.rot]
      BY <2>4, <3>1 DEF Balance, IsState, GoodSide
    <3> QED BY <3>2
  <2> HIDE DEF b2, t
  <2> QED BY <2>5, <2>6 DEF b2
<1> QED BY <1>2, <1>3

-----------------------------------------------------------------------------
(* Stored heights and true ones. *)

(* A tree is sound where its stored heights are its depths and balanced.    *)
LEMMA SoundIsBalanced ==
  ASSUME TreeInv
  PROVE  Sound(book.limits, Live) <=> HeightsExact /\ Balanced
<1> DEFINE m == book.limits
           below(c) == DepthBelow(Depth, c)
<1>1. CASE Live = {}
  BY <1>1 DEF Sound, HeightsExact, Balanced
<1>2. CASE Live # {}
  <2>1. PICK U : IsTree(m, U, book.tree)
    BY <1>2 DEF TreeInv, GoodSide, Live
  <2>2. \A p \in Live : Depth[p] = DepthAt(Depth, m, p)
    BY <2>1, DepthIsDepth
  <2>3. \A p \in Live, d \in Dirs : m[p][d] # NIL => m[p][d] \in Live
    BY <2>1, Sizes DEF Live
  <2> DEFINE Exact(p) == m[p].height = Depth[p]
  <2>4. ASSUME NEW p \in Live, \A d \in Dirs : m[p][d] # NIL => Exact(m[p][d])
        PROVE  /\ Above(m, p) = Depth[p]
               /\ BalanceFactor(m, p) = below(m[p].left) - below(m[p].right)
    <3>1. \A d \in Dirs : Height(m, m[p][d]) = below(m[p][d])
      BY <2>4 DEF Height, DepthBelow
    <3> HIDE DEF below, m
    <3>2. Height(m, m[p].left) = below(m[p].left) /\ Height(m, m[p].right) = below(m[p].right)
      BY <3>1 DEF Dirs
    <3>3. Depth[p] = 1 + Larger(below(m[p].left), below(m[p].right))
      BY <2>2 DEF DepthAt, below, m
    <3> QED BY <3>2, <3>3 DEF Above, BalanceFactor
  <2>5. ASSUME Sound(m, Live) PROVE HeightsExact
    <3> DEFINE S == {p \in Live : Exact(p)}
    <3>1. ASSUME NEW p \in DOMAIN m, \A d \in Dirs : m[p][d] # NIL => m[p][d] \in S
          PROVE  p \in S
      <4>1. p \in Live /\ Above(m, p) = Depth[p]
        BY <2>4, <3>1 DEF Live
      <4> QED BY <2>5, <4>1 DEF Sound
    <3> HIDE DEF S
    <3>2. DOMAIN m \subseteq S
      BY <2>1, <3>1, UpTheTree
    <3> QED BY <3>2 DEF S, Live, HeightsExact
  <2>6. ASSUME HeightsExact PROVE Sound(m, Live) <=> Balanced
    <3>1. \A p \in Live : Exact(p)
      BY <2>6 DEF HeightsExact
    <3>2. \A p \in Live : /\ m[p].height = Above(m, p)
                          /\ BalanceFactor(m, p) = below(m[p].left) - below(m[p].right)
      BY <2>3, <2>4, <3>1
    <3>3. Balanced <=> \A p \in Live : below(m[p].left) - below(m[p].right) \in -1..1
      BY DEF Balanced, DepthBelow
    <3> HIDE DEF below
    <3> QED BY <3>2, <3>3 DEF Sound
  <2> QED BY <2>5, <2>6
<1> QED BY <1>1, <1>2

(* What add_limit does to a balanced side, and when delete_limit is no      *)
(* growth of it.                                                            *)
LEMMA GrowthStep ==
  ASSUME TreeInv, HeightsExact, Balanced, Next, Live \subseteq Live'
  PROVE  TreeInv' /\ HeightsExact' /\ Balanced' /\ book'.rebalances \in 0..1
<1> DEFINE b0 == [book EXCEPT !.rebalances = 0]
<1>1. TreeInv'
  BY BalancedIsBushy, TreeStep
<1>2. /\ bid_or_ask \in Side /\ GoodSide(b0, bid_or_ask) /\ b0.limits = book.limits
      /\ b0.rebalances = 0
  <2>1. b0.rebalances = 0
    BY DEF TreeInv, GoodSide
  <2> QED BY <2>1, CountsFromZero DEF TreeInv
<1>3. Sound(b0.limits, DOMAIN b0.limits)
  BY <1>2, SoundIsBalanced DEF Live
<1> HIDE DEF b0
<1>4. ASSUME NEW p \in Price, AddLimit(p)
      PROVE  Sound(book'.limits, Live') /\ book'.rebalances \in 0..1
  <2>1. /\ IsNode(NewLimit) /\ NewLimit.parent = NIL /\ NewLimit.left = NIL /\ NewLimit.right = NIL
        /\ NewLimit.height = 1
    BY NewIsNode
  <2>2. p \notin DOMAIN b0.limits /\ book' = AddLimitTo(b0, bid_or_ask, p, NewLimit)
    BY <1>2, <1>4 DEF AddLimit, b0
  <2> DEFINE b2 == AddLimitTo(b0, bid_or_ask, p, NewLimit)
  <2>3. Sound(b2.limits, DOMAIN b2.limits) /\ b2.rebalances \in 0..1
    BY <1>2, <1>3, <2>1, <2>2, AddSound
  <2> QED BY <2>2, <2>3 DEF Live
<1>5. ASSUME NEW p \in Price, DeleteLimit(p) PROVE FALSE
  <2>1. DOMAIN DeleteLimitFrom(b0, bid_or_ask, p).limits = Live \ {p}
    BY <1>2, <1>5, BalancedIsBushy, DeleteKeepsSide DEF DeleteLimit, BushyTree, Live
  <2>2. Live' = Live \ {p} /\ p \in Live
    BY <1>5, <2>1 DEF DeleteLimit, Live, b0
  <2> QED BY <2>2
<1>6. Sound(book'.limits, Live') /\ book'.rebalances \in 0..1
  BY <1>4, <1>5 DEF Next
<1>7. HeightsExact' /\ Balanced'
  <2>1. TreeInv' => (Sound(book.limits, Live)' <=> HeightsExact' /\ Balanced')
    BY SoundIsBalanced, PTL
  <2> QED BY <1>1, <1>6, <2>1 DEF Sound, Above, Height, BalanceFactor
<1> QED BY <1>1, <1>6, <1>7

(* insert_recursive does keep the AVL promise: from true heights and        *)
(* balance it gives true heights and balance back, with one counted         *)
(* rebalance at most.                                                       *)
THEOREM InsertionKeepsBalance == Spec /\ []BushyTree => InsertionBalances
<1>1. TreeInv /\ [Next]_vars
        => [ HeightsExact /\ Balanced /\ Live \subseteq Live'
               => HeightsExact' /\ Balanced' /\ book'.rebalances <= 1 ]_vars
  BY GrowthStep
<1> QED BY <1>1, TreeAlways, PTL DEF Spec, InsertionBalances

(* While no level is removed nothing has to be assumed of the tree: it is   *)
(* an AVL tree, so bushy, and all that rests on bushiness holds of it.      *)
THEOREM GrowingTreeIsSound ==
  Spec /\ [][Live \subseteq Live']_vars
    => [](HeightsExact /\ Balanced /\ SearchTree /\ BookEdgeIsBest /\ SnapshotIsTopN)
<1> DEFINE Inv == TreeInv /\ HeightsExact /\ Balanced
<1>1. Init => Inv
  <2> SUFFICES ASSUME Init PROVE HeightsExact /\ Balanced
    BY TreeStart
  <2>1. Live = {}
    BY DEF Init, EmptySide, Live
  <2> QED BY <2>1 DEF HeightsExact, Balanced
<1>2. Inv /\ [Next]_vars /\ [Live \subseteq Live']_vars => Inv'
  <2> SUFFICES ASSUME Inv, [Next]_vars, [Live \subseteq Live']_vars PROVE Inv'
    OBVIOUS
  <2>1. CASE Next /\ Live \subseteq Live'
    BY <2>1, GrowthStep
  <2>2. CASE UNCHANGED vars
    <3>1. book' = book /\ bid_or_ask' = bid_or_ask
      BY <2>2 DEF vars
    <3>2. Live' = Live
      BY <3>1 DEF Live
    <3>3. Depth' = Depth
      BY <3>1, <3>2 DEF Depth
    <3> QED BY <3>1, <3>2, <3>3 DEF TreeInv, HeightsExact, Balanced
  <2> QED BY <2>1, <2>2
<1>3. Inv => HeightsExact /\ Balanced /\ SearchTree /\ BookEdgeIsBest /\ SnapshotIsTopN
  BY OrderIsRead
<1> QED BY <1>1, <1>2, <1>3, PTL DEF Spec

-----------------------------------------------------------------------------
(* Types. *)

(* A tree is no deeper below a level than it has levels there.              *)
LEMMA DepthIsSmall ==
  ASSUME NEW U, NEW root, IsTree(book.limits, U, root)
  PROVE  \A p \in Live : Depth[p] \in 1..Cardinality(Live)
<1> DEFINE m == book.limits
           below(c) == DepthBelow(Depth, c)
           S == {p \in Live : Depth[p] \in 1..Cardinality(U[p])}
<1>1. /\ Cardinality(Live) \in Nat /\ \A p \in Live : Cardinality(U[p]) \in 1..Cardinality(Live)
      /\ \A p \in Live, d \in Dirs : m[p][d] # NIL =>
            m[p][d] \in Live /\ Cardinality(U[m[p][d]]) < Cardinality(U[p])
  BY Sizes DEF Live
<1>2. ASSUME NEW p \in DOMAIN m, \A d \in Dirs : m[p][d] # NIL => m[p][d] \in S
      PROVE  p \in S
  <2> DEFINE n == Cardinality(U[p])
  <2>1. p \in Live /\ n \in Nat \ {0}
    BY <1>1 DEF Live
  <2>2. ASSUME NEW d \in Dirs PROVE below(m[p][d]) \in 0..n - 1
    <3>1. CASE m[p][d] = NIL
      BY <2>1, <3>1 DEF DepthBelow
    <3>2. CASE m[p][d] # NIL
      <4> DEFINE c == m[p][d]
                 k == Cardinality(U[c])
      <4>1. k < n /\ c \in Live /\ Depth[c] \in 1..k /\ below(c) = Depth[c]
        BY <1>1, <1>2, <2>1, <3>2 DEF DepthBelow
      <4>2. k \in Nat
        BY <1>1, <4>1
      <4> HIDE DEF c, k, n, below
      <4>3. below(c) \in 0..n - 1
        BY <2>1, <4>1, <4>2
      <4> QED BY <4>3 DEF c
    <3> QED BY <3>1, <3>2
  <2>3. Depth[p] = 1 + Larger(below(m[p].left), below(m[p].right))
    BY <2>1, DepthIsDepth DEF DepthAt
  <2>4. below(m[p].left) \in 0..n - 1 /\ below(m[p].right) \in 0..n - 1
    BY <2>2 DEF Dirs
  <2> HIDE DEF below, n
  <2>5. Depth[p] \in 1..n
    BY <2>1, <2>3, <2>4 DEF Larger
  <2> QED BY <2>1, <2>5 DEF n
<1> HIDE DEF S
<1>3. DOMAIN m \subseteq S
  BY <1>2, UpTheTree
<1> QED BY <1>1, <1>3 DEF S, Live

(* A step counts no more rebalances than there are levels before it.        *)
LEMMA StepCounts ==
  ASSUME TreeInv, BushyTree, Next
  PROVE  book'.rebalances \in 0..Cardinality(Live)
<1> DEFINE b0 == [book EXCEPT !.rebalances = 0]
<1>1. /\ bid_or_ask \in Side /\ GoodSide(b0, bid_or_ask) /\ b0.limits = book.limits
      /\ b0.rebalances = 0
  <2>1. b0.rebalances = 0
    BY DEF TreeInv, GoodSide
  <2> QED BY <2>1, CountsFromZero DEF TreeInv
<1> HIDE DEF b0
<1>2. ASSUME NEW b2, Counts(b0, b2)
      PROVE  b2.rebalances \in 0..Cardinality(Live)
  <2>1. PICK k \in 0..Cardinality(Live) : b2.rebalances = 0 + k
    BY <1>1, <1>2 DEF Counts, Live
  <2> QED BY <2>1
<1>3. ASSUME NEW p \in Price, AddLimit(p) PROVE book'.rebalances \in 0..Cardinality(Live)
  <2>1. Counts(b0, AddLimitTo(b0, bid_or_ask, p, NewLimit))
    BY <1>1, <1>3, NewIsNode, AddKeepsSide DEF AddLimit
  <2> QED BY <1>2, <1>3, <2>1 DEF AddLimit, b0
<1>4. ASSUME NEW p \in Price, DeleteLimit(p) PROVE book'.rebalances \in 0..Cardinality(Live)
  <2>1. Counts(b0, DeleteLimitFrom(b0, bid_or_ask, p))
    BY <1>1, <1>4, DeleteKeepsSide DEF DeleteLimit, BushyTree
  <2> QED BY <1>2, <1>4, <2>1 DEF DeleteLimit, b0
<1> QED BY <1>3, <1>4 DEF Next

(* There are no more levels than prices. *)
LEMMA LevelsAreFew ==
  ASSUME TreeInv, IsFiniteSet(Price)
  PROVE  /\ Live \subseteq Price /\ Cardinality(Live) \in Nat /\ Cardinality(Price) \in Nat
         /\ Cardinality(Live) <= Cardinality(Price)
<1>1. Live \subseteq Price
  BY DEF TreeInv, GoodSide, IsTree, Live
<1> QED BY <1>1, FS_Subset, FS_CardinalityType

(* The types of a tree in good order. *)
LEMMA TypesFollow ==
  ASSUME TreeInv, IsFiniteSet(Price), book.rebalances \in 0..Cardinality(Price), HeightsExact
  PROVE  TypeOK
<1> DEFINE m == book.limits
           Option == Price \cup {NIL}
<1>1. /\ Live \subseteq Price /\ Cardinality(Live) \in Nat /\ Cardinality(Price) \in Nat
      /\ Cardinality(Live) <= Cardinality(Price)
  BY LevelsAreFew
<1>2. CASE Live = {}
  BY <1>1, <1>2 DEF TypeOK, TreeInv, GoodSide, Live
<1>3. CASE Live # {}
  <2>1. PICK U : IsTree(m, U, book.tree)
    BY <1>3 DEF TreeInv, GoodSide, Live
  <2>2. book.tree \in Option /\ book.edge \in Option
    BY <1>1, <1>3, <2>1 DEF IsTree, TreeInv, GoodSide, IsBest, Live
  <2>3. ASSUME NEW p \in Live
        PROVE  {m[p].parent, m[p].left, m[p].right} \subseteq Option
    <3>1. ASSUME NEW d \in Dirs PROVE m[p][d] \in Option /\ m[p].parent \in Option
      BY <1>1, <2>1, NodeFacts DEF Live
    <3> QED BY <3>1 DEF Dirs
  <2>4. ASSUME NEW p \in Live
        PROVE  m[p].height \in 1..Cardinality(Price)
    <3>1. Depth[p] \in 1..Cardinality(Live)
      BY <2>1, DepthIsSmall
    <3>2. m[p].height = Depth[p]
      BY DEF HeightsExact
    <3> QED BY <1>1, <3>1, <3>2
  <2>5. bid_or_ask \in Side
    BY DEF TreeInv
  <2> QED BY <1>1, <2>2, <2>3, <2>4, <2>5 DEF TypeOK
<1> QED BY <1>2, <1>3

(* The fields of the arena keep their types: the links name prices, no      *)
(* height that is the true one and no count of an order's rebalances        *)
(* outgrows the number of prices.                                           *)
THEOREM TypesStayRight ==
  IsFiniteSet(Price) => (Spec /\ []BushyTree => [](HeightsExact => TypeOK))
<1> SUFFICES ASSUME IsFiniteSet(Price)
             PROVE  Spec /\ []BushyTree => [](HeightsExact => TypeOK)
  OBVIOUS
<1> DEFINE Inv == TreeInv /\ book.rebalances \in 0..Cardinality(Price)
<1>1. Init => Inv
  <2> SUFFICES ASSUME Init PROVE book.rebalances \in 0..Cardinality(Price)
    BY TreeStart
  <2>1. book.rebalances = 0
    BY DEF Init, EmptySide
  <2> QED BY <2>1, FS_CardinalityType
<1>2. Inv /\ BushyTree /\ [Next]_vars => Inv'
  <2> SUFFICES ASSUME Inv, BushyTree, [Next]_vars PROVE book'.rebalances \in 0..Cardinality(Price)
    BY TreeStep
  <2>1. CASE Next
    BY <2>1, StepCounts, LevelsAreFew
  <2>2. CASE UNCHANGED vars
    BY <2>2 DEF vars
  <2> QED BY <2>1, <2>2
<1>3. Inv => (HeightsExact => TypeOK)
  BY TypesFollow
<1> QED BY <1>1, <1>2, <1>3, PTL DEF Spec

(* While no level is removed they need nothing else.                        *)
THEOREM GrowingTreeKeepsTypes ==
  IsFiniteSet(Price) => (Spec /\ [][Live \subseteq Live']_vars => []TypeOK)
<1> SUFFICES ASSUME IsFiniteSet(Price)
             PROVE  Spec /\ [][Live \subseteq Live']_vars => []TypeOK
  OBVIOUS
<1>1. Spec /\ [][Live \subseteq Live']_vars => [](HeightsExact /\ Balanced)
  BY GrowingTreeIsSound, PTL
<1>2. Spec /\ []Balanced => []BushyTree
  BY BalanceIsEnough
<1>3. Spec /\ []BushyTree => [](HeightsExact => TypeOK)
  BY TypesStayRight
<1> QED BY <1>1, <1>2, <1>3, PTL
=============================================================================

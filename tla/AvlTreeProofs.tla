--------------------------- MODULE AvlTreeProofs ---------------------------
(***************************************************************************)
(* Lemmas about the operators of AvlTree, for every set of prices and      *)
(* whatever heights are stored.  A rotation, and so balance_tree,          *)
(* insert_recursive and the balancing pass of delete_limit, turn a search  *)
(* tree into a search tree of the same prices; a level added or removed    *)
(* leaves the others, with all they hold but links and height.  Removal    *)
(* needs one thing of the shape of the tree, and only removal: that an     *)
(* only child is a leaf (Bushy).  A balanced tree has it; the code does    *)
(* not keep its trees balanced, see LimitTree.                             *)
(*                                                                         *)
(* A tree is described by the arena and by U, which gives every price the  *)
(* set of prices at and below it; sizes of these sets serve for induction. *)
(***************************************************************************)
EXTENDS AvlTree, FoldLemmas

-----------------------------------------------------------------------------
(* Updates of an arena. *)

(* The fields of a limit the operators of AvlTree touch. *)
Dirs == {"left", "right"}
Fields == {"parent", "left", "right", "height"}

(* A limit, and an arena of limits. *)
IsNode(l) ==
  /\ l = [x \in DOMAIN l |-> l[x]] /\ Fields \subseteq DOMAIN l
  /\ l.height \in Nat \ {0}

IsArena(m) ==
  /\ m = [q \in DOMAIN m |-> m[q]]
  /\ \A q \in DOMAIN m : IsNode(m[q])

(* m2 has the limits of m, with their links and heights moved at most. *)
KeepsRest(m, m2) ==
  /\ DOMAIN m2 = DOMAIN m
  /\ \A q \in DOMAIN m : OnlyLinksMoved(m[q], m2[q])

(* m2 is m with v in the field f of p. *)
IsPut(m, m2, p, f, v) ==
  /\ IsArena(m2) /\ KeepsRest(m, m2)
  /\ \A q \in DOMAIN m, g \in Fields : m2[q][g] = IF q = p /\ g = f THEN v ELSE m[q][g]

(* An update of one field of one limit is a put. *)
LEMMA Put ==
  ASSUME NEW m, IsArena(m), NEW p \in DOMAIN m, NEW f \in Fields, NEW v,
         f = "height" => v \in Nat \ {0}
  PROVE  IsPut(m, [m EXCEPT ![p][f] = v], p, f, v)
<1> DEFINE l == m[p]
           l2 == [x \in DOMAIN l |-> IF x = f THEN v ELSE l[x]]
           m2 == [q \in DOMAIN m |-> IF q = p THEN l2 ELSE m[q]]
<1>1. [m EXCEPT ![p][f] = v] = m2
  BY DEF IsArena, IsNode
<1>2. IsNode(l) 
  BY DEF IsArena
<1>3. IsNode(l2) /\ DOMAIN l2 = DOMAIN l /\ \A g \in Fields : l2[g] = IF g = f THEN v ELSE l[g]
  BY <1>2 DEF IsNode, Fields
<1>4. OnlyLinksMoved(l, l2)
  <2> DEFINE k == [l EXCEPT !.parent = l2.parent, !.left = l2.left, !.right = l2.right, !.height = l2.height]
  <2>1. DOMAIN k = DOMAIN l /\ k = [x \in DOMAIN l |-> k[x]]
    BY <1>2 DEF IsNode
  <2>2. \A x \in DOMAIN l : k[x] = l2[x]
    BY <1>2 DEF IsNode, Fields
  <2>3. l2 = [x \in DOMAIN l |-> l2[x]]
    OBVIOUS
  <2> HIDE DEF k, l2
  <2>4. k = l2
    BY <2>1, <2>2, <2>3
  <2> QED BY <2>4 DEF k, OnlyLinksMoved
<1>5. \A q \in DOMAIN m : OnlyLinksMoved(m[q], m[q])
  BY DEF IsArena, IsNode, OnlyLinksMoved
<1> HIDE DEF l2
<1>6. IsArena(m2)
  BY <1>3 DEF IsArena
<1>7. KeepsRest(m, m2)
  BY <1>4, <1>5 DEF KeepsRest
<1>8. \A q \in DOMAIN m, g \in Fields : m2[q][g] = IF q = p /\ g = f THEN v ELSE m[q][g]
  BY <1>3
<1> QED BY <1>1, <1>6, <1>7, <1>8 DEF IsPut

(* What two changes in a row keep, they keep together. *)
LEMMA RestIsKept ==
  ASSUME NEW m, NEW m2, NEW m3, IsArena(m), KeepsRest(m, m2), KeepsRest(m2, m3)
  PROVE  KeepsRest(m, m3)
<1> SUFFICES ASSUME NEW q \in DOMAIN m
             PROVE  OnlyLinksMoved(m[q], m3[q])
  BY DEF KeepsRest
<1>1. OnlyLinksMoved(m[q], m2[q]) /\ OnlyLinksMoved(m2[q], m3[q])
  BY DEF KeepsRest
<1> QED BY <1>1 DEF OnlyLinksMoved, IsArena, IsNode, Fields

(* What the updates of the code put where: Reparent, SetHeight, Relink. *)
LEMMA ReparentPuts ==
  ASSUME NEW m, IsArena(m), NEW c \in DOMAIN m, c # NIL, NEW q
  PROVE  IsPut(m, Reparent(m, c, q), c, "parent", q)
<1>1. IsPut(m, [m EXCEPT ![c]["parent"] = q], c, "parent", q)
  BY Put DEF Fields
<1> QED BY <1>1 DEF Reparent

Above(m, p) == 1 + Larger(Height(m, m[p].left), Height(m, m[p].right))

(* SetHeight puts one more than the height of the higher child. *)
LEMMA SetHeightPuts ==
  ASSUME NEW m, IsArena(m), NEW p \in DOMAIN m,
         \A dir \in Dirs : m[p][dir] \in DOMAIN m \cup {NIL}
  PROVE  IsPut(m, SetHeight(m, p), p, "height", Above(m, p))
<1>1. \A c \in DOMAIN m \cup {NIL} : Height(m, c) \in Nat
  BY DEF Height, IsArena, IsNode
<1>2. Above(m, p) \in Nat \ {0}
  BY <1>1 DEF Above, Larger, Dirs
<1>3. IsPut(m, [m EXCEPT ![p]["height"] = Above(m, p)], p, "height", Above(m, p))
  BY <1>2, Put DEF Fields
<1> QED BY <1>3 DEF SetHeight, Above

(* Relink puts its child in the field on the way to p. *)
LEMMA RelinkPuts ==
  ASSUME NEW m, IsArena(m), NEW q \in DOMAIN m, q # NIL, NEW p, NEW c
  PROVE  IsPut(m, Relink(m, q, p, c), q, Toward(p, q), c)
<1>1. Toward(p, q) \in Fields /\ Toward(p, q) # "height"
  BY DEF Toward, Fields
<1>2. IsPut(m, [m EXCEPT ![q][Toward(p, q)] = c], q, Toward(p, q), c)
  BY <1>1, Put
<1> QED BY <1>2 DEF Relink

(* The links of a limit, and the record of a tree being balanced. *)
Links == {"parent", "left", "right"}

IsState(t) == t = [m |-> t.m, tree |-> t.tree, top |-> t.top, rot |-> t.rot]

(* up, the near child of p, takes the place of p; both get the heights *)
(* their new children give them.                                       *)
IsRotation(m, m2, p, near) ==
  LET up == m[p][near]
      far == Opposite(near)
      inner == m[up][far]
  IN  /\ IsArena(m2) /\ KeepsRest(m, m2)
      /\ m2[p].parent = up /\ m2[p][near] = inner /\ m2[p][far] = m[p][far]
      /\ m2[up].parent = m[p].parent /\ m2[up][near] = m[up][near] /\ m2[up][far] = p
      /\ m2[p].height = Above(m2, p) /\ m2[up].height = Above(m2, up)
      /\ \A q \in DOMAIN m \ {p, up} :
           /\ m2[q].left = m[q].left /\ m2[q].right = m[q].right
           /\ m2[q].parent = IF q = inner THEN p ELSE m[q].parent
           /\ m2[q].height = m[q].height
           /\ q # inner => m2[q] = m[q]

(* A node none of whose fields has changed is the same. *)
LEMMA NothingMoved ==
  ASSUME NEW l, IsNode(l), NEW l2, OnlyLinksMoved(l, l2),
         l2.parent = l.parent, l2.left = l.left, l2.right = l.right, l2.height = l.height
  PROVE  l2 = l
<1> DEFINE k == [l EXCEPT !.parent = l.parent, !.left = l.left, !.right = l.right, !.height = l.height]
<1>1. k = l
  BY DEF IsNode, Fields
<1> QED BY <1>1 DEF OnlyLinksMoved

(* The same children with the same heights. *)
LEMMA AboveKept ==
  ASSUME NEW m, NEW m2, NEW p,
         \A dir \in Dirs : m2[p][dir] = m[p][dir] /\ Height(m2, m[p][dir]) = Height(m, m[p][dir])
  PROVE  Above(m2, p) = Above(m, p)
BY DEF Above, Dirs

(* What Rotate does to every link and to the two heights it sets. *)
LEMMA RotateMoves ==
  ASSUME NEW t, IsState(t), IsArena(t.m), NIL \notin DOMAIN t.m,
         NEW p \in DOMAIN t.m, NEW near \in Dirs,
         t.m[p][near] \in DOMAIN t.m \ {p},
         t.m[p][Opposite(near)] \in (DOMAIN t.m \cup {NIL}) \ {p, t.m[p][near]},
         \A dir \in Dirs : t.m[t.m[p][near]][dir] \in (DOMAIN t.m \cup {NIL}) \ {p, t.m[p][near]}
  PROVE  LET r == Rotate(t, p, near)
         IN  /\ IsState(r)
             /\ IsRotation(t.m, r.m, p, near)
             /\ r.top = t.m[p][near]
             /\ r.tree = IF t.m[p].parent = NIL /\ t.tree # NIL THEN t.m[p][near] ELSE t.tree
             /\ r.rot = t.rot
<1> DEFINE m == t.m
           D == DOMAIN m
           far == Opposite(near)
           up == m[p][near]
           inner == m[up][far]
           above == m[p].parent
           m1 == [m EXCEPT ![p][near] = inner]
           m2 == SetHeight(m1, p)
           m3 == Reparent(m2, inner, p)
           m4 == [m3 EXCEPT ![up][far] = p]
           m5 == SetHeight(m4, up)
           m6 == [m5 EXCEPT ![up].parent = above]
           m7 == [m6 EXCEPT ![p].parent = up]
           tree == IF above = NIL /\ t.tree # NIL THEN up ELSE t.tree
           r == [m |-> m7, tree |-> tree, top |-> up, rot |-> t.rot]
<1>1. Rotate(t, p, near) = r
  <2>1. Rotate(t, p, near) = [t EXCEPT !.m = m7, !.tree = tree, !.top = up]
    BY DEF Rotate, IsState
  <2> HIDE DEF m7, tree, up
  <2> QED BY <2>1 DEF IsState
<1>2. /\ far \in Dirs /\ far # near /\ {near, far} = Dirs
      /\ Dirs \subseteq Fields \ {"parent", "height"} /\ "parent" \in Fields /\ "height" \in Fields
      /\ Fields = {near, far, "parent", "height"}
  BY DEF Opposite, Dirs, Fields
<1> HIDE DEF far
<1>3. IsPut(m, m1, p, near, inner)
  BY <1>2, Put
<1>4. DOMAIN m1 = D /\ IsArena(m1)
  BY <1>3 DEF IsPut, KeepsRest
<1>5. \A dir \in Dirs : m1[p][dir] \in DOMAIN m1 \cup {NIL}
  <2>1. m1[p][near] = inner /\ m1[p][far] = m[p][far]
    BY <1>2, <1>3 DEF IsPut
  <2>2. inner \in D \cup {NIL} /\ m[p][far] \in D \cup {NIL}
    BY <1>2 DEF far
  <2> QED BY <1>2, <1>4, <2>1, <2>2
<1> HIDE DEF m1
<1>6. IsPut(m1, m2, p, "height", Above(m1, p))
  BY <1>4, <1>5, SetHeightPuts
<1>7. DOMAIN m2 = D /\ IsArena(m2)
  BY <1>4, <1>6 DEF IsPut, KeepsRest
<1> HIDE DEF m2
<1>8. IF inner = NIL THEN m3 = m2 ELSE IsPut(m2, m3, inner, "parent", p)
  <2>1. inner # NIL => inner \in DOMAIN m2
    BY <1>2, <1>7
  <2>2. inner # NIL => IsPut(m2, m3, inner, "parent", p)
    BY <1>7, <2>1, ReparentPuts
  <2> QED BY <2>2 DEF Reparent
<1>9. DOMAIN m3 = D /\ IsArena(m3)
  BY <1>7, <1>8 DEF IsPut, KeepsRest
<1> HIDE DEF m3
<1>10. IsPut(m3, m4, up, far, p)
  BY <1>2, <1>9, Put
<1>11. DOMAIN m4 = D /\ IsArena(m4)
  BY <1>9, <1>10 DEF IsPut, KeepsRest
<1> HIDE DEF m4
<1>12. \A dir \in Dirs : m4[up][dir] \in DOMAIN m4 \cup {NIL}
  <2>1. m4[up][far] = p
    BY <1>2, <1>9, <1>10 DEF IsPut
  <2>2. m4[up][near] = m[up][near]
    <3>1. m4[up][near] = m3[up][near]
      BY <1>2, <1>9, <1>10 DEF IsPut
    <3>2. m3[up][near] = m2[up][near]
      BY <1>2, <1>7, <1>8 DEF IsPut
    <3>3. m2[up][near] = m1[up][near]
      BY <1>2, <1>4, <1>6 DEF IsPut
    <3>4. m1[up][near] = m[up][near]
      BY <1>2, <1>3 DEF IsPut
    <3> QED BY <3>1, <3>2, <3>3, <3>4
  <2> QED BY <1>2, <1>11, <2>1, <2>2
<1>13. IsPut(m4, m5, up, "height", Above(m4, up))
  BY <1>11, <1>12, SetHeightPuts
<1>14. DOMAIN m5 = D /\ IsArena(m5)
  BY <1>11, <1>13 DEF IsPut, KeepsRest
<1> HIDE DEF m5
<1>15. IsPut(m5, m6, up, "parent", above)
  <2>1. IsPut(m5, [m5 EXCEPT ![up]["parent"] = above], up, "parent", above)
    BY <1>2, <1>14, Put
  <2> QED BY <2>1
<1>16. DOMAIN m6 = D /\ IsArena(m6)
  BY <1>14, <1>15 DEF IsPut, KeepsRest
<1> HIDE DEF m6
<1>17. IsPut(m6, m7, p, "parent", up)
  <2>1. IsPut(m6, [m6 EXCEPT ![p]["parent"] = up], p, "parent", up)
    BY <1>2, <1>16, Put
  <2> QED BY <2>1
<1>18. DOMAIN m7 = D /\ IsArena(m7)
  BY <1>16, <1>17 DEF IsPut, KeepsRest
<1> HIDE DEF m7
<1>19. KeepsRest(m, m7)
  <2>1. KeepsRest(m, m1) /\ KeepsRest(m1, m2) /\ KeepsRest(m3, m4) /\ KeepsRest(m4, m5)
        /\ KeepsRest(m5, m6) /\ KeepsRest(m6, m7)
    BY <1>3, <1>6, <1>10, <1>13, <1>15, <1>17 DEF IsPut
  <2>2. KeepsRest(m, m2)
    BY <2>1, RestIsKept
  <2>3. KeepsRest(m, m3)
    BY <1>8, <2>2, RestIsKept DEF IsPut
  <2>4. KeepsRest(m, m4)
    BY <2>1, <2>3, RestIsKept
  <2>5. KeepsRest(m, m5)
    BY <2>1, <2>4, RestIsKept
  <2>6. KeepsRest(m, m6)
    BY <2>1, <2>5, RestIsKept
  <2> QED BY <2>1, <2>6, RestIsKept
<1>20. \A q \in D, g \in Fields \ {"height"} :
         m7[q][g] = IF q = p /\ g = "parent" THEN up
                    ELSE IF q = up /\ g = "parent" THEN above
                    ELSE IF q = up /\ g = far THEN p
                    ELSE IF q = inner /\ g = "parent" THEN p
                    ELSE IF q = p /\ g = near THEN inner
                    ELSE m[q][g]
  <2> SUFFICES ASSUME NEW q \in D, NEW g \in Fields \ {"height"}
               PROVE  m7[q][g] = IF q = p /\ g = "parent" THEN up
                    ELSE IF q = up /\ g = "parent" THEN above
                    ELSE IF q = up /\ g = far THEN p
                    ELSE IF q = inner /\ g = "parent" THEN p
                    ELSE IF q = p /\ g = near THEN inner
                    ELSE m[q][g]
    OBVIOUS
  <2>1. m7[q][g] = IF q = p /\ g = "parent" THEN up ELSE m6[q][g]
    BY <1>16, <1>17 DEF IsPut
  <2>2. m6[q][g] = IF q = up /\ g = "parent" THEN above ELSE m5[q][g]
    BY <1>14, <1>15 DEF IsPut
  <2>3. m5[q][g] = m4[q][g]
    BY <1>11, <1>13 DEF IsPut
  <2>4. m4[q][g] = IF q = up /\ g = far THEN p ELSE m3[q][g]
    BY <1>9, <1>10 DEF IsPut
  <2>5. m3[q][g] = IF q = inner /\ g = "parent" THEN p ELSE m2[q][g]
    BY <1>7, <1>8 DEF IsPut
  <2>6. m2[q][g] = m1[q][g]
    BY <1>4, <1>6 DEF IsPut
  <2>7. m1[q][g] = IF q = p /\ g = near THEN inner ELSE m[q][g]
    BY <1>3 DEF IsPut
  <2> HIDE DEF up, inner, above
  <2> QED BY <2>1, <2>2, <2>3, <2>4, <2>5, <2>6, <2>7
<1>21. \A q \in D \ {p, up} : m7[q].height = m[q].height
  <2> SUFFICES ASSUME NEW q \in D \ {p, up} PROVE m7[q].height = m[q].height
    OBVIOUS
  <2>1. m7[q].height = m6[q].height
    BY <1>2, <1>16, <1>17 DEF IsPut
  <2>2. m6[q].height = m5[q].height
    BY <1>2, <1>14, <1>15 DEF IsPut
  <2>3. m5[q].height = m4[q].height
    BY <1>2, <1>11, <1>13 DEF IsPut
  <2>4. m4[q].height = m3[q].height
    BY <1>2, <1>9, <1>10 DEF IsPut
  <2>5. m3[q].height = m2[q].height
    BY <1>2, <1>7, <1>8 DEF IsPut
  <2>6. m2[q].height = m1[q].height
    BY <1>2, <1>4, <1>6 DEF IsPut
  <2>7. m1[q].height = m[q].height
    BY <1>2, <1>3 DEF IsPut
  <2> QED BY <2>1, <2>2, <2>3, <2>4, <2>5, <2>6, <2>7
<1>22. up \in D /\ up # p /\ inner # p /\ inner # up
  BY <1>2
<1>23. m7[p].height = Above(m7, p) /\ m7[up].height = Above(m7, up)
  <2>1. ASSUME NEW q \in D PROVE m7[q].height = m5[q].height /\ m4[q].height = m2[q].height
    <3>1. m7[q].height = m6[q].height
      BY <1>2, <1>16, <1>17 DEF IsPut
    <3>2. m6[q].height = m5[q].height
      BY <1>2, <1>14, <1>15 DEF IsPut
    <3>3. m4[q].height = m3[q].height
      BY <1>2, <1>9, <1>10 DEF IsPut
    <3>4. m3[q].height = m2[q].height
      BY <1>2, <1>7, <1>8 DEF IsPut
    <3> QED BY <3>1, <3>2, <3>3, <3>4
  <2>2. ASSUME NEW q \in D PROVE /\ m5[q].height = IF q = up THEN Above(m4, up) ELSE m4[q].height
                                 /\ m2[q].height = IF q = p THEN Above(m1, p) ELSE m1[q].height
                                 /\ m1[q].height = m[q].height
    <3>1. m5[q].height = IF q = up THEN Above(m4, up) ELSE m4[q].height
      BY <1>2, <1>11, <1>13 DEF IsPut
    <3>2. m2[q].height = IF q = p THEN Above(m1, p) ELSE m1[q].height
      BY <1>2, <1>4, <1>6 DEF IsPut
    <3>3. m1[q].height = m[q].height
      BY <1>2, <1>3 DEF IsPut
    <3> QED BY <3>1, <3>2, <3>3
  <2>3. \A dir \in Dirs : /\ m7[p][dir] = m1[p][dir] /\ m7[up][dir] = m4[up][dir]
                          /\ m1[p][dir] \in (D \cup {NIL}) \ {p, up}
                          /\ m4[up][dir] \in (D \cup {NIL}) \ {up}
    <3>1. m1[p][near] = inner /\ m1[p][far] = m[p][far]
      BY <1>2, <1>3 DEF IsPut
    <3>2. m4[up][far] = p
      BY <1>2, <1>9, <1>10 DEF IsPut
    <3>3. m4[up][near] = m[up][near]
      <4>1. m4[up][near] = m3[up][near]
        BY <1>2, <1>9, <1>10 DEF IsPut
      <4>2. m3[up][near] = m2[up][near]
        BY <1>2, <1>7, <1>8 DEF IsPut
      <4>3. m2[up][near] = m1[up][near]
        BY <1>2, <1>4, <1>6 DEF IsPut
      <4>4. m1[up][near] = m[up][near]
        BY <1>2, <1>3 DEF IsPut
      <4> QED BY <4>1, <4>2, <4>3, <4>4
    <3>4. m7[p][near] = inner /\ m7[p][far] = m[p][far] /\ m7[up][near] = m[up][near] /\ m7[up][far] = p
      BY <1>2, <1>20, <1>22
    <3>5. m[p][far] \in (D \cup {NIL}) \ {p, up}
      BY DEF far
    <3> QED BY <1>2, <3>1, <3>2, <3>3, <3>4, <3>5
  <2>4. m7[p].height = Above(m7, p)
    <3>1. \A dir \in Dirs : Height(m7, m1[p][dir]) = Height(m1, m1[p][dir])
      BY <1>21, <2>2, <2>3 DEF Height
    <3>2. Above(m7, p) = Above(m1, p)
      BY <2>3, <3>1, AboveKept
    <3> QED BY <1>22, <2>1, <2>2, <3>2
  <2>5. m7[up].height = Above(m7, up)
    <3>1. \A q \in D \ {up} : m7[q].height = m4[q].height
      BY <2>1, <2>2
    <3>2. \A dir \in Dirs : Height(m7, m4[up][dir]) = Height(m4, m4[up][dir])
      BY <2>3, <3>1 DEF Height
    <3>3. Above(m7, up) = Above(m4, up)
      BY <2>3, <3>2, AboveKept
    <3> QED BY <1>22, <2>1, <2>2, <3>3
  <2> QED BY <2>4, <2>5
<1>24. IsRotation(m, m7, p, near)
  <2> HIDE DEF up, inner, above
  <2>1. \A q \in D \ {p, up} :
           /\ m7[q].left = m[q].left /\ m7[q].right = m[q].right
           /\ m7[q].parent = IF q = inner THEN p ELSE m[q].parent
           /\ m7[q].height = m[q].height
    BY <1>2, <1>20, <1>21 DEF Fields
  <2>2. \A q \in D \ {p, up} : q # inner => m7[q] = m[q]
    <3> SUFFICES ASSUME NEW q \in D \ {p, up}, q # inner PROVE m7[q] = m[q]
      OBVIOUS
    <3>1. OnlyLinksMoved(m[q], m7[q]) /\ IsNode(m[q])
      BY <1>19 DEF KeepsRest, IsArena
    <3>2. m7[q].parent = m[q].parent /\ m7[q].left = m[q].left /\ m7[q].right = m[q].right
          /\ m7[q].height = m[q].height
      BY <2>1, <3>1
    <3> QED BY <3>1, <3>2, NothingMoved
  <2>3. m7[p].parent = up /\ m7[p][near] = inner /\ m7[p][far] = m[p][far]
    BY <1>2, <1>20, <1>22
  <2>4. m7[up].parent = above /\ m7[up][near] = m[up][near] /\ m7[up][far] = p
    BY <1>2, <1>20, <1>22
  <2> QED BY <1>18, <1>19, <1>23, <2>1, <2>2, <2>3, <2>4 DEF IsRotation, up, inner, above, far
<1> HIDE DEF tree
<1>25. IsState(r) /\ r.m = m7 /\ r.top = up /\ r.rot = t.rot /\ r.tree = tree
  BY DEF IsState
<1> HIDE DEF r
<1> QED BY <1>1, <1>24, <1>25 DEF tree

-----------------------------------------------------------------------------
(* Search trees. *)

(* q is on the side dir of p; the prices below a child, which may be NIL. *)
On(dir, q, p) == IF dir = "left" THEN q < p ELSE p < q
Below(U, c) == IF c = NIL THEN {} ELSE U[c]

(* The limit p agrees with its children, its parent and U[p], the prices at *)
(* and below it.                                                            *)
NodeOK(m, U, p) ==
  /\ p \in U[p]
  /\ U[p] = {p} \cup Below(U, m[p].left) \cup Below(U, m[p].right)
  /\ \A dir \in Dirs : m[p][dir] # NIL =>
       /\ m[p][dir] \in DOMAIN m
       /\ m[m[p][dir]].parent = p
       /\ \A q \in U[m[p][dir]] : On(dir, q, p)
  /\ m[p].parent # NIL =>
       /\ m[p].parent \in DOMAIN m
       /\ m[m[p].parent][Toward(p, m[p].parent)] = p

(* m is a search tree with this root, and U[p] are the prices at and below *)
(* p.                                                                      *)
IsTree(m, U, root) ==
  /\ DOMAIN m \subseteq Price /\ IsFiniteSet(DOMAIN m)
  /\ U \in [DOMAIN m -> SUBSET DOMAIN m]
  /\ root \in DOMAIN m /\ U[root] = DOMAIN m
  /\ \A p \in DOMAIN m : m[p].parent = NIL <=> p = root
  /\ \A p \in DOMAIN m : NodeOK(m, U, p)

(* What a node of a tree knows of its children, by direction. *)
LEMMA NodeFacts ==
  ASSUME NEW m, NEW U, NEW root, IsTree(m, U, root), NEW p \in DOMAIN m, NEW near \in Dirs
  PROVE  /\ NIL \notin DOMAIN m /\ DOMAIN m \subseteq Int
         /\ p \in U[p] /\ U[p] \subseteq DOMAIN m
         /\ U[p] = {p} \cup Below(U, m[p][near]) \cup Below(U, m[p][Opposite(near)])
         /\ m[p][near] # NIL =>
              /\ m[p][near] \in DOMAIN m \ {p} /\ m[m[p][near]].parent = p
              /\ U[m[p][near]] \subseteq U[p] \ {p}
              /\ \A q \in U[m[p][near]] : On(near, q, p) /\ Toward(q, p) = near
              /\ m[p][near] \in U[m[p][near]]
              /\ Toward(m[p][near], p) = near
         /\ m[p].parent # NIL =>
              /\ m[p].parent \in DOMAIN m \ {p}
              /\ m[m[p].parent][Toward(p, m[p].parent)] = p
              /\ Toward(p, m[p].parent) \in Dirs
              /\ U[p] \subseteq U[m[p].parent] \ {m[p].parent}
<1>1. NIL \notin DOMAIN m /\ DOMAIN m \subseteq Int
  BY NilIsNoPrice, PricesAreIntegers DEF IsTree
<1>2. NodeOK(m, U, p) /\ U[p] \subseteq DOMAIN m
  BY DEF IsTree
<1>3. p \in U[p] /\ U[p] = {p} \cup Below(U, m[p][near]) \cup Below(U, m[p][Opposite(near)])
  BY <1>2 DEF NodeOK, Dirs, Opposite
<1>4. ASSUME NEW x \in DOMAIN m, NEW dir \in Dirs, m[x][dir] # NIL
      PROVE  /\ m[x][dir] \in DOMAIN m \ {x} /\ m[m[x][dir]].parent = x
             /\ U[m[x][dir]] \subseteq U[x] \ {x}
             /\ \A q \in U[m[x][dir]] : On(dir, q, x) /\ Toward(q, x) = dir
             /\ m[x][dir] \in U[m[x][dir]]
             /\ Toward(m[x][dir], x) = dir
  <2> DEFINE c == m[x][dir]
  <2>1. NodeOK(m, U, x) /\ x \in Int
    BY <1>1 DEF IsTree
  <2>2. c \in DOMAIN m /\ m[c].parent = x /\ \A q \in U[c] : On(dir, q, x)
    BY <1>4, <2>1 DEF NodeOK
  <2>3. NodeOK(m, U, c) /\ U[c] \subseteq DOMAIN m
    BY <2>2 DEF IsTree
  <2>4. c \in U[c]
    BY <2>3 DEF NodeOK
  <2>5. U[c] \subseteq U[x]
    BY <1>4, <2>1 DEF NodeOK, Below, Dirs
  <2> HIDE DEF c
  <2>6. \A q \in U[c] : On(dir, q, x) /\ Toward(q, x) = dir /\ q # x
    BY <1>1, <2>1, <2>2, <2>3 DEF On, Toward, Dirs
  <2> QED BY <2>2, <2>4, <2>5, <2>6 DEF c
<1>5. ASSUME m[p].parent # NIL
      PROVE  /\ m[p].parent \in DOMAIN m \ {p}
             /\ m[m[p].parent][Toward(p, m[p].parent)] = p
             /\ Toward(p, m[p].parent) \in Dirs
             /\ U[p] \subseteq U[m[p].parent] \ {m[p].parent}
  <2> DEFINE a == m[p].parent
  <2>1. a \in DOMAIN m /\ m[a][Toward(p, a)] = p
    BY <1>2, <1>5 DEF NodeOK
  <2>2. Toward(p, a) \in Dirs
    BY DEF Toward, Dirs
  <2>3. p # NIL
    BY <1>1
  <2> HIDE DEF a
  <2>4. p \in DOMAIN m \ {a} /\ U[p] \subseteq U[a] \ {a}
    BY <1>4, <2>1, <2>2, <2>3
  <2> QED BY <2>1, <2>2, <2>4 DEF a
<1> QED BY <1>1, <1>2, <1>3, <1>4, <1>5

(* The prices below the two limits a rotation turns. *)
RotatedU(m, U, p, near) ==
  LET up == m[p][near]
  IN  [U EXCEPT ![p] = U[p] \ ({up} \cup Below(U, m[up][near])), ![up] = U[p]]

(* A rotation of a search tree gives a search tree of the same prices. *)
LEMMA RotateKeepsTree ==
  ASSUME NEW m, NEW U, NEW root, IsTree(m, U, root), NEW p \in DOMAIN m, NEW near \in Dirs,
         m[p][near] # NIL, NEW m7, IsRotation(m, m7, p, near)
  PROVE  LET up    == m[p][near]
             above == m[p].parent
         IN  /\ IsTree(Relink(m7, above, p, up), RotatedU(m, U, p, near), IF above = NIL THEN up ELSE root)
             /\ IsArena(Relink(m7, above, p, up))
             /\ \A q \in DOMAIN m \ U[p] : m7[q] = m[q]
<1> DEFINE D == DOMAIN m
           far == Opposite(near)
           up == m[p][near]
           inner == m[up][far]
           outer == m[up][near]
           above == m[p].parent
           dir == Toward(p, above)
           m8 == Relink(m7, above, p, up)
           U2 == RotatedU(m, U, p, near)
           root2 == IF above = NIL THEN up ELSE root
<1>1. /\ far \in Dirs /\ far # near /\ {near, far} = Dirs /\ Opposite(far) = near
      /\ \A x, y \in Int : On(near, x, y) <=> On(far, y, x)
      /\ \A x, y \in Int : ~ (On(near, x, y) /\ On(far, x, y))
  BY DEF Opposite, Dirs, On
<1>2. NIL \notin D /\ D \subseteq Int /\ U[p] \subseteq D
  BY NodeFacts
<1>3. /\ up \in D \ {p} /\ m[up].parent = p /\ U[up] \subseteq U[p] \ {p}
      /\ \A q \in U[up] : On(near, q, p) /\ Toward(q, p) = near
      /\ up \in U[up] /\ p \in U[p]
      /\ U[p] = {p} \cup U[up] \cup Below(U, m[p][far])
  BY NodeFacts DEF Below
<1>4. U[up] = {up} \cup Below(U, outer) \cup Below(U, inner)
  BY <1>3, NodeFacts
<1>5. inner # NIL => /\ inner \in D \ {p, up} /\ m[inner].parent = up
                     /\ U[inner] \subseteq U[up] \ {up} /\ inner \in U[inner]
                     /\ \A q \in U[inner] : On(far, q, up)
  <2>1. up \in D
    BY <1>3
  <2>2. inner # NIL => /\ inner \in D \ {up} /\ m[inner].parent = up
                     /\ U[inner] \subseteq U[up] \ {up} /\ inner \in U[inner]
                     /\ \A q \in U[inner] : On(far, q, up)
    BY <1>1, <2>1, NodeFacts
  <2> QED BY <1>3, <2>2
<1>6. outer # NIL => /\ outer \in D \ {p, up} /\ m[outer].parent = up
                     /\ U[outer] \subseteq U[up] \ {up} /\ outer \in U[outer]
                     /\ \A q \in U[outer] : On(near, q, up)
  <2>1. up \in D
    BY <1>3
  <2>2. outer # NIL => /\ outer \in D \ {up} /\ m[outer].parent = up
                     /\ U[outer] \subseteq U[up] \ {up} /\ outer \in U[outer]
                     /\ \A q \in U[outer] : On(near, q, up)
    BY <2>1, NodeFacts
  <2> QED BY <1>3, <2>2
<1> DEFINE sib == m[p][far]
<1>7. sib # NIL => /\ sib \in D \ {p} /\ m[sib].parent = p
                   /\ U[sib] \subseteq U[p] \ {p} /\ sib \in U[sib]
                   /\ \A q \in U[sib] : On(far, q, p)
  BY <1>1, NodeFacts
<1>8. above # NIL => /\ above \in D \ {p} /\ m[above][dir] = p /\ dir \in Dirs
                     /\ U[p] \subseteq U[above] \ {above}
  BY NodeFacts
<1>9. above \notin U[p]
  BY <1>2, <1>8
<1>10. /\ m7[p].parent = up /\ m7[p][near] = inner /\ m7[p][far] = sib
       /\ m7[up].parent = above /\ m7[up][near] = outer /\ m7[up][far] = p
       /\ \A q \in D \ {p, up} :
            /\ \A d \in Dirs : m7[q][d] = m[q][d]
            /\ m7[q].parent = IF q = inner THEN p ELSE m[q].parent
            /\ q # inner => m7[q] = m[q]
       /\ IsArena(m7) /\ DOMAIN m7 = D
  BY DEF IsRotation, Dirs, KeepsRest
<1> HIDE DEF D, far, up, inner, outer, sib, above
<1>11. IF above = NIL THEN m8 = m7 ELSE IsPut(m7, m8, above, dir, up)
  BY <1>8, <1>10, RelinkPuts DEF Relink
<1>12. IsArena(m8) /\ DOMAIN m8 = D
  BY <1>10, <1>11 DEF IsPut, KeepsRest
<1> HIDE DEF dir
<1>13. \A q \in D :
         /\ m8[q].parent = m7[q].parent
         /\ \A d \in Dirs : m8[q][d] = IF q = above /\ d = dir THEN up ELSE m7[q][d]
  BY <1>2, <1>8, <1>10, <1>11 DEF IsPut, Dirs, Fields
<1> HIDE DEF m8
<1>14. /\ above # p /\ above # up /\ inner # p /\ inner # up
       /\ above # NIL => above # inner
  <2>1. p \in U[p] /\ up \in U[p] /\ (inner # NIL => inner \in U[p])
    BY <1>3, <1>5
  <2> QED BY <1>2, <1>3, <1>5, <1>8, <1>9, <2>1
<1>15. /\ U2 \in [D -> SUBSET D]
       /\ U2[up] = U[p]
       /\ \A q \in D \ {p, up} : U2[q] = U[q]
       /\ U2[p] = U[p] \ ({up} \cup Below(U, outer))
  <2>1. U \in [D -> SUBSET D]
    BY DEF IsTree, D
  <2>2. U2 = [U EXCEPT ![p] = U[p] \ ({up} \cup Below(U, outer)), ![up] = U[p]]
    BY DEF RotatedU, up, outer
  <2>3. p \in D /\ up \in D /\ p # up
    BY <1>3 DEF D
  <2> HIDE DEF U2
  <2> QED BY <1>2, <2>1, <2>2, <2>3
<1> HIDE DEF U2
<1>16. Below(U, inner) \cap Below(U, outer) = {} /\ Below(U, sib) \cap U[up] = {}
       /\ Below(U, inner) \subseteq U[up] \ {up} /\ Below(U, outer) \subseteq U[up] \ {up}
       /\ Below(U, sib) \subseteq D
  <2>1. U[up] \subseteq Int /\ U[p] \subseteq Int /\ up \in Int /\ p \in Int
    BY <1>2, <1>3
  <2>2. Below(U, sib) \subseteq U[p]
    BY <1>7 DEF Below
  <2>3. Below(U, inner) \subseteq U[up] \ {up} /\ Below(U, outer) \subseteq U[up] \ {up}
    BY <1>5, <1>6 DEF Below
  <2>4. \A x \in Below(U, inner) : On(far, x, up)
    BY <1>5 DEF Below
  <2>5. \A x \in Below(U, outer) : On(near, x, up)
    BY <1>6 DEF Below
  <2>6. \A x \in Below(U, sib) : On(far, x, p)
    BY <1>7 DEF Below
  <2>7. Below(U, inner) \cap Below(U, outer) = {}
    BY <1>1, <2>1, <2>3, <2>4, <2>5
  <2>8. Below(U, sib) \cap U[up] = {}
    BY <1>1, <1>3, <2>1, <2>2, <2>6
  <2> QED BY <1>2, <2>2, <2>3, <2>7, <2>8
<1>17. U2[p] = {p} \cup Below(U, inner) \cup Below(U, sib)
  <2>1. p \notin U[up] /\ up \notin Below(U, sib) /\ up \notin Below(U, inner)
    BY <1>3, <1>16
  <2>2. U[p] = {p} \cup {up} \cup Below(U, outer) \cup Below(U, inner) \cup Below(U, sib)
    BY <1>3, <1>4 DEF sib
  <2> QED BY <1>3, <1>15, <1>16, <2>1, <2>2
<1>18. /\ Below(U2, inner) = Below(U, inner) /\ Below(U2, outer) = Below(U, outer)
       /\ Below(U2, sib) = Below(U, sib) /\ p \in D /\ up \in D
  <2>1. sib # NIL => sib # up
    BY <1>3, <1>7, <1>16 DEF Below
  <2> QED BY <1>3, <1>5, <1>6, <1>7, <1>15, <2>1 DEF Below, D
<1>19. NodeOK(m8, U2, p)
  <2>1. m8[p].parent = up /\ m8[p][near] = inner /\ m8[p][far] = sib /\ m8[up][far] = p
    BY <1>1, <1>10, <1>13, <1>14, <1>18
  <2>2. U2[p] = {p} \cup Below(U2, m8[p].left) \cup Below(U2, m8[p].right)
    BY <1>1, <1>17, <1>18, <2>1 DEF Dirs
  <2>3. ASSUME inner # NIL
        PROVE  inner \in D /\ m8[inner].parent = p /\ \A q \in U2[inner] : On(near, q, p)
    <3>1. m8[inner].parent = p
      BY <1>5, <1>10, <1>13, <1>14, <2>3
    <3>2. U2[inner] \subseteq U[up]
      BY <1>5, <1>15, <2>3
    <3> QED BY <1>3, <1>5, <2>3, <3>1, <3>2
  <2>4. ASSUME sib # NIL
        PROVE  sib \in D /\ m8[sib].parent = p /\ \A q \in U2[sib] : On(far, q, p)
    <3>1. sib # up /\ sib # inner
      BY <1>3, <1>5, <1>7, <1>16, <2>4 DEF Below
    <3>2. m8[sib].parent = p
      BY <1>7, <1>10, <1>13, <2>4, <3>1
    <3> QED BY <1>7, <1>15, <2>4, <3>1, <3>2
  <2>5. \A d \in Dirs : m8[p][d] # NIL =>
            /\ m8[p][d] \in DOMAIN m8 /\ m8[m8[p][d]].parent = p
            /\ \A q \in U2[m8[p][d]] : On(d, q, p)
    BY <1>1, <1>12, <2>1, <2>3, <2>4
  <2>6. Toward(p, up) = far
    <3>1. On(near, up, p) /\ up \in Int /\ p \in Int
      BY <1>2, <1>3, <1>18
    <3> QED BY <1>1, <3>1 DEF On, Toward, Dirs
  <2> QED BY <1>12, <1>17, <1>18, <2>1, <2>2, <2>5, <2>6 DEF NodeOK
<1>20. NodeOK(m8, U2, up)
  <2>1. m8[up].parent = above /\ m8[up][near] = outer /\ m8[up][far] = p
    BY <1>1, <1>10, <1>13, <1>14, <1>18
  <2>2. U2[up] = {up} \cup Below(U2, m8[up].left) \cup Below(U2, m8[up].right)
    <3>1. U2[up] = {up} \cup Below(U, outer) \cup U2[p]
      BY <1>3, <1>4, <1>15, <1>17 DEF sib
    <3>2. Below(U2, p) = U2[p]
      BY <1>2, <1>18 DEF Below
    <3> QED BY <1>1, <1>18, <2>1, <3>1, <3>2 DEF Dirs
  <2>3. ASSUME outer # NIL
        PROVE  outer \in D /\ m8[outer].parent = up /\ \A q \in U2[outer] : On(near, q, up)
    <3>1. outer # inner
      BY <1>5, <1>6, <1>16, <2>3 DEF Below
    <3>2. m8[outer].parent = up
      BY <1>6, <1>10, <1>13, <2>3, <3>1
    <3> QED BY <1>6, <1>15, <2>3, <3>1, <3>2
  <2>4. p \in D /\ m8[p].parent = up /\ \A q \in U2[p] : On(far, q, up)
    <3>1. m8[p].parent = up
      BY <1>10, <1>13, <1>18
    <3>2. \A q \in Below(U, inner) : On(far, q, up)
      BY <1>5 DEF Below
    <3>3. On(near, up, p) /\ up \in Int /\ p \in Int
      BY <1>2, <1>3, <1>18
    <3>4. \A q \in Below(U, sib) : On(far, q, up)
      <4>1. \A q \in Below(U, sib) : On(far, q, p) /\ q \in Int
        BY <1>2, <1>7, <1>16 DEF Below
      <4> QED BY <1>1, <3>3, <4>1 DEF On, Dirs
    <3> QED BY <1>1, <1>17, <1>18, <3>1, <3>2, <3>3, <3>4
  <2>5. \A d \in Dirs : m8[up][d] # NIL =>
            /\ m8[up][d] \in DOMAIN m8 /\ m8[m8[up][d]].parent = up
            /\ \A q \in U2[m8[up][d]] : On(d, q, up)
    BY <1>1, <1>12, <2>1, <2>3, <2>4
  <2>6. above # NIL => m8[above][Toward(up, above)] = up
    <3> SUFFICES ASSUME above # NIL PROVE m8[above][Toward(up, above)] = up
      OBVIOUS
    <3>1. U[p] \subseteq U[m[above][dir]] /\ m[above][dir] # NIL
      BY <1>2, <1>8, <1>18
    <3>2. \A q \in U[m[above][dir]] : Toward(q, above) = dir
      BY <1>8, <3>1, NodeFacts DEF D
    <3>3. Toward(up, above) = dir
      BY <1>3, <3>1, <3>2
    <3> QED BY <1>8, <1>13, <3>3
  <2> QED BY <1>3, <1>8, <1>12, <1>15, <2>1, <2>2, <2>5, <2>6 DEF NodeOK
<1>21. ASSUME NEW q \in D \ {p, up} PROVE NodeOK(m8, U2, q)
  <2>1. ASSUME NEW x \in D, NEW d \in Dirs, m[x][d] # NIL
        PROVE  m[x][d] \in D /\ m[m[x][d]].parent = x /\ Toward(m[x][d], x) = d
               /\ \A y \in U[m[x][d]] : On(d, y, x)
    BY <2>1, NodeFacts DEF D
  <2>2. ASSUME NEW d \in Dirs
        PROVE  /\ Below(U2, m8[q][d]) = Below(U, m[q][d])
               /\ m8[q][d] # NIL => m8[q][d] \in D /\ m8[m8[q][d]].parent = q
                                    /\ \A y \in U2[m8[q][d]] : On(d, y, q)
    <3>1. CASE q = above /\ d = dir
      <4>1. m8[q][d] = up /\ m[q][d] = p /\ m8[up].parent = above /\ p # NIL /\ up # NIL
        BY <1>2, <1>8, <1>10, <1>13, <1>18, <3>1
      <4>2. \A y \in U[p] : On(d, y, q)
        BY <2>1, <4>1
      <4> QED BY <1>15, <1>18, <3>1, <4>1, <4>2 DEF Below
    <3>2. CASE ~ (q = above /\ d = dir)
      <4>1. m8[q][d] = m[q][d]
        BY <1>10, <1>13, <3>2
      <4>2. ASSUME m[q][d] # NIL
            PROVE  m[q][d] \in D \ {p, up, inner}
        <5>1. m[q][d] # up /\ m[q][d] # inner
          BY <1>3, <1>5, <2>1, <4>2
        <5>2. m[q][d] # p
          BY <2>1, <3>2, <4>2 DEF above, dir
        <5> QED BY <2>1, <4>2, <5>1, <5>2
      <4>3. m[q][d] # NIL => m8[m[q][d]].parent = q /\ U2[m[q][d]] = U[m[q][d]]
        BY <1>10, <1>13, <1>15, <2>1, <4>2
      <4> QED BY <2>1, <4>1, <4>2, <4>3 DEF Below
    <3> QED BY <3>1, <3>2
  <2>3. NodeOK(m, U, q)
    BY DEF IsTree, D
  <2>4. q \in U2[q] /\ U2[q] = {q} \cup Below(U2, m8[q].left) \cup Below(U2, m8[q].right)
    <3>1. U2[q] = U[q]
      BY <1>15
    <3>2. Below(U2, m8[q].left) = Below(U, m[q].left) /\ Below(U2, m8[q].right) = Below(U, m[q].right)
      BY <2>2 DEF Dirs
    <3> QED BY <2>3, <3>1, <3>2 DEF NodeOK
  <2>5. ASSUME m8[q].parent # NIL
        PROVE  m8[q].parent \in D /\ m8[m8[q].parent][Toward(q, m8[q].parent)] = q
    <3>1. CASE q = inner
      <4>1. m8[q].parent = p
        BY <1>10, <1>13, <3>1
      <4>2. inner # NIL
        BY <1>2, <3>1
      <4>3. Toward(q, p) = near
        BY <1>3, <1>5, <3>1, <4>2
      <4>4. m8[p][near] = inner
        BY <1>1, <1>10, <1>13, <1>14, <1>18
      <4> QED BY <1>18, <3>1, <4>1, <4>3, <4>4
    <3>2. CASE q # inner
      <4> DEFINE a == m[q].parent
                 e == Toward(q, a)
      <4>1. m8[q].parent = a
        BY <1>10, <1>13, <3>2
      <4>2. a \in D /\ m[a][e] = q /\ e \in Dirs
        BY <2>3, <2>5, <4>1 DEF NodeOK, D, Toward, Dirs
      <4> HIDE DEF e
      <4>3. m8[a][e] = q
        <5>1. CASE a = p
          <6>1. e = far
            BY <1>1, <4>2, <5>1 DEF up
          <6> QED BY <1>10, <1>13, <1>14, <4>2, <5>1, <6>1 DEF sib
        <5>2. CASE a = up
          <6>1. e = near
            BY <1>1, <3>2, <4>2, <5>2 DEF inner
          <6> QED BY <1>10, <1>13, <1>14, <4>2, <5>2, <6>1 DEF outer
        <5>3. CASE a # p /\ a # up
          <6>1. ~ (a = above /\ e = dir)
            BY <1>2, <1>8, <4>2
          <6> QED BY <1>10, <1>13, <4>2, <5>3, <6>1
        <5> QED BY <5>1, <5>2, <5>3
      <4> QED BY <4>1, <4>2, <4>3 DEF e
    <3> QED BY <3>1, <3>2
  <2> QED BY <1>12, <2>2, <2>4, <2>5 DEF NodeOK
<1>22. \A q \in D : m8[q].parent = NIL <=> q = root2
  <2>1. \A q \in D : m[q].parent = NIL <=> q = root
    BY DEF IsTree, D
  <2>2. m8[p].parent = up /\ m8[up].parent = above
    BY <1>10, <1>13, <1>18
  <2>3. ASSUME NEW q \in D \ {p, up} PROVE m8[q].parent = IF q = inner THEN p ELSE m[q].parent
    BY <1>10, <1>13
  <2>4. m[p].parent = above /\ m[up].parent = p
    BY <1>3 DEF above
  <2>5. inner # NIL => m[inner].parent = up
    BY <1>5
  <2> QED BY <1>2, <1>18, <2>1, <2>2, <2>3, <2>4, <2>5
<1>23. root2 \in D /\ U2[root2] = D
  <2>1. root \in D /\ U[root] = D /\ \A q \in D : m[q].parent = NIL <=> q = root
    BY DEF IsTree, D
  <2>2. above = NIL <=> p = root
    BY <1>18, <2>1 DEF above
  <2>3. root # up
    BY <1>2, <1>3, <1>18, <2>1
  <2> QED BY <1>15, <1>18, <2>1, <2>2, <2>3
<1>24. IsTree(m8, U2, root2)
  <2>1. D \subseteq Price /\ IsFiniteSet(D)
    BY DEF IsTree, D
  <2> QED BY <1>12, <1>15, <1>19, <1>20, <1>21, <1>22, <1>23, <2>1 DEF IsTree
<1>25. \A q \in D \ U[p] : m7[q] = m[q]
  <2>1. p \in U[p] /\ up \in U[p] /\ (inner # NIL => inner \in U[p])
    BY <1>3, <1>5
  <2> QED BY <1>2, <1>10, <2>1
<1> QED BY <1>12, <1>24, <1>25 DEF m8, U2, root2, up, above, D

-----------------------------------------------------------------------------
(* Rotations. *)

(* t has become r by what was done to the subtree of p: a tree once the     *)
(* parent of p has been told of the new head of the subtree.                *)
Rebuilt(t, r, U, V, root, p) ==
  LET above == t.m[p].parent
  IN  /\ IsState(r) /\ IsArena(r.m) /\ KeepsRest(t.m, r.m)
      /\ IsArena(Relink(r.m, above, p, r.top))
      /\ IsTree(Relink(r.m, above, p, r.top), V, IF above = NIL THEN r.top ELSE root)
      /\ r.top \in U[p]
      /\ r.tree = IF above = NIL /\ t.tree # NIL THEN r.top ELSE t.tree
      /\ r.m[r.top].parent = above
      /\ \A q \in DOMAIN t.m \ U[p] : r.m[q] = t.m[q] /\ V[q] = U[q]

(* In a search tree there is nothing in the way of a rotation. *)
LEMMA RotateTurns ==
  ASSUME NEW t, IsState(t), IsArena(t.m), NEW U, NEW root, IsTree(t.m, U, root),
         NEW p \in DOMAIN t.m, NEW near \in Dirs, t.m[p][near] # NIL
  PROVE  LET r == Rotate(t, p, near)
         IN  /\ IsState(r) /\ IsRotation(t.m, r.m, p, near) /\ r.top = t.m[p][near]
             /\ r.tree = IF t.m[p].parent = NIL /\ t.tree # NIL THEN t.m[p][near] ELSE t.tree
             /\ r.rot = t.rot
<1> DEFINE m == t.m
           up == m[p][near]
           far == Opposite(near)
<1>1. far \in Dirs /\ {near, far} = Dirs /\ Opposite(far) = near /\ near # far
  BY DEF Opposite, Dirs
<1>2. /\ NIL \notin DOMAIN m /\ up \in DOMAIN m \ {p} /\ up \in U[p] /\ p \in U[p]
      /\ U[up] \subseteq U[p] \ {p}
  BY NodeFacts
<1>3. m[p][far] # NIL => m[p][far] \in DOMAIN m \ {p, up}
  <2>1. m[p][far] # NIL => m[p][far] \in DOMAIN m \ {p} /\ Toward(m[p][far], p) = far
    BY <1>1, NodeFacts
  <2>2. Toward(up, p) = near
    BY NodeFacts
  <2> QED BY <1>1, <2>1, <2>2
<1>4. \A d \in Dirs : m[up][d] # NIL => m[up][d] \in DOMAIN m \ {up} /\ m[up][d] \in U[up]
  BY <1>2, NodeFacts
<1>5. \A d \in Dirs : m[up][d] \in (DOMAIN m \cup {NIL}) \ {p, up}
  BY <1>2, <1>4
<1>6. m[p][far] \in (DOMAIN m \cup {NIL}) \ {p, up}
  BY <1>2, <1>3
<1> QED BY <1>2, <1>5, <1>6, RotateMoves

(* A rotation rebuilds the subtree of p. *)
LEMMA RotateRebuilds ==
  ASSUME NEW t, IsState(t), IsArena(t.m), NEW U, NEW root, IsTree(t.m, U, root),
         NEW p \in DOMAIN t.m, NEW near \in Dirs, t.m[p][near] # NIL
  PROVE  LET r == Rotate(t, p, near)
         IN  \E V : /\ Rebuilt(t, r, U, V, root, p)
                    /\ r.top = t.m[p][near]
<1> DEFINE m == t.m
           up == m[p][near]
           r == Rotate(t, p, near)
           V == RotatedU(m, U, p, near)
<1>1. /\ NIL \notin DOMAIN m /\ up \in DOMAIN m \ {p} /\ m[up].parent = p /\ up \in U[p] /\ p \in U[p]
      /\ U[up] \subseteq U[p] \ {p} /\ U[p] \subseteq DOMAIN m
  BY NodeFacts
<1>2. /\ IsState(r) /\ IsRotation(m, r.m, p, near) /\ r.top = up
      /\ r.tree = IF m[p].parent = NIL /\ t.tree # NIL THEN up ELSE t.tree
  BY RotateTurns
<1> HIDE DEF r
<1>3. /\ IsTree(Relink(r.m, m[p].parent, p, up), V, IF m[p].parent = NIL THEN up ELSE root)
      /\ IsArena(Relink(r.m, m[p].parent, p, up))
      /\ \A q \in DOMAIN m \ U[p] : r.m[q] = m[q]
  BY <1>2, RotateKeepsTree
<1>4. IsArena(r.m) /\ KeepsRest(m, r.m) /\ r.m[up].parent = m[p].parent
  BY <1>2 DEF IsRotation
<1>5. \A q \in DOMAIN m \ U[p] : V[q] = U[q]
  <2>1. U \in [DOMAIN m -> SUBSET DOMAIN m]
    BY DEF IsTree
  <2> QED BY <1>1, <2>1 DEF RotatedU
<1> HIDE DEF V
<1>6. Rebuilt(t, r, U, V, root, p)
  BY <1>1, <1>2, <1>3, <1>4, <1>5 DEF Rebuilt
<1> QED BY <1>2, <1>6 DEF r

(* A rotation at the child of p and, once p has been told of its new child, *)
(* one at p.                                                                *)
IsDoubleRotation(m, m3, p, near) ==
  LET far   == Opposite(near)
      child == m[p][near]
  IN  \E m1, m2 : /\ IsRotation(m, m1, child, far)
                 /\ IsPut(m1, m2, p, near, m[child][far])
                 /\ IsRotation(m2, m3, p, near)

(* So do the two rotations of lr_rotate and rl_rotate. *)
LEMMA DoubleRotateRebuilds ==
  ASSUME NEW t, IsState(t), IsArena(t.m), NEW U, NEW root, IsTree(t.m, U, root),
         NEW p \in DOMAIN t.m, NEW near \in Dirs, t.m[p][near] # NIL,
         t.m[t.m[p][near]][Opposite(near)] # NIL
  PROVE  LET r == DoubleRotate(t, p, near)
         IN  /\ \E V : Rebuilt(t, r, U, V, root, p)
             /\ IsDoubleRotation(t.m, r.m, p, near)
             /\ r.top = t.m[t.m[p][near]][Opposite(near)]
             /\ r.rot = t.rot
<1> DEFINE m == t.m
           child == m[p][near]
           far == Opposite(near)
           grand == m[child][far]
           in == Rotate(t, child, far)
           m2 == [in.m EXCEPT ![p][near] = grand]
           t2 == [m |-> m2, tree |-> in.tree, top |-> in.top, rot |-> in.rot]
           r == Rotate(t2, p, near)
<1>1. far \in Dirs
  BY DEF Opposite, Dirs
<1>2. /\ NIL \notin DOMAIN m /\ child \in DOMAIN m \ {p} /\ m[child].parent = p
      /\ child \in U[p] /\ p \in U[p] /\ child \in U[child] /\ Toward(child, p) = near
      /\ U[child] \subseteq U[p] \ {p} /\ U[p] \subseteq DOMAIN m
  BY NodeFacts
<1>3. IsRotation(m, in.m, child, far) /\ in.rot = t.rot
  <2> DEFINE c == child
  <2>1. c \in DOMAIN m /\ m[c][far] # NIL
    BY <1>2
  <2> HIDE DEF c
  <2>2. IsRotation(m, Rotate(t, c, far).m, c, far) /\ Rotate(t, c, far).rot = t.rot
    BY <1>1, <2>1, RotateTurns
  <2> QED BY <2>2 DEF c
<1>4. PICK U1 : Rebuilt(t, in, U, U1, root, child) /\ in.top = grand
  <2> DEFINE c == child
  <2>1. c \in DOMAIN m /\ m[c][far] # NIL
    BY <1>2
  <2> HIDE DEF c
  <2>2. \E U1 : Rebuilt(t, Rotate(t, c, far), U, U1, root, c) /\ Rotate(t, c, far).top = m[c][far]
    BY <1>1, <2>1, RotateRebuilds
  <2> QED BY <2>2 DEF c
<1>5. p # NIL
  BY <1>2
<1> HIDE DEF in
<1>6. m2 = Relink(in.m, p, child, in.top)
  BY <1>2, <1>4, <1>5 DEF Relink
<1> HIDE DEF m2
<1>7. /\ IsState(in) /\ IsArena(in.m) /\ KeepsRest(m, in.m) /\ IsArena(m2) /\ IsTree(m2, U1, root)
      /\ in.tree = t.tree
      /\ \A q \in DOMAIN m \ U[child] : in.m[q] = m[q] /\ U1[q] = U[q]
  BY <1>2, <1>4, <1>5, <1>6 DEF Rebuilt
<1>8. DOMAIN in.m = DOMAIN m
  BY <1>7 DEF KeepsRest
<1>9. IsPut(in.m, m2, p, near, grand)
  <2>1. near \in Fields /\ near # "height"
    BY DEF Dirs, Fields
  <2> QED BY <1>7, <1>8, <2>1, Put DEF m2
<1>10. DOMAIN m2 = DOMAIN m /\ KeepsRest(m, m2)
  BY <1>7, <1>8, <1>9, RestIsKept DEF IsPut, KeepsRest
<1>11. m2[p].parent = m[p].parent /\ m2[p][near] = grand /\ U1[p] = U[p]
  <2>1. near # "parent" /\ near \in Fields /\ "parent" \in Fields
    BY DEF Dirs, Fields
  <2>2. in.m[p] = m[p]
    BY <1>2, <1>7
  <2> QED BY <1>2, <1>7, <1>8, <1>9, <2>1, <2>2 DEF IsPut
<1>12. grand # NIL
  OBVIOUS
<1> HIDE DEF grand
<1>13. IsState(t2) /\ t2.m = m2 /\ t2.tree = t.tree /\ t2.rot = t.rot
  BY <1>7, <1>3 DEF IsState
<1> HIDE DEF t2
<1>14. PICK V : Rebuilt(t2, r, U1, V, root, p)
  BY <1>7, <1>10, <1>11, <1>12, <1>13, RotateRebuilds
<1>15. IsRotation(m2, r.m, p, near) /\ r.top = grand /\ r.rot = t.rot
  BY <1>7, <1>10, <1>11, <1>12, <1>13, RotateTurns
<1>16. DoubleRotate(t, p, near) = r
  <2>1. [in EXCEPT !.m[p][near] = grand] = t2
    BY <1>7 DEF IsState, t2, m2
  <2> QED BY <2>1 DEF DoubleRotate, in, grand
<1> HIDE DEF r
<1>17. \A q \in DOMAIN m \ U[p] : r.m[q] = m[q] /\ V[q] = U[q]
  <2> SUFFICES ASSUME NEW q \in DOMAIN m \ U[p] PROVE r.m[q] = m[q] /\ V[q] = U[q]
    OBVIOUS
  <2>1. q \in DOMAIN m2 \ U1[p] /\ q # p /\ q \notin U[child]
    BY <1>2, <1>10, <1>11
  <2>2. r.m[q] = m2[q] /\ V[q] = U1[q]
    BY <1>13, <1>14, <2>1 DEF Rebuilt
  <2>3. m2[q] = in.m[q]
    BY <1>7, <1>8, <2>1 DEF m2, IsArena
  <2> QED BY <1>7, <2>1, <2>2, <2>3
<1>18. KeepsRest(m, r.m)
  <2>1. KeepsRest(m2, r.m)
    BY <1>13, <1>14 DEF Rebuilt
  <2> QED BY <1>10, <2>1, RestIsKept
<1>19. Rebuilt(t, r, U, V, root, p)
  BY <1>11, <1>13, <1>14, <1>17, <1>18 DEF Rebuilt
<1>20. IsDoubleRotation(m, r.m, p, near)
  BY <1>9, <1>3, <1>15 DEF IsDoubleRotation, grand
<1> QED BY <1>16, <1>19, <1>15, <1>20 DEF grand

(* t may be counted: the rotations do not matter *)
LEMMA HeightIsNat ==
  ASSUME NEW m, IsArena(m), NEW c, c \in DOMAIN m \cup {NIL}
  PROVE  Height(m, c) \in Nat /\ (c = NIL => Height(m, c) = 0)
BY DEF Height, IsArena, IsNode

(* balance_tree rebuilds the subtree of p, whatever the stored heights are: *)
(* where it descends to a grandchild, there is one.                         *)
LEMMA BalanceRebuilds ==
  ASSUME NEW t, IsState(t), IsArena(t.m), NEW U, NEW root, IsTree(t.m, U, root),
         NEW p \in DOMAIN t.m, t.tree \in {NIL, root}
  PROVE  \E V : Rebuilt(t, BalanceTree(t, p), U, V, root, p)
<1> DEFINE m == t.m
           bf == BalanceFactor(m, p)
           left == m[p].left
           right == m[p].right
           counted(r) == [r EXCEPT !.rot = @ + 1]
<1>1. \A q \in DOMAIN m, d \in Dirs : m[q][d] \in DOMAIN m \cup {NIL}
  BY NodeFacts
<1>2. NIL \notin DOMAIN m /\ p \in U[p] /\ U[p] \subseteq DOMAIN m
  <2>1. "left" \in Dirs
    BY DEF Dirs
  <2> QED BY <2>1, NodeFacts
<1>3. \A q \in DOMAIN m : /\ BalanceFactor(m, q) \in Int
                          /\ BalanceFactor(m, q) > 0 => m[q].left # NIL
                          /\ BalanceFactor(m, q) < 0 => m[q].right # NIL
  BY <1>1, HeightIsNat DEF BalanceFactor, Dirs
<1>4. ASSUME NEW r, NEW V, Rebuilt(t, r, U, V, root, p)
      PROVE  Rebuilt(t, counted(r), U, V, root, p)
  <2>1. IsState(counted(r)) /\ counted(r).m = r.m /\ counted(r).tree = r.tree /\ counted(r).top = r.top
    BY <1>4 DEF Rebuilt, IsState
  <2> HIDE DEF counted
  <2> QED BY <1>4, <2>1 DEF Rebuilt
<1>5. ASSUME NEW near \in Dirs, m[p][near] # NIL, NEW single \in BOOLEAN,
             ~ single => m[m[p][near]][Opposite(near)] # NIL
      PROVE  \E V : Rebuilt(t, counted(IF single THEN Rotate(t, p, near) ELSE DoubleRotate(t, p, near)),
                            U, V, root, p)
  <2> HIDE DEF counted
  <2>1. CASE single
    <3>1. PICK V : Rebuilt(t, Rotate(t, p, near), U, V, root, p)
      BY <1>5, RotateRebuilds
    <3> QED BY <1>4, <2>1, <3>1
  <2>2. CASE ~ single
    <3>1. PICK V : Rebuilt(t, DoubleRotate(t, p, near), U, V, root, p)
      BY <1>5, <2>2, DoubleRotateRebuilds
    <3> QED BY <1>4, <2>2, <3>1
  <2> QED BY <1>5, <2>1, <2>2
<1>6. CASE bf >= 2
  <2> DEFINE single == BalanceFactor(m, left) >= 0
  <2>1. left # NIL /\ left \in DOMAIN m
    BY <1>1, <1>3, <1>6 DEF Dirs
  <2>2. single \in BOOLEAN
    OBVIOUS
  <2>3. ~ single => m[left].right # NIL
    BY <1>3, <2>1
  <2>4. BalanceTree(t, p) = counted(IF single THEN Rotate(t, p, "left") ELSE DoubleRotate(t, p, "left"))
    BY <1>3, <1>6 DEF BalanceTree
  <2>5. "left" \in Dirs /\ Opposite("left") = "right"
    BY DEF Dirs, Opposite
  <2> HIDE DEF single, counted
  <2> QED BY <1>5, <2>1, <2>2, <2>3, <2>4, <2>5
<1>7. CASE bf <= -2
  <2> DEFINE single == BalanceFactor(m, right) <= 0
  <2>1. right # NIL /\ right \in DOMAIN m
    BY <1>1, <1>3, <1>7 DEF Dirs
  <2>2. single \in BOOLEAN
    OBVIOUS
  <2>3. ~ single => m[right].left # NIL
    BY <1>3, <2>1
  <2>4. BalanceTree(t, p) = counted(IF single THEN Rotate(t, p, "right") ELSE DoubleRotate(t, p, "right"))
    BY <1>3, <1>7 DEF BalanceTree
  <2>5. "right" \in Dirs /\ Opposite("right") = "left"
    BY DEF Dirs, Opposite
  <2> HIDE DEF single, counted
  <2> QED BY <1>5, <2>1, <2>2, <2>3, <2>4, <2>5
<1>8. CASE ~ (bf >= 2) /\ ~ (bf <= -2)
  <2> DEFINE r == [t EXCEPT !.top = p]
  <2>1. BalanceTree(t, p) = r
    BY <1>8 DEF BalanceTree
  <2>2. IsState(r) /\ r.m = m /\ r.top = p /\ r.tree = t.tree
    BY DEF IsState
  <2> HIDE DEF r
  <2>3. Rebuilt(t, r, U, U, root, p)
    <3> DEFINE a == m[p].parent
               e == Toward(p, a)
    <3>1. a # NIL => a \in DOMAIN m /\ m[a][e] = p /\ e \in Dirs
      <4>1. "left" \in Dirs
        BY DEF Dirs
      <4> QED BY <4>1, NodeFacts
    <3>2. Relink(m, a, p, p) = m
      <4>1. CASE a = NIL
        BY <4>1 DEF Relink
      <4>2. CASE a # NIL
        <5> DEFINE l == m[a]
        <5>1. [l EXCEPT ![e] = p] = l
          <6>1. IsNode(l)
            BY <3>1, <4>2 DEF IsArena
          <6>2. l[e] = p
            BY <3>1, <4>2
          <6> HIDE DEF l, e
          <6> QED BY <6>1, <6>2 DEF IsNode
        <5>2. Relink(m, a, p, p) = [m EXCEPT ![a] = [l EXCEPT ![e] = p]]
          BY <4>2 DEF Relink
        <5> HIDE DEF e
        <5>3. [m EXCEPT ![a] = l] = m
          BY DEF IsArena
        <5> QED BY <5>1, <5>2, <5>3
      <4> QED BY <4>1, <4>2
    <3>3. a = NIL <=> p = root
      BY DEF IsTree
    <3>4. KeepsRest(m, m)
      BY DEF KeepsRest, OnlyLinksMoved, IsArena, IsNode
    <3> HIDE DEF a
    <3> QED BY <1>2, <2>2, <3>2, <3>3, <3>4 DEF Rebuilt, a
  <2> QED BY <2>1, <2>3
<1> QED BY <1>3, <1>6, <1>7, <1>8

(* balance_tree counts one rebalance at most. *)
LEMMA BalanceCounts ==
  ASSUME NEW t, IsState(t), NEW p, BalanceFactor(t.m, p) \in Int
  PROVE  BalanceTree(t, p).rot \in {t.rot, t.rot + 1}
<1> DEFINE counted(r) == [r EXCEPT !.rot = @ + 1]
<1>1. ASSUME NEW q, NEW near, NEW s, IsState(s), s.rot = t.rot
      PROVE  IsState(Rotate(s, q, near)) /\ Rotate(s, q, near).rot = t.rot
  <2>1. \E m2, tree2, top2 :
          Rotate(s, q, near) = [s EXCEPT !.m = m2, !.tree = tree2, !.top = top2]
    BY Zenon DEF Rotate
  <2>2. PICK m2, tree2, top2 :
          Rotate(s, q, near) = [s EXCEPT !.m = m2, !.tree = tree2, !.top = top2]
    BY <2>1
  <2> QED BY <1>1, <2>2 DEF IsState
<1>2. ASSUME NEW q, NEW near
      PROVE  IsState(DoubleRotate(t, q, near)) /\ DoubleRotate(t, q, near).rot = t.rot
  <2> DEFINE inner == Rotate(t, t.m[q][near], Opposite(near))
             grand == t.m[t.m[q][near]][Opposite(near)]
             turned == [inner EXCEPT !.m[q][near] = grand]
  <2>1. IsState(inner) /\ inner.rot = t.rot
    BY <1>1
  <2>2. DoubleRotate(t, q, near) = Rotate(turned, q, near)
    BY DEF DoubleRotate
  <2> HIDE DEF inner, grand
  <2>3. IsState(turned) /\ turned.rot = t.rot
    BY <2>1 DEF IsState
  <2> HIDE DEF turned
  <2> QED BY <1>1, <2>2, <2>3
<1>3. \A r : IsState(r) /\ r.rot = t.rot => counted(r).rot = t.rot + 1
  BY DEF IsState
<1>4. ASSUME NEW near, NEW single
      PROVE  counted(IF single THEN Rotate(t, p, near) ELSE DoubleRotate(t, p, near)).rot = t.rot + 1
  <2>1. IsState(Rotate(t, p, near)) /\ Rotate(t, p, near).rot = t.rot
    BY <1>1
  <2>2. IsState(DoubleRotate(t, p, near)) /\ DoubleRotate(t, p, near).rot = t.rot
    BY <1>2
  <2> HIDE DEF counted
  <2> QED BY <1>3, <2>1, <2>2
<1> DEFINE bf == BalanceFactor(t.m, p)
           onLeft == BalanceFactor(t.m, t.m[p].left) >= 0
           onRight == BalanceFactor(t.m, t.m[p].right) <= 0
<1>5. CASE bf >= 2
  <2>1. BalanceTree(t, p)
          = counted(IF onLeft THEN Rotate(t, p, "left") ELSE DoubleRotate(t, p, "left"))
    BY <1>5 DEF BalanceTree
  <2> HIDE DEF counted, onLeft
  <2> QED BY <1>4, <2>1
<1>6. CASE bf <= -2
  <2>1. BalanceTree(t, p)
          = counted(IF onRight THEN Rotate(t, p, "right") ELSE DoubleRotate(t, p, "right"))
    BY <1>6 DEF BalanceTree
  <2> HIDE DEF counted, onRight
  <2> QED BY <1>4, <2>1
<1>7. CASE ~ (bf >= 2) /\ ~ (bf <= -2)
  <2>1. BalanceTree(t, p) = [t EXCEPT !.top = p]
    BY <1>7 DEF BalanceTree
  <2> QED BY <2>1 DEF IsState
<1> QED BY <1>5, <1>6, <1>7

(* Where a limit and its children are limits, the balance factor is a       *)
(* number.                                                                  *)
LEMMA FactorIsInt ==
  ASSUME NEW m, IsArena(m), NEW U, NEW root, IsTree(m, U, root), NEW p \in DOMAIN m
  PROVE  BalanceFactor(m, p) \in Int
<1>1. \A d \in Dirs : m[p][d] \in DOMAIN m \cup {NIL}
  BY NodeFacts
<1>2. \A d \in Dirs : Height(m, m[p][d]) \in Nat
  BY <1>1, HeightIsNat
<1> QED BY <1>2 DEF BalanceFactor, Dirs

-----------------------------------------------------------------------------
(* Paths and induction over trees. *)

(* Paths: to go from every q to nxt[q], until that is nil. *)
PathAt(f, nxt, nil, q) == IF nxt[q] = nil THEN <<q>> ELSE <<q>> \o f[nxt[q]]
ArePaths(f, D, nxt, nil) == f = [q \in D |-> PathAt(f, nxt, nil, q)]

(* Such paths exist where every step goes down in rank. *)
LEMMA PathsExist ==
  ASSUME NEW D, NEW nxt, NEW rank, NEW nil, NEW N \in Nat,
         \A q \in D : rank[q] \in 0..N,
         \A q \in D : nxt[q] # nil => nxt[q] \in D /\ rank[nxt[q]] < rank[q]
  PROVE  \E f : ArePaths(f, D, nxt, nil)
<1> DEFINE T == {n \in Nat : \E f : \A q \in D : rank[q] <= n => f[q] = PathAt(f, nxt, nil, q)}
           Step(f) == [q \in D |-> PathAt(f, nxt, nil, q)]
<1>1. ASSUME NEW f, NEW n \in Nat, \A q \in D : rank[q] < n => f[q] = PathAt(f, nxt, nil, q)
      PROVE  \A q \in D : rank[q] <= n => Step(f)[q] = PathAt(Step(f), nxt, nil, q)
  <2> SUFFICES ASSUME NEW q \in D, rank[q] <= n
               PROVE  Step(f)[q] = PathAt(Step(f), nxt, nil, q)
    OBVIOUS
  <2>1. nxt[q] # nil => nxt[q] \in D /\ rank[nxt[q]] < n
    OBVIOUS
  <2>2. nxt[q] # nil => Step(f)[nxt[q]] = f[nxt[q]]
    BY <1>1, <2>1
  <2>3. Step(f)[q] = PathAt(f, nxt, nil, q)
    OBVIOUS
  <2> HIDE DEF Step
  <2> QED BY <2>2, <2>3 DEF PathAt
<1>2. 0 \in T
  <2> DEFINE f0 == [q \in D |-> <<q>>]
  <2>1. \A q \in D : rank[q] < 0 => f0[q] = PathAt(f0, nxt, nil, q)
    OBVIOUS
  <2> HIDE DEF f0
  <2>2. \A q \in D : rank[q] <= 0 => Step(f0)[q] = PathAt(Step(f0), nxt, nil, q)
    BY <1>1, <2>1
  <2> HIDE DEF Step
  <2> QED BY <2>2
<1>3. \A n \in Nat : n \in T => n + 1 \in T
  <2> SUFFICES ASSUME NEW n \in Nat, n \in T PROVE n + 1 \in T
    OBVIOUS
  <2>1. PICK f : \A q \in D : rank[q] <= n => f[q] = PathAt(f, nxt, nil, q)
    OBVIOUS
  <2>2. \A q \in D : rank[q] < n + 1 => f[q] = PathAt(f, nxt, nil, q)
    BY <2>1
  <2>3. n + 1 \in Nat
    OBVIOUS
  <2>4. \A q \in D : rank[q] <= n + 1 => Step(f)[q] = PathAt(Step(f), nxt, nil, q)
    BY <1>1, <2>2, <2>3
  <2> HIDE DEF Step
  <2> QED BY <2>4
<1> HIDE DEF T
<1>4. Nat \subseteq T
  BY <1>2, <1>3, NatInductionOnSet
<1>5. PICK f : \A q \in D : rank[q] <= N => f[q] = PathAt(f, nxt, nil, q)
  BY <1>4 DEF T
<1>6. \A q \in D : f[q] = PathAt(f, nxt, nil, q)
  BY <1>5
<1> DEFINE g == [q \in D |-> f[q]]
<1>7. \A q \in D : PathAt(f, nxt, nil, q) = PathAt(g, nxt, nil, q)
  BY DEF PathAt
<1>8. ArePaths(g, D, nxt, nil)
  BY <1>6, <1>7, Zenon DEF ArePaths
<1> QED BY <1>8

(* s goes from q along nxt to its end. *)
IsPath(s, D, nxt, nil, q) ==
  /\ s \in Seq(D) /\ Len(s) \in Nat \ {0}
  /\ s[1] = q
  /\ \A i \in 1..Len(s) - 1 : nxt[s[i]] # nil /\ s[i + 1] = nxt[s[i]]
  /\ nxt[s[Len(s)]] = nil

(* What the recursion defines are paths. *)
LEMMA PathsArePaths ==
  ASSUME NEW D, NEW nxt, NEW rank, NEW nil, NEW N \in Nat,
         \A q \in D : rank[q] \in 0..N,
         \A q \in D : nxt[q] # nil => nxt[q] \in D /\ rank[nxt[q]] < rank[q],
         NEW f, ArePaths(f, D, nxt, nil)
  PROVE  \A q \in D : IsPath(f[q], D, nxt, nil, q)
<1> DEFINE T == {n \in Nat : \A q \in D : rank[q] < n => IsPath(f[q], D, nxt, nil, q)}
<1>1. 0 \in T
  OBVIOUS
<1>2. \A n \in Nat : n \in T => n + 1 \in T
  <2> SUFFICES ASSUME NEW n \in Nat, n \in T, NEW q \in D, rank[q] < n + 1
               PROVE  IsPath(f[q], D, nxt, nil, q)
    OBVIOUS
  <2>1. f[q] = PathAt(f, nxt, nil, q)
    BY DEF ArePaths
  <2>2. CASE nxt[q] = nil
    BY <2>1, <2>2 DEF PathAt, IsPath
  <2>3. CASE nxt[q] # nil
    <3> DEFINE c == nxt[q]
               s == f[c]
    <3>1. c \in D /\ IsPath(s, D, nxt, nil, c)
      BY <2>3
    <3>2. f[q] = <<q>> \o s
      BY <2>1, <2>3 DEF PathAt
    <3> HIDE DEF s
    <3>3. s \in Seq(D) /\ Len(s) \in Nat \ {0} /\ s[1] = c
          /\ (\A i \in 1..Len(s) - 1 : nxt[s[i]] # nil /\ s[i + 1] = nxt[s[i]])
          /\ nxt[s[Len(s)]] = nil
      BY <3>1 DEF IsPath
    <3> DEFINE r == <<q>> \o s
    <3>4. r \in Seq(D) /\ Len(r) = Len(s) + 1 /\ r[1] = q /\ \A i \in 1..Len(s) : r[i + 1] = s[i]
      BY <3>3
    <3> HIDE DEF r, c
    <3>5. \A i \in 1..Len(r) - 1 : nxt[r[i]] # nil /\ r[i + 1] = nxt[r[i]]
      <4> SUFFICES ASSUME NEW i \in 1..Len(s)
                   PROVE  nxt[r[i]] # nil /\ r[i + 1] = nxt[r[i]]
        BY <3>3, <3>4
      <4>1. CASE i = 1
        BY <2>3, <3>3, <3>4, <4>1 DEF c
      <4>2. CASE i # 1
        <5>1. i - 1 \in 1..Len(s) - 1 /\ i = (i - 1) + 1 /\ i - 1 \in 1..Len(s)
          BY <3>3, <4>2
        <5>2. r[i] = s[i - 1] /\ r[i + 1] = s[i]
          BY <3>4, <5>1
        <5>3. nxt[s[i - 1]] # nil /\ s[i] = nxt[s[i - 1]]
          BY <3>3, <5>1
        <5> QED BY <5>2, <5>3
      <4> QED BY <4>1, <4>2
    <3>6. nxt[r[Len(r)]] = nil
      BY <3>3, <3>4
    <3> QED BY <3>2, <3>3, <3>4, <3>5, <3>6 DEF IsPath, r
  <2> QED BY <2>2, <2>3
<1> HIDE DEF T
<1>3. Nat \subseteq T
  BY <1>1, <1>2, NatInductionOnSet
<1>4. \A q \in D : rank[q] < N + 1 /\ N + 1 \in T
  BY <1>3
<1> QED BY <1>4 DEF T

-----------------------------------------------------------------------------
(* Every subtree is finite and smaller than that of the parent. *)
LEMMA Sizes ==
  ASSUME NEW m, NEW U, NEW root, IsTree(m, U, root)
  PROVE  /\ Cardinality(DOMAIN m) \in Nat
         /\ \A p \in DOMAIN m : /\ IsFiniteSet(U[p])
                                /\ Cardinality(U[p]) \in 1..Cardinality(DOMAIN m)
         /\ \A p \in DOMAIN m, d \in Dirs : m[p][d] # NIL =>
              m[p][d] \in DOMAIN m /\ Cardinality(U[m[p][d]]) < Cardinality(U[p])
         /\ \A p \in DOMAIN m : m[p].parent # NIL =>
              m[p].parent \in DOMAIN m /\ Cardinality(U[p]) < Cardinality(U[m[p].parent])
<1>1. IsFiniteSet(DOMAIN m) /\ Cardinality(DOMAIN m) \in Nat
  BY FS_CardinalityType DEF IsTree
<1>2. ASSUME NEW p \in DOMAIN m
      PROVE  IsFiniteSet(U[p]) /\ Cardinality(U[p]) \in 1..Cardinality(DOMAIN m)
  <2>1. p \in U[p] /\ U[p] \subseteq DOMAIN m
    BY NodeFacts DEF Dirs
  <2>2. IsFiniteSet(U[p]) /\ Cardinality(U[p]) \in Nat /\ Cardinality(U[p]) <= Cardinality(DOMAIN m)
    BY <1>1, <2>1, FS_Subset, FS_CardinalityType
  <2>3. Cardinality(U[p]) # 0
    BY <2>1, <2>2, FS_EmptySet
  <2> QED BY <1>1, <2>2, <2>3
<1>3. ASSUME NEW p \in DOMAIN m, NEW c \in DOMAIN m, U[c] \subseteq U[p] \ {p}
      PROVE  Cardinality(U[c]) < Cardinality(U[p])
  <2>1. p \in U[p] /\ IsFiniteSet(U[p])
    BY <1>2, NodeFacts DEF Dirs
  <2>2. Cardinality(U[c]) <= Cardinality(U[p] \ {p}) /\ IsFiniteSet(U[p] \ {p})
    BY <1>3, <2>1, FS_Subset
  <2>3. Cardinality(U[p] \ {p}) = Cardinality(U[p]) - 1
    BY <2>1, FS_RemoveElement
  <2> QED BY <1>2, <2>2, <2>3
<1>4. ASSUME NEW p \in DOMAIN m, NEW d \in Dirs, m[p][d] # NIL
      PROVE  m[p][d] \in DOMAIN m /\ Cardinality(U[m[p][d]]) < Cardinality(U[p])
  BY <1>3, <1>4, NodeFacts
<1>5. ASSUME NEW p \in DOMAIN m, m[p].parent # NIL
      PROVE  m[p].parent \in DOMAIN m /\ Cardinality(U[p]) < Cardinality(U[m[p].parent])
  <2>1. "left" \in Dirs
    BY DEF Dirs
  <2>2. m[p].parent \in DOMAIN m /\ U[p] \subseteq U[m[p].parent] \ {m[p].parent}
    BY <1>5, <2>1, NodeFacts
  <2> QED BY <1>3, <2>2
<1> QED BY <1>1, <1>2, <1>4, <1>5

(* Induction from the leaves up and from the root down. *)
LEMMA UpTheTree ==
  ASSUME NEW m, NEW U, NEW root, IsTree(m, U, root), NEW S,
         \A p \in DOMAIN m : (\A d \in Dirs : m[p][d] # NIL => m[p][d] \in S) => p \in S
  PROVE  DOMAIN m \subseteq S
<1> DEFINE T == {n \in Nat : \A p \in DOMAIN m : Cardinality(U[p]) <= n => p \in S}
<1>1. \A p \in DOMAIN m : Cardinality(U[p]) \in Nat /\ Cardinality(U[p]) > 0
  BY Sizes
<1>2. 0 \in T
  BY <1>1
<1>3. \A n \in Nat : n \in T => n + 1 \in T
  <2> SUFFICES ASSUME NEW n \in Nat, n \in T PROVE n + 1 \in T
    OBVIOUS
  <2> n + 1 \in Nat
    OBVIOUS
  <2> SUFFICES ASSUME NEW p \in DOMAIN m, Cardinality(U[p]) <= n + 1 PROVE p \in S
    OBVIOUS
  <2>1. ASSUME NEW d \in Dirs, m[p][d] # NIL PROVE m[p][d] \in S
    <3>1. m[p][d] \in DOMAIN m /\ Cardinality(U[m[p][d]]) < Cardinality(U[p])
      BY <2>1, Sizes
    <3>2. Cardinality(U[m[p][d]]) <= n
      BY <1>1, <3>1
    <3> QED BY <3>1, <3>2
  <2> QED BY <2>1
<1> HIDE DEF T
<1>4. Nat \subseteq T
  BY <1>2, <1>3, NatInductionOnSet
<1> QED BY <1>1, <1>4 DEF T

(* What the root has, and every child has when its parent has, all have. *)
LEMMA DownTheTree ==
  ASSUME NEW m, NEW U, NEW root, IsTree(m, U, root), NEW S, root \in S,
         \A p \in DOMAIN m : m[p].parent # NIL /\ m[p].parent \in S => p \in S
  PROVE  DOMAIN m \subseteq S
<1>1. PICK N \in Nat : \A p \in DOMAIN m : Cardinality(U[p]) \in 1..N
  BY Sizes
<1> DEFINE T == {n \in Nat : \A p \in DOMAIN m : N - Cardinality(U[p]) < n => p \in S}
<1>2. 0 \in T
  BY <1>1
<1>3. \A n \in Nat : n \in T => n + 1 \in T
  <2> SUFFICES ASSUME NEW n \in Nat, n \in T PROVE n + 1 \in T
    OBVIOUS
  <2> n + 1 \in Nat
    OBVIOUS
  <2> SUFFICES ASSUME NEW p \in DOMAIN m, N - Cardinality(U[p]) < n + 1 PROVE p \in S
    OBVIOUS
  <2>1. CASE m[p].parent = NIL
    BY <2>1 DEF IsTree
  <2>2. CASE m[p].parent # NIL
    <3>1. m[p].parent \in DOMAIN m /\ Cardinality(U[p]) < Cardinality(U[m[p].parent])
      BY <2>2, Sizes
    <3>2. N - Cardinality(U[m[p].parent]) < n
      BY <1>1, <3>1
    <3>3. m[p].parent \in S
      BY <3>1, <3>2
    <3> QED BY <2>2, <3>3
  <2> QED BY <2>1, <2>2
<1> HIDE DEF T
<1>4. Nat \subseteq T
  BY <1>2, <1>3, NatInductionOnSet
<1>5. ASSUME NEW p \in DOMAIN m PROVE p \in S
  <2>1. N \in T /\ N - Cardinality(U[p]) < N
    BY <1>1, <1>4
  <2> QED BY <2>1 DEF T
<1> QED BY <1>5

(* What is below p is below whatever has p below it. *)
LEMMA Nested ==
  ASSUME NEW m, NEW U, NEW root, IsTree(m, U, root)
  PROVE  \A p \in DOMAIN m : \A q \in U[p] :
           U[q] \subseteq U[p] /\ (q # p => m[q].parent # NIL /\ m[q].parent \in U[p])
<1> DEFINE Good(p) == \A q \in U[p] :
             U[q] \subseteq U[p] /\ (q # p => m[q].parent # NIL /\ m[q].parent \in U[p])
           S == {p \in DOMAIN m : Good(p)}
<1>1. ASSUME NEW p \in DOMAIN m, \A d \in Dirs : m[p][d] # NIL => m[p][d] \in S, NEW q \in U[p]
      PROVE  U[q] \subseteq U[p] /\ (q # p => m[q].parent # NIL /\ m[q].parent \in U[p])
  <2> HIDE DEF Good
  <2>1. p \in U[p] /\ NIL \notin DOMAIN m /\ U[p] \subseteq DOMAIN m
        /\ U[p] = {p} \cup Below(U, m[p].left) \cup Below(U, m[p].right)
    BY NodeFacts DEF Dirs, Opposite
  <2>2. ASSUME q # p
        PROVE  \E d \in Dirs : m[p][d] # NIL /\ q \in U[m[p][d]]
    BY <2>1, <2>2 DEF Below, Dirs
  <2>3. ASSUME NEW d \in Dirs, m[p][d] # NIL, q \in U[m[p][d]]
        PROVE  U[q] \subseteq U[p] /\ m[q].parent # NIL /\ m[q].parent \in U[p]
    <3> DEFINE c == m[p][d]
    <3>1. m[c].parent = p /\ U[c] \subseteq U[p] /\ Good(c)
      BY <1>1, <2>3, NodeFacts
    <3> HIDE DEF c
    <3>2. q \in U[c]
      BY <2>3 DEF c
    <3> QED BY <2>1, <3>1, <3>2 DEF Good
  <2> QED BY <2>2, <2>3
<1>2. \A p \in DOMAIN m : (\A d \in Dirs : m[p][d] # NIL => m[p][d] \in S) => p \in S
  BY <1>1
<1> HIDE DEF S
<1>3. DOMAIN m \subseteq S
  BY <1>2, UpTheTree
<1> QED BY <1>3 DEF S

(* What is not below p lies to one side of all that is. *)
LEMMA Apart ==
  ASSUME NEW m, NEW U, NEW root, IsTree(m, U, root)
  PROVE  \A p \in DOMAIN m : \A q \in DOMAIN m \ U[p] :
           (\A x \in U[p] : q < x) \/ (\A x \in U[p] : x < q)
<1> DEFINE Good(p) == \A q \in DOMAIN m \ U[p] : (\A x \in U[p] : q < x) \/ (\A x \in U[p] : x < q)
           S == {p \in DOMAIN m : Good(p)}
<1>1. root \in S
  BY DEF IsTree
<1>2. ASSUME NEW p \in DOMAIN m, m[p].parent # NIL, m[p].parent \in S PROVE p \in S
  <2> SUFFICES ASSUME NEW q \in DOMAIN m \ U[p]
               PROVE  (\A x \in U[p] : q < x) \/ (\A x \in U[p] : x < q)
    OBVIOUS
  <2> DEFINE a == m[p].parent
             d == Toward(p, a)
  <2>1. a \in DOMAIN m \ {p} /\ m[a][d] = p /\ d \in Dirs /\ U[p] \subseteq U[a] \ {a} /\ p # NIL
    BY <1>2, NodeFacts DEF Dirs
  <2> HIDE DEF d
  <2>2. Good(a)
    BY <1>2
  <2> HIDE DEF a
  <2>3. DOMAIN m \subseteq Int /\ U[a] \subseteq DOMAIN m /\ \A x \in U[p] : On(d, x, a)
    BY <2>1, NodeFacts
  <2>4. U[a] = {a} \cup U[p] \cup Below(U, m[a][Opposite(d)])
    BY <2>1, NodeFacts DEF Below
  <2>5. \A x \in Below(U, m[a][Opposite(d)]) : On(Opposite(d), x, a)
    <3>1. Opposite(d) \in Dirs
      BY DEF Opposite, Dirs
    <3> QED BY <2>1, <3>1, NodeFacts DEF Below
  <2>6. CASE q \notin U[a]
    BY <2>1, <2>2, <2>6
  <2>7. CASE q = a
    BY <2>1, <2>3, <2>7 DEF On, Dirs
  <2>8. CASE q \in Below(U, m[a][Opposite(d)])
    <3>1. On(Opposite(d), q, a)
      BY <2>5, <2>8
    <3>2. \A x \in U[p] : x \in Int /\ On(d, x, a)
      BY <2>1, <2>3
    <3>3. q \in Int /\ a \in Int
      BY <2>1, <2>3
    <3>4. CASE d = "left"
      BY <3>1, <3>2, <3>3, <3>4 DEF On, Opposite
    <3>5. CASE d = "right"
      BY <3>1, <3>2, <3>3, <3>5 DEF On, Opposite
    <3> QED BY <2>1, <3>4, <3>5 DEF Dirs
  <2> QED BY <2>4, <2>6, <2>7, <2>8
<1> HIDE DEF S
<1>3. DOMAIN m \subseteq S
  BY <1>1, <1>2, DownTheTree
<1> QED BY <1>3 DEF S

-----------------------------------------------------------------------------
(* The way to a price. *)

(* What is below a lies, with a, to one side of all above a. *)
LEMMA SameSide ==
  ASSUME NEW m, NEW U, NEW root, IsTree(m, U, root),
         NEW b \in DOMAIN m, NEW a \in U[b], a # b, NEW c \in U[a]
  PROVE  c # b /\ Toward(c, b) = Toward(a, b)
<1>1. /\ U[b] \subseteq DOMAIN m /\ NIL \notin DOMAIN m
      /\ U[b] = {b} \cup Below(U, m[b].left) \cup Below(U, m[b].right)
  BY NodeFacts DEF Dirs, Opposite
<1>2. PICK d \in Dirs : m[b][d] # NIL /\ a \in U[m[b][d]]
  BY <1>1 DEF Below, Dirs
<1>3. /\ m[b][d] \in DOMAIN m /\ \A q \in U[m[b][d]] : Toward(q, b) = d
      /\ U[m[b][d]] \subseteq U[b] \ {b}
  BY <1>2, NodeFacts
<1>4. c \in U[m[b][d]]
  BY <1>2, <1>3, Nested
<1> QED BY <1>2, <1>3, <1>4

(* The way from the root to where p belongs. *)
Way(m, U, p) ==
  {q \in DOMAIN m : \A a \in DOMAIN m : q \in U[a] /\ a # q => Toward(p, a) = Toward(q, a)}

(* The root is on the way; so are the next child and the parent of all that *)
(* is.                                                                      *)
LEMMA WayFacts ==
  ASSUME NEW m, NEW U, NEW root, IsTree(m, U, root), NEW p
  PROVE  /\ root \in Way(m, U, p)
         /\ \A q \in Way(m, U, p) :
              /\ m[q][Toward(p, q)] # NIL => m[q][Toward(p, q)] \in Way(m, U, p)
              /\ m[q].parent # NIL => /\ m[q].parent \in Way(m, U, p)
                                      /\ Toward(p, m[q].parent) = Toward(q, m[q].parent)
                                      /\ m[m[q].parent][Toward(p, m[q].parent)] = q
<1>1. root \in DOMAIN m /\ m[root].parent = NIL
  BY DEF IsTree
<1>2. \A a \in DOMAIN m : root \in U[a] => a = root
  BY <1>1, Nested
<1>3. root \in Way(m, U, p)
  BY <1>1, <1>2 DEF Way
<1>4. ASSUME NEW q \in Way(m, U, p), m[q][Toward(p, q)] # NIL
      PROVE  m[q][Toward(p, q)] \in Way(m, U, p)
  <2> DEFINE d == Toward(p, q)
             c == m[q][d]
  <2>1. d \in Dirs /\ q \in DOMAIN m
    BY DEF Toward, Dirs, Way
  <2>2. c \in DOMAIN m /\ m[c].parent = q /\ Toward(c, q) = d /\ c \in U[c] /\ U[c] \subseteq U[q]
    BY <1>4, <2>1, NodeFacts
  <2> HIDE DEF c
  <2>3. ASSUME NEW a \in DOMAIN m, c \in U[a], a # c PROVE Toward(p, a) = Toward(c, a)
    <3>1. CASE a = q
      BY <2>2, <3>1
    <3>2. CASE a # q
      <4>1. q \in U[a]
        BY <2>2, <2>3, Nested
      <4>2. c \in U[q]
        BY <2>2
      <4>3. Toward(c, a) = Toward(q, a)
        BY <2>1, <3>2, <4>1, <4>2, SameSide
      <4>4. Toward(p, a) = Toward(q, a)
        BY <3>2, <4>1 DEF Way
      <4> QED BY <4>3, <4>4
    <3> QED BY <3>1, <3>2
  <2> QED BY <2>2, <2>3 DEF Way, c
<1>5. ASSUME NEW q \in Way(m, U, p), m[q].parent # NIL
      PROVE  /\ m[q].parent \in Way(m, U, p)
             /\ Toward(p, m[q].parent) = Toward(q, m[q].parent)
             /\ m[m[q].parent][Toward(p, m[q].parent)] = q
  <2> DEFINE a == m[q].parent
  <2>1. q \in DOMAIN m /\ \A b \in DOMAIN m : q \in U[b] /\ b # q => Toward(p, b) = Toward(q, b)
    BY DEF Way
  <2>2. a \in DOMAIN m \ {q} /\ m[a][Toward(q, a)] = q /\ U[q] \subseteq U[a] \ {a} /\ q \in U[q]
    BY <1>5, <2>1, NodeFacts DEF Dirs
  <2> HIDE DEF a
  <2>3. Toward(p, a) = Toward(q, a)
    BY <2>1, <2>2
  <2>4. ASSUME NEW b \in DOMAIN m, a \in U[b], b # a PROVE Toward(p, b) = Toward(a, b)
    <3>1. q \in U[a]
      BY <2>2
    <3>2. q # b /\ Toward(q, b) = Toward(a, b)
      BY <2>4, <3>1, SameSide
    <3>3. q \in U[b]
      BY <2>4, <3>1, Nested
    <3> QED BY <2>1, <3>2, <3>3
  <2> QED BY <2>2, <2>3, <2>4 DEF Way, a
<1> QED BY <1>3, <1>4, <1>5

(* A way has one end, and that is below all of it. *)
LEMMA WayEnd ==
  ASSUME NEW m, NEW U, NEW root, IsTree(m, U, root), NEW p,
         NEW q \in Way(m, U, p), m[q][Toward(p, q)] = NIL
  PROVE  \A x \in Way(m, U, p) : q \in U[x]
<1> DEFINE S == {x \in DOMAIN m : x \in Way(m, U, p) => q \in U[x]}
<1>1. q \in DOMAIN m /\ \A a \in DOMAIN m : q \in U[a] /\ a # q => Toward(p, a) = Toward(q, a)
  BY DEF Way
<1>2. root \in S
  BY <1>1 DEF IsTree
<1>3. ASSUME NEW x \in DOMAIN m, m[x].parent # NIL, m[x].parent \in S, x \in Way(m, U, p)
      PROVE  q \in U[x]
  <2> DEFINE a == m[x].parent
             d == Toward(p, a)
  <2>1. a \in Way(m, U, p) /\ m[a][d] = x /\ d \in Dirs
    BY <1>3, WayFacts DEF Toward, Dirs
  <2>2. q \in U[a] /\ a \in DOMAIN m
    BY <1>3, <2>1
  <2>3. x # NIL
    BY NodeFacts DEF Dirs
  <2> HIDE DEF a
  <2>4. q # a
    BY <2>1, <2>3 DEF d
  <2>5. d = Toward(q, a)
    BY <1>1, <2>2, <2>4 DEF d
  <2> HIDE DEF d
  <2>6. U[a] = {a} \cup U[x] \cup Below(U, m[a][Opposite(d)])
    BY <2>1, <2>2, <2>3, NodeFacts DEF Below
  <2>7. \A y \in Below(U, m[a][Opposite(d)]) : Toward(y, a) = Opposite(d)
    <3>1. Opposite(d) \in Dirs
      BY DEF Opposite, Dirs
    <3> QED BY <2>2, <3>1, NodeFacts DEF Below
  <2>8. d # Opposite(d)
    BY DEF Opposite
  <2> QED BY <2>2, <2>4, <2>5, <2>6, <2>7, <2>8
<1>4. \A x \in DOMAIN m : m[x].parent # NIL /\ m[x].parent \in S => x \in S
  BY <1>3
<1> HIDE DEF S
<1>5. DOMAIN m \subseteq S
  BY <1>2, <1>4, DownTheTree
<1> QED BY <1>5 DEF S, Way

(* The prices below every limit once p is added as a leaf. *)
WithLeaf(m, U, p) ==
  [q \in DOMAIN m \cup {p} |-> IF q = p THEN {p}
                               ELSE IF q \in Way(m, U, p) THEN U[q] \cup {p} ELSE U[q]]

(* m is the arena m0 and the new limit of p, whose links are empty. *)
Added(m0, m, p) ==
  /\ p \in Price \ DOMAIN m0
  /\ DOMAIN m = DOMAIN m0 \cup {p} /\ IsArena(m)
  /\ \A q \in DOMAIN m0 : m[q] = m0[q]
  /\ m[p].parent = NIL /\ m[p].left = NIL /\ m[p].right = NIL

(* A leaf linked where the way to it ends gives a search tree. *)
LEMMA LeafAdded ==
  ASSUME NEW m0, NEW U, NEW root, IsTree(m0, U, root), NEW p, NEW m, Added(m0, m, p),
         NEW q \in Way(m0, U, p), m[q][Toward(p, q)] = NIL,
         NEW m1, IsPut(m, m1, p, "parent", q), NEW m2, IsPut(m1, m2, q, Toward(p, q), p)
  PROVE  IsTree(m2, WithLeaf(m0, U, p), root)
<1> DEFINE D == DOMAIN m0
           W == Way(m0, U, p)
           V == WithLeaf(m0, U, p)
           e == Toward(p, q)
<1>1. /\ q \in D /\ p \notin D /\ p # q /\ e \in Dirs /\ NIL \notin D /\ D \subseteq Int /\ p \in Int
      /\ p # NIL /\ W \subseteq D /\ p \in Price
  BY NilIsNoPrice, PricesAreIntegers DEF Way, IsTree, Added, Toward, Dirs
<1>2. /\ DOMAIN m2 = D \cup {p}
      /\ \A x \in D \cup {p}, g \in Fields :
           m2[x][g] = IF x = q /\ g = e THEN p ELSE IF x = p /\ g = "parent" THEN q ELSE m[x][g]
  <2>1. DOMAIN m = D \cup {p} /\ DOMAIN m1 = DOMAIN m /\ DOMAIN m2 = DOMAIN m
    BY DEF Added, IsPut, KeepsRest
  <2>2. \A x \in D \cup {p}, g \in Fields : m1[x][g] = IF x = p /\ g = "parent" THEN q ELSE m[x][g]
    BY <2>1 DEF IsPut
  <2>3. \A x \in D \cup {p}, g \in Fields : m2[x][g] = IF x = q /\ g = e THEN p ELSE m1[x][g]
    BY <2>1 DEF IsPut
  <2> QED BY <2>1, <2>2, <2>3
<1> HIDE DEF e
<1>3. /\ m2[p].parent = q /\ m2[p].left = NIL /\ m2[p].right = NIL
      /\ \A x \in D : /\ m2[x].parent = m0[x].parent
                      /\ \A d \in Dirs : m2[x][d] = IF x = q /\ d = e THEN p ELSE m0[x][d]
  <2>1. Dirs \subseteq Fields /\ "parent" \in Fields /\ "parent" \notin Dirs /\ "left" \in Dirs /\ "right" \in Dirs
    BY DEF Dirs, Fields
  <2>2. \A x \in D : m[x] = m0[x]
    BY DEF Added
  <2>3. m[p].left = NIL /\ m[p].right = NIL
    BY DEF Added
  <2>4. \A x \in D : m2[x].parent = m0[x].parent
    BY <1>1, <1>2, <2>1, <2>2
  <2>5. \A x \in D, d \in Dirs : m2[x][d] = IF x = q /\ d = e THEN p ELSE m0[x][d]
    BY <1>1, <1>2, <2>1, <2>2
  <2>6. m2[p].parent = q
    BY <1>1, <1>2, <2>1
  <2>7. m2[p].left = NIL /\ m2[p].right = NIL
    BY <1>1, <1>2, <2>1, <2>3
  <2> QED BY <2>4, <2>5, <2>6, <2>7
<1>4. /\ V \in [D \cup {p} -> SUBSET (D \cup {p})]
      /\ V[p] = {p}
      /\ \A x \in D : V[x] = IF x \in W THEN U[x] \cup {p} ELSE U[x]
  <2>1. U \in [D -> SUBSET D]
    BY DEF IsTree
  <2> QED BY <1>1, <2>1 DEF WithLeaf
<1> HIDE DEF V
<1>5. NodeOK(m2, V, p)
  <2>1. m2[q][Toward(p, q)] = p
    BY <1>1, <1>3 DEF e
  <2>2. \A d \in Dirs : m2[p][d] = NIL
    BY <1>3 DEF Dirs
  <2>3. V[p] = {p} \cup Below(V, m2[p].left) \cup Below(V, m2[p].right)
    BY <1>3, <1>4 DEF Below
  <2> QED BY <1>1, <1>2, <1>3, <1>4, <2>1, <2>2, <2>3 DEF NodeOK
<1>6. ASSUME NEW x \in D PROVE NodeOK(m2, V, x)
  <2>1. /\ x \in U[x]
        /\ U[x] = {x} \cup Below(U, m0[x].left) \cup Below(U, m0[x].right)
        /\ \A d \in Dirs : m0[x][d] # NIL =>
             /\ m0[x][d] \in D /\ m0[m0[x][d]].parent = x /\ Toward(m0[x][d], x) = d
             /\ \A y \in U[m0[x][d]] : On(d, y, x)
    BY NodeFacts DEF Dirs, Opposite
  <2>2. x \in W => Toward(p, x) \in Dirs /\ On(Toward(p, x), p, x)
    <3>1. x \in Int /\ x # p
      BY <1>1
    <3> QED BY <1>1, <3>1 DEF Toward, On, Dirs
  <2>3. ASSUME NEW d \in Dirs
        PROVE  /\ Below(V, m2[x][d]) = Below(U, m0[x][d]) \cup (IF x \in W /\ d = Toward(p, x) THEN {p} ELSE {})
               /\ m2[x][d] # NIL =>
                    /\ m2[x][d] \in D \cup {p} /\ m2[m2[x][d]].parent = x
                    /\ \A y \in V[m2[x][d]] : On(d, y, x)
    <3>1. CASE x = q /\ d = e
      <4>1. m2[x][d] = p /\ m0[x][d] = NIL
        BY <1>1, <1>3, <3>1 DEF e, Added
      <4>2. x \in W /\ d = Toward(p, x)
        BY <3>1 DEF e
      <4> QED BY <1>1, <1>3, <1>4, <2>2, <3>1, <4>1, <4>2 DEF Below
    <3>2. CASE ~ (x = q /\ d = e)
      <4>1. m2[x][d] = m0[x][d]
        BY <1>3, <3>2
      <4>2. CASE m0[x][d] = NIL
        <5>1. ~ (x \in W /\ d = Toward(p, x))
          <6> SUFFICES ASSUME x \in W, d = Toward(p, x) PROVE FALSE
            OBVIOUS
          <6>1. x # q
            BY <3>2 DEF e
          <6>2. q \in U[x]
            <7>1. m0[q][Toward(p, q)] = NIL
              BY <1>1 DEF Added
            <7> QED BY <7>1, WayEnd
          <6>3. x \in U[q]
            BY <4>2, WayEnd
          <6>4. U[q] \subseteq U[x] /\ U[x] \subseteq U[q] /\ m0[q].parent # NIL /\ m0[q].parent \in U[x]
            BY <1>1, <6>1, <6>2, <6>3, Nested
          <6>5. m0[q].parent \notin U[q]
            BY <1>1, <6>4, NodeFacts DEF Dirs
          <6> QED BY <6>4, <6>5
        <5> QED BY <4>1, <4>2, <5>1 DEF Below
      <4>3. CASE m0[x][d] # NIL
        <5> DEFINE c == m0[x][d]
        <5>1. c \in D /\ m0[c].parent = x /\ Toward(c, x) = d /\ \A y \in U[c] : On(d, y, x)
          BY <2>1, <4>3
        <5>2. c \in W <=> x \in W /\ d = Toward(p, x)
          <6>1. c \in W => x \in W /\ Toward(p, x) = Toward(c, x)
            BY <1>1, <5>1, WayFacts
          <6>2. x \in W /\ d = Toward(p, x) => c \in W
            BY <4>3, WayFacts
          <6> QED BY <5>1, <6>1, <6>2
        <5> HIDE DEF c
        <5>3. V[c] = U[c] \cup (IF x \in W /\ d = Toward(p, x) THEN {p} ELSE {})
          BY <1>4, <5>1, <5>2
        <5>4. \A y \in V[c] : On(d, y, x)
          BY <2>2, <5>1, <5>3
        <5>5. m2[c].parent = x
          BY <1>3, <5>1
        <5> QED BY <1>1, <4>1, <5>1, <5>3, <5>4, <5>5 DEF Below, c
      <4> QED BY <4>2, <4>3
    <3> QED BY <3>1, <3>2
  <2>4. m2[x].parent # NIL =>
          m2[x].parent \in D \cup {p} /\ m2[m2[x].parent][Toward(x, m2[x].parent)] = x
    <3> SUFFICES ASSUME m0[x].parent # NIL
                 PROVE  m0[x].parent \in D /\ m2[m0[x].parent][Toward(x, m0[x].parent)] = x
      BY <1>3
    <3> DEFINE a == m0[x].parent
    <3>1. a \in D /\ m0[a][Toward(x, a)] = x /\ Toward(x, a) \in Dirs
      BY NodeFacts DEF Dirs
    <3>2. ~ (a = q /\ Toward(x, a) = e)
      BY <1>1, <3>1 DEF e, Added
    <3> QED BY <1>3, <3>1, <3>2
  <2>5. V[x] = {x} \cup Below(V, m2[x].left) \cup Below(V, m2[x].right)
    <3>1. /\ Below(V, m2[x].left) = Below(U, m0[x].left) \cup (IF x \in W /\ "left" = Toward(p, x) THEN {p} ELSE {})
          /\ Below(V, m2[x].right) = Below(U, m0[x].right) \cup (IF x \in W /\ "right" = Toward(p, x) THEN {p} ELSE {})
      BY <2>3 DEF Dirs
    <3> QED BY <1>4, <2>1, <2>2, <3>1 DEF Dirs
  <2> QED BY <1>2, <1>4, <2>1, <2>3, <2>4, <2>5 DEF NodeOK
<1>7. root \in D /\ V[root] = D \cup {p} /\ \A x \in D \cup {p} : m2[x].parent = NIL <=> x = root
  <2>1. root \in D /\ U[root] = D /\ \A x \in D : m0[x].parent = NIL <=> x = root
    BY DEF IsTree
  <2>2. root \in W
    BY WayFacts
  <2> QED BY <1>1, <1>3, <1>4, <2>1, <2>2
<1>8. D \cup {p} \subseteq Price /\ IsFiniteSet(D \cup {p})
  BY <1>1, FS_AddElement DEF IsTree
<1> QED BY <1>2, <1>4, <1>5, <1>6, <1>7, <1>8 DEF IsTree, V

-----------------------------------------------------------------------------
(* Insertion. *)

(* Whether something is a tree depends on its links only. *)
LEMMA LinksMakeTrees ==
  ASSUME NEW m, NEW U, NEW root, IsTree(m, U, root),
         NEW m2, DOMAIN m2 = DOMAIN m, \A q \in DOMAIN m, f \in Links : m2[q][f] = m[q][f]
  PROVE  IsTree(m2, U, root)
<1> DEFINE D == DOMAIN m
<1>1. \A q \in D : m2[q].parent = m[q].parent /\ m2[q].left = m[q].left /\ m2[q].right = m[q].right
      /\ \A d \in Dirs : m2[q][d] = m[q][d]
  BY DEF Links, Dirs
<1>2. ASSUME NEW q \in D PROVE NodeOK(m2, U, q)
  <2>1. NodeOK(m, U, q)
    BY DEF IsTree
  <2>2. \A d \in Dirs : m2[q][d] # NIL =>
          m2[q][d] \in D /\ m2[m2[q][d]].parent = q /\ \A x \in U[m2[q][d]] : On(d, x, q)
    BY <1>1, <2>1 DEF NodeOK
  <2>3. m2[q].parent # NIL =>
          m2[q].parent \in D /\ m2[m2[q].parent][Toward(q, m2[q].parent)] = q
    <3>1. Toward(q, m2[q].parent) \in Dirs
      BY DEF Toward, Dirs
    <3> QED BY <1>1, <2>1, <3>1 DEF NodeOK
  <2>4. q \in U[q] /\ U[q] = {q} \cup Below(U, m2[q].left) \cup Below(U, m2[q].right)
    BY <1>1, <2>1 DEF NodeOK
  <2> QED BY <2>2, <2>3, <2>4 DEF NodeOK
<1>3. \A q \in D : m2[q].parent = NIL <=> q = root
  BY <1>1 DEF IsTree
<1>4. /\ D \subseteq Price /\ IsFiniteSet(D) /\ U \in [D -> SUBSET D]
      /\ root \in D /\ U[root] = D
  BY DEF IsTree
<1> QED BY <1>2, <1>3, <1>4 DEF IsTree

(* A height is no link. *)
LEMMA SetHeightKeepsTree ==
  ASSUME NEW m, NEW U, NEW root, IsTree(m, U, root), IsArena(m), NEW q \in DOMAIN m
  PROVE  LET m2 == SetHeight(m, q)
         IN  /\ IsArena(m2) /\ KeepsRest(m, m2) /\ IsTree(m2, U, root)
             /\ m2[q].parent = m[q].parent
             /\ \A x \in DOMAIN m \ {q} : m2[x] = m[x]
<1> DEFINE m2 == SetHeight(m, q)
<1>1. \A d \in Dirs : m[q][d] \in DOMAIN m \cup {NIL}
  BY NodeFacts
<1>2. IsPut(m, m2, q, "height", Above(m, q))
  BY <1>1, SetHeightPuts
<1>3. \A x \in DOMAIN m \ {q} : m2[x] = m[x]
  BY DEF SetHeight, IsArena
<1> HIDE DEF m2
<1>4. \A x \in DOMAIN m, f \in Links : m2[x][f] = m[x][f]
  BY <1>2 DEF IsPut, Links, Fields
<1>5. DOMAIN m2 = DOMAIN m /\ IsArena(m2) /\ KeepsRest(m, m2)
  BY <1>2 DEF IsPut, KeepsRest
<1>6. IsTree(m2, U, root)
  BY <1>4, <1>5, LinksMakeTrees
<1>7. m2[q].parent = m[q].parent
  BY <1>4 DEF Links
<1> QED BY <1>3, <1>5, <1>6, <1>7 DEF m2

(* One step of an insertion on its way back up, seen from the tree s in     *)
(* which the leaf has just been linked.                                     *)
LEMMA UnwindRebuilds ==
  ASSUME NEW s, NEW V0, NEW root, IsTree(s.m, V0, root), IsArena(s.m), s.tree = NIL,
         NEW p, NEW q \in DOMAIN s.m,
         NEW t, IsState(t), t.tree = NIL,
         NEW m1, m1 = [t.m EXCEPT ![q][Toward(p, q)] = t.top],
         NEW V, IsTree(m1, V, root), IsArena(m1), KeepsRest(s.m, m1),
         V[q] = V0[q], m1[q].parent = s.m[q].parent,
         \A x \in DOMAIN s.m \ V0[q] : m1[x] = s.m[x] /\ V[x] = V0[x]
  PROVE  \E V2 : Rebuilt(s, Unwind(p, q, t), V0, V2, root, q)
<1> DEFINE m2 == SetHeight(m1, q)
           t2 == [m |-> m2, tree |-> NIL, top |-> t.top, rot |-> t.rot]
           r == BalanceTree(t2, q)
<1>1. DOMAIN m1 = DOMAIN s.m
  BY DEF KeepsRest
<1>2. /\ IsArena(m2) /\ KeepsRest(m1, m2) /\ IsTree(m2, V, root) /\ m2[q].parent = m1[q].parent
      /\ \A x \in DOMAIN m1 \ {q} : m2[x] = m1[x]
  <2>1. q \in DOMAIN m1 /\ IsArena(m1) /\ IsTree(m1, V, root)
    BY <1>1
  <2> QED BY ONLY <2>1, SetHeightKeepsTree
<1>3. Unwind(p, q, t) = r
  BY DEF Unwind, IsState
<1> HIDE DEF m2
<1>4. IsState(t2) /\ t2.m = m2 /\ t2.tree = NIL
  BY DEF IsState
<1>5. q \in DOMAIN m2
  BY <1>1, <1>2 DEF KeepsRest
<1> HIDE DEF t2
<1>6. PICK V2 : Rebuilt(t2, r, V, V2, root, q)
  BY <1>2, <1>4, <1>5, BalanceRebuilds
<1> HIDE DEF r
<1>7. KeepsRest(s.m, r.m)
  <2>1. KeepsRest(m2, r.m)
    BY <1>4, <1>6 DEF Rebuilt
  <2>2. KeepsRest(s.m, m2)
    BY <1>2, RestIsKept
  <2> QED BY <2>1, <2>2, RestIsKept
<1>8. \A x \in DOMAIN s.m \ V0[q] : r.m[x] = s.m[x] /\ V2[x] = V0[x]
  <2> SUFFICES ASSUME NEW x \in DOMAIN s.m \ V0[q] PROVE r.m[x] = s.m[x] /\ V2[x] = V0[x]
    OBVIOUS
  <2>1. q \in V0[q]
    BY NodeFacts DEF Dirs
  <2>2. x \in DOMAIN m2 \ V[q] /\ x # q
    BY <1>1, <1>2, <2>1 DEF KeepsRest
  <2>3. r.m[x] = m2[x] /\ V2[x] = V[x]
    BY <1>4, <1>6, <2>2 DEF Rebuilt
  <2> QED BY <1>1, <1>2, <2>2, <2>3
<1>9. Rebuilt(s, r, V0, V2, root, q)
  BY <1>2, <1>4, <1>6, <1>7, <1>8 DEF Rebuilt
<1> QED BY <1>3, <1>9

(* The recursion of an insertion. *)
Leaf(m, p, q) == [m |-> [m EXCEPT ![p].parent = q], top |-> p, tree |-> NIL, rot |-> 0]
Inserting(f, m, p, q) ==
  Unwind(p, q, IF m[q][Toward(p, q)] = NIL THEN Leaf(m, p, q) ELSE f[m[q][Toward(p, q)]])
AreInserts(f, m, p) == f = [q \in DOMAIN m |-> Inserting(f, m, p, q)]

(* The recursion of insert_recursive has a solution, and it is what the *)
(* operator returns.                                                    *)
LEMMA InsertsExist ==
  ASSUME NEW m, NEW p, NEW root, NEW rank, NEW N \in Nat,
         \A q \in DOMAIN m : rank[q] \in 0..N,
         \A q \in DOMAIN m : m[q][Toward(p, q)] # NIL =>
           m[q][Toward(p, q)] \in DOMAIN m /\ rank[m[q][Toward(p, q)]] < rank[q]
  PROVE  \E f : AreInserts(f, m, p) /\ InsertRecursive(m, root, p) = f[root]
<1> DEFINE D == DOMAIN m
           T == {n \in Nat : \E f : \A q \in D : rank[q] <= n => f[q] = Inserting(f, m, p, q)}
           Step(f) == [q \in D |-> Inserting(f, m, p, q)]
<1>1. ASSUME NEW f, NEW n \in Nat, \A q \in D : rank[q] < n => f[q] = Inserting(f, m, p, q)
      PROVE  \A q \in D : rank[q] <= n => Step(f)[q] = Inserting(Step(f), m, p, q)
  <2> SUFFICES ASSUME NEW q \in D, rank[q] <= n
               PROVE  Step(f)[q] = Inserting(Step(f), m, p, q)
    OBVIOUS
  <2> DEFINE c == m[q][Toward(p, q)]
  <2>1. c # NIL => c \in D /\ rank[c] < n
    OBVIOUS
  <2>2. c # NIL => Step(f)[c] = f[c]
    BY <1>1, <2>1
  <2>3. Step(f)[q] = Inserting(f, m, p, q)
    OBVIOUS
  <2> HIDE DEF Step
  <2> QED BY <2>2, <2>3 DEF Inserting
<1>2. 0 \in T
  <2> DEFINE f0 == [q \in D |-> q]
  <2>1. \A q \in D : rank[q] < 0 => f0[q] = Inserting(f0, m, p, q)
    OBVIOUS
  <2> HIDE DEF f0
  <2>2. \A q \in D : rank[q] <= 0 => Step(f0)[q] = Inserting(Step(f0), m, p, q)
    BY <1>1, <2>1
  <2> HIDE DEF Step
  <2> QED BY <2>2
<1>3. \A n \in Nat : n \in T => n + 1 \in T
  <2> SUFFICES ASSUME NEW n \in Nat, n \in T PROVE n + 1 \in T
    OBVIOUS
  <2>1. PICK f : \A q \in D : rank[q] <= n => f[q] = Inserting(f, m, p, q)
    OBVIOUS
  <2>2. \A q \in D : rank[q] < n + 1 => f[q] = Inserting(f, m, p, q)
    BY <2>1
  <2>3. n + 1 \in Nat
    OBVIOUS
  <2>4. \A q \in D : rank[q] <= n + 1 => Step(f)[q] = Inserting(Step(f), m, p, q)
    BY <1>1, <2>2, <2>3
  <2> HIDE DEF Step
  <2> QED BY <2>4
<1> HIDE DEF T
<1>4. Nat \subseteq T
  BY <1>2, <1>3, NatInductionOnSet
<1>5. PICK f : \A q \in D : rank[q] <= N => f[q] = Inserting(f, m, p, q)
  BY <1>4 DEF T
<1>6. \A q \in D : f[q] = Inserting(f, m, p, q)
  BY <1>5
<1> DEFINE g == [q \in D |-> f[q]]
<1>7. \A q \in D : Inserting(f, m, p, q) = Inserting(g, m, p, q)
  BY DEF Inserting
<1>8. AreInserts(g, m, p)
  BY <1>6, <1>7, Zenon DEF AreInserts
<1> HIDE DEF g
<1> DEFINE h == CHOOSE f2 : AreInserts(f2, m, p)
<1>9. AreInserts(h, m, p)
  BY <1>8
<1>10. InsertRecursive(m, root, p) = h[root]
  BY DEF InsertRecursive, AreInserts, Inserting, Leaf
<1> HIDE DEF h
<1> QED BY <1>9, <1>10

(* Nothing moved, nothing lost. *)
LEMMA SameIsKept ==
  ASSUME NEW m, IsArena(m)
  PROVE  KeepsRest(m, m)
BY DEF KeepsRest, OnlyLinksMoved, IsArena, IsNode

(* The way to p has one end. *)
LEMMA WayEnds ==
  ASSUME NEW m, NEW U, NEW root, IsTree(m, U, root), NEW p
  PROVE  \E e \in Way(m, U, p) :
           /\ m[e][Toward(p, e)] = NIL
           /\ \A q \in Way(m, U, p) : m[q][Toward(p, q)] = NIL => q = e
<1> DEFINE W == Way(m, U, p)
           S == {q \in DOMAIN m : q \in W => \E e \in W : m[e][Toward(p, e)] = NIL}
<1>1. \A q \in DOMAIN m : (\A d \in Dirs : m[q][d] # NIL => m[q][d] \in S) => q \in S
  <2> SUFFICES ASSUME NEW q \in DOMAIN m, \A d \in Dirs : m[q][d] # NIL => m[q][d] \in S, q \in W
               PROVE  \E e \in W : m[e][Toward(p, e)] = NIL
    OBVIOUS
  <2>1. Toward(p, q) \in Dirs
    BY DEF Toward, Dirs
  <2> HIDE DEF W
  <2>2. m[q][Toward(p, q)] # NIL => m[q][Toward(p, q)] \in W
    BY WayFacts DEF W
  <2> QED BY <2>1, <2>2
<1> HIDE DEF S
<1>2. DOMAIN m \subseteq S
  BY <1>1, UpTheTree
<1>3. root \in DOMAIN m /\ root \in W
  BY WayFacts DEF IsTree
<1>4. PICK e \in W : m[e][Toward(p, e)] = NIL
  BY <1>2, <1>3 DEF S
<1>5. ASSUME NEW q \in W, m[q][Toward(p, q)] = NIL PROVE q = e
  <2>1. q \in U[e] /\ e \in U[q]
    BY <1>4, <1>5, WayEnd
  <2>2. q \in DOMAIN m /\ e \in DOMAIN m
    BY DEF Way
  <2> SUFFICES ASSUME q # e PROVE FALSE
    OBVIOUS
  <2>3. U[q] \subseteq U[e] /\ m[q].parent # NIL /\ m[q].parent \in U[e] /\ U[e] \subseteq U[q]
    BY <2>1, <2>2, Nested
  <2>4. m[q].parent \notin U[q]
    BY <2>2, <2>3, NodeFacts DEF Dirs
  <2> QED BY <2>3, <2>4
<1> QED BY <1>4, <1>5

(* What a limit on the way gets back from the call it makes, and the arena  *)
(* once it has linked its new child.                                        *)
Returned(f, m, p, q) ==
  IF m[q][Toward(p, q)] = NIL THEN Leaf(m, p, q) ELSE f[m[q][Toward(p, q)]]
Joined(t, p, q) == [t.m EXCEPT ![q][Toward(p, q)] = t.top]

(* t comes back to q: nothing has changed but at and below its child.       *)
Returns(t, m, m0, U, p, q) ==
  /\ IsState(t) /\ t.tree = NIL /\ t.top # NIL /\ IsArena(Joined(t, p, q))
  /\ DOMAIN t.m = DOMAIN m
  /\ \A x \in DOMAIN m0 \ Below(U, m0[q][Toward(p, q)]) : t.m[x] = m0[x]

(* m1 is a search tree, the tree of s but for what hangs below q.           *)
HangsBelow(s, V0, m1, root, q) ==
  /\ IsArena(m1) /\ KeepsRest(s.m, m1) /\ m1[q].parent = s.m[q].parent
  /\ \E V : /\ IsTree(m1, V, root) /\ V[q] = V0[q]
            /\ \A x \in DOMAIN s.m \ V0[q] : m1[x] = s.m[x] /\ V[x] = V0[x]

(* What UnwindRebuilds says, of a tree that hangs below q. *)
LEMMA UnwindHangs ==
  ASSUME NEW s, NEW V0, NEW root, IsTree(s.m, V0, root), IsArena(s.m), s.tree = NIL,
         NEW p, NEW q \in DOMAIN s.m,
         NEW t, IsState(t), t.tree = NIL,
         HangsBelow(s, V0, Joined(t, p, q), root, q)
  PROVE  \E V2 : Rebuilt(s, Unwind(p, q, t), V0, V2, root, q)
<1> DEFINE m1 == Joined(t, p, q)
<1>1. PICK V : /\ IsTree(m1, V, root) /\ V[q] = V0[q] /\ IsArena(m1) /\ KeepsRest(s.m, m1)
               /\ m1[q].parent = s.m[q].parent
               /\ \A x \in DOMAIN s.m \ V0[q] : m1[x] = s.m[x] /\ V[x] = V0[x]
  BY DEF HangsBelow
<1>2. m1 = [t.m EXCEPT ![q][Toward(p, q)] = t.top]
  BY DEF Joined
<1> HIDE DEF m1
<1> QED BY <1>1, <1>2, UnwindRebuilds

(* The way back of insert_recursive: what a call returns hangs in a search  *)
(* tree with p in it, in which only limits at and below the child that was  *)
(* called have changed.  What limits have besides links and heights stays.  *)
LEMMA InsertSteps ==
  ASSUME NEW m0, NEW U, NEW root, IsTree(m0, U, root), NEW p, NEW m, Added(m0, m, p)
  PROVE  \E f :
           /\ InsertRecursive(m, root, p) = f[root]
           /\ IsState(f[root]) /\ IsArena(f[root].m) /\ KeepsRest(m, f[root].m)
           /\ \E V : IsTree(f[root].m, V, f[root].top)
           /\ \A q \in Way(m0, U, p) :
                LET t == Returned(f, m, p, q)
                IN  /\ f[q] = Unwind(p, q, t)
                    /\ Returns(t, m, m0, U, p, q)
                    /\ \E V : IsTree(Joined(t, p, q), V, root) /\ V[q] = U[q] \cup {p}
<1> DEFINE D == DOMAIN m0
           W == Way(m0, U, p)
           V0 == WithLeaf(m0, U, p)
           next(q) == m0[q][Toward(p, q)]
<1>1. /\ p \notin D /\ NIL \notin D /\ DOMAIN m = D \cup {p} /\ IsArena(m) /\ p # NIL /\ W \subseteq D
      /\ \A q \in D : m[q] = m0[q]
      /\ \A d \in Dirs : m[p][d] = NIL
  BY NilIsNoPrice DEF Added, Dirs, IsTree, Way
<1>2. \A q : Toward(p, q) \in Dirs
  BY DEF Toward, Dirs
<1>3. PICK f : AreInserts(f, m, p) /\ InsertRecursive(m, root, p) = f[root]
  <2> DEFINE rank == [q \in D \cup {p} |-> IF q = p THEN 0 ELSE Cardinality(U[q])]
             N == Cardinality(D)
  <2>1. /\ N \in Nat /\ \A q \in D : Cardinality(U[q]) \in 1..N
        /\ \A q \in D, d \in Dirs : m0[q][d] # NIL =>
              m0[q][d] \in D /\ Cardinality(U[m0[q][d]]) < Cardinality(U[q])
    BY Sizes
  <2> HIDE DEF N
  <2>2. \A q \in DOMAIN m : rank[q] \in 0..N
    BY <1>1, <2>1
  <2>3. \A q \in DOMAIN m : m[q][Toward(p, q)] # NIL =>
           m[q][Toward(p, q)] \in DOMAIN m /\ rank[m[q][Toward(p, q)]] < rank[q]
    <3> SUFFICES ASSUME NEW q \in DOMAIN m, m[q][Toward(p, q)] # NIL
                 PROVE  m[q][Toward(p, q)] \in DOMAIN m /\ rank[m[q][Toward(p, q)]] < rank[q]
      OBVIOUS
    <3>1. q \in D /\ m[q] = m0[q]
      BY <1>1, <1>2
    <3>2. next(q) \in D /\ Cardinality(U[next(q)]) < Cardinality(U[q])
      BY <1>2, <2>1, <3>1
    <3> QED BY <1>1, <3>1, <3>2
  <2> HIDE DEF rank
  <2> QED BY <2>1, <2>2, <2>3, InsertsExist
<1>4. \A q \in D : f[q] = Inserting(f, m, p, q)
  BY <1>1, <1>3 DEF AreInserts
<1>5. PICK e \in W : next(e) = NIL /\ \A q \in W : next(q) = NIL => q = e
  BY WayEnds
<1> DEFINE m1 == [m EXCEPT ![p].parent = e]
           mL == [m1 EXCEPT ![e][Toward(p, e)] = p]
           s == [m |-> mL, tree |-> NIL, top |-> p, rot |-> 0]
<1>6. IsPut(m, m1, p, "parent", e)
  <2>1. p \in DOMAIN m /\ "parent" \in Fields
    BY <1>1 DEF Fields
  <2>2. IsPut(m, [m EXCEPT ![p]["parent"] = e], p, "parent", e)
    BY <1>1, <2>1, Put
  <2> QED BY <2>2
<1>7. IsPut(m1, mL, e, Toward(p, e), p)
  <2>1. e \in DOMAIN m1 /\ IsArena(m1)
    BY <1>1, <1>6 DEF IsPut, KeepsRest
  <2>2. Toward(p, e) \in Fields /\ Toward(p, e) # "height"
    BY DEF Toward, Fields
  <2> HIDE DEF m1
  <2> QED BY <2>1, <2>2, Put
<1>8. /\ IsTree(mL, V0, root)
  <2>1. m[e][Toward(p, e)] = NIL
    BY <1>1, <1>5
  <2> HIDE DEF m1, mL
  <2> QED BY <1>6, <1>7, <2>1, LeafAdded
<1>9. /\ IsArena(mL) /\ KeepsRest(m, mL) /\ DOMAIN mL = D \cup {p}
      /\ \A q \in D : mL[q].parent = m0[q].parent
      /\ \A x \in D \ {e} : mL[x] = m[x]
  <2>1. IsArena(mL) /\ KeepsRest(m, mL) /\ DOMAIN m1 = DOMAIN m /\ DOMAIN mL = DOMAIN m
    <3> HIDE DEF m1, mL
    <3> QED BY <1>1, <1>6, <1>7, RestIsKept DEF IsPut, KeepsRest
  <2>2. ASSUME NEW q \in D PROVE mL[q].parent = m0[q].parent
    <3>1. "parent" \in Fields /\ "parent" # Toward(p, e)
      BY DEF Toward, Fields
    <3>2. mL[q].parent = m1[q].parent
      BY <1>1, <1>7, <2>1, <3>1 DEF IsPut
    <3>3. m1[q].parent = m[q].parent
      BY <1>1, <1>6, <3>1 DEF IsPut
    <3> QED BY <1>1, <3>2, <3>3
  <2>3. \A x \in D \ {e} : mL[x] = m[x]
    BY <1>1 DEF IsArena
  <2> QED BY <1>1, <2>1, <2>2, <2>3
<1>10. IsState(s) /\ s.m = mL /\ s.tree = NIL
  BY DEF IsState
<1>11. /\ V0[p] = {p}
       /\ \A q \in W : V0[q] = U[q] \cup {p}
  BY <1>1 DEF WithLeaf
<1> DEFINE Comes(q) == /\ f[q] = Unwind(p, q, Returned(f, m, p, q))
                       /\ Returns(Returned(f, m, p, q), m, m0, U, p, q)
                       /\ HangsBelow(s, V0, Joined(Returned(f, m, p, q), p, q), root, q)
           S == {q \in D : q \in W => (Comes(q) /\ \E V : Rebuilt(s, f[q], V0, V, root, q))}
<1>12. \A q \in D : (\A d \in Dirs : m0[q][d] # NIL => m0[q][d] \in S) => q \in S
  <2> SUFFICES ASSUME NEW q \in D, \A d \in Dirs : m0[q][d] # NIL => m0[q][d] \in S, q \in W
               PROVE  Comes(q) /\ \E V : Rebuilt(s, f[q], V0, V, root, q)
    OBVIOUS
  <2> DEFINE c == next(q)
             t == Returned(f, m, p, q)
             m2 == Joined(t, p, q)
  <2>1. m[q][Toward(p, q)] = c
    BY <1>1
  <2>2. q \in DOMAIN s.m
    BY <1>9, <1>10
  <2>3. f[q] = Unwind(p, q, t)
    BY <1>4 DEF Inserting, Returned
  <2>4. ASSUME c = NIL PROVE Comes(q)
    <3>1. q = e
      BY <1>5, <2>4
    <3>2. t = Leaf(m, p, q)
      BY <2>1, <2>4 DEF Returned
    <3>3. /\ IsState(t) /\ t.tree = NIL /\ t.top = p /\ mL = m2
          /\ DOMAIN t.m = DOMAIN m /\ \A x \in D : t.m[x] = m0[x]
      BY <1>1, <3>1, <3>2 DEF Leaf, IsState, Joined, IsArena
    <3>4. \A x \in DOMAIN s.m \ V0[q] : mL[x] = s.m[x] /\ V0[x] = V0[x]
      BY <1>10
    <3>5. KeepsRest(s.m, mL)
      <4> HIDE DEF mL, s
      <4> QED BY <1>9, <1>10, SameIsKept
    <3> HIDE DEF mL, s, t, V0, m2
    <3>6. mL[q].parent = s.m[q].parent
      BY <1>10
    <3>7. Returns(t, m, m0, U, p, q)
      BY <1>1, <1>9, <3>3 DEF Returns, m2
    <3>8. HangsBelow(s, V0, m2, root, q)
      BY <1>8, <1>9, <3>3, <3>4, <3>5, <3>6 DEF HangsBelow
    <3> QED BY <2>3, <3>7, <3>8 DEF t, m2
  <2>5. ASSUME c # NIL PROVE Comes(q)
    <3>1. t = f[c]
      BY <2>1, <2>5 DEF Returned
    <3> HIDE DEF Comes
    <3>2. /\ c \in W /\ c \in S /\ c \in D /\ m0[c].parent = q /\ U[c] \subseteq U[q] \ {q} /\ q \in U[q]
          /\ Toward(c, q) = Toward(p, q)
      <4>1. c \in W /\ Toward(c, q) = Toward(p, q)
        <5> HIDE DEF S
        <5>1. m0[q][Toward(p, q)] # NIL /\ q \in Way(m0, U, p) /\ Toward(p, q) \in Dirs
          BY <1>2, <2>5 DEF c
        <5>2. m0[q][Toward(p, q)] \in Way(m0, U, p)
          BY ONLY <5>1, WayFacts, IsTree(m0, U, root)
        <5>3. Toward(m0[q][Toward(p, q)], q) = Toward(p, q)
          BY <5>1, NodeFacts
        <5> QED BY <5>2, <5>3 DEF c
      <4>2. c \in S
        <5> HIDE DEF S
        <5> QED BY <1>2, <2>5
      <4>3. c \in D /\ m0[c].parent = q /\ U[c] \subseteq U[q] \ {q} /\ q \in U[q]
        <5> HIDE DEF S
        <5> QED BY <1>2, <2>5, NodeFacts
      <4> HIDE DEF S
      <4> QED BY <4>1, <4>2, <4>3
    <3> HIDE DEF c
    <3>3. PICK V : Rebuilt(s, t, V0, V, root, c)
      <4> HIDE DEF s, V0, t
      <4> QED BY <3>1, <3>2
    <3> HIDE DEF t, s, mL, S
    <3>4. /\ s.m[c].parent = q /\ q # NIL
      BY <1>1, <1>9, <1>10, <3>2
    <3>5. m2 = Relink(t.m, q, c, t.top)
      BY <3>2, <3>4 DEF Relink, Joined
    <3> HIDE DEF m2
    <3>6. /\ IsState(t) /\ IsArena(t.m) /\ KeepsRest(s.m, t.m) /\ IsArena(m2) /\ IsTree(m2, V, root)
          /\ t.tree = NIL /\ t.top \in V0[c]
          /\ \A x \in DOMAIN s.m \ V0[c] : t.m[x] = s.m[x] /\ V[x] = V0[x]
      BY <1>10, <3>3, <3>4, <3>5 DEF Rebuilt
    <3>7. DOMAIN t.m = DOMAIN s.m /\ q \in DOMAIN s.m /\ q \notin V0[c] /\ V0[c] \subseteq V0[q]
      BY <1>1, <1>9, <1>10, <1>11, <3>2, <3>6 DEF KeepsRest
    <3>8. IsPut(t.m, m2, q, Toward(p, q), t.top)
      <4>1. Toward(p, q) \in Fields /\ Toward(p, q) # "height"
        BY DEF Toward, Fields
      <4> QED BY <3>6, <3>7, <4>1, Put DEF m2, Joined
    <3>9. KeepsRest(s.m, m2)
      BY <1>9, <1>10, <3>6, <3>8, RestIsKept DEF IsPut
    <3>10. m2[q].parent = s.m[q].parent
      <4>1. "parent" \in Fields /\ "parent" # Toward(p, q)
        BY DEF Toward, Fields
      <4>2. m2[q].parent = t.m[q].parent
        BY <3>7, <3>8, <4>1 DEF IsPut
      <4> QED BY <3>6, <3>7, <4>2
    <3>11. \A x \in DOMAIN s.m \ V0[q] : m2[x] = s.m[x] /\ V[x] = V0[x]
      <4> SUFFICES ASSUME NEW x \in DOMAIN s.m \ V0[q] PROVE m2[x] = s.m[x] /\ V[x] = V0[x]
        OBVIOUS
      <4>1. x # q
        BY <1>11, <3>2
      <4>2. m2[x] = t.m[x]
        BY <3>6, <3>7, <4>1 DEF m2, Joined, IsArena
      <4> QED BY <3>6, <3>7, <4>2
    <3>12. V[q] = V0[q]
      BY <3>6, <3>7
    <3>13. \A x \in D \ Below(U, c) : t.m[x] = m0[x]
      <4> SUFFICES ASSUME NEW x \in D \ U[c] PROVE t.m[x] = m0[x]
        BY <2>5 DEF Below
      <4>1. e \in U[c]
        BY <1>1, <1>5, <3>2, WayEnd
      <4>2. x \in DOMAIN s.m \ V0[c] /\ x # e
        BY <1>1, <1>9, <1>10, <1>11, <3>2, <4>1
      <4> QED BY <1>1, <1>9, <1>10, <3>6, <4>2
    <3>14. t.top # NIL
      <4>1. NIL \notin V0[c]
        <5>1. U[c] \subseteq D
          BY <3>2 DEF IsTree
        <5> QED BY <1>1, <1>11, <3>2, <5>1
      <4> QED BY <3>6, <4>1
    <3> HIDE DEF V0
    <3>15. DOMAIN t.m = DOMAIN m
      BY <1>1, <1>9, <1>10, <3>7
    <3>16. Returns(t, m, m0, U, p, q)
      BY <3>6, <3>13, <3>14, <3>15 DEF Returns, m2, c
    <3>17. HangsBelow(s, V0, m2, root, q)
      BY <3>6, <3>9, <3>10, <3>11, <3>12 DEF HangsBelow
    <3> QED BY <2>3, <3>16, <3>17 DEF t, m2, Comes
  <2>6. Comes(q)
    BY <2>4, <2>5
  <2>7. \E V2 : Rebuilt(s, Unwind(p, q, t), V0, V2, root, q)
    <3>1. IsState(t) /\ t.tree = NIL /\ HangsBelow(s, V0, Joined(t, p, q), root, q)
      <4> HIDE DEF s, V0
      <4> QED BY <2>6 DEF Returns
    <3>2. IsTree(s.m, V0, root) /\ IsArena(s.m) /\ s.tree = NIL
      BY <1>8, <1>9, <1>10
    <3> HIDE DEF s, V0, t, m2, Comes
    <3> QED BY ONLY <2>2, <3>1, <3>2, UnwindHangs
  <2> HIDE DEF s, V0, t, Comes
  <2> QED BY <2>3, <2>6, <2>7 DEF t
<1> HIDE DEF S
<1>13. D \subseteq S
  BY <1>12, UpTheTree
<1>14. root \in D /\ root \in W /\ m0[root].parent = NIL
  BY WayFacts DEF IsTree
<1>15. PICK V : Rebuilt(s, f[root], V0, V, root, root)
  BY <1>13, <1>14 DEF S
<1> HIDE DEF V0, s, mL, m1
<1>19. \A q \in W : Comes(q)
  <2> HIDE DEF Comes
  <2> QED BY <1>1, <1>13 DEF S
<1>20. \A q \in W : LET t == Returned(f, m, p, q)
                    IN  /\ f[q] = Unwind(p, q, t)
                        /\ Returns(t, m, m0, U, p, q)
                        /\ \E V2 : IsTree(Joined(t, p, q), V2, root) /\ V2[q] = U[q] \cup {p}
  <2> SUFFICES ASSUME NEW q \in W
               PROVE  /\ f[q] = Unwind(p, q, Returned(f, m, p, q))
                      /\ Returns(Returned(f, m, p, q), m, m0, U, p, q)
                      /\ \E V2 : IsTree(Joined(Returned(f, m, p, q), p, q), V2, root) /\ V2[q] = U[q] \cup {p}
    OBVIOUS
  <2>1. V0[q] = U[q] \cup {p} /\ Comes(q)
    <3> HIDE DEF Comes
    <3> QED BY <1>11, <1>19
  <2>2. \E V2 : IsTree(Joined(Returned(f, m, p, q), p, q), V2, root) /\ V2[q] = V0[q]
    BY <2>1 DEF HangsBelow
  <2> QED BY <2>1, <2>2
<1> HIDE DEF Comes
<1> DEFINE t == f[root]
<1> HIDE DEF t, mL, s, V0
<1>16. s.m[root].parent = NIL
  BY <1>9, <1>10, <1>14
<1>17. IsState(t) /\ IsArena(t.m) /\ KeepsRest(mL, t.m) /\ IsTree(t.m, V, t.top)
  BY <1>10, <1>15, <1>16 DEF Rebuilt, Relink, t
<1>18. KeepsRest(m, t.m)
  BY <1>1, <1>9, <1>17, RestIsKept
<1> QED BY <1>3, <1>17, <1>18, <1>20 DEF t

(* insert_recursive counts one rebalance at most for every limit it visits. *)
LEMMA InsertCounts ==
  ASSUME NEW m0, NEW U, NEW root, IsTree(m0, U, root), NEW p, NEW m, Added(m0, m, p)
  PROVE  InsertRecursive(m, root, p).rot \in 0..Cardinality(DOMAIN m0)
<1> DEFINE D == DOMAIN m0
           W == Way(m0, U, p)
           size(q) == Cardinality(U[q])
<1>1. /\ Cardinality(D) \in Nat /\ \A q \in D : size(q) \in 1..Cardinality(D)
      /\ \A q \in D, d \in Dirs : m0[q][d] # NIL => m0[q][d] \in D /\ size(m0[q][d]) < size(q)
  BY Sizes
<1>2. PICK f :
        /\ InsertRecursive(m, root, p) = f[root]
        /\ \A q \in W : LET t == Returned(f, m, p, q)
                        IN  /\ f[q] = Unwind(p, q, t)
                            /\ Returns(t, m, m0, U, p, q)
                            /\ \E V : IsTree(Joined(t, p, q), V, root) /\ V[q] = U[q] \cup {p}
  BY InsertSteps
<1> HIDE DEF size
<1> DEFINE S == {q \in D : q \in W => f[q].rot \in 0..size(q)}
<1>3. \A q \in D : (\A d \in Dirs : m0[q][d] # NIL => m0[q][d] \in S) => q \in S
  <2> SUFFICES ASSUME NEW q \in D, \A d \in Dirs : m0[q][d] # NIL => m0[q][d] \in S, q \in W
               PROVE  f[q].rot \in 0..size(q)
    OBVIOUS
  <2> DEFINE c == m0[q][Toward(p, q)]
             t == Returned(f, m, p, q)
             m1 == Joined(t, p, q)
             t2 == [m |-> SetHeight(m1, q), tree |-> t.tree, top |-> t.top, rot |-> t.rot]
  <2>1. PICK V : IsTree(m1, V, root)
    BY <1>2
  <2>2. f[q] = Unwind(p, q, t) /\ Returns(t, m, m0, U, p, q)
    BY <1>2
  <2>3. m[q][Toward(p, q)] = c /\ Toward(p, q) \in Dirs
    BY DEF Added, Toward, Dirs
  <2>4. t.rot \in 0..(size(q) - 1)
    <3>1. CASE c = NIL
      <4>1. t = Leaf(m, p, q)
        BY <2>3, <3>1 DEF Returned
      <4>2. t.rot = 0
        BY <4>1 DEF Leaf
      <4> HIDE DEF t
      <4> QED BY <1>1, <4>2
    <3>2. CASE c # NIL
      <4>1. t = f[c]
        BY <2>3, <3>2 DEF Returned
      <4>2. c \in W
        BY <3>2, WayFacts
      <4>3. c \in S /\ c \in D /\ size(c) < size(q)
        BY <1>1, <2>3, <3>2
      <4>4. f[c].rot \in 0..size(c)
        BY <4>2, <4>3
      <4>5. size(c) \in Int /\ size(q) \in Int /\ size(c) < size(q)
        BY <1>1, <4>3
      <4> HIDE DEF c, t, S
      <4> QED BY <4>1, <4>4, <4>5
    <3> QED BY <3>1, <3>2
  <2>5. IsState(t) /\ IsArena(m1) /\ DOMAIN t.m = DOMAIN m
    BY <2>2 DEF Returns
  <2>6. q \in DOMAIN m1
    BY <2>5 DEF Joined, Added
  <2> HIDE DEF t
  <2>7. Unwind(p, q, t) = BalanceTree(t2, q)
    BY <2>5 DEF Unwind, Joined, IsState
  <2> HIDE DEF m1
  <2>8. IsState(t2) /\ t2.m = SetHeight(m1, q) /\ t2.rot = t.rot
    BY DEF IsState
  <2>9. BalanceFactor(t2.m, q) \in Int
    <3> DEFINE m2 == SetHeight(m1, q)
    <3>1. IsArena(m2) /\ KeepsRest(m1, m2) /\ IsTree(m2, V, root)
      BY <2>1, <2>5, <2>6, SetHeightKeepsTree
    <3> HIDE DEF m2
    <3>2. q \in DOMAIN m2
      BY <2>6, <3>1 DEF KeepsRest
    <3>3. BalanceFactor(m2, q) \in Int
      BY <3>1, <3>2, FactorIsInt
    <3> QED BY <2>8, <3>3 DEF m2
  <2> HIDE DEF t2
  <2>10. BalanceTree(t2, q).rot \in {t2.rot, t2.rot + 1}
    BY <2>8, <2>9, BalanceCounts
  <2>11. size(q) \in Nat
    BY <1>1
  <2> QED BY <2>2, <2>4, <2>7, <2>8, <2>10, <2>11
<1> HIDE DEF S
<1>4. D \subseteq S
  BY <1>3, UpTheTree
<1>5. root \in W /\ root \in D
  BY WayFacts DEF IsTree
<1>6. f[root].rot \in 0..size(root) /\ size(root) \in 1..Cardinality(D)
  BY <1>1, <1>4, <1>5 DEF S
<1> QED BY <1>1, <1>2, <1>6

(* insert_recursive gives a search tree with p in it. *)
LEMMA InsertRebuilds ==
  ASSUME NEW m0, NEW U, NEW root, IsTree(m0, U, root), NEW p, NEW m, Added(m0, m, p)
  PROVE  LET t == InsertRecursive(m, root, p)
         IN  /\ IsState(t) /\ IsArena(t.m) /\ KeepsRest(m, t.m)
             /\ \E V : IsTree(t.m, V, t.top)
             /\ t.rot \in 0..Cardinality(DOMAIN m0)
<1>1. PICK f : /\ InsertRecursive(m, root, p) = f[root]
               /\ IsState(f[root]) /\ IsArena(f[root].m) /\ KeepsRest(m, f[root].m)
               /\ \E V : IsTree(f[root].m, V, f[root].top)
  BY InsertSteps
<1> QED BY <1>1, InsertCounts

-----------------------------------------------------------------------------
(* A side of the book. *)

(* c ranks above all others of S. *)
IsBest(side, S, c) == c \in S /\ \A q \in S \ {c} : Outranks(side, c, q)

(* A side of the book in good order. *)
GoodSide(b, side) ==
  /\ b = [limits |-> b.limits, tree |-> b.tree, edge |-> b.edge, rebalances |-> b.rebalances]
  /\ IsArena(b.limits)
  /\ IF DOMAIN b.limits = {} THEN b.tree = NIL /\ b.edge = NIL
     ELSE /\ \E U : IsTree(b.limits, U, b.tree)
          /\ IsBest(side, DOMAIN b.limits, b.edge)

(* From b to b2 no more rebalances are counted than b has levels. *)
Counts(b, b2) ==
  \E k \in 0..Cardinality(DOMAIN b.limits) : b2.rebalances = b.rebalances + k

(* A side has a number of levels. *)
LEMMA SideIsFinite ==
  ASSUME NEW b, NEW side, GoodSide(b, side)
  PROVE  IsFiniteSet(DOMAIN b.limits) /\ Cardinality(DOMAIN b.limits) \in Nat
BY FS_EmptySet, FS_CardinalityType DEF GoodSide, IsTree

(* BestOf chooses the best. *)
LEMMA BestIs ==
  ASSUME NEW side, NEW S, S \subseteq Int, NEW c, IsBest(side, S, c)
  PROVE  BestOf(side, S) = c
<1> DEFINE P(x) == \A q \in S \ {x} : Outranks(side, x, q)
<1>1. c \in S /\ P(c)
  BY DEF IsBest
<1>2. ASSUME NEW x \in S, P(x) PROVE x = c
  BY <1>1, <1>2 DEF Outranks
<1>3. BestOf(side, S) = CHOOSE x \in S : P(x)
  BY <1>1 DEF BestOf
<1> HIDE DEF P
<1> QED BY <1>1, <1>2, <1>3

(* The side an arena starts with is in good order. *)
LEMMA EmptySideIsSide ==
  ASSUME NEW side
  PROVE  GoodSide(EmptySide, side)
<1> DEFINE e == << >>
<1>1. IsArena(e) /\ DOMAIN e = {}
  BY DEF IsArena
<1> HIDE DEF e
<1>2. EmptySide = [limits |-> e, tree |-> NIL, edge |-> NIL, rebalances |-> 0]
  BY DEF EmptySide, e
<1> QED BY <1>1, <1>2 DEF GoodSide

(* The count of rotations is no part of the order of a side. *)
LEMMA CountsFromZero ==
  ASSUME NEW b, NEW side, GoodSide(b, side)
  PROVE  LET b0 == [b EXCEPT !.rebalances = 0]
         IN  GoodSide(b0, side) /\ b0.limits = b.limits
<1> DEFINE b0 == [b EXCEPT !.rebalances = 0]
           b1 == [limits |-> b.limits, tree |-> b.tree, edge |-> b.edge, rebalances |-> 0]
<1>1. b0 = b1
  BY DEF GoodSide
<1>2. GoodSide(b1, side)
  BY DEF GoodSide
<1> QED BY <1>1, <1>2

(* b2 is b with l for its level at p; l has the links and the height.       *)
WithLevel(b, b2, p, l) ==
  /\ b2 = [b EXCEPT !.limits = [b.limits EXCEPT ![p] = l]]
  /\ IsNode(l) /\ \A g \in Fields : l[g] = b.limits[p][g]

(* What a level has besides its links and its height is no part of the      *)
(* order of the side.                                                       *)
LEMMA LevelKeepsSide ==
  ASSUME NEW b, NEW side, GoodSide(b, side), NEW p \in DOMAIN b.limits,
         NEW l, NEW b2, WithLevel(b, b2, p, l)
  PROVE  /\ GoodSide(b2, side) /\ DOMAIN b2.limits = DOMAIN b.limits
         /\ Bushy(b.limits) => Bushy(b2.limits)
<1> DEFINE m == b.limits
           m2 == [m EXCEPT ![p] = l]
<1>1. IsArena(m) /\ IsNode(m[p])
  BY DEF GoodSide, IsArena
<1>2. IsNode(l) /\ \A g \in Fields : l[g] = m[p][g]
  BY DEF WithLevel
<1>3. /\ DOMAIN m2 = DOMAIN m /\ IsArena(m2)
      /\ \A q \in DOMAIN m, g \in Fields : m2[q][g] = m[q][g]
  BY <1>1, <1>2 DEF IsArena
<1>4. b2 = [limits |-> m2, tree |-> b.tree, edge |-> b.edge, rebalances |-> b.rebalances]
  <2> HIDE DEF m2
  <2>1. b2 = [b EXCEPT !.limits = m2]
    BY DEF m2, WithLevel
  <2> QED BY <2>1 DEF GoodSide
<1> HIDE DEF m2
<1>5. \A U : IsTree(m, U, b.tree) => IsTree(m2, U, b.tree)
  BY <1>3, LinksMakeTrees DEF Links, Fields
<1>6. GoodSide(b2, side)
  <2> HIDE DEF m
  <2>1. b.limits = m
    BY DEF m
  <2>2. b2.limits = m2 /\ b2.tree = b.tree /\ b2.edge = b.edge
    BY <1>4
  <2>3. b2 = [limits |-> b2.limits, tree |-> b2.tree, edge |-> b2.edge, rebalances |-> b2.rebalances]
    BY <1>4
  <2>4. CASE DOMAIN m = {}
    BY <1>3, <2>1, <2>2, <2>3, <2>4 DEF GoodSide
  <2>5. CASE DOMAIN m # {}
    <3>1. (\E U : IsTree(m, U, b.tree)) /\ IsBest(side, DOMAIN m, b.edge)
      BY <2>1, <2>5 DEF GoodSide
    <3>2. (\E U : IsTree(m2, U, b2.tree)) /\ IsBest(side, DOMAIN m2, b2.edge)
      BY <1>3, <1>5, <2>2, <3>1
    <3> QED BY <1>3, <2>2, <2>3, <2>5, <3>2 DEF GoodSide
  <2> QED BY <2>4, <2>5
<1>7. Bushy(m) => Bushy(m2)
  <2> SUFFICES ASSUME Bushy(m) PROVE Bushy(m2)
    OBVIOUS
  <2> HIDE DEF m
  <2>1. \A q \in DOMAIN m : /\ m2[q].left = m[q].left /\ m2[q].right = m[q].right
    BY <1>3 DEF Fields
  <2>2. ASSUME NEW q \in DOMAIN m, NEW d \in Dirs, m[q][d] # NIL PROVE m[q][d] \in DOMAIN m
    <3>1. PICK U : IsTree(m, U, b.tree)
      BY DEF GoodSide, m
    <3> QED BY <2>2, <3>1, NodeFacts
  <2>3. \A q \in DOMAIN m : /\ m[q].left # NIL => m[q].left \in DOMAIN m
                            /\ m[q].right # NIL => m[q].right \in DOMAIN m
    BY <2>2 DEF Dirs
  <2> QED BY <1>3, <2>1, <2>3 DEF Bushy
<1> QED BY <1>3, <1>4, <1>6, <1>7

(* A tree of one. *)
LEMMA LeafIsTree ==
  ASSUME NEW m, NEW p \in Price, DOMAIN m = {p},
         m[p].parent = NIL, m[p].left = NIL, m[p].right = NIL
  PROVE  \E U : IsTree(m, U, p)
<1> DEFINE U == [q \in {p} |-> {p}]
<1>1. NodeOK(m, U, p)
  BY DEF NodeOK, Below, Dirs
<1>2. IsTree(m, U, p)
  BY <1>1, FS_Singleton DEF IsTree
<1> QED BY <1>2

(* Arena::add_limit keeps a side in good order, with p as its only new *)
(* level, and keeps of every level what is not link or height.         *)
LEMMA AddKeepsSide ==
  ASSUME NEW side \in Side, NEW b, GoodSide(b, side),
         NEW p \in Price, p \notin DOMAIN b.limits,
         NEW limit, IsNode(limit), limit.parent = NIL, limit.left = NIL, limit.right = NIL
  PROVE  LET b2 == AddLimitTo(b, side, p, limit)
         IN  /\ GoodSide(b2, side)
             /\ DOMAIN b2.limits = DOMAIN b.limits \cup {p}
             /\ OnlyLinksMoved(limit, b2.limits[p])
             /\ \A q \in DOMAIN b.limits : OnlyLinksMoved(b.limits[q], b2.limits[q])
             /\ b.rebalances \in Int => Counts(b, b2)
<1> DEFINE m0 == b.limits
           D == DOMAIN m0
           m == [q \in D \cup {p} |-> IF q = p THEN limit ELSE m0[q]]
           b2 == AddLimitTo(b, side, p, limit)
           better == IF b.edge = NIL THEN side = "Bid" ELSE Outranks(side, p, b.edge)
           t == InsertRecursive(m, b.tree, p)
<1>1. /\ IsArena(m) /\ DOMAIN m = D \cup {p}
      /\ \A q \in D : m[q] = m0[q]
      /\ m[p] = limit
  BY DEF IsArena, GoodSide
<1> HIDE DEF m
<1>2. CASE D = {}
  <2> DEFINE b1 == [limits |-> m, tree |-> p, edge |-> p, rebalances |-> b.rebalances]
  <2>1. b2 = b1
    BY <1>2 DEF AddLimitTo, GoodSide, m
  <2>2. \E U : IsTree(m, U, p)
    BY <1>1, <1>2, LeafIsTree
  <2>3. IsBest(side, D \cup {p}, p)
    BY <1>2 DEF IsBest
  <2>4. GoodSide(b1, side)
    BY <1>1, <2>2, <2>3 DEF GoodSide
  <2>5. OnlyLinksMoved(limit, limit)
    BY DEF OnlyLinksMoved, IsNode
  <2> HIDE DEF b2
  <2>6. b.rebalances \in Int => Counts(b, b2)
    <3>1. 0 \in 0..Cardinality(D)
      BY SideIsFinite
    <3>2. b2.rebalances = b.rebalances
      BY <2>1
    <3> QED BY <3>1, <3>2 DEF Counts
  <2> QED BY <1>1, <1>2, <2>1, <2>4, <2>5, <2>6 DEF b2
<1>3. CASE D # {}
  <2>1. PICK U : IsTree(m0, U, b.tree)
    BY <1>3 DEF GoodSide
  <2>2. b.tree # NIL /\ NIL \notin D /\ D \subseteq Int /\ p \in Int
    BY <2>1, NilIsNoPrice, PricesAreIntegers DEF IsTree
  <2>3. Added(m0, m, p)
    BY <1>1 DEF Added
  <2>4. /\ IsState(t) /\ IsArena(t.m) /\ KeepsRest(m, t.m)
        /\ \E V : IsTree(t.m, V, t.top)
        /\ t.rot \in 0..Cardinality(D)
    BY <2>1, <2>3, InsertRebuilds
  <2> DEFINE b1 == [limits |-> t.m, tree |-> t.top, edge |-> IF better THEN p ELSE b.edge,
                    rebalances |-> b.rebalances + t.rot]
  <2>5. b2 = b1
    <3>1. b2 = [Balance(b, [t EXCEPT !.tree = t.top]) EXCEPT !.edge = IF better THEN p ELSE @]
      BY <2>2 DEF AddLimitTo, m
    <3> HIDE DEF t, better, b2
    <3> QED BY <2>4, <3>1 DEF Balance, IsState, GoodSide
  <2>6. DOMAIN t.m = D \cup {p}
    BY <1>1, <2>4 DEF KeepsRest
  <2>7. IsBest(side, D \cup {p}, IF better THEN p ELSE b.edge)
    <3>1. b.edge \in D /\ \A q \in D \ {b.edge} : Outranks(side, b.edge, q)
      BY <1>3 DEF GoodSide, IsBest
    <3> HIDE DEF D
    <3> QED BY <2>2, <3>1 DEF IsBest, Outranks, D
  <2> HIDE DEF t, better
  <2>8. GoodSide(b1, side)
    BY <2>4, <2>6, <2>7 DEF GoodSide
  <2>9. \A q \in D \cup {p} : OnlyLinksMoved(m[q], t.m[q])
    BY <1>1, <2>4 DEF KeepsRest
  <2> HIDE DEF b2
  <2>10. Counts(b, b2)
    BY <2>4, <2>5 DEF Counts
  <2> QED BY <1>1, <2>5, <2>6, <2>8, <2>9, <2>10 DEF b2
<1> QED BY <1>2, <1>3

-----------------------------------------------------------------------------
(* Removal: the links. *)

(* m2 is m without x, which has at most the one child only. *)
IsSpliced(m, m2, x, only) ==
  /\ DOMAIN m2 = DOMAIN m \ {x}
  /\ \A q \in DOMAIN m \ {x} :
       /\ m2[q].parent = IF q = only THEN m[x].parent ELSE m[q].parent
       /\ \A d \in Dirs : m2[q][d] = IF q = m[x].parent /\ d = Toward(x, q) THEN only ELSE m[q][d]

(* A limit with at most one child leaves a search tree when that child takes *)
(* its place.                                                                *)
LEMMA SpliceKeepsTree ==
  ASSUME NEW m, NEW U, NEW root, IsTree(m, U, root), NEW x \in DOMAIN m, NEW near \in Dirs,
         m[x][Opposite(near)] = NIL, DOMAIN m \ {x} # {},
         NEW m2, IsSpliced(m, m2, x, m[x][near])
  PROVE  IsTree(m2, [q \in DOMAIN m \ {x} |-> U[q] \ {x}], IF root = x THEN m[x][near] ELSE root)
<1> DEFINE D == DOMAIN m
           only == m[x][near]
           a == m[x].parent
           e == Toward(x, a)
           U2 == [q \in D \ {x} |-> U[q] \ {x}]
           root2 == IF root = x THEN only ELSE root
<1>1. /\ NIL \notin D /\ D \subseteq Int /\ x \in U[x] /\ x # NIL
      /\ U[x] = {x} \cup Below(U, only)
      /\ only # NIL => /\ only \in D \ {x} /\ m[only].parent = x /\ U[only] \subseteq U[x] \ {x}
                       /\ only \in U[only]
      /\ a # NIL => a \in D \ {x} /\ m[a][e] = x /\ e \in Dirs /\ U[x] \subseteq U[a] \ {a}
  BY NodeFacts DEF Below
<1>2. /\ DOMAIN m2 = D \ {x}
      /\ \A q \in D \ {x} :
           /\ m2[q].parent = IF q = only THEN a ELSE m[q].parent
           /\ \A d \in Dirs : m2[q][d] = IF q = a /\ d = e THEN only ELSE m[q][d]
  BY DEF IsSpliced
<1>3. \A q \in D \ {x} : m[q].parent = x => q = only
  <2> SUFFICES ASSUME NEW q \in D \ {x}, m[q].parent = x PROVE q = only
    OBVIOUS
  <2>1. m[x][Toward(q, x)] = q /\ Toward(q, x) \in Dirs
    BY <1>1, NodeFacts DEF Dirs
  <2>2. Dirs = {near, Opposite(near)}
    BY DEF Dirs, Opposite
  <2> QED BY <1>1, <2>1, <2>2
<1>4. /\ U2 \in [D \ {x} -> SUBSET (D \ {x})]
      /\ \A q \in D \ {x} : U2[q] = U[q] \ {x}
  BY DEF IsTree
<1> HIDE DEF U2, e, a, only
<1>5. ASSUME NEW q \in D \ {x} PROVE NodeOK(m2, U2, q)
  <2>1. /\ q \in U[q] /\ U[q] = {q} \cup Below(U, m[q].left) \cup Below(U, m[q].right)
        /\ \A d \in Dirs : m[q][d] # NIL =>
             /\ m[q][d] \in D /\ m[m[q][d]].parent = q /\ Toward(m[q][d], q) = d
             /\ \A y \in U[m[q][d]] : On(d, y, q)
        /\ m[q].parent # NIL => /\ m[q].parent \in D /\ m[m[q].parent][Toward(q, m[q].parent)] = q
                                /\ Toward(q, m[q].parent) \in Dirs
    BY NodeFacts DEF Dirs, Opposite
  <2>2. ASSUME NEW d \in Dirs
        PROVE  /\ Below(U2, m2[q][d]) = Below(U, m[q][d]) \ {x}
               /\ m2[q][d] # NIL => /\ m2[q][d] \in D \ {x} /\ m2[m2[q][d]].parent = q
                                    /\ \A y \in U2[m2[q][d]] : On(d, y, q)
    <3>1. CASE q = a /\ d = e
      <4>1. m2[q][d] = only /\ m[q][d] = x
        BY <1>1, <1>2, <3>1
      <4>2. only # NIL => m2[only].parent = q /\ U2[only] = U[only]
        <5> SUFFICES ASSUME only # NIL PROVE m2[only].parent = q /\ U2[only] = U[only]
          OBVIOUS
        <5>1. only \in D \ {x} /\ x \notin U[only]
          BY <1>1
        <5>2. m2[only].parent = a
          BY <1>2, <5>1
        <5>3. U2[only] = U[only] \ {x}
          BY <1>4, <5>1
        <5>4. U[only] \ {x} = U[only]
          BY <5>1
        <5> QED BY <3>1, <5>2, <5>3, <5>4
      <4>3. \A y \in U[x] : On(d, y, q)
        BY <1>1, <2>1, <4>1
      <4> QED BY <1>1, <4>1, <4>2, <4>3 DEF Below
    <3>2. CASE ~ (q = a /\ d = e)
      <4>1. m2[q][d] = m[q][d]
        BY <1>2, <3>2
      <4>2. m[q][d] # x
        BY <1>1, <2>1, <3>2 DEF a, e
      <4>3. m[q][d] # NIL => m[q][d] # only
        BY <1>1, <2>1
      <4>4. m[q][d] # NIL => m2[m[q][d]].parent = q
        BY <1>2, <2>1, <4>2, <4>3
      <4> QED BY <1>4, <2>1, <4>1, <4>2, <4>4 DEF Below
    <3> QED BY <3>1, <3>2
  <2>3. U2[q] = {q} \cup Below(U2, m2[q].left) \cup Below(U2, m2[q].right) /\ q \in U2[q]
    <3>1. /\ Below(U2, m2[q].left) = Below(U, m[q].left) \ {x}
          /\ Below(U2, m2[q].right) = Below(U, m[q].right) \ {x}
      BY <2>2 DEF Dirs
    <3> QED BY <1>4, <2>1, <3>1
  <2>4. m2[q].parent # NIL =>
          m2[q].parent \in D \ {x} /\ m2[m2[q].parent][Toward(q, m2[q].parent)] = q
    <3>1. CASE q = only
      <4>1. m2[q].parent = a
        BY <1>2, <3>1
      <4>2. only # NIL
        BY <1>1, <3>1
      <4>3. a # NIL => Toward(only, a) = e
        <5> SUFFICES ASSUME a # NIL PROVE Toward(only, a) = e
          OBVIOUS
        <5>1. a \in D /\ e \in Dirs /\ m[a][e] = x /\ m[a][e] # NIL
          BY <1>1
        <5>2. \A y \in U[m[a][e]] : Toward(y, a) = e
          BY <5>1, NodeFacts
        <5> QED BY <1>1, <4>2, <5>1, <5>2
      <4> QED BY <1>1, <1>2, <3>1, <4>1, <4>3
    <3>2. CASE q # only
      <4>1. m2[q].parent = m[q].parent /\ m[q].parent # x
        BY <1>2, <1>3, <3>2
      <4>2. ~ (m[q].parent = a /\ Toward(q, m[q].parent) = e /\ a # NIL)
        BY <1>1, <2>1
      <4> QED BY <1>2, <2>1, <4>1, <4>2
    <3> QED BY <3>1, <3>2
  <2> QED BY <1>2, <2>2, <2>3, <2>4 DEF NodeOK
<1>6. /\ root \in D /\ U[root] = D /\ \A q \in D : m[q].parent = NIL <=> q = root
  BY DEF IsTree
<1>7. root = x => only # NIL
  BY <1>1, <1>6 DEF Below
<1>8. \A q \in D \ {x} : m2[q].parent = NIL <=> q = root2
  <2>1. a = NIL <=> x = root
    BY <1>6 DEF a
  <2>2. only # root
    BY <1>1, <1>6, <1>7
  <2>3. \A q \in D \ {x} : m2[q].parent = IF q = only THEN a ELSE m[q].parent
    BY <1>2
  <2> QED BY <1>1, <1>6, <2>1, <2>2, <2>3
<1>9. root2 \in D \ {x} /\ U2[root2] = D \ {x}
  <2>1. root = x => D = {x} \cup U[only]
    BY <1>1, <1>6, <1>7 DEF Below
  <2>2. root = x => only \in D \ {x} /\ U[only] \subseteq D \ {x}
    BY <1>1, <1>6, <1>7
  <2> QED BY <1>4, <1>6, <2>1, <2>2
<1>10. D \ {x} \subseteq Price /\ IsFiniteSet(D \ {x})
  BY FS_Subset DEF IsTree
<1> HIDE DEF root2
<1>11. IsTree(m2, U2, root2)
  BY <1>2, <1>4, <1>5, <1>8, <1>9, <1>10 DEF IsTree
<1> QED BY <1>11 DEF U2, root2, only

(* p swapped for t, as a price and in a set. *)
Swap(p, t, c) == IF c = p THEN t ELSE c
SwapIn(p, t, S) == IF p \in S THEN (S \ {p}) \cup {t} ELSE S

(* m2 is m with t for p. *)
IsRenamed(m, m2, p, t) ==
  /\ DOMAIN m2 = (DOMAIN m \ {p}) \cup {t}
  /\ \A q \in DOMAIN m, f \in Links : m2[Swap(p, t, q)][f] = Swap(p, t, m[q][f])

(* A price swapped for one that lies no other way from all the rest leaves a *)
(* search tree.                                                              *)
LEMMA RenameKeepsTree ==
  ASSUME NEW m, NEW U, NEW root, IsTree(m, U, root), NEW p \in DOMAIN m,
         NEW t \in Price \ DOMAIN m, \A q \in DOMAIN m \ {p} : q < p <=> q < t,
         NEW m2, IsRenamed(m, m2, p, t)
  PROVE  IsTree(m2, [q \in (DOMAIN m \ {p}) \cup {t} |-> SwapIn(p, t, U[IF q = t THEN p ELSE q])],
                Swap(p, t, root))
<1> DEFINE D == DOMAIN m
           D2 == (D \ {p}) \cup {t}
           s(c) == Swap(p, t, c)
           U2 == [q \in D2 |-> SwapIn(p, t, U[IF q = t THEN p ELSE q])]
<1>1. NIL \notin D /\ D \subseteq Int /\ p \in Int /\ t \in Int /\ t \notin D /\ t # NIL /\ p # t
  BY PricesAreIntegers, NilIsNoPrice DEF IsTree
<1>2. /\ DOMAIN m2 = D2 /\ s(NIL) = NIL
      /\ \A q \in D : s(q) \in D2 /\ s(q) # NIL
      /\ \A r \in D2 : \E q \in D : r = s(q)
      /\ \A q, r \in D : s(q) = s(r) => q = r
  BY <1>1 DEF IsRenamed, Swap
<1>3. \A q \in D : /\ m2[s(q)].parent = s(m[q].parent)
                   /\ \A d \in Dirs : m2[s(q)][d] = s(m[q][d])
                   /\ m2[s(q)].left = s(m[q].left)
                   /\ m2[s(q)].right = s(m[q].right)
  BY DEF IsRenamed, Links, Dirs
<1>4. \A q, r \in D : /\ Toward(s(q), s(r)) = Toward(q, r)
                      /\ \A d \in Dirs : On(d, q, r) => On(d, s(q), s(r))
  <2>1. \A q, r \in D : s(q) < s(r) <=> q < r
    <3> SUFFICES ASSUME NEW q \in D, NEW r \in D PROVE s(q) < s(r) <=> q < r
      OBVIOUS
    <3>1. q \in Int /\ r \in Int /\ q # t /\ r # t
      BY <1>1
    <3>2. CASE q = p /\ r = p
      BY <1>1, <3>2 DEF Swap
    <3>3. CASE q = p /\ r # p
      <4>1. r < p <=> r < t
        BY <3>3
      <4> QED BY <1>1, <3>1, <3>3, <4>1 DEF Swap
    <3>4. CASE q # p /\ r = p
      BY <3>4 DEF Swap
    <3>5. CASE q # p /\ r # p
      BY <3>5 DEF Swap
    <3> QED BY <3>2, <3>3, <3>4, <3>5
  <2> QED BY <2>1 DEF Toward, On
<1>5. \A q \in D : /\ U[q] \subseteq D /\ U2[s(q)] = {s(x) : x \in U[q]}
  <2> SUFFICES ASSUME NEW q \in D PROVE U[q] \subseteq D /\ U2[s(q)] = {s(x) : x \in U[q]}
    OBVIOUS
  <2>1. U[q] \subseteq D
    BY DEF IsTree
  <2>2. U2[s(q)] = SwapIn(p, t, U[q])
    BY <1>1, <1>2 DEF Swap
  <2>3. SwapIn(p, t, U[q]) = {s(x) : x \in U[q]}
    BY <1>1, <2>1 DEF Swap, SwapIn
  <2> QED BY <2>1, <2>2, <2>3
<1>6. U2 \in [D2 -> SUBSET D2]
  <2>1. \A q \in D2 : U[IF q = t THEN p ELSE q] \subseteq D
    BY DEF IsTree
  <2> QED BY <2>1 DEF SwapIn
<1> HIDE DEF U2, D2, s
<1>7. ASSUME NEW q \in D PROVE NodeOK(m2, U2, s(q))
  <2>1. /\ q \in U[q] /\ U[q] = {q} \cup Below(U, m[q].left) \cup Below(U, m[q].right)
        /\ \A d \in Dirs : m[q][d] # NIL =>
             m[q][d] \in D /\ m[m[q][d]].parent = q /\ \A y \in U[m[q][d]] : On(d, y, q)
        /\ m[q].parent # NIL => m[q].parent \in D /\ m[m[q].parent][Toward(q, m[q].parent)] = q
                                /\ Toward(q, m[q].parent) \in Dirs
    BY NodeFacts DEF Dirs, Opposite
  <2>2. \A d \in Dirs : /\ Below(U2, m2[s(q)][d]) = {s(x) : x \in Below(U, m[q][d])}
    <3> SUFFICES ASSUME NEW d \in Dirs
                 PROVE  Below(U2, m2[s(q)][d]) = {s(x) : x \in Below(U, m[q][d])}
      OBVIOUS
    <3>1. CASE m[q][d] = NIL
      BY <1>2, <1>3, <3>1 DEF Below
    <3>2. CASE m[q][d] # NIL
      BY <1>2, <1>3, <1>5, <2>1, <3>2 DEF Below
    <3> QED BY <3>1, <3>2
  <2>3. \A d \in Dirs : m2[s(q)][d] # NIL =>
          /\ m2[s(q)][d] \in D2 /\ m2[m2[s(q)][d]].parent = s(q)
          /\ \A y \in U2[m2[s(q)][d]] : On(d, y, s(q))
    <3> SUFFICES ASSUME NEW d \in Dirs, m2[s(q)][d] # NIL
                 PROVE  /\ m2[s(q)][d] \in D2 /\ m2[m2[s(q)][d]].parent = s(q)
                        /\ \A y \in U2[m2[s(q)][d]] : On(d, y, s(q))
      OBVIOUS
    <3> DEFINE c == m[q][d]
    <3>1. m2[s(q)][d] = s(c) /\ c # NIL
      BY <1>2, <1>3
    <3>2. c \in D /\ m[c].parent = q /\ \A y \in U[c] : On(d, y, q)
      BY <2>1, <3>1
    <3> HIDE DEF c
    <3>3. m2[s(c)].parent = s(q) /\ s(c) \in D2
      BY <1>2, <1>3, <3>2
    <3>4. \A y \in U2[s(c)] : On(d, y, s(q))
      BY <1>4, <1>5, <3>2
    <3> QED BY <3>1, <3>3, <3>4
  <2>4. m2[s(q)].parent # NIL =>
          m2[s(q)].parent \in D2 /\ m2[m2[s(q)].parent][Toward(s(q), m2[s(q)].parent)] = s(q)
    <3> SUFFICES ASSUME m2[s(q)].parent # NIL
                 PROVE  m2[s(q)].parent \in D2 /\ m2[m2[s(q)].parent][Toward(s(q), m2[s(q)].parent)] = s(q)
      OBVIOUS
    <3> DEFINE c == m[q].parent
    <3>1. m2[s(q)].parent = s(c) /\ c # NIL
      BY <1>2, <1>3
    <3>2. c \in D /\ m[c][Toward(q, c)] = q /\ Toward(q, c) \in Dirs
      BY <2>1, <3>1
    <3> HIDE DEF c
    <3> QED BY <1>2, <1>3, <1>4, <3>1, <3>2
  <2>5. s(q) \in U2[s(q)]
        /\ U2[s(q)] = {s(q)} \cup Below(U2, m2[s(q)].left) \cup Below(U2, m2[s(q)].right)
    <3>1. /\ Below(U2, m2[s(q)].left) = {s(x) : x \in Below(U, m[q].left)}
          /\ Below(U2, m2[s(q)].right) = {s(x) : x \in Below(U, m[q].right)}
      BY <2>2 DEF Dirs
    <3>2. U2[s(q)] = {s(x) : x \in U[q]}
      BY <1>5
    <3>3. \A S, T : {s(x) : x \in {q} \cup S \cup T} = {s(q)} \cup {s(x) : x \in S} \cup {s(x) : x \in T}
      OBVIOUS
    <3> QED BY <2>1, <3>1, <3>2, <3>3
  <2> QED BY <1>2, <2>3, <2>4, <2>5 DEF NodeOK
<1>8. \A r \in D2 : NodeOK(m2, U2, r)
  BY <1>2, <1>7
<1>9. root \in D /\ U[root] = D /\ \A q \in D : m[q].parent = NIL <=> q = root
  BY DEF IsTree
<1>10. \A r \in D2 : m2[r].parent = NIL <=> r = s(root)
  <2> SUFFICES ASSUME NEW q \in D PROVE m2[s(q)].parent = NIL <=> s(q) = s(root)
    BY <1>2
  <2>1. m[q].parent = NIL \/ m[q].parent \in D
    <3>1. "left" \in Dirs
      BY DEF Dirs
    <3> QED BY <3>1, NodeFacts
  <2> QED BY <1>2, <1>3, <1>9, <2>1
<1>11. s(root) \in D2 /\ U2[s(root)] = D2
  <2>1. D2 = {s(x) : x \in D}
    BY <1>2
  <2> QED BY <1>2, <1>5, <1>9, <2>1
<1>12. D2 \subseteq Price /\ IsFiniteSet(D2)
  BY FS_RemoveElement, FS_AddElement DEF IsTree, D2
<1>13. IsTree(m2, U2, s(root))
  BY <1>2, <1>6, <1>8, <1>10, <1>11, <1>12 DEF IsTree
<1> QED BY <1>13 DEF U2, s, D2

(* Leftmost finds the least price below p, and it has no left child. *)
LEMMA LeftmostIsLeast ==
  ASSUME NEW m, NEW U, NEW root, IsTree(m, U, root), NEW p \in DOMAIN m, NEW r \in DOMAIN m,
         p \notin U[r]
  PROVE  LET rest == [q \in DOMAIN m \ {p} |-> m[q]]
             least == Leftmost(rest, r)
         IN  least \in U[r] /\ m[least].left = NIL /\ \A x \in U[r] \ {least} : least < x
<1> DEFINE D == DOMAIN m
           rest == [q \in D \ {p} |-> m[q]]
           Walk(f, q) == IF rest[q].left \notin D \ {p} THEN q ELSE f[rest[q].left]
           IsWalk(f) == f = [q \in D \ {p} |-> Walk(f, q)]
<1>1. \E f : IsWalk(f)
  <2> DEFINE nxt == [q \in D \ {p} |-> IF m[q].left \in D \ {p} THEN m[q].left ELSE NIL]
             N == Cardinality(D)
             rank == [q \in D |-> Cardinality(U[q])]
  <2>1. /\ N \in Nat /\ \A q \in D : rank[q] \in 1..N
        /\ \A q \in D : m[q].left # NIL => m[q].left \in D /\ rank[m[q].left] < rank[q]
    BY Sizes DEF Dirs
  <2>2. NIL \notin D
    BY NodeFacts DEF Dirs
  <2> HIDE DEF N, rank
  <2>3. /\ \A q \in D \ {p} : rank[q] \in 0..N
        /\ \A q \in D \ {p} : nxt[q] # NIL => nxt[q] \in D \ {p} /\ rank[nxt[q]] < rank[q]
    BY <2>1, <2>2
  <2> HIDE DEF nxt
  <2>4. PICK g : ArePaths(g, D \ {p}, nxt, NIL)
    BY <2>1, <2>3, PathsExist
  <2>5. \A q \in D \ {p} : IsPath(g[q], D \ {p}, nxt, NIL, q)
    BY <2>1, <2>3, <2>4, PathsArePaths
  <2> DEFINE h == [q \in D \ {p} |-> g[q][Len(g[q])]]
  <2>6. ASSUME NEW q \in D \ {p} PROVE h[q] = Walk(h, q)
    <3>1. g[q] = IF nxt[q] = NIL THEN <<q>> ELSE <<q>> \o g[nxt[q]]
      BY <2>4 DEF ArePaths, PathAt
    <3>2. CASE nxt[q] = NIL
      <4>1. m[q].left \notin D \ {p}
        BY <2>2, <3>2 DEF nxt
      <4>2. g[q] = <<q>>
        BY <3>1, <3>2
      <4> QED BY <4>1, <4>2
    <3>3. CASE nxt[q] # NIL
      <4>1. nxt[q] \in D \ {p} /\ m[q].left = nxt[q]
        BY <2>2, <3>3 DEF nxt
      <4> DEFINE s == g[nxt[q]]
      <4>2. s \in Seq(D \ {p}) /\ Len(s) \in Nat \ {0}
        BY <2>5, <4>1 DEF IsPath
      <4>3. g[q] = <<q>> \o s
        BY <3>1, <3>3
      <4>4. h[q] = s[Len(s)]
        <5> HIDE DEF s
        <5> QED BY <4>2, <4>3
      <4>5. h[nxt[q]] = s[Len(s)]
        BY <4>1
      <4>6. Walk(h, q) = h[nxt[q]]
        BY <4>1
      <4> QED BY <4>4, <4>5, <4>6
    <3> QED BY <3>2, <3>3
  <2>7. IsWalk(h)
    <3>1. h = [q \in D \ {p} |-> h[q]]
      OBVIOUS
    <3> HIDE DEF h
    <3> QED BY <2>6, <3>1, Zenon
  <2> HIDE DEF h
  <2> QED BY <2>7
<1> DEFINE f == CHOOSE g : IsWalk(g)
<1>2. IsWalk(f)
  BY <1>1
<1>3. Leftmost(rest, r) = f[r]
  BY DEF Leftmost
<1> HIDE DEF f
<1> DEFINE Good(q) == f[q] \in U[q] /\ m[f[q]].left = NIL /\ \A x \in U[q] \ {f[q]} : f[q] < x
           S == {q \in D : p \notin U[q] => Good(q)}
<1>4. ASSUME NEW q \in D, \A d \in Dirs : m[q][d] # NIL => m[q][d] \in S, p \notin U[q]
      PROVE  Good(q)
  <2> DEFINE left == m[q].left
             right == m[q].right
  <2>1. /\ NIL \notin D /\ D \subseteq Int /\ q \in U[q] /\ U[q] \subseteq D
        /\ U[q] = {q} \cup Below(U, left) \cup Below(U, right)
        /\ \A d \in Dirs : m[q][d] # NIL => m[q][d] \in D /\ m[q][d] \in U[m[q][d]]
                             /\ U[m[q][d]] \subseteq U[q] /\ \A y \in U[m[q][d]] : On(d, y, q)
    BY NodeFacts DEF Dirs, Opposite
  <2>2. \A y \in Below(U, right) : q < y
    BY <2>1 DEF Below, On, Dirs
  <2>3. q # p /\ f[q] = Walk(f, q)
    BY <1>2, <1>4, <2>1
  <2>4. CASE left = NIL
    <3>1. f[q] = q
      BY <2>1, <2>3, <2>4
    <3> QED BY <2>1, <2>2, <2>4, <3>1 DEF Below
  <2>5. CASE left # NIL
    <3>1. left \in D /\ left \in S /\ left \in U[left] /\ U[left] \subseteq U[q]
          /\ \A y \in U[left] : y < q
      BY <1>4, <2>1, <2>5 DEF On, Dirs
    <3>2. p \notin U[left] /\ left # p /\ f[q] = f[left]
      BY <1>4, <2>3, <3>1
    <3> HIDE DEF left
    <3>3. f[q] \in U[left] /\ m[f[q]].left = NIL /\ \A x \in U[left] \ {f[q]} : f[q] < x
      BY <3>1, <3>2
    <3>4. f[q] < q /\ f[q] \in Int
      BY <2>1, <3>1, <3>3
    <3>5. \A x \in U[q] \ {f[q]} : f[q] < x
      <4> SUFFICES ASSUME NEW x \in U[q], x # f[q] PROVE f[q] < x
        OBVIOUS
      <4>1. x \in Int /\ q \in Int
        BY <2>1
      <4>2. x = q \/ x \in U[left] \/ q < x
        BY <2>1, <2>2, <2>5 DEF Below
      <4> QED BY <3>3, <3>4, <4>1, <4>2
    <3> QED BY <3>1, <3>3, <3>5
  <2> QED BY <2>4, <2>5
<1>5. \A q \in D : (\A d \in Dirs : m[q][d] # NIL => m[q][d] \in S) => q \in S
  BY <1>4
<1> HIDE DEF S
<1>6. D \subseteq S
  BY <1>5, UpTheTree
<1>7. Good(r)
  BY <1>6 DEF S
<1> QED BY <1>3, <1>7

(* Updates of a node that may not be there. *)
LEMMA ReparentAny ==
  ASSUME NEW m, IsArena(m), NIL \notin DOMAIN m, NEW c \in DOMAIN m \cup {NIL}, NEW q
  PROVE  IsPut(m, Reparent(m, c, q), c, "parent", q)
<1>1. CASE c = NIL
  <2>1. Reparent(m, c, q) = m /\ KeepsRest(m, m)
    BY <1>1, SameIsKept DEF Reparent
  <2> QED BY <1>1, <2>1 DEF IsPut
<1>2. CASE c # NIL
  BY <1>2, ReparentPuts
<1> QED BY <1>1, <1>2

LEMMA RelinkAny ==
  ASSUME NEW m, IsArena(m), NIL \notin DOMAIN m, NEW q \in DOMAIN m \cup {NIL}, NEW p, NEW c
  PROVE  IsPut(m, Relink(m, q, p, c), q, Toward(p, q), c)
<1>1. CASE q = NIL
  <2>1. Relink(m, q, p, c) = m /\ KeepsRest(m, m)
    BY <1>1, SameIsKept DEF Relink
  <2> QED BY <1>1, <2>1 DEF IsPut
<1>2. CASE q # NIL
  BY <1>2, RelinkPuts
<1> QED BY <1>1, <1>2

LEMMA PutAt ==
  ASSUME NEW m, IsArena(m), NEW p \in DOMAIN m, NEW v
  PROVE  /\ IsPut(m, [m EXCEPT ![p].parent = v], p, "parent", v)
         /\ IsPut(m, [m EXCEPT ![p].left = v], p, "left", v)
         /\ IsPut(m, [m EXCEPT ![p].right = v], p, "right", v)
<1>1. {"parent", "left", "right"} \subseteq Fields \ {"height"}
  BY DEF Fields
<1>2. /\ IsPut(m, [m EXCEPT ![p]["parent"] = v], p, "parent", v)
      /\ IsPut(m, [m EXCEPT ![p]["left"] = v], p, "left", v)
      /\ IsPut(m, [m EXCEPT ![p]["right"] = v], p, "right", v)
  BY <1>1, Put
<1> QED BY <1>2

(* Two updates, one after the other. *)
LEMMA PutsKeep ==
  ASSUME NEW m, IsArena(m), NEW m1, NEW p, NEW f, NEW v, IsPut(m, m1, p, f, v)
  PROVE  /\ IsArena(m1) /\ DOMAIN m1 = DOMAIN m /\ KeepsRest(m, m1)
         /\ \A q \in DOMAIN m, g \in Links : m1[q][g] = IF q = p /\ g = f THEN v ELSE m[q][g]
BY DEF IsPut, KeepsRest, Links, Fields

(* handle_delete_limit of a limit with at most one child. *)
LEMMA CutOfOne ==
  ASSUME NEW m, NEW U, NEW root, IsTree(m, U, root), IsArena(m), NEW p \in DOMAIN m,
         NEW near \in Dirs, m[p][Opposite(near)] = NIL,
         NEW rest, rest = [q \in DOMAIN m \ {p} |-> m[q]],
         NEW cut, cut = Reparent(Relink(rest, m[p].parent, p, m[p][near]), m[p][near], m[p].parent)
  PROVE  IsArena(cut) /\ KeepsRest(rest, cut) /\ IsSpliced(m, cut, p, m[p][near])
<1> DEFINE D == DOMAIN m
           only == m[p][near]
           a == m[p].parent
           e == Toward(p, a)
           m1 == Relink(rest, a, p, only)
<1>1. /\ NIL \notin D
      /\ only # NIL => only \in D \ {p}
      /\ a # NIL => a \in D \ {p} /\ m[a][e] = p /\ e \in Dirs
  BY NodeFacts
<1> HIDE DEF a, only
<1>2. IsArena(rest) /\ DOMAIN rest = D \ {p} /\ \A q \in D \ {p} : rest[q] = m[q]
  BY DEF IsArena
<1>3. IsPut(rest, m1, a, e, only)
  BY <1>1, <1>2, RelinkAny
<1> HIDE DEF m1
<1>4. /\ IsArena(m1) /\ DOMAIN m1 = D \ {p} /\ KeepsRest(rest, m1)
      /\ \A q \in D \ {p}, g \in Links : m1[q][g] = IF q = a /\ g = e THEN only ELSE rest[q][g]
  BY <1>2, <1>3, PutsKeep
<1>5. IsPut(m1, cut, only, "parent", a)
  <2>1. cut = Reparent(m1, only, a)
    BY DEF m1, a, only
  <2> QED BY <1>1, <1>4, <2>1, ReparentAny
<1>6. /\ IsArena(cut) /\ DOMAIN cut = D \ {p} /\ KeepsRest(m1, cut)
      /\ \A q \in D \ {p}, g \in Links : cut[q][g] = IF q = only /\ g = "parent" THEN a ELSE m1[q][g]
  BY <1>4, <1>5, PutsKeep
<1>7. KeepsRest(rest, cut)
  BY <1>2, <1>4, <1>6, RestIsKept
<1>8. IsSpliced(m, cut, p, only)
  <2>1. "parent" \in Links /\ Dirs \subseteq Links /\ "parent" \notin Dirs /\ e # "parent"
    BY DEF Links, Dirs, Toward
  <2>2. ASSUME NEW q \in D \ {p} PROVE cut[q].parent = IF q = only THEN a ELSE m[q].parent
    <3>1. cut[q].parent = IF q = only THEN a ELSE m1[q].parent
      BY <1>6, <2>1
    <3>2. m1[q].parent = rest[q].parent
      BY <1>4, <2>1
    <3> QED BY <1>2, <3>1, <3>2
  <2>3. ASSUME NEW q \in D \ {p}, NEW d \in Dirs
        PROVE  cut[q][d] = IF q = a /\ d = Toward(p, q) THEN only ELSE m[q][d]
    <3>1. d \in Links /\ d # "parent"
      BY <2>1
    <3>2. cut[q][d] = m1[q][d]
      BY <1>6, <3>1
    <3>3. m1[q][d] = IF q = a /\ d = e THEN only ELSE rest[q][d]
      BY <1>4, <3>1
    <3> QED BY <1>2, <3>2, <3>3
  <2> QED BY <1>6, <2>2, <2>3 DEF IsSpliced, a
<1> QED BY <1>6, <1>7, <1>8 DEF only

(* temp takes the place of p, whose left child and parent it gets. *)
PutInPlace(x, temp, left, a, p) ==
  Relink([x EXCEPT ![temp].parent = a, ![temp].left = left, ![left].parent = temp], a, p, temp)

(* What the four updates that put temp in place do to every link. *)
LEMMA Placed ==
  ASSUME NEW x, IsArena(x), NIL \notin DOMAIN x, NEW temp \in DOMAIN x, NEW left \in DOMAIN x,
         NEW a \in DOMAIN x \cup {NIL}, NEW p
  PROVE  LET y == PutInPlace(x, temp, left, a, p)
         IN  /\ IsArena(y) /\ KeepsRest(x, y)
             /\ \A q \in DOMAIN x, g \in Links :
                  y[q][g] = IF q = a /\ g = Toward(p, a) THEN temp
                            ELSE IF q = left /\ g = "parent" THEN temp
                            ELSE IF q = temp /\ g = "left" THEN left
                            ELSE IF q = temp /\ g = "parent" THEN a
                            ELSE x[q][g]
<1> DEFINE x1 == [x EXCEPT ![temp].parent = a]
           x2 == [x1 EXCEPT ![temp].left = left]
           x3 == [x2 EXCEPT ![left].parent = temp]
           y == Relink(x3, a, p, temp)
<1>1. IsPut(x, x1, temp, "parent", a)
  BY PutAt
<1> HIDE DEF x1
<1>2. /\ IsArena(x1) /\ DOMAIN x1 = DOMAIN x /\ KeepsRest(x, x1)
      /\ \A q \in DOMAIN x, g \in Links : x1[q][g] = IF q = temp /\ g = "parent" THEN a ELSE x[q][g]
  BY <1>1, PutsKeep
<1>3. IsPut(x1, x2, temp, "left", left)
  BY <1>2, PutAt
<1> HIDE DEF x2
<1>4. /\ IsArena(x2) /\ DOMAIN x2 = DOMAIN x /\ KeepsRest(x1, x2)
      /\ \A q \in DOMAIN x, g \in Links : x2[q][g] = IF q = temp /\ g = "left" THEN left ELSE x1[q][g]
  BY <1>2, <1>3, PutsKeep
<1>5. IsPut(x2, x3, left, "parent", temp)
  BY <1>4, PutAt
<1> HIDE DEF x3
<1>6. /\ IsArena(x3) /\ DOMAIN x3 = DOMAIN x /\ KeepsRest(x2, x3)
      /\ \A q \in DOMAIN x, g \in Links : x3[q][g] = IF q = left /\ g = "parent" THEN temp ELSE x2[q][g]
  BY <1>4, <1>5, PutsKeep
<1>7. IsPut(x3, y, a, Toward(p, a), temp)
  BY <1>6, RelinkAny
<1> HIDE DEF y
<1>8. /\ IsArena(y) /\ KeepsRest(x3, y)
      /\ \A q \in DOMAIN x, g \in Links : y[q][g] = IF q = a /\ g = Toward(p, a) THEN temp ELSE x3[q][g]
  BY <1>6, <1>7, PutsKeep
<1>9. KeepsRest(x, y)
  <2>1. KeepsRest(x, x2)
    BY <1>2, <1>4, RestIsKept
  <2>2. KeepsRest(x, x3)
    BY <1>6, <2>1, RestIsKept
  <2> QED BY <1>8, <2>2, RestIsKept
<1>10. y = PutInPlace(x, temp, left, a, p)
  BY DEF y, x3, x2, x1, PutInPlace
<1> HIDE DEF y
<1>11. \A q \in DOMAIN x, g \in Links :
         y[q][g] = IF q = a /\ g = Toward(p, a) THEN temp
                   ELSE IF q = left /\ g = "parent" THEN temp
                   ELSE IF q = temp /\ g = "left" THEN left
                   ELSE IF q = temp /\ g = "parent" THEN a
                   ELSE x[q][g]
  <2> SUFFICES ASSUME NEW q \in DOMAIN x, NEW g \in Links
               PROVE  y[q][g] = IF q = a /\ g = Toward(p, a) THEN temp
                   ELSE IF q = left /\ g = "parent" THEN temp
                   ELSE IF q = temp /\ g = "left" THEN left
                   ELSE IF q = temp /\ g = "parent" THEN a
                   ELSE x[q][g]
    OBVIOUS
  <2>1. y[q][g] = IF q = a /\ g = Toward(p, a) THEN temp ELSE x3[q][g]
    BY <1>8
  <2>2. x3[q][g] = IF q = left /\ g = "parent" THEN temp ELSE x2[q][g]
    BY <1>6
  <2>3. x2[q][g] = IF q = temp /\ g = "left" THEN left ELSE x1[q][g]
    BY <1>4
  <2>4. x1[q][g] = IF q = temp /\ g = "parent" THEN a ELSE x[q][g]
    BY <1>2
  <2> QED BY ONLY <2>1, <2>2, <2>3, <2>4
<1>12. IsArena(y) /\ KeepsRest(x, y)
  BY <1>8, <1>9
<1> QED BY ONLY <1>10, <1>11, <1>12

(* The links of m without x. *)
Spliced(m, x, only) ==
  LET a == m[x].parent
      child(q, d) == IF q = a /\ d = Toward(x, q) THEN only ELSE m[q][d]
  IN  [q \in DOMAIN m \ {x} |->
         [parent |-> IF q = only THEN a ELSE m[q].parent,
          left   |-> child(q, "left"),
          right  |-> child(q, "right")]]

(* Those are the links SpliceKeepsTree asks for. *)
LEMMA SplicedIsSpliced ==
  ASSUME NEW m, NEW x, NEW only
  PROVE  IsSpliced(m, Spliced(m, x, only), x, only)
BY DEF IsSpliced, Spliced, Dirs

(* The limit that takes the place of one with two children. *)
LEMMA NextInLine ==
  ASSUME NEW m, NEW U, NEW root, IsTree(m, U, root), NEW p \in DOMAIN m,
         m[p].left # NIL, m[p].right # NIL
  PROVE  LET rest == [q \in DOMAIN m \ {p} |-> m[q]]
             temp == Leftmost(rest, m[p].right)
         IN  /\ temp \in U[m[p].right] /\ temp \in DOMAIN m \ {p} /\ m[temp].left = NIL
             /\ \A x \in U[m[p].right] \ {temp} : temp < x
             /\ \A q \in DOMAIN m \ {temp, p} : q < p <=> q < temp
<1> DEFINE D == DOMAIN m
           L == m[p].left
           R == m[p].right
           rest == [q \in D \ {p} |-> m[q]]
           temp == Leftmost(rest, R)
<1>1. /\ D \subseteq Int /\ U[p] \subseteq D /\ U[p] = {p} \cup U[L] \cup U[R] /\ p \in U[p]
      /\ R \in D /\ p \notin U[R] /\ U[R] \subseteq U[p]
      /\ \A q \in U[L] : q < p
      /\ \A q \in U[R] : p < q
  BY NodeFacts DEF Dirs, Opposite, Below, On
<1>2. temp \in U[R] /\ m[temp].left = NIL /\ \A x \in U[R] \ {temp} : temp < x
  BY <1>1, LeftmostIsLeast
<1> HIDE DEF temp
<1>3. temp \in D \ {p} /\ p < temp
  BY <1>1, <1>2
<1>4. ASSUME NEW q \in D \ {temp, p}
      PROVE  q < p <=> q < temp
  <2>1. q \in Int /\ temp \in Int /\ p \in Int
    BY <1>1, <1>3
  <2>2. CASE q \in U[L]
    BY <1>1, <1>3, <2>1, <2>2
  <2>3. CASE q \in U[R]
    <3>1. p < q /\ temp < q
      BY <1>1, <1>2, <2>3
    <3> QED BY <2>1, <3>1
  <2>4. CASE q \notin U[p]
    <3>1. (\A x \in U[p] : q < x) \/ (\A x \in U[p] : x < q)
      BY <2>4, Apart
    <3>2. p \in U[p] /\ temp \in U[p]
      BY <1>1, <1>2
    <3> QED BY <2>1, <3>1, <3>2
  <2> QED BY <1>1, <2>2, <2>3, <2>4
<1> QED BY <1>2, <1>3, <1>4 DEF temp

(* handle_delete_limit of a limit with two children. *)
LEMMA CutOfTwo ==
  ASSUME NEW m, NEW U, NEW root, IsTree(m, U, root), IsArena(m), NEW p \in DOMAIN m,
         m[p].left # NIL, m[p].right # NIL
  PROVE  LET rest == [q \in DOMAIN m \ {p} |-> m[q]]
             temp == Leftmost(rest, m[p].right)
             cut == HandleDeleteLimit(rest, p, m[p])
         IN  /\ IsArena(cut) /\ KeepsRest(rest, cut)
             /\ IsRenamed(Spliced(m, temp, m[temp].right), cut, p, temp)
<1> DEFINE D == DOMAIN m
           L == m[p].left
           R == m[p].right
           a == m[p].parent
           e == Toward(p, a)
           rest == [q \in D \ {p} |-> m[q]]
           temp == Leftmost(rest, R)
           o == rest[temp].right
           tp == rest[temp].parent
           cut == HandleDeleteLimit(rest, p, m[p])
           m1 == Spliced(m, temp, o)
           x1 == Reparent(rest, o, tp)
           x2 == [x1 EXCEPT ![tp].left = o]
           x3 == [x2 EXCEPT ![temp].right = R]
           x4 == [x3 EXCEPT ![R].parent = temp]
           freed == IF rest[R].left = NIL THEN rest ELSE x4
           placed == [freed EXCEPT ![temp].parent = a, ![temp].left = L, ![L].parent = temp]
           y == Relink(placed, a, p, temp)
<1>1. /\ NIL \notin D /\ D \subseteq Int
      /\ p \in U[p] /\ U[p] \subseteq D
      /\ L \in D \ {p} /\ m[L].parent = p /\ U[L] \subseteq U[p] \ {p} /\ L \in U[L] /\ \A q \in U[L] : q < p
      /\ R \in D \ {p} /\ m[R].parent = p /\ U[R] \subseteq U[p] \ {p} /\ R \in U[R] /\ \A q \in U[R] : p < q
  BY NodeFacts DEF Dirs, Opposite, On
<1>2. a # NIL => a \in D \ {p} /\ m[a][e] = p /\ e \in Dirs /\ a \notin U[p]
  <2>1. a # NIL => a \in D \ {p} /\ m[a][e] = p /\ e \in Dirs /\ U[p] \subseteq U[a] \ {a}
    BY NodeFacts DEF Dirs
  <2> QED BY <2>1
<1>3. /\ temp \in U[R] /\ temp \in D \ {p} /\ m[temp].left = NIL
      /\ \A x \in U[R] \ {temp} : temp < x
  BY NextInLine
<1>4. /\ IsArena(rest) /\ DOMAIN rest = D \ {p} /\ \A q \in D \ {p} : rest[q] = m[q]
  BY DEF IsArena
<1>5. cut = y
  <2>1. L # NIL /\ R # NIL
    OBVIOUS
  <2> HIDE DEF rest
  <2> QED BY <2>1 DEF HandleDeleteLimit
<1> HIDE DEF temp
<1>6. o = m[temp].right /\ tp = m[temp].parent /\ rest[R] = m[R]
  BY <1>1, <1>3, <1>4
<1> HIDE DEF cut, m1
<1>7. y = PutInPlace(freed, temp, L, a, p)
  BY DEF PutInPlace
<1> HIDE DEF y, o, tp
<1>8. /\ L # temp /\ L # R /\ a # temp /\ a # L /\ a # R /\ a # p
      /\ o # NIL => /\ o \in D \ {p, temp, L} /\ m[o].parent = temp
  <2>1. L \notin U[R]
    BY <1>1
  <2>2. o # NIL => o \in D \ {temp} /\ m[o].parent = temp /\ U[o] \subseteq U[temp] \ {temp} /\ o \in U[o]
    BY <1>3, <1>6, NodeFacts DEF Dirs
  <2>3. U[temp] \subseteq U[R]
    BY <1>1, <1>3, Nested
  <2> QED BY <1>1, <1>2, <1>3, <2>1, <2>2, <2>3
<1>9. CASE m[R].left = NIL
  <2>1. temp = R
    <3>1. U[R] = {R} \cup Below(U, m[R].right)
      BY <1>1, <1>9, NodeFacts DEF Dirs, Opposite, Below
    <3>2. \A x \in Below(U, m[R].right) : R < x
      BY <1>1, NodeFacts DEF Dirs, Opposite, Below, On
    <3>3. R \in Int /\ temp \in Int
      BY <1>1, <1>3
    <3> QED BY <1>1, <1>3, <3>1, <3>2, <3>3
  <2>2. tp = p
    BY <1>1, <1>6, <2>1
  <2>3. /\ IsArena(y) /\ KeepsRest(rest, y)
        /\ \A q \in D \ {p}, g \in Links :
             y[q][g] = IF q = a /\ g = e THEN temp
                       ELSE IF q = L /\ g = "parent" THEN temp
                       ELSE IF q = temp /\ g = "left" THEN L
                       ELSE IF q = temp /\ g = "parent" THEN a
                       ELSE m[q][g]
    <3>1. y = PutInPlace(rest, temp, L, a, p)
      <4>1. freed = rest
        BY <1>9, <1>6
      <4> HIDE DEF freed
      <4> QED BY <1>7, <4>1
    <3>2. NIL \notin D \ {p} /\ temp \in D \ {p} /\ L \in D \ {p} /\ a \in (D \ {p}) \cup {NIL}
      BY <1>1, <1>2, <1>3
    <3> HIDE DEF L, a, rest, D
    <3>3. /\ IsArena(y) /\ KeepsRest(rest, y)
          /\ \A q \in DOMAIN rest, g \in Links :
             y[q][g] = IF q = a /\ g = Toward(p, a) THEN temp
                       ELSE IF q = L /\ g = "parent" THEN temp
                       ELSE IF q = temp /\ g = "left" THEN L
                       ELSE IF q = temp /\ g = "parent" THEN a
                       ELSE rest[q][g]
      BY ONLY <1>4, <3>1, <3>2, Placed
    <3>4. ASSUME NEW q \in D \ {p}, NEW g \in Links
          PROVE  y[q][g] = IF q = a /\ g = e THEN temp
                       ELSE IF q = L /\ g = "parent" THEN temp
                       ELSE IF q = temp /\ g = "left" THEN L
                       ELSE IF q = temp /\ g = "parent" THEN a
                       ELSE m[q][g]
      <4>1. rest[q] = m[q] /\ q \in DOMAIN rest
        BY <1>4
      <4> QED BY <3>3, <4>1
    <3> QED BY <3>3, <3>4
  <2> HIDE DEF L, R, a, e, rest, D, freed
  <2>4. ASSUME NEW q \in D \ {temp}, NEW f \in Links
        PROVE  y[Swap(p, temp, q)][f] = Swap(p, temp, m1[q][f])
    <3>1. /\ m1[q].parent = IF q = o THEN p ELSE m[q].parent
          /\ m1[q].left = m[q].left
          /\ m1[q].right = IF q = p THEN o ELSE m[q].right
      <4>1. Toward(temp, p) = "right"
        <5>1. temp \in Int /\ p \in Int /\ p < temp
          BY <1>1, <1>3 DEF D
        <5> QED BY <5>1 DEF Toward
      <4>2. m[temp].parent = p
        BY <1>6, <2>2
      <4> QED BY <1>6, <4>1, <4>2 DEF m1, Spliced, D
    <3>2. CASE q = p
      <4>1. /\ m1[p].parent = a /\ m1[p].left = L /\ m1[p].right = o
        BY <1>1, <1>8, <3>1, <3>2 DEF a, L, D
      <4>2. /\ y[temp].parent = a /\ y[temp].left = L /\ y[temp].right = o
        <5>1. {"parent", "left", "right"} \subseteq Links
          BY DEF Links
        <5> QED BY <1>3, <1>8, <1>6, <2>3, <5>1
      <4>3. L # p /\ a # p /\ o # p
        BY <1>1, <1>8 DEF L, D
      <4> QED BY <3>2, <4>1, <4>2, <4>3 DEF Links, Swap
    <3>3. CASE q # p
      <4>1. y[q][f] = IF q = a /\ f = e THEN temp ELSE IF q = L /\ f = "parent" THEN temp ELSE m[q][f]
        BY <2>3, <3>3
      <4>2. q # temp /\ q \in D \ {p} /\ Swap(p, temp, q) = q
        BY <3>3 DEF Swap
      <4>3. CASE f = "parent"
        <5>1. e # "parent"
          BY DEF e, Toward
        <5>2. m[q].parent = p => q = L
          <6> SUFFICES ASSUME m[q].parent = p PROVE q = L
            OBVIOUS
          <6>1. m[p][Toward(q, p)] = q /\ Toward(q, p) \in Dirs
            BY <1>1, <4>2, NodeFacts DEF Dirs, D
          <6> QED BY <2>1, <4>2, <6>1 DEF Dirs, L, R
        <5>3. q = o => m[q].parent = temp /\ q # L
          BY <1>1, <1>8, <4>2
        <5>4. q = L => m[q].parent = p
          BY <1>1
        <5> QED BY <3>1, <4>1, <4>2, <4>3, <5>1, <5>2, <5>3, <5>4 DEF Swap
      <4>4. CASE f # "parent"
        <5>1. f \in Dirs /\ m1[q][f] = m[q][f]
          BY <3>1, <3>3, <4>4 DEF Links, Dirs
        <5>2. m[q][f] = p <=> q = a /\ f = e
          <6>1. m[q][f] = p => m[p].parent = q /\ Toward(p, q) = f
            BY <1>1, <4>2, <5>1, NodeFacts DEF D
          <6> QED BY <1>1, <1>2, <4>2, <6>1 DEF a, e
        <5> QED BY <4>1, <4>2, <4>4, <5>1, <5>2 DEF Swap
      <4> QED BY <4>3, <4>4
    <3> QED BY <3>2, <3>3
  <2>5. DOMAIN y = D \ {p} /\ DOMAIN m1 = D \ {temp}
    BY <1>4, <2>3 DEF KeepsRest, m1, Spliced, D
  <2>6. IsRenamed(m1, y, p, temp)
    BY <1>3, <2>4, <2>5 DEF IsRenamed
  <2> QED BY <1>5, <1>6, <2>3, <2>6 DEF m1, rest, R, temp, D, cut
<1>10. CASE m[R].left # NIL
  <2>1. temp # R
    BY <1>3, <1>10
  <2>2. tp \in U[R] /\ tp # NIL /\ m[tp].left = temp /\ tp \in D \ {p} /\ tp # temp
        /\ Toward(temp, tp) = "left" /\ tp \notin {L, a}
    <3>1. tp \in U[R] /\ tp # NIL
      BY <1>1, <1>3, <1>6, <2>1, Nested
    <3>2. tp \in D \ {temp} /\ m[tp][Toward(temp, tp)] = temp
      BY <1>3, <1>6, <3>1, NodeFacts DEF Dirs
    <3>3. temp < tp
      BY <1>3, <3>1, <3>2
    <3>4. Toward(temp, tp) = "left"
      BY <3>3 DEF Toward
    <3>5. L \notin U[R]
      BY <1>1
    <3> QED BY <1>1, <1>2, <3>1, <3>2, <3>4, <3>5
  <2>3. o # R
    <3> SUFFICES ASSUME o = R PROVE FALSE
      OBVIOUS
    <3>1. R # NIL /\ m[R].parent = p
      BY <1>1
    <3> HIDE DEF R
    <3> QED BY <1>3, <1>8, <3>1
  <2>4. /\ NIL \notin D \ {p} /\ temp \in D \ {p} /\ L \in D \ {p} /\ a \in (D \ {p}) \cup {NIL}
        /\ R \in D \ {p} /\ tp \in D \ {p} /\ o \in (D \ {p}) \cup {NIL}
    BY <1>1, <1>2, <1>3, <1>8, <2>2
  <2>5. /\ IsArena(x4) /\ KeepsRest(rest, x4) /\ DOMAIN x4 = D \ {p}
        /\ \A q \in D \ {p}, g \in Links :
             x4[q][g] = IF q = R /\ g = "parent" THEN temp
                        ELSE IF q = temp /\ g = "right" THEN R
                        ELSE IF q = tp /\ g = "left" THEN o
                        ELSE IF q = o /\ g = "parent" THEN tp
                        ELSE m[q][g]
    <3> HIDE DEF L, a, e, rest, D, R, o, tp
    <3>1. IsPut(rest, x1, o, "parent", tp)
      BY <1>4, <2>4, ReparentAny
    <3> HIDE DEF x1
    <3>2. /\ IsArena(x1) /\ DOMAIN x1 = D \ {p} /\ KeepsRest(rest, x1)
          /\ \A q \in D \ {p}, g \in Links : x1[q][g] = IF q = o /\ g = "parent" THEN tp ELSE rest[q][g]
      BY <1>4, <3>1, PutsKeep
    <3>3. IsPut(x1, x2, tp, "left", o)
      BY <2>4, <3>2, PutAt
    <3> HIDE DEF x2
    <3>4. /\ IsArena(x2) /\ DOMAIN x2 = D \ {p} /\ KeepsRest(x1, x2)
          /\ \A q \in D \ {p}, g \in Links : x2[q][g] = IF q = tp /\ g = "left" THEN o ELSE x1[q][g]
      BY <3>2, <3>3, PutsKeep
    <3>5. IsPut(x2, x3, temp, "right", R)
      BY <2>4, <3>4, PutAt
    <3> HIDE DEF x3
    <3>6. /\ IsArena(x3) /\ DOMAIN x3 = D \ {p} /\ KeepsRest(x2, x3)
          /\ \A q \in D \ {p}, g \in Links : x3[q][g] = IF q = temp /\ g = "right" THEN R ELSE x2[q][g]
      BY <3>4, <3>5, PutsKeep
    <3>7. IsPut(x3, x4, R, "parent", temp)
      BY <2>4, <3>6, PutAt
    <3> HIDE DEF x4
    <3>8. /\ IsArena(x4) /\ DOMAIN x4 = D \ {p} /\ KeepsRest(x3, x4)
          /\ \A q \in D \ {p}, g \in Links : x4[q][g] = IF q = R /\ g = "parent" THEN temp ELSE x3[q][g]
      BY <3>6, <3>7, PutsKeep
    <3>9. KeepsRest(rest, x4)
      <4>1. KeepsRest(rest, x2)
        BY <1>4, <3>2, <3>4, RestIsKept
      <4>2. KeepsRest(rest, x3)
        BY <1>4, <3>6, <4>1, RestIsKept
      <4> QED BY <1>4, <3>8, <4>2, RestIsKept
    <3>10. ASSUME NEW q \in D \ {p}, NEW g \in Links
           PROVE  x4[q][g] = IF q = R /\ g = "parent" THEN temp
                        ELSE IF q = temp /\ g = "right" THEN R
                        ELSE IF q = tp /\ g = "left" THEN o
                        ELSE IF q = o /\ g = "parent" THEN tp
                        ELSE m[q][g]
      <4>1. x4[q][g] = IF q = R /\ g = "parent" THEN temp ELSE x3[q][g]
        BY <3>8
      <4>2. x3[q][g] = IF q = temp /\ g = "right" THEN R ELSE x2[q][g]
        BY <3>6
      <4>3. x2[q][g] = IF q = tp /\ g = "left" THEN o ELSE x1[q][g]
        BY <3>4
      <4>4. x1[q][g] = IF q = o /\ g = "parent" THEN tp ELSE m[q][g]
        BY <1>4, <3>2
      <4> QED BY ONLY <4>1, <4>2, <4>3, <4>4
    <3> QED BY <3>8, <3>9, <3>10
  <2>6. /\ IsArena(y) /\ KeepsRest(rest, y)
        /\ \A q \in D \ {p}, g \in Links :
             y[q][g] = IF q = a /\ g = e THEN temp
                       ELSE IF q = L /\ g = "parent" THEN temp
                       ELSE IF q = temp /\ g = "left" THEN L
                       ELSE IF q = temp /\ g = "parent" THEN a
                       ELSE x4[q][g]
    <3>1. y = PutInPlace(x4, temp, L, a, p)
      <4>1. freed = x4
        BY <1>10, <1>6
      <4> HIDE DEF freed
      <4> QED BY <1>7, <4>1
    <3> HIDE DEF L, a, rest, D, x4
    <3>2. /\ IsArena(y) /\ KeepsRest(x4, y)
          /\ \A q \in DOMAIN x4, g \in Links :
             y[q][g] = IF q = a /\ g = Toward(p, a) THEN temp
                       ELSE IF q = L /\ g = "parent" THEN temp
                       ELSE IF q = temp /\ g = "left" THEN L
                       ELSE IF q = temp /\ g = "parent" THEN a
                       ELSE x4[q][g]
      <4>1. /\ IsArena(x4) /\ NIL \notin DOMAIN x4 /\ temp \in DOMAIN x4
            /\ L \in DOMAIN x4 /\ a \in DOMAIN x4 \cup {NIL}
        BY <2>4, <2>5
      <4> QED BY ONLY <3>1, <4>1, Placed
    <3>3. KeepsRest(rest, y)
      BY <1>4, <2>5, <3>2, RestIsKept
    <3> QED BY <2>5, <3>2, <3>3 DEF e
  <2> HIDE DEF L, R, a, e, rest, D, freed, x4
  <2>7. ASSUME NEW q \in D \ {temp}, NEW f \in Links
        PROVE  y[Swap(p, temp, q)][f] = Swap(p, temp, m1[q][f])
    <3>1. /\ m1[q].parent = IF q = o THEN tp ELSE m[q].parent
          /\ m1[q].left = IF q = tp THEN o ELSE m[q].left
          /\ m1[q].right = m[q].right
      BY <1>6, <2>2 DEF m1, Spliced, D
    <3>2. CASE q = p
      <4>1. /\ m1[p].parent = a /\ m1[p].left = L /\ m1[p].right = R
        <5>1. p # o /\ p # tp
          BY <1>1, <1>8, <2>2
        <5> QED BY <3>1, <3>2, <5>1 DEF a, L, R
      <4>2. /\ y[temp].parent = a /\ y[temp].left = L /\ y[temp].right = R
        <5>1. {"parent", "left", "right"} \subseteq Links
          BY DEF Links
        <5>2. y[temp].right = x4[temp].right
          BY <1>3, <1>8, <2>6, <5>1
        <5>3. x4[temp].right = R
          BY <1>3, <2>5, <5>1
        <5> QED BY <1>3, <1>8, <2>6, <5>1, <5>2, <5>3
      <4>3. L # p /\ a # p /\ R # p
        BY <1>1, <1>8
      <4> QED BY <3>2, <4>1, <4>2, <4>3 DEF Links, Swap
    <3>3. CASE q # p
      <4>1. y[q][f] = IF q = a /\ f = e THEN temp
                      ELSE IF q = L /\ f = "parent" THEN temp
                      ELSE IF q = R /\ f = "parent" THEN temp
                      ELSE IF q = tp /\ f = "left" THEN o
                      ELSE IF q = o /\ f = "parent" THEN tp
                      ELSE m[q][f]
        <5>1. q \in D \ {p} /\ q # temp
          BY <3>3
        <5>2. y[q][f] = IF q = a /\ f = e THEN temp
                        ELSE IF q = L /\ f = "parent" THEN temp ELSE x4[q][f]
          BY <2>6, <5>1
        <5>3. x4[q][f] = IF q = R /\ f = "parent" THEN temp
                         ELSE IF q = tp /\ f = "left" THEN o
                         ELSE IF q = o /\ f = "parent" THEN tp
                         ELSE m[q][f]
          BY <2>5, <5>1
        <5> QED BY ONLY <5>2, <5>3
      <4>2. q # temp /\ q \in D \ {p} /\ Swap(p, temp, q) = q
        BY <3>3 DEF Swap
      <4>3. CASE f = "parent"
        <5>1. e # "parent"
          BY DEF e, Toward
        <5>2. m[q].parent = p <=> q = L \/ q = R
          <6>1. m[q].parent = p => q = L \/ q = R
            <7> SUFFICES ASSUME m[q].parent = p PROVE q = L \/ q = R
              OBVIOUS
            <7>1. m[p][Toward(q, p)] = q /\ Toward(q, p) \in Dirs
              BY <1>1, <4>2, NodeFacts DEF Dirs, D
            <7> QED BY <7>1 DEF Dirs, L, R
          <6> QED BY <1>1, <6>1
        <5>3. q = o => q # L /\ q # R
          BY <1>1, <1>8, <2>3, <4>2
        <5>4. tp # p
          BY <2>2
        <5> QED BY <3>1, <4>1, <4>2, <4>3, <5>1, <5>2, <5>3, <5>4 DEF Swap
      <4>4. CASE f # "parent"
        <5>1. f \in Dirs
          BY <4>4 DEF Links, Dirs
        <5>2. m[q][f] = p <=> q = a /\ f = e
          <6>1. m[q][f] = p => m[p].parent = q /\ Toward(p, q) = f
            BY <1>1, <4>2, <5>1, NodeFacts DEF D
          <6> QED BY <1>1, <1>2, <4>2, <6>1 DEF a, e
        <5>3. m1[q][f] = IF q = tp /\ f = "left" THEN o ELSE m[q][f]
          BY <3>1, <5>1 DEF Dirs
        <5>4. tp # a /\ o # p
          BY <1>1, <1>8, <2>2
        <5> QED BY <4>1, <4>2, <4>4, <5>2, <5>3, <5>4 DEF Swap
      <4> QED BY <4>3, <4>4
    <3> QED BY <3>2, <3>3
  <2>8. DOMAIN y = D \ {p} /\ DOMAIN m1 = D \ {temp}
    BY <1>4, <2>6 DEF KeepsRest, m1, Spliced, D
  <2>9. IsRenamed(m1, y, p, temp)
    BY <1>3, <2>7, <2>8 DEF IsRenamed
  <2> QED BY <1>5, <1>6, <2>6, <2>9 DEF m1, rest, R, temp, D, cut
<1> QED BY <1>9, <1>10

(* The arena without p, before and after handle_delete_limit, and the root *)
(* delete_limit chooses first.                                             *)
Remaining(m, p) == [q \in DOMAIN m \ {p} |-> m[q]]
Severed(m, p) == HandleDeleteLimit(Remaining(m, p), p, m[p])
RootWithout(m, root, p) ==
  IF root # p THEN root
  ELSE IF m[p].right # NIL THEN Leftmost(Remaining(m, p), m[p].right) ELSE m[p].left

(* handle_delete_limit leaves a search tree under the root delete_limit *)
(* chose, and the parent of the limit that goes stays on the way to it. *)
LEMMA CutKeepsTree ==
  ASSUME NEW m, NEW U, NEW root, IsTree(m, U, root), IsArena(m), Bushy(m),
         NEW p \in DOMAIN m, DOMAIN m \ {p} # {}
  PROVE  /\ IsArena(Severed(m, p)) /\ KeepsRest(Remaining(m, p), Severed(m, p))
         /\ \E V : /\ IsTree(Severed(m, p), V, RootWithout(m, root, p))
                   /\ m[p].parent # NIL => m[p].parent \in Way(Severed(m, p), V, p)
<1> DEFINE D == DOMAIN m
           L == m[p].left
           R == m[p].right
           a == m[p].parent
           rest == [q \in D \ {p} |-> m[q]]
           cut == HandleDeleteLimit(rest, p, m[p])
           root2 == IF root # p THEN root ELSE IF R # NIL THEN Leftmost(rest, R) ELSE L
<1> SUFFICES /\ IsArena(cut) /\ KeepsRest(rest, cut)
             /\ \E V : IsTree(cut, V, root2) /\ (a # NIL => a \in Way(cut, V, p))
  <2>1. rest = Remaining(m, p) /\ cut = Severed(m, p) /\ root2 = RootWithout(m, root, p)
    BY Zenon DEF Remaining, Severed, RootWithout
  <2> HIDE DEF rest, cut, root2
  <2> QED BY <2>1
<1>1. /\ NIL \notin D /\ p \in U[p] /\ U[p] \subseteq D
      /\ L # NIL => L \in D \ {p} /\ p \notin U[L]
      /\ R # NIL => R \in D \ {p} /\ p \notin U[R] /\ R \in U[R] /\ U[R] \subseteq U[p] \ {p}
                    /\ U[R] = {R} \cup Below(U, m[R].left) \cup Below(U, m[R].right)
                    /\ \A q \in Below(U, m[R].right) : R < q
      /\ a # NIL => a \in D \ {p} /\ U[p] \subseteq U[a] \ {a} /\ a \notin U[p]
  <2>1. ASSUME R # NIL
        PROVE  /\ U[R] = {R} \cup Below(U, m[R].left) \cup Below(U, m[R].right)
               /\ \A q \in Below(U, m[R].right) : R < q
    <3>1. R \in D
      BY <2>1, NodeFacts DEF Dirs
    <3> HIDE DEF R
    <3> QED BY <3>1, NodeFacts DEF Dirs, Opposite, Below, On
  <2>2. /\ NIL \notin D /\ p \in U[p] /\ U[p] \subseteq D
        /\ L # NIL => L \in D \ {p} /\ p \notin U[L]
        /\ R # NIL => R \in D \ {p} /\ p \notin U[R] /\ R \in U[R] /\ U[R] \subseteq U[p] \ {p}
        /\ a # NIL => a \in D \ {p} /\ U[p] \subseteq U[a] \ {a} /\ a \notin U[p]
    BY NodeFacts DEF Dirs, Opposite
  <2> QED BY <2>1, <2>2
<1>2. ASSUME NEW b \in D, a \in U[b], b # a, a # NIL
      PROVE  Toward(p, b) = Toward(a, b)
  BY <1>1, <1>2, SameSide
<1>3. CASE L = NIL \/ R = NIL
  <2> DEFINE only == IF L = NIL THEN R ELSE L
  <2>1. PICK near \in Dirs : m[p][near] = only /\ m[p][Opposite(near)] = NIL
    <3>1. CASE L = NIL
      <4>1. "right" \in Dirs /\ m[p]["right"] = only /\ m[p][Opposite("right")] = NIL
        BY <3>1 DEF Dirs, Opposite
      <4> QED BY <4>1
    <3>2. CASE L # NIL
      <4>1. "left" \in Dirs /\ m[p]["left"] = only /\ m[p][Opposite("left")] = NIL
        BY <1>3, <3>2 DEF Dirs, Opposite
      <4> QED BY <4>1
    <3> QED BY <3>1, <3>2
  <2>2. cut = Reparent(Relink(rest, m[p].parent, p, m[p][near]), m[p][near], m[p].parent)
    <3> HIDE DEF rest
    <3> QED BY <1>3, <2>1 DEF HandleDeleteLimit
  <2> HIDE DEF cut, only
  <2>3. IsArena(cut) /\ KeepsRest(rest, cut) /\ IsSpliced(m, cut, p, m[p][near])
    BY <2>1, <2>2, CutOfOne
  <2> DEFINE V == [q \in D \ {p} |-> U[q] \ {p}]
  <2>4. IsTree(cut, V, IF root = p THEN only ELSE root)
    <3>1. IsTree(cut, [q \in DOMAIN m \ {p} |-> U[q] \ {p}], IF root = p THEN m[p][near] ELSE root)
      BY <2>1, <2>3, SpliceKeepsTree
    <3> QED BY <2>1, <3>1
  <2>5. root = p => root2 = only
    <3> SUFFICES ASSUME root = p PROVE root2 = only
      OBVIOUS
    <3>1. CASE R = NIL
      BY <1>3, <3>1 DEF only
    <3>2. CASE R # NIL
      <4> DEFINE least == Leftmost(rest, R)
      <4>1. L = NIL /\ only = R
        BY <1>3, <3>2 DEF only
      <4>2. m[R].left = NIL
        BY <3>2, <4>1 DEF Bushy
      <4>3. least \in U[R] /\ \A x \in U[R] \ {least} : least < x
        BY <1>1, <3>2, LeftmostIsLeast
      <4> HIDE DEF least
      <4>4. least = R
        <5>1. R \in Int /\ least \in Int
          BY <1>1, <3>2, <4>3, PricesAreIntegers DEF IsTree
        <5>2. U[R] = {R} \cup Below(U, m[R].right)
          BY <1>1, <3>2, <4>2 DEF Below
        <5> HIDE DEF R
        <5> QED BY <1>1, <3>2, <4>3, <5>1, <5>2
      <4> QED BY <3>2, <4>1, <4>4 DEF least
    <3> QED BY <3>1, <3>2
  <2>6. IsTree(cut, V, root2)
    BY <2>4, <2>5
  <2>7. a # NIL => a \in Way(cut, V, p)
    <3>1. DOMAIN cut = D \ {p}
      BY <2>3 DEF IsSpliced
    <3>2. \A b \in D \ {p} : V[b] \subseteq U[b]
      OBVIOUS
    <3> HIDE DEF V, a
    <3> QED BY <1>1, <1>2, <3>1, <3>2 DEF Way
  <2> HIDE DEF V
  <2>8. \E W : IsTree(cut, W, root2) /\ (a # NIL => a \in Way(cut, W, p))
    BY <2>6, <2>7
  <2> QED BY <2>3, <2>8 DEF cut
<1>4. CASE L # NIL /\ R # NIL
  <2> DEFINE temp == Leftmost(rest, R)
             o == m[temp].right
             m1 == Spliced(m, temp, o)
             U1 == [q \in D \ {temp} |-> U[q] \ {temp}]
             U2 == [q \in ((D \ {temp}) \ {p}) \cup {temp} |-> SwapIn(p, temp, U1[IF q = temp THEN p ELSE q])]
  <2>1. IsArena(cut) /\ KeepsRest(rest, cut) /\ IsRenamed(m1, cut, p, temp)
    BY <1>4, CutOfTwo
  <2>2. /\ temp \in U[R] /\ temp \in D \ {p} /\ m[temp].left = NIL
        /\ \A q \in D \ {temp, p} : q < p <=> q < temp
    BY <1>4, NextInLine
  <2> HIDE DEF cut, temp
  <2>3. IsSpliced(m, m1, temp, o)
    BY SplicedIsSpliced
  <2>4. DOMAIN m1 = D \ {temp}
    BY DEF Spliced
  <2> HIDE DEF m1
  <2>5. IsTree(m1, U1, root)
    <3>1. root # temp
      <4>1. p \in U[temp] => U[p] \subseteq U[temp] /\ U[temp] \subseteq U[R]
        BY <1>1, <1>4, <2>2, Nested
      <4>2. U[root] = D
        BY DEF IsTree
      <4> QED BY <1>1, <1>4, <2>2, <4>1, <4>2
    <3>2. m[temp]["right"] = o /\ m[temp][Opposite("right")] = NIL /\ "right" \in Dirs
      BY <2>2 DEF Opposite, Dirs
    <3>3. D \ {temp} # {}
      BY <2>2
    <3>4. IsTree(m1, [q \in DOMAIN m \ {temp} |-> U[q] \ {temp}], IF root = temp THEN m[temp]["right"] ELSE root)
      BY <2>2, <2>3, <3>2, <3>3, SpliceKeepsTree
    <3> QED BY <3>1, <3>4
  <2>6. IsTree(cut, U2, Swap(p, temp, root))
    <3>1. /\ p \in DOMAIN m1 /\ temp \in Price \ DOMAIN m1
          /\ \A q \in DOMAIN m1 \ {p} : q < p <=> q < temp
      BY <2>2, <2>4 DEF IsTree
    <3>2. IsTree(cut, [q \in (DOMAIN m1 \ {p}) \cup {temp} |-> SwapIn(p, temp, U1[IF q = temp THEN p ELSE q])],
                 Swap(p, temp, root))
      <4> HIDE DEF U1
      <4> QED BY <2>1, <2>5, <3>1, RenameKeepsTree
    <3> QED BY <2>4, <3>2
  <2>7. Swap(p, temp, root) = root2
    BY <1>4 DEF Swap, temp
  <2>8. a # NIL => a \in Way(cut, U2, p)
    <3> SUFFICES ASSUME a # NIL PROVE a \in Way(cut, U2, p)
      OBVIOUS
    <3>1. DOMAIN cut = D \ {p}
      BY <2>1 DEF KeepsRest
    <3>2. temp \in U[p] /\ a # temp
      BY <1>1, <1>4, <2>2
    <3>3. ASSUME NEW b \in D \ {p}, a \in U2[b], a # b
          PROVE  Toward(p, b) = Toward(a, b)
      <4>1. CASE b = temp
        <5>1. U2[b] = SwapIn(p, temp, U[p] \ {temp})
          BY <2>2, <4>1
        <5> QED BY <1>1, <3>2, <3>3, <5>1 DEF SwapIn
      <4>2. CASE b # temp
        <5>1. U2[b] = SwapIn(p, temp, U[b] \ {temp})
          BY <4>2
        <5>2. a \in U[b]
          BY <3>2, <3>3, <5>1 DEF SwapIn
        <5> QED BY <1>2, <3>3, <5>2
      <4> QED BY <4>1, <4>2
    <3>4. a \in D \ {p}
      BY <1>1
    <3> HIDE DEF U2, a
    <3> QED BY <3>1, <3>3, <3>4 DEF Way
  <2> HIDE DEF U2
  <2>9. \E W : IsTree(cut, W, root2) /\ (a # NIL => a \in Way(cut, W, p))
    BY <2>6, <2>7, <2>8
  <2> QED BY <2>1, <2>9 DEF cut
<1> QED BY <1>3, <1>4

-----------------------------------------------------------------------------
(* Removal: the balancing pass. *)

(* The way up from q. *)
LEMMA AncestorsRise ==
  ASSUME NEW m, NEW V, NEW root, IsTree(m, V, root), NEW p, NEW q \in Way(m, V, p)
  PROVE  LET a == Ancestors(m, q)
         IN  /\ Len(a) \in 1..Cardinality(DOMAIN m)
             /\ \A i \in 1..Len(a) :
                  /\ a[i] \in DOMAIN m
                  /\ m[a[i]].parent # NIL => Toward(p, m[a[i]].parent) = Toward(a[i], m[a[i]].parent)
             /\ \A i, j \in 1..Len(a) : i < j => a[j] \notin V[a[i]]
<1> DEFINE D == DOMAIN m
           nxt == [r \in D |-> m[r].parent]
           IsUp(f) == f = [r \in D |-> IF m[r].parent = NIL THEN <<r>> ELSE <<r>> \o f[m[r].parent]]
           W == Way(m, V, p)
<1>1. NIL \notin D /\ W \subseteq D
  BY NodeFacts DEF Dirs, Way
<1>2. PICK N \in Nat : \A r \in D : Cardinality(V[r]) \in 1..N
  BY Sizes
<1> DEFINE rank == [r \in D |-> N - Cardinality(V[r])]
<1>3. \A r \in D : rank[r] \in 0..N
  BY <1>2
<1>4. \A r \in D : nxt[r] # NIL => nxt[r] \in D /\ rank[nxt[r]] < rank[r]
  <2>1. \A r \in D : m[r].parent # NIL =>
              m[r].parent \in D /\ Cardinality(V[r]) < Cardinality(V[m[r].parent])
    BY Sizes
  <2> QED BY <1>2, <2>1
<1> HIDE DEF rank
<1>5. \A f : ArePaths(f, D, nxt, NIL) <=> IsUp(f)
  <2>1. \A f : [r \in D |-> PathAt(f, nxt, NIL, r)]
               = [r \in D |-> IF m[r].parent = NIL THEN <<r>> ELSE <<r>> \o f[m[r].parent]]
    BY DEF PathAt
  <2> QED BY <2>1 DEF ArePaths
<1>6. \E f : IsUp(f)
  <2> HIDE DEF nxt, IsUp
  <2>1. \E f : ArePaths(f, D, nxt, NIL)
    BY <1>3, <1>4, PathsExist
  <2> QED BY <1>5, <2>1
<1> DEFINE up == CHOOSE f : IsUp(f)
           a == up[q]
<1>7. IsUp(up)
  BY <1>6
<1>8. Ancestors(m, q) = a
  BY <1>1 DEF Ancestors
<1> HIDE DEF up, IsUp
<1>9. IsPath(a, D, nxt, NIL, q)
  <2>1. q \in D /\ ArePaths(up, D, nxt, NIL)
    BY <1>1, <1>5, <1>7
  <2> HIDE DEF nxt
  <2>2. \A r \in D : IsPath(up[r], D, nxt, NIL, r)
    BY <1>3, <1>4, <2>1, PathsArePaths
  <2> QED BY <2>1, <2>2
<1> HIDE DEF a
<1> DEFINE n == Len(a)
<1>10. /\ n \in Nat \ {0} /\ a[1] = q /\ \A i \in 1..n : a[i] \in D
       /\ \A i \in 1..n - 1 : m[a[i]].parent # NIL /\ a[i + 1] = m[a[i]].parent
  <2>1. /\ a \in Seq(D) /\ n \in Nat \ {0} /\ a[1] = q
        /\ \A i \in 1..n - 1 : nxt[a[i]] # NIL /\ a[i + 1] = nxt[a[i]]
    BY <1>9 DEF IsPath
  <2>2. \A i \in 1..n : a[i] \in D
    BY <2>1
  <2>3. ASSUME NEW i \in 1..n - 1 PROVE m[a[i]].parent # NIL /\ a[i + 1] = m[a[i]].parent
    <3>1. i \in 1..n
      BY <2>1
    <3>2. nxt[a[i]] = m[a[i]].parent
      BY <2>2, <3>1
    <3> HIDE DEF nxt
    <3> QED BY <2>1, <3>2
  <2> QED BY <2>1, <2>2, <2>3
<1> HIDE DEF n
<1>11. \A i \in 1..n : a[i] \in W
  <2> DEFINE T == {k \in Nat : k + 1 \in 1..n => a[k + 1] \in W}
  <2>1. 0 \in T
    BY <1>10
  <2>2. \A k \in Nat : k \in T => k + 1 \in T
    <3> SUFFICES ASSUME NEW k \in Nat, k \in T, (k + 1) + 1 \in 1..n PROVE a[(k + 1) + 1] \in W
      OBVIOUS
    <3>1. k + 1 \in 1..n - 1 /\ k + 1 \in 1..n
      BY <1>10
    <3>2. a[k + 1] \in W /\ m[a[k + 1]].parent # NIL /\ a[(k + 1) + 1] = m[a[k + 1]].parent
      BY <1>10, <3>1
    <3> QED BY <3>2, WayFacts
  <2> HIDE DEF T
  <2>3. Nat \subseteq T
    BY <2>1, <2>2, NatInductionOnSet
  <2>4. ASSUME NEW i \in 1..n PROVE a[i] \in W
    <3>1. i - 1 \in Nat /\ (i - 1) + 1 = i
      BY <1>10
    <3> QED BY <2>3, <2>4, <3>1 DEF T
  <2> QED BY <2>4
<1>12. ASSUME NEW i \in 1..n, NEW j \in 1..n, i < j
       PROVE  a[j] \notin V[a[i]]
  <2> DEFINE T == {k \in Nat : i + (k + 1) \in 1..n => V[a[i]] \subseteq V[a[i + (k + 1)]] \ {a[i + (k + 1)]}}
  <2>1. \A k \in 1..n - 1 : V[a[k]] \subseteq V[a[k + 1]] \ {a[k + 1]}
    <3> SUFFICES ASSUME NEW k \in 1..n - 1 PROVE V[a[k]] \subseteq V[a[k + 1]] \ {a[k + 1]}
      OBVIOUS
    <3>1. k \in 1..n
      BY <1>10
    <3>2. a[k] \in D /\ m[a[k]].parent # NIL /\ a[k + 1] = m[a[k]].parent
      BY <1>10, <3>1
    <3> QED BY <3>2, NodeFacts DEF Dirs
  <2>2. 0 \in T
    <3> SUFFICES ASSUME i + (0 + 1) \in 1..n
                 PROVE  V[a[i]] \subseteq V[a[i + (0 + 1)]] \ {a[i + (0 + 1)]}
      OBVIOUS
    <3>1. i \in 1..n - 1 /\ i + (0 + 1) = i + 1
      BY <1>10
    <3> QED BY <2>1, <3>1
  <2>3. \A k \in Nat : k \in T => k + 1 \in T
    <3> SUFFICES ASSUME NEW k \in Nat, k \in T PROVE k + 1 \in T
      OBVIOUS
    <3> DEFINE x == i + (k + 1)
    <3>1. k + 1 \in Nat /\ x \in Nat /\ i + ((k + 1) + 1) = x + 1
      OBVIOUS
    <3> SUFFICES ASSUME x + 1 \in 1..n
                 PROVE  V[a[i]] \subseteq V[a[x + 1]] \ {a[x + 1]}
      BY <3>1
    <3>2. x \in 1..n - 1 /\ x \in 1..n
      BY <1>10, <3>1
    <3>3. V[a[i]] \subseteq V[a[x]] \ {a[x]}
      BY <3>2
    <3>4. V[a[x]] \subseteq V[a[x + 1]] \ {a[x + 1]}
      BY <2>1, <3>2
    <3> QED BY <3>3, <3>4
  <2> HIDE DEF T
  <2>4. Nat \subseteq T
    BY <2>2, <2>3, NatInductionOnSet
  <2>5. j - i - 1 \in Nat /\ i + ((j - i - 1) + 1) = j
    BY <1>10, <1>12
  <2> QED BY <2>4, <2>5 DEF T
<1>13. \A i \in 1..n : m[a[i]].parent # NIL => Toward(p, m[a[i]].parent) = Toward(a[i], m[a[i]].parent)
  BY <1>11, WayFacts
<1>14. n <= Cardinality(D)
  <2> DEFINE size(k) == Cardinality(V[a[k]])
             T == {k \in Nat : k + 1 \in 1..n => k + 1 <= size(k + 1)}
  <2>1. /\ Cardinality(D) \in Nat /\ \A i \in 1..n : size(i) \in 1..Cardinality(D)
        /\ \A i \in 1..n - 1 : size(i) < size(i + 1)
    <3>1. /\ Cardinality(D) \in Nat
          /\ \A r \in D : Cardinality(V[r]) \in 1..Cardinality(D)
          /\ \A r \in D : m[r].parent # NIL => Cardinality(V[r]) < Cardinality(V[m[r].parent])
      BY Sizes
    <3>2. \A i \in 1..n - 1 : i \in 1..n
      BY <1>10
    <3> QED BY <1>10, <3>1, <3>2
  <2> HIDE DEF size
  <2>2. 0 \in T
    BY <1>10, <2>1
  <2>3. \A k \in Nat : k \in T => k + 1 \in T
    <3> SUFFICES ASSUME NEW k \in Nat, k \in T, (k + 1) + 1 \in 1..n
                 PROVE  (k + 1) + 1 <= size((k + 1) + 1)
      OBVIOUS
    <3>1. k + 1 \in 1..n - 1 /\ k + 1 \in 1..n
      BY <1>10
    <3>2. k + 1 <= size(k + 1) /\ size(k + 1) < size((k + 1) + 1)
      BY <2>1, <3>1
    <3>3. size(k + 1) \in Int /\ size((k + 1) + 1) \in Int
      BY <2>1, <3>1
    <3> QED BY <3>2, <3>3
  <2> HIDE DEF T
  <2>4. Nat \subseteq T
    BY <2>2, <2>3, NatInductionOnSet
  <2>5. n - 1 \in Nat /\ (n - 1) + 1 = n /\ n \in 1..n
    BY <1>10
  <2>6. n <= size(n)
    BY <2>4, <2>5 DEF T
  <2> QED BY <1>10, <2>1, <2>5, <2>6
<1>15. n \in 1..Cardinality(D)
  <2>1. Cardinality(D) \in Nat
    BY Sizes
  <2> QED BY <1>10, <1>14, <2>1
<1> QED BY <1>8, <1>10, <1>12, <1>13, <1>15 DEF n

(* The passes of the balancing on the way up a. *)
Hang(t, p) == [t EXCEPT !.m = Relink(t.m, t.m[t.top].parent, p, t.top)]
PassAt(g, i, m, root, a, p) ==
  IF i = 0 THEN [m |-> m, tree |-> root, top |-> NIL, rot |-> 0]
  ELSE Hang(BalanceTree(g[i - 1], a[i]), p)

(* The loop over the ancestors has a solution, and RebalanceUp returns its *)
(* end.                                                                    *)
LEMMA PassesExist ==
  ASSUME NEW m, NEW root, NEW q, NEW p, Len(Ancestors(m, q)) \in Nat
  PROVE  LET a == Ancestors(m, q)
         IN  \E g : /\ \A i \in 0..Len(a) : g[i] = PassAt(g, i, m, root, a, p)
                    /\ RebalanceUp(m, root, q, p) = g[Len(a)]
<1> DEFINE a == Ancestors(m, q)
           n == Len(a)
           At(g, i) == PassAt(g, i, m, root, a, p)
           T == {k \in Nat : \E g : \A i \in 0..k : g[i] = At(g, i)}
<1>1. 0 \in T
  <2> DEFINE g == [i \in {0} |-> [m |-> m, tree |-> root, top |-> NIL, rot |-> 0]]
  <2>1. \A i \in 0..0 : g[i] = At(g, i)
    BY DEF PassAt
  <2> QED BY <2>1
<1>2. \A k \in Nat : k \in T => k + 1 \in T
  <2> SUFFICES ASSUME NEW k \in Nat, k \in T PROVE k + 1 \in T
    OBVIOUS
  <2>1. PICK g : \A i \in 0..k : g[i] = At(g, i)
    OBVIOUS
  <2> DEFINE h == [i \in 0..(k + 1) |-> IF i = k + 1 THEN At(g, k + 1) ELSE g[i]]
  <2>2. \A i \in 0..k : h[i] = g[i]
    OBVIOUS
  <2>3. h[k + 1] = At(g, k + 1)
    OBVIOUS
  <2> HIDE DEF h
  <2>4. ASSUME NEW i \in 0..(k + 1) PROVE h[i] = At(h, i)
    <3>1. At(h, i) = At(g, i)
      <4>1. CASE i = 0
        BY <4>1 DEF PassAt
      <4>2. CASE i # 0
        <5>1. i - 1 \in 0..k
          BY <4>2
        <5> QED BY <2>2, <4>2, <5>1 DEF PassAt
      <4> QED BY <4>1, <4>2
    <3>2. CASE i = k + 1
      BY <2>3, <3>1, <3>2
    <3>3. CASE i # k + 1
      <4>1. i \in 0..k
        BY <3>3
      <4> HIDE DEF At
      <4> QED BY <2>1, <2>2, <3>1, <4>1
    <3> QED BY <3>2, <3>3
  <2> HIDE DEF At
  <2> QED BY <2>4
<1> HIDE DEF T
<1>3. Nat \subseteq T
  BY <1>1, <1>2, NatInductionOnSet
<1>4. PICK g : \A i \in 0..n : g[i] = At(g, i)
  BY <1>3 DEF T
<1> DEFINE h == [i \in 0..n |-> g[i]]
           IsPass(f) == f = [i \in 0..n |-> At(f, i)]
<1>5. \A i \in 0..n : h[i] = At(h, i)
  <2> SUFFICES ASSUME NEW i \in 0..n PROVE h[i] = At(h, i)
    OBVIOUS
  <2>1. i # 0 => i - 1 \in 0..n
    OBVIOUS
  <2>2. At(h, i) = At(g, i)
    BY <2>1 DEF PassAt
  <2> QED BY <1>4, <2>2
<1>6. IsPass(h)
  <2>1. h = [i \in 0..n |-> h[i]]
    OBVIOUS
  <2> HIDE DEF h, At
  <2> QED BY <1>5, <2>1, Zenon
<1> HIDE DEF h
<1> DEFINE f == CHOOSE f2 : IsPass(f2)
<1>7. IsPass(f)
  BY <1>6
<1>8. RebalanceUp(m, root, q, p) = f[n]
  BY DEF RebalanceUp, PassAt, Hang
<1> HIDE DEF f
<1>9. \A i \in 0..n : f[i] = At(f, i)
  <2> HIDE DEF At
  <2> QED BY <1>7
<1> QED BY <1>8, <1>9

(* The balancing pass of delete_limit, from a limit on the way to p, leaves *)
(* a search tree of the same prices and keeps the rest of every level.      *)
LEMMA RebalanceKeepsTree ==
  ASSUME NEW m, NEW V, NEW root, IsTree(m, V, root), IsArena(m), NEW p,
         NEW q, q = NIL \/ q \in Way(m, V, p)
  PROVE  LET t == RebalanceUp(m, root, q, p)
         IN  /\ IsState(t) /\ IsArena(t.m) /\ KeepsRest(m, t.m)
             /\ \E W : IsTree(t.m, W, t.tree)
             /\ t.rot \in 0..Cardinality(DOMAIN m)
<1> DEFINE a == Ancestors(m, q)
           n == Len(a)
           D == DOMAIN m
<1>1. NIL \notin D /\ root \in D
  BY NilIsNoPrice DEF IsTree
<1>2. /\ n \in 0..Cardinality(D) /\ Cardinality(D) \in Nat
      /\ \A i \in 1..n :
           /\ a[i] \in D
           /\ m[a[i]].parent # NIL => Toward(p, m[a[i]].parent) = Toward(a[i], m[a[i]].parent)
      /\ \A i, j \in 1..n : i < j => a[j] \notin V[a[i]]
  <2>1. CASE q = NIL
    <3>1. a = << >>
      BY <2>1 DEF Ancestors
    <3>2. n = 0
      BY <3>1
    <3>3. Cardinality(D) \in Nat
      BY Sizes
    <3> HIDE DEF n
    <3> QED BY <3>2, <3>3
  <2>2. CASE q # NIL
    <3>1. Cardinality(D) \in Nat
      BY Sizes
    <3> QED BY <2>2, <3>1, AncestorsRise
  <2> QED BY <2>1, <2>2
<1>3. PICK g : /\ \A i \in 0..n : g[i] = PassAt(g, i, m, root, a, p)
               /\ RebalanceUp(m, root, q, p) = g[n]
  BY <1>2, PassesExist
<1> HIDE DEF a, n
<1> DEFINE Good(i) == /\ IsState(g[i]) /\ IsArena(g[i].m) /\ KeepsRest(m, g[i].m)
                      /\ g[i].rot \in 0..i
                      /\ \E W : /\ IsTree(g[i].m, W, g[i].tree)
                                /\ \A j \in (i + 1)..n :
                                     W[a[j]] = V[a[j]] /\ g[i].m[a[j]].parent = m[a[j]].parent
           T == {k \in Nat : k \in 0..n => Good(k)}
<1>4. 0 \in T
  <2>1. g[0] = [m |-> m, tree |-> root, top |-> NIL, rot |-> 0]
    BY <1>2, <1>3 DEF PassAt
  <2>2. IsState(g[0]) /\ g[0].m = m /\ g[0].tree = root /\ g[0].rot = 0
    BY <2>1 DEF IsState
  <2>3. KeepsRest(m, m)
    BY SameIsKept
  <2>4. Good(0)
    BY <2>2, <2>3
  <2> QED BY <2>4
<1>5. \A k \in Nat : k \in T => k + 1 \in T
  <2> SUFFICES ASSUME NEW k \in Nat, k \in T, k + 1 \in 0..n PROVE Good(k + 1)
    OBVIOUS
  <2> DEFINE t == g[k]
             x == a[k + 1]
             r == BalanceTree(t, x)
             ab == m[x].parent
  <2>1. Good(k) /\ k + 1 \in 1..n
    BY <1>2
  <2>2. PICK W : /\ IsTree(t.m, W, t.tree)
                 /\ \A j \in (k + 1)..n : W[a[j]] = V[a[j]] /\ t.m[a[j]].parent = m[a[j]].parent
    BY <2>1
  <2>3. IsState(t) /\ IsArena(t.m) /\ KeepsRest(m, t.m) /\ DOMAIN t.m = D
    BY <2>1 DEF KeepsRest
  <2>4. g[k + 1] = Hang(r, p)
    BY <1>3, <2>1 DEF PassAt
  <2>5. x \in D /\ (ab # NIL => Toward(p, ab) = Toward(x, ab)) /\ W[x] = V[x] /\ t.m[x].parent = ab
    BY <1>2, <2>1, <2>2
  <2> HIDE DEF t, x
  <2>6. PICK W2 : Rebuilt(t, r, W, W2, t.tree, x)
    BY <2>2, <2>3, <2>5, BalanceRebuilds
  <2>17. r.rot \in {t.rot, t.rot + 1} /\ t.rot \in 0..k
    <3>1. BalanceFactor(t.m, x) \in Int
      BY <2>2, <2>3, <2>5, FactorIsInt
    <3>2. t.rot \in 0..k
      BY <2>1 DEF t
    <3> QED BY <2>3, <3>1, <3>2, BalanceCounts
  <2> HIDE DEF r, ab
  <2> DEFINE m2 == Relink(r.m, ab, x, r.top)
             t2 == [m |-> m2, tree |-> r.tree, top |-> r.top, rot |-> r.rot]
  <2>7. /\ IsState(r) /\ IsArena(r.m) /\ KeepsRest(t.m, r.m) /\ IsArena(m2)
        /\ IsTree(m2, W2, IF ab = NIL THEN r.top ELSE t.tree)
        /\ r.tree = IF ab = NIL /\ t.tree # NIL THEN r.top ELSE t.tree
        /\ r.m[r.top].parent = ab
        /\ \A y \in D \ W[x] : r.m[y] = t.m[y] /\ W2[y] = W[y]
    BY <2>3, <2>5, <2>6 DEF Rebuilt
  <2>8. t.tree # NIL
    BY <1>1, <2>2, <2>3 DEF IsTree
  <2>9. IsTree(m2, W2, r.tree)
    BY <2>7, <2>8
  <2>10. Hang(r, p) = t2
    <3>1. Relink(r.m, ab, p, r.top) = m2
      BY <2>5 DEF Relink
    <3> HIDE DEF m2
    <3> QED BY <2>7, <3>1 DEF Hang, IsState
  <2>11. ab \in D \cup {NIL}
    <3>1. "left" \in Dirs
      BY DEF Dirs
    <3> QED BY <2>5, <3>1, NodeFacts DEF ab
  <2>12. IsPut(r.m, m2, ab, Toward(x, ab), r.top)
    <3>1. DOMAIN r.m = D
      BY <2>3, <2>7 DEF KeepsRest
    <3> QED BY <1>1, <2>7, <2>11, <3>1, RelinkAny
  <2> HIDE DEF m2
  <2>13. IsState(t2) /\ t2.m = m2 /\ t2.tree = r.tree /\ t2.rot \in 0..(k + 1)
    <3>1. IsState(t2) /\ t2.m = m2 /\ t2.tree = r.tree /\ t2.rot = r.rot
      BY DEF IsState
    <3> HIDE DEF t2
    <3> QED BY <2>17, <3>1
  <2> HIDE DEF t2
  <2>14. KeepsRest(m, m2)
    <3>1. KeepsRest(m, r.m)
      BY <2>3, <2>7, RestIsKept
    <3> QED BY <2>12, <3>1, RestIsKept DEF IsPut
  <2>15. ASSUME NEW j \in ((k + 1) + 1)..n
         PROVE  W2[a[j]] = V[a[j]] /\ m2[a[j]].parent = m[a[j]].parent
    <3>1. j \in 1..n /\ k + 1 < j /\ j \in (k + 1)..n
      BY <1>2
    <3>2. a[j] \in D /\ a[j] \notin W[x]
      BY <1>2, <2>1, <2>5, <3>1 DEF x
    <3>3. W2[a[j]] = W[a[j]] /\ r.m[a[j]] = t.m[a[j]]
      BY <2>7, <3>2
    <3>4. m2[a[j]].parent = r.m[a[j]].parent
      <4>1. "parent" \in Fields /\ "parent" # Toward(x, ab)
        BY DEF Fields, Toward
      <4>2. DOMAIN r.m = D
        BY <2>3, <2>7 DEF KeepsRest
      <4> QED BY <2>12, <3>2, <4>1, <4>2 DEF IsPut
    <3> QED BY <2>2, <3>1, <3>3, <3>4
  <2>16. g[k + 1] = t2
    BY <2>4, <2>10
  <2> QED BY <2>7, <2>9, <2>13, <2>14, <2>15, <2>16
<1> HIDE DEF T
<1>6. Nat \subseteq T
  BY <1>4, <1>5, NatInductionOnSet
<1>7. Good(n)
  BY <1>2, <1>6 DEF T
<1>8. g[n].rot \in 0..Cardinality(D)
  BY <1>2, <1>7
<1> QED BY <1>3, <1>7, <1>8

-----------------------------------------------------------------------------
(* Removal: the side. *)

(* NextEdge finds the best of the levels that stay, where an only child is a *)
(* leaf: the best level has no better child, so its worse child, if any, is  *)
(* alone below it.                                                           *)
LEMMA NextEdgeIsBest ==
  ASSUME NEW side \in Side, NEW b, NEW U, IsTree(b.limits, U, b.tree), Bushy(b.limits),
         IsBest(side, DOMAIN b.limits, b.edge), DOMAIN b.limits \ {b.edge} # {}
  PROVE  IsBest(side, DOMAIN b.limits \ {b.edge}, NextEdge(b, side))
<1> DEFINE m == b.limits
           D == DOMAIN m
           p == b.edge
           a == m[p].parent
           w == IF side = "Bid" THEN "left" ELSE "right"
           v == Opposite(w)
           c == m[p][w]
<1>1. /\ p \in D /\ D \subseteq Int /\ NIL \notin D
      /\ \A q \in D \ {p} : Outranks(side, p, q)
      /\ w \in Dirs /\ v \in Dirs /\ w # v
  BY NilIsNoPrice, PricesAreIntegers DEF IsTree, IsBest, Dirs, Opposite
<1>2. ASSUME NEW x \in D, NEW q \in Int
      PROVE  /\ On(w, q, x) => Outranks(side, x, q)
             /\ On(v, q, x) => Outranks(side, q, x)
             /\ Outranks(side, q, x) => Toward(q, x) = v
  BY <1>1 DEF On, Outranks, Opposite, Toward, Side
<1>3. m[p][v] = NIL
  <2> SUFFICES ASSUME m[p][v] # NIL PROVE FALSE
    OBVIOUS
  <2>1. m[p][v] \in D \ {p} /\ On(v, m[p][v], p)
    BY <1>1, NodeFacts
  <2> QED BY <1>1, <1>2, <2>1 DEF Outranks
<1>4. U[p] = {p} \cup Below(U, c) /\ U[p] \subseteq D
  <2>1. U[p] = {p} \cup Below(U, m[p][w]) \cup Below(U, m[p][v]) /\ U[p] \subseteq D
    BY <1>1, NodeFacts
  <2> QED BY <1>3, <2>1 DEF Below
<1>5. NextEdge(b, side) = IF c # NIL THEN c ELSE IF p # b.tree THEN a ELSE NIL
  BY DEF NextEdge, Side
<1>6. CASE c # NIL
  <2>1. c \in D \ {p} /\ c \in U[c]
    BY <1>1, <1>6, NodeFacts
  <2>2. m[c].left = NIL /\ m[c].right = NIL
    BY <1>1, <1>3, <1>6 DEF Bushy, Opposite
  <2>3. U[c] = {c}
    <3> HIDE DEF c
    <3>1. U[c] = {c} \cup Below(U, m[c].left) \cup Below(U, m[c].right)
      BY <2>1, NodeFacts DEF Dirs, Opposite
    <3> QED BY <2>2, <3>1 DEF Below
  <2>4. U[p] = {p, c}
    BY <1>4, <1>6, <2>3 DEF Below
  <2>5. ASSUME NEW q \in D \ {p}, q # c PROVE Outranks(side, c, q)
    <3>1. q \in D \ U[p] /\ Outranks(side, p, q)
      BY <1>1, <2>4, <2>5
    <3>2. (q < p /\ q < c) \/ (p < q /\ c < q)
      BY <1>1, <2>4, <3>1, Apart
    <3> HIDE DEF c, D
    <3> QED BY <1>1, <2>1, <3>1, <3>2 DEF Outranks, D
  <2> QED BY <1>5, <1>6, <2>1, <2>5 DEF IsBest
<1>7. CASE c = NIL
  <2>1. U[p] = {p}
    BY <1>4, <1>7 DEF Below
  <2>2. p # b.tree /\ a # NIL
    BY <1>1, <2>1 DEF IsTree
  <2>3. a \in D \ {p} /\ m[a][Toward(p, a)] = p /\ p \in U[a]
    <3>1. a \in D \ {p} /\ m[a][Toward(p, a)] = p /\ U[p] \subseteq U[a]
      BY <1>1, <2>2, NodeFacts
    <3> QED BY <2>1, <3>1
  <2>4. Toward(p, a) = v
    BY <1>1, <1>2, <2>3
  <2> HIDE DEF a
  <2>5. /\ U[a] = {a} \cup Below(U, m[a][v]) \cup Below(U, m[a][w])
        /\ a \in U[a]
        /\ m[a][w] # NIL => \A q \in U[m[a][w]] : On(w, q, a)
    <3>1. U[a] = {a} \cup Below(U, m[a][w]) \cup Below(U, m[a][v])
      BY <1>1, <2>3, NodeFacts
    <3>2. a \in U[a] /\ (m[a][w] # NIL => \A q \in U[m[a][w]] : On(w, q, a))
      BY <1>1, <2>3, NodeFacts
    <3> QED BY <3>1, <3>2
  <2>6. Below(U, m[a][v]) = {p}
    BY <1>1, <2>1, <2>3, <2>4 DEF Below
  <2>7. ASSUME NEW q \in D \ {p}, q # a PROVE Outranks(side, a, q)
    <3>1. CASE q \in U[a]
      <4>1. m[a][w] # NIL /\ q \in U[m[a][w]]
        BY <2>5, <2>6, <2>7, <3>1 DEF Below
      <4> QED BY <1>1, <1>2, <2>3, <2>5, <4>1
    <3>2. CASE q \notin U[a]
      <4>1. (q < p /\ q < a) \/ (p < q /\ a < q)
        BY <1>1, <2>3, <2>5, <3>2, Apart
      <4>2. Outranks(side, p, q) /\ q \in Int /\ p \in Int /\ a \in Int
        BY <1>1, <2>3
      <4> HIDE DEF p, D
      <4> QED BY <4>1, <4>2 DEF Outranks
    <3> QED BY <3>1, <3>2
  <2>8. NextEdge(b, side) = a
    BY <1>5, <1>7, <2>2 DEF a
  <2> QED BY <2>3, <2>7, <2>8 DEF IsBest
<1> QED BY <1>6, <1>7

(* delete_limit keeps a side in good order, without p and with all other *)
(* levels, of which it keeps what is not link or height.                 *)
LEMMA DeleteKeepsSide ==
  ASSUME NEW side \in Side, NEW b, GoodSide(b, side), Bushy(b.limits), NEW p \in DOMAIN b.limits
  PROVE  LET b2 == DeleteLimitFrom(b, side, p)
         IN  /\ GoodSide(b2, side)
             /\ DOMAIN b2.limits = DOMAIN b.limits \ {p}
             /\ \A q \in DOMAIN b.limits \ {p} : OnlyLinksMoved(b.limits[q], b2.limits[q])
             /\ b.rebalances \in Int => Counts(b, b2)
<1> DEFINE m == b.limits
           D == DOMAIN m
           gone == m[p]
           rest == Remaining(m, p)
           root == RootWithout(m, b.tree, p)
           cut == Severed(m, p)
           t == RebalanceUp(cut, root, gone.parent, p)
           edge == IF b.edge = p THEN NextEdge(b, side) ELSE b.edge
           b1 == [limits |-> t.m, tree |-> t.tree, edge |-> edge,
                  rebalances |-> b.rebalances + t.rot]
           b2 == DeleteLimitFrom(b, side, p)
<1>1. PICK U : IsTree(m, U, b.tree)
  BY DEF GoodSide
<1>2. IsArena(m) /\ IsBest(side, D, b.edge)
  BY DEF GoodSide
<1>3. IsArena(rest) /\ DOMAIN rest = D \ {p} /\ \A q \in D \ {p} : rest[q] = m[q]
  BY <1>2 DEF IsArena, Remaining
<1>4. ASSUME IsState(t) PROVE b2 = b1
  <2>1. b2 = [Balance(b, t) EXCEPT !.edge = IF @ = p THEN NextEdge(b, side) ELSE @]
    BY DEF DeleteLimitFrom, Remaining, Severed, RootWithout
  <2> HIDE DEF t, b2
  <2> QED BY <1>4, <2>1 DEF Balance, IsState, GoodSide
<1>5. CASE D = {p}
  <2>1. b.tree = p /\ b.edge = p /\ NIL # p
    BY <1>1, <1>2, <1>5, NilIsNoPrice DEF IsTree, IsBest
  <2>2. gone.parent = NIL /\ gone.left = NIL /\ gone.right = NIL
    <3>1. gone.parent = NIL
      BY <1>1, <2>1 DEF IsTree
    <3>2. \A d \in Dirs : gone[d] = NIL
      BY <1>1, <1>5, NodeFacts
    <3> QED BY <3>1, <3>2 DEF Dirs
  <2>3. root = NIL
    BY <2>1, <2>2 DEF RootWithout
  <2>4. cut = rest
    BY <2>2 DEF Severed, HandleDeleteLimit, Relink, Reparent
  <2>5. t = [m |-> rest, tree |-> NIL, top |-> NIL, rot |-> 0]
    <3> HIDE DEF cut, root, rest
    <3>1. Ancestors(cut, gone.parent) = << >>
      BY <2>2 DEF Ancestors
    <3>2. Len(Ancestors(cut, gone.parent)) = 0
      BY <3>1
    <3>3. PICK g : /\ \A i \in 0..0 : g[i] = PassAt(g, i, cut, root, Ancestors(cut, gone.parent), p)
                   /\ t = g[0]
      BY <3>2, PassesExist
    <3> HIDE DEF t
    <3> QED BY <2>3, <2>4, <3>3 DEF PassAt
  <2>6. edge = NIL
    BY <2>1, <2>2 DEF NextEdge
  <2>7. IsState(t)
    <3> HIDE DEF rest, t
    <3> QED BY <2>5 DEF IsState
  <2>8. b2 = b1
    BY <1>4, <2>7
  <2> HIDE DEF rest, t, edge, b2
  <2>9. DOMAIN b1.limits = {} /\ b1.limits = rest /\ b1.tree = NIL /\ b1.edge = NIL
    BY <1>3, <1>5, <2>5, <2>6
  <2>10. GoodSide(b1, side)
    BY <1>3, <2>9 DEF GoodSide
  <2>11. b.rebalances \in Int => Counts(b, b2)
    <3>1. 0 \in 0..Cardinality(D)
      BY SideIsFinite
    <3>2. b2.rebalances = b.rebalances + 0
      <4>1. t.rot = 0
        BY <2>5 DEF t
      <4> QED BY <2>8, <4>1
    <3> QED BY <3>1, <3>2 DEF Counts
  <2> QED BY <1>5, <2>8, <2>9, <2>10, <2>11 DEF b2
<1>6. CASE D \ {p} # {}
  <2>1. /\ IsArena(cut) /\ KeepsRest(rest, cut)
        /\ \E V : /\ IsTree(cut, V, root)
                  /\ gone.parent # NIL => gone.parent \in Way(cut, V, p)
    BY <1>1, <1>2, <1>6, CutKeepsTree
  <2>2. PICK V : /\ IsTree(cut, V, root)
                 /\ gone.parent # NIL => gone.parent \in Way(cut, V, p)
    BY <2>1
  <2> HIDE DEF cut, root
  <2>3. /\ IsState(t) /\ IsArena(t.m) /\ KeepsRest(cut, t.m)
        /\ \E W : IsTree(t.m, W, t.tree)
        /\ t.rot \in 0..Cardinality(DOMAIN cut)
    BY <2>1, <2>2, RebalanceKeepsTree
  <2>4. KeepsRest(rest, t.m)
    BY <1>3, <2>1, <2>3, RestIsKept
  <2>5. IsBest(side, D \ {p}, edge)
    <3>1. CASE b.edge = p
      BY <1>1, <1>2, <1>6, <3>1, NextEdgeIsBest
    <3>2. CASE b.edge # p
      BY <1>2, <3>2 DEF IsBest
    <3> QED BY <3>1, <3>2
  <2>6. b2 = b1
    BY <1>4, <2>3
  <2> HIDE DEF t, edge, rest, b2
  <2>7. DOMAIN t.m = D \ {p} /\ \A q \in D \ {p} : OnlyLinksMoved(m[q], t.m[q])
    BY <1>3, <2>4 DEF KeepsRest
  <2>8. GoodSide(b1, side)
    BY <1>6, <2>3, <2>5, <2>7 DEF GoodSide
  <2>9. Counts(b, b2)
    <3>1. DOMAIN cut = D \ {p}
      BY <1>3, <2>1 DEF KeepsRest
    <3>2. IsFiniteSet(D) /\ Cardinality(D) \in Nat
      BY SideIsFinite
    <3>3. Cardinality(D \ {p}) = Cardinality(D) - 1
      BY <3>2, FS_RemoveElement
    <3>4. t.rot \in 0..Cardinality(D)
      BY <2>3, <3>1, <3>2, <3>3
    <3> QED BY <2>6, <3>4 DEF Counts
  <2> QED BY <2>6, <2>7, <2>8, <2>9 DEF b2
<1> QED BY <1>5, <1>6

-----------------------------------------------------------------------------
(* Reading the tree. *)

(* s lists S, best first. *)
Lists(side, s, S) ==
  /\ s \in Seq(S) /\ Len(s) \in Nat /\ Len(s) = Cardinality(S)
  /\ \A x \in S : \E i \in 1..Len(s) : s[i] = x
  /\ \A i, j \in 1..Len(s) : i < j => Outranks(side, s[i], s[j])

(* The empty list, a list of one, and two lists joined. *)
LEMMA EmptyLists ==
  ASSUME NEW side
  PROVE  Lists(side, << >>, {})
BY FS_EmptySet DEF Lists

LEMMA OneLists ==
  ASSUME NEW side, NEW p
  PROVE  Lists(side, <<p>>, {p})
<1>1. Cardinality({p}) = 1
  BY FS_Singleton
<1>2. <<p>> \in Seq({p}) /\ Len(<<p>>) = 1 /\ <<p>>[1] = p
  OBVIOUS
<1> QED BY <1>1, <1>2 DEF Lists

LEMMA JoinLists ==
  ASSUME NEW side, NEW A, NEW B, IsFiniteSet(A), IsFiniteSet(B), A \cup B \subseteq Int,
         NEW s, Lists(side, s, A), NEW t, Lists(side, t, B),
         \A a \in A, b \in B : Outranks(side, a, b)
  PROVE  Lists(side, s \o t, A \cup B)
<1> DEFINE r == s \o t
           n == Len(s)
           k == Len(t)
<1>1. /\ s \in Seq(A) /\ t \in Seq(B) /\ n \in Nat /\ k \in Nat
      /\ n = Cardinality(A) /\ k = Cardinality(B)
      /\ \A x \in A : \E i \in 1..n : s[i] = x
      /\ \A x \in B : \E i \in 1..k : t[i] = x
      /\ \A i, j \in 1..n : i < j => Outranks(side, s[i], s[j])
      /\ \A i, j \in 1..k : i < j => Outranks(side, t[i], t[j])
  BY DEF Lists
<1>2. /\ s \in Seq(A \cup B) /\ t \in Seq(A \cup B)
      /\ \A i \in 1..n : s[i] \in A
      /\ \A i \in 1..k : t[i] \in B
  <2>1. Seq(A) \subseteq Seq(A \cup B) /\ Seq(B) \subseteq Seq(A \cup B)
    OBVIOUS
  <2> QED BY <1>1, <2>1
<1>3. /\ r \in Seq(A \cup B) /\ Len(r) = n + k
      /\ \A i \in 1..n : r[i] = s[i]
      /\ \A i \in (n + 1)..(n + k) : r[i] = t[i - n]
  <2>1. /\ r \in Seq(A \cup B) /\ Len(r) = n + k
        /\ \A i \in 1..(n + k) : r[i] = IF i <= n THEN s[i] ELSE t[i - n]
    BY <1>2, ConcatProperties
  <2> HIDE DEF r, n, k
  <2> QED BY <1>1, <2>1
<1> HIDE DEF r, n, k
<1>4. A \cap B = {}
  <2> SUFFICES ASSUME NEW x \in A, x \in B PROVE FALSE
    OBVIOUS
  <2>1. Outranks(side, x, x) /\ x \in Int
    OBVIOUS
  <2> QED BY <2>1 DEF Outranks
<1>5. Cardinality(A \cup B) = n + k
  <2>1. Cardinality(A \cup B) = Cardinality(A) + Cardinality(B) - Cardinality(A \cap B)
    BY FS_Union
  <2>2. Cardinality(A \cap B) = 0
    BY <1>4, FS_EmptySet
  <2> QED BY <1>1, <2>1, <2>2
<1>6. ASSUME NEW x \in A \cup B PROVE \E i \in 1..Len(r) : r[i] = x
  <2>1. CASE x \in A
    <3>1. PICK i \in 1..n : s[i] = x
      BY <1>1, <2>1
    <3>2. i \in 1..Len(r) /\ r[i] = x
      BY <1>1, <1>3, <3>1
    <3> QED BY <3>2
  <2>2. CASE x \in B
    <3>1. PICK i \in 1..k : t[i] = x
      BY <1>1, <2>2
    <3>2. n + i \in (n + 1)..(n + k) /\ (n + i) - n = i /\ n + i \in 1..Len(r)
      BY <1>1, <1>3
    <3>3. r[n + i] = x
      BY <1>3, <3>1, <3>2
    <3> QED BY <3>2, <3>3
  <2> QED BY <2>1, <2>2
<1>7. ASSUME NEW i \in 1..Len(r), NEW j \in 1..Len(r), i < j
      PROVE  Outranks(side, r[i], r[j])
  <2>1. CASE j <= n
    <3>1. i \in 1..n /\ j \in 1..n
      BY <1>1, <1>3, <1>7, <2>1
    <3> QED BY <1>1, <1>3, <1>7, <3>1
  <2>2. CASE i > n
    <3>1. /\ i \in (n + 1)..(n + k) /\ j \in (n + 1)..(n + k)
          /\ i - n \in 1..k /\ j - n \in 1..k /\ i - n < j - n
      BY <1>1, <1>3, <1>7, <2>2
    <3> QED BY <1>1, <1>3, <3>1
  <2>3. CASE i <= n /\ j > n
    <3>1. i \in 1..n /\ j \in (n + 1)..(n + k) /\ j - n \in 1..k
      BY <1>1, <1>3, <1>7, <2>3
    <3>2. r[i] \in A /\ r[j] \in B
      BY <1>2, <1>3, <3>1
    <3> QED BY <3>2
  <2> QED BY <1>1, <1>3, <2>1, <2>2, <2>3
<1>8. Len(r) \in Nat
  BY <1>1, <1>3
<1>9. Lists(side, r, A \cup B)
  BY <1>3, <1>5, <1>6, <1>7, <1>8 DEF Lists
<1> QED BY <1>9 DEF r

(* The recursion of a traversal. *)
First(side) == IF side = "Bid" THEN "right" ELSE "left"
Visited(f, m, q, dir) == IF m[q][dir] = NIL THEN << >> ELSE f[m[q][dir]]
Visit(f, m, side, q) ==
  Visited(f, m, q, First(side)) \o <<q>> \o Visited(f, m, q, Opposite(First(side)))
AreVisits(f, m, side) == f = [q \in DOMAIN m |-> Visit(f, m, side, q)]

(* The recursion of a collector has a solution, and Traverse returns it. *)
LEMMA VisitsExist ==
  ASSUME NEW m, NEW side, NEW root \in DOMAIN m, NEW rank, NEW N \in Nat,
         \A q \in DOMAIN m : rank[q] \in 0..N,
         \A q \in DOMAIN m, dir \in Dirs : m[q][dir] # NIL =>
           m[q][dir] \in DOMAIN m /\ rank[m[q][dir]] < rank[q]
  PROVE  \E f : AreVisits(f, m, side) /\ Traverse(m, root, side) = f[root]
<1> DEFINE D == DOMAIN m
           T == {n \in Nat : \E f : \A q \in D : rank[q] <= n => f[q] = Visit(f, m, side, q)}
           Step(f) == [q \in D |-> Visit(f, m, side, q)]
<1> First(side) \in Dirs /\ Opposite(First(side)) \in Dirs
  BY DEF First, Opposite, Dirs
<1>1. ASSUME NEW f, NEW n \in Nat, \A q \in D : rank[q] < n => f[q] = Visit(f, m, side, q)
      PROVE  \A q \in D : rank[q] <= n => Step(f)[q] = Visit(Step(f), m, side, q)
  <2> SUFFICES ASSUME NEW q \in D, rank[q] <= n
               PROVE  Step(f)[q] = Visit(Step(f), m, side, q)
    OBVIOUS
  <2>1. ASSUME NEW dir \in Dirs PROVE Visited(Step(f), m, q, dir) = Visited(f, m, q, dir)
    <3> DEFINE c == m[q][dir]
    <3>1. c # NIL => c \in D /\ rank[c] < n
      OBVIOUS
    <3>2. c # NIL => Step(f)[c] = f[c]
      BY <1>1, <3>1
    <3> HIDE DEF Step
    <3> QED BY <3>2 DEF Visited
  <2>2. Step(f)[q] = Visit(f, m, side, q)
    OBVIOUS
  <2> HIDE DEF Step
  <2> QED BY <2>1, <2>2 DEF Visit
<1>2. 0 \in T
  <2> DEFINE f0 == [q \in D |-> q]
  <2>1. \A q \in D : rank[q] < 0 => f0[q] = Visit(f0, m, side, q)
    OBVIOUS
  <2> HIDE DEF f0
  <2>2. \A q \in D : rank[q] <= 0 => Step(f0)[q] = Visit(Step(f0), m, side, q)
    BY <1>1, <2>1
  <2> HIDE DEF Step
  <2> QED BY <2>2
<1>3. \A n \in Nat : n \in T => n + 1 \in T
  <2> SUFFICES ASSUME NEW n \in Nat, n \in T PROVE n + 1 \in T
    OBVIOUS
  <2>1. PICK f : \A q \in D : rank[q] <= n => f[q] = Visit(f, m, side, q)
    OBVIOUS
  <2>2. \A q \in D : rank[q] < n + 1 => f[q] = Visit(f, m, side, q)
    BY <2>1
  <2>3. n + 1 \in Nat
    OBVIOUS
  <2>4. \A q \in D : rank[q] <= n + 1 => Step(f)[q] = Visit(Step(f), m, side, q)
    BY <1>1, <2>2, <2>3
  <2> HIDE DEF Step
  <2> QED BY <2>4
<1> HIDE DEF T
<1>4. Nat \subseteq T
  BY <1>2, <1>3, NatInductionOnSet
<1>5. PICK f : \A q \in D : rank[q] <= N => f[q] = Visit(f, m, side, q)
  BY <1>4 DEF T
<1>6. \A q \in D : f[q] = Visit(f, m, side, q)
  BY <1>5
<1> DEFINE g == [q \in D |-> f[q]]
<1>7. \A q \in D : Visit(f, m, side, q) = Visit(g, m, side, q)
  <2>1. ASSUME NEW q \in D, NEW dir \in Dirs PROVE Visited(f, m, q, dir) = Visited(g, m, q, dir)
    BY DEF Visited
  <2> HIDE DEF g
  <2> QED BY <2>1 DEF Visit
<1>8. AreVisits(g, m, side)
  BY <1>6, <1>7, Zenon DEF AreVisits
<1> HIDE DEF g
<1> DEFINE h == CHOOSE f2 : AreVisits(f2, m, side)
<1>9. AreVisits(h, m, side)
  BY <1>8
<1>10. Traverse(m, root, side) = h[root]
  BY DEF Traverse, AreVisits, Visit, Visited, First
<1> HIDE DEF h
<1> QED BY <1>9, <1>10

(* A traversal from the root lists the tree, best first. *)
LEMMA TraverseLists ==
  ASSUME NEW m, NEW U, NEW root, IsTree(m, U, root), NEW side \in Side
  PROVE  Lists(side, Traverse(m, root, side), DOMAIN m)
<1> DEFINE rank == [q \in DOMAIN m |-> Cardinality(U[q])]
           near == First(side)
           far == Opposite(near)
<1>1. root \in DOMAIN m /\ U[root] = DOMAIN m /\ DOMAIN m \subseteq Int
  BY PricesAreIntegers DEF IsTree
<1>2. near \in Dirs /\ far \in Dirs
  BY DEF First, Opposite, Dirs
<1>3. Cardinality(DOMAIN m) \in Nat /\ \A q \in DOMAIN m : rank[q] \in 0..Cardinality(DOMAIN m)
  BY Sizes
<1>4. \A q \in DOMAIN m, dir \in Dirs : m[q][dir] # NIL =>
        m[q][dir] \in DOMAIN m /\ rank[m[q][dir]] < rank[q]
  BY Sizes
<1> HIDE DEF rank
<1>5. PICK f : AreVisits(f, m, side) /\ Traverse(m, root, side) = f[root]
  BY <1>1, <1>3, <1>4, VisitsExist
<1> DEFINE S == {q \in DOMAIN m : Lists(side, f[q], U[q])}
<1> HIDE DEF near, far
<1>6. ASSUME NEW q \in DOMAIN m, \A dir \in Dirs : m[q][dir] # NIL => m[q][dir] \in S
      PROVE  q \in S
  <2> DEFINE A == Below(U, m[q][near])
             B == Below(U, m[q][far])
  <2>1. U[q] = {q} \cup A \cup B /\ U[q] \subseteq DOMAIN m
    BY <1>2, NodeFacts DEF far
  <2>2. ASSUME NEW dir \in Dirs
        PROVE  /\ Lists(side, Visited(f, m, q, dir), Below(U, m[q][dir]))
               /\ \A x \in Below(U, m[q][dir]) : On(dir, x, q)
    <3>1. CASE m[q][dir] = NIL
      BY <3>1, EmptyLists DEF Visited, Below
    <3>2. CASE m[q][dir] # NIL
      <4>1. \A x \in U[m[q][dir]] : On(dir, x, q)
        BY <3>2, NodeFacts
      <4>2. m[q][dir] \in S
        BY <1>6, <3>2
      <4> QED BY <3>2, <4>1, <4>2 DEF Visited, Below
    <3> QED BY <3>1, <3>2
  <2>3. IsFiniteSet(A) /\ IsFiniteSet(B) /\ A \subseteq Int /\ B \subseteq Int /\ q \in Int
    <3>1. IsFiniteSet(U[q])
      BY Sizes
    <3>2. A \subseteq U[q] /\ B \subseteq U[q]
      BY <2>1
    <3> QED BY <1>1, <2>1, <3>1, <3>2, FS_Subset
  <2>4. (\A x \in A : Outranks(side, x, q)) /\ (\A x \in B : Outranks(side, q, x))
    <3>1. (\A x \in A : On(near, x, q)) /\ (\A x \in B : On(far, x, q))
      BY <1>2, <2>2
    <3> HIDE DEF A, B
    <3> QED BY <2>3, <3>1 DEF On, Outranks, near, far, First, Opposite, Side
  <2> DEFINE s == Visited(f, m, q, near)
             t == Visited(f, m, q, far)
  <2>5. Lists(side, s, A) /\ Lists(side, t, B)
    BY <1>2, <2>2
  <2>6. f[q] = s \o <<q>> \o t
    <3>1. f[q] = Visit(f, m, side, q)
      BY <1>5 DEF AreVisits
    <3> QED BY <3>1, Zenon DEF Visit, near, far
  <2> HIDE DEF A, B, s, t
  <2>7. Lists(side, s \o <<q>>, A \cup {q})
    <3>1. IsFiniteSet({q}) /\ A \cup {q} \subseteq Int
      BY <2>3, FS_Singleton
    <3>2. \A a \in A, b \in {q} : Outranks(side, a, b)
      BY <2>4
    <3> QED BY <2>3, <2>5, <3>1, <3>2, OneLists, JoinLists
  <2>8. Lists(side, (s \o <<q>>) \o t, (A \cup {q}) \cup B)
    <3>1. IsFiniteSet(A \cup {q}) /\ (A \cup {q}) \cup B \subseteq Int
      BY <2>3, FS_AddElement
    <3>2. \A a \in A \cup {q}, b \in B : Outranks(side, a, b)
      BY <2>3, <2>4 DEF Outranks
    <3> QED BY <2>3, <2>5, <2>7, <3>1, <3>2, JoinLists
  <2>9. (A \cup {q}) \cup B = U[q]
    BY <2>1
  <2>10. Lists(side, f[q], U[q])
    BY <2>6, <2>8, <2>9
  <2> QED BY <2>10
<1>7. DOMAIN m \subseteq S
  <2> HIDE DEF S
  <2> QED BY <1>6, UpTheTree
<1> QED BY <1>1, <1>5, <1>7

(* top are the n best of S, best first; the first n of a list are. *)
IsTop(side, S, top, n) ==
  /\ Len(top) = n
  /\ \A i \in 1..n : top[i] = BestOf(side, S \ {top[j] : j \in 1..i-1})

LEMMA ListIsTop ==
  ASSUME NEW side, NEW S, S \subseteq Int, NEW s, Lists(side, s, S), NEW k \in 0..Len(s)
  PROVE  IsTop(side, S, SubSeq(s, 1, k), k)
<1> DEFINE top == SubSeq(s, 1, k)
<1>1. /\ s \in Seq(S) /\ Len(s) \in Nat /\ k \in Nat
      /\ \A x \in S : \E i \in 1..Len(s) : s[i] = x
      /\ \A i, j \in 1..Len(s) : i < j => Outranks(side, s[i], s[j])
  BY DEF Lists
<1>2. Len(top) = k /\ \A i \in 1..k : top[i] = s[i]
  BY <1>1
<1>3. \A i \in 1..Len(s) : s[i] \in S
  BY <1>1
<1> HIDE DEF top
<1>4. ASSUME NEW i \in 1..k PROVE top[i] = BestOf(side, S \ {top[j] : j \in 1..i-1})
  <2> DEFINE R == S \ {top[j] : j \in 1..i-1}
  <2>1. \A j \in 1..i-1 : j \in 1..k /\ j < i /\ j \in 1..Len(s) /\ i \in 1..Len(s)
    BY <1>1
  <2>2. i \in 1..Len(s) /\ s[i] \in S /\ top[i] = s[i]
    BY <1>1, <1>2, <1>3
  <2>3. s[i] \in R
    <3> SUFFICES ASSUME NEW j \in 1..i-1, top[j] = s[i] PROVE FALSE
      BY <2>2
    <3>1. s[j] = s[i] /\ Outranks(side, s[j], s[i])
      BY <1>1, <1>2, <2>1
    <3>2. s[i] \in Int
      BY <2>2
    <3> QED BY <3>1, <3>2 DEF Outranks
  <2>4. ASSUME NEW q \in R, q # s[i] PROVE Outranks(side, s[i], q)
    <3>1. PICK j \in 1..Len(s) : s[j] = q
      BY <1>1
    <3>2. j # i
      BY <2>4, <3>1
    <3>3. ~ (j < i)
      <4> SUFFICES ASSUME j < i PROVE FALSE
        OBVIOUS
      <4>1. j \in 1..i-1 /\ j \in 1..k
        BY <1>1
      <4>2. top[j] = q
        BY <1>2, <3>1, <4>1
      <4> QED BY <4>1, <4>2
    <3>4. i < j
      BY <3>2, <3>3, <2>2
    <3> QED BY <1>1, <2>2, <3>1, <3>4
  <2>5. IsBest(side, R, s[i])
    BY <2>3, <2>4 DEF IsBest
  <2>6. R \subseteq Int
    OBVIOUS
  <2> HIDE DEF R
  <2>7. BestOf(side, R) = s[i]
    BY <2>5, <2>6, BestIs
  <2> QED BY <2>2, <2>7 DEF R
<1>5. IsTop(side, S, top, k)
  BY <1>2, <1>4 DEF IsTop
<1> QED BY <1>5 DEF top
=============================================================================

-------------------------- MODULE OrderBookProofs --------------------------
(***************************************************************************)
(* The engine as orderbook.rs has it, with its levels, linked lists and    *)
(* loops, does what MatchingEngine promises, for any ids, prices and       *)
(* shares, as long as an only child is a leaf in both trees (BushyTrees).  *)
(* That is not so of every tree the code builds; where it fails a removal  *)
(* can lose levels.                                                        *)
(*                                                                         *)
(* The invariant is ArenaInv.  A level is one chain, read in both          *)
(* directions (Chained), whose size and volume are those of its orders     *)
(* (LevelOK); a side has a level for every price at which an order rests   *)
(* and no other (SideOK); a running call still finds at the edge what it   *)
(* has set out to fill (CallOK).  The lemmas go the same way up: what an   *)
(* order that leaves, joins or gives up shares does to a chain, to its     *)
(* level and to the book, then the actions one by one.  They take that the *)
(* trees serve (TreesServe); that every step leaves the trees in order,    *)
(* so that they do, follows by the lemmas of AvlTreeProofs.                *)
(***************************************************************************)
EXTENDS OrderBook, AvlTreeProofs

-----------------------------------------------------------------------------
(* One queue: a set q of orders chained by the links in os from head to    *)
(* tail, where ah gives for each the orders ahead of it.                   *)
Chained(os, q, ah, head, tail) ==
  /\ head \in q /\ tail \in q
  /\ ah[tail] = q \ {tail}
  /\ \A o \in q :
       /\ ah[o] \subseteq q \ {o}
       /\ os[o].prev_order = NIL => o = head /\ ah[o] = {}
       /\ os[o].prev_order # NIL =>
            /\ o # head
            /\ os[o].prev_order \in q
            /\ os[os[o].prev_order].next_order = o
            /\ ah[o] = ah[os[o].prev_order] \cup {os[o].prev_order}
       /\ os[o].next_order = NIL => o = tail
       /\ os[o].next_order # NIL =>
            /\ o # tail
            /\ os[o].next_order \in q
            /\ os[os[o].next_order].prev_order = o

(* A chain needs no more than the links and places of its own orders.      *)
LEMMA ChainSame ==
  ASSUME NEW os, NEW q, NEW ah, NEW head, NEW tail, Chained(os, q, ah, head, tail),
         NEW os2, NEW ah2,
         \A o \in q : /\ os2[o].prev_order = os[o].prev_order
                      /\ os2[o].next_order = os[o].next_order
                      /\ ah2[o] = ah[o]
  PROVE  Chained(os2, q, ah2, head, tail)
BY DEF Chained

(* The order x leaves, and its neighbours among q are joined; the ends of  *)
(* the chain without it.                                                   *)
LinksWithout(os, ah, q, x, os2, ah2) ==
  \A o \in q \ {x} :
    /\ os2[o].next_order = IF o = os[x].prev_order THEN os[x].next_order ELSE os[o].next_order
    /\ os2[o].prev_order = IF o = os[x].next_order THEN os[x].prev_order ELSE os[o].prev_order
    /\ ah2[o] = ah[o] \ {x}

HeadWithout(os, x, head) == IF os[x].prev_order = NIL THEN os[x].next_order ELSE head
TailWithout(os, x, tail) == IF os[x].next_order = NIL THEN os[x].prev_order ELSE tail

LEMMA ChainRemove ==
  ASSUME NEW os, NEW q, NEW ah, NEW head, NEW tail, Chained(os, q, ah, head, tail),
         NIL \notin q, NEW x \in q, q # {x}, NEW os2, NEW ah2,
         LinksWithout(os, ah, q, x, os2, ah2)
  PROVE  Chained(os2, q \ {x}, ah2, HeadWithout(os, x, head), TailWithout(os, x, tail))
<1> USE DEF LinksWithout
<1> DEFINE before == os[x].prev_order
           after  == os[x].next_order
           first  == IF before = NIL THEN after ELSE head
           last   == IF after = NIL THEN before ELSE tail
<1>1. before # NIL \/ after # NIL
  <2> SUFFICES ASSUME before = NIL, after = NIL PROVE FALSE
    OBVIOUS
  <2>1. x = tail /\ ah[x] = {} /\ ah[tail] = q \ {tail}
    BY DEF Chained
  <2> QED BY <2>1
<1>2. first \in q \ {x} /\ last \in q \ {x}
  <2>1. first \in q \ {x}
    <3>1. CASE before = NIL
      BY <1>1, <3>1 DEF Chained
    <3>2. CASE before # NIL
      BY <3>2 DEF Chained
    <3> QED BY <3>1, <3>2
  <2>2. last \in q \ {x}
    <3>1. CASE after = NIL
      BY <1>1, <3>1 DEF Chained
    <3>2. CASE after # NIL
      BY <3>2 DEF Chained
    <3> QED BY <3>1, <3>2
  <2> QED BY <2>1, <2>2
<1>3. ah2[last] = (q \ {x}) \ {last}
  <2>1. CASE after = NIL
    <3>1. x = tail /\ before \in q /\ ah[x] = ah[before] \cup {before} /\ ah[x] = q \ {x}
      BY <1>1, <2>1 DEF Chained
    <3>2. before \notin ah[before] /\ last = before
      BY <2>1, <3>1 DEF Chained
    <3> QED BY <1>2, <3>1, <3>2
  <2>2. CASE after # NIL
    <3>1. last = tail /\ ah[tail] = q \ {tail}
      BY <2>2 DEF Chained
    <3> QED BY <1>2, <3>1
  <2> QED BY <2>1, <2>2
<1>4. ASSUME NEW o \in q \ {x}
      PROVE  /\ ah2[o] \subseteq (q \ {x}) \ {o}
             /\ os2[o].prev_order = NIL => o = first /\ ah2[o] = {}
             /\ os2[o].prev_order # NIL =>
                  /\ o # first
                  /\ os2[o].prev_order \in q \ {x}
                  /\ os2[os2[o].prev_order].next_order = o
                  /\ ah2[o] = ah2[os2[o].prev_order] \cup {os2[o].prev_order}
             /\ os2[o].next_order = NIL => o = last
             /\ os2[o].next_order # NIL =>
                  /\ o # last
                  /\ os2[o].next_order \in q \ {x}
                  /\ os2[os2[o].next_order].prev_order = o
  <2>1. ah2[o] = ah[o] \ {x} /\ ah[o] \subseteq q \ {o}
    BY DEF Chained
  <2>2. os2[o].prev_order = NIL => o = first /\ ah2[o] = {}
    BY DEF Chained
  <2>3. os2[o].prev_order # NIL =>
          /\ o # first
          /\ os2[o].prev_order \in q \ {x}
          /\ os2[os2[o].prev_order].next_order = o
    BY DEF Chained
  <2>4. os2[o].prev_order # NIL =>
           ah2[o] = ah2[os2[o].prev_order] \cup {os2[o].prev_order}
    <3> SUFFICES ASSUME os2[o].prev_order # NIL
                 PROVE  ah2[o] = ah2[os2[o].prev_order] \cup {os2[o].prev_order}
      OBVIOUS
    <3>1. CASE o = after
      <4>1. os2[o].prev_order = before /\ os[o].prev_order = x /\ before # NIL
        BY <3>1 DEF Chained
      <4>2. ah[o] = ah[x] \cup {x} /\ ah[x] = ah[before] \cup {before} /\ x \notin ah[x]
        BY <4>1 DEF Chained
      <4>3. before \in q \ {x}
        BY <4>1, <2>3
      <4> QED BY <2>1, <4>1, <4>2, <4>3
    <3>2. CASE o # after
      <4>1. os2[o].prev_order = os[o].prev_order
        BY <3>2
      <4>2. ah[o] = ah[os[o].prev_order] \cup {os[o].prev_order}
        BY <4>1 DEF Chained
      <4>3. os[o].prev_order \in q \ {x}
        BY <4>1, <2>3
      <4> QED BY <2>1, <4>1, <4>2, <4>3
    <3> QED BY <3>1, <3>2
  <2>5. os2[o].next_order = NIL => o = last
    BY DEF Chained
  <2>6. os2[o].next_order # NIL =>
          /\ o # last
          /\ os2[o].next_order \in q \ {x}
          /\ os2[os2[o].next_order].prev_order = o
    BY DEF Chained
  <2> QED BY <2>1, <2>2, <2>3, <2>4, <2>5, <2>6
<1> HIDE DEF first, last
<1>5. Chained(os2, q \ {x}, ah2, first, last)
  BY <1>2, <1>3, <1>4 DEF Chained
<1> QED BY <1>5 DEF first, last, HeadWithout, TailWithout

(* An order joins a chain at its end.                                      *)
LEMMA ChainAppend ==
  ASSUME NEW os, NEW q, NEW ah, NEW head, NEW tail, Chained(os, q, ah, head, tail),
         NIL \notin q, NEW x, x \notin q, x # NIL, NEW os2, NEW ah2,
         os2[x].prev_order = tail, os2[x].next_order = NIL, ah2[x] = q,
         \A o \in q : /\ os2[o].prev_order = os[o].prev_order
                      /\ os2[o].next_order = IF o = tail THEN x ELSE os[o].next_order
                      /\ ah2[o] = ah[o]
  PROVE  Chained(os2, q \cup {x}, ah2, head, x)
<1>1. head \in q /\ tail \in q /\ tail # NIL
  BY DEF Chained
<1>2. ah2[x] = ah2[tail] \cup {tail}
  BY <1>1 DEF Chained
<1>3. os[tail].next_order = NIL
  BY <1>1 DEF Chained
<1>4. ASSUME NEW o \in q
      PROVE  /\ ah2[o] \subseteq (q \cup {x}) \ {o}
             /\ os2[o].prev_order = NIL => o = head /\ ah2[o] = {}
             /\ os2[o].prev_order # NIL =>
                  /\ o # head
                  /\ os2[o].prev_order \in q
                  /\ os2[os2[o].prev_order].next_order = o
                  /\ ah2[o] = ah2[os2[o].prev_order] \cup {os2[o].prev_order}
             /\ os2[o].next_order # NIL
             /\ o # x
             /\ os2[o].next_order \in q \cup {x}
             /\ os2[os2[o].next_order].prev_order = o
  <2>1. /\ ah2[o] \subseteq (q \cup {x}) \ {o}
        /\ os2[o].prev_order = NIL => o = head /\ ah2[o] = {}
    BY DEF Chained
  <2>2. os2[o].prev_order # NIL =>
          /\ o # head
          /\ os2[o].prev_order \in q
          /\ os2[os2[o].prev_order].next_order = o
          /\ ah2[o] = ah2[os2[o].prev_order] \cup {os2[o].prev_order}
    BY <1>1, <1>3 DEF Chained
  <2>3. /\ os2[o].next_order # NIL /\ o # x
        /\ os2[o].next_order \in q \cup {x}
        /\ os2[os2[o].next_order].prev_order = o
    BY <1>1, <1>3 DEF Chained
  <2> QED BY <2>1, <2>2, <2>3
<1> QED BY <1>1, <1>2, <1>4 DEF Chained

LEMMA ChainNew ==
  ASSUME NEW os, NEW ah, NEW x, os[x].prev_order = NIL, os[x].next_order = NIL, ah[x] = {}
  PROVE  Chained(os, {x}, ah, x, x)
BY DEF Chained

-----------------------------------------------------------------------------
(* One level: the queue of a price, with the size and the volume kept.     *)

(* The record Limit of the code. *)
IsLimit(l) ==
  l = [parent |-> l.parent, left |-> l.left, right |-> l.right, height |-> l.height,
       size |-> l.size, total_volume |-> l.total_volume,
       head_order |-> l.head_order, tail_order |-> l.tail_order]

LevelOK(os, q, ah, l) ==
  /\ IsLimit(l)
  /\ l.size = Cardinality(q)
  /\ l.total_volume = SumOver(SharesIn(os), q)
  /\ Chained(os, q, ah, l.head_order, l.tail_order)

(* The orders of a map: none is called NIL, each has shares and has been   *)
(* put into the level of its limit.                                        *)
Order == [bid_or_ask : Side, shares : 1..MaxShares, limit : Price,
          next_order : Id \cup {NIL}, prev_order : Id \cup {NIL}, parent_limit : Price]

OrdersOK(os) ==
  /\ IsFiniteSet(DOMAIN os) /\ DOMAIN os \subseteq Id
  /\ os = [o \in DOMAIN os |-> os[o]]
  /\ \A o \in DOMAIN os : os[o] \in Order /\ os[o].parent_limit = os[o].limit

LEMMA SharesAreCounted ==
  ASSUME NEW os, OrdersOK(os), NEW o \in DOMAIN os
  PROVE  SharesIn(os)[o] = os[o].shares /\ os[o].shares \in Nat /\ os[o].shares > 0
BY SharesAreNaturals DEF OrdersOK, Order, SharesIn

(* The orders q keep their shares, their links and their places.           *)
Untouched(os, ah, q, os2, ah2) ==
  \A o \in q : /\ o \in DOMAIN os2
               /\ os2[o].prev_order = os[o].prev_order
               /\ os2[o].next_order = os[o].next_order
               /\ os2[o].shares = os[o].shares
               /\ ah2[o] = ah[o]

(* Rotations, and changes to orders of other levels, leave a level alone.  *)
LEMMA LevelSame ==
  ASSUME NEW os, OrdersOK(os), NEW os2, OrdersOK(os2), NEW q \in SUBSET DOMAIN os,
         NEW ah, NEW l, LevelOK(os, q, ah, l), NEW ah2, NEW l2,
         Untouched(os, ah, q, os2, ah2),
         l2 = l \/ OnlyLinksMoved(l, l2)
  PROVE  LevelOK(os2, q, ah2, l2)
<1> USE DEF Untouched
<1>1. IsFiniteSet(q)
  BY FS_Subset DEF OrdersOK
<1>2. SumOver(SharesIn(os2), q) = SumOver(SharesIn(os), q)
  <2>1. \A o \in q : SharesIn(os)[o] = SharesIn(os2)[o] /\ SharesIn(os)[o] \in Nat
    BY SharesAreCounted
  <2> QED BY <1>1, <2>1, SumSame
<1>3. /\ IsLimit(l2) /\ l2.size = l.size /\ l2.total_volume = l.total_volume
      /\ l2.head_order = l.head_order /\ l2.tail_order = l.tail_order
  <2>1. IsLimit(l)
    BY DEF LevelOK
  <2> QED BY <2>1 DEF OnlyLinksMoved, IsLimit
<1>4. Chained(os2, q, ah2, l.head_order, l.tail_order)
  BY ChainSame DEF LevelOK
<1> QED BY <1>2, <1>3, <1>4 DEF LevelOK

(* An order leaves a level that has others.                                *)
LEMMA LevelRemove ==
  ASSUME NEW os, OrdersOK(os), NEW os2, OrdersOK(os2), NEW q \in SUBSET DOMAIN os,
         NEW ah, NEW l, LevelOK(os, q, ah, l), NEW ah2, NEW l2,
         NEW x \in q, l.size # 1,
         LinksWithout(os, ah, q, x, os2, ah2),
         \A o \in q \ {x} : o \in DOMAIN os2 /\ os2[o].shares = os[o].shares,
         l2 = [l EXCEPT !.size = l.size - 1,
                        !.total_volume = l.total_volume - os[x].shares,
                        !.head_order = HeadWithout(os, x, l.head_order),
                        !.tail_order = TailWithout(os, x, l.tail_order)]
  PROVE  LevelOK(os2, q \ {x}, ah2, l2)
<1>1. IsFiniteSet(q) /\ IsFiniteSet(q \ {x})
  BY FS_Subset DEF OrdersOK
<1>2. \A o \in q : SharesIn(os)[o] \in Nat /\ SharesIn(os)[o] = os[o].shares
  BY SharesAreCounted
<1>3. SumOver(SharesIn(os), q) = SharesIn(os)[x] + SumOver(SharesIn(os), q \ {x})
  BY <1>1, <1>2, SumRemove
<1>4. SumOver(SharesIn(os), q \ {x}) = SumOver(SharesIn(os2), q \ {x})
  <2>1. \A o \in q \ {x} : SharesIn(os)[o] = SharesIn(os2)[o] /\ SharesIn(os)[o] \in Nat
    BY SharesAreCounted
  <2> QED BY <1>1, <2>1, SumSame
<1>5. SumOver(SharesIn(os), q \ {x}) \in Nat
  BY <1>1, <1>2, SumIsNat
<1>6. Cardinality(q \ {x}) = Cardinality(q) - 1
  BY <1>1, FS_RemoveElement
<1>7. q # {x}
  BY FS_Singleton DEF LevelOK
<1>8. NIL \notin q
  BY NilIsNoValue DEF OrdersOK
<1>9. Chained(os, q, ah, l.head_order, l.tail_order) /\ IsLimit(l)
      /\ l.size = Cardinality(q) /\ l.total_volume = SumOver(SharesIn(os), q)
  BY DEF LevelOK
<1>10. /\ IsLimit(l2) /\ l2.size = l.size - 1
       /\ l2.total_volume = l.total_volume - os[x].shares
       /\ l2.head_order = HeadWithout(os, x, l.head_order)
       /\ l2.tail_order = TailWithout(os, x, l.tail_order)
  BY <1>9 DEF IsLimit
<1>11. Chained(os2, q \ {x}, ah2, l2.head_order, l2.tail_order)
  BY <1>7, <1>8, <1>9, <1>10, ChainRemove
<1>12. l2.total_volume = SumOver(SharesIn(os2), q \ {x})
  BY <1>2, <1>3, <1>4, <1>5, <1>9, <1>10
<1> QED BY <1>6, <1>9, <1>10, <1>11, <1>12 DEF LevelOK

(* The orders q, when x has joined them behind the order tail; the level.  *)
QueueWith(os, ah, q, x, tail, os2, ah2) ==
  \A o \in q : /\ o \in DOMAIN os2
               /\ os2[o].prev_order = os[o].prev_order
               /\ os2[o].next_order = IF o = tail THEN x ELSE os[o].next_order
               /\ os2[o].shares = os[o].shares
               /\ ah2[o] = ah[o]

LevelWith(os2, x, l) ==
  [l EXCEPT !.size = l.size + 1,
            !.total_volume = l.total_volume + os2[x].shares,
            !.head_order = IF l.head_order = NIL THEN x ELSE l.head_order,
            !.tail_order = x]

(* An order joins a level at the end of its queue, or makes it one.        *)
LEMMA LevelAppend ==
  ASSUME NEW os, OrdersOK(os), NEW os2, OrdersOK(os2), NEW q \in SUBSET DOMAIN os,
         NEW ah, NEW l, NEW ah2, NEW l2, NEW x \in DOMAIN os2, x \notin q,
         LevelOK(os, q, ah, l) \/ (q = {} /\ OnlyLinksMoved(NewLimit, l)),
         os2[x].prev_order = l.tail_order, os2[x].next_order = NIL, ah2[x] = q,
         QueueWith(os, ah, q, x, l.tail_order, os2, ah2),
         l2 = LevelWith(os2, x, l)
  PROVE  LevelOK(os2, q \cup {x}, ah2, l2)
<1> USE DEF QueueWith, LevelWith
<1>1. IsFiniteSet(q) /\ IsFiniteSet(q \cup {x}) /\ q \cup {x} \subseteq DOMAIN os2
  BY FS_Subset, FS_AddElement DEF OrdersOK
<1>2. \A o \in q \cup {x} : SharesIn(os2)[o] \in Nat /\ SharesIn(os2)[o] = os2[o].shares
  BY <1>1, SharesAreCounted
<1>3. SumOver(SharesIn(os2), q \cup {x}) = SharesIn(os2)[x] + SumOver(SharesIn(os2), q)
  <2> DEFINE r == q \cup {x}
  <2>1. r \ {x} = q /\ x \in r /\ IsFiniteSet(r) /\ \A o \in r : SharesIn(os2)[o] \in Nat
    BY <1>1, <1>2
  <2> HIDE DEF r
  <2>2. SumOver(SharesIn(os2), r) = SharesIn(os2)[x] + SumOver(SharesIn(os2), r \ {x})
    BY <2>1, SumRemove
  <2> QED BY <2>1, <2>2 DEF r
<1>4. SumOver(SharesIn(os2), q) \in Nat
  BY <1>1, <1>2, SumIsNat
<1>5. SumOver(SharesIn(os), q) = SumOver(SharesIn(os2), q)
  <2>1. \A o \in q : SharesIn(os)[o] = SharesIn(os2)[o] /\ SharesIn(os)[o] \in Nat
    BY SharesAreCounted
  <2> QED BY <1>1, <2>1, SumSame
<1>6. Cardinality(q \cup {x}) = Cardinality(q) + 1
  BY <1>1, FS_AddElement
<1>7. NIL \notin q /\ x # NIL
  BY NilIsNoValue DEF OrdersOK
<1>8. IsLimit(l)
  BY DEF LevelOK, OnlyLinksMoved, NewLimit, IsLimit
<1>9. /\ IsLimit(l2) /\ l2.size = l.size + 1
      /\ l2.total_volume = l.total_volume + os2[x].shares
      /\ l2.head_order = IF l.head_order = NIL THEN x ELSE l.head_order
      /\ l2.tail_order = x
  BY <1>8 DEF IsLimit
<1>10. CASE LevelOK(os, q, ah, l)
  <2>1. /\ Chained(os, q, ah, l.head_order, l.tail_order)
        /\ l.size = Cardinality(q) /\ l.total_volume = SumOver(SharesIn(os), q)
    BY <1>10 DEF LevelOK
  <2>2. Chained(os2, q \cup {x}, ah2, l.head_order, x)
    BY <1>7, <2>1, ChainAppend
  <2>3. l2.head_order = l.head_order
    BY <1>7, <1>9, <2>1 DEF Chained
  <2>4. l2.total_volume = SumOver(SharesIn(os2), q \cup {x})
    BY <1>2, <1>3, <1>4, <1>5, <1>9, <2>1
  <2> QED BY <1>6, <1>9, <2>1, <2>2, <2>3, <2>4 DEF LevelOK
<1>11. CASE q = {} /\ OnlyLinksMoved(NewLimit, l)
  <2>1. l.size = 0 /\ l.total_volume = 0 /\ l.head_order = NIL /\ l.tail_order = NIL
    BY <1>11 DEF OnlyLinksMoved, NewLimit
  <2>2. q \cup {x} = {x} /\ Cardinality(q) = 0
    BY <1>11, FS_EmptySet
  <2>3. Chained(os2, {x}, ah2, x, x)
    BY <1>11, <2>1, ChainNew
  <2>4. SumOver(SharesIn(os2), q) = 0
    BY <1>11, SumEmpty
  <2>5. l2.total_volume = SumOver(SharesIn(os2), q \cup {x})
    BY <1>2, <1>3, <1>9, <2>1, <2>4
  <2> QED BY <1>6, <1>9, <2>1, <2>2, <2>3, <2>5 DEF LevelOK
<1> QED BY <1>10, <1>11

(* An order of a level gives up shares, and so does the level.             *)
LEMMA LevelReduce ==
  ASSUME NEW os, OrdersOK(os), NEW os2, OrdersOK(os2), NEW q \in SUBSET DOMAIN os,
         NEW ah, NEW l, LevelOK(os, q, ah, l), NEW l2, NEW x \in q, NEW n \in Nat,
         \A o \in q : /\ o \in DOMAIN os2
                      /\ os2[o].prev_order = os[o].prev_order
                      /\ os2[o].next_order = os[o].next_order
                      /\ os2[o].shares = IF o = x THEN os[o].shares - n ELSE os[o].shares,
         l2 = [l EXCEPT !.total_volume = l.total_volume - n]
  PROVE  LevelOK(os2, q, ah, l2)
<1>1. IsFiniteSet(q) /\ IsFiniteSet(q \ {x})
  BY FS_Subset DEF OrdersOK
<1>2. \A o \in q : /\ SharesIn(os)[o] \in Nat /\ SharesIn(os)[o] = os[o].shares
                   /\ SharesIn(os2)[o] \in Nat /\ SharesIn(os2)[o] = os2[o].shares
  BY SharesAreCounted
<1>3. /\ SumOver(SharesIn(os), q) = SharesIn(os)[x] + SumOver(SharesIn(os), q \ {x})
      /\ SumOver(SharesIn(os2), q) = SharesIn(os2)[x] + SumOver(SharesIn(os2), q \ {x})
  BY <1>1, <1>2, SumRemove
<1>4. SumOver(SharesIn(os), q \ {x}) = SumOver(SharesIn(os2), q \ {x})
  <2>1. \A o \in q \ {x} : SharesIn(os)[o] = SharesIn(os2)[o] /\ SharesIn(os)[o] \in Nat
    BY <1>2
  <2> QED BY <1>1, <2>1, SumSame
<1>5. SumOver(SharesIn(os), q \ {x}) \in Nat
  BY <1>1, <1>2, SumIsNat
<1>6. Chained(os, q, ah, l.head_order, l.tail_order) /\ IsLimit(l)
      /\ l.size = Cardinality(q) /\ l.total_volume = SumOver(SharesIn(os), q)
  BY DEF LevelOK
<1>7. /\ IsLimit(l2) /\ l2.size = l.size /\ l2.total_volume = l.total_volume - n
      /\ l2.head_order = l.head_order /\ l2.tail_order = l.tail_order
  BY <1>6 DEF IsLimit
<1>8. Chained(os2, q, ah, l.head_order, l.tail_order)
  BY <1>6, ChainSame
<1>9. l2.total_volume = SumOver(SharesIn(os2), q)
  BY <1>2, <1>3, <1>4, <1>5, <1>6, <1>7
<1> QED BY <1>6, <1>7, <1>8, <1>9 DEF LevelOK

-----------------------------------------------------------------------------
(* Both sides: the levels are the prices at which orders rest.             *)

At(os, rs, side, p) == {o \in rs : os[o].bid_or_ask = side /\ os[o].parent_limit = p}

SideOK(os, rs, ah, ls, side) ==
  /\ DOMAIN ls \subseteq Price
  /\ \A p \in Price : p \in DOMAIN ls <=> At(os, rs, side, p) # {}
  /\ \A p \in DOMAIN ls : LevelOK(os, At(os, rs, side, p), ah, ls[p])

BookOK(os, rs, ah, ar) ==
  /\ OrdersOK(os)
  /\ rs \subseteq DOMAIN os
  /\ \A side \in Side : SideOK(os, rs, ah, ar[side].limits, side)

(* Where an order rests, and what is known of the level it rests in.       *)
LEMMA PlaceOfOrder ==
  ASSUME NEW os, NEW rs, NEW ah, NEW ar, BookOK(os, rs, ah, ar), NEW x \in rs
  PROVE  LET side  == os[x].bid_or_ask
             p     == os[x].parent_limit
             queue == At(os, rs, side, p)
         IN  /\ side \in Side /\ p \in Price
             /\ x \in queue /\ queue \subseteq rs /\ NIL \notin rs
             /\ p \in DOMAIN ar[side].limits
             /\ LevelOK(os, queue, ah, ar[side].limits[p])
             /\ os[x].prev_order \in queue \cup {NIL}
             /\ os[x].next_order \in queue \cup {NIL}
             /\ ah[x] \subseteq queue \ {x}
<1> DEFINE side  == os[x].bid_or_ask
           p     == os[x].parent_limit
           queue == At(os, rs, side, p)
<1>1. side \in Side /\ p \in Price
  BY DEF BookOK, OrdersOK, Order
<1>2. x \in queue /\ queue \subseteq rs
  BY DEF At
<1>3. NIL \notin rs
  BY NilIsNoValue DEF BookOK, OrdersOK
<1>4. SideOK(os, rs, ah, ar[side].limits, side)
  BY <1>1 DEF BookOK
<1>5. p \in DOMAIN ar[side].limits
  BY <1>1, <1>2, <1>4 DEF SideOK
<1>6. LevelOK(os, queue, ah, ar[side].limits[p])
  BY <1>4, <1>5 DEF SideOK
<1> HIDE DEF side, p, queue
<1>7. /\ os[x].prev_order \in queue \cup {NIL}
      /\ os[x].next_order \in queue \cup {NIL}
      /\ ah[x] \subseteq queue \ {x}
  BY <1>2, <1>6 DEF LevelOK, Chained
<1> QED BY <1>1, <1>2, <1>3, <1>5, <1>6, <1>7 DEF side, p, queue

(* Of the levels of a side at most p has changed, but for rotations.       *)
OthersKept(os, rs, ah, ls, side, p, os2, rs2, ah2, ls2) ==
  /\ DOMAIN ls2 \subseteq Price
  /\ \A r \in Price \ {p} :
       /\ At(os2, rs2, side, r) = At(os, rs, side, r)
       /\ Untouched(os, ah, At(os, rs, side, r), os2, ah2)
       /\ r \in DOMAIN ls2 <=> r \in DOMAIN ls
       /\ r \in DOMAIN ls => ls2[r] = ls[r] \/ OnlyLinksMoved(ls[r], ls2[r])

LEMMA SideChange ==
  ASSUME NEW os, OrdersOK(os), NEW rs \in SUBSET DOMAIN os, NEW ah, NEW ls, NEW side,
         SideOK(os, rs, ah, ls, side),
         NEW os2, OrdersOK(os2), NEW rs2 \in SUBSET DOMAIN os2, NEW ah2, NEW ls2, NEW p,
         OthersKept(os, rs, ah, ls, side, p, os2, rs2, ah2, ls2),
         p \in Price =>
           /\ p \in DOMAIN ls2 <=> At(os2, rs2, side, p) # {}
           /\ p \in DOMAIN ls2 => LevelOK(os2, At(os2, rs2, side, p), ah2, ls2[p])
  PROVE  SideOK(os2, rs2, ah2, ls2, side)
<1> USE DEF OthersKept
<1>1. \A r \in Price : r \in DOMAIN ls2 <=> At(os2, rs2, side, r) # {}
  BY DEF SideOK
<1>2. ASSUME NEW r \in DOMAIN ls2
      PROVE  LevelOK(os2, At(os2, rs2, side, r), ah2, ls2[r])
  <2>1. CASE r = p
    BY <2>1
  <2>2. CASE r # p
    <3>1. r \in Price \ {p} /\ r \in DOMAIN ls
      BY <2>2
    <3> DEFINE q == At(os, rs, side, r)
    <3>2. LevelOK(os, q, ah, ls[r])
      BY <3>1 DEF SideOK
    <3>3. /\ At(os2, rs2, side, r) = q
          /\ Untouched(os, ah, q, os2, ah2)
          /\ ls2[r] = ls[r] \/ OnlyLinksMoved(ls[r], ls2[r])
      BY <3>1
    <3>4. q \in SUBSET DOMAIN os
      BY DEF At
    <3> HIDE DEF q
    <3>5. LevelOK(os2, q, ah2, ls2[r])
      BY <3>2, <3>3, <3>4, LevelSame
    <3> QED BY <3>3, <3>5
  <2> QED BY <2>1, <2>2
<1> QED BY <1>1, <1>2 DEF SideOK

(* The level p has become l2, and is gone if that has no orders.           *)
LevelReleased(ls, ls2, p, l2) ==
  IF l2.size = 0
  THEN /\ DOMAIN ls2 = DOMAIN ls \ {p}
       /\ \A r \in DOMAIN ls2 : OnlyLinksMoved(ls[r], ls2[r])
  ELSE ls2 = [ls EXCEPT ![p] = l2]

(* The orders q are the same but for shares and links.                     *)
SamePlaces(os, q, os2) ==
  \A o \in q : /\ o \in DOMAIN os2
               /\ os2[o].bid_or_ask = os[o].bid_or_ask
               /\ os2[o].parent_limit = os[o].parent_limit

LevelWithout(os, x, l) ==
  [l EXCEPT !.size = l.size - 1,
            !.total_volume = l.total_volume - os[x].shares,
            !.head_order = HeadWithout(os, x, l.head_order),
            !.tail_order = TailWithout(os, x, l.tail_order)]

(* An order leaves the book.                                               *)
LEMMA BookRemove ==
  ASSUME NEW os, NEW rs, NEW ah, NEW ar, BookOK(os, rs, ah, ar), NEW x \in rs,
         NEW os2, OrdersOK(os2), NEW ah2, NEW ar2,
         LinksWithout(os, ah, rs, x, os2, ah2),
         SamePlaces(os, rs \ {x}, os2),
         \A o \in rs \ {x} : os2[o].shares = os[o].shares,
         NEW side, side = os[x].bid_or_ask, NEW p, p = os[x].parent_limit,
         LevelReleased(ar[side].limits, ar2[side].limits, p,
                       LevelWithout(os, x, ar[side].limits[p])),
         \A t \in Side \ {side} : ar2[t].limits = ar[t].limits
  PROVE  BookOK(os2, rs \ {x}, ah2, ar2)
<1> DEFINE rs2 == rs \ {x}
           q   == At(os, rs, side, p)
           l   == ar[side].limits[p]
           l2  == LevelWithout(os, x, l)
<1>1. /\ side \in Side /\ p \in Price
      /\ x \in q /\ q \subseteq rs /\ NIL \notin rs
      /\ p \in DOMAIN ar[side].limits
      /\ LevelOK(os, q, ah, l)
      /\ os[x].prev_order \in q \cup {NIL} /\ os[x].next_order \in q \cup {NIL}
  BY PlaceOfOrder
<1>2. rs2 \subseteq DOMAIN os2 /\ rs \subseteq DOMAIN os /\ OrdersOK(os)
  BY DEF SamePlaces, BookOK
<1>3. \A t \in Side, r \in Price : At(os2, rs2, t, r) = At(os, rs, t, r) \ {x}
  BY DEF At, SamePlaces
<1>4. \A t \in Side, r \in Price : t # side \/ r # p => x \notin At(os, rs, t, r)
  BY DEF At
<1>5. ASSUME NEW t \in Side, NEW r \in Price, t # side \/ r # p
      PROVE  Untouched(os, ah, At(os, rs, t, r), os2, ah2)
  <2> SUFFICES ASSUME NEW o \in At(os, rs, t, r)
               PROVE  /\ o \in DOMAIN os2
                      /\ os2[o].prev_order = os[o].prev_order
                      /\ os2[o].next_order = os[o].next_order
                      /\ os2[o].shares = os[o].shares
                      /\ ah2[o] = ah[o]
    BY DEF Untouched
  <2>1. o \in rs2 /\ o # x /\ o \notin q /\ os[o].bid_or_ask = t /\ os[o].parent_limit = r
    BY <1>5, <1>4 DEF At
  <2>2. o # os[x].prev_order /\ o # os[x].next_order
    BY <1>1, <2>1
  <2>3. ah[o] \subseteq At(os, rs, t, r)
    BY <2>1, PlaceOfOrder
  <2>4. x \notin ah[o]
    BY <1>4, <1>5, <2>3
  <2>5. /\ os2[o].prev_order = os[o].prev_order /\ os2[o].next_order = os[o].next_order
        /\ ah2[o] = ah[o] \ {x}
    BY <2>1, <2>2 DEF LinksWithout
  <2>6. o \in DOMAIN os2 /\ os2[o].shares = os[o].shares
    BY <2>1 DEF SamePlaces
  <2> QED BY <2>4, <2>5, <2>6
<1>6. ASSUME NEW t \in Side, t # side
      PROVE  SideOK(os2, rs2, ah2, ar2[t].limits, t)
  <2>1. SideOK(os, rs, ah, ar[t].limits, t) /\ ar2[t].limits = ar[t].limits
    BY <1>6 DEF BookOK
  <2>2. ASSUME NEW r \in Price PROVE At(os2, rs2, t, r) = At(os, rs, t, r)
    <3> DEFINE here == At(os, rs, t, r)
    <3>1. At(os2, rs2, t, r) = here \ {x} /\ x \notin here
      BY <1>3, <1>4, <1>6
    <3> HIDE DEF here
    <3>2. At(os2, rs2, t, r) = here
      BY <3>1
    <3> QED BY <3>2 DEF here
  <2>3. \A r \in Price : Untouched(os, ah, At(os, rs, t, r), os2, ah2)
    BY <1>5, <1>6
  <2>4. NIL \notin Price /\ DOMAIN ar[t].limits \subseteq Price
    BY <2>1, NilIsNoValue DEF SideOK
  <2>5. OthersKept(os, rs, ah, ar[t].limits, t, NIL, os2, rs2, ah2, ar2[t].limits)
    BY <2>1, <2>2, <2>3, <2>4 DEF OthersKept
  <2> HIDE DEF rs2
  <2> QED BY <1>2, <2>1, <2>4, <2>5, SideChange
<1>7. SideOK(os2, rs2, ah2, ar2[side].limits, side)
  <2> DEFINE ls  == ar[side].limits
             ls2 == ar2[side].limits
  <2>1. SideOK(os, rs, ah, ls, side)
    BY <1>1 DEF BookOK
  <2>2. l2.size = l.size - 1 /\ l.size = Cardinality(q)
    BY <1>1 DEF LevelWithout, LevelOK, IsLimit
  <2>3. IsFiniteSet(q) /\ q \in SUBSET DOMAIN os
    BY <1>1, <1>2, FS_Subset DEF OrdersOK
  <2>4. At(os2, rs2, side, p) = q \ {x}
    BY <1>1, <1>3
  <2>5. /\ p \in DOMAIN ls2 <=> q \ {x} # {}
        /\ DOMAIN ls2 \subseteq DOMAIN ls
        /\ \A r \in DOMAIN ls \ {p} : r \in DOMAIN ls2
        /\ \A r \in DOMAIN ls \ {p} : ls2[r] = ls[r] \/ OnlyLinksMoved(ls[r], ls2[r])
        /\ p \in DOMAIN ls2 => ls2[p] = l2 /\ l.size # 1
    <3>1. Cardinality(q \ {x}) = Cardinality(q) - 1 /\ Cardinality(q \ {x}) \in Nat
      BY <1>1, <2>3, FS_RemoveElement, FS_CardinalityType, FS_Subset
    <3>2. l2.size = 0 <=> q \ {x} = {}
      BY <2>2, <2>3, <3>1, FS_EmptySet, FS_Subset
    <3>3. l2.size = 0 <=> l.size = 1
      BY <2>2, <2>3, FS_CardinalityType
    <3> HIDE DEF l2, l, q
    <3>4. CASE l2.size = 0
      <4>1. /\ DOMAIN ls2 = DOMAIN ls \ {p}
            /\ \A r \in DOMAIN ls2 : OnlyLinksMoved(ls[r], ls2[r])
        BY <3>4 DEF LevelReleased, l2, l
      <4> QED BY <3>2, <3>4, <4>1
    <3>5. CASE l2.size # 0
      <4>1. ls2 = [ls EXCEPT ![p] = l2]
        BY <3>5 DEF LevelReleased, l2, l
      <4> QED BY <1>1, <3>2, <3>3, <3>5, <4>1
    <3> QED BY <3>4, <3>5
  <2>6. p \in DOMAIN ls2 => LevelOK(os2, q \ {x}, ah2, l2)
    <3> SUFFICES ASSUME p \in DOMAIN ls2 PROVE LevelOK(os2, q \ {x}, ah2, l2)
      OBVIOUS
    <3>1. l.size # 1
      BY <2>5
    <3>2. LinksWithout(os, ah, q, x, os2, ah2)
      BY <1>1 DEF LinksWithout
    <3>3. \A o \in q \ {x} : o \in DOMAIN os2 /\ os2[o].shares = os[o].shares
      BY <1>1 DEF SamePlaces
    <3> HIDE DEF l, q
    <3> QED BY <1>1, <1>2, <2>3, <3>1, <3>2, <3>3, LevelRemove DEF LevelWithout
  <2>7. ASSUME NEW r \in Price \ {p}
        PROVE  /\ At(os2, rs2, side, r) = At(os, rs, side, r)
               /\ Untouched(os, ah, At(os, rs, side, r), os2, ah2)
    <3> DEFINE here == At(os, rs, side, r)
    <3>1. At(os2, rs2, side, r) = here \ {x} /\ x \notin here /\ Untouched(os, ah, here, os2, ah2)
      BY <1>1, <1>3, <1>4, <1>5
    <3> HIDE DEF here
    <3>2. At(os2, rs2, side, r) = here
      BY <3>1
    <3> QED BY <3>1, <3>2 DEF here
  <2>8. DOMAIN ls \subseteq Price
    BY <2>1 DEF SideOK
  <2> HIDE DEF ls, ls2, rs2, q, l2, l
  <2>9. OthersKept(os, rs, ah, ls, side, p, os2, rs2, ah2, ls2)
    BY <2>5, <2>7, <2>8 DEF OthersKept
  <2>10. p \in DOMAIN ls2 => LevelOK(os2, At(os2, rs2, side, p), ah2, ls2[p])
    BY <2>4, <2>5, <2>6
  <2>11. p \in DOMAIN ls2 <=> At(os2, rs2, side, p) # {}
    BY <2>4, <2>5
  <2>12. SideOK(os2, rs2, ah2, ls2, side)
    BY <1>2, <2>1, <2>9, <2>10, <2>11, SideChange
  <2> QED BY <2>12 DEF ls2
<1> QED BY <1>2, <1>6, <1>7 DEF BookOK

(* The level p is l2 now, the others are as before but for rotations.      *)
LevelAdded(ls, ls2, p, l2) ==
  /\ DOMAIN ls2 = DOMAIN ls \cup {p}
  /\ ls2[p] = l2
  /\ \A r \in DOMAIN ls \ {p} : ls2[r] = ls[r] \/ OnlyLinksMoved(ls[r], ls2[r])

(* The level l of the price p, new or not, and the order x at its end.     *)
LevelToJoin(ar, side, p, l) ==
  IF p \in DOMAIN ar[side].limits THEN l = ar[side].limits[p] ELSE OnlyLinksMoved(NewLimit, l)

ComesLast(os, rs, ah2, side, p, l, x, os2) ==
  /\ os2[x].prev_order = l.tail_order /\ os2[x].next_order = NIL
  /\ ah2[x] = At(os, rs, side, p)

(* An order joins the book, at the end of the level p.                     *)
LEMMA BookAppend ==
  ASSUME NEW os, NEW rs, NEW ah, NEW ar, BookOK(os, rs, ah, ar),
         NEW os2, OrdersOK(os2), NEW ah2, NEW ar2, NEW x \in DOMAIN os2, x \notin rs,
         NEW side \in Side, side = os2[x].bid_or_ask, NEW p, p = os2[x].parent_limit,
         NEW l, LevelToJoin(ar, side, p, l), ComesLast(os, rs, ah2, side, p, l, x, os2),
         SamePlaces(os, rs, os2),
         QueueWith(os, ah, rs, x, l.tail_order, os2, ah2),
         LevelAdded(ar[side].limits, ar2[side].limits, p, LevelWith(os2, x, l)),
         \A t \in Side \ {side} : ar2[t].limits = ar[t].limits
  PROVE  BookOK(os2, rs \cup {x}, ah2, ar2)
<1> DEFINE rs2 == rs \cup {x}
           q   == At(os, rs, side, p)
           ls  == ar[side].limits
           l2  == LevelWith(os2, x, l)
<1> USE DEF LevelToJoin, ComesLast
<1>1. /\ rs2 \subseteq DOMAIN os2 /\ rs \subseteq DOMAIN os /\ OrdersOK(os)
      /\ p \in Price /\ SideOK(os, rs, ah, ls, side) /\ NIL \notin rs
  BY NilIsNoValue DEF SamePlaces, BookOK, OrdersOK, Order
<1>2. IF p \in DOMAIN ls THEN LevelOK(os, q, ah, l) /\ l.tail_order \in q
                          ELSE q = {} /\ l.tail_order = NIL
  <2>1. CASE p \in DOMAIN ls
    <3>1. LevelOK(os, q, ah, l)
      BY <1>1, <2>1 DEF SideOK
    <3> HIDE DEF q
    <3> QED BY <2>1, <3>1 DEF LevelOK, Chained
  <2>2. CASE p \notin DOMAIN ls
    <3>1. q = {}
      BY <1>1, <2>2 DEF SideOK
    <3>2. l.tail_order = NIL
      BY <2>2 DEF OnlyLinksMoved, NewLimit
    <3> QED BY <2>2, <3>1, <3>2
  <2> QED BY <2>1, <2>2
<1>3. ASSUME NEW t \in Side, NEW r \in Price, t # side \/ r # p
      PROVE  /\ At(os2, rs2, t, r) = At(os, rs, t, r)
             /\ Untouched(os, ah, At(os, rs, t, r), os2, ah2)
  <2>1. At(os2, rs2, t, r) = At(os, rs, t, r)
    BY <1>3 DEF At, SamePlaces
  <2>2. ASSUME NEW o \in At(os, rs, t, r)
        PROVE  o # l.tail_order /\ o \in rs
    BY <1>1, <1>2, <1>3 DEF At
  <2>3. Untouched(os, ah, At(os, rs, t, r), os2, ah2)
    BY <2>2 DEF Untouched, QueueWith
  <2> QED BY <2>1, <2>3
<1>4. ASSUME NEW t \in Side, t # side
      PROVE  SideOK(os2, rs2, ah2, ar2[t].limits, t)
  <2>1. SideOK(os, rs, ah, ar[t].limits, t) /\ ar2[t].limits = ar[t].limits
    BY <1>4 DEF BookOK
  <2>2. NIL \notin Price /\ DOMAIN ar[t].limits \subseteq Price
    BY <2>1, NilIsNoValue DEF SideOK
  <2> HIDE DEF rs2
  <2>3. OthersKept(os, rs, ah, ar[t].limits, t, NIL, os2, rs2, ah2, ar2[t].limits)
    BY <1>3, <1>4, <2>1, <2>2 DEF OthersKept
  <2> QED BY <1>1, <2>1, <2>2, <2>3, SideChange
<1>5. SideOK(os2, rs2, ah2, ar2[side].limits, side)
  <2> DEFINE ls2 == ar2[side].limits
  <2>1. /\ DOMAIN ls2 = DOMAIN ls \cup {p} /\ ls2[p] = l2
        /\ \A r \in DOMAIN ls \ {p} : ls2[r] = ls[r] \/ OnlyLinksMoved(ls[r], ls2[r])
    BY DEF LevelAdded
  <2>2. At(os2, rs2, side, p) = q \cup {x}
    BY DEF At, SamePlaces
  <2>3. LevelOK(os2, q \cup {x}, ah2, l2)
    <3>1. q \in SUBSET DOMAIN os /\ q \subseteq rs /\ x \notin q
      BY <1>1 DEF At
    <3>2. QueueWith(os, ah, q, x, l.tail_order, os2, ah2)
      BY <3>1 DEF QueueWith
    <3>3. LevelOK(os, q, ah, l) \/ (q = {} /\ OnlyLinksMoved(NewLimit, l))
      BY <1>2
    <3>4. ah2[x] = q
      OBVIOUS
    <3>5. l2 = LevelWith(os2, x, l)
      OBVIOUS
    <3> HIDE DEF q, l2
    <3> QED BY <1>1, <3>1, <3>2, <3>3, <3>4, <3>5, LevelAppend
  <2>4. DOMAIN ls \subseteq Price
    BY <1>1 DEF SideOK
  <2> HIDE DEF ls2, ls, rs2, q, l2
  <2>5. OthersKept(os, rs, ah, ls, side, p, os2, rs2, ah2, ls2)
    BY <1>1, <1>3, <2>1, <2>4 DEF OthersKept
  <2>6. SideOK(os2, rs2, ah2, ls2, side)
    BY <1>1, <2>1, <2>2, <2>3, <2>5, SideChange
  <2> QED BY <2>6 DEF ls2
<1> QED BY <1>1, <1>4, <1>5 DEF BookOK

(* The order x has n shares less, and so has the level p of the side.      *)
SharesReduced(os, rs, x, n, os2) ==
  \A o \in rs : /\ os2[o].prev_order = os[o].prev_order
                /\ os2[o].next_order = os[o].next_order
                /\ os2[o].shares = IF o = x THEN os[o].shares - n ELSE os[o].shares

VolumeReduced(ar, side, p, n, ar2) ==
  /\ ar2[side].limits = [ar[side].limits EXCEPT
                           ![p] = [ar[side].limits[p] EXCEPT
                                     !.total_volume = ar[side].limits[p].total_volume - n]]
  /\ \A t \in Side \ {side} : ar2[t].limits = ar[t].limits

(* An order gives up shares and stays.                                     *)
LEMMA BookReduce ==
  ASSUME NEW os, NEW rs, NEW ah, NEW ar, BookOK(os, rs, ah, ar), NEW x \in rs, NEW n \in Nat,
         NEW os2, OrdersOK(os2), NEW ar2,
         SamePlaces(os, rs, os2), SharesReduced(os, rs, x, n, os2),
         VolumeReduced(ar, os[x].bid_or_ask, os[x].parent_limit, n, ar2)
  PROVE  BookOK(os2, rs, ah, ar2)
<1> DEFINE side == os[x].bid_or_ask
           p  == os[x].parent_limit
           q  == At(os, rs, side, p)
           ls == ar[side].limits
           l  == ls[p]
           l2 == [l EXCEPT !.total_volume = l.total_volume - n]
<1> USE DEF SharesReduced, VolumeReduced
<1>1. /\ rs \subseteq DOMAIN os2 /\ rs \subseteq DOMAIN os /\ OrdersOK(os)
      /\ side \in Side /\ p \in Price /\ x \in q /\ q \subseteq rs
      /\ p \in DOMAIN ls /\ LevelOK(os, q, ah, l) /\ SideOK(os, rs, ah, ls, side)
  <2>1. /\ side \in Side /\ p \in Price /\ x \in q /\ q \subseteq rs
        /\ p \in DOMAIN ls /\ LevelOK(os, q, ah, l)
    BY PlaceOfOrder
  <2> HIDE DEF q, l
  <2> QED BY <2>1 DEF SamePlaces, BookOK
<1>2. \A t \in Side, r \in Price : At(os2, rs, t, r) = At(os, rs, t, r)
  BY DEF At, SamePlaces
<1>3. ASSUME NEW t \in Side, NEW r \in Price, t # side \/ r # p
      PROVE  Untouched(os, ah, At(os, rs, t, r), os2, ah)
  BY <1>3 DEF Untouched, At, SamePlaces
<1>4. ASSUME NEW t \in Side, t # side
      PROVE  SideOK(os2, rs, ah, ar2[t].limits, t)
  <2>1. SideOK(os, rs, ah, ar[t].limits, t) /\ ar2[t].limits = ar[t].limits
    BY <1>4 DEF BookOK
  <2>2. NIL \notin Price /\ DOMAIN ar[t].limits \subseteq Price
    BY <2>1, NilIsNoValue DEF SideOK
  <2>3. OthersKept(os, rs, ah, ar[t].limits, t, NIL, os2, rs, ah, ar2[t].limits)
    BY <1>2, <1>3, <1>4, <2>1, <2>2 DEF OthersKept
  <2> QED BY <1>1, <2>1, <2>2, <2>3, SideChange
<1>5. SideOK(os2, rs, ah, ar2[side].limits, side)
  <2> DEFINE ls2 == ar2[side].limits
  <2>1. ls2 = [ls EXCEPT ![p] = l2]
    OBVIOUS
  <2>2. LevelOK(os2, q, ah, l2)
    <3>1. q \in SUBSET DOMAIN os
      BY <1>1
    <3>2. \A o \in q : /\ o \in DOMAIN os2
                       /\ os2[o].prev_order = os[o].prev_order
                       /\ os2[o].next_order = os[o].next_order
                       /\ os2[o].shares = IF o = x THEN os[o].shares - n ELSE os[o].shares
      BY <1>1
    <3>3. x \in q /\ LevelOK(os, q, ah, l) /\ OrdersOK(os)
      BY <1>1
    <3> HIDE DEF q, l, ls
    <3> HIDE DEF SharesReduced, VolumeReduced
    <3>4. l2 = [l EXCEPT !.total_volume = l.total_volume - n]
      OBVIOUS
    <3>5. /\ OrdersOK(os2) /\ n \in Nat
      OBVIOUS
    <3> HIDE DEF l2, p, side
    <3> QED BY ONLY <3>1, <3>2, <3>3, <3>4, <3>5, LevelReduce
  <2>3. DOMAIN ls \subseteq Price /\ At(os2, rs, side, p) = q
    BY <1>1, <1>2 DEF SideOK
  <2>4. q # {} /\ p \in DOMAIN ls2 /\ ls2[p] = l2
    BY <1>1, <2>1
  <2> HIDE DEF ls2, ls, q, l2, l
  <2>5. OthersKept(os, rs, ah, ls, side, p, os2, rs, ah, ls2)
    BY <1>1, <1>2, <1>3, <2>1, <2>3 DEF OthersKept
  <2>6. SideOK(os2, rs, ah, ls2, side)
    BY <1>1, <2>2, <2>3, <2>4, <2>5, SideChange
  <2> QED BY <2>6 DEF ls2
<1> QED BY <1>1, <1>4, <1>5 DEF BookOK

-----------------------------------------------------------------------------
(* The places read off the links are the places.                           *)

UpIn(os, rs, up) ==
  up = [o \in rs |-> IF os[o].prev_order = NIL THEN {}
                     ELSE {os[o].prev_order} \cup up[os[o].prev_order]]

LEMMA PlacesFromLinks ==
  ASSUME NEW os, NEW rs, NEW ah, NEW ar, BookOK(os, rs, ah, ar)
  PROVE  (CHOOSE up : UpIn(os, rs, up)) = [o \in rs |-> ah[o]]
<1>1. ASSUME NEW o \in rs
      PROVE  /\ IsFiniteSet(ah[o])
             /\ os[o].prev_order = NIL => ah[o] = {}
             /\ os[o].prev_order # NIL =>
                  /\ os[o].prev_order \in rs
                  /\ ah[o] = {os[o].prev_order} \cup ah[os[o].prev_order]
                  /\ Cardinality(ah[o]) = Cardinality(ah[os[o].prev_order]) + 1
  <2> DEFINE q == At(os, rs, os[o].bid_or_ask, os[o].parent_limit)
  <2>1. /\ o \in q /\ q \subseteq rs
        /\ LevelOK(os, q, ah, ar[os[o].bid_or_ask].limits[os[o].parent_limit])
    BY PlaceOfOrder
  <2>2. IsFiniteSet(q)
    BY <2>1, FS_Subset DEF BookOK, OrdersOK
  <2> HIDE DEF q
  <2>3. /\ ah[o] \subseteq q
        /\ os[o].prev_order = NIL => ah[o] = {}
        /\ os[o].prev_order # NIL =>
             /\ os[o].prev_order \in q
             /\ ah[o] = {os[o].prev_order} \cup ah[os[o].prev_order]
             /\ ah[os[o].prev_order] \subseteq q \ {os[o].prev_order}
    BY <2>1 DEF LevelOK, Chained
  <2>4. IsFiniteSet(ah[o])
    BY <2>2, <2>3, FS_Subset
  <2>5. ASSUME os[o].prev_order # NIL
        PROVE  Cardinality(ah[o]) = Cardinality(ah[os[o].prev_order]) + 1
    <3> DEFINE a == ah[os[o].prev_order]
               b == os[o].prev_order
    <3>1. IsFiniteSet(a) /\ b \notin a /\ ah[o] = a \cup {b}
      BY <2>2, <2>3, <2>5, FS_Subset
    <3> HIDE DEF a, b
    <3>2. Cardinality(ah[o]) = Cardinality(a) + 1
      BY <3>1, FS_AddElement
    <3> QED BY <3>2 DEF a
  <2> QED BY <2>1, <2>3, <2>4, <2>5
<1> DEFINE w == [o \in rs |-> ah[o]]
<1>2. UpIn(os, rs, w)
  BY <1>1 DEF UpIn
<1> DEFINE up == CHOOSE u : UpIn(os, rs, u)
<1>3. UpIn(os, rs, up)
  BY <1>2
<1> HIDE DEF up
<1>4. \A o \in rs : up[o] = ah[o]
  <2> DEFINE G == {n \in Nat : \A o \in rs : Cardinality(ah[o]) <= n => up[o] = ah[o]}
  <2>1. \A o \in rs : Cardinality(ah[o]) \in Nat
    BY <1>1, FS_CardinalityType
  <2>2. 0 \in G
    <3> SUFFICES ASSUME NEW o \in rs, Cardinality(ah[o]) <= 0 PROVE up[o] = ah[o]
      OBVIOUS
    <3>1. ah[o] = {}
      BY <1>1, <2>1, FS_EmptySet
    <3>2. os[o].prev_order = NIL
      BY <1>1, <3>1
    <3> QED BY <1>3, <3>1, <3>2 DEF UpIn
  <2>3. \A n \in Nat : n \in G => n + 1 \in G
    <3> SUFFICES ASSUME NEW n \in Nat, n \in G, NEW o \in rs, Cardinality(ah[o]) <= n + 1
                 PROVE  up[o] = ah[o]
      OBVIOUS
    <3>1. CASE os[o].prev_order = NIL
      BY <1>1, <1>3, <3>1 DEF UpIn
    <3>2. CASE os[o].prev_order # NIL
      <4> DEFINE b == os[o].prev_order
      <4>1. b \in rs /\ Cardinality(ah[b]) <= n /\ ah[o] = {b} \cup ah[b]
        BY <1>1, <2>1, <3>2
      <4>2. up[b] = ah[b]
        BY <4>1
      <4>3. up[o] = {b} \cup up[b]
        BY <1>3, <3>2 DEF UpIn
      <4> QED BY <4>1, <4>2, <4>3
    <3> QED BY <3>1, <3>2
  <2> HIDE DEF G
  <2>4. Nat \subseteq G
    BY <2>2, <2>3, NatInductionOnSet
  <2> QED BY <2>1, <2>4 DEF G
<1>5. up = [o \in rs |-> up[o]]
  BY <1>3 DEF UpIn
<1> QED BY <1>4, <1>5 DEF up

-----------------------------------------------------------------------------
(* The edges.                                                              *)

LEMMA BestExists ==
  ASSUME NEW side \in Side, NEW S \in SUBSET Int, IsFiniteSet(S), S # {}
  PROVE  /\ BestOf(side, S) \in S
         /\ \A q \in S \ {BestOf(side, S)} : Outranks(side, BestOf(side, S), q)
<1> DEFINE HasBest(s) == \E p \in s : \A q \in s \ {p} : Outranks(side, p, q)
           T == {s \in SUBSET S : s # {} => HasBest(s)}
<1>1. {} \in T
  OBVIOUS
<1>2. \A s \in SUBSET S, x \in S : s \in T /\ x \notin s => s \cup {x} \in T
  <2> SUFFICES ASSUME NEW s \in SUBSET S, NEW x \in S, s \in T, x \notin s
               PROVE  HasBest(s \cup {x})
    OBVIOUS
  <2>1. CASE s = {}
    BY <2>1
  <2>2. CASE s # {}
    <3>1. PICK p \in s : \A q \in s \ {p} : Outranks(side, p, q)
      BY <2>2
    <3>2. p # x /\ p \in Int /\ x \in Int /\ \A q \in s : q \in Int
      OBVIOUS
    <3>3. CASE Outranks(side, p, x)
      <4>1. \A q \in (s \cup {x}) \ {p} : Outranks(side, p, q)
        BY <3>1, <3>3
      <4> QED BY <4>1
    <3>4. CASE Outranks(side, x, p)
      <4>1. \A q \in (s \cup {x}) \ {x} : Outranks(side, x, q)
        BY <3>1, <3>2, <3>4 DEF Outranks
      <4> QED BY <4>1
    <3> QED BY <3>2, <3>3, <3>4 DEF Outranks
  <2> QED BY <2>1, <2>2
<1>3. S \in T
  <2> HIDE DEF T
  <2> QED BY <1>1, <1>2, SubsetInduction
<1>4. HasBest(S)
  BY <1>3
<1> QED BY <1>4 DEF BestOf

(* The prices that have a level are finitely many, as the orders are.      *)
LEMMA LevelsAreFinite ==
  ASSUME NEW os, NEW rs, NEW ah, NEW ar, BookOK(os, rs, ah, ar), NEW side \in Side
  PROVE  IsFiniteSet(DOMAIN ar[side].limits)
<1> DEFINE live == DOMAIN ar[side].limits
           here == {o \in rs : os[o].bid_or_ask = side}
           f    == [o \in here |-> os[o].parent_limit]
<1>1. SideOK(os, rs, ah, ar[side].limits, side) /\ rs \subseteq DOMAIN os /\ OrdersOK(os)
  BY DEF BookOK
<1>2. IsFiniteSet(here)
  BY <1>1, FS_Subset DEF OrdersOK
<1>3. \A o \in here : os[o].parent_limit \in live
  BY PlaceOfOrder
<1>4. \A p \in live : \E o \in here : os[o].parent_limit = p
  BY <1>1 DEF SideOK, At
<1>5. f \in Surjection(here, live)
  <2> HIDE DEF live, here
  <2> QED BY <1>3, <1>4 DEF Surjection
<1> QED BY <1>2, <1>5, FS_Surjection

(* The edge of a side is none of its prices, or the best of them.          *)
LEMMA EdgeOfSide ==
  ASSUME NEW os, NEW rs, NEW ah, NEW ar, BookOK(os, rs, ah, ar), NEW side \in Side,
         ar[side].edge = BestOf(side, DOMAIN ar[side].limits)
  PROVE  /\ ar[side].edge = NIL <=> DOMAIN ar[side].limits = {}
         /\ ar[side].edge # NIL => /\ ar[side].edge \in DOMAIN ar[side].limits
                                      /\ ar[side].edge \in Price
         /\ \A q \in DOMAIN ar[side].limits \ {ar[side].edge} :
              Outranks(side, ar[side].edge, q)
<1> DEFINE live == DOMAIN ar[side].limits
           edge == ar[side].edge
<1>1. live \subseteq Price /\ live \subseteq Int /\ NIL \notin live
  BY NilIsNoValue, PricesAreIntegers DEF BookOK, SideOK
<1>2. IsFiniteSet(live)
  BY LevelsAreFinite
<1>3. edge = BestOf(side, live)
  OBVIOUS
<1> HIDE DEF live, edge
<1>4. CASE live = {}
  <2>1. edge = NIL
    BY <1>3, <1>4 DEF BestOf
  <2> QED BY <1>4, <2>1 DEF live, edge
<1>5. CASE live # {}
  <2>1. edge \in live /\ \A q \in live \ {edge} : Outranks(side, edge, q)
    BY <1>1, <1>2, <1>3, <1>5, BestExists
  <2> QED BY <1>1, <1>5, <2>1 DEF live, edge
<1> QED BY <1>4, <1>5

-----------------------------------------------------------------------------
(* Levels that are given up.                                               *)

(* A side of the arena is the record it is built as.                       *)
IsSide(b) ==
  b = [limits |-> b.limits, tree |-> b.tree, edge |-> b.edge, rebalances |-> b.rebalances]

(* What is left of a side without a level has nothing of the orders of     *)
(* that level.                                                             *)
LEMMA DeletionIgnoresOrders ==
  ASSUME NEW side, NEW b, IsSide(b), NEW b2, IsSide(b2), NEW p \in DOMAIN b.limits,
         b2.tree = b.tree, DOMAIN b2.limits = DOMAIN b.limits,
         \A q \in DOMAIN b.limits \ {p} : b2.limits[q] = b.limits[q],
         b2.limits[p].parent = b.limits[p].parent,
         b2.limits[p].left = b.limits[p].left, b2.limits[p].right = b.limits[p].right
  PROVE  /\ DeleteLimitFrom(b2, side, p).limits = DeleteLimitFrom(b, side, p).limits
         /\ IsSide(DeleteLimitFrom(b2, side, p))
<1> DEFINE Rest(c) == [q \in DOMAIN c.limits \ {p} |-> c.limits[q]]
           Root(c) == IF c.tree # p THEN c.tree
                      ELSE IF c.limits[p].right # NIL THEN Leftmost(Rest(c), c.limits[p].right)
                      ELSE c.limits[p].left
           Cut(c)  == HandleDeleteLimit(Rest(c), p, c.limits[p])
           Up(c)   == RebalanceUp(Cut(c), Root(c), c.limits[p].parent, p)
<1>1. ASSUME NEW c, IsSide(c)
      PROVE  /\ DeleteLimitFrom(c, side, p).limits = Up(c).m
             /\ IsSide(DeleteLimitFrom(c, side, p))
  <2> DEFINE t == Up(c)
             d == DeleteLimitFrom(c, side, p)
             e == IF c.edge = p THEN NextEdge(c, side) ELSE c.edge
             n == c.rebalances + t.rot
  <2>1. d = [Balance(c, t) EXCEPT !.edge = IF @ = p THEN NextEdge(c, side) ELSE @]
    BY DEF DeleteLimitFrom
  <2> HIDE DEF t, d
  <2>2. Balance(c, t) = [c EXCEPT !.limits = t.m, !.tree = t.tree, !.rebalances = n]
    BY DEF Balance
  <2> HIDE DEF n
  <2>3. /\ Balance(c, t) = [limits |-> t.m, tree |-> t.tree, edge |-> c.edge, rebalances |-> n]
    BY <1>1, <2>2 DEF IsSide
  <2>4. d = [limits |-> t.m, tree |-> t.tree, edge |-> e, rebalances |-> n]
    BY <2>1, <2>3
  <2>5. d.limits = t.m /\ IsSide(d)
    BY <2>4 DEF IsSide
  <2> QED BY <2>5 DEF t, d
<1>2. Rest(b2) = Rest(b)
  OBVIOUS
<1>3. Root(b2) = Root(b)
  BY <1>2
<1>4. Cut(b2) = Cut(b)
  <2> DEFINE m == Rest(b)
             g == b.limits[p]
             h == b2.limits[p]
  <2>1. Rest(b2) = m /\ h.parent = g.parent /\ h.left = g.left /\ h.right = g.right
    BY <1>2
  <2> HIDE DEF m, g, h
  <2>2. HandleDeleteLimit(m, p, h) = HandleDeleteLimit(m, p, g)
    BY <2>1 DEF HandleDeleteLimit
  <2> QED BY <2>1, <2>2 DEF m, g, h
<1>5. Up(b2) = Up(b)
  BY <1>3, <1>4
<1> QED BY <1>1, <1>5

ShapeOK(ar) ==
  /\ ar = [side \in Side |-> ar[side]]
  /\ \A side \in Side : IsSide(ar[side])

(* A running call.  What a level still has to fill is there to be filled:  *)
(* at the edge, within the limit of the call, and unless this is the last  *)
(* level it is all that the level has.                                     *)
CallOK ==
  call # NIL =>
    /\ call \in Running
    /\ call.id \in DOMAIN orders <=> call.kind = "modify"
    /\ ~ call.last => call.shares + call.fill <= MaxShares
    /\ call.in = "taking" => call.fill = 0 /\ ~ call.last
    /\ call.in = "helper" =>
         /\ Against.edge # NIL => call.head = Against.limits[Against.edge].head_order
         /\ call.fill # 0 =>
              LET volume == Against.limits[Against.edge].total_volume
              IN  /\ Against.edge # NIL /\ Reaches
                  /\ call.fill <= volume
                  /\ ~ call.last => call.fill = volume

ArenaInv ==
  /\ BookOK(orders, Resting, AheadOf, arena)
  /\ ShapeOK(arena)
  /\ CallOK
  /\ executed_orders \in Seq(Execution)

-----------------------------------------------------------------------------
(* The steps of the code on the book.                                      *)

LimitLess(l, n, h, t) ==
  [l EXCEPT !.size = l.size - 1, !.total_volume = l.total_volume - n,
            !.head_order = h, !.tail_order = t]

(* The queue of the level p of a side has got new ends.                    *)
EndsMoved(b0, b, p, h, t) ==
  /\ IsSide(b) /\ b.tree = b0.tree
  /\ b.limits = [b0.limits EXCEPT
                   ![p] = [b0.limits[p] EXCEPT !.head_order = h, !.tail_order = t]]

(* A level whose queue has got new ends is released by an order.           *)
LEMMA ReleasedLevel ==
  ASSUME TreesServe, NEW side \in Side, IsSide(arena[side]),
         NEW p \in DOMAIN arena[side].limits,
         IsLimit(arena[side].limits[p]), arena[side].limits[p].size \in Int,
         NEW b, NEW h, NEW t, EndsMoved(arena[side], b, p, h, t), NEW n
  PROVE  /\ LevelReleased(arena[side].limits, Release(side, b, p, n).limits, p,
                          LimitLess(arena[side].limits[p], n, h, t))
         /\ IsSide(Release(side, b, p, n))
         /\ arena[side].limits[p].size # 1 => Release(side, b, p, n).edge = b.edge
<1> DEFINE ls == arena[side].limits
           l  == ls[p]
           lb == [l EXCEPT !.head_order = h, !.tail_order = t]
           c  == Release(side, b, p, n)
<1> USE DEF EndsMoved
<1> DEFINE l2   == LimitLess(l, n, h, t)
           bl   == b.limits[p]
           less == [b EXCEPT !.limits[p] = [bl EXCEPT !.total_volume = @ - n, !.size = @ - 1]]
<1>1. IsLimit(l2) /\ l2.size = l.size - 1
      /\ l2.parent = l.parent /\ l2.left = l.left /\ l2.right = l.right
  <2> DEFINE v == l.total_volume - n
  <2>1. l2 = [l EXCEPT !.size = l.size - 1, !.total_volume = v, !.head_order = h, !.tail_order = t]
    BY DEF LimitLess
  <2> HIDE DEF l2, v
  <2> QED BY <2>1 DEF IsLimit
<1>2. b.limits[p] = lb
  OBVIOUS
<1>3. l2 = [lb EXCEPT !.total_volume = @ - n, !.size = @ - 1]
  <2>1. lb.size = l.size /\ lb.total_volume = l.total_volume /\ IsLimit(lb)
        /\ lb.head_order = h /\ lb.tail_order = t
        /\ lb.parent = l.parent /\ lb.left = l.left /\ lb.right = l.right /\ lb.height = l.height
    BY DEF IsLimit
  <2> DEFINE v == l.total_volume - n
  <2>2. [lb EXCEPT !.total_volume = @ - n, !.size = @ - 1]
          = [lb EXCEPT !.total_volume = v, !.size = l.size - 1]
    BY <2>1 DEF IsLimit
  <2>3. l2 = [l EXCEPT !.size = l.size - 1, !.total_volume = v, !.head_order = h, !.tail_order = t]
    BY DEF LimitLess
  <2> HIDE DEF l2, v
  <2> QED BY <2>1, <2>2, <2>3 DEF IsLimit
<1> HIDE DEF l2
<1>4. IsSide(less) /\ less.tree = b.tree /\ less.edge = b.edge
      /\ less.limits = [ls EXCEPT ![p] = l2]
  <2>1. less = [b EXCEPT !.limits = [b.limits EXCEPT
                   ![p] = [b.limits[p] EXCEPT !.total_volume = @ - n, !.size = @ - 1]]]
    OBVIOUS
  <2>2. less = [b EXCEPT !.limits = [b.limits EXCEPT ![p] = l2]]
    BY <1>2, <1>3, <2>1
  <2>3. [b.limits EXCEPT ![p] = l2] = [ls EXCEPT ![p] = l2]
    OBVIOUS
  <2> HIDE DEF less
  <2>4. less = [b EXCEPT !.limits = [ls EXCEPT ![p] = l2]]
    BY <2>2, <2>3
  <2> QED BY <2>4 DEF IsSide
<1>5. c = IF less.limits[p].size = 0 THEN DeleteLimitFrom(less, side, p) ELSE less
  BY DEF Release
<1> HIDE DEF less
<1>6. less.limits[p] = l2
  BY <1>4
<1>7. CASE l2.size = 0
  <2>1. c = DeleteLimitFrom(less, side, p)
    BY <1>5, <1>6, <1>7
  <2>2. c.limits = DeleteLimitFrom(arena[side], side, p).limits /\ IsSide(c)
    <3>1. DOMAIN less.limits = DOMAIN ls /\ \A q \in DOMAIN ls \ {p} : less.limits[q] = ls[q]
      BY <1>4
    <3> QED BY <1>1, <1>4, <1>6, <2>1, <3>1, DeletionIgnoresOrders
  <2>3. /\ DOMAIN c.limits = DOMAIN ls \ {p}
        /\ \A q \in DOMAIN ls \ {p} : OnlyLinksMoved(ls[q], c.limits[q])
    BY <2>2 DEF TreesServe
  <2>4. LevelReleased(ls, c.limits, p, l2)
    BY <1>7, <2>3 DEF LevelReleased
  <2>5. l.size = 1
    BY <1>1, <1>7
  <2> QED BY <2>2, <2>4, <2>5 DEF l2
<1>8. CASE l2.size # 0
  <2>1. c = less
    BY <1>5, <1>6, <1>8
  <2>2. LevelReleased(ls, c.limits, p, l2)
    BY <1>4, <1>8, <2>1 DEF LevelReleased
  <2> QED BY <1>4, <2>1, <2>2 DEF l2
<1> QED BY <1>7, <1>8

(* The places in the next state are those a consistent book has.           *)
LEMMA NextPlaces ==
  ASSUME NEW ah, BookOK(orders', Resting', ah, arena'), ah = [o \in Resting' |-> ah[o]]
  PROVE  AheadOf' = ah /\ BookOK(orders, Resting, AheadOf, arena)'
<1>1. AheadOf' = CHOOSE up : UpIn(orders', Resting', up)
  BY DEF AheadOf, UpIn
<1>2. (CHOOSE up : UpIn(orders', Resting', up)) = [o \in Resting' |-> ah[o]]
  BY PlacesFromLinks
<1>3. AheadOf' = ah
  BY <1>1, <1>2
<1> QED BY <1>3 DEF BookOK, SideOK, LevelOK, OrdersOK, At

LEMMA UnlinkStep ==
  ASSUME ArenaInv, TreesServe, call = NIL, NEW id \in DOMAIN orders,
         NEW os2, os2 = Unlink(id).orders \/ os2 = Without(Unlink(id).orders, id),
         NEW ah2, ah2 = [o \in DOMAIN orders \ {id} |-> AheadOf[o] \ {id}]
  PROVE  /\ BookOK(os2, DOMAIN orders \ {id}, ah2, Unlink(id).arena)
         /\ ShapeOK(Unlink(id).arena)
         /\ \A o \in DOMAIN orders \ {id} :
              /\ os2[o].bid_or_ask = orders[o].bid_or_ask
              /\ os2[o].parent_limit = orders[o].parent_limit
              /\ os2[o].shares = orders[o].shares
<1> DEFINE side   == orders[id].bid_or_ask
           p      == orders[id].parent_limit
           before == orders[id].prev_order
           after  == orders[id].next_order
           shares == orders[id].shares
           l      == arena[side].limits[p]
           h      == HeadWithout(orders, id, l.head_order)
           t      == TailWithout(orders, id, l.tail_order)
           lb     == [l EXCEPT !.head_order = h, !.tail_order = t]
           b      == Ends(Fresh(arena)[side], p, before, after)
           c      == Release(side, b, p, shares)
           ar2    == Unlink(id).arena
           os1    == Unlink(id).orders
           rs     == DOMAIN orders
<1>1. Resting = rs
  BY DEF Resting
<1>2. BookOK(orders, rs, AheadOf, arena) /\ ShapeOK(arena) /\ OrdersOK(orders)
  BY <1>1 DEF ArenaInv, BookOK
<1>3. /\ side \in Side /\ p \in Price /\ p \in DOMAIN arena[side].limits
      /\ IsLimit(l) /\ l.size \in Int
      /\ before \in rs \cup {NIL} /\ after \in rs \cup {NIL}
  <2>1. /\ side \in Side /\ p \in Price /\ p \in DOMAIN arena[side].limits
        /\ LevelOK(orders, At(orders, rs, side, p), AheadOf, l)
        /\ At(orders, rs, side, p) \subseteq rs
        /\ before \in At(orders, rs, side, p) \cup {NIL}
        /\ after \in At(orders, rs, side, p) \cup {NIL}
    BY <1>2, PlaceOfOrder
  <2>2. Cardinality(At(orders, rs, side, p)) \in Int
    BY <1>2, <2>1, FS_CardinalityType, FS_Subset DEF OrdersOK
  <2> HIDE DEF l
  <2> QED BY <2>1, <2>2 DEF LevelOK
<1>4. /\ os1 = [o \in rs |-> [orders[o] EXCEPT
                               !.next_order = IF o = before THEN after ELSE @,
                               !.prev_order = IF o = after THEN before ELSE @]]
      /\ ar2 = [Fresh(arena) EXCEPT ![side] = c]
  BY DEF Unlink
<1>5. /\ IsSide(b) /\ b.tree = arena[side].tree
      /\ b.limits = [arena[side].limits EXCEPT ![p] = lb]
  <2> DEFINE f == Fresh(arena)[side]
  <2>1. IsSide(f) /\ f.limits = arena[side].limits /\ f.tree = arena[side].tree
    <3>1. f = [arena[side] EXCEPT !.rebalances = 0] /\ IsSide(arena[side])
      BY <1>2, <1>3 DEF Fresh, ShapeOK
    <3> HIDE DEF f
    <3> QED BY <3>1 DEF IsSide
  <2> HIDE DEF f, l
  <2>3. b = [f EXCEPT !.limits = [f.limits EXCEPT
               ![p] = [f.limits[p] EXCEPT !.head_order = IF before = NIL THEN after ELSE @,
                                          !.tail_order = IF after = NIL THEN before ELSE @]]]
    <3>1. b = Ends(f, p, before, after)
      BY DEF f
    <3> HIDE DEF b, before, after, p
    <3> QED BY <3>1 DEF Ends
  <2>4. [l EXCEPT !.head_order = IF before = NIL THEN after ELSE @,
                  !.tail_order = IF after = NIL THEN before ELSE @] = lb
    BY <1>3 DEF IsLimit, HeadWithout, TailWithout
  <2>5. f.limits[p] = l
    BY <2>1 DEF l
  <2> HIDE DEF b, lb
  <2>6. b = [f EXCEPT !.limits = [f.limits EXCEPT ![p] = lb]]
    BY <2>3, <2>4, <2>5
  <2> QED BY <2>1, <2>6 DEF IsSide
<1>6. /\ LevelReleased(arena[side].limits, c.limits, p, LevelWithout(orders, id, l))
      /\ IsSide(c)
  <2>1. IsSide(arena[side])
    BY <1>2, <1>3 DEF ShapeOK
  <2>2. LimitLess(l, shares, h, t) = LevelWithout(orders, id, l)
    BY DEF LimitLess, LevelWithout
  <2>3. EndsMoved(arena[side], b, p, h, t)
    BY <1>5 DEF EndsMoved
  <2>4. p \in DOMAIN arena[side].limits /\ IsLimit(arena[side].limits[p])
        /\ arena[side].limits[p].size \in Int
    BY <1>3
  <2> HIDE DEF b, h, t, side, p, shares
  <2>5. LevelReleased(arena[side].limits, c.limits, p, LimitLess(l, shares, h, t)) /\ IsSide(c)
    BY <1>3, <2>1, <2>3, <2>4, ReleasedLevel
  <2> QED BY <2>2, <2>5
<1>7. /\ ShapeOK(ar2) /\ ar2[side] = c
      /\ \A s \in Side \ {side} : ar2[s].limits = arena[s].limits
  <2> HIDE DEF c, ar2
  <2>1. /\ Fresh(arena) = [s \in Side |-> Fresh(arena)[s]]
        /\ \A s \in Side : IsSide(Fresh(arena)[s]) /\ Fresh(arena)[s].limits = arena[s].limits
    BY <1>2 DEF Fresh, ShapeOK, IsSide
  <2> QED BY <1>3, <1>4, <1>6, <2>1 DEF ShapeOK
<1>8. \A o \in rs \ {id} :
        /\ o \in DOMAIN os2
        /\ os2[o] = [orders[o] EXCEPT !.next_order = IF o = before THEN after ELSE @,
                                      !.prev_order = IF o = after THEN before ELSE @]
  <2>1. \A o \in rs \ {id} : o \in DOMAIN os1 /\ os2[o] = os1[o] /\ o \in DOMAIN os2
    <3> HIDE DEF before, after
    <3>1. DOMAIN os1 = rs
      BY <1>4
    <3> HIDE DEF os1
    <3> QED BY <3>1 DEF Without, os1
  <2> HIDE DEF before, after, os1
  <2> QED BY <1>4, <2>1
<1>9. ASSUME NEW o \in rs
      PROVE  LET new == [orders[o] EXCEPT !.next_order = IF o = before THEN after ELSE @,
                                          !.prev_order = IF o = after THEN before ELSE @]
             IN  /\ new \in Order /\ new.parent_limit = new.limit
                 /\ new.bid_or_ask = orders[o].bid_or_ask
                 /\ new.parent_limit = orders[o].parent_limit
                 /\ new.shares = orders[o].shares
                 /\ new.next_order = IF o = before THEN after ELSE orders[o].next_order
                 /\ new.prev_order = IF o = after THEN before ELSE orders[o].prev_order
  <2>1. orders[o] \in Order /\ orders[o].parent_limit = orders[o].limit
    BY <1>2 DEF OrdersOK
  <2>2. before \in Id \cup {NIL} /\ after \in Id \cup {NIL}
    BY <1>2, <1>3 DEF OrdersOK
  <2> HIDE DEF before, after
  <2> QED BY <2>1, <2>2 DEF Order
<1>10. OrdersOK(os2)
  <2>1. OrdersOK(os1)
    <3> HIDE DEF before, after, os1
    <3>1. DOMAIN os1 = rs /\ os1 = [o \in DOMAIN os1 |-> os1[o]]
      BY <1>4
    <3>2. \A o \in rs : os1[o] \in Order /\ os1[o].parent_limit = os1[o].limit
      <4> TAKE o \in rs
      <4> DEFINE new == [orders[o] EXCEPT !.next_order = IF o = before THEN after ELSE @,
                                          !.prev_order = IF o = after THEN before ELSE @]
      <4>1. os1[o] = new
        BY <1>4
      <4>2. new \in Order /\ new.parent_limit = new.limit
        BY <1>9
      <4> HIDE DEF new
      <4> QED BY <4>1, <4>2
    <3> QED BY <1>2, <3>1, <3>2 DEF OrdersOK
  <2>2. OrdersOK(Without(os1, id))
    <3> HIDE DEF os1
    <3>1. IsFiniteSet(DOMAIN os1 \ {id})
      BY <2>1, FS_RemoveElement DEF OrdersOK
    <3> QED BY <2>1, <3>1 DEF OrdersOK, Without
  <2> QED BY <2>1, <2>2
<1>11. \A o \in rs \ {id} :
         /\ o \in DOMAIN os2
         /\ os2[o].bid_or_ask = orders[o].bid_or_ask
         /\ os2[o].parent_limit = orders[o].parent_limit
         /\ os2[o].shares = orders[o].shares
         /\ os2[o].next_order = IF o = before THEN after ELSE orders[o].next_order
         /\ os2[o].prev_order = IF o = after THEN before ELSE orders[o].prev_order
  <2> HIDE DEF before, after
  <2> TAKE o \in rs \ {id}
  <2> DEFINE new == [orders[o] EXCEPT !.next_order = IF o = before THEN after ELSE @,
                                      !.prev_order = IF o = after THEN before ELSE @]
  <2>1. os2[o] = new /\ o \in DOMAIN os2
    BY <1>8
  <2>2. /\ new.bid_or_ask = orders[o].bid_or_ask
        /\ new.parent_limit = orders[o].parent_limit
        /\ new.shares = orders[o].shares
        /\ new.next_order = IF o = before THEN after ELSE orders[o].next_order
        /\ new.prev_order = IF o = after THEN before ELSE orders[o].prev_order
    BY <1>9
  <2> HIDE DEF new
  <2> QED BY <2>1, <2>2
<1>12. LinksWithout(orders, AheadOf, rs, id, os2, ah2) /\ SamePlaces(orders, rs \ {id}, os2)
  BY <1>11 DEF LinksWithout, SamePlaces
<1>13. BookOK(os2, rs \ {id}, ah2, ar2)
  <2> HIDE DEF ar2, l, c, rs, side, p, before, after
  <2> QED BY <1>2, <1>6, <1>7, <1>10, <1>11, <1>12, BookRemove DEF l, rs, side, p
<1> QED BY <1>7, <1>11, <1>13

-----------------------------------------------------------------------------
(* What a step of the code is to the engine.                               *)

LEMMA PlacesAreDefined ==
  ASSUME ArenaInv
  PROVE  AheadOf = [o \in Resting |-> AheadOf[o]]
<1>1. AheadOf = CHOOSE up : UpIn(orders, Resting, up)
  BY DEF AheadOf, UpIn
<1>2. BookOK(orders, Resting, AheadOf, arena)
  BY DEF ArenaInv
<1> QED BY <1>1, <1>2, PlacesFromLinks

(* The orders that rest have not changed.                                  *)
LEMMA BookSame ==
  ASSUME NEW os, NEW rs, NEW ah, NEW ar, BookOK(os, rs, ah, ar),
         NEW os2, OrdersOK(os2), \A o \in rs : o \in DOMAIN os2 /\ os2[o] = os[o],
         NEW ar2, \A side \in Side : ar2[side].limits = ar[side].limits
  PROVE  BookOK(os2, rs, ah, ar2)
<1>1. \A t \in Side, r \in Price : At(os2, rs, t, r) = At(os, rs, t, r)
  BY DEF At
<1>2. ASSUME NEW t \in Side PROVE SideOK(os2, rs, ah, ar2[t].limits, t)
  <2>1. SideOK(os, rs, ah, ar[t].limits, t) /\ ar2[t].limits = ar[t].limits
        /\ OrdersOK(os) /\ rs \subseteq DOMAIN os /\ rs \subseteq DOMAIN os2
    BY DEF BookOK
  <2>2. NIL \notin Price /\ DOMAIN ar[t].limits \subseteq Price
    BY <2>1, NilIsNoValue DEF SideOK
  <2>3. OthersKept(os, rs, ah, ar[t].limits, t, NIL, os2, rs, ah, ar2[t].limits)
    BY <1>1, <2>1, <2>2 DEF OthersKept, Untouched, At
  <2> QED BY <2>1, <2>2, <2>3, SideChange
<1> QED BY <1>2 DEF BookOK

(* The counts are set to 0, and all else in the arena is as before.        *)
LEMMA FreshArena ==
  ASSUME ShapeOK(arena)
  PROVE  /\ ShapeOK(Fresh(arena))
         /\ \A side \in Side : /\ Fresh(arena)[side].limits = arena[side].limits
                               /\ Fresh(arena)[side].edge = arena[side].edge
BY DEF Fresh, ShapeOK, IsSide

(* The engine sees no change of its book.                                  *)
LEMMA BookIsSeenTheSame ==
  ASSUME ArenaInv, OrdersOK(orders'), Resting' = Resting,
         \A o \in Resting : o \in DOMAIN orders' /\ orders'[o] = orders[o],
         \A side \in Side : arena'[side].limits = arena[side].limits
  PROVE  /\ BookOK(orders, Resting, AheadOf, arena)'
         /\ BookOf' = BookOf /\ AheadOf' = AheadOf
<1>1. BookOK(orders', Resting, AheadOf, arena')
  BY BookSame DEF ArenaInv
<1>2. AheadOf = [o \in Resting' |-> AheadOf[o]] /\ BookOK(orders', Resting', AheadOf, arena')
  BY <1>1, PlacesAreDefined
<1>3. AheadOf' = AheadOf /\ BookOK(orders, Resting, AheadOf, arena)'
  BY <1>2, NextPlaces
<1>4. BookOf' = BookOf
  BY DEF BookOf
<1> QED BY <1>3, <1>4

LEMMA NoTradesYet ==
  ASSUME executed_orders = << >>
  PROVE  TradesOf = << >> /\ executed_orders \in Seq(Execution)
BY DEF TradesOf

LEMMA TradeIsAdded ==
  ASSUME executed_orders \in Seq(Execution), NEW e \in Execution,
         executed_orders' = Append(executed_orders, e)
  PROVE  /\ executed_orders' \in Seq(Execution)
         /\ TradesOf' = Append(TradesOf, [price  |-> e.price,
                                          volume |-> e.volume,
                                          taker  |-> e.aggresive_order_id,
                                          maker  |-> e.passive_order_id])
<1> DEFINE new  == [price |-> e.price, volume |-> e.volume,
                    taker |-> e.aggresive_order_id, maker |-> e.passive_order_id]
           n    == Len(executed_orders)
           S    == {TradesOf[i] : i \in 1..n}
           more == Append(TradesOf, new)
<1>1. /\ n \in Nat /\ DOMAIN executed_orders = 1..n
      /\ executed_orders' \in Seq(Execution) /\ DOMAIN executed_orders' = 1..(n + 1)
      /\ \A i \in 1..n : executed_orders'[i] = executed_orders[i]
      /\ executed_orders'[n + 1] = e
  BY AppendProperties, LenProperties
<1>2. TradesOf \in Seq(S) /\ Len(TradesOf) = n
  BY <1>1 DEF TradesOf
<1> HIDE DEF n, new, S
<1>3. /\ more \in Seq(S \cup {new}) /\ Len(more) = n + 1
      /\ \A i \in 1..n : more[i] = TradesOf[i]
      /\ more[n + 1] = new
  <2>1. TradesOf \in Seq(S \cup {new}) /\ new \in S \cup {new}
    BY <1>2
  <2> QED BY <1>2, <2>1, AppendProperties
<1>4. /\ TradesOf' = [i \in 1..(n + 1) |-> TradesOf'[i]]
      /\ \A i \in 1..n : TradesOf'[i] = TradesOf[i]
      /\ TradesOf'[n + 1] = new
  BY <1>1 DEF TradesOf, new
<1>5. more = [i \in 1..(n + 1) |-> more[i]]
  <2> HIDE DEF more
  <2> QED BY <1>3
<1>6. \A i \in 1..(n + 1) : TradesOf'[i] = more[i]
  <2> HIDE DEF more
  <2>1. \A i \in 1..(n + 1) : i \in 1..n \/ i = n + 1
    BY <1>1
  <2> QED BY <1>3, <1>4, <2>1
<1> QED BY <1>1, <1>4, <1>5, <1>6 DEF new

(* The calls as the engine sees them. *)

LEMMA OpenedCall ==
  ASSUME NEW kind \in {"add", "modify"}, NEW id \in Id, NEW side \in Side,
         NEW shares \in 0..MaxShares, NEW price \in Price,
         call' = Open(kind, id, side, shares, price)
  PROVE  /\ call' \in Running /\ call' # NIL
         /\ call'.kind = kind /\ call'.id = id /\ call'.in = "taking"
         /\ call'.fill = 0 /\ ~ call'.last /\ call'.shares <= MaxShares
         /\ TakerOf' = [id |-> id, side |-> side, price |-> price, left |-> shares]
<1>1. /\ call' = [kind |-> kind, id |-> id, side |-> side, price |-> price, shares |-> shares,
                  in |-> "taking", fill |-> 0, last |-> FALSE, head |-> NIL]
  BY DEF Open
<1>2. call' \in Running
  BY <1>1, SharesAreNaturals DEF Running
<1>3. call' # NIL
  BY <1>2, NilIsNoValue
<1>4. shares + 0 = shares /\ shares <= MaxShares
  BY SharesAreNaturals
<1> QED BY <1>1, <1>2, <1>3, <1>4 DEF TakerOf

LEMMA NoCall ==
  ASSUME call = NIL
  PROVE  TakerOf = NIL /\ Resting = DOMAIN orders
BY DEF TakerOf, Resting

LEMMA AddStep ==
  ASSUME ArenaInv, NEW id \in Id, NEW side \in Side, NEW shares \in 0..MaxShares,
         NEW price \in Price, AddLimitOrder(id, side, shares, price)
  PROVE  ArenaInv' /\ Engine!Add(id, side, price, shares)
<1> USE DEF AddLimitOrder
<1>1. /\ call' \in Running /\ call' # NIL
      /\ call'.kind = "add" /\ call'.id = id /\ call'.in = "taking"
      /\ call'.fill = 0 /\ ~ call'.last /\ call'.shares <= MaxShares
      /\ TakerOf' = [id |-> id, side |-> side, price |-> price, left |-> shares]
  BY OpenedCall
<1>2. TakerOf = NIL /\ Resting = DOMAIN orders
  BY NoCall
<1>3. Resting' = Resting
  BY <1>1, <1>2 DEF Resting
<1>4. OrdersOK(orders') /\ ShapeOK(arena)'
      /\ \A s \in Side : arena'[s].limits = arena[s].limits
  <2>1. OrdersOK(orders') /\ ShapeOK(Fresh(arena))
        /\ \A s \in Side : Fresh(arena)[s].limits = arena[s].limits
    BY FreshArena DEF ArenaInv, BookOK
  <2> QED BY <2>1 DEF ShapeOK, IsSide
<1>5. BookOK(orders, Resting, AheadOf, arena)' /\ BookOf' = BookOf /\ AheadOf' = AheadOf
  <2>1. \A o \in Resting : o \in DOMAIN orders' /\ orders'[o] = orders[o]
    BY <1>2
  <2> QED BY <1>3, <1>4, <2>1, BookIsSeenTheSame
<1>6. TradesOf' = << >> /\ executed_orders' \in Seq(Execution)
  BY DEF TradesOf
<1>7. CallOK'
  BY <1>1, SharesAreNaturals DEF CallOK, Running
<1>8. ArenaInv'
  BY <1>4, <1>5, <1>6, <1>7 DEF ArenaInv
<1>9. id \notin DOMAIN BookOf
  BY <1>2 DEF BookOf
<1> QED BY <1>1, <1>2, <1>5, <1>6, <1>8, <1>9 DEF Engine!Add

LEMMA UnknownStep ==
  ASSUME ArenaInv, NEW id \in Id, UnknownOrder(id)
  PROVE  ArenaInv' /\ Engine!Ignore(id)
<1> USE DEF UnknownOrder
<1>1. TakerOf = NIL /\ Resting = DOMAIN orders /\ TakerOf' = NIL /\ Resting' = Resting
  BY DEF TakerOf, Resting
<1>2. OrdersOK(orders') /\ ShapeOK(arena)'
      /\ \A s \in Side : arena'[s].limits = arena[s].limits
  <2>1. OrdersOK(orders') /\ ShapeOK(Fresh(arena))
        /\ \A s \in Side : Fresh(arena)[s].limits = arena[s].limits
    BY FreshArena DEF ArenaInv, BookOK
  <2> QED BY <2>1 DEF ShapeOK, IsSide
<1>3. BookOK(orders, Resting, AheadOf, arena)' /\ BookOf' = BookOf /\ AheadOf' = AheadOf
  <2>1. \A o \in Resting : o \in DOMAIN orders' /\ orders'[o] = orders[o]
    BY <1>1
  <2> QED BY <1>1, <1>2, <2>1, BookIsSeenTheSame
<1>4. TradesOf' = << >> /\ executed_orders' \in Seq(Execution)
  BY DEF TradesOf
<1>5. ArenaInv'
  BY <1>2, <1>3, <1>4 DEF ArenaInv, CallOK
<1>6. id \notin DOMAIN BookOf
  BY <1>1 DEF BookOf
<1> QED BY <1>1, <1>3, <1>4, <1>5, <1>6 DEF Engine!Ignore

(* An order leaves its level, for good or to be matched anew.              *)
LEMMA WithdrawnStep ==
  ASSUME ArenaInv, TreesServe, call = NIL, NEW id \in DOMAIN orders,
         arena' = Unlink(id).arena,
         orders' = Unlink(id).orders \/ orders' = Without(Unlink(id).orders, id),
         Resting' = DOMAIN orders \ {id}
  PROVE  /\ BookOK(orders, Resting, AheadOf, arena)' /\ ShapeOK(arena)'
         /\ Engine!Withdraw(id)
<1> DEFINE ah2 == [o \in DOMAIN orders \ {id} |-> AheadOf[o] \ {id}]
<1>1. Resting = DOMAIN orders
  BY NoCall
<1>2. /\ BookOK(orders', DOMAIN orders \ {id}, ah2, arena')
      /\ ShapeOK(Unlink(id).arena)
      /\ \A o \in DOMAIN orders \ {id} :
           /\ orders'[o].bid_or_ask = orders[o].bid_or_ask
           /\ orders'[o].parent_limit = orders[o].parent_limit
           /\ orders'[o].shares = orders[o].shares
  BY UnlinkStep
<1>3. AheadOf' = ah2 /\ BookOK(orders, Resting, AheadOf, arena)'
  <2>1. ah2 = [o \in Resting' |-> ah2[o]]
    OBVIOUS
  <2> HIDE DEF ah2
  <2> QED BY <1>2, <2>1, NextPlaces
<1>4. AheadOf = [o \in DOMAIN orders |-> AheadOf[o]]
  BY <1>1, PlacesAreDefined
<1>5. BookOf' = Engine!Without(BookOf, id)
  <2>1. DOMAIN BookOf = DOMAIN orders
    BY <1>1 DEF BookOf
  <2> QED BY <1>1, <1>2, <2>1 DEF BookOf, Engine!Without
<1>6. AheadOf' = [o \in DOMAIN AheadOf \ {id} |-> AheadOf[o] \ {id}]
  BY <1>3, <1>4
<1>7. ShapeOK(arena)'
  BY <1>2 DEF ShapeOK, IsSide
<1> QED BY <1>3, <1>5, <1>6, <1>7 DEF Engine!Withdraw

LEMMA ModifyStep ==
  ASSUME ArenaInv, TreesServe, NEW id \in Id, NEW shares \in 0..MaxShares,
         NEW price \in Price, ModifyLimitOrder(id, shares, price)
  PROVE  ArenaInv' /\ Engine!Modify(id, price, shares)
<1> USE DEF ModifyLimitOrder
<1> DEFINE side == orders[id].bid_or_ask
<1>1. TakerOf = NIL /\ Resting = DOMAIN orders
  BY NoCall
<1>2. side \in Side
  BY DEF ArenaInv, BookOK, OrdersOK, Order
<1>3. /\ call' \in Running /\ call' # NIL
      /\ call'.kind = "modify" /\ call'.id = id /\ call'.in = "taking"
      /\ call'.fill = 0 /\ ~ call'.last /\ call'.shares <= MaxShares
      /\ TakerOf' = [id |-> id, side |-> side, price |-> price, left |-> shares]
  <2> HIDE DEF side
  <2>1. call' = Open("modify", id, side, shares, price)
    BY DEF side
  <2> QED BY <1>2, <2>1, OpenedCall
<1>4. DOMAIN orders' = DOMAIN orders
  BY DEF Unlink
<1>5. Resting' = DOMAIN orders \ {id}
  BY <1>3, <1>4 DEF Resting
<1>6. BookOK(orders, Resting, AheadOf, arena)' /\ ShapeOK(arena)' /\ Engine!Withdraw(id)
  BY <1>5, WithdrawnStep
<1>7. TradesOf' = << >> /\ executed_orders' \in Seq(Execution)
  BY DEF TradesOf
<1>8. CallOK'
  BY <1>3, <1>4, SharesAreNaturals DEF CallOK, Running
<1>9. ArenaInv'
  BY <1>6, <1>7, <1>8 DEF ArenaInv
<1>10. id \in DOMAIN BookOf /\ BookOf[id].side = side
  BY <1>1 DEF BookOf
<1> HIDE DEF side
<1> QED BY <1>1, <1>3, <1>6, <1>7, <1>9, <1>10 DEF Engine!Modify

LEMMA CancelStep ==
  ASSUME ArenaInv, TreesServe, NEW id \in Id, CancelLimitOrder(id)
  PROVE  ArenaInv' /\ Engine!Cancel(id)
<1> USE DEF CancelLimitOrder
<1>1. TakerOf = NIL /\ Resting = DOMAIN orders /\ TakerOf' = NIL
  BY DEF TakerOf, Resting
<1>2. Resting' = DOMAIN orders \ {id}
  <2>1. DOMAIN Unlink(id).orders = DOMAIN orders
    BY DEF Unlink
  <2>2. DOMAIN orders' = DOMAIN orders \ {id}
    BY <2>1 DEF Without
  <2> QED BY <2>2 DEF Resting
<1>3. BookOK(orders, Resting, AheadOf, arena)' /\ ShapeOK(arena)' /\ Engine!Withdraw(id)
  BY <1>2, WithdrawnStep
<1>4. TradesOf' = << >> /\ executed_orders' \in Seq(Execution)
  BY DEF TradesOf
<1>5. ArenaInv'
  BY <1>3, <1>4 DEF ArenaInv, CallOK
<1>6. id \in DOMAIN BookOf
  BY <1>1 DEF BookOf
<1> QED BY <1>1, <1>3, <1>4, <1>5, <1>6 DEF Engine!Cancel

-----------------------------------------------------------------------------
(* The loops of a running call as the engine sees them. *)

(* The order x at the head of the level l of the price p.                  *)
IsHead(os, rs, ah, side, p, l, x) ==
  /\ x \in rs /\ x \in DOMAIN os /\ x \in Id /\ os[x] \in Order
  /\ os[x].bid_or_ask = side /\ os[x].parent_limit = p /\ os[x].limit = p
  /\ os[x].prev_order = NIL /\ ah[x] = {}
  /\ os[x].shares \in Nat /\ os[x].shares > 0
  /\ l.size \in Nat /\ l.total_volume \in Nat /\ IsLimit(l)
  /\ os[x].shares <= l.total_volume
  /\ l.size = 1 => l.total_volume = os[x].shares

LEMMA HeadOfLevel ==
  ASSUME NEW os, NEW rs, NEW ah, NEW ar, BookOK(os, rs, ah, ar), NEW side \in Side,
         NEW p \in DOMAIN ar[side].limits
  PROVE  LET l == ar[side].limits[p]
         IN  IsHead(os, rs, ah, side, p, l, l.head_order)
<1> DEFINE l == ar[side].limits[p]
           q == At(os, rs, side, p)
           x == l.head_order
<1>1. /\ OrdersOK(os) /\ rs \subseteq DOMAIN os /\ LevelOK(os, q, ah, l)
      /\ q \subseteq rs
  BY DEF BookOK, SideOK, At
<1> HIDE DEF l
<1>2. x = l.head_order
  OBVIOUS
<1> HIDE DEF x
<1>3. x \in q /\ IsFiniteSet(q)
  BY <1>1, <1>2, FS_Subset DEF LevelOK, Chained, OrdersOK
<1>4. os[x].bid_or_ask = side /\ os[x].parent_limit = p
  BY <1>3 DEF At
<1> HIDE DEF q
<1>5. os[x].prev_order = NIL /\ ah[x] = {}
  BY <1>1, <1>2, <1>3 DEF LevelOK, Chained
<1>6. x \in Id /\ os[x] \in Order /\ os[x].limit = p
  BY <1>1, <1>3, <1>4 DEF OrdersOK
<1>7. \A o \in q : SharesIn(os)[o] \in Nat /\ SharesIn(os)[o] = os[o].shares /\ os[o].shares > 0
  BY <1>1, SharesAreCounted
<1>8. /\ SumOver(SharesIn(os), q) = SharesIn(os)[x] + SumOver(SharesIn(os), q \ {x})
      /\ SumOver(SharesIn(os), q \ {x}) \in Nat
  <2>1. IsFiniteSet(q \ {x})
    BY <1>3, FS_Subset
  <2> QED BY <1>3, <1>7, <2>1, SumRemove, SumIsNat
<1>9. l.size \in Nat /\ (l.size = 1 => q = {x})
  BY <1>1, <1>3, FS_CardinalityType, FS_Singleton DEF LevelOK
<1>10. l.size = 1 => SumOver(SharesIn(os), q \ {x}) = 0
  BY <1>9, SumEmpty
<1>11. /\ l.total_volume \in Nat /\ os[x].shares <= l.total_volume
       /\ l.size = 1 => l.total_volume = os[x].shares
  BY <1>1, <1>3, <1>7, <1>8, <1>10 DEF LevelOK
<1> QED BY <1>1, <1>2, <1>3, <1>4, <1>5, <1>6, <1>7, <1>9, <1>11 DEF l, x, LevelOK, IsHead

(* The taker of a running call, and the side it takes from.                *)
LEMMA TakerOfCall ==
  ASSUME ArenaInv, call # NIL
  PROVE  /\ call \in Running /\ TakerOf # NIL
         /\ TakerOf.id = call.id /\ TakerOf.side = call.side /\ TakerOf.price = call.price
         /\ TakerOf.left = IF call.last THEN call.fill ELSE call.shares + call.fill
         /\ TakerOf.left \in 0..MaxShares
         /\ TakerOf = [id |-> TakerOf.id, side |-> TakerOf.side, price |-> TakerOf.price,
                       left |-> TakerOf.left]
         /\ call.side \in Side /\ Other(call.side) \in Side
         /\ Engine!Other(call.side) = Other(call.side)
<1> DEFINE left == IF call.last THEN call.fill ELSE call.shares + call.fill
<1>1. call \in Running /\ (~ call.last => call.shares + call.fill <= MaxShares)
  BY DEF ArenaInv, CallOK
<1>2. TakerOf = [id |-> call.id, side |-> call.side, price |-> call.price, left |-> left]
  BY DEF TakerOf
<1>3. left \in 0..MaxShares
  BY <1>1, SharesAreNaturals DEF Running
<1> HIDE DEF left
<1>4. call.id \in Id /\ call.side \in Side /\ call.price \in Price
  BY <1>1 DEF Running
<1>5. TakerOf \in Engine!Taker
  BY <1>2, <1>3, <1>4 DEF Engine!Taker, Engine!Sides, Side
<1>6. TakerOf # NIL
  BY <1>5, NilIsNoTaker
<1>7. Other(call.side) \in Side /\ Engine!Other(call.side) = Other(call.side)
  BY <1>4 DEF Other, Engine!Other, Side
<1> QED BY <1>1, <1>2, <1>3, <1>4, <1>6, <1>7 DEF left

(* What the orders of the other side look like to a running call.          *)
LEMMA EdgeOfCall ==
  ASSUME ArenaInv, TreesServe, call # NIL
  PROVE  /\ Against.edge = NIL <=> DOMAIN Against.limits = {}
         /\ Against.edge # NIL => Against.edge \in DOMAIN Against.limits /\ Against.edge \in Price
         /\ \A o \in Resting : orders[o].bid_or_ask = Other(call.side) =>
              /\ orders[o].parent_limit \in DOMAIN Against.limits
              /\ orders[o].parent_limit \in Price
              /\ orders[o].parent_limit = Against.edge
                   \/ Outranks(Other(call.side), Against.edge, orders[o].parent_limit)
<1>1. BookOK(orders, Resting, AheadOf, arena) /\ Other(call.side) \in Side
  BY TakerOfCall DEF ArenaInv
<1>2. /\ Against.edge = NIL <=> DOMAIN Against.limits = {}
      /\ Against.edge # NIL => Against.edge \in DOMAIN Against.limits /\ Against.edge \in Price
      /\ \A q \in DOMAIN Against.limits \ {Against.edge} :
           Outranks(Other(call.side), Against.edge, q)
  <2>1. Against.edge = BestOf(Other(call.side), DOMAIN Against.limits)
    BY <1>1 DEF TreesServe, Against
  <2> QED BY <1>1, <2>1, EdgeOfSide DEF Against
<1>3. \A o \in Resting : orders[o].bid_or_ask = Other(call.side) =>
        orders[o].parent_limit \in DOMAIN Against.limits /\ orders[o].parent_limit \in Price
  BY <1>1, PlaceOfOrder DEF Against
<1> QED BY <1>2, <1>3

(* The order at the head of the best level.                                *)
LEMMA HeadOfCall ==
  ASSUME ArenaInv, TreesServe, call # NIL, Against.edge # NIL,
         NEW l, l = Against.limits[Against.edge]
  PROVE  IsHead(orders, Resting, AheadOf, Other(call.side), Against.edge, l, l.head_order)
<1>1. BookOK(orders, Resting, AheadOf, arena) /\ Other(call.side) \in Side
  BY TakerOfCall DEF ArenaInv
<1>2. Against.edge \in DOMAIN Against.limits
  BY EdgeOfCall
<1> DEFINE side == Other(call.side)
           p    == Against.edge
<1>3. side \in Side /\ p \in DOMAIN arena[side].limits
  BY <1>1, <1>2 DEF Against
<1>4. l = arena[side].limits[p]
  BY DEF Against
<1> HIDE DEF side, p
<1>5. IsHead(orders, Resting, AheadOf, side, p, l, l.head_order)
  BY <1>1, <1>3, <1>4, HeadOfLevel
<1> QED BY <1>5 DEF side, p

(* The head of the best level in reach is the maker the engine takes.      *)
LEMMA HeadIsFirst ==
  ASSUME ArenaInv, TreesServe, call # NIL, Against.edge # NIL, Reaches,
         NEW x, x = Against.limits[Against.edge].head_order
  PROVE  x \in Engine!Makers /\ Engine!First(x)
<1>1. /\ call \in Running /\ call.price \in Int
      /\ TakerOf.side = call.side /\ TakerOf.price = call.price
      /\ call.side \in Side /\ Engine!Other(call.side) = Other(call.side)
      /\ Other(call.side) \in Side
  BY TakerOfCall, PricesAreIntegers DEF Running
<1>2. /\ Against.edge \in DOMAIN Against.limits /\ Against.edge \in Int
      /\ \A o \in Resting : orders[o].bid_or_ask = Other(call.side) =>
           /\ orders[o].parent_limit \in Int
           /\ orders[o].parent_limit = Against.edge
                \/ Outranks(Other(call.side), Against.edge, orders[o].parent_limit)
  BY EdgeOfCall, PricesAreIntegers
<1>3. /\ x \in Resting /\ orders[x].bid_or_ask = Other(call.side)
      /\ orders[x].parent_limit = Against.edge /\ AheadOf[x] = {}
  BY HeadOfCall DEF IsHead
<1>4. /\ DOMAIN BookOf = Resting
      /\ \A o \in Resting : /\ BookOf[o].side = orders[o].bid_or_ask
                            /\ BookOf[o].price = orders[o].parent_limit
  BY DEF BookOf
<1>5. Engine!Crosses(call.side, call.price, Against.edge)
  BY DEF Reaches, Engine!Crosses
<1>6. x \in Engine!Makers
  BY <1>1, <1>3, <1>4, <1>5 DEF Engine!Makers
<1>7. \A o \in Resting : orders[o].bid_or_ask = Other(call.side)
        => ~ Engine!Better(Other(call.side), orders[o].parent_limit, Against.edge)
  BY <1>1, <1>2 DEF Engine!Better, Outranks, Side
<1>8. Engine!First(x)
  BY <1>3, <1>4, <1>7 DEF Engine!First
<1> QED BY <1>6, <1>8

LEMMA TakeLevelStep ==
  ASSUME ArenaInv, TreesServe, TakeLevel
  PROVE  ArenaInv' /\ UNCHANGED Engine!vars
<1> USE DEF TakeLevel
<1> DEFINE level == Against.limits[Against.edge]
           v     == level.total_volume
           last  == call.shares <= v
<1>1. call # NIL /\ call.in = "taking" /\ Against.edge # NIL /\ Reaches
  BY DEF CanTake
<1>2. /\ call \in Running /\ call.fill = 0 /\ ~ call.last /\ call.shares \in 0..MaxShares
      /\ call.id \in DOMAIN orders <=> call.kind = "modify"
  BY <1>1 DEF ArenaInv, CallOK, Running
<1>3. level.head_order \in Id /\ v \in Nat
  BY <1>1, HeadOfCall DEF IsHead
<1>4. call' = [call EXCEPT !.in = "helper", !.last = last,
                           !.fill = IF last THEN call.shares ELSE v,
                           !.shares = IF last THEN call.shares ELSE call.shares - v,
                           !.head = level.head_order]
  OBVIOUS
<1> DEFINE fill == IF last THEN call.shares ELSE v
           rest == IF last THEN call.shares ELSE call.shares - v
           head == level.head_order
<1>5. /\ fill \in 0..MaxShares /\ rest \in 0..MaxShares /\ last \in BOOLEAN
      /\ ~ last => rest + fill = call.shares /\ fill = v
      /\ last => fill = call.shares
      /\ fill <= v
  BY <1>2, <1>3, SharesAreNaturals
<1> HIDE DEF fill, rest, last, v, head
<1>6. /\ call'.in = "helper" /\ call'.last = last /\ call'.fill = fill /\ call'.shares = rest
      /\ call'.head = head /\ call'.kind = call.kind /\ call'.id = call.id
      /\ call'.side = call.side /\ call'.price = call.price /\ call' \in Running
  <2>1. call' = [call EXCEPT !.in = "helper", !.last = last, !.fill = fill, !.shares = rest,
                             !.head = head]
    BY <1>4 DEF fill, rest, head
  <2>2. head \in Id
    BY <1>3 DEF head
  <2> HIDE DEF level
  <2> QED BY <1>2, <1>5, <2>1, <2>2 DEF Running
<1>7. call' # NIL
  BY <1>6, NilIsNoValue
<1>8. Against' = Against /\ Reaches' /\ Resting' = Resting
  <2>1. Against' = Against
    BY <1>6 DEF Against
  <2> QED BY <1>1, <1>6, <1>7, <2>1 DEF Reaches, Resting
<1>9. CallOK'
  BY <1>1, <1>2, <1>5, <1>6, <1>8, SharesAreNaturals DEF CallOK, v, head
<1>10. BookOK(orders, Resting, AheadOf, arena)' /\ BookOf' = BookOf /\ AheadOf' = AheadOf
  <2>1. OrdersOK(orders') /\ Resting \subseteq DOMAIN orders
    BY DEF ArenaInv, BookOK
  <2> QED BY <1>8, <2>1, BookIsSeenTheSame
<1>11. ArenaInv'
  BY <1>9, <1>10 DEF ArenaInv, ShapeOK, IsSide
<1>12. TakerOf' = TakerOf
  <2>1. (IF last THEN fill ELSE rest + fill) = call.shares
    BY <1>5
  <2>2. TakerOf' = [id |-> call.id, side |-> call.side, price |-> call.price, left |-> call.shares]
    BY <1>6, <1>7, <2>1 DEF TakerOf
  <2>3. call.shares + call.fill = call.shares
    BY <1>2
  <2> QED BY <1>1, <1>2, <2>2, <2>3 DEF TakerOf
<1>13. TradesOf' = TradesOf
  BY DEF TradesOf
<1> QED BY <1>10, <1>11, <1>12, <1>13 DEF Engine!vars

(* What CallOK says of a helper that has something to fill.                *)
LEMMA FillIsThere ==
  ASSUME ArenaInv, call # NIL, call.in = "helper", call.fill # 0,
         NEW l, l = Against.limits[Against.edge]
  PROVE  /\ Against.edge # NIL /\ Reaches /\ call.head = l.head_order
         /\ call.fill <= l.total_volume /\ (~ call.last => call.fill = l.total_volume)
         /\ call.fill \in Nat /\ call.fill > 0 /\ call.fill <= TakerOf.left
         /\ TakerOf.left \in Nat
<1>1. /\ Against.edge # NIL /\ Reaches /\ call.head = l.head_order
      /\ call.fill <= l.total_volume /\ (~ call.last => call.fill = l.total_volume)
  BY DEF ArenaInv, CallOK
<1>2. /\ call.fill \in 0..MaxShares /\ call.shares \in 0..MaxShares
      /\ TakerOf.left = IF call.last THEN call.fill ELSE call.shares + call.fill
  BY TakerOfCall DEF Running
<1> QED BY <1>1, <1>2, SharesAreNaturals

(* The helper takes the rest of what it has to fill from the head order.   *)
LEMMA PartOfHeadStep ==
  ASSUME ArenaInv, TreesServe, LeaveHelper, Against.edge # NIL, call.fill # 0
  PROVE  ArenaInv' /\ Engine!Fill(call.head)
<1> DEFINE side == Other(call.side)
           p    == Against.edge
           x    == call.head
           n    == call.fill
           l    == Against.limits[p]
           less == [l EXCEPT !.total_volume = l.total_volume - n]
<1>1. /\ call # NIL /\ call.in = "helper" /\ ~ orders[x].shares <= n
      /\ orders' = [orders EXCEPT ![x].shares = @ - n]
      /\ arena' = [arena EXCEPT ![side].limits[orders[x].parent_limit] =
                     [Against.limits[orders[x].parent_limit] EXCEPT !.total_volume = @ - n]]
      /\ executed_orders' = Append(executed_orders, Executed(x, n))
      /\ call' = [call EXCEPT !.in = "taking", !.fill = 0, !.last = FALSE, !.head = NIL,
                              !.shares = IF call.last THEN 0 ELSE @]
  BY DEF LeaveHelper, CanExecute
<1>2. /\ Reaches /\ x = l.head_order
      /\ n <= l.total_volume /\ (~ call.last => n = l.total_volume)
      /\ n \in Nat /\ n > 0 /\ n <= TakerOf.left /\ TakerOf.left \in Nat
  BY <1>1, FillIsThere
<1>3. IsHead(orders, Resting, AheadOf, side, p, l, x)
  <2> HIDE DEF side
  <2>1. IsHead(orders, Resting, AheadOf, Other(call.side), p, l, l.head_order)
    <3> HIDE DEF x, n
    <3> QED BY <1>1, HeadOfCall
  <2> QED BY <1>2, <2>1 DEF side
<1>4. call.last
  BY <1>1, <1>2, <1>3 DEF IsHead
<1>5. /\ call \in Running /\ TakerOf # NIL /\ TakerOf.left = n /\ side \in Side
      /\ TakerOf.id = call.id /\ TakerOf.side = call.side /\ TakerOf.price = call.price
      /\ TakerOf = [id |-> TakerOf.id, side |-> TakerOf.side, price |-> TakerOf.price,
                    left |-> TakerOf.left]
  BY <1>1, <1>4, TakerOfCall
<1>6. /\ call' \in Running /\ call'.in = "taking" /\ call'.fill = 0 /\ ~ call'.last
      /\ call'.shares = 0 /\ call'.id = call.id /\ call'.kind = call.kind
      /\ call'.side = call.side /\ call'.price = call.price
  <2> HIDE DEF side, p, x, n, l, less
  <2>1. call' = [call EXCEPT !.in = "taking", !.fill = 0, !.last = FALSE, !.head = NIL,
                             !.shares = 0]
    BY <1>1, <1>4
  <2>2. call \in Running /\ 0 \in 0..MaxShares
    BY <1>5, SharesAreNaturals
  <2> QED BY <2>1, <2>2 DEF Running
<1>7. call' # NIL
  BY <1>6, NilIsNoValue
<1>8. /\ DOMAIN orders' = DOMAIN orders
      /\ \A o \in DOMAIN orders : o # x => orders'[o] = orders[o]
      /\ orders'[x] = [orders[x] EXCEPT !.shares = orders[x].shares - n]
  BY <1>1, <1>3 DEF IsHead
<1>9. Resting' = Resting
  BY <1>1, <1>6, <1>7, <1>8 DEF Resting
<1>10. /\ arena' = [arena EXCEPT ![side].limits[p] = less]
       /\ orders[x].parent_limit = p /\ orders[x].bid_or_ask = side
  <2>1. orders[x].parent_limit = p /\ orders[x].bid_or_ask = side
    BY <1>3 DEF IsHead
  <2> HIDE DEF side, p, x, n
  <2> QED BY <1>1, <2>1
<1> HIDE DEF side, p, x, n
<1>11. /\ orders'[x] \in Order /\ orders'[x].parent_limit = p
       /\ orders'[x].bid_or_ask = side /\ orders'[x].limit = p
       /\ orders'[x].shares = orders[x].shares - n
       /\ orders'[x].prev_order = orders[x].prev_order
       /\ orders'[x].next_order = orders[x].next_order
  <2> DEFINE w == orders[x].shares - n
  <2>1. /\ orders[x] \in Order /\ orders[x].parent_limit = p /\ orders[x].limit = p
        /\ w \in 1..MaxShares /\ orders[x].bid_or_ask = side
    <3>1. ~ orders[x].shares <= n /\ n \in Nat /\ n > 0
      BY <1>1, <1>2
    <3>2. orders[x].shares \in 1..MaxShares /\ orders[x] \in Order
          /\ orders[x].parent_limit = p /\ orders[x].limit = p /\ orders[x].bid_or_ask = side
      BY <1>3 DEF IsHead, Order
    <3> QED BY <3>1, <3>2, SharesAreNaturals
  <2>2. orders'[x] = [orders[x] EXCEPT !.shares = w]
    BY <1>8
  <2> HIDE DEF w
  <2>3. orders'[x] \in Order /\ orders'[x].parent_limit = p /\ orders'[x].shares = w
        /\ orders'[x].bid_or_ask = side /\ orders'[x].limit = p
        /\ orders'[x].prev_order = orders[x].prev_order
        /\ orders'[x].next_order = orders[x].next_order
    BY <2>1, <2>2 DEF Order
  <2> QED BY <2>3 DEF w
<1>12. OrdersOK(orders')
  <2>1. OrdersOK(orders)
    BY DEF ArenaInv, BookOK
  <2>2. orders' = [o \in DOMAIN orders' |-> orders'[o]]
    BY <1>1
  <2> QED BY <1>8, <1>11, <2>1, <2>2 DEF OrdersOK
<1>13. /\ ShapeOK(arena') /\ arena'[side].limits = [arena[side].limits EXCEPT ![p] = less]
       /\ \A t \in Side \ {side} : arena'[t].limits = arena[t].limits
       /\ \A t \in Side : arena'[t].edge = arena[t].edge
  <2>1. ShapeOK(arena)
    BY DEF ArenaInv
  <2> HIDE DEF less
  <2>2. arena' = [arena EXCEPT ![side] = [arena[side] EXCEPT !.limits =
                    [arena[side].limits EXCEPT ![p] = less]]]
    BY <1>10
  <2>3. /\ arena'[side] = [arena[side] EXCEPT !.limits = [arena[side].limits EXCEPT ![p] = less]]
        /\ \A t \in Side \ {side} : arena'[t] = arena[t]
        /\ arena' = [t \in Side |-> arena'[t]]
    BY <1>5, <2>1, <2>2 DEF ShapeOK
  <2>4. IsSide(arena'[side]) /\ arena'[side].edge = arena[side].edge
        /\ arena'[side].limits = [arena[side].limits EXCEPT ![p] = less]
    BY <1>5, <2>1, <2>3 DEF ShapeOK, IsSide
  <2> QED BY <1>5, <2>1, <2>3, <2>4 DEF ShapeOK
<1>14. BookOK(orders', Resting, AheadOf, arena')
  <2>1. BookOK(orders, Resting, AheadOf, arena) /\ x \in Resting /\ Resting \subseteq DOMAIN orders
    BY <1>3 DEF ArenaInv, BookOK, IsHead
  <2>2. SamePlaces(orders, Resting, orders') /\ SharesReduced(orders, Resting, x, n, orders')
    BY <1>8, <1>10, <1>11, <2>1 DEF SamePlaces, SharesReduced
  <2>3. l = arena[side].limits[p]
    BY DEF Against, side
  <2>4. VolumeReduced(arena, orders[x].bid_or_ask, orders[x].parent_limit, n, arena')
    BY <1>10, <1>13, <2>3 DEF VolumeReduced
  <2> QED BY <1>2, <1>12, <2>1, <2>2, <2>4, BookReduce
<1>15. AheadOf' = AheadOf /\ BookOK(orders, Resting, AheadOf, arena)'
  <2>1. AheadOf = [o \in Resting' |-> AheadOf[o]] /\ BookOK(orders', Resting', AheadOf, arena')
    BY <1>9, <1>14, PlacesAreDefined
  <2> QED BY <2>1, NextPlaces
<1>16. CallOK'
  <2>1. call.id \in DOMAIN orders <=> call.kind = "modify"
    BY <1>1 DEF ArenaInv, CallOK
  <2> QED BY <1>6, <1>8, <2>1, SharesAreNaturals DEF CallOK
<1>17. /\ Executed(x, n) \in Execution
       /\ Executed(x, n).price = p /\ Executed(x, n).volume = n
       /\ Executed(x, n).aggresive_order_id = call.id
       /\ Executed(x, n).passive_order_id = x
  <2>1. orders[x].limit = p /\ p \in Price /\ x \in Id /\ call.id \in Id /\ n \in 1..MaxShares
    BY <1>1, <1>2, <1>3, <1>5, SharesAreNaturals DEF IsHead, Order, Running
  <2> QED BY <2>1 DEF Executed, Execution
<1>18. executed_orders' \in Seq(Execution)
       /\ TradesOf' = Append(TradesOf, [price |-> p, volume |-> n,
                                        taker |-> call.id, maker |-> x])
  <2> DEFINE e == Executed(x, n)
  <2>1. e \in Execution /\ executed_orders' = Append(executed_orders, e)
        /\ executed_orders \in Seq(Execution)
    BY <1>1, <1>17 DEF ArenaInv, x, n
  <2>2. e.price = p /\ e.volume = n /\ e.aggresive_order_id = call.id /\ e.passive_order_id = x
    BY <1>17
  <2> HIDE DEF e
  <2> QED BY <2>1, <2>2, TradeIsAdded
<1>19. ArenaInv'
  BY <1>13, <1>15, <1>16, <1>18 DEF ArenaInv, ShapeOK, IsSide
<1>20. /\ x \in Engine!Makers /\ Engine!First(x)
  BY <1>1, <1>2, HeadIsFirst DEF p
<1>21. /\ BookOf[x].shares = orders[x].shares /\ BookOf[x].price = p /\ x \in DOMAIN BookOf
       /\ orders[x].shares \in Nat
  BY <1>3, <1>10 DEF BookOf, IsHead
<1>22. Engine!Volume(x) = n /\ Engine!Volume(x) # BookOf[x].shares
  BY <1>1, <1>2, <1>5, <1>21 DEF Engine!Volume, x, n
<1>23. BookOf' = [BookOf EXCEPT ![x].shares = BookOf[x].shares - n]
  <2> DEFINE v == orders[x].shares - n
  <2>1. /\ BookOf' = [o \in Resting |-> [side   |-> orders'[o].bid_or_ask,
                                         price  |-> orders'[o].parent_limit,
                                         shares |-> orders'[o].shares]]
        /\ BookOf = [o \in Resting |-> [side   |-> orders[o].bid_or_ask,
                                        price  |-> orders[o].parent_limit,
                                        shares |-> orders[o].shares]]
    BY <1>9 DEF BookOf
  <2>2. Resting \subseteq DOMAIN orders /\ x \in Resting
    BY <1>3 DEF ArenaInv, BookOK, IsHead
  <2> HIDE DEF v
  <2>3. orders'[x].shares = v /\ orders'[x].bid_or_ask = orders[x].bid_or_ask
        /\ orders'[x].parent_limit = orders[x].parent_limit
    BY <1>10, <1>11 DEF v
  <2>4. /\ BookOf'[x] = [BookOf[x] EXCEPT !.shares = v]
        /\ \A o \in Resting \ {x} : BookOf'[o] = BookOf[o]
    <3>1. BookOf'[x] = [side |-> orders[x].bid_or_ask, price |-> orders[x].parent_limit,
                        shares |-> v]
      BY <2>1, <2>2, <2>3
    <3>2. BookOf[x] = [side |-> orders[x].bid_or_ask, price |-> orders[x].parent_limit,
                       shares |-> orders[x].shares]
      BY <2>1, <2>2
    <3>3. \A o \in Resting \ {x} : orders'[o] = orders[o]
      BY <1>8, <2>2
    <3>4. \A o \in Resting \ {x} : BookOf'[o] = BookOf[o]
      BY <2>1, <3>3
    <3> QED BY <3>1, <3>2, <3>4
  <2>5. BookOf' = [o \in Resting |-> BookOf'[o]] /\ BookOf = [o \in Resting |-> BookOf[o]]
    BY <2>1
  <2>6. [BookOf EXCEPT ![x].shares = v] = BookOf'
    BY <2>2, <2>4, <2>5
  <2> QED BY <1>21, <2>6 DEF v
<1>24. TakerOf' = [TakerOf EXCEPT !.left = TakerOf.left - n]
  <2>1. TakerOf' = [id |-> call.id, side |-> call.side, price |-> call.price, left |-> 0]
    BY <1>6, <1>7 DEF TakerOf
  <2>2. TakerOf.left - n = 0
    BY <1>2, <1>5
  <2> QED BY <1>5, <2>1, <2>2
<1>25. TakerOf.left > 0
  BY <1>2, <1>5
<1> QED BY <1>5, <1>15, <1>18, <1>19, <1>20, <1>21, <1>22, <1>23, <1>24, <1>25 DEF Engine!Fill, x

LEMMA LeaveStep ==
  ASSUME ArenaInv, TreesServe, LeaveHelper, ~ (Against.edge # NIL /\ call.fill # 0)
  PROVE  ArenaInv' /\ UNCHANGED Engine!vars
<1>1. /\ call # NIL /\ call.in = "helper" /\ UNCHANGED <<orders, arena, executed_orders>>
      /\ call' = [call EXCEPT !.in = "taking", !.fill = 0, !.last = FALSE, !.head = NIL,
                              !.shares = IF call.last THEN 0 ELSE @]
  BY DEF LeaveHelper
<1>2. /\ call \in Running /\ call.fill = 0 /\ (~ call.last => call.shares + call.fill <= MaxShares)
      /\ call.id \in DOMAIN orders <=> call.kind = "modify"
  BY <1>1 DEF ArenaInv, CallOK
<1> DEFINE left == IF call.last THEN 0 ELSE call.shares
<1>3. /\ left \in 0..MaxShares
      /\ left = IF call.last THEN call.fill ELSE call.shares + call.fill
  BY <1>2, SharesAreNaturals DEF Running
<1>4. /\ call' = [call EXCEPT !.in = "taking", !.fill = 0, !.last = FALSE, !.head = NIL,
                              !.shares = left]
  BY <1>1
<1> HIDE DEF left
<1>5. /\ call' \in Running /\ call'.in = "taking" /\ call'.fill = 0 /\ ~ call'.last
      /\ call'.shares = left /\ call'.id = call.id /\ call'.kind = call.kind
      /\ call'.side = call.side /\ call'.price = call.price
  BY <1>2, <1>3, <1>4, SharesAreNaturals DEF Running
<1>6. call' # NIL
  BY <1>5, NilIsNoValue
<1>7. Resting' = Resting
  BY <1>1, <1>5, <1>6 DEF Resting
<1>8. BookOK(orders, Resting, AheadOf, arena)' /\ BookOf' = BookOf /\ AheadOf' = AheadOf
  <2>1. OrdersOK(orders') /\ Resting \subseteq DOMAIN orders
    BY <1>1 DEF ArenaInv, BookOK
  <2> QED BY <1>1, <1>7, <2>1, BookIsSeenTheSame
<1>9. CallOK'
  BY <1>1, <1>2, <1>3, <1>5, SharesAreNaturals DEF CallOK
<1>10. ArenaInv'
  BY <1>1, <1>8, <1>9 DEF ArenaInv, ShapeOK, IsSide
<1>11. TakerOf' = TakerOf
  <2>1. left + 0 = left
    BY <1>3, SharesAreNaturals
  <2>2. TakerOf' = [id |-> call.id, side |-> call.side, price |-> call.price, left |-> left]
    BY <1>5, <1>6, <2>1 DEF TakerOf
  <2> QED BY <1>1, <1>3, <2>2 DEF TakerOf
<1>12. TradesOf' = TradesOf
  BY <1>1 DEF TradesOf
<1> QED BY <1>8, <1>10, <1>11, <1>12 DEF Engine!vars

(* A turn of the helper: the head order is executed in full.               *)
LEMMA ExecuteStep ==
  ASSUME ArenaInv, TreesServe, TreesServe', ExecuteHead
  PROVE  ArenaInv' /\ Engine!Fill(call.head)
<1> DEFINE side   == Other(call.side)
           p      == Against.edge
           x      == call.head
           n      == orders[x].shares
           next   == orders[x].next_order
           l      == Against.limits[p]
           t      == IF next = NIL THEN NIL ELSE l.tail_order
           popped == [Against EXCEPT !.limits[p] = [l EXCEPT !.head_order = next,
                                                             !.tail_order = t]]
           left   == Release(side, popped, p, n)
           head   == IF left.edge = NIL THEN x ELSE left.limits[left.edge].head_order
           fill   == call.fill - n
           ah2    == [o \in Resting \ {x} |-> AheadOf[o] \ {x}]
<1>1. call # NIL /\ call.in = "helper" /\ Against.edge # NIL /\ n <= call.fill
  BY DEF ExecuteHead, CanExecute
<1>2. x = l.head_order
  BY <1>1 DEF ArenaInv, CallOK
<1>3. IsHead(orders, Resting, AheadOf, side, p, l, x)
  <2> HIDE DEF side
  <2>1. IsHead(orders, Resting, AheadOf, Other(call.side), p, l, l.head_order)
    <3> HIDE DEF x, n
    <3> QED BY <1>1, HeadOfCall
  <2> QED BY <1>2, <2>1 DEF side
<1>4. /\ call \in Running /\ TakerOf # NIL /\ side \in Side
      /\ TakerOf.id = call.id /\ TakerOf.side = call.side /\ TakerOf.price = call.price
      /\ TakerOf.left = IF call.last THEN call.fill ELSE call.shares + call.fill
      /\ TakerOf = [id |-> TakerOf.id, side |-> TakerOf.side, price |-> TakerOf.price,
                    left |-> TakerOf.left]
  BY <1>1, TakerOfCall
<1>5. call.fill # 0
  BY <1>1, <1>3, <1>4, SharesAreNaturals DEF IsHead, Running
<1>6. /\ Reaches /\ call.fill <= l.total_volume /\ (~ call.last => call.fill = l.total_volume)
      /\ call.fill \in Nat /\ call.fill > 0 /\ call.fill <= TakerOf.left
      /\ TakerOf.left \in Nat
  BY <1>1, <1>5, FillIsThere
<1>7. /\ arena' = [arena EXCEPT ![side] = left]
      /\ orders' = [o \in DOMAIN orders \ {x} |->
                      IF o = next THEN [orders[o] EXCEPT !.prev_order = NIL] ELSE orders[o]]
      /\ call' = [call EXCEPT !.fill = fill, !.head = head]
      /\ executed_orders' = Append(executed_orders, Executed(x, n))
  <2>1. orders[x].parent_limit = p
    BY <1>3 DEF IsHead
  <2>2. [Against.limits[p] EXCEPT !.head_order = orders[x].next_order,
                                  !.tail_order = IF orders[x].next_order = NIL THEN NIL ELSE @]
          = [l EXCEPT !.head_order = next, !.tail_order = t]
    <3>1. IsLimit(l)
      BY <1>3 DEF IsHead
    <3> HIDE DEF p, x
    <3> QED BY <3>1 DEF IsLimit
  <2> HIDE DEF l, side, p, n, t
  <2> QED BY <2>1, <2>2 DEF ExecuteHead, l, side, n
<1>8. /\ LevelReleased(arena[side].limits, left.limits, p, LevelWithout(orders, x, l))
      /\ IsSide(left)
      /\ l.size # 1 => left.edge = p
  <2>1. ShapeOK(arena) /\ Against = arena[side] /\ IsSide(arena[side])
    BY <1>4 DEF ArenaInv, ShapeOK, Against
  <2>2. p \in DOMAIN arena[side].limits /\ l = arena[side].limits[p]
    BY <1>1, <2>1, EdgeOfCall
  <2>3. IsLimit(l) /\ l.size \in Int
    BY <1>3 DEF IsHead
  <2>4. EndsMoved(arena[side], popped, p, next, t) /\ popped.edge = Against.edge
    <3> DEFINE lb == [l EXCEPT !.head_order = next, !.tail_order = t]
    <3>1. popped = [Against EXCEPT !.limits = [Against.limits EXCEPT ![p] = lb]]
      OBVIOUS
    <3> HIDE DEF popped, lb, l, next, t, p, x, side
    <3>2. IsSide(popped) /\ popped.tree = arena[side].tree /\ popped.edge = Against.edge
          /\ popped.limits = [arena[side].limits EXCEPT ![p] = lb]
      BY <2>1, <3>1 DEF IsSide
    <3> QED BY <2>2, <3>2 DEF EndsMoved, lb
  <2>5. LimitLess(l, n, next, t) = LevelWithout(orders, x, l)
    <3>1. HeadWithout(orders, x, l.head_order) = next /\ TailWithout(orders, x, l.tail_order) = t
      BY <1>3 DEF IsHead, HeadWithout, TailWithout
    <3> HIDE DEF l, next, t, x
    <3> QED BY <3>1 DEF LimitLess, LevelWithout, n
  <2> HIDE DEF popped, l, next, t, x, side, n
  <2>6. p \in DOMAIN arena[side].limits /\ IsLimit(arena[side].limits[p])
        /\ arena[side].limits[p].size \in Int
    BY <2>2, <2>3
  <2> HIDE DEF p
  <2>7. /\ LevelReleased(arena[side].limits, left.limits, p, LimitLess(l, n, next, t))
        /\ IsSide(left) /\ (l.size # 1 => left.edge = popped.edge)
    BY <1>4, <2>1, <2>2, <2>4, <2>6, ReleasedLevel
  <2> QED BY <2>4, <2>5, <2>7 DEF p
<1> HIDE DEF left, popped, t
<1>9. /\ ShapeOK(arena') /\ arena'[side] = left
      /\ \A s \in Side \ {side} : arena'[s].limits = arena[s].limits
  <2>1. ShapeOK(arena)
    BY DEF ArenaInv
  <2> HIDE DEF side, x, p, n, l, next
  <2> QED BY <1>4, <1>7, <1>8, <2>1 DEF ShapeOK
<1>10. /\ BookOK(orders, Resting, AheadOf, arena) /\ OrdersOK(orders)
       /\ x \in Resting /\ Resting \subseteq DOMAIN orders /\ NIL \notin Resting
       /\ orders[x].prev_order = NIL /\ next \in Id \cup {NIL}
       /\ orders[x].bid_or_ask = side /\ orders[x].parent_limit = p /\ orders[x].limit = p
       /\ p \in Price
  BY <1>3, NilIsNoValue DEF ArenaInv, BookOK, IsHead, Order, OrdersOK
<1> HIDE DEF x, p, next, side, n, l
<1>11. /\ DOMAIN orders' = DOMAIN orders \ {x}
       /\ orders' = [o \in DOMAIN orders' |-> orders'[o]]
       /\ \A o \in DOMAIN orders \ {x} :
            /\ orders'[o] \in Order /\ orders'[o].parent_limit = orders'[o].limit
            /\ orders'[o].bid_or_ask = orders[o].bid_or_ask
            /\ orders'[o].parent_limit = orders[o].parent_limit
            /\ orders'[o].shares = orders[o].shares
            /\ orders'[o].next_order = orders[o].next_order
            /\ orders'[o].prev_order = IF o = next THEN NIL ELSE orders[o].prev_order
  <2>1. /\ DOMAIN orders' = DOMAIN orders \ {x}
        /\ orders' = [o \in DOMAIN orders' |-> orders'[o]]
    BY <1>7
  <2>2. ASSUME NEW o \in DOMAIN orders \ {x}
        PROVE  /\ orders'[o] \in Order /\ orders'[o].parent_limit = orders'[o].limit
               /\ orders'[o].bid_or_ask = orders[o].bid_or_ask
               /\ orders'[o].parent_limit = orders[o].parent_limit
               /\ orders'[o].shares = orders[o].shares
               /\ orders'[o].next_order = orders[o].next_order
               /\ orders'[o].prev_order = IF o = next THEN NIL ELSE orders[o].prev_order
    <3>1. orders[o] \in Order /\ orders[o].parent_limit = orders[o].limit
      BY <1>10 DEF OrdersOK
    <3>2. CASE o = next
      <4>1. orders'[o] = [orders[o] EXCEPT !.prev_order = NIL]
        BY <1>7, <3>2
      <4> QED BY <3>1, <3>2, <4>1 DEF Order
    <3>3. CASE o # next
      <4>1. orders'[o] = orders[o]
        BY <1>7, <3>3
      <4> QED BY <3>1, <3>3, <4>1
    <3> QED BY <3>2, <3>3
  <2> QED BY <2>1, <2>2
<1>12. OrdersOK(orders')
  <2>1. IsFiniteSet(DOMAIN orders')
    BY <1>10, <1>11, FS_RemoveElement DEF OrdersOK
  <2> QED BY <1>10, <1>11, <2>1 DEF OrdersOK
<1>13. /\ call'.in = "helper" /\ call'.last = call.last /\ call'.fill = fill
       /\ call'.shares = call.shares /\ call'.head = head /\ call'.kind = call.kind
       /\ call'.id = call.id /\ call'.side = call.side /\ call'.price = call.price
       /\ head \in Id => call' \in Running
  <2>1. fill \in 0..MaxShares
    BY <1>1, <1>3, <1>4, SharesAreNaturals DEF Running, IsHead, n
  <2> HIDE DEF fill, head
  <2>2. call \in Running
    BY <1>4
  <2> QED BY <1>1, <1>7, <2>1, <2>2 DEF Running
<1>14. BookOK(orders', Resting \ {x}, ah2, arena')
  <2> HIDE DEF fill, head
  <2>1. LinksWithout(orders, AheadOf, Resting, x, orders', ah2)
    BY <1>10, <1>11 DEF LinksWithout, next
  <2>2. /\ SamePlaces(orders, Resting \ {x}, orders')
        /\ \A o \in Resting \ {x} : orders'[o].shares = orders[o].shares
    BY <1>10, <1>11 DEF SamePlaces
  <2>3. LevelReleased(arena[side].limits, arena'[side].limits, p,
                      LevelWithout(orders, x, arena[side].limits[p]))
    BY <1>8, <1>9 DEF l, side, Against
  <2> HIDE DEF ah2
  <2> QED BY <1>9, <1>10, <1>12, <2>1, <2>2, <2>3, BookRemove
<1>15. /\ left.edge = NIL => head = x
       /\ left.edge # NIL => /\ left.edge \in DOMAIN left.limits
                             /\ head = left.limits[left.edge].head_order
       /\ head \in Id
  <2>1. left.edge = BestOf(side, DOMAIN left.limits)
    <3>1. arena'[side].edge = BestOf(side, DOMAIN arena'[side].limits)
      BY <1>4 DEF TreesServe
    <3> QED BY <1>9, <3>1
  <2>2. left.edge # NIL => left.edge \in DOMAIN left.limits
    BY <1>4, <1>9, <1>14, <2>1, EdgeOfSide
  <2>3. CASE left.edge = NIL
    BY <1>3, <2>3 DEF IsHead
  <2>4. CASE left.edge # NIL
    <3> DEFINE e == left.edge
               m == left.limits[e]
    <3>1. e \in DOMAIN arena'[side].limits /\ m = arena'[side].limits[e]
      BY <1>9, <2>2, <2>4
    <3> HIDE DEF e
    <3>2. IsHead(orders', Resting \ {x}, ah2, side, e, m, m.head_order)
      <4> HIDE DEF ah2, m
      <4> QED BY <1>4, <1>14, <3>1, HeadOfLevel
    <3>3. m.head_order \in Id
      BY <3>2 DEF IsHead
    <3> QED BY <2>2, <2>4, <3>3 DEF e
  <2> QED BY <2>2, <2>3, <2>4
<1>16. call' \in Running /\ call' # NIL
  BY <1>13, <1>15, NilIsNoValue
<1>17. Resting' = Resting \ {x} /\ (call.id \in DOMAIN orders' <=> call.kind = "modify")
  <2>1. Resting = IF call.kind = "modify" THEN DOMAIN orders \ {call.id} ELSE DOMAIN orders
    BY <1>1 DEF Resting
  <2>2. Resting' = IF call.kind = "modify" THEN DOMAIN orders' \ {call.id} ELSE DOMAIN orders'
    BY <1>13, <1>16 DEF Resting
  <2>3. call.id \in DOMAIN orders <=> call.kind = "modify"
    BY <1>1 DEF ArenaInv, CallOK
  <2> QED BY <1>10, <1>11, <2>1, <2>2, <2>3
<1>18. AheadOf' = ah2 /\ BookOK(orders, Resting, AheadOf, arena)'
  <2>1. ah2 = [o \in Resting' |-> ah2[o]] /\ BookOK(orders', Resting', ah2, arena')
    BY <1>14, <1>17
  <2> HIDE DEF ah2
  <2> QED BY <2>1, NextPlaces
<1>19. CallOK'
  <2>1. Against' = left
    BY <1>9, <1>13 DEF Against, side
  <2>2. ~ call.last => call.shares + fill <= MaxShares
    <3>1. ~ call.last => call.shares + call.fill <= MaxShares
      BY <1>1 DEF ArenaInv, CallOK
    <3> QED BY <1>3, <1>4, <3>1, SharesAreNaturals DEF IsHead, Running, n
  <2>3. fill # 0 => LET volume == left.limits[left.edge].total_volume
                    IN  /\ left.edge # NIL /\ left.edge = Against.edge
                        /\ fill <= volume /\ (~ call.last => fill = volume)
    <3> SUFFICES ASSUME fill # 0
                 PROVE  LET volume == left.limits[left.edge].total_volume
                        IN  /\ left.edge # NIL /\ left.edge = Against.edge
                            /\ fill <= volume /\ (~ call.last => fill = volume)
      OBVIOUS
    <3> DEFINE l2 == LevelWithout(orders, x, l)
    <3>1. /\ n \in Nat /\ l.total_volume \in Nat /\ l.size \in Nat /\ IsLimit(l)
          /\ (l.size = 1 => l.total_volume = n)
      BY <1>3 DEF IsHead, n
    <3>2. l.size # 1
      BY <1>1, <1>6, <3>1
    <3>3. left.edge = p /\ p = Against.edge
      BY <1>8, <3>2 DEF p
    <3>4. l2.size = l.size - 1 /\ l2.total_volume = l.total_volume - n
      <4> DEFINE a == l.size - 1
                 v == l.total_volume - n
                 h == HeadWithout(orders, x, l.head_order)
                 u == TailWithout(orders, x, l.tail_order)
      <4>1. l2 = [l EXCEPT !.size = a, !.total_volume = v, !.head_order = h, !.tail_order = u]
        BY DEF LevelWithout, n
      <4> HIDE DEF l2, a, v, h, u
      <4>2. l2.size = a /\ l2.total_volume = v
        BY <3>1, <4>1 DEF IsLimit
      <4> QED BY <4>2 DEF a, v
    <3>5. left.limits[p] = l2
      <4>1. left.limits = [arena[side].limits EXCEPT ![p] = l2]
        BY <1>8, <3>1, <3>2, <3>4 DEF LevelReleased
      <4>2. p \in DOMAIN arena[side].limits
        BY <1>1, EdgeOfCall DEF p, side, Against
      <4> QED BY <4>1, <4>2
    <3> HIDE DEF l2
    <3>6. fill <= l.total_volume - n /\ (~ call.last => fill = l.total_volume - n)
      BY <1>6, <3>1
    <3> QED BY <1>1, <3>3, <3>4, <3>5, <3>6
  <2>4. fill # 0 => Reaches'
    BY <1>6, <1>13, <2>1, <2>3 DEF Reaches
  <2> HIDE DEF fill, head
  <2> QED BY <1>13, <1>15, <1>16, <1>17, <2>1, <2>2, <2>3, <2>4 DEF CallOK
<1>20. /\ executed_orders' \in Seq(Execution)
       /\ TradesOf' = Append(TradesOf, [price |-> p, volume |-> n,
                                        taker |-> call.id, maker |-> x])
  <2> DEFINE e == Executed(x, n)
  <2>1. p \in Price /\ x \in Id /\ call.id \in Id /\ n \in 1..MaxShares /\ orders[x].limit = p
    BY <1>3, <1>4, <1>10 DEF IsHead, Order, Running, n
  <2>2. /\ e \in Execution /\ e.price = p /\ e.volume = n
        /\ e.aggresive_order_id = call.id /\ e.passive_order_id = x
    BY <2>1 DEF Executed, Execution
  <2>3. executed_orders' = Append(executed_orders, e) /\ executed_orders \in Seq(Execution)
    BY <1>7 DEF ArenaInv
  <2> HIDE DEF e
  <2> QED BY <2>2, <2>3, TradeIsAdded
<1>21. ArenaInv'
  BY <1>9, <1>18, <1>19, <1>20 DEF ArenaInv, ShapeOK, IsSide
<1>22. x \in Engine!Makers /\ Engine!First(x)
  <2>1. Against.edge # NIL /\ Reaches /\ call # NIL
        /\ x = Against.limits[Against.edge].head_order
    BY <1>1, <1>2, <1>6 DEF l, p
  <2> QED BY <2>1, HeadIsFirst
<1>23. /\ BookOf[x].shares = n /\ BookOf[x].price = p /\ x \in DOMAIN BookOf
       /\ n \in Nat
  BY <1>3, <1>10 DEF BookOf, IsHead, n
<1>24. Engine!Volume(x) = n
  BY <1>1, <1>6, <1>23 DEF Engine!Volume
<1>25. Engine!Withdraw(x)
  <2>1. BookOf' = Engine!Without(BookOf, x)
    <3>1. DOMAIN BookOf = Resting
      BY DEF BookOf
    <3> QED BY <1>10, <1>11, <1>17, <3>1 DEF BookOf, Engine!Without
  <2>2. AheadOf' = [o \in DOMAIN AheadOf \ {x} |-> AheadOf[o] \ {x}]
    BY <1>18, PlacesAreDefined
  <2> QED BY <2>1, <2>2 DEF Engine!Withdraw
<1>26. TakerOf' = [TakerOf EXCEPT !.left = TakerOf.left - n] /\ TakerOf.left > 0
  <2> DEFINE r == IF call.last THEN fill ELSE call.shares + fill
  <2>1. r = TakerOf.left - n /\ TakerOf.left > 0
    BY <1>4, <1>6, <1>23, SharesAreNaturals DEF Running
  <2>2. TakerOf' = [id |-> call.id, side |-> call.side, price |-> call.price, left |-> r]
    <3> HIDE DEF fill
    <3> QED BY <1>13, <1>16 DEF TakerOf
  <2> HIDE DEF r
  <2> QED BY <1>4, <2>1, <2>2
<1> QED BY <1>4, <1>20, <1>21, <1>22, <1>23, <1>24, <1>25, <1>26 DEF Engine!Fill, x

(* The end of a call leaves nothing the taker may trade with.              *)
LEMMA NothingInReach ==
  ASSUME ArenaInv, TreesServe, call # NIL, ~ CanTake, call.shares # 0
  PROVE  Engine!Makers = {}
<1>1. /\ TakerOf.side = call.side /\ TakerOf.price = call.price /\ call.side \in Side
      /\ Engine!Other(call.side) = Other(call.side) /\ call.price \in Int
  BY TakerOfCall, PricesAreIntegers DEF Running
<1>2. Against.edge = NIL \/ ~ Reaches
  BY DEF CanTake
<1>3. /\ Against.edge = NIL <=> DOMAIN Against.limits = {}
      /\ Against.edge # NIL => Against.edge \in Int
      /\ \A o \in Resting : orders[o].bid_or_ask = Other(call.side) =>
           /\ orders[o].parent_limit \in DOMAIN Against.limits
           /\ orders[o].parent_limit \in Int
           /\ orders[o].parent_limit = Against.edge
                \/ Outranks(Other(call.side), Against.edge, orders[o].parent_limit)
  BY EdgeOfCall, PricesAreIntegers
<1>4. SUFFICES ASSUME NEW o \in Resting, orders[o].bid_or_ask = Other(call.side),
                      Engine!Crosses(call.side, call.price, orders[o].parent_limit)
               PROVE  FALSE
  BY <1>1 DEF Engine!Makers, BookOf
<1> DEFINE q == orders[o].parent_limit
           e == Against.edge
<1>5. /\ q \in Int /\ e \in Int /\ e # NIL
      /\ q = e \/ Outranks(Other(call.side), e, q)
      /\ Engine!Crosses(call.side, call.price, q)
  BY <1>3, <1>4
<1>6. ~ Engine!Crosses(call.side, call.price, e)
  BY <1>2, <1>5 DEF Reaches, Engine!Crosses
<1> HIDE DEF q, e
<1> QED BY <1>1, <1>5, <1>6 DEF Engine!Crosses, Outranks, Other, Side

(* A call with nothing left ends.                                          *)
LEMMA DropStep ==
  ASSUME ArenaInv, TreesServe, RestOrDrop, call.shares = 0
  PROVE  ArenaInv' /\ Engine!Finish
<1>1. /\ call # NIL /\ call.in = "taking" /\ call' = NIL
      /\ orders' = Without(orders, call.id) /\ UNCHANGED <<arena, executed_orders>>
  BY DEF RestOrDrop
<1>2. /\ call \in Running /\ call.fill = 0 /\ ~ call.last
      /\ call.id \in DOMAIN orders <=> call.kind = "modify"
  BY <1>1 DEF ArenaInv, CallOK
<1>3. TakerOf # NIL /\ TakerOf.left = 0 /\ TakerOf' = NIL
  <2>1. TakerOf # NIL /\ TakerOf.left = call.shares + call.fill
    BY <1>1, <1>2, TakerOfCall
  <2>2. TakerOf' = NIL
    BY <1>1 DEF TakerOf
  <2> QED BY <1>2, <2>1, <2>2
<1>4. /\ DOMAIN orders' = DOMAIN orders \ {call.id}
      /\ orders' = [o \in DOMAIN orders' |-> orders'[o]]
      /\ \A o \in DOMAIN orders' : orders'[o] = orders[o]
  BY <1>1 DEF Without
<1>5. Resting' = Resting
  BY <1>1, <1>2, <1>4 DEF Resting
<1>6. OrdersOK(orders')
  <2>1. OrdersOK(orders)
    BY DEF ArenaInv, BookOK
  <2>2. IsFiniteSet(DOMAIN orders')
    BY <1>4, <2>1, FS_RemoveElement DEF OrdersOK
  <2> QED BY <1>4, <2>1, <2>2 DEF OrdersOK
<1>7. BookOK(orders, Resting, AheadOf, arena)' /\ BookOf' = BookOf /\ AheadOf' = AheadOf
  <2>1. Resting' = DOMAIN orders'
    BY <1>1 DEF Resting
  <2>2. \A o \in Resting : o \in DOMAIN orders' /\ orders'[o] = orders[o]
    BY <1>4, <1>5, <2>1
  <2> QED BY <1>1, <1>5, <1>6, <2>2, BookIsSeenTheSame
<1>8. ArenaInv'
  BY <1>1, <1>7 DEF ArenaInv, CallOK, ShapeOK, IsSide
<1>9. TradesOf' = TradesOf
  BY <1>1 DEF TradesOf
<1> QED BY <1>3, <1>7, <1>8, <1>9 DEF Engine!Finish, Engine!Matched

LEMMA AdditionKeepsShape ==
  ASSUME NEW b, IsSide(b), NEW side, NEW p, NEW l
  PROVE  IsSide(AddLimitTo(b, side, p, l))
<1> DEFINE m      == [q \in DOMAIN b.limits \cup {p} |-> IF q = p THEN l ELSE b.limits[q]]
           better == IF b.edge = NIL THEN side = "Bid" ELSE Outranks(side, p, b.edge)
           t0     == InsertRecursive(m, b.tree, p)
           t      == [t0 EXCEPT !.tree = t0.top]
           n      == b.rebalances + t.rot
           c      == AddLimitTo(b, side, p, l)
<1>1. c = IF b.tree = NIL THEN [b EXCEPT !.limits = m, !.tree = p, !.edge = p]
          ELSE [Balance(b, t) EXCEPT !.edge = IF better THEN p ELSE @]
  BY DEF AddLimitTo
<1> HIDE DEF c, m, t, better
<1>2. CASE b.tree = NIL
  <2>1. c = [b EXCEPT !.limits = m, !.tree = p, !.edge = p]
    BY <1>1, <1>2
  <2>2. IsSide(c)
    BY <2>1 DEF IsSide
  <2> QED BY <2>2 DEF c
<1>3. CASE b.tree # NIL
  <2>1. Balance(b, t) = [b EXCEPT !.limits = t.m, !.tree = t.tree, !.rebalances = n]
    BY DEF Balance
  <2> HIDE DEF n
  <2>2. Balance(b, t) = [limits |-> t.m, tree |-> t.tree, edge |-> b.edge, rebalances |-> n]
    BY <2>1 DEF IsSide
  <2>3. c = [limits |-> t.m, tree |-> t.tree, edge |-> IF better THEN p ELSE b.edge,
             rebalances |-> n]
    BY <1>1, <1>3, <2>2
  <2> QED BY <2>3 DEF c, IsSide
<1> QED BY <1>2, <1>3 DEF c

(* What is left of a call rests at the end of the level of its price.      *)
LEMMA RestStep ==
  ASSUME ArenaInv, TreesServe, RestOrDrop, call.shares # 0
  PROVE  ArenaInv' /\ Engine!Finish
<1> DEFINE side  == call.side
           p     == call.price
           x     == call.id
           own   == arena[side]
           order == NewOrder(side, call.shares, p)
           known == [o \in DOMAIN orders \cup {x} |-> IF o = x THEN order ELSE orders[o]]
           level == IF p \in DOMAIN own.limits THEN own ELSE AddLimitTo(own, side, p, NewLimit)
           l     == level.limits[p]
           tail  == l.tail_order
           done  == AppendOrder(level, known, x, p)
           new   == [order EXCEPT !.prev_order = tail, !.parent_limit = p]
           ah2   == [o \in Resting \cup {x} |-> IF o = x THEN At(orders, Resting, side, p)
                                                ELSE AheadOf[o]]
<1>1. /\ call # NIL /\ call.in = "taking" /\ call' = NIL /\ ~ CanTake
      /\ arena' = [arena EXCEPT ![side] = done.side] /\ orders' = done.orders
      /\ UNCHANGED executed_orders
  BY DEF RestOrDrop
<1>2. /\ call \in Running /\ call.fill = 0 /\ ~ call.last
      /\ x \in DOMAIN orders <=> call.kind = "modify"
  BY <1>1 DEF ArenaInv, CallOK
<1>3. /\ side \in Side /\ p \in Price /\ x \in Id /\ call.shares \in 1..MaxShares /\ x # NIL
  BY <1>2, SharesAreNaturals, NilIsNoValue DEF Running
<1>4. /\ BookOK(orders, Resting, AheadOf, arena) /\ OrdersOK(orders) /\ ShapeOK(arena)
      /\ Resting \subseteq DOMAIN orders /\ IsSide(own) /\ x \notin Resting
      /\ DOMAIN orders \cup {x} = Resting \cup {x} /\ x \notin DOMAIN orders \ {x}
  BY <1>1, <1>2, <1>3 DEF ArenaInv, BookOK, ShapeOK, Resting
<1>5. /\ IsSide(level) /\ DOMAIN level.limits = DOMAIN own.limits \cup {p}
      /\ IF p \in DOMAIN own.limits THEN l = own.limits[p] ELSE OnlyLinksMoved(NewLimit, l)
      /\ \A q \in DOMAIN own.limits \ {p} :
           level.limits[q] = own.limits[q] \/ OnlyLinksMoved(own.limits[q], level.limits[q])
  <2>1. CASE p \in DOMAIN own.limits
    BY <1>4, <2>1
  <2>2. CASE p \notin DOMAIN own.limits
    <3>1. level = AddLimitTo(own, side, p, NewLimit)
      BY <2>2
    <3>2. /\ DOMAIN level.limits = DOMAIN own.limits \cup {p}
          /\ OnlyLinksMoved(NewLimit, level.limits[p])
          /\ \A q \in DOMAIN own.limits : OnlyLinksMoved(own.limits[q], level.limits[q])
      <4> HIDE DEF side, p
      <4> QED BY <1>3, <2>2, <3>1 DEF TreesServe
    <3>3. IsSide(level)
      BY <1>4, <3>1, AdditionKeepsShape
    <3> HIDE DEF level
    <3> QED BY <2>2, <3>2, <3>3
  <2> QED BY <2>1, <2>2
<1> HIDE DEF level
<1>6. IsLimit(l) /\ tail \in Id \cup {NIL} /\ (tail # NIL => tail \in Resting)
  <2>1. CASE p \in DOMAIN own.limits
    <3>1. SideOK(orders, Resting, AheadOf, own.limits, side)
      BY <1>3, <1>4 DEF BookOK
    <3>2. LevelOK(orders, At(orders, Resting, side, p), AheadOf, l)
      BY <1>5, <2>1, <3>1 DEF SideOK
    <3> HIDE DEF l
    <3>3. IsLimit(l) /\ l.tail_order \in At(orders, Resting, side, p)
      BY <3>2 DEF LevelOK, Chained
    <3> QED BY <1>4, <3>3 DEF At, OrdersOK
  <2>2. CASE p \notin DOMAIN own.limits
    <3>1. OnlyLinksMoved(NewLimit, l)
      BY <1>5, <2>2
    <3> HIDE DEF l
    <3>2. IsLimit(l) /\ l.tail_order = NIL
      BY <3>1 DEF OnlyLinksMoved, NewLimit, IsLimit
    <3> QED BY <3>2
  <2> QED BY <2>1, <2>2
<1>7. /\ done.side = [level EXCEPT !.limits[p] =
                        [l EXCEPT !.head_order   = IF @ = NIL THEN x ELSE @,
                                  !.tail_order   = x,
                                  !.size         = @ + 1,
                                  !.total_volume = @ + known[x].shares]]
      /\ done.orders = [o \in DOMAIN known |->
                          IF o = x THEN [known[o] EXCEPT !.prev_order = tail,
                                                         !.parent_limit = p]
                          ELSE IF o = tail THEN [known[o] EXCEPT !.next_order = x]
                          ELSE known[o]]
  <2> HIDE DEF known, x, p
  <2> QED BY DEF AppendOrder
<1>8. /\ DOMAIN known = DOMAIN orders \cup {x} /\ known[x] = order
      /\ \A o \in DOMAIN orders \ {x} : known[o] = orders[o]
  BY <1>4
<1>9. /\ order.shares = call.shares /\ new \in Order
      /\ new.bid_or_ask = side /\ new.parent_limit = p /\ new.limit = p
      /\ new.shares = call.shares /\ new.prev_order = tail /\ new.next_order = NIL
  <2> HIDE DEF tail, side, p, x
  <2> QED BY <1>3, <1>6 DEF NewOrder, Order
<1> HIDE DEF known, side, p, x, own, l, tail, order
<1>10. /\ DOMAIN orders' = DOMAIN orders \cup {x}
       /\ orders' = [o \in DOMAIN orders' |-> orders'[o]]
       /\ orders'[x] = new
       /\ \A o \in DOMAIN orders \ {x} :
            /\ orders'[o] \in Order /\ orders'[o].parent_limit = orders'[o].limit
            /\ orders'[o].bid_or_ask = orders[o].bid_or_ask
            /\ orders'[o].parent_limit = orders[o].parent_limit
            /\ orders'[o].shares = orders[o].shares
            /\ orders'[o].prev_order = orders[o].prev_order
            /\ orders'[o].next_order = IF o = tail THEN x ELSE orders[o].next_order
  <2> HIDE DEF done
  <2>1. /\ DOMAIN orders' = DOMAIN orders \cup {x}
        /\ orders' = [o \in DOMAIN orders' |-> orders'[o]]
        /\ orders'[x] = new
    BY <1>1, <1>7, <1>8
  <2>2. ASSUME NEW o \in DOMAIN orders \ {x}
        PROVE  /\ orders'[o] \in Order /\ orders'[o].parent_limit = orders'[o].limit
               /\ orders'[o].bid_or_ask = orders[o].bid_or_ask
               /\ orders'[o].parent_limit = orders[o].parent_limit
               /\ orders'[o].shares = orders[o].shares
               /\ orders'[o].prev_order = orders[o].prev_order
               /\ orders'[o].next_order = IF o = tail THEN x ELSE orders[o].next_order
    <3>1. orders[o] \in Order /\ orders[o].parent_limit = orders[o].limit
      BY <1>4 DEF OrdersOK
    <3>2. CASE o = tail
      <4>1. orders'[o] = [orders[o] EXCEPT !.next_order = x]
        BY <1>1, <1>7, <1>8, <3>2
      <4> QED BY <1>3, <3>1, <3>2, <4>1 DEF Order
    <3>3. CASE o # tail
      <4>1. orders'[o] = orders[o]
        BY <1>1, <1>7, <1>8, <3>3
      <4> QED BY <3>1, <3>3, <4>1
    <3> QED BY <3>2, <3>3
  <2> QED BY <2>1, <2>2
<1> HIDE DEF new
<1>11. OrdersOK(orders')
  <2>1. IsFiniteSet(DOMAIN orders')
    BY <1>4, <1>10, FS_AddElement DEF OrdersOK
  <2>2. \A o \in DOMAIN orders' : orders'[o] \in Order /\ orders'[o].parent_limit = orders'[o].limit
    BY <1>9, <1>10
  <2> QED BY <1>3, <1>4, <1>10, <2>1, <2>2 DEF OrdersOK
<1> DEFINE l2 == LevelWith(orders', x, l)
<1>12. /\ IsSide(done.side) /\ done.side.limits = [level.limits EXCEPT ![p] = l2]
  <2> DEFINE h == IF l.head_order = NIL THEN x ELSE l.head_order
             a == l.size + 1
             v == l.total_volume + call.shares
  <2>1. [l EXCEPT !.head_order   = IF @ = NIL THEN x ELSE @,
                  !.tail_order   = x,
                  !.size         = @ + 1,
                  !.total_volume = @ + known[x].shares] = l2
    <3>1. [l EXCEPT !.head_order   = IF @ = NIL THEN x ELSE @,
                    !.tail_order   = x,
                    !.size         = @ + 1,
                    !.total_volume = @ + known[x].shares]
            = [l EXCEPT !.head_order = h, !.tail_order = x, !.size = a, !.total_volume = v]
      BY <1>6, <1>8, <1>9 DEF IsLimit
    <3>2. l2 = [l EXCEPT !.size = a, !.total_volume = v, !.head_order = h, !.tail_order = x]
      BY <1>9, <1>10 DEF LevelWith
    <3> HIDE DEF h, a, v, l2
    <3> QED BY <1>6, <3>1, <3>2 DEF IsLimit
  <2> HIDE DEF l2
  <2>2. done.side = [level EXCEPT !.limits = [level.limits EXCEPT ![p] = l2]]
    BY <1>7, <2>1
  <2> HIDE DEF done
  <2> QED BY <1>5, <2>2 DEF IsSide
<1> HIDE DEF done
<1>13. /\ ShapeOK(arena') /\ arena'[side] = done.side
       /\ \A t \in Side \ {side} : arena'[t].limits = arena[t].limits
  BY <1>1, <1>3, <1>4, <1>12 DEF ShapeOK
<1>14. BookOK(orders', Resting \cup {x}, ah2, arena')
  <2>1. LevelToJoin(arena, side, p, l)
    BY <1>5 DEF own, LevelToJoin
  <2>2. /\ orders'[x].bid_or_ask = side /\ orders'[x].parent_limit = p
        /\ ComesLast(orders, Resting, ah2, side, p, l, x, orders') /\ x \in DOMAIN orders'
    BY <1>9, <1>10 DEF tail, ComesLast
  <2>3. SamePlaces(orders, Resting, orders')
    BY <1>4, <1>10 DEF SamePlaces
  <2>4. QueueWith(orders, AheadOf, Resting, x, l.tail_order, orders', ah2)
    BY <1>4, <1>10 DEF QueueWith, tail
  <2>5. LevelAdded(arena[side].limits, arena'[side].limits, p, LevelWith(orders', x, l))
    <3> HIDE DEF l2
    <3>1. /\ DOMAIN done.side.limits = DOMAIN own.limits \cup {p} /\ done.side.limits[p] = l2
          /\ \A q \in DOMAIN own.limits \ {p} : done.side.limits[q] = level.limits[q]
      BY <1>5, <1>12
    <3> QED BY <1>5, <1>13, <3>1 DEF LevelAdded, own, l2
  <2> HIDE DEF ah2, l2
  <2> QED BY <1>3, <1>4, <1>11, <1>13, <2>1, <2>2, <2>3, <2>4, <2>5, BookAppend
<1>15. Resting' = Resting \cup {x}
  BY <1>1, <1>4, <1>10 DEF Resting
<1>16. AheadOf' = ah2 /\ BookOK(orders, Resting, AheadOf, arena)'
  <2>1. ah2 = [o \in Resting' |-> ah2[o]] /\ BookOK(orders', Resting', ah2, arena')
    BY <1>14, <1>15
  <2> HIDE DEF ah2
  <2> QED BY <2>1, NextPlaces
<1>17. ArenaInv'
  BY <1>1, <1>13, <1>16 DEF ArenaInv, CallOK, ShapeOK, IsSide
<1>18. /\ TakerOf # NIL /\ TakerOf' = NIL
       /\ TakerOf.id = x /\ TakerOf.side = side /\ TakerOf.price = p
       /\ TakerOf.left = call.shares
  <2>1. /\ TakerOf # NIL /\ TakerOf.id = x /\ TakerOf.side = side /\ TakerOf.price = p
        /\ TakerOf.left = call.shares + call.fill
    BY <1>1, <1>2, TakerOfCall DEF x, side, p
  <2>2. TakerOf' = NIL
    BY <1>1 DEF TakerOf
  <2>3. call.shares + call.fill = call.shares
    BY <1>2, <1>3
  <2> QED BY <2>1, <2>2, <2>3
<1>19. Engine!Matched
  BY <1>1, NothingInReach DEF Engine!Matched
<1>20. BookOf' = [o \in DOMAIN BookOf \cup {x} |->
                    IF o = x THEN [side |-> side, price |-> p, shares |-> call.shares]
                    ELSE BookOf[o]]
  <2>1. DOMAIN BookOf = Resting
    BY DEF BookOf
  <2>2. \A o \in Resting : o # x /\ o \in DOMAIN orders \ {x}
    BY <1>4
  <2> QED BY <1>9, <1>10, <1>15, <2>1, <2>2 DEF BookOf
<1>21. AheadOf' = Engine!Joined
  <2>1. At(orders, Resting, side, p) = Engine!Level(side, p)
    BY DEF At, Engine!Level, BookOf
  <2>2. DOMAIN AheadOf = Resting
    BY PlacesAreDefined
  <2> QED BY <1>16, <1>18, <2>1, <2>2 DEF Engine!Joined
<1>22. TradesOf' = TradesOf
  BY <1>1 DEF TradesOf
<1>23. TakerOf.left # 0
  BY <1>3, <1>18, SharesAreNaturals
<1> QED BY <1>17, <1>18, <1>19, <1>20, <1>21, <1>22, <1>23 DEF Engine!Finish

-----------------------------------------------------------------------------
(* The engine as a whole. *)

LEMMA ArenaStart ==
  ASSUME Init
  PROVE  ArenaInv /\ Engine!Init
<1> USE DEF Init
<1>1. /\ DOMAIN orders = {} /\ Resting = {} /\ call = NIL
      /\ executed_orders = << >> /\ executed_orders \in Seq(Execution)
  BY DEF Resting
<1>2. OrdersOK(orders)
  BY <1>1, FS_EmptySet DEF OrdersOK
<1>3. ShapeOK(arena) /\ \A side \in Side : DOMAIN arena[side].limits = {}
  BY DEF ShapeOK, IsSide, EmptySide
<1>4. BookOK(orders, Resting, AheadOf, arena)
  BY <1>1, <1>2, <1>3 DEF BookOK, SideOK, At
<1>5. ArenaInv
  BY <1>1, <1>3, <1>4 DEF ArenaInv, CallOK
<1>6. AheadOf = << >>
  <2>1. AheadOf = [o \in {} |-> AheadOf[o]]
    BY <1>1, <1>5, PlacesAreDefined
  <2> QED BY <2>1
<1>7. BookOf = << >> /\ TakerOf = NIL /\ TradesOf = << >>
  BY <1>1 DEF BookOf, TakerOf, TradesOf
<1> QED BY <1>5, <1>6, <1>7 DEF Engine!Init

LEMMA ArenaStep ==
  ASSUME ArenaInv, TreesServe, TreesServe', [Next]_vars
  PROVE  ArenaInv' /\ [Engine!Next]_Engine!vars
<1>1. CASE UNCHANGED vars
  <2>1. UNCHANGED <<Resting, BookOf, TakerOf, TradesOf, AheadOf>>
    BY <1>1 DEF vars, Resting, BookOf, TakerOf, TradesOf, AheadOf
  <2>2. ArenaInv'
    BY <1>1, <2>1 DEF ArenaInv, vars, CallOK, Against, Reaches, ShapeOK, IsSide,
                      BookOK, SideOK, OrdersOK, LevelOK, At
  <2> QED BY <2>1, <2>2 DEF Engine!vars
<1>2. ASSUME NEW id \in Id, NEW shares \in 0..MaxShares, NEW price \in Price,
             NEW side \in Side, AddLimitOrder(id, side, shares, price)
      PROVE  ArenaInv' /\ Engine!Next
  <2>1. ArenaInv' /\ Engine!Add(id, side, price, shares)
    BY <1>2, AddStep
  <2> QED BY <2>1 DEF Engine!Next, Engine!Call, Engine!Sides, Side
<1>3. ASSUME NEW id \in Id, NEW shares \in 0..MaxShares, NEW price \in Price,
             ModifyLimitOrder(id, shares, price)
      PROVE  ArenaInv' /\ Engine!Next
  <2>1. ArenaInv' /\ Engine!Modify(id, price, shares)
    BY <1>3, ModifyStep
  <2> QED BY <2>1 DEF Engine!Next, Engine!Call
<1>4. ASSUME NEW id \in Id, CancelLimitOrder(id)
      PROVE  ArenaInv' /\ Engine!Next
  <2>1. ArenaInv' /\ Engine!Cancel(id)
    BY <1>4, CancelStep
  <2> QED BY <2>1 DEF Engine!Next, Engine!Call
<1>5. ASSUME NEW id \in Id, UnknownOrder(id)
      PROVE  ArenaInv' /\ Engine!Next
  <2>1. ArenaInv' /\ Engine!Ignore(id)
    BY <1>5, UnknownStep
  <2> QED BY <2>1 DEF Engine!Next, Engine!Call
<1>6. CASE TakeLevel
  BY <1>6, TakeLevelStep
<1>7. CASE ExecuteHead
  <2>1. ArenaInv' /\ Engine!Fill(call.head)
    BY <1>7, ExecuteStep
  <2>2. call.head \in Id
    <3>1. call.head \in Engine!Makers /\ DOMAIN BookOf = Resting
      BY <2>1 DEF Engine!Fill, BookOf
    <3> QED BY <3>1 DEF Engine!Makers, ArenaInv, BookOK, OrdersOK
  <2> QED BY <2>1, <2>2 DEF Engine!Next, Engine!Match
<1>8. CASE LeaveHelper
  <2>1. CASE Against.edge # NIL /\ call.fill # 0
    <3>1. ArenaInv' /\ Engine!Fill(call.head)
      BY <1>8, <2>1, PartOfHeadStep
    <3>2. call.head \in Id
      <4>1. call.head \in Engine!Makers /\ DOMAIN BookOf = Resting
        BY <3>1 DEF Engine!Fill, BookOf
      <4> QED BY <4>1 DEF Engine!Makers, ArenaInv, BookOK, OrdersOK
    <3> QED BY <3>1, <3>2 DEF Engine!Next, Engine!Match
  <2>2. CASE ~ (Against.edge # NIL /\ call.fill # 0)
    BY <1>8, <2>2, LeaveStep
  <2> QED BY <2>1, <2>2
<1>9. CASE RestOrDrop
  <2>1. ArenaInv' /\ Engine!Finish
    BY <1>9, DropStep, RestStep
  <2> QED BY <2>1 DEF Engine!Next, Engine!Match
<1> QED BY <1>1, <1>2, <1>3, <1>4, <1>5, <1>6, <1>7, <1>8, <1>9 DEF Next, Call, Run

-----------------------------------------------------------------------------
(* The trees. *)

(* Both sides are in good order: search trees with the best price at the   *)
(* edge.                                                                   *)
TreesInOrder == \A side \in Side : GoodSide(arena[side], side)

LEMMA NewLimitIsNode ==
  /\ IsNode(NewLimit)
  /\ NewLimit.parent = NIL /\ NewLimit.left = NIL /\ NewLimit.right = NIL
<1> DEFINE l == NewLimit
<1>1. /\ l = [x \in DOMAIN l |-> l[x]] /\ Fields \subseteq DOMAIN l /\ l.height = 1
      /\ l.parent = NIL /\ l.left = NIL /\ l.right = NIL
  BY DEF NewLimit, Fields
<1> HIDE DEF l
<1>2. IsNode(l) /\ l.parent = NIL /\ l.left = NIL /\ l.right = NIL
  BY <1>1 DEF IsNode
<1> QED BY <1>2 DEF l

(* Trees in order serve, as far as their removals are of a bushy tree.     *)
LEMMA OrderServes ==
  ASSUME TreesInOrder, BushyTrees
  PROVE  TreesServe
<1> SUFFICES ASSUME NEW side \in Side
             PROVE  LET b    == arena[side]
                        live == DOMAIN b.limits
                    IN  /\ b.edge = BestOf(side, live)
                        /\ \A p \in Price \ live :
                             LET more == AddLimitTo(b, side, p, NewLimit).limits
                             IN  /\ DOMAIN more = live \cup {p}
                                 /\ OnlyLinksMoved(NewLimit, more[p])
                                 /\ \A q \in live : OnlyLinksMoved(b.limits[q], more[q])
                        /\ \A p \in live :
                             LET less == DeleteLimitFrom(b, side, p).limits
                             IN  /\ DOMAIN less = live \ {p}
                                 /\ \A q \in live \ {p} : OnlyLinksMoved(b.limits[q], less[q])
  BY DEF TreesServe
<1> DEFINE b    == arena[side]
           live == DOMAIN b.limits
<1>1. GoodSide(b, side) /\ Bushy(b.limits)
  BY DEF TreesInOrder, BushyTrees
<1>2. b.edge = BestOf(side, live)
  <2>1. CASE live = {}
    BY <1>1, <2>1 DEF GoodSide, BestOf
  <2>2. CASE live # {}
    <3>1. IsBest(side, live, b.edge) /\ live \subseteq Int
      BY <1>1, <2>2, PricesAreIntegers DEF GoodSide, IsTree
    <3> QED BY <3>1, BestIs
  <2> QED BY <2>1, <2>2
<1> HIDE DEF b
<1>3. ASSUME NEW p \in Price \ live
      PROVE  LET more == AddLimitTo(b, side, p, NewLimit).limits
             IN  /\ DOMAIN more = live \cup {p}
                 /\ OnlyLinksMoved(NewLimit, more[p])
                 /\ \A q \in live : OnlyLinksMoved(b.limits[q], more[q])
  BY <1>1, NewLimitIsNode, AddKeepsSide
<1>4. ASSUME NEW p \in live
      PROVE  LET less == DeleteLimitFrom(b, side, p).limits
             IN  /\ DOMAIN less = live \ {p}
                 /\ \A q \in live \ {p} : OnlyLinksMoved(b.limits[q], less[q])
  BY <1>1, DeleteKeepsSide
<1> QED BY <1>2, <1>3, <1>4, Zenon DEF b

(* A level gives up an order, and goes if it was the last one there.       *)
LEMMA ReleaseKeepsSide ==
  ASSUME NEW side \in Side, NEW b, GoodSide(b, side), Bushy(b.limits),
         NEW p \in DOMAIN b.limits, NEW n
  PROVE  GoodSide(Release(side, b, p, n), side)
<1> DEFINE l    == b.limits[p]
           l2   == [l EXCEPT !.total_volume = @ - n, !.size = @ - 1]
           less == [b EXCEPT !.limits = [b.limits EXCEPT ![p] = l2]]
<1>1. IsNode(l)
  BY DEF GoodSide, IsArena
<1>2. IsNode(l2) /\ \A g \in Fields : l2[g] = l[g]
  <2> HIDE DEF l
  <2> QED BY <1>1 DEF IsNode, Fields
<1>3. Release(side, b, p, n) = IF less.limits[p].size = 0 THEN DeleteLimitFrom(less, side, p)
                               ELSE less
  BY DEF Release
<1> HIDE DEF l2
<1>4. GoodSide(less, side) /\ DOMAIN less.limits = DOMAIN b.limits /\ Bushy(less.limits)
  <2>1. WithLevel(b, less, p, l2)
    BY <1>2 DEF WithLevel
  <2> HIDE DEF less
  <2> QED BY <2>1, LevelKeepsSide
<1> HIDE DEF less
<1>5. GoodSide(DeleteLimitFrom(less, side, p), side)
  BY <1>4, DeleteKeepsSide
<1> QED BY <1>3, <1>4, <1>5

(* The order=>cancel section leaves the trees in order.                    *)
LEMMA UnlinkKeepsTrees ==
  ASSUME ArenaInv, TreesInOrder, BushyTrees, call = NIL, NEW id \in DOMAIN orders
  PROVE  \A side \in Side : GoodSide(Unlink(id).arena[side], side)
<1> DEFINE side   == orders[id].bid_or_ask
           p      == orders[id].parent_limit
           before == orders[id].prev_order
           after  == orders[id].next_order
           f      == Fresh(arena)[side]
           b      == Ends(f, p, before, after)
           c      == Release(side, b, p, orders[id].shares)
<1>1. side \in Side /\ p \in DOMAIN arena[side].limits
  <2>1. BookOK(orders, DOMAIN orders, AheadOf, arena)
    BY DEF ArenaInv, Resting
  <2> QED BY <2>1, PlaceOfOrder
<1>2. Unlink(id).arena = [Fresh(arena) EXCEPT ![side] = c]
  BY DEF Unlink
<1>3. \A s \in Side : /\ GoodSide(Fresh(arena)[s], s)
                      /\ Fresh(arena)[s].limits = arena[s].limits
  BY CountsFromZero DEF Fresh, TreesInOrder
<1>4. DOMAIN Fresh(arena) = Side
  BY DEF Fresh
<1>5. GoodSide(f, side) /\ p \in DOMAIN f.limits /\ Bushy(f.limits)
  BY <1>1, <1>3 DEF BushyTrees
<1> HIDE DEF f, side
<1>6. GoodSide(b, side) /\ DOMAIN b.limits = DOMAIN f.limits /\ Bushy(b.limits)
  <2> DEFINE l  == f.limits[p]
             l2 == [l EXCEPT !.head_order = IF before = NIL THEN after ELSE @,
                             !.tail_order = IF after = NIL THEN before ELSE @]
  <2>1. IsNode(l)
    BY <1>5 DEF GoodSide, IsArena
  <2>2. IsNode(l2) /\ \A g \in Fields : l2[g] = l[g]
    <3> HIDE DEF l, before, after
    <3> QED BY <2>1 DEF IsNode, Fields
  <2>3. b = [f EXCEPT !.limits = [f.limits EXCEPT ![p] = l2]]
    BY DEF Ends
  <2> HIDE DEF b, l2
  <2>4. WithLevel(f, b, p, l2)
    BY <2>2, <2>3 DEF WithLevel
  <2> QED BY <1>5, <2>4, LevelKeepsSide
<1> HIDE DEF b, p
<1>7. GoodSide(c, side)
  BY <1>1, <1>5, <1>6, ReleaseKeepsSide
<1> HIDE DEF c
<1> QED BY <1>2, <1>3, <1>4, <1>7

(* The level of the head order, wherever a running call has it.            *)
LEMMA PlaceOfHead ==
  ASSUME ArenaInv, TreesServe, call # NIL, call.in = "helper", Against.edge # NIL
  PROVE  /\ Other(call.side) \in Side
         /\ orders[call.head].parent_limit \in DOMAIN arena[Other(call.side)].limits
<1>1. call.head = Against.limits[Against.edge].head_order
  BY DEF ArenaInv, CallOK
<1>2. IsHead(orders, Resting, AheadOf, Other(call.side), Against.edge,
             Against.limits[Against.edge], call.head)
  BY <1>1, HeadOfCall
<1>3. orders[call.head].parent_limit = Against.edge
  BY <1>2 DEF IsHead
<1>4. Against.edge \in DOMAIN Against.limits
  BY EdgeOfCall
<1> QED BY <1>3, <1>4 DEF Against, Other, Side

(* Every step of every call leaves the trees in order.                     *)
LEMMA TreesStep ==
  ASSUME ArenaInv, TreesInOrder, BushyTrees, [Next]_vars
  PROVE  TreesInOrder'
<1>1. TreesServe
  BY OrderServes
<1>2. ASSUME UNCHANGED arena PROVE TreesInOrder'
  BY <1>2 DEF TreesInOrder
<1>3. ASSUME arena' = Fresh(arena) PROVE TreesInOrder'
  BY <1>3, CountsFromZero DEF TreesInOrder, Fresh
<1>4. ASSUME NEW id \in DOMAIN orders, call = NIL, arena' = Unlink(id).arena
      PROVE  TreesInOrder'
  BY <1>4, UnlinkKeepsTrees DEF TreesInOrder
<1>5. ASSUME NEW side \in Side, NEW b, GoodSide(b, side), arena' = [arena EXCEPT ![side] = b]
      PROVE  TreesInOrder'
  BY <1>5 DEF TreesInOrder, ArenaInv, ShapeOK
<1>6. CASE UNCHANGED vars
  BY <1>2, <1>6 DEF vars
<1>7. CASE Call
  <2>1. PICK id \in Id :
          \/ \E shares \in 0..MaxShares, price \in Price :
               \/ \E side \in Side : AddLimitOrder(id, side, shares, price)
               \/ ModifyLimitOrder(id, shares, price)
          \/ CancelLimitOrder(id)
          \/ UnknownOrder(id)
    BY <1>7 DEF Call
  <2>2. CASE \E shares \in 0..MaxShares, price \in Price, side \in Side :
               AddLimitOrder(id, side, shares, price)
    BY <1>3, <2>2 DEF AddLimitOrder
  <2>3. CASE \E shares \in 0..MaxShares, price \in Price : ModifyLimitOrder(id, shares, price)
    BY <1>4, <2>3 DEF ModifyLimitOrder
  <2>4. CASE CancelLimitOrder(id)
    BY <1>4, <2>4 DEF CancelLimitOrder
  <2>5. CASE UnknownOrder(id)
    BY <1>3, <2>5 DEF UnknownOrder
  <2> QED BY <2>1, <2>2, <2>3, <2>4, <2>5
<1>8. CASE TakeLevel
  BY <1>2, <1>8 DEF TakeLevel
<1>9. CASE ExecuteHead
  <2> DEFINE side   == Other(call.side)
             order  == orders[call.head]
             p      == order.parent_limit
             own    == arena[side]
             l      == own.limits[p]
             next   == order.next_order
             l2     == [l EXCEPT !.head_order = next,
                                 !.tail_order = IF next = NIL THEN NIL ELSE @]
             popped == [own EXCEPT !.limits = [own.limits EXCEPT ![p] = l2]]
             left   == Release(side, popped, p, order.shares)
  <2>1. side \in Side /\ p \in DOMAIN own.limits
    BY <1>1, <1>9, PlaceOfHead DEF ExecuteHead, CanExecute
  <2>2. GoodSide(own, side) /\ Bushy(own.limits)
    BY <2>1 DEF TreesInOrder, BushyTrees
  <2>3. arena' = [arena EXCEPT ![side] = left]
    BY <1>9 DEF ExecuteHead, Against
  <2> HIDE DEF side, own, p, next
  <2>4. IsNode(l2) /\ \A g \in Fields : l2[g] = l[g]
    <3>1. IsNode(l)
      BY <2>1, <2>2 DEF GoodSide, IsArena
    <3> HIDE DEF l
    <3> QED BY <3>1 DEF IsNode, Fields
  <2> HIDE DEF l2
  <2>5. GoodSide(popped, side) /\ p \in DOMAIN popped.limits /\ Bushy(popped.limits)
    <3>1. WithLevel(own, popped, p, l2)
      BY <2>4 DEF WithLevel
    <3> HIDE DEF popped
    <3> QED BY <2>1, <2>2, <3>1, LevelKeepsSide
  <2> HIDE DEF popped
  <2>6. GoodSide(left, side)
    BY <2>1, <2>5, ReleaseKeepsSide
  <2> HIDE DEF left
  <2> QED BY <1>5, <2>1, <2>3, <2>6
<1>10. CASE LeaveHelper
  <2>1. CASE ~ (Against.edge # NIL /\ call.fill # 0)
    BY <1>2, <1>10, <2>1 DEF LeaveHelper
  <2>2. CASE Against.edge # NIL /\ call.fill # 0
    <3> DEFINE side == Other(call.side)
               p    == orders[call.head].parent_limit
               n    == call.fill
               own  == arena[side]
               l    == own.limits[p]
               l2   == [l EXCEPT !.total_volume = @ - n]
               b    == [own EXCEPT !.limits = [own.limits EXCEPT ![p] = l2]]
    <3>1. side \in Side /\ p \in DOMAIN own.limits
      BY <1>1, <1>10, <2>2, PlaceOfHead DEF LeaveHelper
    <3>2. GoodSide(own, side)
      BY <3>1 DEF TreesInOrder
    <3>3. arena' = [arena EXCEPT ![side] = b]
      <4>1. arena' = [arena EXCEPT ![side].limits[p] = l2]
        BY <1>10, <2>2 DEF LeaveHelper, Against
      <4> HIDE DEF side, p, l2
      <4> QED BY <4>1
    <3> HIDE DEF side, own, p
    <3>4. IsNode(l2) /\ \A g \in Fields : l2[g] = l[g]
      <4>1. IsNode(l)
        BY <3>1, <3>2 DEF GoodSide, IsArena
      <4> HIDE DEF l
      <4> QED BY <4>1 DEF IsNode, Fields
    <3> HIDE DEF l2
    <3>5. GoodSide(b, side)
      <4>1. WithLevel(own, b, p, l2)
        BY <3>4 DEF WithLevel
      <4> HIDE DEF b
      <4> QED BY <3>1, <3>2, <4>1, LevelKeepsSide
    <3> HIDE DEF b
    <3> QED BY <1>5, <3>1, <3>3, <3>5
  <2> QED BY <2>1, <2>2
<1>11. CASE RestOrDrop
  <2>1. CASE call.shares = 0
    BY <1>2, <1>11, <2>1 DEF RestOrDrop
  <2>2. CASE call.shares # 0
    <3> DEFINE side  == call.side
               p     == call.price
               own   == arena[side]
               order == NewOrder(side, call.shares, p)
               known == [o \in DOMAIN orders \cup {call.id} |->
                           IF o = call.id THEN order ELSE orders[o]]
               level == IF p \in DOMAIN own.limits THEN own
                        ELSE AddLimitTo(own, side, p, NewLimit)
               l     == level.limits[p]
               n     == known[call.id].shares
               l2    == [l EXCEPT !.head_order   = IF @ = NIL THEN call.id ELSE @,
                                  !.tail_order   = call.id,
                                  !.size         = @ + 1,
                                  !.total_volume = @ + n]
               b     == [level EXCEPT !.limits = [level.limits EXCEPT ![p] = l2]]
    <3>1. side \in Side /\ p \in Price
      BY <1>11 DEF RestOrDrop, ArenaInv, CallOK, Running
    <3>2. arena' = [arena EXCEPT ![side] = b]
      <4>1. arena' = [arena EXCEPT ![side] = AppendOrder(level, known, call.id, p).side]
        BY <1>11, <2>2 DEF RestOrDrop
      <4> HIDE DEF side, p, level, known
      <4>2. AppendOrder(level, known, call.id, p).side = b
        BY DEF AppendOrder
      <4> QED BY <4>1, <4>2
    <3>3. GoodSide(own, side)
      BY <3>1 DEF TreesInOrder
    <3> HIDE DEF side, own, p, n
    <3>4. GoodSide(level, side) /\ p \in DOMAIN level.limits
      <4>1. CASE p \in DOMAIN own.limits
        BY <3>3, <4>1
      <4>2. CASE p \notin DOMAIN own.limits
        BY <3>1, <3>3, <4>2, NewLimitIsNode, AddKeepsSide
      <4> QED BY <4>1, <4>2
    <3> HIDE DEF level
    <3>5. IsNode(l2) /\ \A g \in Fields : l2[g] = l[g]
      <4>1. IsNode(l)
        BY <3>4 DEF GoodSide, IsArena
      <4> HIDE DEF l
      <4> QED BY <4>1 DEF IsNode, Fields
    <3> HIDE DEF l2
    <3>6. GoodSide(b, side)
      <4>1. WithLevel(level, b, p, l2)
        BY <3>5 DEF WithLevel
      <4> HIDE DEF b
      <4> QED BY <3>4, <4>1, LevelKeepsSide
    <3> HIDE DEF b
    <3> QED BY <1>5, <3>1, <3>2, <3>6
  <2> QED BY <2>1, <2>2
<1> QED BY <1>6, <1>7, <1>8, <1>9, <1>10, <1>11 DEF Next, Run

LEMMA TreesStart ==
  ASSUME Init
  PROVE  TreesInOrder
BY EmptySideIsSide DEF Init, TreesInOrder

(* Every tree the engine builds serves it, for as long as an only child is *)
(* a leaf in both: the rotations, the removal of a level and the search    *)
(* for the next best price do what the queues rely on.                     *)
THEOREM TreesAlwaysServe == Spec /\ []BushyTrees => []TreesServe
<1>1. Init => ArenaInv /\ TreesInOrder
  BY ArenaStart, TreesStart
<1>2. TreesInOrder /\ BushyTrees => TreesServe
  BY OrderServes
<1>3. ArenaInv /\ TreesInOrder /\ BushyTrees /\ [Next]_vars => TreesInOrder'
  BY TreesStep
<1>4. ArenaInv /\ TreesServe /\ TreesServe' /\ [Next]_vars => ArenaInv'
  BY ArenaStep
<1> QED BY <1>1, <1>2, <1>3, <1>4, PTL DEF Spec

-----------------------------------------------------------------------------
(* What the engine keeps. *)

(* As long as an only child is a leaf in both trees, the engine is          *)
(* price-time priority matching: every step of orderbook.rs, whatever the   *)
(* ids, the prices and the shares, is a step MatchingEngine allows or one   *)
(* it does not see.                                                         *)
THEOREM EngineIsPriceTimePriority == Spec /\ []BushyTrees => ImplementsMatchingEngine
<1>1. Init => ArenaInv /\ Engine!Init
  BY ArenaStart
<1>2. ArenaInv /\ TreesServe /\ TreesServe' /\ [Next]_vars
        => ArenaInv' /\ [Engine!Next]_Engine!vars
  BY ArenaStep
<1> QED BY <1>1, <1>2, TreesAlwaysServe, PTL DEF Spec, ImplementsMatchingEngine, Engine!Spec

LEMMA LevelsAgree ==
  ASSUME ArenaInv
  PROVE  LevelsAgreeWithOrders
<1> SUFFICES ASSUME NEW side \in Side
             PROVE  LET limits == arena[side].limits
                    IN  /\ DOMAIN limits = {orders[o].parent_limit :
                                              o \in {o \in Resting : orders[o].bid_or_ask = side}}
                        /\ \A p \in DOMAIN limits :
                             LET level == limits[p]
                                 queue == Queued(side, p)
                                 next(o) == orders[o].next_order
                                 prev(o) == orders[o].prev_order
                             IN  /\ level.size = Cardinality(queue)
                                 /\ level.total_volume
                                      = MapThenSumSet(LAMBDA o : SharesIn(orders)[o], queue)
                                 /\ {level.head_order, level.tail_order} \subseteq queue
                                 /\ \A o \in queue :
                                      /\ prev(o) = NIL <=> o = level.head_order
                                      /\ next(o) = NIL <=> o = level.tail_order
                                      /\ next(o) # NIL => next(o) \in queue /\ prev(next(o)) = o
                                      /\ prev(o) # NIL => prev(o) \in queue /\ next(prev(o)) = o
  BY DEF LevelsAgreeWithOrders
<1>1. /\ SideOK(orders, Resting, AheadOf, arena[side].limits, side)
      /\ BookOK(orders, Resting, AheadOf, arena)
  BY DEF ArenaInv, BookOK
<1>2. DOMAIN arena[side].limits = {orders[o].parent_limit :
                                     o \in {o \in Resting : orders[o].bid_or_ask = side}}
  <2>1. \A o \in Resting : orders[o].bid_or_ask = side
          => orders[o].parent_limit \in DOMAIN arena[side].limits
    BY <1>1, PlaceOfOrder
  <2> QED BY <1>1, <2>1 DEF SideOK, At
<1>3. ASSUME NEW p \in DOMAIN arena[side].limits
      PROVE  LET level == arena[side].limits[p]
                 queue == Queued(side, p)
                 next(o) == orders[o].next_order
                 prev(o) == orders[o].prev_order
             IN  /\ level.size = Cardinality(queue)
                 /\ level.total_volume = MapThenSumSet(LAMBDA o : SharesIn(orders)[o], queue)
                 /\ {level.head_order, level.tail_order} \subseteq queue
                 /\ \A o \in queue :
                      /\ prev(o) = NIL <=> o = level.head_order
                      /\ next(o) = NIL <=> o = level.tail_order
                      /\ next(o) # NIL => next(o) \in queue /\ prev(next(o)) = o
                      /\ prev(o) # NIL => prev(o) \in queue /\ next(prev(o)) = o
  <2> DEFINE level == arena[side].limits[p]
             queue == Queued(side, p)
  <2>1. LevelOK(orders, queue, AheadOf, level)
    BY <1>1 DEF SideOK, At, Queued
  <2> HIDE DEF level, queue
  <2>2. level.total_volume = MapThenSumSet(LAMBDA o : SharesIn(orders)[o], queue)
    BY <2>1 DEF LevelOK, SumOver
  <2>3. level.size = Cardinality(queue)
    BY <2>1 DEF LevelOK
  <2>4. Chained(orders, queue, AheadOf, level.head_order, level.tail_order)
    BY <2>1 DEF LevelOK
  <2>5. /\ {level.head_order, level.tail_order} \subseteq queue
        /\ \A o \in queue :
             /\ orders[o].prev_order = NIL <=> o = level.head_order
             /\ orders[o].next_order = NIL <=> o = level.tail_order
             /\ orders[o].next_order # NIL => /\ orders[o].next_order \in queue
                                              /\ orders[orders[o].next_order].prev_order = o
             /\ orders[o].prev_order # NIL => /\ orders[o].prev_order \in queue
                                              /\ orders[orders[o].prev_order].next_order = o
    BY <2>4 DEF Chained
  <2> QED BY <2>2, <2>3, <2>5 DEF level, queue
<1> QED BY <1>2, <1>3

(* As long as an only child is a leaf in both trees, size, volume and the   *)
(* links of every level agree with the orders queued there after every step *)
(* of every call.                                                           *)
THEOREM LevelsAlwaysAgree == Spec /\ []BushyTrees => []LevelsAgreeWithOrders
<1>1. Init => ArenaInv
  BY ArenaStart
<1>2. ArenaInv /\ TreesServe /\ TreesServe' /\ [Next]_vars => ArenaInv'
  BY ArenaStep
<1>3. ArenaInv => LevelsAgreeWithOrders
  BY LevelsAgree
<1> QED BY <1>1, <1>2, <1>3, TreesAlwaysServe, PTL DEF Spec

(* The ids drawn from and the keys of the order map.                       *)
Twins == limit_orders = DOMAIN orders

LEMMA TwinsStep ==
  ASSUME Twins, [Next]_vars
  PROVE  Twins'
<1> USE DEF Twins
<1>1. \A id : DOMAIN Unlink(id).orders = DOMAIN orders
  BY DEF Unlink
<1>2. ASSUME NEW id, NEW side, NEW shares, NEW price, AddLimitOrder(id, side, shares, price)
      PROVE  Twins'
  BY <1>2 DEF AddLimitOrder
<1>3. ASSUME NEW id, NEW shares, NEW price, ModifyLimitOrder(id, shares, price)
      PROVE  Twins'
  BY <1>1, <1>3 DEF ModifyLimitOrder
<1>4. ASSUME NEW id, CancelLimitOrder(id) PROVE Twins'
  <2>1. DOMAIN Without(Unlink(id).orders, id) = DOMAIN orders \ {id}
    BY <1>1 DEF Without
  <2> QED BY <1>4, <2>1 DEF CancelLimitOrder
<1>5. ASSUME NEW id, UnknownOrder(id) PROVE Twins'
  BY <1>5 DEF UnknownOrder
<1>6. CASE TakeLevel
  BY <1>6 DEF TakeLevel
<1>7. CASE ExecuteHead
  BY <1>7 DEF ExecuteHead
<1>8. CASE LeaveHelper
  <2>1. orders' = orders \/ orders' = [orders EXCEPT ![call.head].shares = @ - call.fill]
    BY <1>8 DEF LeaveHelper
  <2>2. DOMAIN orders' = DOMAIN orders
    BY <2>1
  <2> QED BY <1>8, <2>2 DEF LeaveHelper
<1>9. CASE RestOrDrop
  <2>1. CASE call.shares = 0
    BY <1>9, <2>1 DEF RestOrDrop, Without
  <2>2. CASE call.shares # 0
    BY <1>9, <2>2 DEF RestOrDrop, AppendOrder
  <2> QED BY <2>1, <2>2
<1>10. CASE UNCHANGED vars
  BY <1>10 DEF vars
<1> QED BY <1>2, <1>3, <1>4, <1>5, <1>6, <1>7, <1>8, <1>9, <1>10 DEF Next, Call, Run

(* The ids drawn from are the live orders, between calls and during them:   *)
(* every entry and every exit of the one has its twin in the other, and no  *)
(* path through the loops changes only one.                                 *)
THEOREM DrawnIdsAreAlwaysLive == Spec => []DrawnIdsAreLive
<1>1. Init => Twins
  BY DEF Init, Twins
<1>2. Twins /\ [Next]_vars => Twins'
  BY TwinsStep
<1>3. Twins => DrawnIdsAreLive
  BY DEF Twins, DrawnIdsAreLive
<1> QED BY <1>1, <1>2, <1>3, PTL DEF Spec

LEMMA TypesOfArena ==
  ASSUME ArenaInv, Twins
  PROVE  TypeOK
<1>1. BookOK(orders, Resting, AheadOf, arena) /\ OrdersOK(orders) /\ Resting \subseteq DOMAIN orders
  BY DEF ArenaInv, BookOK
<1>2. DOMAIN orders \subseteq Id /\ limit_orders \subseteq DOMAIN orders
  BY <1>1 DEF OrdersOK, Twins
<1>3. \A o \in Resting : /\ orders[o].bid_or_ask \in Side
                         /\ orders[o].shares \in 1..MaxShares
                         /\ orders[o].limit \in Price
                         /\ orders[o].parent_limit = orders[o].limit
  BY <1>1 DEF OrdersOK, Order
<1>4. ASSUME NEW side \in Side, NEW p \in DOMAIN arena[side].limits
      PROVE  arena[side].limits[p].size \in 1..Cardinality(DOMAIN orders)
  <2> DEFINE q == At(orders, Resting, side, p)
             l == arena[side].limits[p]
  <2>1. LevelOK(orders, q, AheadOf, l) /\ q \subseteq DOMAIN orders /\ IsFiniteSet(DOMAIN orders)
    BY <1>1 DEF BookOK, SideOK, At, OrdersOK
  <2> HIDE DEF q, l
  <2>2. l.size = Cardinality(q) /\ q # {}
    BY <2>1 DEF LevelOK, Chained
  <2>3. /\ Cardinality(q) \in Nat /\ Cardinality(q) # 0
        /\ Cardinality(DOMAIN orders) \in Nat /\ Cardinality(q) <= Cardinality(DOMAIN orders)
    BY <2>1, <2>2, FS_Subset, FS_CardinalityType, FS_EmptySet
  <2>4. l.size \in 1..Cardinality(DOMAIN orders)
    BY <2>2, <2>3
  <2> QED BY <2>4 DEF l
<1>5. call \in Running \cup {NIL}
  BY DEF ArenaInv, CallOK
<1> QED BY <1>2, <1>3, <1>4, <1>5 DEF TypeOK

(* As long as an only child is a leaf in both trees, every field keeps its  *)
(* type: no size below 1, no resting order without shares, no order at a    *)
(* price not its own.                                                       *)
THEOREM ArenaTypeCorrect == Spec /\ []BushyTrees => []TypeOK
<1>1. Init => ArenaInv /\ Twins
  BY ArenaStart DEF Init, Twins
<1>2. ArenaInv /\ TreesServe /\ TreesServe' /\ [Next]_vars => ArenaInv'
  BY ArenaStep
<1>3. Twins /\ [Next]_vars => Twins'
  BY TwinsStep
<1>4. ArenaInv /\ Twins => TypeOK
  BY TypesOfArena
<1> QED BY <1>1, <1>2, <1>3, <1>4, TreesAlwaysServe, PTL DEF Spec

LEMMA TradeAtTheEdge ==
  ASSUME ArenaInv, TreesServe, [Next]_vars, Len(executed_orders') = Len(executed_orders) + 1
  PROVE  executed_orders'[Len(executed_orders')].price
           = BestOf(Other(call.side), DOMAIN arena[Other(call.side)].limits)
<1>1. /\ executed_orders \in Seq(Execution) /\ Len(executed_orders) \in Nat
      /\ Len(<< >>) = 0
  BY LenProperties DEF ArenaInv
<1>2. executed_orders' # << >> /\ executed_orders' # executed_orders
  BY <1>1
<1>3. PICK v : /\ call # NIL /\ call.in = "helper" /\ Against.edge # NIL
               /\ executed_orders' = Append(executed_orders, Executed(call.head, v))
  <2>1. CASE ExecuteHead
    BY <2>1 DEF ExecuteHead, CanExecute
  <2>2. CASE LeaveHelper
    BY <1>2, <2>2 DEF LeaveHelper
  <2>3. CASE Call \/ TakeLevel \/ RestOrDrop \/ UNCHANGED vars
    BY <1>2, <2>3 DEF Call, AddLimitOrder, ModifyLimitOrder, CancelLimitOrder, UnknownOrder,
                      TakeLevel, RestOrDrop, vars
  <2> QED BY <2>1, <2>2, <2>3 DEF Next, Run
<1>4. executed_orders'[Len(executed_orders')].price = orders[call.head].limit
  <2> DEFINE e == Executed(call.head, v)
             S == Execution \cup {e}
  <2>1. executed_orders \in Seq(S) /\ e \in S
    BY <1>1
  <2>2. e.price = orders[call.head].limit
    BY DEF Executed
  <2>3. executed_orders' = Append(executed_orders, e)
    BY <1>3
  <2> HIDE DEF e, S
  <2>4. executed_orders'[Len(executed_orders) + 1] = e
    BY <2>1, <2>3, AppendProperties
  <2> QED BY <2>2, <2>4
<1>5. orders[call.head].limit = Against.edge
  <2> DEFINE l == Against.limits[Against.edge]
  <2>1. call.head = l.head_order
    BY <1>3 DEF ArenaInv, CallOK
  <2> HIDE DEF l
  <2>2. IsHead(orders, Resting, AheadOf, Other(call.side), Against.edge, l, l.head_order)
    BY <1>3, HeadOfCall DEF l
  <2> QED BY <2>1, <2>2 DEF IsHead
<1>6. Against.edge = BestOf(Other(call.side), DOMAIN arena[Other(call.side)].limits)
  BY <1>3, TakerOfCall DEF TreesServe, Against
<1> QED BY <1>4, <1>5, <1>6

(* As long as an only child is a leaf in both trees, every trade is at the  *)
(* best price of its side: a tree that loses its edge or a level is the one *)
(* way the code of orderbook.rs has to trade at another price.              *)
THEOREM TradesAtBestPrice == Spec /\ []BushyTrees => PricePriority
<1>1. Init => ArenaInv
  BY ArenaStart
<1>2. ArenaInv /\ TreesServe /\ TreesServe' /\ [Next]_vars => ArenaInv'
  BY ArenaStep
<1>3. ArenaInv /\ TreesServe /\ [Next]_vars
        => [ Len(executed_orders') = Len(executed_orders) + 1
               => LET side == Other(call.side)
                  IN  executed_orders'[Len(executed_orders')].price
                        = BestOf(side, DOMAIN arena[side].limits) ]_vars
  BY TradeAtTheEdge
<1> QED BY <1>1, <1>2, <1>3, TreesAlwaysServe, PTL DEF Spec, PricePriority

-----------------------------------------------------------------------------
(* What is proved of the abstract engine, of the arena. *)

Proved == INSTANCE MatchingEngineProofs WITH
  book <- BookOf, ahead <- AheadOf, taker <- TakerOf, trades <- TradesOf

(* Two instances of one module are one specification.                      *)
LEMMA SameEngine ==
  /\ Engine!Init => Proved!Init
  /\ [Engine!Next]_Engine!vars => [Proved!Next]_Proved!vars
<1>1. Engine!Init => Proved!Init
  BY DEF Engine!Init, Proved!Init
<1>2. /\ \A s \in Side : Engine!Other(s) = Proved!Other(s)
      /\ Engine!Makers = Proved!Makers
      /\ \A m : /\ Engine!First(m) <=> Proved!First(m)
                /\ Engine!Volume(m) = Proved!Volume(m)
                /\ Engine!Withdraw(m) <=> Proved!Withdraw(m)
  BY DEF Engine!Other, Proved!Other, Engine!Makers, Proved!Makers,
         Engine!Crosses, Proved!Crosses, Engine!First, Proved!First,
         Engine!Better, Proved!Better, Engine!Volume, Proved!Volume,
         Engine!Withdraw, Proved!Withdraw, Engine!Without, Proved!Without
<1>3. Engine!Call => Proved!Call
  BY <1>2 DEF Engine!Call, Proved!Call, Engine!Sides, Proved!Sides,
              Engine!Add, Proved!Add, Engine!Modify, Proved!Modify,
              Engine!Cancel, Proved!Cancel, Engine!Ignore, Proved!Ignore
<1>4. \A m : Engine!Fill(m) => Proved!Fill(m)
  BY <1>2 DEF Engine!Fill, Proved!Fill
<1>5. Engine!Finish => Proved!Finish
  BY <1>2 DEF Engine!Finish, Proved!Finish, Engine!Matched, Proved!Matched,
              Engine!Joined, Proved!Joined, Engine!Level, Proved!Level
<1>6. Engine!Next => Proved!Next
  BY <1>3, <1>4, <1>5 DEF Engine!Next, Proved!Next, Engine!Match, Proved!Match
<1>7. UNCHANGED Engine!vars => UNCHANGED Proved!vars
  BY DEF Engine!vars, Proved!vars
<1> QED BY <1>1, <1>6, <1>7

(* As long as an only child is a leaf in both trees, the linked lists and   *)
(* levels of orderbook.rs keep all that is proved of MatchingEngine: the    *)
(* book is never crossed, not in the middle of a call either, the           *)
(* prev_order links order every level in a line, nobody is put ahead of an  *)
(* order that stays, and only the last trade of a call leaves a part of a   *)
(* resting order.                                                           *)
THEOREM ArenaKeepsTheRules ==
  Spec /\ []BushyTrees => /\ []Proved!Uncrossed
                           /\ []Proved!QueuesAreLines
                           /\ []Proved!TradesWorsen
                           /\ Proved!NobodyJumpsTheQueue
                           /\ Proved!PartialFillEndsTheCall
<1>1. Proved!PricesAreIntegers
  BY PricesAreIntegers DEF Proved!PricesAreIntegers
<1>2. Proved!SharesAreNaturals
  BY SharesAreNaturals DEF Proved!SharesAreNaturals
<1>3. Proved!NilIsNoTaker
  BY NilIsNoTaker DEF Proved!NilIsNoTaker, Proved!Taker, Proved!Sides, Engine!Taker, Engine!Sides
<1>4. Proved!Spec => []Proved!Uncrossed
  BY <1>1, <1>2, <1>3, Proved!BookNeverCrosses, PTL
<1>5. Proved!Spec => []Proved!QueuesAreLines
  BY <1>1, <1>2, <1>3, Proved!TimePriority, PTL
<1>6. Proved!Spec => []Proved!TradesWorsen
  BY <1>1, <1>2, <1>3, Proved!BestPriceFirst, PTL
<1>7. Proved!Spec => Proved!NobodyJumpsTheQueue
  BY <1>1, <1>2, <1>3, Proved!PlacesAreKept, PTL
<1>8. Proved!Spec => Proved!PartialFillEndsTheCall
  BY <1>1, <1>2, <1>3, Proved!MakersAreFilledInFull, PTL
<1>9. Spec /\ []BushyTrees => Proved!Spec
  BY SameEngine, EngineIsPriceTimePriority, PTL
     DEF ImplementsMatchingEngine, Engine!Spec, Proved!Spec
<1> QED BY <1>4, <1>5, <1>6, <1>7, <1>8, <1>9, PTL
=============================================================================

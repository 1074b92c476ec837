--------------------------- MODULE MatchingEngine ---------------------------
(***************************************************************************)
(* What the matching engine promises, without arenas, trees or linked      *)
(* lists: resting orders with a price, and for each the set of orders      *)
(* ahead of it at its price.  A call that may trade opens a taker, fills   *)
(* it against one resting order at a time, and rests what is left.  The    *)
(* module OrderBook is the engine as backend/src/engine/orderbook.rs has   *)
(* it, and implements this one.                                            *)
(*                                                                         *)
(* Here and in the other modules an operator named <definition>_<fault> is *)
(* a wrong version of the definition after it, and used nowhere: a         *)
(* property is worth its run when TLC reports it broken with the wrong     *)
(* version in place.                                                       *)
(***************************************************************************)
EXTENDS Integers, Sequences

CONSTANTS Id,           \* order ids
          Price,        \* limit prices
          MaxShares,    \* bound on the shares of an order
          NIL           \* no taker

ASSUME PricesAreIntegers == Price \subseteq Int
ASSUME SharesAreNaturals == MaxShares \in Nat

Sides == {"Bid", "Ask"}
Other(side) == IF side = "Bid" THEN "Ask" ELSE "Bid"

(* p is a better price than q for an order of this side to rest at. *)
Better(side, p, q) == IF side = "Bid" THEN p > q ELSE p < q

Crosses_Strict(side, p, q) == IF side = "Bid" THEN q < p ELSE q > p

(* A taker of this side with limit p trades with an order resting at q. *)
Crosses(side, p, q) == IF side = "Bid" THEN q <= p ELSE q >= p

Resting == [side : Sides, price : Price, shares : 1..MaxShares]
Taker   == [id : Id, side : Sides, price : Price, left : 0..MaxShares]
Trade   == [price : Price, volume : 1..MaxShares, taker : Id, maker : Id]

ASSUME NilIsNoTaker == NIL \notin Taker

VARIABLES book,     \* id of a resting order -> the order
          ahead,    \* id of a resting order -> the ids ahead of it at its price
          taker,    \* the order being matched, NIL between calls
          trades    \* the trades of the current or the last call

vars == <<book, ahead, taker, trades>>

Without(f, id) == [o \in DOMAIN f \ {id} |-> f[o]]

Withdraw_StaysAhead(id) ==
  /\ book'  = Without(book, id)
  /\ ahead' = Without(ahead, id)

(* The order leaves the book, and every queue it stood in. *)
Withdraw(id) ==
  /\ book'  = Without(book, id)
  /\ ahead' = [o \in DOMAIN ahead \ {id} |-> ahead[o] \ {id}]

Level(side, price) ==
  {o \in DOMAIN book : book[o].side = side /\ book[o].price = price}

(* The resting orders the taker may trade with, and the first among them:  *)
(* no order on its side has a better price, none at its price is ahead.    *)
Makers == {o \in DOMAIN book : /\ book[o].side = Other(taker.side)
                               /\ Crosses(taker.side, taker.price, book[o].price)}

First_AtItsPrice(m) == ahead[m] = {}
First(m) ==
  /\ \A o \in DOMAIN book : book[o].side = book[m].side
                              => ~ Better(book[m].side, book[o].price, book[m].price)
  /\ ahead[m] = {}

(* The shares a trade with m moves: as many as both have. *)
Volume_AllOfMaker(m) == book[m].shares
Volume_OneShare(m) == 1
Volume(m) == IF book[m].shares <= taker.left THEN book[m].shares ELSE taker.left

(* The call is over: nothing is left, or nothing to trade with. *)
Matched_Filled == taker.left = 0
Matched == taker.left = 0 \/ Makers = {}

(* The queues once the rest of the taker has joined its level, at the end. *)
Joined_InFront ==
  [o \in DOMAIN ahead \cup {taker.id} |->
     IF o = taker.id THEN {}
     ELSE ahead[o] \cup (IF o \in Level(taker.side, taker.price) THEN {taker.id} ELSE {})]
Joined ==
  [o \in DOMAIN ahead \cup {taker.id} |->
     IF o = taker.id THEN Level(taker.side, taker.price) ELSE ahead[o]]

-----------------------------------------------------------------------------
Init ==
  /\ book   = << >>
  /\ ahead  = << >>
  /\ taker  = NIL
  /\ trades = << >>

(* add_limit_order *)
Add(id, side, price, shares) ==
  /\ taker = NIL
  /\ id \notin DOMAIN book
  /\ taker'  = [id |-> id, side |-> side, price |-> price, left |-> shares]
  /\ trades' = << >>
  /\ UNCHANGED <<book, ahead>>

(* modify_limit_order: the order leaves its place and trades or rests anew. *)
Modify(id, price, shares) ==
  /\ taker = NIL
  /\ id \in DOMAIN book
  /\ Withdraw(id)
  /\ taker'  = [id |-> id, side |-> book[id].side, price |-> price, left |-> shares]
  /\ trades' = << >>

(* cancel_limit_order *)
Cancel(id) ==
  /\ taker = NIL
  /\ id \in DOMAIN book
  /\ Withdraw(id)
  /\ trades' = << >>
  /\ UNCHANGED taker

(* A modification or a cancellation of an order that does not rest. *)
Ignore(id) ==
  /\ taker = NIL
  /\ id \notin DOMAIN book
  /\ trades' = << >>
  /\ UNCHANGED <<book, ahead, taker>>

(* The taker trades with the first maker, at the price the maker rests at. *)
Fill(m) ==
  /\ taker # NIL
  /\ m \in Makers
  /\ First(m)
  /\ taker.left > 0
  /\ taker'  = [taker EXCEPT !.left = @ - Volume(m)]
  /\ trades' = Append(trades, [price |-> book[m].price, volume |-> Volume(m),
                               taker |-> taker.id, maker |-> m])
  /\ IF Volume(m) = book[m].shares
     THEN Withdraw(m)
     ELSE /\ book' = [book EXCEPT ![m].shares = @ - Volume(m)]
          /\ UNCHANGED ahead

(* What is left of a matched taker rests behind the orders at its price. *)
Finish ==
  /\ taker # NIL
  /\ Matched
  /\ IF taker.left = 0
     THEN UNCHANGED <<book, ahead>>
     ELSE /\ book'  = [o \in DOMAIN book \cup {taker.id} |->
                         IF o = taker.id
                         THEN [side |-> taker.side, price |-> taker.price,
                               shares |-> taker.left]
                         ELSE book[o]]
          /\ ahead' = Joined
  /\ taker' = NIL
  /\ UNCHANGED trades

Call == \E id \in Id :
          \/ \E side \in Sides, price \in Price, shares \in 0..MaxShares :
               Add(id, side, price, shares)
          \/ \E price \in Price, shares \in 0..MaxShares : Modify(id, price, shares)
          \/ Cancel(id)
          \/ Ignore(id)

Match == Finish \/ \E m \in Id : Fill(m)

Next == Call \/ Match

Spec == Init /\ [][Next]_vars

(* A call runs to its end once begun. *)
FairSpec == Spec /\ WF_vars(Match)

-----------------------------------------------------------------------------
TypeOK ==
  /\ DOMAIN book \subseteq Id
  /\ book \in [DOMAIN book -> Resting]
  /\ ahead \in [DOMAIN book -> SUBSET Id]
  /\ taker \in Taker \cup {NIL}
  /\ trades \in Seq(Trade)
  /\ taker # NIL => taker.id \notin DOMAIN book

(* No bid rests at or above an ask: whatever could trade has traded before *)
(* the rest of an order is put on the book, modified orders included.      *)
Uncrossed ==
  \A b, a \in DOMAIN book :
    book[b].side = "Bid" /\ book[a].side = "Ask" => book[b].price < book[a].price

(* The orders at a price stand in one line: of two of them exactly one is  *)
(* ahead of the other, and nobody is behind an order of another level.     *)
QueuesAreLines ==
  \A a \in DOMAIN book :
    /\ ahead[a] \subseteq Level(book[a].side, book[a].price) \ {a}
    /\ \A b \in Level(book[a].side, book[a].price) \ {a} :
         (a \in ahead[b]) <=> (b \notin ahead[a])
    /\ \A b \in ahead[a] : ahead[b] \subseteq ahead[a]

(* The trades of a call walk away from the best price: no later trade of a  *)
(* call is at a price better for the taker than an earlier one.             *)
TradesWorsen ==
  taker # NIL =>
    \A i, j \in DOMAIN trades :
      i < j => ~ Better(Other(taker.side), trades[j].price, trades[i].price)

(* An order loses its place in the line only by its own modification: the  *)
(* set of orders ahead of one that keeps resting never grows.              *)
NobodyJumpsTheQueue ==
  [][ \A o \in DOMAIN book : o \in DOMAIN book' => ahead'[o] \subseteq ahead[o] ]_vars

(* At most one resting order is reduced and left on the book by a call: an *)
(* order that keeps resting loses shares only when the taker has none left.*)
PartialFillEndsTheCall ==
  [][ \A o \in DOMAIN book :
        o \in DOMAIN book' /\ book'[o].shares # book[o].shares
          => taker.left > 0 /\ taker'.left = 0 ]_vars

(* Every call ends: matching never runs in circles. *)
CallsEnd == []<>(taker = NIL)
=============================================================================

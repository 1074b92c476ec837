----------------------------- MODULE OrderBook -----------------------------
(***************************************************************************)
(* The Arena of backend/src/engine/orderbook.rs: two sides of price levels *)
(* (AvlTree), each level a doubly linked list of orders threaded through   *)
(* the map of orders.  add_limit_order and modify_limit_order run as the   *)
(* loops they are: one step per level taken, per order executed, and one   *)
(* for what rests.  The arena is owned by one thread, so no other call     *)
(* starts before the running one ends.                                     *)
(***************************************************************************)
EXTENDS AvlTree

CONSTANTS Id,          \* the ids callers use
          MaxShares    \* bound on the shares of one order

ASSUME SharesAreNaturals == MaxShares \in Nat

(* A call, with the local variables of its loops. *)
Running == [kind : {"add", "modify"}, id : Id, side : Side, price : Price,
            shares : 0..MaxShares, in : {"taking", "helper"}, fill : 0..MaxShares,
            last : BOOLEAN, head : Id \cup {NIL}]

ASSUME NilIsNoValue == NIL \notin Id \cup Price /\ NIL \notin Running

VARIABLES
  arena,            \* the two sides: limits, root and best price of each
  orders,           \* id -> order
  limit_orders,     \* the ids get_random_order_id draws from
  executed_orders,  \* the trades pushed since the current call began
  call              \* the call being run, NIL between calls

vars == <<arena, orders, limit_orders, executed_orders, call>>

Other(side) == IF side = "Bid" THEN "Ask" ELSE "Bid"
Without(f, k) == [x \in DOMAIN f \ {k} |-> f[x]]

(* Limit::new *)
NewLimit == [parent |-> NIL, left |-> NIL, right |-> NIL, height |-> 1,
             size |-> 0, total_volume |-> 0, head_order |-> NIL, tail_order |-> NIL]

(* Order::new, and what modify_order resets an order to. *)
NewOrder(side, shares, price) ==
  [bid_or_ask |-> side, shares |-> shares, limit |-> price,
   next_order |-> NIL, prev_order |-> NIL, parent_limit |-> NIL]

(* The counts every call starts by setting to 0. *)
Fresh(a) == [side \in Side |-> [a[side] EXCEPT !.rebalances = 0]]

Init ==
  /\ arena = [side \in Side |-> EmptySide]
  /\ orders = << >>
  /\ limit_orders = {}
  /\ executed_orders = << >>
  /\ call = NIL

-----------------------------------------------------------------------------
(* Moving orders in and out of levels.  A book is [side |-> one side of the *)
(* arena, orders |-> the orders].                                           *)

(* The level gives up an order of so many shares, and goes if it was the    *)
(* last one there.                                                          *)
Release(side, b, price, shares) ==
  LET level == b.limits[price]
      less  == [b EXCEPT !.limits[price] = [level EXCEPT !.total_volume = @ - shares,
                                                         !.size         = @ - 1]]
  IN  IF less.limits[price].size = 0 THEN DeleteLimitFrom(less, side, price) ELSE less

(* The ends of the queue of a level that an order between these two leaves. *)
Ends_KeepTail(b, price, before, after) ==
  LET level == b.limits[price]
  IN  [b EXCEPT !.limits[price] =
         [level EXCEPT !.head_order = IF before = NIL THEN after ELSE @]]
Ends(b, price, before, after) ==
  LET level == b.limits[price]
  IN  [b EXCEPT !.limits[price] =
         [level EXCEPT !.head_order = IF before = NIL THEN after ELSE @,
                       !.tail_order = IF after = NIL THEN before ELSE @]]

(* The order=>cancel section of modify_limit_order and cancel_limit_order:  *)
(* its neighbours, or the ends of the queue, are joined.                    *)
Unlink(id) ==
  LET order  == orders[id]
      side   == order.bid_or_ask
      level  == order.parent_limit
      before == order.prev_order
      after  == order.next_order
  IN  [orders |-> [o \in DOMAIN orders |->
                     [orders[o] EXCEPT
                        !.next_order = IF o = before THEN after ELSE @,
                        !.prev_order = IF o = after THEN before ELSE @]],
       arena  |-> [Fresh(arena) EXCEPT
                     ![side] = Release(side, Ends(Fresh(arena)[side], level, before, after),
                                       level, order.shares)]]

(* Limit::append, of an order already in the map. *)
AppendOrder(b, os, id, price) ==
  LET level == b.limits[price]
      tail  == level.tail_order
  IN  [side   |-> [b EXCEPT !.limits[price] =
                     [level EXCEPT !.head_order   = IF @ = NIL THEN id ELSE @,
                                   !.tail_order   = id,
                                   !.size         = @ + 1,
                                   !.total_volume = @ + os[id].shares]],
       orders |-> [o \in DOMAIN os |->
                     IF o = id
                     THEN [os[o] EXCEPT !.prev_order = tail, !.parent_limit = price]
                     ELSE IF o = tail THEN [os[o] EXCEPT !.next_order = id]
                     ELSE os[o]]]

-----------------------------------------------------------------------------
(* The calls of the order generators. *)

Open(kind, id, side, shares, price) ==
  [kind |-> kind, id |-> id, side |-> side, price |-> price, shares |-> shares,
   in |-> "taking", fill |-> 0, last |-> FALSE, head |-> NIL]

(* add_limit_order, with the fresh id the generators give every order. *)
AddLimitOrder(id, side, shares, price) ==
  /\ call = NIL
  /\ id \notin DOMAIN orders
  /\ arena' = Fresh(arena)
  /\ executed_orders' = << >>
  /\ call' = Open("add", id, side, shares, price)
  /\ UNCHANGED <<orders, limit_orders>>

(* modify_limit_order of a live order: it leaves its level at once, but its *)
(* entries in orders and limit_orders stay until the call ends.             *)
ModifyLimitOrder(id, shares, price) ==
  /\ call = NIL
  /\ id \in DOMAIN orders
  /\ arena'  = Unlink(id).arena
  /\ orders' = Unlink(id).orders
  /\ executed_orders' = << >>
  /\ call' = Open("modify", id, orders[id].bid_or_ask, shares, price)
  /\ UNCHANGED limit_orders

CancelLimitOrder_KeepsId(id) ==
  /\ call = NIL
  /\ id \in DOMAIN orders
  /\ arena'  = Unlink(id).arena
  /\ orders' = Without(Unlink(id).orders, id)
  /\ executed_orders' = << >>
  /\ UNCHANGED <<limit_orders, call>>

(* cancel_limit_order of a live order. *)
CancelLimitOrder(id) ==
  /\ call = NIL
  /\ id \in DOMAIN orders
  /\ arena'  = Unlink(id).arena
  /\ orders' = Without(Unlink(id).orders, id)
  /\ limit_orders' = limit_orders \ {id}
  /\ executed_orders' = << >>
  /\ UNCHANGED call

(* Either of the two for an id that is not in the map: only the counts go. *)
UnknownOrder(id) ==
  /\ call = NIL
  /\ id \notin DOMAIN orders
  /\ arena' = Fresh(arena)
  /\ executed_orders' = << >>
  /\ UNCHANGED <<orders, limit_orders, call>>

-----------------------------------------------------------------------------
(* The loops of a running call. *)

Against == arena[Other(call.side)]     \* the side the call takes from

(* Whether the best price of that side is within the limit of the call. *)
Reaches_Strict ==
  IF call.side = "Bid" THEN Against.edge < call.price ELSE Against.edge > call.price
Reaches ==
  IF call.side = "Bid" THEN Against.edge <= call.price ELSE Against.edge >= call.price

(* The while condition of limit_order_as_market_order. *)
CanTake_WithNothing == Against.edge # NIL /\ Reaches
CanTake == Against.edge # NIL /\ call.shares # 0 /\ Reaches

(* One turn of that loop, up to the call of market_order_helper: take all   *)
(* the shares if the level has them, else as many as the level has.         *)
TakeLevel ==
  /\ call # NIL /\ call.in = "taking"
  /\ CanTake
  /\ LET level == Against.limits[Against.edge]
         last  == call.shares <= level.total_volume
     IN  call' = [call EXCEPT
                    !.in     = "helper",
                    !.last   = last,
                    !.fill   = IF last THEN call.shares ELSE level.total_volume,
                    !.shares = IF last THEN @ ELSE @ - level.total_volume,
                    !.head   = level.head_order]
  /\ UNCHANGED <<arena, orders, limit_orders, executed_orders>>

Execution == [price : Price, volume : 1..MaxShares,
              aggresive_order_id : Id, passive_order_id : Id]

Executed(maker, volume) ==
  [price |-> orders[maker].limit, volume |-> volume,
   aggresive_order_id |-> call.id, passive_order_id |-> maker]

(* The while condition of market_order_helper. *)
CanExecute_Strict == Against.edge # NIL /\ orders[call.head].shares < call.fill
CanExecute == Against.edge # NIL /\ orders[call.head].shares <= call.fill

(* One turn of that loop: the head order is executed in full. *)
ExecuteHead ==
  /\ call # NIL /\ call.in = "helper"
  /\ CanExecute
  /\ LET order  == orders[call.head]
         next   == order.next_order
         price  == order.parent_limit
         level  == Against.limits[price]
         popped == [Against EXCEPT !.limits[price] =
                      [level EXCEPT !.head_order = next,
                                    !.tail_order = IF next = NIL THEN NIL ELSE @]]
         left   == Release(Other(call.side), popped, price, order.shares)
     IN  /\ arena' = [arena EXCEPT ![Other(call.side)] = left]
         /\ orders' = [o \in DOMAIN orders \ {call.head} |->
                         IF o = next THEN [orders[o] EXCEPT !.prev_order = NIL]
                                     ELSE orders[o]]
         /\ call' = [call EXCEPT
                       !.fill = @ - order.shares,
                       !.head = IF left.edge = NIL THEN @
                                ELSE left.limits[left.edge].head_order]
  /\ executed_orders' = Append(executed_orders, Executed(call.head, orders[call.head].shares))
  /\ limit_orders' = limit_orders \ {call.head}

(* The end of market_order_helper: what is left takes part of the head      *)
(* order, and the outer loop goes on, or returns 0 after the last level.    *)
LeaveHelper ==
  /\ call # NIL /\ call.in = "helper"
  /\ ~ CanExecute
  /\ IF Against.edge # NIL /\ call.fill # 0
     THEN /\ orders' = [orders EXCEPT ![call.head].shares = @ - call.fill]
          /\ LET price == orders[call.head].parent_limit
                 level == Against.limits[price]
                 less  == [level EXCEPT !.total_volume = @ - call.fill]
             IN  arena' = [arena EXCEPT ![Other(call.side)].limits[price] = less]
          /\ executed_orders' = Append(executed_orders, Executed(call.head, call.fill))
     ELSE UNCHANGED <<orders, arena, executed_orders>>
  /\ call' = [call EXCEPT !.in = "taking", !.fill = 0, !.last = FALSE, !.head = NIL,
                          !.shares = IF call.last THEN 0 ELSE @]
  /\ UNCHANGED limit_orders

(* The end of the call: what is left rests at its price, in a new level if  *)
(* there is none; a modified order with nothing left is dropped.            *)
RestOrDrop ==
  /\ call # NIL /\ call.in = "taking"
  /\ ~ CanTake
  /\ call' = NIL
  /\ UNCHANGED executed_orders
  /\ IF call.shares = 0
     THEN /\ orders' = Without(orders, call.id)
          /\ limit_orders' = limit_orders \ {call.id}
          /\ UNCHANGED arena
     ELSE LET own   == arena[call.side]
              order == NewOrder(call.side, call.shares, call.price)
              known == [o \in DOMAIN orders \cup {call.id} |->
                          IF o = call.id THEN order ELSE orders[o]]
              level == IF call.price \in DOMAIN own.limits THEN own
                       ELSE AddLimitTo(own, call.side, call.price, NewLimit)
              done  == AppendOrder(level, known, call.id, call.price)
          IN  /\ arena' = [arena EXCEPT ![call.side] = done.side]
              /\ orders' = done.orders
              /\ limit_orders' = limit_orders \cup {call.id}

Call == \E id \in Id :
          \/ \E shares \in 0..MaxShares, price \in Price :
               \/ \E side \in Side : AddLimitOrder(id, side, shares, price)
               \/ ModifyLimitOrder(id, shares, price)
          \/ CancelLimitOrder(id)
          \/ UnknownOrder(id)

Run == TakeLevel \/ ExecuteHead \/ LeaveHelper \/ RestOrDrop

Next == Call \/ Run

Spec == Init /\ [][Next]_vars

(* The thread that runs a call keeps running it: weak fairness of Run, with *)
(* its enabling condition written out.  A call that is open always has a    *)
(* step of Run; were there a state where it had none, no step at all would  *)
(* be possible there, and TLC would report the deadlock.                    *)
FairSpec == Spec /\ (<>[](call # NIL) => []<><<Run>>_vars)

-----------------------------------------------------------------------------
(* The orders that rest: a modified order is still in the map while it is   *)
(* matched, but in no level.                                                *)
Resting ==
  IF call # NIL /\ call.kind = "modify" THEN DOMAIN orders \ {call.id} ELSE DOMAIN orders

Queued(side, price) ==
  {o \in Resting : orders[o].bid_or_ask = side /\ orders[o].parent_limit = price}

SharesIn(os) == [o \in DOMAIN os |-> os[o].shares]

(* The fields of the arena and of the call have their types. *)
TypeOK ==
  /\ DOMAIN orders \subseteq Id
  /\ limit_orders \subseteq DOMAIN orders
  /\ \A o \in Resting : /\ orders[o].bid_or_ask \in Side
                        /\ orders[o].shares \in 1..MaxShares
                        /\ orders[o].limit \in Price
                        /\ orders[o].parent_limit = orders[o].limit
  /\ \A side \in Side, p \in Price :
       p \in DOMAIN arena[side].limits => arena[side].limits[p].size \in 1..Cardinality(DOMAIN orders)
  /\ call \in Running \cup {NIL}

(* What is kept of every level agrees with the orders queued there: size    *)
(* and total_volume are their number and their shares, head_order and       *)
(* tail_order the ends of one list linked both ways through all of them,    *)
(* and a level is there exactly when an order is.  limit_order_as_market_   *)
(* order takes whole levels by total_volume, so a wrong volume would lose   *)
(* or invent shares; a wrong link would skip an order or panic.             *)
LevelsAgreeWithOrders ==
  \A side \in Side :
    LET limits == arena[side].limits
    IN  /\ DOMAIN limits = {orders[o].parent_limit :
                              o \in {o \in Resting : orders[o].bid_or_ask = side}}
        /\ \A p \in DOMAIN limits :
             LET level == limits[p]
                 queue == Queued(side, p)
                 next(o) == orders[o].next_order
                 prev(o) == orders[o].prev_order
             IN  /\ level.size = Cardinality(queue)
                 /\ level.total_volume = MapThenSumSet(LAMBDA o : SharesIn(orders)[o], queue)
                 /\ {level.head_order, level.tail_order} \subseteq queue
                 /\ \A o \in queue :
                      /\ prev(o) = NIL <=> o = level.head_order
                      /\ next(o) = NIL <=> o = level.tail_order
                      /\ next(o) # NIL => next(o) \in queue /\ prev(next(o)) = o
                      /\ prev(o) # NIL => prev(o) \in queue /\ next(prev(o)) = o

(* The code of the queues relies on no more of the trees than this.  The    *)
(* best price is at the edge; a level added where there is none, or removed *)
(* with its last order, leaves exactly the other levels, and what those     *)
(* keep of their orders, size, volume and the ends of the queue, is what it *)
(* was, whatever the rotations do to their links: a level lost or mixed up  *)
(* by them would take its orders along.                                     *)
TreesServe ==
  \A side \in Side :
    LET b    == arena[side]
        live == DOMAIN b.limits
    IN  /\ b.edge = BestOf(side, live)
        /\ \A p \in Price \ live :
             LET more == AddLimitTo(b, side, p, NewLimit).limits
             IN  /\ DOMAIN more = live \cup {p}
                 /\ OnlyLinksMoved(NewLimit, more[p])
                 /\ \A q \in live : OnlyLinksMoved(b.limits[q], more[q])
        /\ \A p \in live :
             LET less == DeleteLimitFrom(b, side, p).limits
             IN  /\ DOMAIN less = live \ {p}
                 /\ \A q \in live \ {p} : OnlyLinksMoved(b.limits[q], less[q])

(* They serve as long as an only child is a leaf, see OrderBookProofs.      *)
BushyTrees == \A side \in Side : Bushy(arena[side].limits)

(* Between calls the ids the simulator draws its cancellations and          *)
(* modifications from are exactly the live orders.                          *)
DrawnIdsAreLive == call = NIL => limit_orders = DOMAIN orders

(* Every trade is with an order at the best price of its side. *)
PricePriority ==
  [][ Len(executed_orders') = Len(executed_orders) + 1
        => LET side == Other(call.side)
           IN  executed_orders'[Len(executed_orders')].price
                 = BestOf(side, DOMAIN arena[side].limits) ]_vars

(* Every call ends. *)
CallsEnd == []<>(call = NIL)

-----------------------------------------------------------------------------
(* The refinement of MatchingEngine.  Who is ahead of an order is read off  *)
(* the prev_order links; what is left of the taker is split between the     *)
(* outer loop and the helper while the helper runs.                         *)
AheadOf ==
  LET up[o \in Resting] ==
        IF orders[o].prev_order = NIL THEN {}
        ELSE {orders[o].prev_order} \cup up[orders[o].prev_order]
  IN  up

BookOf ==
  [o \in Resting |-> [side   |-> orders[o].bid_or_ask,
                      price  |-> orders[o].parent_limit,
                      shares |-> orders[o].shares]]

TakerOf ==
  IF call = NIL THEN NIL
  ELSE [id |-> call.id, side |-> call.side, price |-> call.price,
        left |-> IF call.last THEN call.fill ELSE call.shares + call.fill]

TradesOf ==
  [i \in DOMAIN executed_orders |->
     [price  |-> executed_orders[i].price,
      volume |-> executed_orders[i].volume,
      taker  |-> executed_orders[i].aggresive_order_id,
      maker  |-> executed_orders[i].passive_order_id]]

Engine == INSTANCE MatchingEngine WITH
  book <- BookOf, ahead <- AheadOf, taker <- TakerOf, trades <- TradesOf

ASSUME NilIsNoTaker == NIL \notin Engine!Taker

(* The engine is price-time priority matching: every step of the code is a  *)
(* step MatchingEngine allows, or changes nothing it can see.               *)
ImplementsMatchingEngine == Engine!Spec
=============================================================================

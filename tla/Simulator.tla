----------------------------- MODULE Simulator -----------------------------
(***************************************************************************)
(* The order generator, backend/src/order_generator/gen.rs, and the task   *)
(* that drives it, process_start_message of route_handlers/sockets.rs, on  *)
(* top of the engine as orderbook.rs has it: prices are read from its      *)
(* edges, levels from its trees.  Random draws are choices: a price is any *)
(* price the generator would accept, rounded; latencies are left out.      *)
(***************************************************************************)
EXTENDS OrderBook

CONSTANTS Seeds,          \* orders the book is seeded with (10,000)
          Orders,         \* num_orders
          Mean,           \* mean_limit_price
          Threshold,      \* orders get_random_order_id wants to see (10,000)
          Period,         \* every how many orders the levels are sent (100)
          SnapshotDepth,  \* levels of a side in the snapshot (20)
          UpdateDepth,    \* levels of a side in an update (1,000)
          BestLevelsOnly  \* show_best_price_levels

ASSUME IdsSuffice == {Seeds, Orders} \subseteq Nat /\ 1..Seeds + Orders \subseteq Id
ASSUME DepthsArePositive == {Period, SnapshotDepth, UpdateDepth} \subseteq Nat \ {0}
ASSUME MeanIsAPrice == Mean \in Int
ASSUME NilIsNoType == NIL \notin {"ADD", "MODIFY"}
ASSUME BestLevelsOnlyIsASwitch == BestLevelsOnly \in BOOLEAN

VARIABLES
  task,          \* "seeding", "generating", "returned" or "panicked"
  seeded,        \* seeding orders created
  idx,           \* generated orders reported
  making,        \* the type of the order the engine is at work on, or NIL
  order_id,      \* the id the next new order gets
  engine_stats,  \* one record per generated order
  executed,      \* every trade since the book was made
  executed_orders_offset,
  sent           \* what went to the client: the updates of each order

genVars == <<task, seeded, idx, making, order_id, engine_stats, executed,
             executed_orders_offset, sent>>

SimulatorInit ==
  /\ Init
  /\ task = "seeding"
  /\ seeded = 0 /\ idx = 0 /\ order_id = 1
  /\ making = NIL
  /\ engine_stats = << >>
  /\ executed = << >>
  /\ executed_orders_offset = 0
  /\ sent = << >>

-----------------------------------------------------------------------------
(* What the arena shows of itself. *)

(* The n best of a set of prices. *)
Top(n, side, prices) ==
  {p \in prices : Cardinality({q \in prices : Outranks(side, q, p)}) < n}

(* highest_buy and lowest_sell *)
BestPrice(ar, side) == ar[side].edge

(* get_top_n_bids and get_top_n_asks: price -> total volume. *)
LevelsOf(ar, side, n) ==
  [p \in ToSet(TopLevels(ar[side], side, n, BestLevelsOnly)) |-> ar[side].limits[p].total_volume]

PriceLevels(snapshot, ar, n) ==
  [type |-> "PriceLevels", snapshot |-> snapshot,
   levels |-> [side \in Side |-> LevelsOf(ar, side, n)]]

-----------------------------------------------------------------------------
(* seed_orderbook: an order below the mean is a bid, any other an ask; its *)
(* price is then rounded, possibly to the mean.                            *)
Seed(side, price, shares) ==
  /\ task = "seeding" /\ seeded < Seeds
  /\ IF side = "Bid" THEN price <= Mean ELSE price >= Mean
  /\ AddLimitOrder(seeded + 1, side, shares, price)
  /\ seeded' = seeded + 1
  /\ UNCHANGED <<task, idx, making, order_id, engine_stats, executed,
                 executed_orders_offset, sent>>

EndSeed == task = "seeding" /\ RestOrDrop /\ UNCHANGED genVars

EndSeeding_OffByOne ==
  /\ task = "seeding" /\ seeded = Seeds /\ call = NIL
  /\ task' = IF Orders = 0 THEN "returned" ELSE "generating"
  /\ order_id' = Seeds
  /\ sent' = << << PriceLevels(TRUE, arena, SnapshotDepth) >> >>
  /\ UNCHANGED <<vars, seeded, idx, making, engine_stats, executed,
                 executed_orders_offset>>

(* The snapshot goes out and the generating starts. *)
EndSeeding ==
  /\ task = "seeding" /\ seeded = Seeds /\ call = NIL
  /\ task' = IF Orders = 0 THEN "returned" ELSE "generating"
  /\ order_id' = Seeds + 1
  /\ sent' = << << PriceLevels(TRUE, arena, SnapshotDepth) >> >>
  /\ UNCHANGED <<vars, seeded, idx, making, engine_stats, executed,
                 executed_orders_offset>>

-----------------------------------------------------------------------------
(* generate_updates.  It reads the arena and the trades as the order left   *)
(* them.                                                                   *)

(* get_executed_orders *)
FreshTrades == SubSeq(executed, executed_orders_offset + 1, Len(executed))

Updates(stats, ar) ==
  << [type |-> "ExecutionStats", stat |-> stats[idx + 1]] >>
  \o (IF (idx + 1) % Period = 0
      THEN << PriceLevels(FALSE, ar, UpdateDepth) >> ELSE << >>)
  \o (IF idx % Period = 0
      THEN << [type |-> "BestLevels",
               best |-> [side \in Side |-> BestPrice(ar, side)]] >> ELSE << >>)
  \o (IF FreshTrades # << >>
      THEN << [type |-> "Trades", trades |-> FreshTrades] >> ELSE << >>)

NewStats_Accumulated(order_type) ==
  Append(engine_stats, [order_type |-> order_type, executed_orders_cnt |-> Len(executed)])
NewStats(order_type) ==
  Append(engine_stats, [order_type |-> order_type, executed_orders_cnt |-> Len(executed_orders')])

(* The call has returned: its statistics are kept, its updates sent. *)
Report(order_type) ==
  /\ engine_stats' = NewStats(order_type)
  /\ order_id' = IF order_type = "ADD" THEN order_id + 1 ELSE order_id
  /\ sent' = Append(sent, Updates(engine_stats', arena'))
  /\ executed_orders_offset' = Len(executed)
  /\ idx' = idx + 1
  /\ task' = IF idx + 1 = Orders THEN "returned" ELSE task
  /\ making' = NIL
  /\ UNCHANGED <<seeded, executed>>

Begin(order_type) ==
  /\ making' = order_type
  /\ UNCHANGED <<task, seeded, idx, order_id, engine_stats, executed,
                 executed_orders_offset, sent>>

(* unwrap of a missing best price, or no type for the number drawn. *)
Panic ==
  /\ task' = "panicked"
  /\ UNCHANGED <<vars, seeded, idx, making, order_id, engine_stats, executed,
                 executed_orders_offset, sent>>

-----------------------------------------------------------------------------
(* generate_orders, by the type drawn.                                     *)

(* A price on the near side of the best price of the other side, which it  *)
(* reaches when it is rounded.                                             *)
DoesNotCross(side, price) == ~ Outranks(side, price, BestPrice(arena, Other(side)))

(* create_add_limit *)
AddLimit(side, price, shares) ==
  IF BestPrice(arena, Other(side)) = NIL
  THEN Panic
  ELSE /\ DoesNotCross(side, price)
       /\ AddLimitOrder(order_id, side, shares, price)
       /\ Begin("ADD")

(* get_random_order_id draws from limit_orders, which are the live orders   *)
(* (DrawnIdsAreLive), and only when there are so many.                      *)
Deep == Cardinality(limit_orders) > Threshold

(* create_cancel_limit *)
CancelLimit(side, price, shares) ==
  \/ ~ Deep /\ AddLimit(side, price, shares)
  \/ Deep /\ \E id \in limit_orders : CancelLimitOrder(id) /\ Report("CANCEL")

(* create_modify_limit: the best bid is needed before the fallback, the     *)
(* best ask for a bid only.                                                 *)
ModifyLimit(side, price, shares) ==
  \/ BestPrice(arena, "Bid") = NIL /\ Panic
  \/ BestPrice(arena, "Bid") # NIL /\ ~ Deep /\ AddLimit(side, price, shares)
  \/ /\ BestPrice(arena, "Bid") # NIL /\ Deep
     /\ \E id \in limit_orders :
          IF BestPrice(arena, Other(orders[id].bid_or_ask)) = NIL
          THEN Panic
          ELSE /\ DoesNotCross(orders[id].bid_or_ask, price)
               /\ ModifyLimitOrder(id, shares, price)
               /\ Begin("MODIFY")

GenerateOrders ==
  /\ task = "generating" /\ making = NIL /\ idx < Orders
  /\ \/ \E side \in Side, price \in Price, shares \in 1..MaxShares :
          \/ AddLimit(side, price, shares)
          \/ CancelLimit(side, price, shares)
          \/ ModifyLimit(side, price, shares)
     \/ Panic

(* The engine matches, for the seeding and for generated orders alike.     *)
(* executed_orders of the code is never emptied: here executed holds it.   *)
Trading ==
  /\ TakeLevel \/ ExecuteHead \/ LeaveHelper
  /\ executed' = IF executed_orders' = executed_orders THEN executed
                 ELSE Append(executed, Last(executed_orders'))
  /\ UNCHANGED <<task, seeded, idx, making, order_id, engine_stats,
                 executed_orders_offset, sent>>

EndOrder == making # NIL /\ RestOrDrop /\ Report(making)

SimulatorNext ==
  \/ \E side \in Side, price \in Price, shares \in 1..MaxShares : Seed(side, price, shares)
  \/ EndSeed
  \/ EndSeeding
  \/ GenerateOrders
  \/ Trading
  \/ EndOrder

SimulatorSpec == SimulatorInit /\ [][SimulatorNext]_<<vars, genVars>>

-----------------------------------------------------------------------------
(* The ids of new orders are above every id in the order map, so that the   *)
(* engine never gets an order under an id that still rests.                 *)
NextIdIsFresh ==
  task = "generating" /\ making = NIL => \A id \in DOMAIN orders : id < order_id

(* The trades that a list of updates carries. *)
TradesWith(update) == IF update.type = "Trades" THEN update.trades ELSE << >>
TradesIn(updates) == FlattenSeq([i \in 1..Len(updates) |-> TradesWith(updates[i])])

(* Every generated order has exactly one record of statistics, whichever    *)
(* type it fell back to, and the client gets it with the order's trades:    *)
(* as many as the record counts.  With the first order come the trades of   *)
(* the seeding as well.                                                     *)
StatsMatchOrders ==
  /\ task # "seeding" => Len(engine_stats) = idx /\ Len(sent) = idx + 1
  /\ \A k \in 1..Len(sent) - 1 :
       LET updates == sent[k + 1]
           count   == Len(TradesIn(updates))
       IN  /\ updates[1].stat = engine_stats[k]
           /\ IF k = 1 THEN count >= engine_stats[k].executed_orders_cnt
                       ELSE count = engine_stats[k].executed_orders_cnt
=============================================================================

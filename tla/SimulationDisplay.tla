------------------------- MODULE SimulationDisplay -------------------------
(***************************************************************************)
(* What the page makes of a simulation's updates: the task of              *)
(* frontend/src/pages/simulator.rs that takes them one by one, and the     *)
(* price levels of frontend/src/utils/priceupdate.rs.  The way from the    *)
(* server, which keeps their order, is WsServer and WsPage.  The timers of *)
(* the data collector may have run out at an update or not: a choice.      *)
(***************************************************************************)
EXTENDS Simulator

CONSTANTS Ticket,     \* ticket_size: prices shown as one level
          Levels,     \* ORDERBOOK_LEVELS (20)
          LastTrades  \* trades the page lists (25)

ASSUME DisplayIsPositive == {Ticket, Levels, LastTrades} \subseteq Nat \ {0}

VARIABLES
  shown,                \* updates the UI task has taken
  ui,                   \* "running", or "panicked"
  raw,                  \* raw_bids, raw_asks: price -> volume
  lvls,                 \* bid_lvls, ask_lvls: level -> volume and running total
  best,                 \* best_bid, best_ask
  spread,
  all_engine_stats,
  all_executed_orders,  \* every trade received
  listed_orders,        \* executed_orders: those the list is refreshed from
  fulfilled_orders      \* the list

displayVars == <<shown, ui, raw, lvls, best, spread, all_engine_stats,
                 all_executed_orders, listed_orders, fulfilled_orders>>

(* Action::Start clears the page before it opens the connection. *)
DisplayInit ==
  /\ shown = 0
  /\ ui = "running"
  /\ raw = [side \in Side |-> << >>]
  /\ lvls = [side \in Side |-> << >>]
  /\ best = [side \in Side |-> NIL]
  /\ spread = NIL
  /\ all_engine_stats = << >>
  /\ all_executed_orders = << >>
  /\ listed_orders = << >>
  /\ fulfilled_orders = << >>

-----------------------------------------------------------------------------
(* PriceLevelProcessor.  Levels are a function from price to volume.       *)

(* group_by_ticket_size *)
Grouped(levels) ==
  [g \in {Ticket * (p \div Ticket) : p \in DOMAIN levels} |->
     MapThenSumSet(LAMBDA p : levels[p],
                   {p \in DOMAIN levels : Ticket * (p \div Ticket) = g})]

(* add_total_volume: with each level its volume and that of all before it. *)
WithTotals(side, levels) ==
  [g \in DOMAIN levels |->
     [volume |-> levels[g],
      total  |-> MapThenSumSet(LAMBDA h : levels[h],
                               {h \in DOMAIN levels : ~ Outranks(side, g, h)})]]

(* apply_deltas: the levels that are still there, and others, in any order, *)
(* as long as there is room; of these the first ones.                       *)
Applied(side, current, new) ==
  LET kept == DOMAIN current \cap DOMAIN new
      room == IF Levels > Cardinality(kept) THEN Levels - Cardinality(kept) ELSE 0
      rest == DOMAIN new \ kept
  IN  {[g \in Top(Levels, side, kept \cup more) |-> new[g]] :
         more \in {m \in SUBSET rest : Cardinality(m) = Min({room, Cardinality(rest)})}}

(* drain(ORDERBOOK_LEVELS..) needs that many levels to be there. *)
Drained(levels) == Cardinality(DOMAIN levels) >= Levels

Current_BeforeSet(side, levels) == Grouped(raw[side])

(* What apply_deltas takes for the current levels: raw_bids and raw_asks    *)
(* have been set by then.                                                   *)
Current(side, levels) == Grouped(levels)

(* updater, of a snapshot: every level it has. *)
Replace(levels) ==
  /\ raw' = levels
  /\ lvls' = [side \in Side |-> WithTotals(side, Grouped(levels[side]))]
  /\ UNCHANGED ui

(* updater, otherwise.  A panic ends the task. *)
Update(levels) ==
  /\ raw' = levels
  /\ \E bids \in Applied("Bid", Current("Bid", levels["Bid"]), Grouped(levels["Bid"])),
        asks \in Applied("Ask", Current("Ask", levels["Ask"]), Grouped(levels["Ask"])) :
       IF Drained(bids) /\ Drained(asks)
       THEN /\ lvls' = [side \in Side |->
                          WithTotals(side, IF side = "Bid" THEN bids ELSE asks)]
            /\ UNCHANGED ui
       ELSE ui' = "panicked" /\ UNCHANGED lvls

-----------------------------------------------------------------------------
(* The task that updates the page. *)

Feed == FlattenSeq(sent)

Take(type) ==
  /\ ui = "running"
  /\ shown < Len(Feed)
  /\ Feed[shown + 1].type = type
  /\ shown' = shown + 1

ShowStats ==
  /\ Take("ExecutionStats")
  /\ all_engine_stats' = Append(all_engine_stats, Feed[shown + 1].stat)
  /\ UNCHANGED <<ui, raw, lvls, best, spread,
                 all_executed_orders, listed_orders, fulfilled_orders>>

ShowLevels ==
  /\ Take("PriceLevels")
  /\ LET update == Feed[shown + 1]
     IN  \/ update.snapshot /\ Replace(update.levels)
         \/ ~ update.snapshot /\ Update(update.levels)
         \/ ~ update.snapshot /\ UNCHANGED <<ui, raw, lvls>>
  /\ UNCHANGED <<best, spread, all_engine_stats,
                 all_executed_orders, listed_orders, fulfilled_orders>>

Newest_Oldest(n, list) == IF Len(list) > n THEN SubSeq(list, 1, n) ELSE list
Newest(n, list) ==
  IF Len(list) > n THEN SubSeq(list, Len(list) - n + 1, Len(list)) ELSE list

ShowTrades_OnTime ==
  /\ Take("Trades")
  /\ LET fresh == Feed[shown + 1].trades
         all   == listed_orders \o fresh
     IN  \/ /\ all_executed_orders' = all_executed_orders \o fresh
            /\ listed_orders' = Newest(LastTrades, all)
            /\ fulfilled_orders' = Newest(LastTrades, all)
         \/ UNCHANGED <<all_executed_orders, listed_orders, fulfilled_orders>>
  /\ UNCHANGED <<ui, raw, lvls, best, spread, all_engine_stats>>

(* The trades are kept; the list is refreshed when its timer has run out. *)
ShowTrades ==
  /\ Take("Trades")
  /\ LET fresh == Feed[shown + 1].trades
         all   == listed_orders \o fresh
     IN  /\ all_executed_orders' = all_executed_orders \o fresh
         /\ \/ /\ listed_orders' = Newest(LastTrades, all)
               /\ fulfilled_orders' = Newest(LastTrades, all)
            \/ listed_orders' = all /\ UNCHANGED fulfilled_orders
  /\ UNCHANGED <<ui, raw, lvls, best, spread, all_engine_stats>>

Distance(p, q) == IF p < q THEN q - p ELSE p - q

(* The spread stays what it was while a side is empty. *)
ShowBest ==
  /\ Take("BestLevels")
  /\ LET new == Feed[shown + 1].best
     IN  \/ /\ best' = new
            /\ spread' = IF NIL \in {new["Bid"], new["Ask"]}
                         THEN spread ELSE Distance(new["Bid"], new["Ask"])
         \/ UNCHANGED <<best, spread>>
  /\ UNCHANGED <<ui, raw, lvls, all_engine_stats,
                 all_executed_orders, listed_orders, fulfilled_orders>>

Show == ShowStats \/ ShowLevels \/ ShowTrades \/ ShowBest

allVars == <<vars, genVars, displayVars>>

SimulationInit == SimulatorInit /\ DisplayInit

SimulationNext ==
  \/ SimulatorNext /\ UNCHANGED displayVars
  \/ Show /\ UNCHANGED <<vars, genVars>>

SimulationSpec == SimulationInit /\ [][SimulationNext]_allVars

-----------------------------------------------------------------------------
SimulationTypeOK ==
  /\ TypeOK
  /\ task \in {"seeding", "generating", "returned", "panicked"}
  /\ seeded \in 0..Seeds /\ idx \in 0..Orders
  /\ making \in {"ADD", "MODIFY", NIL}
  /\ order_id \in 1..Seeds + Orders + 1
  /\ executed \in Seq(Execution)
  /\ executed_orders_offset \in 0..Len(executed)
  /\ shown \in 0..Len(Feed)
  /\ ui \in {"running", "panicked"}
  /\ \A side \in Side : best[side] \in Price \cup {NIL}
  /\ spread \in Nat \cup {NIL}
  /\ Len(fulfilled_orders) <= LastTrades
  /\ IsSuffix(listed_orders, all_executed_orders)

(* No trade is lost on its way to the page, and none comes twice or out of  *)
(* order, the timers whatever they do: what the page has and what is still  *)
(* on its way is what the book has traded up to the last order reported.    *)
TradesReportedOnce ==
  all_executed_orders \o TradesIn(SubSeq(Feed, shown + 1, Len(Feed)))
    = SubSeq(executed, 1, executed_orders_offset)

(* The levels at which orders rest, with the shares of those orders. *)
RestingLevels(side) ==
  [p \in {orders[o].parent_limit : o \in {o \in Resting : orders[o].bid_or_ask = side}} |->
     MapThenSumSet(LAMBDA o : SharesIn(orders)[o], Queued(side, p))]

(* A page that has caught up shows the orders that rest: when it takes the  *)
(* levels of the last order, they are the best levels at which orders rest, *)
(* with their shares, and the best prices are the best of both sides, the   *)
(* spread between them.  What the page is sent is read off the tree and its *)
(* edge, which may have lost a level or the best price by then.  Nothing is *)
(* said of the levels when the user has asked for fewer (BestLevelsOnly).   *)
ShownBookIsCurrent ==
  [][ making = NIL /\ shown' # shown /\ Len(sent) > 1
      /\ shown >= Len(Feed) - Len(sent[Len(sent)])
      => /\ ~ BestLevelsOnly /\ raw' # raw /\ ui' = "running" =>
              \A side \in Side :
                LET book   == RestingLevels(side)
                    groups == Grouped([p \in Top(UpdateDepth, side, DOMAIN book) |-> book[p]])
                    top    == Top(Levels, side, DOMAIN groups)
                IN  lvls'[side] = WithTotals(side, [g \in top |-> groups[g]])
         /\ best' # best =>
              /\ \A side \in Side : best'[side] = BestOf(side, DOMAIN RestingLevels(side))
              /\ NIL \notin {best'["Bid"], best'["Ask"]}
                   => best'["Bid"] < best'["Ask"] /\ spread' = best'["Ask"] - best'["Bid"]
    ]_displayVars
=============================================================================

# Verification of the rust_lob order book

TLA+ models of the limit order book in `src/backend` and `src/frontend`, the TLC
configurations that check them on small instances, and TLAPS proofs of what
matters most for every instance. `PROJECT.json` lists the runs, the source lines
every definition stands for, the hazards the properties are aimed at, and the
theorems.

An operator named `<definition>_<fault>` is a deliberately wrong version of the
definition that follows it. The models do not use it. Each property of a passing
run is paired with one of them (`mutants` in `PROJECT.json`): with the wrong
version in place, TLC reports the property violated.

## 1. The system

| Component | Source | State | Operations | Interacts with |
|---|---|---|---|---|
| AVL tree of price levels | `engine/tree.rs` | one node per live price: parent, left, right, stored height; root and best price ("book edge") of each side | insert a level, delete a level, four rotations, leftmost | called by the Arena; mutates the Arena's maps in place |
| Matching engine (`Arena`) | `engine/orderbook.rs` | two maps of levels, orders by id in doubly linked queues per level, `limit_orders`, the trades, counters of the current call | add, modify, cancel, the two matching loops, top-n collectors, random id | called by the simulator and by the upload handlers; each owns its own Arena |
| Order generator (`Simulator`) | `order_generator/gen.rs` | an Arena, next order id, statistics, an offset into the trades | seed, generate one order, build the updates after it | run by the task a WebSocket Start spawns |
| WebSocket session | `route_handlers/sockets.rs`; `utils/ws_handler.rs`, `pages/simulator.rs` in the frontend | server: bounded channel, batch, socket halves; client: the `ws_conn` slot, `sim_completed`, `feed_killed`, the view | Start, Stop, Ack, Close, batches of 500, completion | one select loop and one generating task per socket; one page shares its slot among consecutive sessions |
| Rate limiter, visit log | `midwares/app_state.rs` | Redis counters per address and global, with expiry; a Postgres row per visit | `would_exceed_limit`, `record_orders`, `record_in_db` | called by sessions and uploads, several at a time |
| Upload sessions | `route_handlers/uploads.rs`, `file_upload/processor.rs`; `utils/file_handler.rs`, `components/modeselect.rs` | server: a mutex-protected map of sessions to chunks; page: the file picked, its orders or bytes, the progress bar, the results | server: store, test completeness, collect, charge, process, clear; page: pick, read, submit, send chunk by chunk | concurrent HTTP requests; rate limiter; a fresh Arena per file |
| File parser | `file_upload/parser.rs` | none | text to orders, valid and invalid counts | small files on the page, large uploads on the server |
| Authentication | `midwares/auth.rs`, `utils/auth.rs` | none | origin, freshness, signature | in front of every route |
| Price level display | `utils/priceupdate.rs`, `pages/simulator.rs`, `components/orderbook.rs` | the levels and best prices shown, the trades collected and listed, the statistics | grouping, deltas, totals, timed refresh | fed one by one by the updates of a session |
| Statistics, plots, forms, documentation, server assembly | the rest | display state | rendering, wiring | not modelled |

What makes each correct, and what is hard about it:

* **Tree**: it is a search tree over exactly the live levels, the edge is the best
  of them, and the stored heights that decide rotations are the true ones. Hard:
  long legal sequences of insertions and removals.
* **Engine**: price-time priority. The book is never crossed, a trade is with the
  first order at the best price, volumes kept per level equal what is queued, a
  call ends. Hard: two nested loops over lists that shrink underneath them,
  levels that disappear in the middle, orders modified while they are matched.
* **Simulator**: never panics on an empty side or a dead id, and each trade is
  reported exactly once. Hard: extreme distributions, thresholds, fallbacks, offsets.
* **Session**: every update of a simulation arrives once and in order, completion
  comes after the last, every session ends, and a session cannot act on the next
  one. Hard: two tasks, a bounded channel, a peer that vanishes, messages in flight
  across Stop and Start.
* **Rate limiter**: no address exceeds its limit in a window, and every counter
  expires. Hard: check and record are separate requests; crashes between commands.
* **Uploads**: each file is charged and run once, what is uploaded is what was
  submitted, and the page's progress bar goes. Hard: concurrent requests, retries,
  a restart between two chunks, signals read after an await, early returns.
* **Display**: a page that has caught up shows the book. Hard: levels merged
  into those on display, refresh timers that drop some updates and keep others.

The full list, with lines, is under `hazards` in `PROJECT.json`.

## 2. Modules

    AvlTree            operators: the tree of one side
      |- AvlTreeProofs TLAPS: what the operators do to a search tree
      |- LimitTree     one side as a state machine: levels come and go
      |    |- LimitTreeProofs   TLAPS, with AvlTreeProofs
      |- OrderBook     the Arena: both sides, queues, the calls as loops
           |- refines MatchingEngine   abstract price-time matching
           |            |- MatchingEngineProofs   TLAPS
           |- OrderBookProofs   TLAPS: the refinement, with AvlTreeProofs
           |                    and MatchingEngineProofs
           |- MCOrderBook       with sets of orders for TLC
           |- Simulator         the order generator and the updates it sends
                |- SimulationDisplay   the page that shows them, level display included
                |- SimulatorProofs     TLAPS, with OrderBookProofs

    WsServer           the socket loops, channels and generating tasks of the server
      |- WsPage        the page's handlers, slot and buttons; the network; the whole

    RateLimiter        the two counters, one step per Redis command

    SessionProofs      TLAPS: WsPage, and RateLimiter, which every Start asks and charges

    UploadServer       the upload routes, the map of chunks, restarts
      |- UploadPage    the page's tasks: pick, read, submit, upload; the whole
           |- MCUploadPage        the numbers of chunks for TLC
           |- UploadProofs        TLAPS: types, charges, runs; results, the
                                  assertion, what is uploaded

    FoldLemmas         TLAPS: induction, sums over sets and concatenations, for the
                       proofs of the tree, the arena, the simulator and the sessions

### AvlTree and LimitTree (`tree.rs`, `add_limit` and the collectors)

The arena of a side is a function from prices to records with the code's fields.
`None` is the model value `NIL`. A side is a record of the arena, the root, the
best price and the number of rotations counted. The left and right versions of a
rotation are one operator with a direction. The recursion of `insert_recursive`
is a recursive function over the levels on the way down, with `Unwind` for what it does
on the way up; the loop at the end of `delete_limit` is one over the ancestors
(`RebalanceUp`). **Heights are the stored ones**: as in the
code, a removal recomputes none unless a rotation does. There is no RECURSIVE
operator, so that lemmas about the tree can be proved.

`LimitTree` adds and removes any level at any time, which is what orders do to
one side through add, execute, cancel and modify. The history variable
`cancelled` says whether a level other than the best was ever removed, which
execution alone cannot do.

### OrderBook (`orderbook.rs`)

| Variable | Code |
|---|---|
| `arena["Bid"]`, `arena["Ask"]` | `buy_limits`, `buy_tree`, `highest_buy`; `sell_limits`, `sell_tree`, `lowest_sell`; the two `rebalances` add up to `avl_rebalances` |
| `orders` | `orders`, with `next_order`, `prev_order`, `parent_limit` |
| `limit_orders` | `limit_orders` |
| `executed_orders` | the trades pushed since the call began; its length is `executed_orders_count` |
| `call` | the local variables of a running call: remaining `shares`, the helper's `fill`, the `head` id read last, whether this is the `last` level |

| Action | Code |
|---|---|
| `AddLimitOrder`, `ModifyLimitOrder`, `CancelLimitOrder`, `UnknownOrder` | the three public operations up to their first matching step |
| `TakeLevel` | one turn of the loop of `limit_order_as_market_order` |
| `ExecuteHead` | one turn of the loop of `market_order_helper`, deletion of the level included |
| `LeaveHelper` | the partial fill after that loop, and the return |
| `RestOrDrop` | the end of add and modify: rest, or drop a modified order |

The arena is owned by one thread, so no second call starts while one runs. The
loops are split into steps to relate each trade to one step of the abstract
engine, not because anything interleaves with them.

### MatchingEngine and its proofs

`MatchingEngine` knows no tree, list or volume: `book` maps ids to side, price and
shares, `ahead` maps an id to the ids ahead of it at its price, `taker` is the
order being matched, `trades` those of the call. `OrderBook` implements it under a
refinement mapping: `ahead` is read off the `prev_order` links, and what is left
of the taker is `shares` plus `fill`, or `fill` alone on the last level.

### WsServer and WsPage (`sockets.rs`, `ws_handler.rs`, `simulator.rs`)

A session is one connection, opened by one click on Start; the sessions of a page
are numbered in the order of the clicks. `up` and `down` are the two directions of
a connection, first in first out. What a simulation sends is numbered: 0 the snapshot,
1 to `Orders` the updates of each order, `Orders + 1` the completion message; a frame to
the client is a sequence of these, the close frame an empty one.

| Variable | Code |
|---|---|
| `loop`, `batch`, `chan` | `handle_socket`: whether its loop runs, its batch, its channel |
| `task`, `sent` | `process_start_message`: its state, how many messages it has put into the channel |
| `view`, `feed_killed`, `ws_conn` | the page's signals; which session's sending half the slot holds |
| `handler`, `got` | `handle_websocket` of a session and what it has processed; its `first_valid_message_received` is `got[s] # << >>` |
| `wire` | the connection, which `Lose` breaks with everything on it |

One action is one turn of `select!` (`Admit`, `Refuse`, `FailToRecord`,
`ReceiveAnswer`, `ReceiveClose`, `Forward`), one channel send of the task
(`Generate`), one frame read by a handler (`ReadUpdates`, `ReadCompleted`,
`ReadLimitExceeded`, `ReadClose`), the end of a connection without a close frame
(`FeedBreaks`), a panic of the generator (`GeneratorPanics`, at any moment), or one
click. Waiting inside a turn blocks only the loop that waits, whose state nobody else touches, so a turn is one step. The answer of the rate limiter is
a free choice. A message to a server that is gone is lost or fails, as the
browser may not know yet. A click is handled at once. Left out: the page's own
channel to its display, and `sim_completed`, on which only the button for the final
results depends.

### Simulator and SimulationDisplay (`gen.rs`, `simulator.rs`, `priceupdate.rs`)

`Simulator` extends `OrderBook`: every call the generator makes is an action of the Arena,
trees, lists and loops included, conjoined with what the generator does before and after it.
`BestPrice` is the edge of a side, `highest_buy` or `lowest_sell`, and `LevelsOf` what the
traversal collects, from the root or, with `BestLevelsOnly` (`show_best_price_levels`, off by default,
`sockets.rs:21`), from the edge. So both go wrong where the code's do.

| Variable | Code |
|---|---|
| `task`, `seeded`, `idx` | how far `process_start_message` has come: `seed_orderbook`, its loop over `num_orders` |
| `making` | the type of the order whose call is running, known to `generate_orders` |
| `order_id`, `engine_stats`, `executed_orders_offset` | the fields of the struct |
| `executed` | `executed_orders` of the Arena, which is never emptied |
| `sent` | the vectors of updates handed to the channel, in order |

`Seed` and `EndSeed` are `seed_orderbook`; `GenerateOrders` draws a type and runs `AddLimit`,
`CancelLimit` or `ModifyLimit`, with the fallbacks to a new order while the book is not
deeper than `Threshold`, and the panics of `unwrap` on a missing best price; `Trading` is a
fill; `EndOrder` and `Report` are the end of the call and `generate_updates`. A random
draw is a choice: a side, any price on the near side of the other side's best
price, any id that rests. A draw beyond the last cumulative probability
panics, which rounding makes possible at every order. Left out are the panics inside the Arena when
a tree has lost a level that orders still name; no step of the model follows such a call.

`SimulationDisplay` adds the page's task that takes the updates one at a time, at
any pace, from the concatenation of what was sent; that the way from the server keeps
the order is `PipelineInOrder` of `WsPage`. Levels are functions from price to
volume. `Applied` is `apply_deltas`: the levels still there and others while there is
room, which ones is open, as the code takes them from a hash map. The timers
of the collector are choices. The depth percentages of the bars are left out.

### RateLimiter (`app_state.rs`)

| Variable | Code |
|---|---|
| `count`, `expiring` | the value of each Redis key (0 if there is none) and the keys with an expiry |
| `call` | of each request: at which command of `would_exceed_limit` or `record_orders` it is, for which address and how many orders |
| `unseen`, `orphaned` | history: orders let past a key with no look at its counter, by a read that failed and counted as 0 or by `RecordAgain`; keys whose creator stopped between `INCR` and `EXPIRE` |

A caller is what asks and is charged together: a Start message, or an upload. But
`small_upload_handler` asks in the request with chunk 0 and charges in whichever finds the
upload complete (`uploads.rs:38-57`), so that a last chunk sent again charges without having asked:
`RecordAgain`. (`large_upload_handler` asks again before it charges.) One step is one command to Redis (`CheckAddress`, `CheckGlobal`, `IncrAddress`,
`ExpireAddress`, `IncrGlobal`, `ExpireGlobal`), its failure (`LimiterFails`, `AnswerLost`), the end of the request
(`Leave`), or the end of a key (`Expire`). A command is atomic in Redis; everything
may come between two of them.

### UploadServer and UploadPage (`uploads.rs`, `processor.rs`, `modeselect.rs`, `file_handler.rs`)

| Variable | Code |
|---|---|
| `sessions` | the map of `SessionManager`, of each upload the chunk numbers stored |
| `handler`, `route` | the handlers of an upload's requests in their slots, with the chunk each carries and where it is, or its answer; the route they take |
| `visits`, `charged`, `runs` | what handlers have done outside of it: rows of the visit log, charges under both keys, runs of the file's orders |
| `selected_file`, `is_large_file`, `parsed_orders`, `large_file_contents`, `server_processing`, `ob_results` | the page's signals |
| `reader`, `uploader` | the tasks that read a picked file and that upload a submitted one |
| `crashed` | the panic that has stopped the page: a file without a size (`modeselect.rs:48`), a failed assertion or a missing signer |
| `repeats`, `wiped`, `submitted`, `mixed`, `quiet` | history |

A handler's step is what it does between two awaits or two locks of the map:
`Enter` (authentication, the limit on the first chunk, `store_chunk`),
`TestComplete`, `CollectChunks`, `ChargeAddress` and `ChargeGlobal` (the two halves of
`record_orders`), `Process`, `ClearChunks`. Awaits between which the
handler touches nothing shared are merged into one step. The limiter appears as any of its
outcomes, since other clients can bring about each of them. A handler whose
client is gone may be dropped between any two steps, the server may restart,
and the browser may send a request again on a new connection. The chunks of a
file are numbers and its orders one value; whether a large file has valid orders is a
choice. The page sends a session's chunks one after the other, as the code does;
nothing relies on it on the server's side. A panic in the page's WebAssembly stops it:
no task runs after it.

## 3. What the runs show

| Run | Instance | Result |
|---|---|---|
| `limit_tree` | 7 prices, both sides | holds |
| `matching_engine` | 4 orders, 3 prices, 1 or 2 shares (0 to 2 asked for) | holds |
| `order_book` | 3 orders, 3 prices, up to 2 shares | holds |
| `tree_edge` | 8 prices, execution alone | `BookEdgeIsBest` violated |
| `tree_snapshot` | 5 prices | `SnapshotIsTopN` violated |
| `price_priority` | 4 orders, 4 prices, 1 share | `PricePriority` violated |
| `ws_page` | 2 sessions, 3 orders in batches of 2, a channel of 1 | holds |
| `ws_ack` | the same | `AckMeansComplete` violated |
| `ws_failure` | the same | `FailureLeavesAWayOut` violated |
| `rate_limiter` | 2 callers, 1 address, limits 2 and 3 for calls of 1 or 2 orders, 2 orders unseen | holds |
| `uploads` | 2 uploads of 2 and 1 chunks, 3 files, 2 picks, 1 fault | holds |
| `simulation` | 2 seeding and 3 generated orders, 4 prices, 1 share | holds |

**limit_tree.** Seven prices give trees of height 3 and 4 with single and double
rotations at and below the root. The constraint `TrustedHistory` explores to the end every history that
only executes, and every history with cancellations until a stored height goes
stale, and checks the states one step past that point as well. Within it the tree
stays a search tree (`SearchTree`), the edge the best price (`BookEdgeIsBest`) and
the snapshot complete (`SnapshotIsTopN`); `InsertionBalances` shows that it is
removal alone that makes heights stale. The constraint is needed because
beyond it the properties fail, and so is the bound of seven prices for the
histories that only execute: that is what the three violations are. What the properties
rest on instead of these bounds is proved in `LimitTreeProofs`.

**order_book.** Three orders are enough for a taker against a queue of two, a
removal from the head, the middle and the tail of a queue of three, fills across two levels with a partial
fill at the end, and a modification that crosses. Three prices a side keep each tree below the
size at which the removal defect bites, so the run isolates the queue and
matching logic: `LevelsAgreeWithOrders` (sizes, volumes and links agree with the
orders queued, at every step of the loops), `DrawnIdsAreLive`,
`ImplementsMatchingEngine` (every step is an abstract step or a stutter), and
`CallsEnd`. `TreesServe` is all that the queues and loops rely on in the trees: the edge
is the best price, and whichever price were added or removed next, exactly the other
levels would be left, with their orders, sizes and volumes. Here TLC finds that the
trees do serve, up to three levels; `TreesAlwaysServe` says on what condition any tree does,
`BushyTrees`, which holds in every state of this run as well.

**price_priority.** The same model with a fourth price: bids at 1, 3, 4 and 2, the
last two levels of the right branch cancelled, and the next ask trades at 1 while a
bid at 2 rests. `docs.rs:64` promises that the best price gets priority.

**tree_edge, tree_snapshot.** The cause and two more effects. `delete_limit`
decides on rotations from heights nobody updated, so that a tree may stay out of balance
(`docs.rs:128` promises it is restored). No cancellation is needed: of bids that came in at
3, 6, 7, 4, 8, 1, 2, 5, one taker executes 8, 7 and 6, and `highest_buy` is 4 while 5 rests
(`tree_edge`; with seven prices it does not happen). With
cancellations a removed root may be replaced by one from which a live level is not
reached, so the snapshot (`docs.rs:223`) leaves it out (`tree_snapshot`).

**ws_page.** Three orders in batches of two make one full batch and a rest that
goes out with the completion message; a channel of one makes the task wait; two
sessions may overlap (Start is offered until the first update arrives) or follow each
other while messages of the first are still under way. `PipelineInOrder` ties the
four places an update can be in; `TasksEnd`, `AnsweredFeedsEnd` and
`CompletionArrives` say what must have happened when nothing is left to do;
`AnsweredOnce` is about the shared slot. A generator may panic at any moment; as the loop
keeps a sender of its own it then waits for its client. Deadlock is not checked, as the system
stops when the user has no click left.

**ws_ack, ws_failure.** Sharing one slot among sessions lets a completion end somebody
else's simulation as "simulation complete" (`sockets.rs:118`). A
handler that fails after a completion leaves the page without a way back, although its toast
(`simulator.rs:475`) asks the user to try again: `Completed` has emptied the slot, only the end of the
connection would set `feed_killed`, and the error comes in between, so the page shows Stop, which
finds no connection (`simulator.rs:285`) and does nothing. A failure before the
completion is no such trap, as the slot still holds a write half; Stop takes it and sets `feed_killed`.
`FailureLeavesAWayOut` therefore counts a connection in the slot as a way out.

**rate_limiter.** Two callers of one address are enough for every interleaving of two
calls on both keys, and a limit of 2 for calls of up to 2 orders for a call that is
refused, admitted and admitted together with another. `OvershootIsBounded`: the two
requests of check and charge let a counter pass its limit, by no more than
what the other callers were admitted for at the time and what was charged with no look
at the counter: after a failed read, or for a last chunk sent again. Two orders unseen (`MaxUnseen`) are a
failed read and a second charge one after the other, or one charge of the largest size. `ExpiryIsComing` and `CountersReset`: a key without an expiry blocks an address for good, and
the only way to get one is a creator that stops between its two commands.

**uploads.** The first upload has an intermediate and a last chunk, the second only
a last one. Two picks let files be read side by side and a file be
picked after Submit, and one of them may be empty; one fault is a repeated request (two handlers at the same
chunk, for `ProcessedOnce`) or a restart between two chunks (for
`LastAnswerIsProcessed`). Drops and failed requests are not bounded. `RunsAreCharged` orders the
effects of a handler, `UploadsUnmixed` states when what is uploaded is what was
submitted: the file was read by then, alone, and none was picked before the
health check was answered. Otherwise the code does upload another file, or two in
one. `ResultsAreFinal` and `UploadsEnd` tie the page to the server. The numbers of
chunks differ by upload, so `MCUploadPage` defines them. Deadlock is not checked, as the
user's picks are bounded and a crashed page does nothing more.

**simulation.** With two seeding orders a side may be empty at the start, or both filled; three
generated orders are an order that falls back, one that rests or trades, and one with levels from a
deeper book. `Threshold` equals `Seeds`, as in the code (10,000 both). A `Period` of 2 makes levels
and best prices go out with different orders. One level shown makes both `drain` with enough levels
and its panic happen; a list of one trade makes the window move; tickets of 2 join prices. One share
an order is enough: a level gets its volume from several orders, and partial fills are the matter of
`order_book`. `TradesReportedOnce` follows every trade from the book to the page's collection,
whatever the timers do. `StatsMatchOrders` is about the records fetched by index.
`ShownBookIsCurrent` compares the display with the orders that rest, not with the tree, at the
moment the page has caught up; it holds here because two seeding orders leave no room for a tree to
lean before the last update. It does not hold of every simulation: with four seeding orders, two
generated ones, four prices, a `Mean` above them all, a `Threshold` and a `Period` of 1, TLC cancels
two of four bids, as in `price_priority`, bids rest at 1 and 2, and the page that has taken every
update shows 1 as the best bid, although `docs.rs:1063` says that the table reflects the latest
data. The condition under which it always holds is in `PageShowsTheBook`. Its part about levels is
for simulations that show all levels: with `BestLevelsOnly` the page asks for fewer. Deadlock is not
checked, as a simulation ends.

Fairness. `MatchingEngine` assumes weak fairness of `Match`, `OrderBook` of `Run`: a
synchronous function that was called keeps executing. No fairness is assumed of
callers. In `OrderBook` the enabling condition is written out as `call # NIL`,
which TLC evaluates faster than ENABLED; deadlock checking shows that an open call
always has a step. `WsPage` assumes weak fairness of the server as a whole and of the
page's handlers as a whole: tokio and the browser run whatever can run. As a
simulation is finite, no task can be passed over for ever. Nothing is assumed of the user,
of the network or of a panic. `RateLimiter` assumes weak fairness of each caller's `LimiterStep`
(Redis answers or the command fails, and `LimiterStep` includes both) and of the
expiry of each key, which is Redis's own doing. `UploadPage` assumes it of the page and
of the server as wholes; an upload is finite work. No repeat, drop, restart or
click is ever assumed to happen. A request whose handler is gone fails at last
(`FailRequest` is part of `Page` then), as the browser sees the connection close.
`SimulationDisplay` has no liveness property, and no fairness.

Bounds. `MaxShares` bounds the shares of one order; `Id` is a set of ids that may
be used again once the order is gone, which covers generators that never reuse
one. Trades are kept for one call, which bounds them by the number of orders.
`MaxSessions` bounds the clicks on Start, `Orders`, `BatchSize` and `ChannelSize` stand for
50,000, 500 and 1,000,000. `MaxUnseen` bounds the orders charged without a look at the counter,
and with the limits keeps the counters finite. `MaxUploads` and `MaxPicks` bound clicks,
`MaxFaults` repeats and restarts together, `MaxDelay` the age of a request either way;
`TimeRange` stands for 2^64 and need only be larger than all ages. `Seeds` and `Orders`
of `Simulator` bound the run as in the code.

## 4. What is proved

All theorems hold for every value of the constants that satisfies the named
assumptions. No recursive operator is used. Where a sum or a concatenation needs
induction, `FoldLemmas` has it: the library's induction theorems take an operator, so
induction is over a SET of naturals or of subsets instead (`NatInductionOnSet`,
`SubsetInduction`). From it follow what a sum over a finite set becomes when an element
joins, leaves or changes (`SumAdd`, `SumRemove`, `SumSame`) and what `FlattenSeq` returns
for a sequence that grows or shrinks at either end (`FlattenAppend`, `FlattenHeadTail`).

**MatchingEngineProofs**, for every set of ids, every set of integer prices
and every bound on shares (assumptions `PricesAreIntegers`, `SharesAreNaturals`,
`NilIsNoTaker`):

* `TypeCorrect`: type correctness, and the taker never rests at the same time.
* `TimePriority`: queues are lines. Every step but `Finish` only takes from the book
  (`StepsOnlyTake`: what rests keeps side and price, and the orders ahead of it that still
  rest); `Finish` adds one order behind its whole level.
* `BookNeverCrosses`: the same split. `Finish` rests an order only when no order on
  the other side crosses it.
* `BestPriceFirst`: `TradesWorsen` is not inductive. The invariant that is says that no
  resting order has a better price than a trade already made (`TradesBeatTheBook`);
  the next trade is with a resting order.
* `PlacesAreKept` and `MakersAreFilledInFull`: the two action properties.

**AvlTreeProofs**, lemmas for any set of integer prices (`PricesAreIntegers`,
`NilIsNoPrice`) and **whatever heights are stored**. `IsTree` describes a search tree by
its links and by `U`, which gives every level the set of prices at and below it: what the code
keeps nowhere, and what the proofs do induction on. From the leaves up:

* `RotateRebuilds`, `DoubleRotateRebuilds`, `BalanceRebuilds`: every rotation `balance_tree` may
  choose, by heights true or stale, gives a search tree of the same prices, and finds the
  grandchild it unwraps.
* `InsertSteps`, `InsertRebuilds`, `AddKeepsSide`: down the way to a price, a leaf at its end
  (`LeafAdded`), and a rotation or none at each level on the way back.
* `SpliceKeepsTree`, `RenameKeepsTree`, `DeleteKeepsSide`: removal by splicing, or by
  moving the next higher price into the place, then the pass over the ancestors. Two
  places here, the new edge and the new root, look at one child or at the leftmost level of
  one subtree; they are right if an only child is a leaf (`Bushy`).
* `BalanceCounts`, `InsertCounts`, `AncestorsRise`: a call counts no more rebalances than there are
  levels, as it balances each of them once at most.

**LimitTreeProofs**. Its theorems have the form `Spec /\ []BushyTree => ...`, but for those about trees
that only grow.

* `TreeStaysSearchTree`, `EdgeStaysBest`, `SnapshotStaysTopN`: `SearchTree`, `BookEdgeIsBest` and
  `SnapshotIsTopN` from one invariant, `TreeInv`. As a step preserves it from a state with
  `BushyTree` alone, whatever happened before, the properties hold up to and including the
  first state whose tree is not bushy. `ListIsTop` is about the traversal that stops after n levels.
* `BalanceIsEnough`: `Balanced` implies `BushyTree`. So all three properties hold of
  the AVL tree the documentation describes; the three runs refute them of the one the
  code builds.
* `InsertionKeepsBalance`: `InsertionBalances`. `Sound` says of a set of levels that each has the height
  its children give it, and children of nearly the same height; of the whole tree
  that is `HeightsExact /\ Balanced` (`SoundIsBalanced`). What comes back up the way of an insertion is
  sound and, by `Inserted`, as high as before, or one higher and then not level at its
  top, or a new leaf. This last part is what makes the claim inductive: a limit that now leans by two has
  a higher child that leans as well, and only then does a rotation lower the subtree (`SingleSound`,
  `DoubleSound`, `BalanceSettles`). It takes the growth back, so no second one follows (`UnwindSound`).
* `GrowingTreeIsSound`: while no level is removed, nothing needs to be assumed. Heights are
  true, the tree is balanced, so bushy, and the three properties hold. Stale heights come from
  `delete_limit` alone.
* `TypesStayRight`, for finite sets of prices: `TypeOK` wherever the stored heights are the true
  ones, as a tree is no deeper than it has levels (`DepthIsSmall`); `GrowingTreeKeepsTypes`
  without that hypothesis while no level is removed. Nothing is proved of the size of stale heights.

The hypothesis cannot be dropped, and behaviours meet it: `BushyTrees` holds in all states of
`order_book`. It is not necessary: some trees that are not
bushy still serve, `limit_tree` reaches some.

**OrderBookProofs**, any ids, prices and shares (also `SharesAreNaturals`, `NilIsNoValue`,
`NilIsNoTaker`). All but one of its theorems have
the form `Spec /\ []BushyTrees => ...`. Without that hypothesis they are false
(`price_priority` violates `PricePriority`).

* `TreesAlwaysServe`: `TreesServe`. Every action keeps both sides in good order
  (`TreesInOrder`), by the lemmas about adding and removing a level; what the queues write
  into a level is no link (`LevelKeepsSide`).
* `EngineIsPriceTimePriority`: the Arena implements `MatchingEngine`. The invariant
  `ArenaInv` goes up from the links: the orders of a price form one chain, read in both
  directions, in which the places `AheadOf` reads off `prev_order` are those of the
  links (`Chained`); a level's size and volume count and add up its chain
  (`LevelOK`); a side has a level for each price at which an order rests and no other
  (`SideOK`); every resting order is in the chain of its price (`BookOK`); a running call finds at
  the edge the level it has set out to fill, within its limit, and enough in it for what the helper
  is to fill (`CallOK`). `AheadOf` is a recursive function over
  the links, so that its equation needs the chains to be finite and free of cycles
  (`PlacesFromLinks`). One lemma each says what an order that leaves, joins or gives up
  shares does to a chain, to its level and to the book; one lemma per action follows,
  then the refinement.
* `LevelsAlwaysAgree` and `ArenaTypeCorrect` from the same invariant.
* `TradesAtBestPrice`: `PricePriority`, which `price_priority` refutes for a lopsided tree,
  needs no more than bushy trees.
* `ArenaKeepsTheRules`: the theorems of `MatchingEngineProofs` carried over: the book of
  the code never crosses, its queues are lines, the trades of a call worsen, nobody
  jumps the queue and only a call's last fill is partial.
* `DrawnIdsAreAlwaysLive`, of every behaviour, whatever the trees do: `Twins` says that
  `limit_orders` and `orders` have the same ids at every step, not only between calls.

**SimulatorProofs** (also `IdsSuffice`, `NilIsNoType`, `DepthsArePositive`, `DisplayIsPositive`,
`BestLevelsOnlyIsASwitch`). The simulation runs on the Arena, so that a theorem
that depends on its trees has the form `... /\ []BushyTrees => ...`. A long simulation with
cancellations does not keep to that: then the best price and the levels shown may be wrong, and the book may cross (section 3, `simulation`). Four
theorems hold whatever becomes of the trees:

* `SimulatorUsesTheEngine`: a simulation, seen through the Arena's variables, is a
  behaviour of `OrderBook`. An action of the generator is one of the Arena only if
  its id belongs to `Id`, and does not rest where the order is new, so this needs an invariant about
  ids, `SimulatorInv`: `CountersAgree` (seeded, generated and next id), `IdsAreGiven`
  (every id that rests or is being matched was given before), and `Twins`.
* `NewIdsAreFresh` from the same invariant.
* `StatsAreComplete`: `StatsMatchOrders`. `Accounts` says which trades are still owed to the next
  report (those past `executed_orders_offset`), `Records` that each list sent was sound
  when it was sent and that there is one for each record.
* `EveryTradeIsShownOnce`: `TradesReportedOnce`. What the page has collected, joined to the
  trades in what is still on its way, is what was reported (`TradesAreShown`). The concatenation of the
  lists sent grows at one end and is eaten at the other.

Three hold as long as an only child is a leaf:

* `SimulationNeverCrosses`: by `ArenaKeepsTheRules`. A stale `highest_buy` lets an ask rest at
  or below a bid, so the condition is needed.
* `SimulationTypeCorrect`, with `TasksAreNamed`, `ListIsShort` and `Quotes` (the best prices sent and
  shown are prices; the edge is one while the tree is in order).
* `PageShowsTheBook`: `ShownBookIsCurrent`. Between calls, the last list sent describes
  the Arena as it is (`LastIsCurrent`), because a report comes at the end of every call and
  nothing changes the Arena after it. What it says is what rests: the traversal lists the n best levels of
  a search tree (`LevelsAreRead`), a level is there exactly for a price at which orders rest and its
  volume adds up their shares (`ReadIsResting`), the edge is the best of these prices
  (`QuoteIsResting`), and the two best prices do not cross (`QuotesAreApart`), so that the
  absolute value the page shows is their difference.

**SessionProofs**, of `WsPage` (`SizesArePositive`), any number of sessions and orders, any sizes:

* `WsTypeCorrect`: also that no simulation sends more than its messages and no
  channel or batch outgrows its size. The count of messages is inductive only with
  `SessionInv`: Start is the first message of its connection, its task has not run
  before it (`StartIsFirst`), and nothing happens on a connection before it is opened
  (`Unopened`). Otherwise a second Start could set a returned task running again.
* `NoSecondAnswer`: `AnsweredOnce`, restated over the indices of the messages (`SlotUnanswered`).
  Every step leaves only old messages on the connection in the slot, empties the slot,
  or puts a new connection into it.
* `UpdatesInOrder`: `PipelineInOrder`. What a page has got of a session, what is on the
  wire, in the batch and in the channel are in this order 0, 1, 2, ... up to what was sent,
  while the connection lasts (`Ordered`); a session nobody opened has nothing (`Blank`).

**SessionProofs**, of `RateLimiter` (`GlobalIsNoAddress`, `LimitsAreNaturals`, for the last also
`CallersAreFinite`), any callers, addresses and limits:

* `LimiterTypeCorrect`.
* `ExpiryIsNeverForgotten`: `ExpiryIsComing` is not inductive: were two callers about
  to set the expiry of one key, one could do so, the key expire, and the other be left.
  `OneSetter` adds that a caller about to set an expiry is alone and its key has none yet
  but exists.
* `OvershootNeverGrows`: `OvershootIsBounded` is inductive, with types. What callers past a check
  have still to charge is a sum over callers; a step changes one summand, and
  an admission happens below the limit or, like a charge that nobody asked for, is counted in `unseen`.

**UploadProofs** (`BoundsAreNaturals`, `ChunksArePositive`, `NilIsNoFile`), any numbers of uploads, chunks and faults:

* `UploadTypeCorrect`.
* `RunsAreAlwaysCharged`: `Covered` counts the handlers past each charge: the runs and
  the handlers about to run are no more than the charges, and likewise between the two
  charges and the log.
* `UploadsRunOnce`: `ProcessedOnce` is about the past, so the invariant counts what may
  still happen. Before the page has sent the last chunk an upload cannot be complete
  (`Early`); after that, the runs and the requests that may still lead to one are no more
  than the repeats and the page's own request (`Budget`).

**UploadProofs**, second part (also `NilIsNoPanic`): `StepsByUpload` sorts what a step can do to
one upload into seven cases, and the invariants are per upload.

* `ShownResultsAreFinal`: `FinalInv` says that an upload without a repeated request has at
  most one handler, the one the page waits for (`Alone`), that a handler past its run has
  made one (`HasRun`), and that after `clear_chunks` nothing is stored again (`Forgotten`).
* `AssertionNeedsAFault`: `ChunksKept` says that an upload with neither a repeat nor a
  restart that lost chunks of it has exactly the chunks before the next one on the server,
  so that its last chunk completes it; both exceptions stay once they are made (`FaultsStay`).
* `QuietUploadsAreUnmixed`: while no two files are read at once, all the page holds comes
  from one file (`HoldsOnly`), and that is the file of the one quiet upload (`PickInv`).

Only model-checked:

* liveness and everything under fairness (fairness and ENABLED are out of the prover's reach);
* the size of stale heights: `limit_tree` checks `LimitTree.TypeOK` of executed-only histories as well,
  `TypesStayRight` where heights are true;
* which histories with removals keep an only child a leaf: the theorems have it as their
  hypothesis, the runs `tree_edge` and `tree_snapshot` are histories that do not.

## 5. Not modelled

* **The parser**, a pure function of text: whether a line is an order matters to the
  other parts only as "this file has valid orders or not", which is a choice.
* **Statistics and plots**: floating-point figures of latencies and calls into
  JavaScript, on which no other state depends. The final results are computed from
  whatever the page has shown by then; nothing states that this is all.
* **Origin and signature** of a request: rejection is a choice. The test of freshness is
  modelled with its unsigned subtraction.
* **Two simulations in the page's own channel**: `WsPage` ends where a handler has processed an
  update, `SimulationDisplay` has one simulation.
* **Overflow of `total_volume`** and an upload with **two orders under one id**: the engine is
  modelled with exact sums and fresh ids. The simulator's ids are shown to be fresh; of an
  upload `UploadServer` models that running its orders may panic.
* **Rendering, forms, documentation, server assembly**: no behaviour of their own.
  The documentation is read as the statement of what the program promises.
* Latencies, logging, the SQL of the visit log.

What could be added: duplicate ids and volumes modulo a small width in `OrderBook`;
a bound on heights gone stale; a composition of `WsPage` with
`SimulationDisplay` for two simulations of one page.

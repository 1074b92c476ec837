--------------------------- MODULE SimulatorProofs ---------------------------
(***************************************************************************)
(* The simulator keeps to the engine's interface, for any numbers of       *)
(* seeding and generated orders: each of its steps is a step of the arena  *)
(* of OrderBook or none, so that what is proved of the arena holds of a    *)
(* simulation, and no new order reuses the id of one that rests.  What it  *)
(* reports agrees with what was traded, and the page that takes the        *)
(* reports shows every trade once.  All this whatever becomes of the       *)
(* trees; that the page shows the book as it is takes trees whose edge and *)
(* levels are right, hence BushyTrees (OrderBookProofs).                   *)
(***************************************************************************)
EXTENDS SimulationDisplay, OrderBookProofs

(* The next id and the counters keep within the ids there are; an order is  *)
(* being made only while orders remain to be.                               *)
CountersAgree ==
  /\ seeded \in 0..Seeds /\ idx \in 0..Orders
  /\ task # "seeding" => order_id \in 1..Seeds + idx + 1
  /\ making # NIL => task = "generating" /\ idx < Orders

(* The orders in the engine were all made with ids already given: those of  *)
(* the seeding, or those below the next one, which the order being added    *)
(* holds until it is reported.                                              *)
IdsAreGiven ==
  /\ call # NIL => "id" \in DOMAIN call
  /\ IF task = "seeding"
     THEN /\ making = NIL
          /\ DOMAIN orders \subseteq 1..seeded
          /\ call # NIL => call.id \in 1..seeded
     ELSE /\ DOMAIN orders \subseteq 1..order_id - 1
          /\ call # NIL => call.id \in 1..order_id
          /\ call # NIL /\ making # "ADD" => call.id # order_id

SimulatorInv == CountersAgree /\ IdsAreGiven /\ Twins

-----------------------------------------------------------------------------
(* Generating an order is a panic, a call of the engine, or a cancellation  *)
(* reported at once.                                                        *)
LEMMA GenerateCases ==
  ASSUME SimulatorInv, GenerateOrders
  PROVE  /\ task = "generating" /\ idx < Orders /\ making = NIL
         /\ \/ Panic
            \/ \E side \in Side, price \in Price, shares \in 0..MaxShares :
                 AddLimitOrder(order_id, side, shares, price) /\ Begin("ADD")
            \/ \E id \in DOMAIN orders : CancelLimitOrder(id) /\ Report("CANCEL")
            \/ \E id \in DOMAIN orders, price \in Price, shares \in 0..MaxShares :
                 ModifyLimitOrder(id, shares, price) /\ Begin("MODIFY")
<1>1. 1..MaxShares \subseteq 0..MaxShares /\ limit_orders = DOMAIN orders
  BY SharesAreNaturals DEF SimulatorInv, Twins
<1>2. ASSUME NEW side \in Side, NEW price \in Price, NEW shares \in 1..MaxShares,
             AddLimit(side, price, shares)
      PROVE  \/ Panic
             \/ AddLimitOrder(order_id, side, shares, price) /\ Begin("ADD")
  BY <1>2 DEF AddLimit
<1>3. ASSUME NEW side \in Side, NEW price \in Price, NEW shares \in 1..MaxShares,
             CancelLimit(side, price, shares)
      PROVE  \/ AddLimit(side, price, shares)
             \/ \E id \in DOMAIN orders : CancelLimitOrder(id) /\ Report("CANCEL")
  BY <1>1, <1>3 DEF CancelLimit
<1>4. ASSUME NEW side \in Side, NEW price \in Price, NEW shares \in 1..MaxShares,
             ModifyLimit(side, price, shares)
      PROVE  \/ Panic
             \/ AddLimit(side, price, shares)
             \/ \E id \in DOMAIN orders : ModifyLimitOrder(id, shares, price) /\ Begin("MODIFY")
  BY <1>1, <1>4 DEF ModifyLimit
<1> QED
  BY <1>1, <1>2, <1>3, <1>4 DEF GenerateOrders

(* The ids given so far are ids. *)
LEMMA GivenIds ==
  ASSUME SimulatorInv, task # "seeding"
  PROVE  /\ idx < Orders => order_id \in Id
         /\ DOMAIN orders \subseteq Id
<1>1. /\ Seeds \in Nat /\ Orders \in Nat /\ idx \in 0..Orders
      /\ order_id \in 1..Seeds + idx + 1 /\ 1..Seeds + Orders \subseteq Id
  BY IdsSuffice DEF SimulatorInv, CountersAgree
<1>2. order_id - 1 <= Seeds + Orders /\ DOMAIN orders \subseteq 1..order_id - 1
  BY <1>1 DEF SimulatorInv, IdsAreGiven
<1> QED
  BY <1>1, <1>2

(* Each step of the simulator is a step of the engine, or leaves it alone. *)
LEMMA StepsAreEngineSteps ==
  ASSUME SimulatorInv, [SimulatorNext]_<<vars, genVars>>
  PROVE  [Next]_vars
<1>1. ASSUME NEW side \in Side, NEW price \in Price, NEW shares \in 1..MaxShares,
             Seed(side, price, shares)
      PROVE  [Next]_vars
  <2>1. seeded + 1 \in Id /\ shares \in 0..MaxShares
    BY <1>1, IdsSuffice, SharesAreNaturals DEF Seed, SimulatorInv, CountersAgree
  <2>2. AddLimitOrder(seeded + 1, side, shares, price)
    BY <1>1 DEF Seed
  <2> QED
    BY <2>1, <2>2 DEF Next, Call
<1>2. CASE GenerateOrders
  <2>1. /\ task = "generating" /\ idx < Orders
        /\ \/ Panic
           \/ \E side \in Side, price \in Price, shares \in 0..MaxShares :
                AddLimitOrder(order_id, side, shares, price)
           \/ \E id \in DOMAIN orders : CancelLimitOrder(id)
           \/ \E id \in DOMAIN orders, price \in Price, shares \in 0..MaxShares :
                ModifyLimitOrder(id, shares, price)
    BY <1>2, GenerateCases
  <2>2. order_id \in Id /\ DOMAIN orders \subseteq Id
    BY <2>1, GivenIds
  <2>3. CASE Panic
    BY <2>3 DEF Panic
  <2> QED
    BY <2>1, <2>2, <2>3 DEF Next, Call
<1>3. CASE EndSeed \/ Trading \/ EndOrder
  BY <1>3 DEF EndSeed, Trading, EndOrder, Next, Run
<1>4. CASE EndSeeding \/ UNCHANGED <<vars, genVars>>
  BY <1>4 DEF EndSeeding
<1> QED
  BY <1>1, <1>2, <1>3, <1>4 DEF SimulatorNext

(* While the engine matches the ids in use do not change: a maker may       *)
(* leave; at the end the taker may come to rest.                            *)
LEMMA MatchingKeepsIds ==
  ASSUME IdsAreGiven, TakeLevel \/ ExecuteHead \/ LeaveHelper
  PROVE  /\ DOMAIN orders' \subseteq DOMAIN orders
         /\ call # NIL /\ call'.id = call.id /\ "id" \in DOMAIN call'
<1>1. "id" \in DOMAIN call /\ call # NIL
  BY DEF IdsAreGiven, TakeLevel, ExecuteHead, LeaveHelper
<1>2. CASE TakeLevel
  BY <1>1, <1>2 DEF TakeLevel
<1>3. CASE ExecuteHead
  BY <1>1, <1>3 DEF ExecuteHead
<1>4. CASE LeaveHelper
  <2>1. orders' = orders \/ orders' = [orders EXCEPT ![call.head].shares = @ - call.fill]
    BY <1>4 DEF LeaveHelper
  <2>2. DOMAIN orders' = DOMAIN orders
    BY <2>1
  <2> QED
    BY <1>1, <1>4, <2>2 DEF LeaveHelper
<1> QED
  BY <1>2, <1>3, <1>4

LEMMA EndKeepsIds ==
  ASSUME RestOrDrop
  PROVE  DOMAIN orders' \subseteq DOMAIN orders \cup {call.id} /\ call # NIL /\ call' = NIL
<1>1. CASE call.shares = 0
  BY <1>1 DEF RestOrDrop, Without
<1>2. CASE call.shares # 0
  BY <1>2 DEF RestOrDrop, AppendOrder
<1> QED
  BY <1>1, <1>2 DEF RestOrDrop

(* The counters.  Only a report moves idx, and order_id by at most as much. *)
LEMMA StepsKeepCounters ==
  ASSUME SimulatorInv, [SimulatorNext]_<<vars, genVars>>
  PROVE  CountersAgree'
<1>1. ASSUME NEW side \in Side, NEW price \in Price, NEW shares \in 1..MaxShares,
             Seed(side, price, shares)
      PROVE  CountersAgree'
  BY <1>1, IdsSuffice DEF Seed, SimulatorInv, CountersAgree
<1>2. CASE EndSeed \/ Trading \/ UNCHANGED <<vars, genVars>>
  BY <1>2 DEF EndSeed, Trading, genVars, SimulatorInv, CountersAgree
<1>3. CASE EndSeeding
  BY <1>3, IdsSuffice DEF EndSeeding, SimulatorInv, CountersAgree, IdsAreGiven
<1>4. ASSUME NEW order_type, task = "generating", idx < Orders, Report(order_type)
      PROVE  CountersAgree'
  BY <1>4, IdsSuffice DEF Report, SimulatorInv, CountersAgree
<1>5. CASE GenerateOrders
  <2>1. /\ making = NIL /\ task = "generating" /\ idx < Orders
        /\ Panic \/ Begin("ADD") \/ Report("CANCEL") \/ Begin("MODIFY")
    BY <1>5, GenerateCases
  <2>2. ASSUME NEW order_type, Begin(order_type)
        PROVE  CountersAgree'
    BY <2>1, <2>2 DEF Begin, SimulatorInv, CountersAgree
  <2>3. CASE Panic
    BY <2>1, <2>3 DEF Panic, SimulatorInv, CountersAgree
  <2> QED
    BY <1>4, <2>1, <2>2, <2>3
<1>6. CASE EndOrder
  BY <1>4, <1>6 DEF EndOrder, SimulatorInv, CountersAgree
<1> QED
  BY <1>1, <1>2, <1>3, <1>5, <1>6 DEF SimulatorNext

(* The ids.  The seeding gives 1, 2, ... and the next id starts above them; *)
(* the order being added is reported, and the next id moved, before another *)
(* is made.                                                                 *)
LEMMA StepsKeepIds ==
  ASSUME SimulatorInv, [SimulatorNext]_<<vars, genVars>>
  PROVE  IdsAreGiven'
<1> USE DEF IdsAreGiven
<1>1. ASSUME NEW side \in Side, NEW price \in Price, NEW shares \in 1..MaxShares,
             Seed(side, price, shares)
      PROVE  IdsAreGiven'
  <2>1. /\ orders' = orders /\ "id" \in DOMAIN call' /\ call'.id = seeded + 1
        /\ task' = task /\ making' = making /\ seeded' = seeded + 1 /\ task = "seeding"
    BY <1>1 DEF Seed, AddLimitOrder, Open
  <2>2. seeded \in Nat
    BY IdsSuffice DEF SimulatorInv, CountersAgree
  <2> QED
    BY <2>1, <2>2 DEF SimulatorInv
<1>2. CASE EndSeed
  <2>1. call # NIL /\ call' = NIL /\ DOMAIN orders' \subseteq DOMAIN orders \cup {call.id}
    BY <1>2, EndKeepsIds DEF EndSeed
  <2> QED
    BY <1>2, <2>1 DEF EndSeed, genVars, SimulatorInv
<1>3. CASE EndSeeding
  BY <1>3, IdsSuffice DEF EndSeeding, vars, SimulatorInv, CountersAgree
<1>4. CASE GenerateOrders
  <2>1. /\ task = "generating" /\ making = NIL
        /\ order_id \in Nat \ {0}
    BY <1>4, IdsSuffice DEF GenerateOrders, SimulatorInv, CountersAgree
  <2>2. CASE Panic
    BY <2>1, <2>2 DEF Panic, vars, SimulatorInv
  <2>3. ASSUME NEW side \in Side, NEW price \in Price, NEW shares \in 0..MaxShares,
               AddLimitOrder(order_id, side, shares, price), Begin("ADD")
        PROVE  IdsAreGiven'
    <3>1. orders' = orders /\ "id" \in DOMAIN call' /\ call'.id = order_id
      BY <2>3 DEF AddLimitOrder, Open
    <3> QED
      BY <2>1, <2>3, <3>1 DEF Begin, SimulatorInv
  <2>4. ASSUME NEW id \in DOMAIN orders, CancelLimitOrder(id), Report("CANCEL")
        PROVE  IdsAreGiven'
    <3>1. DOMAIN orders' \subseteq DOMAIN orders /\ call' = NIL
      BY <2>4 DEF CancelLimitOrder, Without, Unlink
    <3>2. order_id' = order_id /\ task' \in {"generating", "returned"}
      BY <2>1, <2>4 DEF Report
    <3> QED
      BY <2>1, <3>1, <3>2 DEF SimulatorInv
  <2>5. ASSUME NEW id \in DOMAIN orders, NEW price \in Price, NEW shares \in 0..MaxShares,
               ModifyLimitOrder(id, shares, price), Begin("MODIFY")
        PROVE  IdsAreGiven'
    <3>1. DOMAIN orders' \subseteq DOMAIN orders /\ "id" \in DOMAIN call' /\ call'.id = id
      BY <2>5 DEF ModifyLimitOrder, Unlink, Open
    <3>2. id \in 1..order_id - 1
      BY <2>1, <2>5 DEF SimulatorInv
    <3>3. order_id' = order_id /\ task' = "generating"
      BY <2>1, <2>5 DEF Begin
    <3> QED
      BY <2>1, <3>1, <3>2, <3>3 DEF SimulatorInv
  <2> QED
    BY <1>4, <2>2, <2>3, <2>4, <2>5, GenerateCases
<1>5. CASE Trading
  <2>1. /\ DOMAIN orders' \subseteq DOMAIN orders
        /\ call # NIL /\ "id" \in DOMAIN call' /\ call'.id = call.id
    BY <1>5, MatchingKeepsIds DEF Trading, SimulatorInv
  <2>2. UNCHANGED <<task, seeded, making, order_id>>
    BY <1>5 DEF Trading
  <2> QED
    BY <2>1, <2>2 DEF SimulatorInv
<1>6. CASE EndOrder
  <2>1. call # NIL /\ call' = NIL /\ DOMAIN orders' \subseteq DOMAIN orders \cup {call.id}
    BY <1>6, EndKeepsIds DEF EndOrder
  <2>2. /\ making # NIL /\ task = "generating"
        /\ order_id \in Nat \ {0}
    BY <1>6, IdsSuffice DEF EndOrder, SimulatorInv, CountersAgree
  <2>3. /\ task' \in {"generating", "returned"}
        /\ order_id' = IF making = "ADD" THEN order_id + 1 ELSE order_id
    BY <1>6, <2>2 DEF EndOrder, Report
  <2>4. DOMAIN orders \subseteq 1..order_id - 1 /\ call.id \in 1..order_id
        /\ (making # "ADD" => call.id # order_id)
    BY <2>1, <2>2 DEF SimulatorInv
  <2>5. DOMAIN orders' \subseteq 1..order_id' - 1
    BY <2>1, <2>2, <2>3, <2>4
  <2> QED
    BY <2>1, <2>3, <2>5
<1>7. CASE UNCHANGED <<vars, genVars>>
  BY <1>7 DEF vars, genVars, SimulatorInv
<1> QED
  BY <1>1, <1>2, <1>3, <1>4, <1>5, <1>6, <1>7 DEF SimulatorNext

-----------------------------------------------------------------------------
(* SimulatorInv is inductive. *)
LEMMA SimulatorInvariant == SimulatorSpec => []SimulatorInv
<1>1. SimulatorInit => SimulatorInv
  <2> SUFFICES ASSUME SimulatorInit PROVE SimulatorInv
    OBVIOUS
  <2>1. DOMAIN orders = {} /\ call = NIL /\ limit_orders = {}
    BY DEF SimulatorInit, Init
  <2> QED
    BY <2>1, IdsSuffice DEF SimulatorInit, SimulatorInv, CountersAgree, IdsAreGiven, Twins
<1>2. SimulatorInv /\ [SimulatorNext]_<<vars, genVars>> => SimulatorInv'
  <2>1. SimulatorInv /\ [SimulatorNext]_<<vars, genVars>> => Twins'
    BY StepsAreEngineSteps, TwinsStep DEF SimulatorInv
  <2> QED
    BY <2>1, StepsKeepCounters, StepsKeepIds DEF SimulatorInv
<1> QED
  BY <1>1, <1>2, PTL DEF SimulatorSpec

(* The simulator drives the engine as the engine expects: a simulation is a *)
(* behaviour of the arena, trees, lists, loops and all, so that whatever is *)
(* proved of the arena holds of it.                                         *)
THEOREM SimulatorUsesTheEngine == SimulatorSpec => Spec
<1>1. SimulatorInit => Init
  BY DEF SimulatorInit
<1>2. SimulatorInv /\ [SimulatorNext]_<<vars, genVars>> => [Next]_vars
  BY StepsAreEngineSteps
<1> QED
  BY <1>1, <1>2, SimulatorInvariant, PTL DEF SimulatorSpec, Spec

(* As long as an only child is a leaf in both trees, no bid rests at or     *)
(* above an ask in the book of a simulation, its cancellations and          *)
(* modifications included, from the first seeding order to the last         *)
(* generated one.                                                           *)
THEOREM SimulationNeverCrosses == SimulatorSpec /\ []BushyTrees => []Proved!Uncrossed
BY SimulatorUsesTheEngine, ArenaKeepsTheRules, PTL

(* NextIdIsFresh: the id of the next new order is above every id that       *)
(* rests, whatever was added, traded, modified and cancelled before.        *)
THEOREM NewIdsAreFresh == SimulatorSpec => []NextIdIsFresh
<1>1. SimulatorInv => NextIdIsFresh
  BY IdsSuffice DEF SimulatorInv, CountersAgree, IdsAreGiven, NextIdIsFresh
<1> QED
  BY <1>1, SimulatorInvariant, PTL

(* The trades in lists of updates. *)

(* Every trade so far. *)
Traded == {executed[i] : i \in DOMAIN executed}

(* Updates that carry nothing but trades, where they carry trades.          *)
CarriesTrades(S) == \A u \in S : TradesWith(u) \in Seq(Traded)

(* What a list of updates carries is a list of trades: none in the empty    *)
(* list, those of an update more at the end, those of the first in front.   *)
LEMMA TradesListed ==
  ASSUME NEW S, CarriesTrades(S), NEW list \in Seq(S)
  PROVE  /\ [i \in 1..Len(list) |-> TradesWith(list[i])] \in Seq(Seq(Traded))
         /\ TradesIn(list) \in Seq(Traded)
<1> DEFINE T == [i \in 1..Len(list) |-> TradesWith(list[i])]
<1>1. Len(list) \in Nat /\ \A i \in 1..Len(list) : list[i] \in S
  BY LenProperties, ElementOfSeq
<1>2. \A i \in 1..Len(list) : TradesWith(list[i]) \in Seq(Traded)
  BY <1>1 DEF CarriesTrades
<1>3. T \in Seq(Seq(Traded))
  BY <1>1, <1>2
<1>4. FlattenSeq(T) \in Seq(Traded)
  BY <1>3, FlattenIsSeq
<1> QED
  BY <1>3, <1>4 DEF TradesIn

LEMMA TradesInNone == TradesIn(<< >>) = << >>
<1>1. [i \in 1..Len(<< >>) |-> TradesWith(<< >>[i])] = << >>
  OBVIOUS
<1> QED
  BY <1>1, FlattenEmpty DEF TradesIn

LEMMA TradesInAppend ==
  ASSUME NEW S, CarriesTrades(S), NEW list \in Seq(S), NEW u \in S
  PROVE  TradesIn(Append(list, u)) = TradesIn(list) \o TradesWith(u)
<1> DEFINE longer == Append(list, u)
           T == [i \in 1..Len(list) |-> TradesWith(list[i])]
           L == [i \in 1..Len(longer) |-> TradesWith(longer[i])]
<1>1. /\ Len(list) \in Nat /\ Len(longer) = Len(list) + 1 /\ longer \in Seq(S)
      /\ \A i \in 1..Len(list) : longer[i] = list[i]
      /\ longer[Len(list) + 1] = u
  BY AppendProperties, LenProperties
<1>2. T \in Seq(Seq(Traded)) /\ L \in Seq(Seq(Traded)) /\ TradesWith(u) \in Seq(Traded)
  BY <1>1, TradesListed DEF CarriesTrades
<1>3. Len(T) = Len(list) /\ Len(L) = Len(list) + 1
  BY <1>1
<1>4. \A i \in 1..Len(L) : L[i] = Append(T, TradesWith(u))[i]
  <2> HIDE DEF longer
  <2>1. ASSUME NEW i \in 1..Len(list) PROVE L[i] = Append(T, TradesWith(u))[i]
    BY <1>1, <1>2, <1>3, AppendProperties
  <2>2. L[Len(list) + 1] = Append(T, TradesWith(u))[Len(list) + 1]
    BY <1>1, <1>2, <1>3, AppendProperties
  <2> QED
    BY <1>1, <1>3, <2>1, <2>2
<1> HIDE DEF T, L
<1>5. L = Append(T, TradesWith(u))
  BY <1>1, <1>2, <1>3, <1>4, SeqEqual, AppendProperties
<1>6. FlattenSeq(Append(T, TradesWith(u))) = FlattenSeq(T) \o TradesWith(u)
  BY <1>2, FlattenAppend
<1> QED
  BY <1>5, <1>6 DEF TradesIn, T, L

LEMMA TradesInHead ==
  ASSUME NEW S, CarriesTrades(S), NEW list \in Seq(S), list # << >>
  PROVE  TradesIn(list) = TradesWith(Head(list)) \o TradesIn(Tail(list))
<1> DEFINE rest == Tail(list)
           T == [i \in 1..Len(list) |-> TradesWith(list[i])]
           R == [i \in 1..Len(rest) |-> TradesWith(rest[i])]
<1>1. /\ Len(list) \in Nat \ {0} /\ rest \in Seq(S) /\ Len(rest) = Len(list) - 1
      /\ \A i \in 1..Len(rest) : rest[i] = list[i + 1]
      /\ Head(list) = list[1]
  BY HeadTailProperties, LenProperties, EmptySeq
<1>2. T \in Seq(Seq(Traded)) /\ R \in Seq(Seq(Traded))
  BY <1>1, TradesListed
<1>3. Len(T) = Len(list) /\ Len(R) = Len(list) - 1 /\ T # << >> /\ T[1] = TradesWith(Head(list))
  BY <1>1
<1> HIDE DEF rest
<1>4. /\ Head(T) = T[1] /\ Tail(T) \in Seq(Seq(Traded)) /\ Len(Tail(T)) = Len(list) - 1
      /\ \A i \in 1..Len(list) - 1 : Tail(T)[i] = T[i + 1]
  <2> HIDE DEF T
  <2> QED
    BY <1>2, <1>3, HeadTailProperties
<1>5. \A i \in 1..Len(list) - 1 : Tail(T)[i] = R[i]
  <2>1. \A i \in 1..Len(list) - 1 : i + 1 \in 1..Len(list) /\ i \in 1..Len(rest)
    BY <1>1
  <2>2. \A i \in 1..Len(list) - 1 : R[i] = TradesWith(rest[i]) /\ T[i + 1] = TradesWith(list[i + 1])
    BY <2>1
  <2> HIDE DEF T, R
  <2> QED
    BY <1>1, <1>4, <2>1, <2>2
<1> HIDE DEF T, R
<1>6. Tail(T) = R
  BY <1>2, <1>3, <1>4, <1>5, SeqEqual
<1>7. FlattenSeq(T) = Head(T) \o FlattenSeq(Tail(T))
  BY <1>2, <1>3, FlattenHeadTail
<1> QED
  BY <1>3, <1>4, <1>6, <1>7 DEF TradesIn, T, R, rest

LEMMA TradesInMore ==
  ASSUME NEW S, CarriesTrades(S), NEW list \in Seq(S), NEW u \in S
  PROVE  /\ list \o << u >> \in Seq(S)
         /\ TradesIn(list \o << u >>) = TradesIn(list) \o TradesWith(u)
<1>1. list \o << u >> = Append(list, u)
  BY AppendIsConcat
<1>2. Append(list, u) \in Seq(S)
  BY AppendProperties
<1>3. TradesIn(Append(list, u)) = TradesIn(list) \o TradesWith(u)
  BY TradesInAppend
<1> QED
  BY <1>1, <1>2, <1>3

(* The parts of Updates. *)
StatUpdate(stats) == [type |-> "ExecutionStats", stat |-> stats[idx + 1]]
BestUpdate(ar) == [type |-> "BestLevels", best |-> [side \in Side |-> BestPrice(ar, side)]]
TradesUpdate == [type |-> "Trades", trades |-> FreshTrades]
UpdateSet(stats, ar) ==
  {StatUpdate(stats), PriceLevels(FALSE, ar, UpdateDepth), BestUpdate(ar), TradesUpdate}

LEMMA UpdatesCarryTrades ==
  ASSUME NEW stats, NEW ar, FreshTrades \in Seq(Traded)
  PROVE  CarriesTrades(UpdateSet(stats, ar))
<1>1. TradesWith(StatUpdate(stats)) = << >>
  BY DEF TradesWith, StatUpdate
<1>2. TradesWith(PriceLevels(FALSE, ar, UpdateDepth)) = << >>
  BY DEF TradesWith, PriceLevels
<1>3. TradesWith(BestUpdate(ar)) = << >>
  BY DEF TradesWith, BestUpdate
<1>4. TradesWith(TradesUpdate) = FreshTrades
  BY DEF TradesWith, TradesUpdate
<1> QED
  BY <1>1, <1>2, <1>3, <1>4, EmptySeq DEF UpdateSet, CarriesTrades

(* The updates of an order carry the fresh trades, at the end. *)
LEMMA TradesInUpdates ==
  ASSUME NEW stats, NEW ar, FreshTrades \in Seq(Traded), NEW S, CarriesTrades(S),
         UpdateSet(stats, ar) \subseteq S, NEW list \in Seq(S)
  PROVE  /\ Updates(stats, ar) \in Seq(S)
         /\ TradesIn(list \o Updates(stats, ar)) = TradesIn(list) \o FreshTrades
         /\ Len(Updates(stats, ar)) > 0 /\ Updates(stats, ar)[1] = StatUpdate(stats)
<1>1. PICK s \in S, p \in S, m \in S, t \in S :
        /\ s = StatUpdate(stats) /\ p = PriceLevels(FALSE, ar, UpdateDepth)
        /\ m = BestUpdate(ar) /\ t = TradesUpdate
  BY DEF UpdateSet
<1>2. TradesWith(s) = << >> /\ TradesWith(p) = << >> /\ TradesWith(m) = << >>
      /\ TradesWith(t) = FreshTrades
  BY <1>1 DEF TradesWith, StatUpdate, PriceLevels, BestUpdate, TradesUpdate
<1>3. PICK op, om, ot :
        /\ op = << p >> \/ op = << >>
        /\ om = << m >> \/ om = << >>
        /\ ot = << t >> \/ ot = << >>
        /\ Updates(stats, ar) = ((<< s >> \o op) \o om) \o ot
        /\ IF FreshTrades # << >> THEN ot = << t >> ELSE ot = << >>
  <2> DEFINE op == IF (idx + 1) % Period = 0 THEN << p >> ELSE << >>
             om == IF idx % Period = 0 THEN << m >> ELSE << >>
             ot == IF FreshTrades # << >> THEN << t >> ELSE << >>
  <2>1. Updates(stats, ar) = ((<< s >> \o op) \o om) \o ot
    BY <1>1 DEF Updates, StatUpdate, BestUpdate, TradesUpdate
  <2> QED
    BY <2>1
<1>4. PICK os \in Seq(S) : os = << s >>
  BY OneIsSeq
<1>5. op \in Seq(S) /\ om \in Seq(S) /\ ot \in Seq(S)
  BY <1>3, OneIsSeq, EmptySeq
<1>6. Updates(stats, ar) = ((os \o op) \o om) \o ot
  BY <1>3, <1>4
<1>7. os \o op \in Seq(S) /\ (os \o op) \o om \in Seq(S) /\ Updates(stats, ar) \in Seq(S)
  BY <1>5, <1>6, ConcatProperties
<1>8. PICK found \in Seq(Traded) : found = TradesIn(list) /\ found \o << >> = found
  BY TradesListed, ConcatEmptySeq
<1>9. PICK l1 \in Seq(S) : l1 = list \o os /\ TradesIn(l1) = found
  <2>1. list \o << s >> \in Seq(S) /\ TradesIn(list \o << s >>) = TradesIn(list) \o TradesWith(s)
    BY TradesInMore
  <2> QED
    BY <1>2, <1>4, <1>8, <2>1
<1>10. PICK l2 \in Seq(S) : l2 = l1 \o op /\ TradesIn(l2) = found
  <2>1. found = TradesIn(l1) \o TradesWith(p)
    BY <1>2, <1>8, <1>9
  <2> QED
    <3>1. CASE op = << p >>
      <4>1. l1 \o << p >> \in Seq(S) /\ TradesIn(l1 \o << p >>) = found
        BY <1>9, <2>1, TradesInMore
      <4> QED
        BY <3>1, <4>1
    <3>2. CASE op = << >>
      <4>1. l1 \o << >> = l1
        BY ConcatEmptySeq
      <4> QED
        BY <1>9, <3>2, <4>1
    <3> QED
      BY <1>3, <3>1, <3>2
<1>11. PICK l3 \in Seq(S) : l3 = l2 \o om /\ TradesIn(l3) = found
  <2>1. found = TradesIn(l2) \o TradesWith(m)
    BY <1>2, <1>8, <1>10
  <2> QED
    <3>1. CASE om = << m >>
      <4>1. l2 \o << m >> \in Seq(S) /\ TradesIn(l2 \o << m >>) = found
        BY <1>10, <2>1, TradesInMore
      <4> QED
        BY <3>1, <4>1
    <3>2. CASE om = << >>
      <4>1. l2 \o << >> = l2
        BY ConcatEmptySeq
      <4> QED
        BY <1>10, <3>2, <4>1
    <3> QED
      BY <1>3, <3>1, <3>2
<1>12. TradesIn(l3 \o ot) = found \o FreshTrades
  <2>1. CASE FreshTrades # << >>
    <3>1. ot = << t >> /\ found \o FreshTrades = TradesIn(l3) \o TradesWith(t)
      BY <1>2, <1>3, <1>11, <2>1
    <3> QED
      BY <3>1, TradesInMore
  <2>2. CASE FreshTrades = << >>
    <3>1. ot = << >> /\ found \o FreshTrades = TradesIn(l3)
      BY <1>3, <1>8, <1>11, <2>2
    <3> QED
      BY <3>1, ConcatEmptySeq
  <2> QED
    BY <2>1, <2>2
<1>13. list \o Updates(stats, ar) = l3 \o ot
  <2>1. AllRegroup(list, os, op, om, ot)
    BY <1>5, JoinsOfFive
  <2> QED
    BY <1>6, <1>9, <1>10, <1>11, <2>1, Zenon DEF AllRegroup
<1>14. Len(Updates(stats, ar)) > 0 /\ Updates(stats, ar)[1] = s
  <2>1. ASSUME NEW l \in Seq(S), Len(l) > 0, l[1] = s, NEW o \in Seq(S)
        PROVE  Len(l \o o) > 0 /\ (l \o o)[1] = s
    BY <2>1, ConcatProperties, LenProperties
  <2>2. Len(os) > 0 /\ os[1] = s
    BY <1>4, OneIsSeq
  <2>3. Len(os \o op) > 0 /\ (os \o op)[1] = s
    BY <1>5, <2>1, <2>2
  <2>4. Len((os \o op) \o om) > 0 /\ ((os \o op) \o om)[1] = s
    BY <1>5, <1>7, <2>1, <2>3
  <2> QED
    BY <1>5, <1>6, <1>7, <2>1, <2>4
<1> QED
  BY <1>1, <1>7, <1>8, <1>12, <1>13, <1>14

(* What has been reported and what is still owed to the client: once the    *)
(* generating has begun, the trades not yet reported are those of the call  *)
(* under way, and, before the first report, those of the seeding as well.   *)
Accounts ==
  /\ executed \in Seq(Traded) /\ executed_orders \in Seq(Traded)
  /\ executed_orders_offset \in 0..Len(executed)
  /\ task = "seeding" =>
       /\ idx = 0 /\ executed_orders_offset = 0
       /\ sent = << >> /\ engine_stats = << >>
  /\ task # "seeding" /\ call # NIL => making # NIL
  /\ making # NIL =>
       IF idx = 0 THEN Len(executed_orders) <= Len(executed) - executed_orders_offset
                  ELSE Len(executed_orders) = Len(executed) - executed_orders_offset
  /\ making = NIL /\ idx > 0 => executed_orders_offset = Len(executed)

(* The engine adds at most one trade in a step, to the call's and to all.   *)
LEMMA TradingTrades ==
  ASSUME Accounts, Trading
  PROVE  \/ UNCHANGED <<executed, executed_orders>>
         \/ \E t : /\ executed' = Append(executed, t)
                   /\ executed_orders' = Append(executed_orders, t)
                   /\ Traded \subseteq Traded' /\ t \in Traded'
<1>1. \/ executed_orders' = executed_orders
      \/ \E t : executed_orders' = Append(executed_orders, t)
  BY DEF Trading, TakeLevel, ExecuteHead, LeaveHelper
<1>2. CASE executed_orders' = executed_orders
  BY <1>2 DEF Trading
<1>3. ASSUME NEW t, executed_orders' = Append(executed_orders, t)
      PROVE  /\ executed' = Append(executed, t)
             /\ Traded \subseteq Traded' /\ t \in Traded'
  <2>1. PICK S : S = Traded \cup {t}
    OBVIOUS
  <2>2. executed_orders \in Seq(S) /\ executed \in Seq(S) /\ t \in S
    BY <2>1, SeqMonotonic DEF Accounts
  <2>3. /\ Len(executed_orders) \in Nat /\ Len(executed_orders') = Len(executed_orders) + 1
        /\ executed_orders'[Len(executed_orders')] = t
    BY <1>3, <2>2, AppendProperties, LenProperties
  <2>4. executed_orders' # executed_orders
    BY <2>3
  <2>5. executed' = Append(executed, t)
    BY <2>3, <2>4 DEF Trading, Last
  <2>6. /\ Len(executed) \in Nat /\ DOMAIN executed = 1..Len(executed)
        /\ DOMAIN executed' = 1..Len(executed) + 1
        /\ executed'[Len(executed) + 1] = t
        /\ \A i \in 1..Len(executed) : executed'[i] = executed[i]
    BY <2>2, <2>5, AppendProperties, LenProperties
  <2>7. t \in Traded'
    BY <2>6 DEF Traded
  <2>8. Traded \subseteq Traded'
    BY <2>6 DEF Traded
  <2> QED BY <2>5, <2>7, <2>8
<1> QED BY <1>1, <1>2, <1>3

(* The trades a report counts: none for a cancellation, and otherwise those *)
(* of the call that it ends.                                                *)
Owed ==
  IF idx = 0 THEN Len(executed_orders') <= Len(executed) - executed_orders_offset
             ELSE Len(executed_orders') = Len(executed) - executed_orders_offset

(* Orders are reported when a call has returned, with what it owed.         *)
LEMMA Reports ==
  ASSUME SimulatorInv, Accounts, NEW order_type, Report(order_type),
         \/ EndOrder
         \/ task = "generating" /\ making = NIL /\ idx < Orders
            /\ \E id \in DOMAIN orders : CancelLimitOrder(id)
  PROVE  /\ Owed /\ call' = NIL /\ task = "generating" /\ idx < Orders
         /\ executed_orders' \in Seq(Traded)
<1>1. CASE EndOrder
  BY <1>1 DEF EndOrder, RestOrDrop, Accounts, Owed, SimulatorInv, CountersAgree
<1>2. CASE task = "generating" /\ making = NIL /\ idx < Orders
           /\ \E id \in DOMAIN orders : CancelLimitOrder(id)
  <2>1. executed_orders' = << >> /\ call' = NIL
    BY <1>2 DEF CancelLimitOrder
  <2>2. idx \in Nat /\ Len(executed) \in Nat
    BY LenProperties, IdsSuffice DEF Accounts, SimulatorInv, CountersAgree
  <2>3. IF idx = 0 THEN 0 <= Len(executed) - executed_orders_offset
                   ELSE 0 = Len(executed) - executed_orders_offset
    BY <1>2, <2>2 DEF Accounts
  <2> QED BY <1>2, <2>1, <2>3, EmptySeq DEF Owed
<1> QED BY <1>1, <1>2

LEMMA ReportKeepsAccounts ==
  ASSUME SimulatorInv, Accounts, NEW order_type, Report(order_type),
         call' = NIL, task = "generating", executed_orders' \in Seq(Traded)
  PROVE  Accounts'
<1>1. /\ executed' = executed /\ executed_orders_offset' = Len(executed)
      /\ making' = NIL /\ task' # "seeding" /\ Traded' = Traded
  BY DEF Report, Traded
<1>2. Len(executed) \in Nat /\ executed \in Seq(Traded)
  BY LenProperties DEF Accounts
<1> QED BY <1>1, <1>2 DEF Accounts

(* Accounts is preserved: a call starts with nothing owed, a trade is added *)
(* to the call's and to the book's, a report settles.                       *)
LEMMA StepsKeepAccounts ==
  ASSUME SimulatorInv, Accounts, [SimulatorNext]_<<vars, genVars>>
  PROVE  Accounts'
<1> DEFINE Same == executed' = executed /\ Traded' = Traded
<1>1. ASSUME NEW side \in Side, NEW price \in Price, NEW shares \in 1..MaxShares,
             Seed(side, price, shares)
      PROVE  Accounts'
  <2>1. making = NIL
    BY <1>1 DEF Seed, SimulatorInv, IdsAreGiven
  <2>2. Same /\ executed_orders' = << >>
    BY <1>1 DEF Seed, AddLimitOrder, Traded
  <2> QED BY <1>1, <2>1, <2>2, EmptySeq DEF Seed, Accounts
<1>2. CASE EndSeed
  <2>1. making = NIL
    BY <1>2 DEF EndSeed, SimulatorInv, IdsAreGiven
  <2>2. Same /\ executed_orders' = executed_orders
    BY <1>2 DEF EndSeed, genVars, RestOrDrop, Traded
  <2> QED BY <1>2, <2>1, <2>2 DEF EndSeed, genVars, Accounts
<1>3. CASE EndSeeding
  <2>1. making = NIL
    BY <1>3 DEF EndSeeding, SimulatorInv, IdsAreGiven
  <2>2. Same /\ executed_orders' = executed_orders
    BY <1>3 DEF EndSeeding, vars, Traded
  <2> QED BY <1>3, <2>1, <2>2 DEF EndSeeding, vars, Accounts
<1>4. CASE GenerateOrders
  <2>1. /\ making = NIL /\ task = "generating" /\ idx < Orders
        /\ \/ Panic
           \/ Begin("ADD") /\ executed_orders' = << >>
           \/ Begin("MODIFY") /\ executed_orders' = << >>
           \/ \E id \in DOMAIN orders : CancelLimitOrder(id) /\ Report("CANCEL")
    BY <1>4, GenerateCases DEF AddLimitOrder, ModifyLimitOrder
  <2>2. CASE Panic
    <3>1. Same /\ executed_orders' = executed_orders
      BY <2>2 DEF Panic, vars, Traded
    <3> QED BY <2>1, <2>2, <3>1 DEF Panic, vars, Accounts
  <2>3. ASSUME NEW order_type, order_type # NIL, Begin(order_type), executed_orders' = << >>
        PROVE  Accounts'
    <3>1. idx \in Nat /\ Len(executed) \in Nat
      BY LenProperties, IdsSuffice DEF Accounts, SimulatorInv, CountersAgree
    <3>2. Same
      BY <2>3 DEF Begin, Traded
    <3> QED BY <2>1, <2>3, <3>1, <3>2, EmptySeq DEF Begin, Accounts
  <2>4. ASSUME NEW id \in DOMAIN orders, CancelLimitOrder(id), Report("CANCEL")
        PROVE  Accounts'
    <3>1. call' = NIL /\ executed_orders' \in Seq(Traded)
      BY <2>1, <2>4, Reports
    <3> QED BY <2>1, <2>4, <3>1, ReportKeepsAccounts
  <2>5. "ADD" # NIL /\ "MODIFY" # NIL
    BY NilIsNoType
  <2> QED BY <2>1, <2>2, <2>3, <2>4, <2>5
<1>5. CASE Trading
  <2>1. UNCHANGED <<task, idx, making, engine_stats, executed_orders_offset, sent>>
    BY <1>5 DEF Trading
  <2>2. call # NIL
    BY <1>5, MatchingKeepsIds DEF Trading, SimulatorInv
  <2>3. task = "seeding" => making = NIL
    BY DEF SimulatorInv, IdsAreGiven
  <2>4. task # "seeding" => making # NIL
    BY <2>2 DEF Accounts
  <2>5. CASE UNCHANGED <<executed, executed_orders>>
    <3>1. Same
      BY <2>5 DEF Traded
    <3> QED BY <2>1, <2>3, <2>4, <2>5, <3>1 DEF Accounts
  <2>6. ASSUME NEW t, executed' = Append(executed, t), executed_orders' = Append(executed_orders, t),
               Traded \subseteq Traded', t \in Traded'
        PROVE  Accounts'
    <3>1. executed \in Seq(Traded') /\ executed_orders \in Seq(Traded')
      BY <2>6, SeqMonotonic DEF Accounts
    <3>2. /\ executed' \in Seq(Traded') /\ executed_orders' \in Seq(Traded')
          /\ Len(executed) \in Nat /\ Len(executed') = Len(executed) + 1
          /\ Len(executed_orders) \in Nat /\ Len(executed_orders') = Len(executed_orders) + 1
      BY <2>6, <3>1, AppendProperties, LenProperties
    <3>3. executed_orders_offset' \in 0..Len(executed')
      BY <2>1, <3>2 DEF Accounts
    <3>4. making' # NIL =>
            IF idx' = 0
            THEN Len(executed_orders') <= Len(executed') - executed_orders_offset'
            ELSE Len(executed_orders') = Len(executed') - executed_orders_offset'
      <4>1. executed_orders_offset \in Nat
        BY <3>2 DEF Accounts
      <4> QED BY <2>1, <3>2, <4>1 DEF Accounts
    <3>5. task' # "seeding" /\ call' # NIL => making' # NIL
      BY <2>1, <2>4
    <3>6. ~ (making' = NIL /\ idx' > 0)
      BY <2>1, <2>4 DEF Accounts
    <3>7. task' = "seeding" => idx' = 0 /\ executed_orders_offset' = 0 /\ sent' = << >> /\ engine_stats' = << >>
      BY <2>1 DEF Accounts
    <3> QED BY <3>2, <3>3, <3>4, <3>5, <3>6, <3>7 DEF Accounts
  <2> QED BY <1>5, <2>5, <2>6, TradingTrades
<1>6. CASE EndOrder
  <2>1. Report(making)
    BY <1>6 DEF EndOrder
  <2>2. call' = NIL /\ task = "generating" /\ executed_orders' \in Seq(Traded)
    BY <1>6, <2>1, Reports
  <2> QED BY <2>1, <2>2, ReportKeepsAccounts
<1>7. CASE UNCHANGED <<vars, genVars>>
  <2>1. Same
    BY <1>7 DEF genVars, Traded
  <2> QED BY <1>7, <2>1 DEF vars, genVars, Accounts
<1> QED BY <1>1, <1>2, <1>3, <1>4, <1>5, <1>6, <1>7 DEF SimulatorNext

StatRecord == [order_type : {"ADD", "MODIFY", "CANCEL"}, executed_orders_cnt : Nat]

(* What was sent are lists of updates that carry no other trades.           *)
SentSoundly == \E S : CarriesTrades(S) /\ sent \in Seq(Seq(S))

Records ==
  /\ making \in {"ADD", "MODIFY", NIL}
  /\ engine_stats \in Seq(StatRecord)
  /\ SentSoundly

(* What was a trade stays one. *)
LEMMA CarriesMore ==
  ASSUME NEW S, CarriesTrades(S), Traded \subseteq Traded'
  PROVE  CarriesTrades(S)'
BY SeqMonotonic DEF CarriesTrades

LEMMA TradedStays ==
  ASSUME Accounts, [SimulatorNext]_<<vars, genVars>>
  PROVE  Traded \subseteq Traded'
<1>1. CASE Trading
  BY <1>1, TradingTrades DEF Traded
<1>2. CASE executed' = executed
  BY <1>2 DEF Traded
<1>3. CASE GenerateOrders
  BY <1>2, <1>3 DEF GenerateOrders, AddLimit, CancelLimit, ModifyLimit, Panic, Begin, Report
<1>4. CASE \/ \E side \in Side, price \in Price, shares \in 1..MaxShares : Seed(side, price, shares)
           \/ EndSeed \/ EndSeeding \/ EndOrder \/ UNCHANGED <<vars, genVars>>
  BY <1>2, <1>4 DEF Seed, EndSeed, EndSeeding, EndOrder, Report, genVars
<1> QED BY <1>1, <1>3, <1>4 DEF SimulatorNext

(* The fresh trades are what is left of all after those reported. *)
LEMMA FreshAreTrades ==
  ASSUME Accounts
  PROVE  /\ FreshTrades \in Seq(Traded)
         /\ Len(FreshTrades) = Len(executed) - executed_orders_offset
         /\ SubSeq(executed, 1, executed_orders_offset) \o FreshTrades = executed
<1>1. /\ executed \in Seq(Traded) /\ executed_orders_offset \in 0..Len(executed)
      /\ Len(executed) \in Nat
  BY LenProperties DEF Accounts
<1> DEFINE m == executed_orders_offset + 1
           n == Len(executed)
<1>2. \A i \in m..n : executed[i] \in Traded
  BY <1>1, ElementOfSeq
<1>3. /\ SubSeq(executed, m, n) \in Seq(Traded)
      /\ Len(SubSeq(executed, m, n)) = IF m <= n THEN n - m + 1 ELSE 0
  BY <1>1, <1>2, SubSeqProperties
<1>4. SubSeq(executed, 1, executed_orders_offset) \o SubSeq(executed, m, n)
        = SubSeq(executed, 1, n)
  <2>1. /\ 1 \in 1..Len(executed) + 1
        /\ executed_orders_offset \in 1 - 1..Len(executed)
        /\ n \in executed_orders_offset..Len(executed)
    BY <1>1
  <2> QED BY <1>1, <2>1, ConcatAdjacentSubSeq
<1>5. SubSeq(executed, 1, n) = executed
  BY <1>1, SubSeqFull
<1>6. SubSeq(executed, m, n) = FreshTrades
  BY DEF FreshTrades
<1>7. (IF m <= n THEN n - m + 1 ELSE 0) = Len(executed) - executed_orders_offset
  BY <1>1
<1> HIDE DEF m, n
<1> QED BY <1>1, <1>3, <1>4, <1>5, <1>6, <1>7

(* A report sends one more list of updates: the order's record first, and   *)
(* in it the fresh trades, wherever the list comes.                         *)
IsReport(S, updates) ==
  /\ CarriesTrades(S) /\ sent \in Seq(Seq(S)) /\ updates \in Seq(S)
  /\ sent' = Append(sent, updates)
  /\ Len(updates) > 0 /\ updates[1].stat = engine_stats'[idx + 1]
  /\ \A list \in Seq(S) : TradesIn(list \o updates) = TradesIn(list) \o FreshTrades

LEMMA ReportSends ==
  ASSUME Accounts, SentSoundly, NEW order_type, Report(order_type)
  PROVE  \E S : \E updates : IsReport(S, updates)
<1>1. PICK R : CarriesTrades(R) /\ sent \in Seq(Seq(R))
  BY DEF SentSoundly
<1> DEFINE more == UpdateSet(engine_stats', arena')
<1>2. FreshTrades \in Seq(Traded)
  BY FreshAreTrades
<1>3. CarriesTrades(more)
  BY <1>2, UpdatesCarryTrades
<1> HIDE DEF more
<1>4. PICK S : S = R \cup more
  OBVIOUS
<1>5. CarriesTrades(S)
  BY <1>1, <1>3, <1>4 DEF CarriesTrades
<1>6. sent \in Seq(Seq(S)) /\ more \subseteq S
  BY <1>1, <1>4, SeqOfMore
<1>7. PICK updates : updates = Updates(engine_stats', arena')
  OBVIOUS
<1>8. \A list \in Seq(S) :
        /\ updates \in Seq(S)
        /\ TradesIn(list \o updates) = TradesIn(list) \o FreshTrades
        /\ Len(updates) > 0 /\ updates[1] = StatUpdate(engine_stats')
  <2> TAKE list \in Seq(S)
  <2>1. UpdateSet(engine_stats', arena') \subseteq S
    BY <1>6 DEF more
  <2> QED BY <1>2, <1>5, <1>7, <2>1, TradesInUpdates
<1>9. /\ updates \in Seq(S) /\ Len(updates) > 0
      /\ updates[1] = StatUpdate(engine_stats')
  BY <1>8, EmptySeq
<1>10. StatUpdate(engine_stats').stat = engine_stats'[idx + 1]
  BY DEF StatUpdate
<1>11. sent' = Append(sent, updates)
  BY <1>7 DEF Report
<1> QED BY <1>5, <1>6, <1>8, <1>9, <1>10, <1>11 DEF IsReport

LEMMA ReportKeepsRecords ==
  ASSUME SimulatorInv, Accounts, Records, NEW order_type \in {"ADD", "MODIFY", "CANCEL"},
         Report(order_type), Len(executed_orders') \in Nat
  PROVE  Records'
<1>1. PICK S, updates : IsReport(S, updates)
  BY ReportSends DEF Records
<1>2. sent' \in Seq(Seq(S))
  <2>1. sent \in Seq(Seq(S)) /\ updates \in Seq(S) /\ sent' = Append(sent, updates)
    BY <1>1 DEF IsReport
  <2> QED BY <2>1, AppendProperties
<1>3. SentSoundly'
  <2>1. Traded \subseteq Traded'
    BY DEF Report, Traded
  <2>2. CarriesTrades(S)'
    BY <1>1, <2>1, CarriesMore DEF IsReport
  <2> QED BY <1>2, <2>2 DEF SentSoundly
<1>4. engine_stats' \in Seq(StatRecord)
  <2> DEFINE record == [order_type |-> order_type, executed_orders_cnt |-> Len(executed_orders')]
  <2>1. record \in StatRecord
    BY DEF StatRecord
  <2>2. engine_stats' = Append(engine_stats, record)
    BY DEF Report, NewStats
  <2> HIDE DEF record
  <2> QED BY <2>1, <2>2, AppendProperties DEF Records
<1>5. making' = NIL
  BY DEF Report
<1> QED BY <1>3, <1>4, <1>5 DEF Records

(* Records is preserved: one record and one list of updates per report. *)
LEMMA StepsKeepRecords ==
  ASSUME SimulatorInv, Accounts, Accounts', Records,
         [SimulatorNext]_<<vars, genVars>>
  PROVE  Records'
<1>1. ASSUME UNCHANGED <<engine_stats, sent>>, making' \in {"ADD", "MODIFY", NIL}
      PROVE  Records'
  <2>1. PICK S : CarriesTrades(S) /\ sent \in Seq(Seq(S))
    BY DEF Records, SentSoundly
  <2>2. CarriesTrades(S)'
    BY <2>1, TradedStays, CarriesMore
  <2> QED BY <1>1, <2>1, <2>2 DEF Records, SentSoundly
<1>2. Len(executed_orders') \in Nat
  BY LenProperties DEF Accounts
<1>3. CASE EndSeeding
  <2> DEFINE snapshot == PriceLevels(TRUE, arena, SnapshotDepth)
             S == {snapshot}
  <2>1. TradesWith(snapshot) = << >>
    BY DEF TradesWith, PriceLevels
  <2>2. sent' = << << snapshot >> >>
    BY <1>3 DEF EndSeeding
  <2> HIDE DEF snapshot
  <2>3. sent' \in Seq(Seq(S))
    BY <2>2, OneIsSeq
  <2>4. SentSoundly'
    BY <2>1, <2>3, EmptySeq DEF SentSoundly, CarriesTrades
  <2>5. UNCHANGED <<making, engine_stats>>
    BY <1>3 DEF EndSeeding
  <2> QED BY <2>4, <2>5 DEF Records
<1>4. CASE GenerateOrders
  <2>1. CASE Panic
    BY <1>1, <2>1 DEF Panic, Records
  <2>2. ASSUME NEW order_type \in {"ADD", "MODIFY"}, Begin(order_type)
        PROVE  Records'
    BY <1>1, <2>2 DEF Begin
  <2>3. ASSUME Report("CANCEL")
        PROVE  Records'
    BY <1>2, <2>3, ReportKeepsRecords
  <2> QED BY <1>4, <2>1, <2>2, <2>3, GenerateCases
<1>5. CASE EndOrder
  <2>1. making \in {"ADD", "MODIFY", "CANCEL"} /\ Report(making)
    BY <1>5 DEF EndOrder, Records
  <2> QED BY <1>2, <2>1, ReportKeepsRecords
<1>6. CASE \/ \E side \in Side, price \in Price, shares \in 1..MaxShares : Seed(side, price, shares)
           \/ EndSeed \/ Trading \/ UNCHANGED <<vars, genVars>>
  BY <1>1, <1>6 DEF Seed, EndSeed, Trading, genVars, Records
<1> QED BY <1>3, <1>4, <1>5, <1>6 DEF SimulatorNext

(* The list sent after order k tells the client what the order did. *)
Tells(updates, k, stats) ==
  /\ updates[1].stat = stats[k]
  /\ IF k = 1 THEN Len(TradesIn(updates)) >= stats[k].executed_orders_cnt
              ELSE Len(TradesIn(updates)) = stats[k].executed_orders_cnt

LEMMA StatsMatchAsTold ==
  StatsMatchOrders <=>
    /\ task # "seeding" => Len(engine_stats) = idx /\ Len(sent) = idx + 1
    /\ \A k \in 1..Len(sent) - 1 : Tells(sent[k + 1], k, engine_stats)
BY DEF StatsMatchOrders, Tells

(* A report keeps StatsMatchOrders: its record and its list agree. *)
LEMMA ReportTells ==
  ASSUME SimulatorInv, Accounts, Records, StatsMatchOrders,
         NEW order_type, Report(order_type),
         Owed, task = "generating", order_type \in {"ADD", "MODIFY", "CANCEL"},
         Len(executed_orders') \in Nat
  PROVE  StatsMatchOrders'
<1>1. PICK S, updates : IsReport(S, updates)
  BY ReportSends DEF Records
<1>2. /\ idx \in Nat /\ Len(sent) = idx + 1 /\ Len(engine_stats) = idx
      /\ \A k \in 1..Len(sent) - 1 : Tells(sent[k + 1], k, engine_stats)
  BY StatsMatchAsTold, IdsSuffice DEF SimulatorInv, CountersAgree
<1>3. /\ Len(sent') = idx + 2 /\ sent'[idx + 2] = updates
      /\ \A k \in 1..idx + 1 : sent'[k] = sent[k]
  <2>1. sent \in Seq(Seq(S)) /\ updates \in Seq(S) /\ sent' = Append(sent, updates)
    BY <1>1 DEF IsReport
  <2> QED BY <1>2, <2>1, AppendProperties
<1> DEFINE record == [order_type |-> order_type, executed_orders_cnt |-> Len(executed_orders')]
<1>4. /\ Len(engine_stats') = idx + 1 /\ engine_stats'[idx + 1] = record
      /\ \A k \in 1..idx : engine_stats'[k] = engine_stats[k]
  <2>1. record \in StatRecord
    BY DEF StatRecord
  <2>2. engine_stats' = Append(engine_stats, record)
    BY DEF Report, NewStats
  <2> HIDE DEF record
  <2> QED BY <1>2, <2>1, <2>2, AppendProperties DEF Records
<1>5. Tells(updates, idx + 1, engine_stats')
  <2>1. Len(TradesIn(updates)) = Len(executed) - executed_orders_offset
    <3>1. << >> \in Seq(S) /\ updates \in Seq(S)
      BY <1>1, EmptySeq DEF IsReport
    <3>2. TradesIn(<< >> \o updates) = TradesIn(<< >>) \o FreshTrades
      BY <1>1, <3>1 DEF IsReport
    <3>3. << >> \o updates = updates
      BY <3>1, ConcatEmptySeq
    <3>4. << >> \o FreshTrades = FreshTrades
      BY FreshAreTrades, ConcatEmptySeq
    <3> QED BY <3>2, <3>3, <3>4, TradesInNone, FreshAreTrades
  <2>2. updates[1].stat = engine_stats'[idx + 1]
    BY <1>1 DEF IsReport
  <2>3. engine_stats'[idx + 1].executed_orders_cnt = Len(executed_orders')
    BY <1>4
  <2>4. Len(executed) - executed_orders_offset \in Nat
    BY LenProperties DEF Accounts
  <2> QED BY <1>2, <2>1, <2>2, <2>3, <2>4 DEF Owed, Tells
<1>6. ASSUME NEW k \in 1..idx PROVE Tells(sent'[k + 1], k, engine_stats')
  <2>1. Tells(sent[k + 1], k, engine_stats)
    BY <1>2
  <2>2. sent'[k + 1] = sent[k + 1] /\ engine_stats'[k] = engine_stats[k]
    BY <1>2, <1>3, <1>4
  <2> QED BY <2>1, <2>2 DEF Tells
<1>7. \A k \in 1..Len(sent') - 1 : Tells(sent'[k + 1], k, engine_stats')
  <2>1. \A k \in 1..idx + 1 : Tells(sent'[k + 1], k, engine_stats')
    BY <1>2, <1>3, <1>5, <1>6
  <2>2. Len(sent') - 1 = idx + 1
    BY <1>2, <1>3
  <2> QED BY <2>1, <2>2
<1>8. idx' = idx + 1
  BY DEF Report
<1>9. task' # "seeding" => Len(engine_stats') = idx' /\ Len(sent') = idx' + 1
  BY <1>2, <1>3, <1>4, <1>8
<1> QED BY <1>7, <1>9 DEF StatsMatchOrders, Tells

LEMMA StepsKeepStats ==
  ASSUME SimulatorInv, Accounts, Accounts', Records, StatsMatchOrders,
         [SimulatorNext]_<<vars, genVars>>
  PROVE  StatsMatchOrders'
<1>1. ASSUME UNCHANGED <<task, idx, engine_stats, sent>>
      PROVE  StatsMatchOrders'
  BY <1>1 DEF StatsMatchOrders
<1>2. Len(executed_orders') \in Nat
  BY LenProperties DEF Accounts
<1>3. CASE EndSeeding
  <2>1. idx = 0 /\ engine_stats = << >> /\ UNCHANGED <<idx, engine_stats>>
    BY <1>3 DEF EndSeeding, Accounts
  <2>2. Len(sent') = 1
    BY <1>3 DEF EndSeeding
  <2>3. Len(engine_stats') = 0
    BY <2>1, EmptySeq
  <2> QED BY <2>1, <2>2, <2>3 DEF StatsMatchOrders
<1>4. CASE GenerateOrders
  <2>1. task = "generating" /\ making = NIL /\ idx < Orders
    BY <1>4 DEF GenerateOrders
  <2>2. CASE Panic
    BY <2>1, <2>2 DEF Panic, StatsMatchOrders
  <2>3. ASSUME NEW order_type, Begin(order_type)
        PROVE  StatsMatchOrders'
    BY <1>1, <2>3 DEF Begin
  <2>4. ASSUME NEW id \in DOMAIN orders, CancelLimitOrder(id), Report("CANCEL")
        PROVE  StatsMatchOrders'
    <3>1. Owed
      BY <2>1, <2>4, Reports
    <3> QED BY <1>2, <2>1, <2>4, <3>1, ReportTells
  <2> QED BY <1>4, <2>2, <2>3, <2>4, GenerateCases
<1>5. CASE EndOrder
  <2>1. making \in {"ADD", "MODIFY", "CANCEL"} /\ Report(making)
    BY <1>5 DEF EndOrder, Records
  <2>2. Owed /\ task = "generating"
    BY <1>5, <2>1, Reports
  <2> QED BY <1>2, <2>1, <2>2, ReportTells
<1>6. CASE \/ \E side \in Side, price \in Price, shares \in 1..MaxShares : Seed(side, price, shares)
           \/ EndSeed \/ Trading \/ UNCHANGED <<vars, genVars>>
  BY <1>1, <1>6 DEF Seed, EndSeed, Trading, genVars
<1> QED BY <1>3, <1>4, <1>5, <1>6 DEF SimulatorNext

(* The inductive invariant of the reports. *)
LEMMA ReportsAreSound == SimulatorSpec => [](SimulatorInv /\ Accounts /\ Records)
<1>1. SimulatorInit => Accounts /\ Records
  <2> SUFFICES ASSUME SimulatorInit PROVE Accounts /\ Records
    OBVIOUS
  <2>1. Accounts
    BY EmptySeq DEF SimulatorInit, Init, Accounts
  <2>2. Records
    <3>1. CarriesTrades({}) /\ sent \in Seq(Seq({}))
      BY EmptySeq DEF SimulatorInit, CarriesTrades
    <3> QED BY <3>1, EmptySeq DEF SimulatorInit, Records, SentSoundly
  <2> QED BY <2>1, <2>2
<1>2. SimulatorInv /\ Accounts /\ Records
        /\ [SimulatorNext]_<<vars, genVars>> => Accounts' /\ Records'
  BY StepsKeepAccounts, StepsKeepRecords
<1> QED BY <1>1, <1>2, SimulatorInvariant, PTL DEF SimulatorSpec

(* StatsMatchOrders: every generated order has one record of statistics, in *)
(* order, and the list of updates it comes with holds as many trades as it  *)
(* counts (with the first, those of the seeding too), for any numbers of    *)
(* orders, depths and periods.                                              *)
THEOREM StatsAreComplete == SimulatorSpec => []StatsMatchOrders
<1>1. SimulatorInit => StatsMatchOrders
  BY EmptySeq DEF SimulatorInit, StatsMatchOrders
<1>2. SimulatorInv /\ Accounts /\ Accounts' /\ Records /\ StatsMatchOrders
        /\ [SimulatorNext]_<<vars, genVars>> => StatsMatchOrders'
  BY StepsKeepStats
<1> QED BY <1>1, <1>2, ReportsAreSound, PTL DEF SimulatorSpec

(* What is proved of the simulator holds of the simulator with its page. *)
LEMMA SimulationSimulates == SimulationSpec => SimulatorSpec
<1>1. SimulationInit => SimulatorInit
  BY DEF SimulationInit
<1>2. [SimulationNext]_allVars => [SimulatorNext]_<<vars, genVars>>
  BY DEF SimulationNext, allVars
<1> QED BY <1>1, <1>2, PTL DEF SimulationSpec, SimulatorSpec

(* The feed is a list of updates, and a report adds a list to it.     *)
LEMMA FeedIsSound ==
  ASSUME NEW S, sent \in Seq(Seq(S))
  PROVE  Feed \in Seq(S) /\ Len(Feed) \in Nat
<1>1. Feed \in Seq(S)
  BY FlattenIsSeq DEF Feed
<1> QED BY <1>1, LenProperties

(* The updates the page has still to take. *)
ToCome == SubSeq(Feed, shown + 1, Len(Feed))

(* Taking one update takes its trades off those that are still to come. *)
LEMMA TakeOne ==
  ASSUME NEW S, CarriesTrades(S), sent \in Seq(Seq(S)), shown \in 0..Len(Feed), shown < Len(Feed)
  PROVE  /\ Feed[shown + 1] \in S
         /\ TradesWith(Feed[shown + 1]) \in Seq(Traded)
         /\ TradesIn(SubSeq(Feed, shown + 2, Len(Feed))) \in Seq(Traded)
         /\ TradesIn(ToCome) = TradesWith(Feed[shown + 1])
                                 \o TradesIn(SubSeq(Feed, shown + 2, Len(Feed)))
<1>1. Feed \in Seq(S) /\ Len(Feed) \in Nat /\ CarriesTrades(S)
  BY FeedIsSound
<1>2. shown + 1 \in 1..Len(Feed) /\ Len(Feed) \in shown + 1..Len(Feed) /\ (shown + 1) + 1 = shown + 2
      /\ shown + 1 \in Nat /\ shown \in Nat
  BY <1>1
<1>3. Feed[shown + 1] \in S
  BY <1>1, <1>2, ElementOfSeq
<1>4. TradesWith(Feed[shown + 1]) \in Seq(Traded)
  BY <1>1, <1>3 DEF CarriesTrades
<1> DEFINE rest == SubSeq(Feed, shown + 2, Len(Feed))
           first == ToCome
<1>5. rest \in Seq(S) /\ first \in Seq(S)
  <2>1. SubSeq(Feed, (shown + 1) + 1, Len(Feed)) \in Seq(S)
    BY <1>1, <1>2, RestIsSeq
  <2>2. SubSeq(Feed, shown + 1, Len(Feed)) \in Seq(S)
    BY <1>1, <1>2, RestIsSeq
  <2> QED BY <1>2, <2>1, <2>2 DEF ToCome
<1>6. Head(first) = Feed[shown + 1] /\ Tail(first) = rest
  BY <1>1, <1>2, HeadTailOfSubSeq DEF ToCome
<1>7. first # << >>
  <2>1. first = << Feed[shown + 1] >> \o SubSeq(Feed, (shown + 1) + 1, Len(Feed))
    BY <1>1, <1>2, SubSeqRecursiveFirst DEF ToCome
  <2>2. << Feed[shown + 1] >> \in Seq(S) /\ << Feed[shown + 1] >> # << >>
    BY <1>3
  <2>3. first = << Feed[shown + 1] >> \o rest
    BY <1>2, <2>1
  <2> HIDE DEF first, rest
  <2> QED BY <1>5, <2>2, <2>3, ConcatEqualIffEmpty
<1> HIDE DEF first, rest
<1>8. TradesIn(first) = TradesWith(Head(first)) \o TradesIn(Tail(first))
  BY <1>1, <1>5, <1>7, TradesInHead
<1>9. TradesIn(rest) \in Seq(Traded)
  BY <1>1, <1>5, TradesListed
<1> QED BY <1>3, <1>4, <1>6, <1>8, <1>9 DEF first, rest

-----------------------------------------------------------------------------
(* The list of trades. *)
(* What Newest keeps is the end of the list. *)
LEMMA NewestIsLast ==
  ASSUME NEW S, NEW list \in Seq(S), NEW n \in Nat \ {0}
  PROVE  /\ Newest(n, list) \in Seq(S) /\ Len(Newest(n, list)) <= n
         /\ \E front \in Seq(S) : list = front \o Newest(n, list)
<1>1. Len(list) \in Nat
  BY LenProperties
<1>2. CASE Len(list) > n
  <2> DEFINE k == Len(list) - n
  <2>1. k \in Nat /\ k + 1 <= Len(list) /\ Len(list) - (k + 1) + 1 = n
    BY <1>1, <1>2
  <2>2. Newest(n, list) = SubSeq(list, k + 1, Len(list))
    BY <1>2 DEF Newest
  <2> HIDE DEF k
  <2>3. \A i \in k + 1..Len(list) : list[i] \in S
    BY <2>1, ElementOfSeq
  <2>4. /\ SubSeq(list, k + 1, Len(list)) \in Seq(S)
        /\ Len(SubSeq(list, k + 1, Len(list))) = n
    BY <1>1, <2>1, <2>3, SubSeqProperties
  <2>5. SubSeq(list, 1, k) \in Seq(S)
    <3>1. \A i \in 1..k : list[i] \in S
      BY <1>1, <2>1, ElementOfSeq
    <3> QED BY <2>1, <3>1, SubSeqProperties
  <2>6. SubSeq(list, 1, k) \o SubSeq(list, k + 1, Len(list)) = SubSeq(list, 1, Len(list))
    <3>1. 1 \in 1..Len(list) + 1 /\ k \in 1 - 1..Len(list) /\ Len(list) \in k..Len(list)
      BY <1>1, <2>1
    <3> QED BY <3>1, ConcatAdjacentSubSeq
  <2>7. SubSeq(list, 1, Len(list)) = list
    BY SubSeqFull
  <2>8. list = SubSeq(list, 1, k) \o Newest(n, list)
    BY <2>2, <2>6, <2>7, Zenon
  <2>9. \E front \in Seq(S) : list = front \o Newest(n, list)
    BY <2>5, <2>8, Zenon
  <2>10. Newest(n, list) \in Seq(S) /\ Len(Newest(n, list)) <= n
    BY <2>2, <2>4
  <2> QED BY <2>9, <2>10, Zenon
<1>3. CASE ~ (Len(list) > n)
  <2>1. Newest(n, list) = list
    BY <1>3 DEF Newest
  <2>2. << >> \in Seq(S) /\ list = << >> \o list
    BY EmptySeq, ConcatEmptySeq
  <2>3. \E front \in Seq(S) : list = front \o Newest(n, list)
    BY <2>1, <2>2, Zenon
  <2>4. Newest(n, list) \in Seq(S) /\ Len(Newest(n, list)) <= n
    BY <1>1, <1>3, <2>1
  <2> QED BY <2>3, <2>4, Zenon
<1> QED BY <1>2, <1>3

(* The page has taken some of the feed, and its list of trades ends with the *)
(* newest of all it was told.                                               *)
TradesAreShown ==
  /\ shown \in 0..Len(Feed)
  /\ all_executed_orders \in Seq(Traded) /\ listed_orders \in Seq(Traded)
  /\ \E before \in Seq(Traded) : all_executed_orders = before \o listed_orders
  /\ TradesReportedOnce

(* A list sent is a list more to come. *)
LEMMA MoreToCome ==
  ASSUME NEW S, sent \in Seq(Seq(S)), NEW updates \in Seq(S), sent' = Append(sent, updates),
         shown \in 0..Len(Feed), shown' = shown
  PROVE  /\ ToCome' = ToCome \o updates /\ ToCome \in Seq(S)
         /\ shown' \in 0..Len(Feed')
<1>1. FlattenSeq(Append(sent, updates)) = FlattenSeq(sent) \o updates
  BY FlattenAppend
<1>2. Feed' = Feed \o updates
  BY <1>1 DEF Feed
<1>3. Feed \in Seq(S) /\ Len(Feed) \in Nat
  BY FeedIsSound
<1>4. Len(Feed \o updates) = Len(Feed) + Len(updates) /\ Len(updates) \in Nat
  BY <1>3, ConcatProperties, LenProperties
<1> HIDE DEF Feed
<1>5. SubSeq(Feed \o updates, shown + 1, Len(Feed \o updates))
        = SubSeq(Feed, shown + 1, Len(Feed)) \o updates
  BY <1>3, RestOfMore
<1>6. shown \in Nat
  BY <1>3
<1>7. ToCome \in Seq(S)
  BY <1>3, <1>6, RestIsSeq DEF ToCome
<1>8. ToCome' = ToCome \o updates
  BY <1>2, <1>5 DEF ToCome
<1>9. shown' \in 0..Len(Feed')
  BY <1>2, <1>3, <1>4
<1> QED BY <1>7, <1>8, <1>9

LEMMA TradesRegroup == Regroups(Traded)
BY JoinsRegroup, Zenon

(* A report adds to what is to come the trades that are reported with it. *)
LEMMA ReportShows ==
  ASSUME Accounts, SentSoundly, TradesAreShown, NEW order_type, Report(order_type),
         UNCHANGED displayVars
  PROVE  TradesAreShown'
<1>1. PICK S, updates : IsReport(S, updates)
  BY ReportSends
<1>2. /\ CarriesTrades(S) /\ sent \in Seq(Seq(S)) /\ updates \in Seq(S)
      /\ sent' = Append(sent, updates)
      /\ \A list \in Seq(S) : TradesIn(list \o updates) = TradesIn(list) \o FreshTrades
  BY <1>1 DEF IsReport
<1>3. UNCHANGED <<shown, all_executed_orders, listed_orders>>
  BY DEF displayVars
<1>4. /\ ToCome' = ToCome \o updates /\ ToCome \in Seq(S)
      /\ shown' \in 0..Len(Feed')
  BY <1>2, <1>3, MoreToCome DEF TradesAreShown
<1>5. TradesIn(ToCome') = TradesIn(ToCome) \o FreshTrades
  BY <1>2, <1>4
<1>6. TradesIn(ToCome) \in Seq(Traded)
  BY <1>2, <1>4, TradesListed
<1>7. /\ FreshTrades \in Seq(Traded)
      /\ SubSeq(executed, 1, executed_orders_offset) \o FreshTrades = executed
  BY FreshAreTrades
<1>8. all_executed_orders \o TradesIn(ToCome) = SubSeq(executed, 1, executed_orders_offset)
  BY DEF TradesAreShown, TradesReportedOnce, ToCome
<1>9. all_executed_orders \o (TradesIn(ToCome) \o FreshTrades) = executed
  <2>1. \A l1, l2, l3 \in Seq(Traded) : (l1 \o l2) \o l3 = l1 \o (l2 \o l3)
    BY TradesRegroup, Zenon DEF Regroups
  <2>2. all_executed_orders \in Seq(Traded)
    BY DEF TradesAreShown
  <2>3. (all_executed_orders \o TradesIn(ToCome)) \o FreshTrades
          = all_executed_orders \o (TradesIn(ToCome) \o FreshTrades)
    BY <1>6, <1>7, <2>1, <2>2, Zenon
  <2> QED BY <1>7, <1>8, <2>3, Zenon
<1>10. executed' = executed /\ executed_orders_offset' = Len(executed)
  BY DEF Report
<1>11. SubSeq(executed, 1, Len(executed)) = executed
  BY SubSeqFull DEF Accounts
<1>12. TradesReportedOnce'
  BY <1>3, <1>5, <1>9, <1>10, <1>11 DEF TradesReportedOnce, ToCome
<1>13. Traded' = Traded
  BY <1>10 DEF Traded
<1> QED BY <1>3, <1>4, <1>12, <1>13 DEF TradesAreShown

(* TradesAreShown is kept by the server's steps ...                        *)
LEMMA SimulatorStepsShow ==
  ASSUME SimulatorInv, Accounts, Records, TradesAreShown,
         SimulatorNext, UNCHANGED displayVars
  PROVE  TradesAreShown'
<1>1. UNCHANGED <<shown, all_executed_orders, listed_orders>>
  BY DEF displayVars
<1>2. ASSUME UNCHANGED <<sent, executed, executed_orders_offset>>
      PROVE  TradesAreShown'
  <2>1. Traded' = Traded
    BY <1>2 DEF Traded
  <2> QED BY <1>1, <1>2, <2>1 DEF TradesAreShown, TradesReportedOnce, Feed
<1>3. CASE Trading
  <2>1. UNCHANGED <<sent, executed_orders_offset>>
    BY <1>3 DEF Trading
  <2>2. SUFFICES ASSUME NEW t, executed' = Append(executed, t), Traded \subseteq Traded', t \in Traded'
                 PROVE  TradesAreShown'
    BY <1>2, <1>3, <2>1, TradingTrades
  <2>3. SubSeq(executed', 1, executed_orders_offset) = SubSeq(executed, 1, executed_orders_offset)
    <3>1. executed \in Seq(Traded') /\ t \in Traded'
      BY <2>2, SeqMonotonic DEF Accounts
    <3> QED BY <2>2, <3>1, StartOfMore DEF Accounts
  <2>4. /\ all_executed_orders \in Seq(Traded') /\ listed_orders \in Seq(Traded')
        /\ \E before \in Seq(Traded') : all_executed_orders = before \o listed_orders
    BY <2>2, SeqMonotonic DEF TradesAreShown
  <2> QED BY <1>1, <2>1, <2>3, <2>4 DEF TradesAreShown, TradesReportedOnce, Feed
<1>4. CASE EndSeeding
  <2>1. PICK u : u = PriceLevels(TRUE, arena, SnapshotDepth)
    OBVIOUS
  <2>2. TradesWith(u) = << >>
    BY <2>1 DEF TradesWith, PriceLevels
  <2>3. sent = << >> /\ sent' = << << u >> >> /\ UNCHANGED <<executed, executed_orders_offset>>
    BY <1>4, <2>1 DEF EndSeeding, Accounts
  <2> DEFINE S == {u}
  <2>4. /\ << u >> \in Seq(S) /\ sent \in Seq(Seq(S)) /\ CarriesTrades(S) /\ u \in S
    BY <2>2, <2>3, EmptySeq, OneIsSeq DEF CarriesTrades
  <2> HIDE DEF S
  <2>5. sent' = Append(sent, << u >>)
    BY <2>3
  <2>6. /\ ToCome' = ToCome \o << u >> /\ ToCome \in Seq(S)
        /\ shown' \in 0..Len(Feed')
    BY <1>1, <2>4, <2>5, MoreToCome DEF TradesAreShown
  <2>7. TradesIn(ToCome \o << u >>) = TradesIn(ToCome) \o TradesWith(u)
    BY <2>4, <2>6, TradesInMore
  <2>8. TradesIn(ToCome) \in Seq(Traded)
    BY <2>4, <2>6, TradesListed
  <2>9. TradesIn(ToCome') = TradesIn(ToCome)
    BY <2>2, <2>6, <2>7, <2>8, ConcatEmptySeq
  <2>10. TradesReportedOnce'
    BY <1>1, <2>3, <2>9 DEF TradesAreShown, TradesReportedOnce, ToCome
  <2>11. Traded' = Traded
    BY <2>3 DEF Traded
  <2> QED BY <1>1, <2>6, <2>10, <2>11 DEF TradesAreShown
<1>5. CASE GenerateOrders
  <2>1. CASE Panic
    BY <1>2, <2>1 DEF Panic
  <2>2. ASSUME NEW order_type, Begin(order_type)
        PROVE  TradesAreShown'
    BY <1>2, <2>2 DEF Begin
  <2>3. ASSUME Report("CANCEL")
        PROVE  TradesAreShown'
    BY <2>3, ReportShows DEF Records
  <2> QED BY <1>5, <2>1, <2>2, <2>3, GenerateCases
<1>6. CASE EndOrder
  BY <1>6, ReportShows DEF EndOrder, Records
<1>7. CASE \/ \E side \in Side, price \in Price, shares \in 1..MaxShares : Seed(side, price, shares)
           \/ EndSeed
  BY <1>2, <1>7 DEF Seed, EndSeed, genVars
<1> QED BY <1>3, <1>4, <1>5, <1>6, <1>7 DEF SimulatorNext

(* ... and by the page's: a trade passes from what is to come to what the   *)
(* page has.                                                                *)
LEMMA ShowStepsShow ==
  ASSUME Records, TradesAreShown, Show, UNCHANGED <<vars, genVars>>
  PROVE  TradesAreShown'
<1>1. PICK S : CarriesTrades(S) /\ sent \in Seq(Seq(S))
  BY DEF Records, SentSoundly
<1>2. shown < Len(Feed) /\ shown' = shown + 1
  BY DEF Show, ShowStats, ShowLevels, ShowTrades, ShowBest, Take
<1>3. UNCHANGED <<sent, executed, executed_orders_offset>> /\ Feed' = Feed /\ Traded' = Traded
  BY DEF genVars, Feed, Traded
<1>4. Feed \in Seq(S) /\ Len(Feed) \in Nat
  BY <1>1, FeedIsSound
<1>5. shown' \in 0..Len(Feed')
  BY <1>2, <1>3, <1>4 DEF TradesAreShown
<1> DEFINE update == Feed[shown + 1]
           rest == TradesIn(SubSeq(Feed, shown + 2, Len(Feed)))
<1>6. /\ TradesWith(update) \in Seq(Traded) /\ rest \in Seq(Traded)
      /\ TradesIn(ToCome) = TradesWith(update) \o rest
  BY <1>1, <1>2, TakeOne DEF TradesAreShown
<1>7. TradesIn(ToCome') = rest
  <2>1. shown' + 1 = shown + 2
    BY <1>2, <1>4 DEF TradesAreShown
  <2>2. ToCome' = SubSeq(Feed, shown + 2, Len(Feed))
    BY <1>3, <2>1 DEF ToCome
  <2> QED BY <2>2
<1> HIDE DEF rest
<1>8. all_executed_orders \o TradesIn(ToCome) = SubSeq(executed, 1, executed_orders_offset)
  BY DEF TradesAreShown, TradesReportedOnce, ToCome
<1>9. PICK fresh \in Seq(Traded) : fresh = TradesWith(update)
  BY <1>6
<1> HIDE DEF update
<1>10. PICK before \in Seq(Traded) : all_executed_orders = before \o listed_orders
  BY DEF TradesAreShown
<1>11. all_executed_orders \in Seq(Traded) /\ listed_orders \in Seq(Traded)
  BY DEF TradesAreShown
<1>12. (all_executed_orders \o fresh) \o rest = SubSeq(executed, 1, executed_orders_offset)
  <2>1. \A l1, l2, l3 \in Seq(Traded) : (l1 \o l2) \o l3 = l1 \o (l2 \o l3)
    BY TradesRegroup, Zenon DEF Regroups
  <2>2. (all_executed_orders \o fresh) \o rest = all_executed_orders \o (fresh \o rest)
    BY <1>6, <1>9, <1>11, <2>1, Zenon
  <2> QED BY <1>6, <1>8, <1>9, <2>2, Zenon
<1>13. CASE UNCHANGED <<all_executed_orders, listed_orders>> /\ fresh = << >>
  <2>1. all_executed_orders \o fresh = all_executed_orders
    BY <1>11, <1>13, ConcatEmptySeq
  <2>2. all_executed_orders' \o TradesIn(ToCome') = SubSeq(executed, 1, executed_orders_offset)
    BY <1>7, <1>12, <1>13, <2>1
  <2>3. TradesReportedOnce'
    BY <1>3, <2>2 DEF TradesReportedOnce, ToCome
  <2> QED BY <1>3, <1>5, <1>10, <1>11, <1>13, <2>3 DEF TradesAreShown
<1>14. CASE /\ all_executed_orders' = all_executed_orders \o fresh
            /\ \/ listed_orders' = Newest(LastTrades, listed_orders \o fresh)
               \/ listed_orders' = listed_orders \o fresh
  <2>1. PICK listed \in Seq(Traded) : listed = listed_orders \o fresh
    BY <1>11, ConcatProperties
  <2>2. PICK front \in Seq(Traded) : listed = front \o listed_orders' /\ listed_orders' \in Seq(Traded)
    <3>1. CASE listed_orders' = listed
      <4>1. << >> \in Seq(Traded) /\ listed = << >> \o listed
        BY EmptySeq, ConcatEmptySeq
      <4> QED BY <3>1, <4>1, Zenon
    <3>2. CASE listed_orders' = Newest(LastTrades, listed)
      <4>1. LastTrades \in Nat \ {0}
        BY DisplayIsPositive
      <4> QED BY <3>2, <4>1, NewestIsLast
    <3> QED BY <1>14, <2>1, <3>1, <3>2
  <2>3. \A l1, l2, l3 \in Seq(Traded) : (l1 \o l2) \o l3 = l1 \o (l2 \o l3)
    BY TradesRegroup, Zenon DEF Regroups
  <2>4. (before \o listed_orders) \o fresh = before \o (listed_orders \o fresh)
    BY <1>11, <2>3, Zenon
  <2>5. (before \o front) \o listed_orders' = before \o (front \o listed_orders')
    <3>1. \A l3 \in Seq(Traded) : (before \o front) \o l3 = before \o (front \o l3)
      BY <2>3, Zenon
    <3> QED BY <2>2, <3>1, Zenon
  <2>6. all_executed_orders' = (before \o front) \o listed_orders'
    BY <1>10, <1>14, <2>1, <2>2, <2>4, <2>5, Zenon
  <2>7. before \o front \in Seq(Traded) /\ all_executed_orders' \in Seq(Traded)
    BY <1>11, <1>14, ConcatProperties
  <2>8. all_executed_orders' \o TradesIn(ToCome') = SubSeq(executed, 1, executed_orders_offset)
    BY <1>7, <1>12, <1>14
  <2>9. TradesReportedOnce'
    BY <1>3, <2>8 DEF TradesReportedOnce, ToCome
  <2>10. \E more \in Seq(Traded) : all_executed_orders' = more \o listed_orders'
    BY <2>6, <2>7, Zenon
  <2> QED BY <1>3, <1>5, <2>2, <2>7, <2>9, <2>10 DEF TradesAreShown
<1>15. CASE ShowTrades
  <2>1. update.type = "Trades"
    BY <1>15 DEF ShowTrades, Take, update
  <2>2. fresh = update.trades
    BY <1>9, <2>1 DEF TradesWith
  <2>3. /\ all_executed_orders' = all_executed_orders \o update.trades
        /\ \/ listed_orders' = Newest(LastTrades, listed_orders \o update.trades)
           \/ listed_orders' = listed_orders \o update.trades
    BY <1>15 DEF ShowTrades, update
  <2> QED BY <1>14, <2>2, <2>3
<1>16. CASE ShowStats \/ ShowLevels \/ ShowBest
  <2>1. update.type # "Trades" /\ UNCHANGED <<all_executed_orders, listed_orders>>
    BY <1>16 DEF ShowStats, ShowLevels, ShowBest, Take, update
  <2>2. fresh = << >>
    BY <1>9, <2>1 DEF TradesWith
  <2> QED BY <1>13, <2>1, <2>2
<1> QED BY <1>15, <1>16 DEF Show

TasksAreNamed ==
  /\ task \in {"seeding", "generating", "returned", "panicked"}
  /\ task = "seeding" => order_id = 1

LEMMA StepsNameTasks ==
  ASSUME SimulatorInv, TasksAreNamed, [SimulatorNext]_<<vars, genVars>>
  PROVE  TasksAreNamed'
<1>1. ASSUME NEW order_type, task = "generating", Report(order_type)
      PROVE  TasksAreNamed'
  BY <1>1 DEF Report, TasksAreNamed
<1>2. CASE GenerateOrders
  <2>1. task = "generating"
    BY <1>2 DEF GenerateOrders
  <2>2. CASE Panic
    BY <2>2 DEF Panic, TasksAreNamed
  <2>3. ASSUME NEW order_type, Begin(order_type)
        PROVE  TasksAreNamed'
    BY <2>3 DEF Begin, TasksAreNamed
  <2> QED BY <1>1, <1>2, <2>1, <2>2, <2>3, GenerateCases
<1>3. CASE EndOrder
  BY <1>1, <1>3 DEF EndOrder, SimulatorInv, CountersAgree
<1>4. CASE EndSeeding
  BY <1>4 DEF EndSeeding, TasksAreNamed
<1>5. CASE \/ \E side \in Side, price \in Price, shares \in 1..MaxShares : Seed(side, price, shares)
           \/ EndSeed \/ Trading \/ UNCHANGED <<vars, genVars>>
  BY <1>5 DEF Seed, EndSeed, Trading, genVars, TasksAreNamed
<1> QED BY <1>2, <1>3, <1>4, <1>5 DEF SimulatorNext

ListIsShort == ui \in {"running", "panicked"} /\ Len(fulfilled_orders) <= LastTrades

LEMMA ShowKeepsListShort ==
  ASSUME Records, TradesAreShown, ListIsShort, Show, UNCHANGED <<vars, genVars>>
  PROVE  ListIsShort'
<1>1. PICK S : CarriesTrades(S) /\ sent \in Seq(Seq(S))
  BY DEF Records, SentSoundly
<1>2. shown < Len(Feed)
  BY DEF Show, ShowStats, ShowLevels, ShowTrades, ShowBest, Take
<1> DEFINE update == Feed[shown + 1]
<1>3. TradesWith(update) \in Seq(Traded)
  BY <1>1, <1>2, TakeOne DEF TradesAreShown
<1> HIDE DEF update
<1>4. CASE ShowStats \/ ShowBest
  BY <1>4 DEF ShowStats, ShowBest, Take, ListIsShort
<1>5. CASE ShowLevels
  <2>1. ui' \in {"running", "panicked"} /\ UNCHANGED fulfilled_orders
    BY <1>5 DEF ShowLevels, Replace, Update, ListIsShort
  <2> QED BY <2>1 DEF ListIsShort
<1>6. CASE ShowTrades
  <2>1. update.trades \in Seq(Traded)
    <3>1. update.type = "Trades"
      BY <1>6 DEF ShowTrades, Take, update
    <3> QED BY <1>3, <3>1 DEF TradesWith
  <2>2. listed_orders \o update.trades \in Seq(Traded)
    BY <2>1, ConcatProperties DEF TradesAreShown
  <2>3. Len(Newest(LastTrades, listed_orders \o update.trades)) <= LastTrades
    BY <2>2, NewestIsLast, DisplayIsPositive
  <2>4. \/ fulfilled_orders' = Newest(LastTrades, listed_orders \o update.trades)
        \/ fulfilled_orders' = fulfilled_orders
    BY <1>6 DEF ShowTrades, update
  <2>5. UNCHANGED ui
    BY <1>6 DEF ShowTrades
  <2> QED BY <2>3, <2>4, <2>5 DEF ListIsShort
<1> QED BY <1>4, <1>5, <1>6 DEF Show

(* The page is empty at first. *)
LEMMA DisplayStarts ==
  ASSUME SimulationInit
  PROVE  TradesAreShown /\ TasksAreNamed /\ ListIsShort
<1>1. /\ sent = << >> /\ executed = << >> /\ executed_orders_offset = 0
      /\ task = "seeding" /\ order_id = 1
  BY DEF SimulationInit, SimulatorInit
<1>2. /\ shown = 0 /\ all_executed_orders = << >> /\ listed_orders = << >>
      /\ ui = "running" /\ fulfilled_orders = << >>
  BY DEF SimulationInit, DisplayInit
<1>3. Feed = << >> /\ Len(Feed) = 0
  BY <1>1, FlattenEmpty, EmptySeq DEF Feed
<1>4. << >> \in Seq(Traded) /\ << >> \o << >> = << >>
  BY EmptySeq, ConcatEmptySeq
<1>5. TradesReportedOnce
  <2>1. SubSeq(Feed, shown + 1, Len(Feed)) = << >> /\ SubSeq(executed, 1, executed_orders_offset) = << >>
    BY <1>1, <1>2, <1>3, SubSeqEmpty
  <2> QED BY <1>2, <1>4, <2>1, TradesInNone DEF TradesReportedOnce
<1>6. TradesAreShown
  <2>1. \E before \in Seq(Traded) : all_executed_orders = before \o listed_orders
    BY <1>2, <1>4, Zenon
  <2> QED BY <1>2, <1>3, <1>4, <1>5, <2>1 DEF TradesAreShown
<1>7. TasksAreNamed
  BY <1>1 DEF TasksAreNamed
<1>8. ListIsShort
  <2>1. Len(<< >>) <= LastTrades
    BY EmptySeq, DisplayIsPositive
  <2> QED BY <1>2, <2>1 DEF ListIsShort
<1> QED BY <1>6, <1>7, <1>8

SimulationInv == TradesAreShown /\ TasksAreNamed /\ ListIsShort

(* The inductive invariant of the page. *)
LEMMA SimulationInvariant == SimulationSpec => []SimulationInv
<1>1. SimulationInit => SimulationInv
  BY DisplayStarts DEF SimulationInv
<1>2. SimulatorInv /\ Accounts /\ Records /\ SimulationInv /\ [SimulationNext]_allVars => SimulationInv'
  <2> SUFFICES ASSUME SimulatorInv, Accounts, Records, SimulationInv, [SimulationNext]_allVars
               PROVE  SimulationInv'
    OBVIOUS
  <2>1. CASE SimulatorNext /\ UNCHANGED displayVars
    <3>1. TradesAreShown'
      BY <2>1, SimulatorStepsShow DEF SimulationInv
    <3>2. TasksAreNamed'
      BY <2>1, StepsNameTasks DEF SimulationInv
    <3>3. ListIsShort'
      BY <2>1 DEF SimulationInv, ListIsShort, displayVars
    <3> QED BY <3>1, <3>2, <3>3 DEF SimulationInv
  <2>2. CASE Show /\ UNCHANGED <<vars, genVars>>
    <3>1. TradesAreShown' /\ ListIsShort'
      BY <2>2, ShowStepsShow, ShowKeepsListShort DEF SimulationInv
    <3>2. TasksAreNamed'
      BY <2>2 DEF SimulationInv, TasksAreNamed, genVars
    <3> QED BY <3>1, <3>2 DEF SimulationInv
  <2>3. CASE UNCHANGED allVars
    <3>1. TasksAreNamed' /\ ListIsShort'
      BY <2>3 DEF allVars, genVars, displayVars, SimulationInv, TasksAreNamed, ListIsShort
    <3>2. TradesAreShown'
      <4>1. Traded' = Traded
        BY <2>3 DEF allVars, genVars, Traded
      <4> QED BY <2>3, <4>1 DEF allVars, genVars, displayVars, SimulationInv, TradesAreShown,
                                TradesReportedOnce, Feed
    <3> QED BY <3>1, <3>2 DEF SimulationInv
  <2> QED BY <2>1, <2>2, <2>3 DEF SimulationNext
<1> QED BY <1>1, <1>2, SimulationSimulates, ReportsAreSound, PTL DEF SimulationSpec

(* TradesReportedOnce: what the page has and what is still on its way to it *)
(* is, in order, what the book has traded up to the last report, whatever   *)
(* the timers do.                                                           *)
THEOREM EveryTradeIsShownOnce == SimulationSpec => []TradesReportedOnce
<1>1. SimulationInv => TradesReportedOnce
  BY DEF SimulationInv, TradesAreShown
<1> QED BY <1>1, SimulationInvariant, PTL


-----------------------------------------------------------------------------
(* As long as BushyTrees. *)

LEMMA ArenaHolds ==
  Spec /\ []BushyTrees => [](ArenaInv /\ TreesInOrder /\ TreesServe /\ TypeOK)
<1>1. Init => ArenaInv /\ TreesInOrder
  BY ArenaStart, TreesStart
<1>2. TreesInOrder /\ BushyTrees => TreesServe
  BY OrderServes
<1>3. ArenaInv /\ TreesInOrder /\ BushyTrees /\ [Next]_vars => TreesInOrder'
  BY TreesStep
<1>4. ArenaInv /\ TreesServe /\ TreesServe' /\ [Next]_vars => ArenaInv'
  BY ArenaStep
<1> QED BY <1>1, <1>2, <1>3, <1>4, ArenaTypeCorrect, PTL DEF Spec

(* The best price of a side is one of its prices, or none. *)
LEMMA EdgeIsPrice ==
  ASSUME NEW b, NEW side, GoodSide(b, side)
  PROVE  b.edge \in Price \cup {NIL}
<1>1. CASE DOMAIN b.limits = {}
  BY <1>1 DEF GoodSide
<1>2. CASE DOMAIN b.limits # {}
  <2>1. DOMAIN b.limits \subseteq Price
    BY <1>2 DEF GoodSide, IsTree
  <2>2. b.edge \in DOMAIN b.limits
    BY <1>2 DEF GoodSide, IsBest
  <2> QED BY <2>1, <2>2
<1> QED BY <1>1, <1>2

(* An order's updates are of the four kinds there are. *)
LEMMA UpdatesListed ==
  ASSUME Accounts, NEW stats, NEW ar
  PROVE  Updates(stats, ar) \in Seq(UpdateSet(stats, ar))
<1> DEFINE U == UpdateSet(stats, ar)
<1>1. FreshTrades \in Seq(Traded)
  BY FreshAreTrades
<1>2. CarriesTrades(U) /\ UpdateSet(stats, ar) \subseteq U /\ << >> \in Seq(U)
  BY <1>1, UpdatesCarryTrades, EmptySeq
<1> HIDE DEF U
<1>3. Updates(stats, ar) \in Seq(U)
  BY <1>1, <1>2, TradesInUpdates
<1> QED BY <1>3 DEF U

(* Updates whose best prices are prices. *)
Quoted(S) ==
  \A u \in S : u.type = "BestLevels" => \A side \in Side : u.best[side] \in Price \cup {NIL}

Quotes ==
  /\ \E S : Quoted(S) /\ sent \in Seq(Seq(S))
  /\ \A side \in Side : best[side] \in Price \cup {NIL}
  /\ spread \in Nat \cup {NIL}
  /\ executed \in Seq(Execution)

LEMMA ReportKeepsQuotes ==
  ASSUME Accounts, Quotes, TreesInOrder', NEW order_type, Report(order_type),
         UNCHANGED displayVars
  PROVE  Quotes'
<1>1. PICK R : Quoted(R) /\ sent \in Seq(Seq(R))
  BY DEF Quotes
<1> DEFINE more == UpdateSet(engine_stats', arena')
<1>2. Quoted(more)
  <2>1. \A side \in Side : BestPrice(arena', side) \in Price \cup {NIL}
    <3> TAKE side \in Side
    <3>1. GoodSide(arena'[side], side)
      BY DEF TreesInOrder
    <3> QED BY <3>1, EdgeIsPrice DEF BestPrice
  <2>2. BestUpdate(arena').best = [side \in Side |-> BestPrice(arena', side)]
    BY DEF BestUpdate
  <2>3. /\ StatUpdate(engine_stats').type # "BestLevels"
        /\ PriceLevels(FALSE, arena', UpdateDepth).type # "BestLevels"
        /\ TradesUpdate.type # "BestLevels"
    BY DEF StatUpdate, PriceLevels, TradesUpdate
  <2> QED BY <2>1, <2>2, <2>3 DEF Quoted, UpdateSet
<1>3. PICK updates : updates = Updates(engine_stats', arena') /\ updates \in Seq(more)
  BY UpdatesListed
<1> HIDE DEF more
<1>4. PICK S : S = R \cup more
  OBVIOUS
<1>5. sent \in Seq(Seq(S)) /\ more \subseteq S
  BY <1>1, <1>4, SeqOfMore
<1>6. updates \in Seq(S)
  BY <1>3, <1>5, SeqMonotonic
<1>7. sent' = Append(sent, updates)
  BY <1>3 DEF Report
<1>8. sent' \in Seq(Seq(S))
  BY <1>5, <1>6, <1>7, AppendProperties
<1>9. Quoted(S)
  BY <1>1, <1>2, <1>4 DEF Quoted
<1>10. UNCHANGED <<best, spread, executed>>
  BY DEF displayVars, Report
<1> QED BY <1>8, <1>9, <1>10 DEF Quotes

(* The trades listed are those of the arena. *)
LEMMA TradingKeepsTypes ==
  ASSUME Accounts, Quotes, ArenaInv, ArenaInv', Trading
  PROVE  executed' \in Seq(Execution)
<1>1. /\ executed \in Seq(Execution)
      /\ executed_orders \in Seq(Execution) /\ executed_orders' \in Seq(Execution)
  BY DEF Quotes, ArenaInv
<1>2. ASSUME NEW t, executed' = Append(executed, t), executed_orders' = Append(executed_orders, t)
      PROVE  executed' \in Seq(Execution)
  <2>1. PICK S : S = Execution \cup {t}
    OBVIOUS
  <2>2. executed_orders \in Seq(S) /\ t \in S
    BY <1>1, <2>1, SeqMonotonic
  <2>3. /\ Len(executed_orders) \in Nat
        /\ Len(executed_orders') = Len(executed_orders) + 1
        /\ executed_orders'[Len(executed_orders) + 1] = t
    BY <1>2, <2>2, AppendProperties, LenProperties
  <2>4. t \in Execution
    <3>1. Len(executed_orders) + 1 \in 1..Len(executed_orders')
      BY <2>3
    <3> QED BY <1>1, <2>3, <3>1, ElementOfSeq
  <2> QED BY <1>1, <1>2, <2>4, AppendProperties
<1> QED BY <1>1, <1>2, TradingTrades

LEMMA SimulatorStepsKeepQuotes ==
  ASSUME SimulatorInv, Accounts, Quotes, ArenaInv, ArenaInv', TreesInOrder',
         SimulatorNext, UNCHANGED displayVars
  PROVE  Quotes'
<1>1. UNCHANGED <<best, spread>>
  BY DEF displayVars
<1>2. ASSUME UNCHANGED <<sent, executed>> PROVE Quotes'
  BY <1>1, <1>2 DEF Quotes
<1>3. CASE Trading
  <2>1. executed' \in Seq(Execution)
    BY <1>3, TradingKeepsTypes
  <2>2. UNCHANGED sent
    BY <1>3 DEF Trading
  <2> QED BY <1>1, <2>1, <2>2 DEF Quotes
<1>4. CASE EndSeeding
  <2> DEFINE snapshot == PriceLevels(TRUE, arena, SnapshotDepth)
             S == {snapshot}
  <2>1. snapshot.type = "PriceLevels"
    BY DEF PriceLevels
  <2>2. sent' = << << snapshot >> >> /\ executed' = executed
    BY <1>4 DEF EndSeeding
  <2> HIDE DEF snapshot
  <2>3. sent' \in Seq(Seq(S)) /\ Quoted(S)
    BY <2>1, <2>2, OneIsSeq DEF Quoted
  <2> QED BY <1>1, <2>2, <2>3 DEF Quotes
<1>5. CASE GenerateOrders
  <2>1. CASE Panic
    BY <1>2, <2>1 DEF Panic
  <2>2. ASSUME NEW order_type, Begin(order_type) PROVE Quotes'
    BY <1>2, <2>2 DEF Begin
  <2>3. ASSUME Report("CANCEL") PROVE Quotes'
    BY <2>3, ReportKeepsQuotes
  <2> QED BY <1>5, <2>1, <2>2, <2>3, GenerateCases
<1>6. CASE EndOrder
  BY <1>6, ReportKeepsQuotes DEF EndOrder
<1>7. CASE \/ \E side \in Side, price \in Price, shares \in 1..MaxShares : Seed(side, price, shares)
           \/ EndSeed
  BY <1>2, <1>7 DEF Seed, EndSeed, genVars
<1> QED BY <1>3, <1>4, <1>5, <1>6, <1>7 DEF SimulatorNext

LEMMA DistanceIsNat ==
  ASSUME NEW p \in Int, NEW q \in Int
  PROVE  Distance(p, q) \in Nat
BY DEF Distance

LEMMA ShowKeepsQuotes ==
  ASSUME TradesAreShown, Quotes, Show, UNCHANGED <<vars, genVars>>
  PROVE  Quotes'
<1>1. PICK S : Quoted(S) /\ sent \in Seq(Seq(S))
  BY DEF Quotes
<1>2. UNCHANGED <<sent, executed>>
  BY DEF genVars
<1>3. CASE ShowStats \/ ShowLevels \/ ShowTrades
  BY <1>2, <1>3 DEF ShowStats, ShowLevels, ShowTrades, Quotes
<1>4. CASE ShowBest
  <2> DEFINE update == Feed[shown + 1]
             new == update.best
  <2>1. Feed \in Seq(S) /\ shown + 1 \in 1..Len(Feed)
    <3>1. Feed \in Seq(S) /\ Len(Feed) \in Nat
      BY <1>1, FeedIsSound
    <3> QED BY <1>4, <3>1 DEF ShowBest, Take, TradesAreShown
  <2>2. update \in S /\ update.type = "BestLevels"
    BY <1>4, <2>1, ElementOfSeq DEF ShowBest, Take
  <2>3. \A side \in Side : new[side] \in Price \cup {NIL}
    BY <1>1, <2>2 DEF Quoted
  <2>4. \/ /\ best' = new
           /\ spread' = IF NIL \in {new["Bid"], new["Ask"]}
                        THEN spread ELSE Distance(new["Bid"], new["Ask"])
        \/ UNCHANGED <<best, spread>>
    BY <1>4 DEF ShowBest
  <2> HIDE DEF new
  <2>5. NIL \notin {new["Bid"], new["Ask"]} => Distance(new["Bid"], new["Ask"]) \in Nat
    <3>1. new["Bid"] \in Price \cup {NIL} /\ new["Ask"] \in Price \cup {NIL}
      BY <2>3 DEF Side
    <3> QED BY <3>1, DistanceIsNat, PricesAreIntegers
  <2> QED BY <1>2, <2>3, <2>4, <2>5 DEF Quotes
<1> QED BY <1>3, <1>4 DEF Show

LEMMA QuotesHold == SimulationSpec /\ []BushyTrees => []Quotes
<1>1. SimulationInit => Quotes
  <2> SUFFICES ASSUME SimulationInit PROVE Quotes
    OBVIOUS
  <2>1. sent = << >> /\ executed = << >> /\ spread = NIL /\ best = [side \in Side |-> NIL]
    BY DEF SimulationInit, SimulatorInit, DisplayInit
  <2>2. Quoted({}) /\ sent \in Seq(Seq({}))
    BY <2>1, EmptySeq DEF Quoted
  <2> QED BY <2>1, <2>2, EmptySeq DEF Quotes
<1>2. SimulatorInv /\ Accounts /\ SimulationInv /\ Quotes /\ ArenaInv /\ ArenaInv' /\ TreesInOrder'
        /\ [SimulationNext]_allVars => Quotes'
  <2> SUFFICES ASSUME SimulatorInv, Accounts, SimulationInv, Quotes, ArenaInv, ArenaInv',
                      TreesInOrder', [SimulationNext]_allVars
               PROVE  Quotes'
    OBVIOUS
  <2>1. CASE SimulatorNext /\ UNCHANGED displayVars
    BY <2>1, SimulatorStepsKeepQuotes
  <2>2. CASE Show /\ UNCHANGED <<vars, genVars>>
    BY <2>2, ShowKeepsQuotes DEF SimulationInv
  <2>3. CASE UNCHANGED allVars
    BY <2>3 DEF allVars, genVars, displayVars, Quotes
  <2> QED BY <2>1, <2>2, <2>3 DEF SimulationNext
<1> QED BY <1>1, <1>2, SimulationInvariant, SimulationSimulates, ReportsAreSound,
           SimulatorUsesTheEngine, ArenaHolds, PTL DEF SimulationSpec

(* SimulationTypeOK: as long as an only child is a leaf in both trees, the  *)
(* types of the arena, the generator and the page; the list of trades is no *)
(* longer than the page allows and ends the trades received.                *)
THEOREM SimulationTypeCorrect == SimulationSpec /\ []BushyTrees => []SimulationTypeOK
<1>1. SimulatorInv /\ Accounts /\ Records /\ SimulationInv /\ Quotes /\ TypeOK => SimulationTypeOK
  <2> SUFFICES ASSUME SimulatorInv, Accounts, Records, SimulationInv, Quotes, TypeOK
               PROVE  SimulationTypeOK
    OBVIOUS
  <2>1. order_id \in 1..Seeds + Orders + 1
    <3>1. CASE task = "seeding"
      BY <3>1, IdsSuffice DEF SimulationInv, TasksAreNamed
    <3>2. CASE task # "seeding"
      BY <3>2, IdsSuffice DEF SimulatorInv, CountersAgree
    <3> QED BY <3>1, <3>2
  <2>2. IsSuffix(listed_orders, all_executed_orders)
    BY EndIsSuffix DEF SimulationInv, TradesAreShown
  <2>3. seeded \in 0..Seeds /\ idx \in 0..Orders
    BY DEF SimulatorInv, CountersAgree
  <2>4. making \in {"ADD", "MODIFY", NIL}
    BY DEF Records
  <2>5. executed \in Seq(Execution) /\ executed_orders_offset \in 0..Len(executed)
        /\ (\A side \in Side : best[side] \in Price \cup {NIL}) /\ spread \in Nat \cup {NIL}
    BY DEF Accounts, Quotes
  <2>6. shown \in 0..Len(Feed) /\ task \in {"seeding", "generating", "returned", "panicked"}
    BY DEF SimulationInv, TradesAreShown, TasksAreNamed
  <2>7. ui \in {"running", "panicked"} /\ Len(fulfilled_orders) <= LastTrades
    BY DEF SimulationInv, ListIsShort
  <2> QED BY <2>1, <2>2, <2>3, <2>4, <2>5, <2>6, <2>7 DEF SimulationTypeOK
<1> QED BY <1>1, SimulationInvariant, SimulationSimulates, ReportsAreSound, QuotesHold,
           SimulatorUsesTheEngine, ArenaHolds, PTL

-----------------------------------------------------------------------------
(* The page and the arena. *)

(* The levels and the best prices of an update are what the arena shows.  *)
ShowsBook(u) ==
  /\ u.type = "PriceLevels" =>
       ~ u.snapshot /\ u.levels = [side \in Side |-> LevelsOf(arena, side, UpdateDepth)]
  /\ u.type = "BestLevels" => u.best = [side \in Side |-> BestPrice(arena, side)]

(* Between calls the last list sent shows the arena as it is. *)
LastIsCurrent ==
  making = NIL /\ Len(sent) > 1 =>
    \A i \in 1..Len(sent[Len(sent)]) : ShowsBook(sent[Len(sent)][i])

(* The list of a report is of the arena the order left. *)
LEMMA ReportShowsBook ==
  ASSUME Accounts, SentSoundly, NEW order_type, Report(order_type)
  PROVE  LastIsCurrent'
<1> DEFINE U == UpdateSet(engine_stats', arena')
<1>1. PICK updates : updates = Updates(engine_stats', arena')
  OBVIOUS
<1>2. updates \in Seq(U)
  BY <1>1, UpdatesListed
<1>3. ASSUME NEW u \in U PROVE ShowsBook(u)'
  <2>1. CASE u = StatUpdate(engine_stats')
    <3>1. u.type = "ExecutionStats"
      BY <2>1 DEF StatUpdate
    <3> QED BY <3>1 DEF ShowsBook
  <2>2. CASE u = PriceLevels(FALSE, arena', UpdateDepth)
    <3>1. /\ u.type = "PriceLevels" /\ u.snapshot = FALSE
          /\ u.levels = [side \in Side |-> LevelsOf(arena', side, UpdateDepth)]
      BY <2>2 DEF PriceLevels
    <3> QED BY <3>1 DEF ShowsBook
  <2>3. CASE u = BestUpdate(arena')
    <3>1. u.type = "BestLevels" /\ u.best = [side \in Side |-> BestPrice(arena', side)]
      BY <2>3 DEF BestUpdate
    <3> QED BY <3>1 DEF ShowsBook
  <2>4. CASE u = TradesUpdate
    <3>1. u.type = "Trades"
      BY <2>4 DEF TradesUpdate
    <3> QED BY <3>1 DEF ShowsBook
  <2> QED BY <2>1, <2>2, <2>3, <2>4 DEF UpdateSet
<1>4. sent' = Append(sent, updates)
  BY <1>1 DEF Report
<1>5. sent'[Len(sent')] = updates
  <2>1. PICK R : sent \in Seq(Seq(R))
    BY DEF SentSoundly
  <2>2. PICK S : S = Seq(R) \cup {updates}
    OBVIOUS
  <2>3. sent \in Seq(S) /\ updates \in S
    BY <2>1, <2>2, SeqMonotonic
  <2> QED BY <1>4, <2>3, AppendProperties, LenProperties
<1> HIDE DEF U
<1>6. \A i \in 1..Len(updates) : updates[i] \in U
  BY <1>2, ElementOfSeq
<1> QED BY <1>3, <1>5, <1>6 DEF LastIsCurrent

(* The arena does not change between a report and the next call. *)
LEMMA StepsKeepLast ==
  ASSUME SimulatorInv, Accounts, Records, LastIsCurrent, [SimulatorNext]_<<vars, genVars>>
  PROVE  LastIsCurrent'
<1>1. ASSUME making' # NIL PROVE LastIsCurrent'
  BY <1>1 DEF LastIsCurrent
<1>2. ASSUME NEW side \in Side, NEW price \in Price, NEW shares \in 1..MaxShares,
             Seed(side, price, shares)
      PROVE  LastIsCurrent'
  <2>1. Len(sent') = 0
    BY <1>2, EmptySeq DEF Seed, Accounts
  <2> QED BY <2>1 DEF LastIsCurrent
<1>3. CASE EndSeed
  <2>1. Len(sent') = 0
    BY <1>3, EmptySeq DEF EndSeed, genVars, Accounts
  <2> QED BY <2>1 DEF LastIsCurrent
<1>4. CASE EndSeeding
  <2>1. Len(sent') = 1
    BY <1>4 DEF EndSeeding
  <2> QED BY <2>1 DEF LastIsCurrent
<1>5. CASE GenerateOrders
  <2>1. CASE Panic
    BY <2>1 DEF Panic, vars, LastIsCurrent, ShowsBook
  <2>2. ASSUME NEW order_type \in {"ADD", "MODIFY"}, Begin(order_type)
        PROVE  LastIsCurrent'
    BY <1>1, <2>2, NilIsNoType DEF Begin
  <2>3. ASSUME Report("CANCEL")
        PROVE  LastIsCurrent'
    BY <2>3, ReportShowsBook DEF Records
  <2> QED BY <1>5, <2>1, <2>2, <2>3, GenerateCases
<1>6. CASE Trading
  <2>1. call # NIL /\ UNCHANGED <<task, making, sent>>
    BY <1>6 DEF Trading, TakeLevel, ExecuteHead, LeaveHelper
  <2>2. CASE task = "seeding"
    <3>1. Len(sent') = 0
      BY <2>1, <2>2, EmptySeq DEF Accounts
    <3> QED BY <3>1 DEF LastIsCurrent
  <2>3. CASE task # "seeding"
    BY <1>1, <2>1, <2>3 DEF Accounts
  <2> QED BY <2>2, <2>3
<1>7. CASE EndOrder
  BY <1>7, ReportShowsBook DEF EndOrder, Records
<1>8. CASE UNCHANGED <<vars, genVars>>
  BY <1>8 DEF vars, genVars, LastIsCurrent, ShowsBook
<1> QED BY <1>2, <1>3, <1>4, <1>5, <1>6, <1>7, <1>8 DEF SimulatorNext

(* What is applied to the levels of an update is that update. *)
LEMMA OwnDeltas ==
  ASSUME NEW side, NEW new, NEW shownLevels \in Applied(side, new, new)
  PROVE  shownLevels = [g \in Top(Levels, side, DOMAIN new) |-> new[g]]
<1>1. PICK more \in SUBSET (DOMAIN new \ (DOMAIN new \cap DOMAIN new)) :
        shownLevels = [g \in Top(Levels, side, (DOMAIN new \cap DOMAIN new) \cup more) |-> new[g]]
  BY DEF Applied
<1>2. (DOMAIN new \cap DOMAIN new) \cup more = DOMAIN new
  OBVIOUS
<1> QED BY <1>1, <1>2

(* An update near the end of the feed is one of the last list. *)
LEMMA EndOfFeed ==
  ASSUME NEW S, sent \in Seq(Seq(S)), Len(sent) > 0, NEW n \in Nat, n < Len(Feed),
         n >= Len(Feed) - Len(sent[Len(sent)])
  PROVE  \E i \in 1..Len(sent[Len(sent)]) : Feed[n + 1] = sent[Len(sent)][i]
<1>1. sent # << >>
  BY EmptySeq
<1>2. PICK front \in Seq(Seq(S)), last \in Seq(S) : sent = Append(front, last)
  BY <1>1, SequenceEmptyOrAppend
<1>3. sent[Len(sent)] = last
  BY <1>2, AppendProperties
<1>4. Feed = FlattenSeq(front) \o last
  BY <1>2, FlattenAppend DEF Feed
<1>5. PICK start \in Seq(S) : start = FlattenSeq(front)
  BY FlattenIsSeq
<1>6. /\ Len(Feed) = Len(start) + Len(last) /\ Len(start) \in Nat /\ Len(last) \in Nat
      /\ \A i \in 1..Len(start) + Len(last) :
           Feed[i] = IF i <= Len(start) THEN start[i] ELSE last[i - Len(start)]
  BY <1>4, <1>5, ConcatProperties, LenProperties
<1> HIDE DEF Feed
<1>7. n >= Len(start) /\ n + 1 \in 1..Len(start) + Len(last) /\ ~ (n + 1 <= Len(start))
      /\ n + 1 - Len(start) \in 1..Len(last)
  BY <1>3, <1>6
<1>8. Feed[n + 1] = last[n + 1 - Len(start)]
  BY <1>6, <1>7
<1> QED BY <1>3, <1>7, <1>8

LEMMA UpdateShowsItsLevels ==
  ASSUME NEW levels, Update(levels), ui' = "running", ui = "running", NEW side \in Side,
         levels = [s \in Side |-> LevelsOf(arena, s, UpdateDepth)]
  PROVE  LET groups == Grouped(LevelsOf(arena, side, UpdateDepth))
             top    == Top(Levels, side, DOMAIN groups)
         IN  lvls'[side] = WithTotals(side, [g \in top |-> groups[g]])
<1>1. PICK bids \in Applied("Bid", Grouped(levels["Bid"]), Grouped(levels["Bid"])),
           asks \in Applied("Ask", Grouped(levels["Ask"]), Grouped(levels["Ask"])) :
        lvls' = [s \in Side |-> WithTotals(s, IF s = "Bid" THEN bids ELSE asks)]
  BY DEF Update, Current
<1> DEFINE new(s) == Grouped(levels[s])
           shownOf(s) == [g \in Top(Levels, s, DOMAIN new(s)) |-> new(s)[g]]
<1>2. bids = shownOf("Bid") /\ asks = shownOf("Ask")
  <2> HIDE DEF new
  <2>1. bids \in Applied("Bid", new("Bid"), new("Bid")) /\ asks \in Applied("Ask", new("Ask"), new("Ask"))
    BY <1>1 DEF new
  <2> QED BY <2>1, OwnDeltas
<1>3. levels[side] = LevelsOf(arena, side, UpdateDepth)
  OBVIOUS
<1>4. lvls'[side] = WithTotals(side, IF side = "Bid" THEN bids ELSE asks)
  BY <1>1
<1> HIDE DEF new
<1>5. (IF side = "Bid" THEN bids ELSE asks) = shownOf(side)
  BY <1>2 DEF Side
<1> HIDE DEF shownOf
<1>6. lvls'[side] = WithTotals(side, shownOf(side))
  BY <1>4, <1>5
<1> QED BY <1>3, <1>6 DEF shownOf, new

(* What a page that has caught up shows is what the arena shows.            *)
ShowsCurrent ==
  making = NIL /\ shown' # shown /\ Len(sent) > 1
      /\ shown >= Len(Feed) - Len(sent[Len(sent)])
      => /\ raw' # raw /\ ui' = "running" =>
              \A side \in Side :
                LET groups == Grouped(LevelsOf(arena, side, UpdateDepth))
                    top    == Top(Levels, side, DOMAIN groups)
                IN  lvls'[side] = WithTotals(side, [g \in top |-> groups[g]])
         /\ best' # best =>
              /\ best' = [side \in Side |-> BestPrice(arena, side)]
              /\ NIL \notin {best'["Bid"], best'["Ask"]}
                   => spread' = Distance(best'["Bid"], best'["Ask"])

LEMMA ShowIsCurrent ==
  ASSUME Records, TradesAreShown, LastIsCurrent, Show
  PROVE  ShowsCurrent
<1> SUFFICES ASSUME making = NIL, Len(sent) > 1, shown >= Len(Feed) - Len(sent[Len(sent)])
             PROVE  ShowsCurrent
  BY DEF ShowsCurrent
<1>1. PICK S : CarriesTrades(S) /\ sent \in Seq(Seq(S))
  BY DEF Records, SentSoundly
<1>2. shown < Len(Feed) /\ shown \in Nat
  <2>1. Len(Feed) \in Nat
    BY <1>1, FeedIsSound
  <2>2. shown \in Nat
    BY <2>1 DEF TradesAreShown
  <2>3. shown < Len(Feed)
    BY DEF Show, ShowStats, ShowLevels, ShowTrades, ShowBest, Take
  <2> QED BY <2>2, <2>3
<1> DEFINE update == Feed[shown + 1]
<1>3. PICK i \in 1..Len(sent[Len(sent)]) : update = sent[Len(sent)][i]
  <2>1. Len(sent) > 0
    BY <1>1, LenProperties
  <2> QED BY <1>1, <1>2, <2>1, EndOfFeed
<1>4. ShowsBook(update)
  BY <1>3 DEF LastIsCurrent
<1> HIDE DEF update
<1>5. CASE ShowStats \/ ShowTrades
  <2>1. UNCHANGED <<raw, best>>
    BY <1>5 DEF ShowStats, ShowTrades
  <2> QED BY <2>1 DEF ShowsCurrent
<1>6. CASE ShowLevels
  <2>1. update.type = "PriceLevels" /\ ui = "running" /\ UNCHANGED best
    BY <1>6 DEF ShowLevels, Take, update
  <2>2. ~ update.snapshot /\ update.levels = [s \in Side |-> LevelsOf(arena, s, UpdateDepth)]
    BY <1>4, <2>1 DEF ShowsBook
  <2>3. raw' = raw \/ Update(update.levels)
    BY <1>6, <2>2 DEF ShowLevels, update
  <2>4. ASSUME raw' # raw, ui' = "running", NEW side \in Side
        PROVE  LET groups == Grouped(LevelsOf(arena, side, UpdateDepth))
                   top    == Top(Levels, side, DOMAIN groups)
               IN  lvls'[side] = WithTotals(side, [g \in top |-> groups[g]])
    BY <2>1, <2>2, <2>3, <2>4, UpdateShowsItsLevels
  <2> QED BY <2>1, <2>4, Zenon DEF ShowsCurrent
<1>7. CASE ShowBest
  <2>1. update.type = "BestLevels" /\ UNCHANGED raw
    BY <1>7 DEF ShowBest, Take, update
  <2>2. update.best = [side \in Side |-> BestPrice(arena, side)]
    BY <1>4, <2>1 DEF ShowsBook
  <2> DEFINE new == update.best
  <2>3. best' # best => /\ best' = new
                        /\ spread' = IF NIL \in {new["Bid"], new["Ask"]}
                                     THEN spread ELSE Distance(new["Bid"], new["Ask"])
    BY <1>7 DEF ShowBest, update
  <2> HIDE DEF new
  <2>4. best' # best =>
          /\ best' = [side \in Side |-> BestPrice(arena, side)]
          /\ NIL \notin {best'["Bid"], best'["Ask"]}
               => spread' = Distance(best'["Bid"], best'["Ask"])
    <3>1. new = [side \in Side |-> BestPrice(arena, side)]
      BY <2>2 DEF new
    <3> QED BY <2>3, <3>1
  <2> QED BY <2>1, <2>4, Zenon DEF ShowsCurrent
<1> QED BY <1>5, <1>6, <1>7 DEF Show

(* Whatever was sent before: the last list is current. *)
LEMMA LastListIsCurrent == SimulatorSpec => []LastIsCurrent
<1>1. SimulatorInit => LastIsCurrent
  BY EmptySeq DEF SimulatorInit, LastIsCurrent
<1>2. SimulatorInv /\ Accounts /\ Records /\ LastIsCurrent /\ [SimulatorNext]_<<vars, genVars>>
        => LastIsCurrent'
  BY StepsKeepLast
<1> QED BY <1>1, <1>2, ReportsAreSound, PTL DEF SimulatorSpec

(* The first n of a list, best first, are the n best. *)
LEMMA ListedTop ==
  ASSUME NEW side, NEW S, S \subseteq Int, NEW s, Lists(side, s, S), NEW n \in Nat \ {0}
  PROVE  ToSet(SubSeq(s, 1, IF Len(s) < n THEN Len(s) ELSE n)) = Top(n, side, S)
<1> DEFINE k == IF Len(s) < n THEN Len(s) ELSE n
<1>1. /\ s \in Seq(S) /\ Len(s) \in Nat
      /\ \A x \in S : \E i \in 1..Len(s) : s[i] = x
      /\ \A i, j \in 1..Len(s) : i < j => Outranks(side, s[i], s[j])
  BY DEF Lists
<1>2. k \in Nat /\ k <= Len(s) /\ \A i \in 1..Len(s) : i <= k <=> i - 1 < n
  BY <1>1
<1> HIDE DEF k
<1>3. \A i \in 1..Len(s) : s[i] \in S /\ s[i] \in Int
  <2>1. \A i \in 1..Len(s) : s[i] \in S
    BY <1>1, ElementOfSeq
  <2> QED BY <2>1
<1>4. ToSet(SubSeq(s, 1, k)) = {s[i] : i \in 1..k}
  <2>1. \A i \in 1..k : s[i] \in S
    BY <1>2, <1>3
  <2>2. /\ DOMAIN SubSeq(s, 1, k) = 1..k
        /\ \A i \in 1..k : SubSeq(s, 1, k)[i] = s[i]
    BY <1>1, <1>2, <2>1
  <2> QED BY <2>2 DEF ToSet
<1>5. ASSUME NEW i \in 1..Len(s)
      PROVE  Cardinality({q \in S : Outranks(side, q, s[i])}) = i - 1
  <2> DEFINE ahead == {q \in S : Outranks(side, q, s[i])}
             f == [j \in 1..i-1 |-> s[j]]
  <2>1. \A j \in 1..i-1 : j \in 1..Len(s) /\ j < i
    BY <1>1
  <2>2. \A j \in 1..i-1 : s[j] \in ahead
    BY <1>1, <1>3, <2>1
  <2>3. ASSUME NEW q \in ahead PROVE \E j \in 1..i-1 : s[j] = q
    <3>1. PICK j \in 1..Len(s) : s[j] = q
      BY <1>1
    <3>2. Outranks(side, s[j], s[i]) /\ s[i] \in Int /\ s[j] \in Int
      BY <1>3, <3>1
    <3>3. ~ (i < j) /\ i # j
      BY <1>1, <3>2 DEF Outranks
    <3>4. j \in 1..i-1
      BY <1>1, <3>3
    <3> QED BY <3>1, <3>4
  <2>4. ASSUME NEW j1 \in 1..i-1, NEW j2 \in 1..i-1, s[j1] = s[j2] PROVE j1 = j2
    <3>1. j1 \in 1..Len(s) /\ j2 \in 1..Len(s) /\ s[j1] \in Int
      BY <1>3, <2>1
    <3> QED BY <1>1, <2>4, <3>1 DEF Outranks
  <2> HIDE DEF ahead
  <2>5. f \in Bijection(1..i-1, ahead)
    <3>1. f \in [1..i-1 -> ahead]
      BY <2>2
    <3>2. \A j1, j2 \in 1..i-1 : f[j1] = f[j2] => j1 = j2
      BY <2>4
    <3>3. \A q \in ahead : \E j \in 1..i-1 : f[j] = q
      BY <2>3
    <3> HIDE DEF f
    <3> QED BY <3>1, <3>2, <3>3 DEF Bijection, Injection, Surjection, IsInjective
  <2>6. i - 1 \in Nat
    BY <1>1
  <2>7. Cardinality(ahead) = i - 1
    BY <2>5, <2>6, FS_CountingElements DEF ExistsBijection
  <2> QED BY <2>7 DEF ahead
<1> DEFINE T == Top(n, side, S)
<1>6. ASSUME NEW p \in T PROVE p \in {s[i] : i \in 1..k}
  <2>1. PICK i \in 1..Len(s) : s[i] = p
    BY <1>1 DEF Top
  <2>2. i - 1 < n
    BY <1>5, <2>1 DEF Top
  <2>3. i \in 1..k
    BY <1>2, <2>2
  <2> QED BY <2>1, <2>3
<1>7. ASSUME NEW i \in 1..k PROVE s[i] \in T
  <2>1. i \in 1..Len(s) /\ i - 1 < n
    BY <1>1, <1>2
  <2> QED BY <1>3, <1>5, <2>1 DEF Top
<1> HIDE DEF T
<1>8. {s[i] : i \in 1..k} = T
  BY <1>6, <1>7
<1> QED BY <1>4, <1>8 DEF T, k

(* A tree in good order is read as its n best levels. *)
LEMMA LevelsAreRead ==
  ASSUME NEW b, NEW side \in Side, GoodSide(b, side), NEW n \in Nat \ {0}
  PROVE  ToSet(TopLevels(b, side, n, FALSE)) = Top(n, side, DOMAIN b.limits)
<1> DEFINE live == DOMAIN b.limits
           s == Traverse(b.limits, b.tree, side)
           k == IF Len(s) < n THEN Len(s) ELSE n
<1>1. Lists(side, s, live) /\ live \subseteq Int
  <2>1. CASE live = {}
    <3>1. s = << >>
      BY <2>1 DEF Traverse
    <3> QED BY <2>1, <3>1, EmptyLists
  <2>2. CASE live # {}
    <3>1. PICK U : IsTree(b.limits, U, b.tree)
      BY <2>2 DEF GoodSide
    <3>2. Lists(side, s, live)
      BY <3>1, TraverseLists
    <3>3. live \subseteq Int
      BY <3>1, PricesAreIntegers DEF IsTree
    <3> QED BY <3>2, <3>3
  <2> QED BY <2>1, <2>2
<1>2. TopLevels(b, side, n, FALSE) = SubSeq(s, 1, k)
  BY DEF TopLevels
<1> HIDE DEF live, s
<1>3. ToSet(SubSeq(s, 1, k)) = Top(n, side, live)
  BY <1>1, ListedTop
<1> HIDE DEF k
<1> QED BY <1>2, <1>3 DEF live

(* In good order the edge is the best of the levels. *)
LEMMA EdgeIsBestOf ==
  ASSUME NEW b, NEW side \in Side, GoodSide(b, side)
  PROVE  b.edge = BestOf(side, DOMAIN b.limits)
<1>1. CASE DOMAIN b.limits = {}
  BY <1>1 DEF GoodSide, BestOf
<1>2. CASE DOMAIN b.limits # {}
  <2>1. IsBest(side, DOMAIN b.limits, b.edge) /\ DOMAIN b.limits \subseteq Int
    BY <1>2, PricesAreIntegers DEF GoodSide, IsTree
  <2> QED BY <2>1, BestIs
<1> QED BY <1>1, <1>2

(* What is read of a side is what rests there. *)
LEMMA ReadIsResting ==
  ASSUME ArenaInv, TreesInOrder, ~ BestLevelsOnly, NEW side \in Side, NEW n \in Nat \ {0}
  PROVE  LevelsOf(arena, side, n)
           = [p \in Top(n, side, DOMAIN RestingLevels(side)) |-> RestingLevels(side)[p]]
<1>1. GoodSide(arena[side], side) /\ BestLevelsOnly = FALSE
  BY BestLevelsOnlyIsASwitch DEF TreesInOrder
<1>2. LevelsAgreeWithOrders
  BY LevelsAgree
<1> DEFINE limits == arena[side].limits
<1>3. /\ DOMAIN limits = DOMAIN RestingLevels(side)
      /\ \A p \in DOMAIN limits : limits[p].total_volume = RestingLevels(side)[p]
  <2> DEFINE places == {orders[o].parent_limit : o \in {o \in Resting : orders[o].bid_or_ask = side}}
             shares(p) == SumOver(SharesIn(orders), Queued(side, p))
  <2>1. DOMAIN limits = places /\ \A p \in DOMAIN limits : limits[p].total_volume = shares(p)
    BY <1>2 DEF LevelsAgreeWithOrders, SumOver
  <2>2. RestingLevels(side) = [p \in places |-> shares(p)]
    BY DEF RestingLevels, SumOver
  <2> HIDE DEF places, shares
  <2> QED BY <2>1, <2>2
<1>4. ToSet(TopLevels(arena[side], side, n, BestLevelsOnly)) = Top(n, side, DOMAIN limits)
  <2>1. ToSet(TopLevels(arena[side], side, n, FALSE)) = Top(n, side, DOMAIN limits)
    BY <1>1, LevelsAreRead
  <2> QED BY <1>1, <2>1
<1>5. Top(n, side, DOMAIN limits) \subseteq DOMAIN limits
  BY DEF Top
<1>6. LevelsOf(arena, side, n) = [p \in Top(n, side, DOMAIN limits) |-> limits[p].total_volume]
  BY <1>4 DEF LevelsOf
<1> HIDE DEF limits
<1> QED BY <1>3, <1>5, <1>6

LEMMA QuoteIsResting ==
  ASSUME ArenaInv, TreesInOrder, NEW side \in Side
  PROVE  /\ BestPrice(arena, side) = BestOf(side, DOMAIN RestingLevels(side))
         /\ BestPrice(arena, side) # NIL =>
              BestPrice(arena, side) \in Price
              /\ \E o \in Resting : /\ orders[o].bid_or_ask = side
                                    /\ orders[o].parent_limit = BestPrice(arena, side)
<1>1. GoodSide(arena[side], side)
  BY DEF TreesInOrder
<1>2. LevelsAgreeWithOrders
  BY LevelsAgree
<1> DEFINE live == DOMAIN arena[side].limits
<1>3. /\ live = DOMAIN RestingLevels(side)
      /\ live = {orders[o].parent_limit : o \in {o \in Resting : orders[o].bid_or_ask = side}}
  BY <1>2 DEF LevelsAgreeWithOrders, RestingLevels
<1>4. BestPrice(arena, side) = BestOf(side, live)
  BY <1>1, EdgeIsBestOf DEF BestPrice
<1>5. BestPrice(arena, side) # NIL => BestPrice(arena, side) \in live /\ live \subseteq Price
  BY <1>1 DEF GoodSide, IsBest, IsTree, BestPrice
<1> HIDE DEF live
<1> QED BY <1>3, <1>4, <1>5

(* The best bid is below the best ask. *)
LEMMA QuotesAreApart ==
  ASSUME ArenaInv, TreesInOrder, Proved!Uncrossed,
         BestPrice(arena, "Bid") # NIL, BestPrice(arena, "Ask") # NIL
  PROVE  /\ BestPrice(arena, "Bid") < BestPrice(arena, "Ask")
         /\ Distance(BestPrice(arena, "Bid"), BestPrice(arena, "Ask"))
              = BestPrice(arena, "Ask") - BestPrice(arena, "Bid")
<1>1. "Bid" \in Side /\ "Ask" \in Side
  BY DEF Side
<1>2. PICK b \in Resting : /\ orders[b].bid_or_ask = "Bid"
                           /\ orders[b].parent_limit = BestPrice(arena, "Bid")
  BY <1>1, QuoteIsResting
<1>3. PICK a \in Resting : /\ orders[a].bid_or_ask = "Ask"
                           /\ orders[a].parent_limit = BestPrice(arena, "Ask")
  BY <1>1, QuoteIsResting
<1>4. orders[b].parent_limit < orders[a].parent_limit
  BY <1>2, <1>3 DEF Proved!Uncrossed, BookOf
<1>5. BestPrice(arena, "Bid") \in Int /\ BestPrice(arena, "Ask") \in Int
  BY <1>1, QuoteIsResting, PricesAreIntegers
<1> QED BY <1>2, <1>3, <1>4, <1>5 DEF Distance

(* ShownBookIsCurrent: as long as an only child is a leaf in both trees, a  *)
(* page that has caught up shows the best levels at which orders rest, with *)
(* their shares, and the best prices and the spread between them, for any   *)
(* ticket size and depth.  With a stale edge it shows a worse best price.   *)
THEOREM PageShowsTheBook == SimulationSpec /\ []BushyTrees => ShownBookIsCurrent
<1> DEFINE IsShown ==
      making = NIL /\ shown' # shown /\ Len(sent) > 1
      /\ shown >= Len(Feed) - Len(sent[Len(sent)])
      => /\ ~ BestLevelsOnly /\ raw' # raw /\ ui' = "running" =>
              \A side \in Side :
                LET book   == RestingLevels(side)
                    groups == Grouped([p \in Top(UpdateDepth, side, DOMAIN book) |-> book[p]])
                    top    == Top(Levels, side, DOMAIN groups)
                IN  lvls'[side] = WithTotals(side, [g \in top |-> groups[g]])
         /\ best' # best =>
              /\ \A side \in Side : best'[side] = BestOf(side, DOMAIN RestingLevels(side))
              /\ NIL \notin {best'["Bid"], best'["Ask"]}
                   => best'["Bid"] < best'["Ask"] /\ spread' = best'["Ask"] - best'["Bid"]
<1>1. ASSUME ArenaInv, TreesInOrder, Proved!Uncrossed, ShowsCurrent PROVE IsShown
  <2> SUFFICES ASSUME making = NIL, shown' # shown, Len(sent) > 1,
                      shown >= Len(Feed) - Len(sent[Len(sent)])
               PROVE  IsShown
    OBVIOUS
  <2>1. ASSUME ~ BestLevelsOnly, raw' # raw, ui' = "running", NEW side \in Side
        PROVE  LET book   == RestingLevels(side)
                   groups == Grouped([p \in Top(UpdateDepth, side, DOMAIN book) |-> book[p]])
                   top    == Top(Levels, side, DOMAIN groups)
               IN  lvls'[side] = WithTotals(side, [g \in top |-> groups[g]])
    <3> DEFINE book == RestingLevels(side)
    <3>1. LevelsOf(arena, side, UpdateDepth)
            = [p \in Top(UpdateDepth, side, DOMAIN book) |-> book[p]]
      BY <1>1, <2>1, ReadIsResting, DepthsArePositive
    <3>2. LET groups == Grouped(LevelsOf(arena, side, UpdateDepth))
              top    == Top(Levels, side, DOMAIN groups)
          IN  lvls'[side] = WithTotals(side, [g \in top |-> groups[g]])
      BY <1>1, <2>1 DEF ShowsCurrent
    <3> HIDE DEF book
    <3>3. LET groups == Grouped([p \in Top(UpdateDepth, side, DOMAIN book) |-> book[p]])
              top    == Top(Levels, side, DOMAIN groups)
          IN  lvls'[side] = WithTotals(side, [g \in top |-> groups[g]])
      BY <3>1, <3>2, Zenon
    <3> QED BY <3>3 DEF book
  <2>2. ASSUME best' # best
        PROVE  /\ \A side \in Side : best'[side] = BestOf(side, DOMAIN RestingLevels(side))
               /\ NIL \notin {best'["Bid"], best'["Ask"]}
                    => best'["Bid"] < best'["Ask"] /\ spread' = best'["Ask"] - best'["Bid"]
    <3>1. /\ best' = [side \in Side |-> BestPrice(arena, side)]
          /\ NIL \notin {best'["Bid"], best'["Ask"]}
               => spread' = Distance(best'["Bid"], best'["Ask"])
      BY <1>1, <2>2 DEF ShowsCurrent
    <3>2. \A side \in Side : BestPrice(arena, side) = BestOf(side, DOMAIN RestingLevels(side))
      BY <1>1, QuoteIsResting
    <3>3. best'["Bid"] = BestPrice(arena, "Bid") /\ best'["Ask"] = BestPrice(arena, "Ask")
      BY <3>1 DEF Side
    <3>4. ASSUME NIL \notin {best'["Bid"], best'["Ask"]}
          PROVE  best'["Bid"] < best'["Ask"] /\ spread' = best'["Ask"] - best'["Bid"]
      <4>1. BestPrice(arena, "Bid") # NIL /\ BestPrice(arena, "Ask") # NIL
        BY <3>3, <3>4
      <4>2. /\ BestPrice(arena, "Bid") < BestPrice(arena, "Ask")
            /\ Distance(BestPrice(arena, "Bid"), BestPrice(arena, "Ask"))
                 = BestPrice(arena, "Ask") - BestPrice(arena, "Bid")
        BY <1>1, <4>1, QuotesAreApart
      <4> QED BY <3>1, <3>3, <3>4, <4>2
    <3> QED BY <3>1, <3>2, <3>4
  <2> QED BY <2>1, <2>2
<1> HIDE DEF IsShown
<1>2. ArenaInv /\ TreesInOrder /\ Proved!Uncrossed /\ Records /\ SimulationInv /\ LastIsCurrent
        /\ [SimulationNext]_allVars => [IsShown]_displayVars
  <2> SUFFICES ASSUME ArenaInv, TreesInOrder, Proved!Uncrossed, Records, SimulationInv,
                      LastIsCurrent, [SimulationNext]_allVars
               PROVE  IsShown \/ UNCHANGED displayVars
    OBVIOUS
  <2>1. CASE Show
    <3>1. ShowsCurrent
      BY <2>1, ShowIsCurrent DEF SimulationInv
    <3> QED BY <1>1, <3>1
  <2>2. CASE ~ Show
    BY <2>2 DEF SimulationNext, allVars
  <2> QED BY <2>1, <2>2
<1>3. ShownBookIsCurrent <=> [][IsShown]_displayVars
  BY PTL DEF ShownBookIsCurrent, IsShown
<1> QED BY <1>2, <1>3, SimulationInvariant, SimulationSimulates, ReportsAreSound,
           SimulatorUsesTheEngine, ArenaHolds, SimulationNeverCrosses, LastListIsCurrent,
           PTL DEF SimulationSpec
=============================================================================

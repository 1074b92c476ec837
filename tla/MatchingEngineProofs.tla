------------------------ MODULE MatchingEngineProofs ------------------------
(***************************************************************************)
(* Proofs about MatchingEngine for every set of ids, every set of integer  *)
(* prices and every bound on shares.                                       *)
(***************************************************************************)
EXTENDS MatchingEngine, TLAPS

-----------------------------------------------------------------------------
(* Type correctness. *)

(* Taking an order out of a book leaves a book. *)
LEMMA WithdrawKeepsTypes ==
  ASSUME TypeOK, NEW id, Withdraw(id)
  PROVE  /\ DOMAIN book' = DOMAIN book \ {id}
         /\ \A o \in DOMAIN book' : book'[o] = book[o] /\ ahead'[o] = ahead[o] \ {id}
         /\ DOMAIN book' \subseteq Id
         /\ book' \in [DOMAIN book' -> Resting]
         /\ ahead' \in [DOMAIN book' -> SUBSET Id]
BY DEF TypeOK, Withdraw, Without

(* The maker of a fill rests, and both it and the taker have shares. *)
LEMMA FillTypes ==
  ASSUME TypeOK, NEW m, Fill(m)
  PROVE  /\ taker \in Taker /\ taker # NIL /\ taker.left \in 1..MaxShares
         /\ m \in DOMAIN book /\ m \in Id
         /\ book[m] \in Resting /\ book[m].shares \in 1..MaxShares
BY SharesAreNaturals DEF TypeOK, Fill, Makers, Taker, Resting

(* The taker and the trades after a fill. *)
LEMMA FillTaker ==
  ASSUME TypeOK, NEW m, Fill(m)
  PROVE  /\ taker' \in Taker
         /\ taker'.id = taker.id /\ taker'.side = taker.side
         /\ taker'.price = taker.price
         /\ \E t \in Trade : t.price = book[m].price /\ trades' = Append(trades, t)
<1> DEFINE volume == Volume(m)
           trade  == [price |-> book[m].price, volume |-> volume,
                      taker |-> taker.id, maker |-> m]
<1>1. volume \in 1..MaxShares /\ volume <= taker.left
  BY FillTypes, SharesAreNaturals DEF Volume
<1>2. taker' = [taker EXCEPT !.left = taker.left - volume] /\ trades' = Append(trades, trade)
  BY DEF Fill
<1>3. taker.left - volume \in 0..MaxShares
  BY <1>1, FillTypes, SharesAreNaturals
<1>4. trade \in Trade
  BY <1>1, FillTypes DEF Trade, Taker, Resting
<1> HIDE DEF volume
<1>5. taker' \in Taker /\ taker'.id = taker.id /\ taker'.side = taker.side
                       /\ taker'.price = taker.price
  BY <1>2, <1>3, FillTypes DEF Taker
<1> QED
  BY <1>2, <1>4, <1>5

(* The book after a fill: the maker is gone, or has fewer shares left. *)
LEMMA FillBook ==
  ASSUME TypeOK, NEW m, Fill(m)
  PROVE  /\ DOMAIN book' \subseteq DOMAIN book
         /\ book' \in [DOMAIN book' -> Resting]
         /\ ahead' \in [DOMAIN book' -> SUBSET Id]
         /\ \A o \in DOMAIN book' : /\ book'[o].side = book[o].side
                                    /\ book'[o].price = book[o].price
         /\ \/ Withdraw(m)
            \/ DOMAIN book' = DOMAIN book /\ ahead' = ahead
<1>1. CASE Withdraw(m)
  BY <1>1, WithdrawKeepsTypes DEF TypeOK
<1>2. CASE ~ Withdraw(m)
  <2> DEFINE volume == Volume(m)
  <2>1. /\ book' = [book EXCEPT ![m].shares = book[m].shares - volume]
        /\ ahead' = ahead
        /\ volume # book[m].shares
    BY <1>2 DEF Fill
  <2>2. book[m].shares - volume \in 1..MaxShares
    BY <2>1, FillTypes, SharesAreNaturals DEF Volume
  <2> HIDE DEF volume
  <2>3. [book[m] EXCEPT !.shares = book[m].shares - volume] \in Resting
    BY <2>2, FillTypes DEF Resting
  <2>4. DOMAIN book' = DOMAIN book
    BY <2>1
  <2>5. /\ book' \in [DOMAIN book' -> Resting]
        /\ \A o \in DOMAIN book' : book'[o].side = book[o].side
                                   /\ book'[o].price = book[o].price
    BY <2>1, <2>3, <2>4, FillTypes DEF TypeOK, Resting
  <2> QED
    BY <2>1, <2>4, <2>5 DEF TypeOK
<1> QED
  BY <1>1, <1>2

(* Every step of the engine keeps the types. *)
LEMMA StepsKeepTypes ==
  ASSUME TypeOK, [Next]_vars
  PROVE  TypeOK'
<1>1. ASSUME NEW id \in Id, NEW side \in Sides, NEW price \in Price,
             NEW shares \in 0..MaxShares, Add(id, side, price, shares)
      PROVE  TypeOK'
  BY <1>1 DEF TypeOK, Add, Taker
<1>2. ASSUME NEW id \in Id, NEW price \in Price, NEW shares \in 0..MaxShares,
             Modify(id, price, shares)
      PROVE  TypeOK'
  <2>1. Withdraw(id) /\ id \in DOMAIN book /\ trades' = << >>
    BY <1>2 DEF Modify
  <2>2. taker' \in Taker /\ taker'.id = id
    BY <1>2, <2>1 DEF Modify, Taker, TypeOK, Resting
  <2>3. /\ DOMAIN book' = DOMAIN book \ {id} /\ DOMAIN book' \subseteq Id
        /\ book' \in [DOMAIN book' -> Resting]
        /\ ahead' \in [DOMAIN book' -> SUBSET Id]
    BY <2>1, WithdrawKeepsTypes
  <2> QED
    BY <2>1, <2>2, <2>3 DEF TypeOK
<1>3. ASSUME NEW id \in Id, Cancel(id)
      PROVE  TypeOK'
  <2>1. Withdraw(id) /\ taker = NIL /\ taker' = NIL /\ trades' = << >>
    BY <1>3 DEF Cancel
  <2>2. /\ DOMAIN book' = DOMAIN book \ {id} /\ DOMAIN book' \subseteq Id
        /\ book' \in [DOMAIN book' -> Resting]
        /\ ahead' \in [DOMAIN book' -> SUBSET Id]
    BY <2>1, WithdrawKeepsTypes
  <2> QED
    BY <2>1, <2>2 DEF TypeOK
<1>4. ASSUME NEW id \in Id, Ignore(id)
      PROVE  TypeOK'
  BY <1>4 DEF TypeOK, Ignore
<1>5. ASSUME NEW m \in Id, Fill(m)
      PROVE  TypeOK'
  BY <1>5, FillTaker, FillBook, FillTypes DEF TypeOK
<1>6. CASE Finish
  <2>1. CASE taker.left = 0
    BY <1>6, <2>1 DEF Finish, TypeOK
  <2>2. CASE taker.left # 0
    <3>1. /\ taker \in Taker /\ taker.id \in Id
          /\ [side |-> taker.side, price |-> taker.price, shares |-> taker.left]
               \in Resting
      BY <1>6, <2>2, SharesAreNaturals DEF Finish, TypeOK, Taker, Resting
    <3> QED
      BY <1>6, <2>2, <3>1 DEF Finish, Joined, TypeOK, Level
  <2> QED
    BY <2>1, <2>2
<1>7. CASE UNCHANGED vars
  BY <1>7 DEF vars, TypeOK
<1> QED
  BY <1>1, <1>2, <1>3, <1>4, <1>5, <1>6, <1>7 DEF Next, Call, Match

(* TypeOK: every variable keeps the shape the other proofs read it by, and *)
(* the order being matched never rests at the same time.                   *)
THEOREM TypeCorrect == Spec => []TypeOK
<1>1. Init => TypeOK
  BY DEF Init, TypeOK
<1>2. TypeOK /\ [Next]_vars => TypeOK'
  BY StepsKeepTypes
<1> QED
  BY <1>1, <1>2, PTL DEF Spec

-----------------------------------------------------------------------------
(* The safety invariants.  Every step but Finish only takes from the book: *)
(* what rests keeps its side, its price and, of the orders ahead of it,    *)
(* those that rest too.                                                    *)
OnlyTakes ==
  /\ DOMAIN book' \subseteq DOMAIN book
  /\ \A o \in DOMAIN book' : /\ book'[o].side = book[o].side
                             /\ book'[o].price = book[o].price
                             /\ ahead'[o] = ahead[o] \cap DOMAIN book'

LEMMA WithdrawOnlyTakes ==
  ASSUME TypeOK, QueuesAreLines, NEW id, Withdraw(id)
  PROVE  OnlyTakes
BY DEF TypeOK, QueuesAreLines, Withdraw, Without, OnlyTakes, Level

(* A step that does not finish a call only takes from the book. *)
LEMMA StepsOnlyTake ==
  ASSUME TypeOK, QueuesAreLines, [Next]_vars, ~ Finish
  PROVE  OnlyTakes
<1>1. ASSUME book' = book, ahead' = ahead
      PROVE  OnlyTakes
  BY <1>1 DEF QueuesAreLines, Level, OnlyTakes
<1>2. ASSUME NEW id \in Id, NEW side \in Sides, NEW price \in Price,
             NEW shares \in 0..MaxShares, Add(id, side, price, shares)
      PROVE  OnlyTakes
  BY <1>1, <1>2 DEF Add
<1>3. ASSUME NEW id \in Id, NEW price \in Price, NEW shares \in 0..MaxShares,
             Modify(id, price, shares)
      PROVE  OnlyTakes
  <2>1. Withdraw(id)
    BY <1>3 DEF Modify
  <2> QED
    BY <2>1, WithdrawOnlyTakes
<1>4. ASSUME NEW id \in Id, Cancel(id)
      PROVE  OnlyTakes
  <2>1. Withdraw(id)
    BY <1>4 DEF Cancel
  <2> QED
    BY <2>1, WithdrawOnlyTakes
<1>5. ASSUME NEW id \in Id, Ignore(id)
      PROVE  OnlyTakes
  BY <1>1, <1>5 DEF Ignore
<1>6. ASSUME NEW m \in Id, Fill(m)
      PROVE  OnlyTakes
  <2>1. CASE Withdraw(m)
    BY <2>1, WithdrawOnlyTakes
  <2>2. CASE DOMAIN book' = DOMAIN book /\ ahead' = ahead
    <3>1. \A o \in DOMAIN book : ahead[o] \subseteq DOMAIN book
      BY DEF QueuesAreLines, Level
    <3> QED
      BY <1>6, <2>2, <3>1, FillBook DEF OnlyTakes
  <2> QED
    BY <1>6, <2>1, <2>2, FillBook
<1>7. CASE UNCHANGED vars
  BY <1>1, <1>7 DEF vars
<1> QED
  BY <1>2, <1>3, <1>4, <1>5, <1>6, <1>7 DEF Next, Call, Match

(* Finish either leaves the book alone or adds what is left of the taker,  *)
(* when no order on the other side crosses it, behind its level.           *)
LEMMA FinishBook ==
  ASSUME TypeOK, Finish
  PROVE  \/ book' = book /\ ahead' = ahead
         \/ /\ taker \in Taker /\ taker.id \notin DOMAIN book /\ Makers = {}
            /\ DOMAIN book' = DOMAIN book \cup {taker.id}
            /\ book'[taker.id].side = taker.side
            /\ book'[taker.id].price = taker.price
            /\ ahead'[taker.id] = Level(taker.side, taker.price)
            /\ \A o \in DOMAIN book : book'[o] = book[o] /\ ahead'[o] = ahead[o]
BY DEF TypeOK, Finish, Matched, Joined

(* QueuesAreLines: whatever was added, traded, cancelled or modified, the  *)
(* orders at a price stand in one line.                                    *)
THEOREM TimePriority == Spec => []QueuesAreLines
<1>1. Init => QueuesAreLines
  BY DEF Init, QueuesAreLines
<1>2. TypeOK /\ QueuesAreLines /\ [Next]_vars => QueuesAreLines'
  <2> SUFFICES ASSUME TypeOK, QueuesAreLines, [Next]_vars PROVE QueuesAreLines'
    OBVIOUS
  <2>1. CASE OnlyTakes
    BY <2>1 DEF OnlyTakes, QueuesAreLines, Level
  <2>2. CASE Finish
    <3>1. CASE book' = book /\ ahead' = ahead
      BY <3>1 DEF QueuesAreLines, Level
    <3>2. CASE /\ taker \in Taker /\ taker.id \notin DOMAIN book /\ Makers = {}
               /\ DOMAIN book' = DOMAIN book \cup {taker.id}
               /\ book'[taker.id].side = taker.side
               /\ book'[taker.id].price = taker.price
               /\ ahead'[taker.id] = Level(taker.side, taker.price)
               /\ \A o \in DOMAIN book : book'[o] = book[o] /\ ahead'[o] = ahead[o]
      <4> DEFINE new == taker.id
                 behind == Level(taker.side, taker.price)
                 Peers(o) == Level(book[o].side, book[o].price)
                 NewPeers(o) == {q \in DOMAIN book' : /\ book'[q].side = book'[o].side
                                                      /\ book'[q].price = book'[o].price}
                 Line(a) == /\ ahead'[a] \subseteq NewPeers(a) \ {a}
                            /\ \A b \in NewPeers(a) \ {a} :
                                 (a \in ahead'[b]) <=> (b \notin ahead'[a])
                            /\ \A b \in ahead'[a] : ahead'[b] \subseteq ahead'[a]
      <4>1. \A o \in DOMAIN book :
              /\ NewPeers(o) = Peers(o) \cup (IF o \in behind THEN {new} ELSE {})
              /\ Peers(o) \subseteq DOMAIN book
              /\ o \in behind => Peers(o) = behind
        BY <3>2 DEF Level
      <4>2. NewPeers(new) = behind \cup {new} /\ behind \subseteq DOMAIN book
        BY <3>2 DEF Level
      <4>3. \A o \in DOMAIN book :
              /\ ahead[o] \subseteq Peers(o) \ {o}
              /\ \A b \in Peers(o) \ {o} : (o \in ahead[b]) <=> (b \notin ahead[o])
              /\ \A b \in ahead[o] : ahead[b] \subseteq ahead[o]
        BY DEF QueuesAreLines
      <4> HIDE DEF Peers, NewPeers, behind
      <4>4. ASSUME NEW a \in DOMAIN book
            PROVE  Line(a)
        <5>1. ahead'[a] = ahead[a] /\ ahead[a] \subseteq DOMAIN book /\ new \notin ahead[a]
          BY <3>2, <4>1, <4>3
        <5>2. ahead'[a] \subseteq NewPeers(a) \ {a}
          BY <5>1, <4>1, <4>3
        <5>3. ASSUME NEW b \in NewPeers(a) \ {a}
              PROVE  (a \in ahead'[b]) <=> (b \notin ahead'[a])
          <6>1. CASE b = new
            BY <6>1, <3>2, <4>1, <5>1 DEF behind
          <6>2. CASE b # new
            BY <6>2, <3>2, <4>1, <4>3, <5>1, <5>3
          <6> QED
            BY <6>1, <6>2
        <5>4. \A b \in ahead'[a] : ahead'[b] \subseteq ahead'[a]
          BY <3>2, <4>3, <5>1
        <5> QED
          BY <5>2, <5>3, <5>4
      <4>5. Line(new)
        <5>1. ahead'[new] = behind
          BY <3>2 DEF behind
        <5>2. ahead'[new] \subseteq NewPeers(new) \ {new}
          BY <3>2, <4>2, <5>1
        <5>3. \A b \in NewPeers(new) \ {new} :
                (new \in ahead'[b]) <=> (b \notin ahead'[new])
          BY <3>2, <4>1, <4>2, <4>3, <5>1
        <5>4. \A b \in ahead'[new] : ahead'[b] \subseteq ahead'[new]
          BY <3>2, <4>1, <4>2, <4>3, <5>1
        <5> QED
          BY <5>2, <5>3, <5>4
      <4>6. \A a \in DOMAIN book' : Line(a)
        BY <3>2, <4>4, <4>5
      <4> QED
        BY <4>6 DEF QueuesAreLines, Level, NewPeers
    <3> QED
      BY <2>2, <3>1, <3>2, FinishBook
  <2> QED
    BY <2>1, <2>2, StepsOnlyTake
<1> QED
  BY <1>1, <1>2, TypeCorrect, PTL DEF Spec

(* Uncrossed: at no moment, in the middle of a call or between two, does a *)
(* bid rest at or above an ask.                                            *)
THEOREM BookNeverCrosses == Spec => []Uncrossed
<1>1. Init => Uncrossed
  BY DEF Init, Uncrossed
<1>2. TypeOK /\ QueuesAreLines /\ Uncrossed /\ [Next]_vars => Uncrossed'
  <2> SUFFICES ASSUME TypeOK, QueuesAreLines, Uncrossed, [Next]_vars PROVE Uncrossed'
    OBVIOUS
  <2>1. CASE OnlyTakes
    BY <2>1 DEF OnlyTakes, Uncrossed
  <2>2. CASE Finish
    <3>1. CASE book' = book
      BY <3>1 DEF Uncrossed
    <3>2. CASE book' # book
      <4>1. /\ taker \in Taker /\ Makers = {}
            /\ DOMAIN book' = DOMAIN book \cup {taker.id}
            /\ book'[taker.id].side = taker.side
            /\ book'[taker.id].price = taker.price
            /\ \A o \in DOMAIN book : book'[o] = book[o]
        BY <2>2, <3>2, FinishBook
      <4>2. \A o \in DOMAIN book :
              /\ book[o].price \in Int
              /\ book[o].side = Other(taker.side)
                   => ~ Crosses(taker.side, taker.price, book[o].price)
        BY <4>1, PricesAreIntegers DEF Makers, TypeOK, Resting
      <4>3. taker.price \in Int /\ taker.side \in Sides
        BY <4>1, PricesAreIntegers DEF Taker
      <4> QED
        BY <4>1, <4>2, <4>3 DEF Uncrossed, Crosses, Other, Sides
    <3> QED
      BY <3>1, <3>2
  <2> QED
    BY <2>1, <2>2, StepsOnlyTake
<1> QED
  BY <1>1, <1>2, TypeCorrect, TimePriority, PTL DEF Spec

-----------------------------------------------------------------------------
(* The order of the trades.  What makes TradesWorsen inductive: no order   *)
(* still resting has a better price than a trade already made.             *)
TradesBeatTheBook ==
  taker # NIL =>
    \A i \in DOMAIN trades, o \in DOMAIN book :
      book[o].side = Other(taker.side)
        => ~ Better(Other(taker.side), book[o].price, trades[i].price)

(* TradesWorsen: a taker is filled from the best price on, never coming    *)
(* back to a better price it had skipped.                                  *)
THEOREM BestPriceFirst == Spec => []TradesWorsen
<1> DEFINE Inv == TradesBeatTheBook /\ TradesWorsen
<1>1. Init => Inv
  BY DEF Init, TradesBeatTheBook, TradesWorsen
<1>2. TypeOK /\ QueuesAreLines /\ Inv /\ [Next]_vars => Inv'
  <2> SUFFICES ASSUME TypeOK, QueuesAreLines, Inv, [Next]_vars PROVE Inv'
    OBVIOUS
  <2>1. CASE taker' = NIL
    BY <2>1 DEF TradesBeatTheBook, TradesWorsen
  <2>2. CASE trades' = << >>
    BY <2>2 DEF TradesBeatTheBook, TradesWorsen
  <2>3. ASSUME NEW m \in Id, Fill(m)
        PROVE  Inv'
    <3> DEFINE side == Other(taker.side)
    <3>1. PICK t \in Trade : t.price = book[m].price /\ trades' = Append(trades, t)
      BY <2>3, FillTaker
    <3>2. /\ taker # NIL /\ taker'.side = taker.side
          /\ m \in DOMAIN book /\ book[m].side = side
          /\ \A o \in DOMAIN book : book[o].side = side
                                       => ~ Better(side, book[o].price, t.price)
      BY <2>3, <3>1, FillTypes, FillTaker DEF Fill, Makers, First
    <3>3. /\ DOMAIN trades = 1..Len(trades) /\ Len(trades) \in Nat
          /\ DOMAIN trades' = 1..(Len(trades) + 1)
          /\ \A i \in 1..Len(trades) : trades'[i] = trades[i]
          /\ trades'[Len(trades) + 1] = t
      BY <3>1 DEF TypeOK
    <3>4. \A i \in DOMAIN trades, o \in DOMAIN book :
            book[o].side = side => ~ Better(side, book[o].price, trades[i].price)
      BY <3>2 DEF TradesBeatTheBook
    <3>5. \A i \in DOMAIN trades', o \in DOMAIN book :
            book[o].side = side => ~ Better(side, book[o].price, trades'[i].price)
      BY <3>2, <3>3, <3>4
    <3>6. TradesBeatTheBook'
      BY <2>3, <3>2, <3>5, FillBook DEF TradesBeatTheBook
    <3>7. TradesWorsen'
      BY <3>1, <3>2, <3>3, <3>4 DEF TradesWorsen
    <3> QED
      BY <3>6, <3>7
  <2>4. CASE UNCHANGED vars
    BY <2>4 DEF vars, TradesBeatTheBook, TradesWorsen
  <2> QED
    BY <2>1, <2>2, <2>3, <2>4
       DEF Next, Call, Match, Add, Modify, Cancel, Ignore, Finish
<1> QED
  BY <1>1, <1>2, TypeCorrect, TimePriority, PTL DEF Spec

-----------------------------------------------------------------------------
(* What a step may never do. *)

(* NobodyJumpsTheQueue: an order that keeps resting is never overtaken.    *)
THEOREM PlacesAreKept == Spec => NobodyJumpsTheQueue
<1> DEFINE Kept == \A o \in DOMAIN book :
                     o \in DOMAIN book' => ahead'[o] \subseteq ahead[o]
<1>1. TypeOK /\ QueuesAreLines /\ [Next]_vars => [Kept]_vars
  <2> SUFFICES ASSUME TypeOK, QueuesAreLines, [Next]_vars PROVE Kept
    OBVIOUS
  <2>1. CASE OnlyTakes
    BY <2>1 DEF OnlyTakes
  <2>2. CASE Finish
    BY <2>2, FinishBook
  <2> QED
    BY <2>1, <2>2, StepsOnlyTake
<1> QED
  BY <1>1, TypeCorrect, TimePriority, PTL DEF Spec, NobodyJumpsTheQueue

(* PartialFillEndsTheCall: a resting order loses shares and stays only to  *)
(* the last trade of a taker; every other maker is filled completely.      *)
THEOREM MakersAreFilledInFull == Spec => PartialFillEndsTheCall
<1> DEFINE Partial == \A o \in DOMAIN book :
                        o \in DOMAIN book' /\ book'[o].shares # book[o].shares
                          => taker.left > 0 /\ taker'.left = 0
<1>1. TypeOK /\ [Next]_vars => [Partial]_vars
  <2> SUFFICES ASSUME TypeOK, [Next]_vars PROVE Partial
    OBVIOUS
  <2>1. ASSUME NEW id, Withdraw(id)
        PROVE  Partial
    BY <2>1, WithdrawKeepsTypes
  <2>2. ASSUME NEW m \in Id, Fill(m)
        PROVE  Partial
    <3>1. CASE book[m].shares <= taker.left
      BY <2>1, <2>2, <3>1 DEF Fill, Volume
    <3>2. CASE ~ (book[m].shares <= taker.left)
      <4>1. /\ taker' = [taker EXCEPT !.left = taker.left - taker.left]
            /\ book' = [book EXCEPT ![m].shares = book[m].shares - taker.left]
        BY <2>2, <3>2, FillTypes DEF Fill, Volume
      <4>2. taker'.left = 0 /\ taker.left > 0
        BY <4>1, <2>2, FillTypes, SharesAreNaturals DEF Taker
      <4> QED
        BY <4>1, <4>2
    <3> QED
      BY <3>1, <3>2
  <2>3. CASE Finish
    BY <2>3, FinishBook
  <2>4. CASE book' = book
    BY <2>4
  <2> QED
    BY <2>1, <2>2, <2>3, <2>4 DEF Next, Call, Match, Add, Modify, Cancel, Ignore, vars
<1> QED
  BY <1>1, TypeCorrect, PTL DEF Spec, PartialFillEndsTheCall
=============================================================================

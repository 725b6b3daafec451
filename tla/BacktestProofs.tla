---------------------------- MODULE BacktestProofs ----------------------------
(***************************************************************************)
(* Theorems about Backtest, for every history, every set of bars and every *)
(* setting: its typing, and that its round trips follow one another, none  *)
(* across a week-end and none left open.  And about Troglodyte, whose      *)
(* calibration simulates that engine in a loop of its own.                 *)
(***************************************************************************)
EXTENDS Backtest, Troglodyte, WellFoundedInduction, TLAPS

\* What the loop relies on between two bars.  A position is open only where
\* neither the week nor the series ends, and it is older than every later exit.
Carried ==
    pos # None =>
        /\ pos.at <= Now /\ Now < Len(times) /\ ~WeekEnd(Now)
        /\ stage = "decide" => pos.at < Now
        /\ ~HoldsOverWeekend => WeekOf(times[pos.at]) = WeekOf(times[Now])
        /\ \A k \in 1..Len(trades) : trades[k].exit <= pos.at

\* The strategy is asked on a bar that ends neither the week nor the series.
Deciding ==
    stage = "decide" => /\ 1 <= Now /\ Now < Len(times)
                        /\ ~WeekEnd(Now)

\* The trades are in the order of the bars.
InOrder ==
    \A k \in 1..Len(trades) :
        /\ trades[k].entry < trades[k].exit /\ trades[k].exit <= Now
        /\ k > 1 => trades[k - 1].exit <= trades[k].entry
        /\ ~HoldsOverWeekend =>
              WeekOf(times[trades[k].entry]) = WeekOf(times[trades[k].exit])

IInv == TypeOK /\ Carried /\ Deciding /\ InOrder

-----------------------------------------------------------------------------
(* Lemmas on the operators *)

LEMMA MinOfTwo ==
    ASSUME NEW a \in Int, NEW b \in Int
    PROVE  /\ Min({a, b}) \in {a, b}
           /\ Min({a, b}) <= a /\ Min({a, b}) <= b
  <1>1. \E x \in {a, b} : \A y \in {a, b} : x <= y
    <2>1. CASE a <= b
      BY <2>1
    <2>2. CASE b <= a
      BY <2>2
    <2> QED BY <2>1, <2>2
  <1> QED BY <1>1 DEF Min

LEMMA MaxOfTwo ==
    ASSUME NEW a \in Int, NEW b \in Int
    PROVE  Max({a, b}) \in {a, b} /\ a <= Max({a, b}) /\ b <= Max({a, b})
  <1>1. \E x \in {a, b} : \A y \in {a, b} : x >= y
    <2>1. CASE a <= b
      BY <2>1
    <2>2. CASE b <= a
      BY <2>2
    <2> QED BY <2>1, <2>2
  <1> QED BY <1>1 DEF Max

LEMMA Product ==
    /\ \A a, b \in Nat : a * b \in Nat
    /\ \A a, b \in Int : a * b \in Int
  OBVIOUS

\* What a position would yield is an amount.
LEMMA UnrealizedType ==
    ASSUME NEW p \in Positions, NEW price \in Int
    PROVE  Unrealized(p, price) \in Int
  <1>1. p.quantity \in Int /\ p.price \in Int
    BY DEF Positions
  <1>2. (IF p.side = "BUY" THEN price - p.price ELSE p.price - price) \in Int
    BY <1>1
  <1> QED BY <1>1, <1>2, Product DEF Unrealized

\* The barriers give an exit, or nothing.
LEMMA BarriersType ==
    ASSUME NEW p \in Positions, NEW bar \in Bars
    PROVE  CheckBarriers(p, bar) \in Exits \cup {None}
  <1> DEFINE long == p.side = "BUY"
             stop == IF long THEN p.price - Distance ELSE p.price + Distance
             limit == IF long THEN p.price + Distance ELSE p.price - Distance
             filled == IF long THEN Min({stop, bar.open}) ELSE Max({stop, bar.open})
  <1>1. p.price \in Int /\ bar.open \in Int /\ Distance \in Int
    BY BacktestAssumption DEF Positions, OHLC
  <1>2. stop \in Int /\ limit \in Int
    BY <1>1
  <1>3. filled \in Int
    BY <1>1, <1>2, MinOfTwo, MaxOfTwo
  <1> HIDE DEF stop, limit, filled
  <1>4. CheckBarriers(p, bar) \in {None, [reason |-> "sl", price |-> filled],
                                   [reason |-> "tp", price |-> limit]}
    BY DEF CheckBarriers, stop, limit, filled, long
  <1>5. /\ [reason |-> "sl", price |-> filled] \in Exits
        /\ [reason |-> "tp", price |-> limit] \in Exits
    BY <1>2, <1>3 DEF Exits
  <1> QED BY <1>4, <1>5

\* A forced exit has a price and a reason.
LEMMA ForcedExitType ==
    ASSUME pos \in Positions, NEW bar \in Bars, NEW i \in Nat
    PROVE  ForcedExit(bar, i) \in Exits \cup {None}
  <1> DEFINE hit == CheckBarriers(pos, bar)
             last == [price |-> bar.close,
                      reason |-> IF i = Len(times) THEN "final" ELSE "weekend"]
  <1>1. hit \in Exits \cup {None}
    BY BarriersType
  <1>2. bar.close \in Int
    BY BacktestAssumption DEF OHLC
  <1>3. [price |-> bar.close, reason |-> "time"] \in Exits /\ last \in Exits
    BY <1>2 DEF Exits
  <1> HIDE DEF hit, last
  <1>4. ForcedExit(bar, i) \in {None, hit, last, [price |-> bar.close, reason |-> "time"]}
    BY DEF ForcedExit, hit, last
  <1> QED BY <1>1, <1>3, <1>4

\* A bar that leaves the position open ends neither the week nor the series.
LEMMA KeptInside ==
    ASSUME pos \in Positions, NEW bar \in Bars, NEW i \in Nat,
           ForcedExit(bar, i) = None
    PROVE  ~WeekEnd(i) /\ i # Len(times)
  <1> DEFINE hit == CheckBarriers(pos, bar)
             time == [price |-> bar.close, reason |-> "time"]
             last == [price |-> bar.close,
                      reason |-> IF i = Len(times) THEN "final" ELSE "weekend"]
             expired == HoldExpired(times[i], times[pos.at])
             ends == WeekEnd(i) \/ i = Len(times)
  <1>1. time # None /\ last # None
    BY BacktestAssumption, NoneAssumption DEF OHLC, Exits
  <1> HIDE DEF hit, time, last, expired, ends
  <1>2. ForcedExit(bar, i) = CASE hit # None                        -> hit
                               [] hit = None /\ expired             -> time
                               [] hit = None /\ ~expired /\ ends    -> last
                               [] OTHER                             -> None
    BY DEF ForcedExit, hit, time, last, expired, ends
  <1>3. hit = None /\ ~expired /\ ~ends
    BY <1>1, <1>2
  <1> QED BY <1>3 DEF ends

\* The trade a liquidation writes.
LEMMA TradeType ==
    ASSUME pos \in Positions, NEW price \in Int, NEW i \in Nat \ {0},
           NEW reason \in {"sl", "tp", "time", "weekend", "final", "signal", "reversal"}
    PROVE  /\ ClosePosition(price, reason, i) \in Trades
           /\ ClosePosition(price, reason, i).cost - pos.cost \in Nat
  <1>1. /\ pos.side \in Sides /\ pos.quantity \in Nat \ {0} /\ pos.cost \in Nat
        /\ pos.at \in Nat \ {0} /\ pos.price \in Nat
    BY DEF Positions
  <1>2. PICK exitCost \in Nat : exitCost = pos.quantity * CostPerSide
    BY <1>1, Product, BacktestAssumption
  <1>3. PICK gross \in Int : gross = Unrealized(pos, price)
    BY UnrealizedType
  <1>4. PICK pnl \in Int : pnl = gross - exitCost - pos.cost
    BY <1>1, <1>2, <1>3
  <1>5. PICK cost \in Nat : cost = exitCost + pos.cost
    BY <1>1, <1>2
  <1>6. ClosePosition(price, reason, i) =
          [side |-> pos.side, quantity |-> pos.quantity, entry |-> pos.at,
           exit |-> i, entryPrice |-> pos.price, price |-> price, reason |-> reason,
           pnl |-> pnl, cost |-> cost]
    BY <1>2, <1>3, <1>4, <1>5 DEF ClosePosition
  <1>7. ClosePosition(price, reason, i) \in Trades
    BY <1>1, <1>6 DEF Trades
  <1>8. ClosePosition(price, reason, i).cost = cost /\ cost - pos.cost \in Nat
    BY <1>1, <1>5, <1>6
  <1> QED BY <1>7, <1>8

\* Liquidating keeps the types, and adds one trade, of the open position.
LEMMA LiquidateAdds ==
    ASSUME TypeOK, pos \in Positions, NEW price \in Int, NEW i \in Nat \ {0},
           NEW reason \in {"sl", "tp", "time", "weekend", "final", "signal", "reversal"},
           Liquidate(price, reason, i)
    PROVE  /\ pos' = None /\ cash' \in Int /\ costs' \in Nat /\ trades' \in Seq(Trades)
           /\ Len(trades') = Len(trades) + 1
           /\ \A k \in 1..Len(trades) : trades'[k] = trades[k]
           /\ trades'[Len(trades) + 1].entry = pos.at
           /\ trades'[Len(trades) + 1].exit = i
  <1> DEFINE trade == ClosePosition(price, reason, i)
  <1>1. trade \in Trades /\ trade.cost - pos.cost \in Nat
    BY TradeType
  <1>2. trade.entry = pos.at /\ trade.exit = i
    BY DEF ClosePosition
  <1>3. trade.pnl \in Int /\ trade.cost \in Nat /\ pos.cost \in Nat
    BY <1>1 DEF Trades, Positions
  <1>4. /\ cash' = cash + trade.pnl + pos.cost
        /\ costs' = costs + trade.cost - pos.cost
        /\ trades' = Append(trades, trade) /\ pos' = None
    BY DEF Liquidate
  <1> HIDE DEF trade
  <1>5. cash \in Int /\ costs \in Nat /\ trades \in Seq(Trades)
    BY DEF TypeOK
  <1>6. cash' \in Int
    BY <1>3, <1>4, <1>5
  <1>7. costs' = costs + (trade.cost - pos.cost)
    BY <1>3, <1>4, <1>5
  <1>8. \A m, n \in Nat : m + n \in Nat
    OBVIOUS
  <1>9. costs' \in Nat
    BY <1>1, <1>5, <1>7, <1>8
  <1>10. /\ trades' \in Seq(Trades) /\ Len(trades') = Len(trades) + 1
        /\ \A k \in 1..Len(trades) : trades'[k] = trades[k]
        /\ trades'[Len(trades) + 1] = trade
    BY <1>1, <1>4, <1>5
  <1> QED BY <1>2, <1>4, <1>6, <1>9, <1>10

-----------------------------------------------------------------------------
(* Steps *)

\* The round trip a liquidation at bar i writes is in order.
LEMMA LiquidateInOrder ==
    ASSUME IInv, pos \in Positions, pos # None, NEW price \in Int, NEW i \in Nat \ {0},
           NEW reason \in {"sl", "tp", "time", "weekend", "final", "signal", "reversal"},
           Liquidate(price, reason, i), UNCHANGED times,
           pos.at < i, i = Len(bars'), Now <= i,
           ~HoldsOverWeekend => WeekOf(times[pos.at]) = WeekOf(times[i])
    PROVE  InOrder'
  <1>1. /\ Len(trades') = Len(trades) + 1
        /\ \A k \in 1..Len(trades) : trades'[k] = trades[k]
        /\ trades'[Len(trades) + 1].entry = pos.at
        /\ trades'[Len(trades) + 1].exit = i
    BY LiquidateAdds DEF IInv
  <1>2. Len(trades) \in Nat /\ Now \in Nat /\ pos.at \in Nat
    BY DEF IInv, TypeOK, Now, Positions
  <1>3. \A k \in 1..Len(trades) : /\ trades[k].entry \in Nat /\ trades[k].exit \in Nat
                                  /\ trades[k].exit <= pos.at
    <2>1. \A k \in 1..Len(trades) : trades[k] \in Trades
      BY DEF IInv, TypeOK
    <2> QED BY <2>1 DEF IInv, Carried, Trades
  <1> SUFFICES ASSUME NEW k \in 1..Len(trades')
               PROVE  /\ trades'[k].entry < trades'[k].exit /\ trades'[k].exit <= Now'
                      /\ k > 1 => trades'[k - 1].exit <= trades'[k].entry
                      /\ ~HoldsOverWeekend =>
                            WeekOf(times[trades'[k].entry]) = WeekOf(times[trades'[k].exit])
    BY DEF InOrder
  <1>4. CASE k = Len(trades) + 1
    <2>1. k > 1 => trades'[k - 1].exit <= pos.at
      BY <1>1, <1>2, <1>3, <1>4
    <2> QED BY <1>1, <1>4, <2>1 DEF Now
  <1>5. CASE k # Len(trades) + 1
    <2>1. k \in 1..Len(trades) /\ (k > 1 => k - 1 \in 1..Len(trades))
      BY <1>1, <1>2, <1>5
    <2>2. trades'[k] = trades[k] /\ (k > 1 => trades'[k - 1] = trades[k - 1])
      BY <1>1, <2>1
    <2>3. /\ trades[k].entry < trades[k].exit /\ trades[k].exit <= Now
          /\ k > 1 => trades[k - 1].exit <= trades[k].entry
          /\ ~HoldsOverWeekend =>
                WeekOf(times[trades[k].entry]) = WeekOf(times[trades[k].exit])
      BY <2>1 DEF IInv, InOrder
    <2>4. trades[k].exit <= i
      BY <1>2, <1>3, <2>1, <2>3
    <2> QED BY <2>1, <2>2, <2>3, <2>4 DEF Now
  <1> QED BY <1>4, <1>5

\* Reading a bar keeps the invariant.
LEMMA ReadBarStep ==
    ASSUME IInv, NEW bar \in Bars, ReadBar(bar)
    PROVE  IInv'
  <1> DEFINE i == Now + 1
             exit == IF pos = None THEN None ELSE ForcedExit(bar, i)
             ends == WeekEnd(i) \/ i = Len(times)
  <1>1. /\ i \in Nat \ {0} /\ i <= Len(times) /\ Now \in Nat /\ Len(times) \in Nat
        /\ stage = "exits" /\ times' = times /\ refused' = refused
        /\ bars' = Append(bars, bar)
        /\ bars' \in Seq(Bars) /\ Now' = i
        /\ stage' = IF ends THEN "exits" ELSE "decide"
    BY BacktestAssumption DEF IInv, TypeOK, ReadBar, Now
  <1>2. Deciding'
    BY <1>1 DEF Deciding, WeekEnd, LastOfWeek
  <1>3. pos # None => /\ pos \in Positions /\ pos.at \in Nat /\ pos.at < i
                      /\ ~HoldsOverWeekend => WeekOf(times[pos.at]) = WeekOf(times[i])
                      /\ \A k \in 1..Len(trades) : trades[k].exit <= pos.at
    <2> SUFFICES ASSUME pos # None
                 PROVE  /\ pos \in Positions /\ pos.at \in Nat /\ pos.at < i
                        /\ ~HoldsOverWeekend => WeekOf(times[pos.at]) = WeekOf(times[i])
                        /\ \A k \in 1..Len(trades) : trades[k].exit <= pos.at
      OBVIOUS
    <2>1. pos \in Positions /\ pos.at \in Nat
      BY DEF IInv, TypeOK, Positions
    <2>2. ~HoldsOverWeekend => WeekOf(times[Now]) = WeekOf(times[Now + 1])
      BY DEF IInv, Carried, WeekEnd, LastOfWeek
    <2> QED BY <1>1, <2>1, <2>2 DEF IInv, Carried
  <1>4. CASE exit = None
    <2>1. UNCHANGED <<pos, cash, costs, trades>>
      BY <1>4 DEF ReadBar, Keep
    <2>2. pos # None => ~ends
      BY <1>1, <1>3, <1>4, KeptInside
    <2>3. TypeOK'
      BY <1>1, <2>1 DEF IInv, TypeOK
    <2>4. Carried'
      BY <1>1, <1>3, <2>1, <2>2 DEF Carried, WeekEnd, LastOfWeek
    <2>5. InOrder'
      <3>1. \A k \in 1..Len(trades) : trades[k] \in Trades
        BY DEF IInv, TypeOK
      <3>2. \A k \in 1..Len(trades) : trades[k].exit \in Nat
        BY <3>1 DEF Trades
      <3> QED BY <1>1, <2>1, <3>2 DEF IInv, InOrder
    <2> QED BY <1>2, <2>3, <2>4, <2>5 DEF IInv
  <1>5. CASE exit # None
    <2>1. pos # None /\ exit \in Exits
      BY <1>1, <1>3, <1>5, ForcedExitType
    <2>2. Liquidate(exit.price, exit.reason, i)
      BY <1>5 DEF ReadBar
    <2>3. /\ exit.price \in Int
          /\ exit.reason \in {"sl", "tp", "time", "weekend", "final", "signal", "reversal"}
      BY <2>1 DEF Exits
    <2>4. /\ pos' = None /\ cash' \in Int /\ costs' \in Nat /\ trades' \in Seq(Trades)
      BY <1>1, <1>3, <2>1, <2>2, <2>3, LiquidateAdds DEF IInv
    <2>5. TypeOK' /\ Carried'
      BY <1>1, <2>4 DEF IInv, TypeOK, Carried
    <2>6. InOrder'
      BY <1>1, <1>3, <2>1, <2>2, <2>3, LiquidateInOrder DEF Now
    <2> QED BY <1>2, <2>5, <2>6 DEF IInv
  <1> QED BY <1>4, <1>5

\* An accepted entry that is sized by risk has a budget of a unit at least.
LEMMA BudgetCounts ==
    ASSUME TypeOK, bars # << >>, NEW sig \in EntrySignals, Accepted(sig)
    PROVE  Equity \in Int /\ BudgetSize \in Int /\ (RiskSized => BudgetSize >= 1)
  <1>1. Bar \in OHLC
    BY BacktestAssumption DEF TypeOK, Bar, Now
  <1>2. Bar.close \in Int /\ cash \in Int
    BY <1>1 DEF TypeOK, OHLC
  <1>3. Equity \in Int
    <2>1. CASE pos = None
      BY <1>2, <2>1 DEF Equity
    <2>2. CASE pos # None
      <3>1. pos \in Positions
        BY <2>2 DEF TypeOK
      <3>2. Unrealized(pos, Bar.close) \in Int
        BY <1>2, <3>1, UnrealizedType
      <3> QED BY <1>2, <2>2, <3>2 DEF Equity
    <2> QED BY <2>1, <2>2
  <1>4. BudgetSize \in Int
    <2>1. PICK budget \in Int : budget = Equity * RiskPct
      BY <1>3, Product, BacktestAssumption
    <2>2. PICK divisor \in Nat \ {0} : divisor = 100 * Distance
      BY BacktestAssumption
    <2>3. budget \div divisor \in Int
      BY <2>1, <2>2
    <2> QED BY <2>1, <2>2, <2>3 DEF BudgetSize
  <1>5. AccountAllows(AccountAnswer)
    BY DEF Accepted, Accepts, EntrySignals, ExitSignals
  <1>6. RiskSized => BudgetSize >= 1
    BY <1>4, <1>5 DEF AccountAllows, AccountAnswer
  <1> QED BY <1>3, <1>4, <1>6

\* The size of an accepted entry is a positive number of units, within the budget.
LEMMA SizeType ==
    ASSUME TypeOK, bars # << >>, NEW sig \in EntrySignals, Accepted(sig)
    PROVE  Size \in Nat \ {0} /\ (RiskSized => Size <= BudgetSize)
  <1>1. BudgetSize \in Int /\ (RiskSized => BudgetSize >= 1)
    BY BudgetCounts
  <1>2. MaxSize \in Nat \ {0} /\ FixedSize \in Nat \ {0}
    BY BacktestAssumption
  <1>3. PICK asked \in Int : asked = (IF RiskSized THEN BudgetSize ELSE FixedSize) /\ asked >= 1
    BY <1>1, <1>2
  <1>4. Min({MaxSize, asked}) \in {MaxSize, asked} /\ Min({MaxSize, asked}) <= asked
    <2>1. MaxSize \in Int
      BY <1>2
    <2> QED BY <2>1, <1>3, MinOfTwo, Zenon
  <1>5. Size = Min({MaxSize, asked})
    BY <1>3 DEF Size
  <1>6. Size \in Nat \ {0} /\ Size <= asked
    BY <1>2, <1>3, <1>4, <1>5
  <1> QED BY <1>3, <1>6

\* A decision that changes nothing but the stage keeps the invariant.
LEMMA NothingStep ==
    ASSUME IInv, stage = "decide", stage' = "exits",
           UNCHANGED <<times, bars, pos, cash, costs, trades>>, refused' \in Nat
    PROVE  IInv'
  <1>1. TypeOK'
    BY DEF IInv, TypeOK, Now
  <1>2. Carried'
    BY DEF IInv, Carried, WeekEnd, LastOfWeek, Now
  <1>3. Deciding' /\ InOrder'
    BY DEF IInv, Deciding, InOrder, Now
  <1> QED BY <1>1, <1>2, <1>3 DEF IInv

\* Closing on a signal keeps the invariant.
LEMMA ExitStep ==
    ASSUME IInv, NEW sig \in Signals, NEW blocked \in BOOLEAN, Exit(sig, blocked)
    PROVE  IInv'
  <1> DEFINE reason == IF sig \in EntrySignals THEN "reversal" ELSE "signal"
  <1>1. /\ stage = "decide" /\ pos # None /\ stage' = "exits"
        /\ times' = times /\ bars' = bars /\ refused' = refused
        /\ Liquidate(Bar.close, reason, Now)
    BY DEF Exit
  <1>2. /\ Now \in Nat \ {0} /\ Now < Len(times) /\ pos.at < Now
        /\ pos \in Positions /\ pos.at \in Nat
    BY <1>1 DEF IInv, TypeOK, Deciding, Carried, Positions, Now
  <1>3. Bar \in OHLC
    BY <1>2, BacktestAssumption DEF IInv, TypeOK, Bar, Now
  <1>4. /\ Bar.close \in Int
        /\ reason \in {"sl", "tp", "time", "weekend", "final", "signal", "reversal"}
    BY <1>3 DEF OHLC
  <1> HIDE DEF reason
  <1>5. pos' = None /\ cash' \in Int /\ costs' \in Nat /\ trades' \in Seq(Trades)
    BY <1>1, <1>2, <1>4, LiquidateAdds DEF IInv
  <1>6. TypeOK' /\ Carried' /\ Deciding'
    BY <1>1, <1>5 DEF IInv, TypeOK, Carried, Deciding, Now
  <1>7. ~HoldsOverWeekend => WeekOf(times[pos.at]) = WeekOf(times[Now])
    BY <1>1 DEF IInv, Carried
  <1>8. Now = Len(bars')
    BY <1>1 DEF Now
  <1>9. InOrder'
    BY <1>1, <1>2, <1>4, <1>7, <1>8, LiquidateInOrder
  <1> QED BY <1>6, <1>9 DEF IInv

\* Entering, or being refused, keeps the invariant.
LEMMA EnterStep ==
    ASSUME IInv, NEW sig \in Signals, NEW blocked \in BOOLEAN, Enter(sig, blocked)
    PROVE  IInv'
  <1> DEFINE applied == Signal(sig, blocked)
             cost == Size * CostPerSide
             entry == [side |-> EntrySide(applied), quantity |-> Size,
                       price |-> Bar.close, at |-> Now, cost |-> cost]
  <1>1. /\ stage = "decide" /\ pos = None /\ stage' = "exits"
        /\ times' = times /\ bars' = bars
        /\ Accepted(applied) /\ applied \in EntrySignals
    BY DEF Enter
  <1>2. CASE Size * Bar.close > cash * Leverage
    <2>1. UNCHANGED <<pos, cash, costs, trades>> /\ refused' = refused + 1
      BY <1>2 DEF Enter, Keep
    <2>2. refused' \in Nat
      BY <2>1 DEF IInv, TypeOK
    <2> QED BY <1>1, <2>1, <2>2, NothingStep
  <1>3. CASE ~(Size * Bar.close > cash * Leverage)
    <2>1. /\ cash' = cash - cost /\ costs' = costs + cost /\ pos' = entry
          /\ trades' = trades /\ refused' = refused
      BY <1>3 DEF Enter
    <2>2. /\ Now \in Nat \ {0} /\ Now < Len(times) /\ ~WeekEnd(Now) /\ bars # << >>
      BY <1>1 DEF IInv, TypeOK, Deciding, Now
    <2>3. Bar \in OHLC
      BY <2>2, BacktestAssumption DEF IInv, TypeOK, Bar, Now
    <2>4. Size \in Nat \ {0}
      BY <1>1, <2>2, SizeType DEF IInv
    <2>5. cost \in Nat
      BY <2>4, Product, BacktestAssumption
    <2>6. EntrySide(applied) \in Sides /\ Bar.close \in Nat
      BY <2>3 DEF EntrySide, Sides, OHLC
    <2> HIDE DEF cost, applied
    <2>7. entry \in Positions
      BY <2>2, <2>4, <2>5, <2>6 DEF Positions
    <2>8. TypeOK'
      BY <1>1, <2>1, <2>5, <2>7 DEF IInv, TypeOK, Now
    <2>9. Carried'
      <3>1. pos'.at = Now
        BY <2>1
      <3>2. \A k \in 1..Len(trades) : trades[k].exit <= Now
        BY DEF IInv, InOrder
      <3> QED BY <1>1, <2>1, <2>2, <3>1, <3>2 DEF Carried, WeekEnd, LastOfWeek, Now
    <2>10. Deciding' /\ InOrder'
      BY <1>1, <2>1 DEF IInv, Deciding, InOrder, Now
    <2> QED BY <2>8, <2>9, <2>10 DEF IInv
  <1> QED BY <1>2, <1>3

-----------------------------------------------------------------------------
(* Theorems *)

LEMMA InitHolds == Init => IInv
  <1> SUFFICES ASSUME Init PROVE IInv
    OBVIOUS
  <1>1. TypeOK
    BY BacktestAssumption DEF Init, TypeOK, Now
  <1>2. Carried /\ Deciding /\ InOrder
    BY DEF Init, Carried, Deciding, InOrder
  <1> QED BY <1>1, <1>2 DEF IInv

LEMMA StepPreserves == IInv /\ [Next]_vars => IInv'
  <1> SUFFICES ASSUME IInv, [Next]_vars PROVE IInv'
    OBVIOUS
  <1>1. CASE \E bar \in Bars : ReadBar(bar)
    BY <1>1, ReadBarStep
  <1>2. CASE Abstain
    <2>1. refused' \in Nat
      BY <1>2 DEF Abstain, IInv, TypeOK
    <2> QED BY <1>2, <2>1, NothingStep DEF Abstain, Keep
  <1>3. CASE \E sig \in Signals, blocked \in BOOLEAN : Exit(sig, blocked)
    BY <1>3, ExitStep
  <1>4. CASE \E sig \in Signals, blocked \in BOOLEAN : Enter(sig, blocked)
    BY <1>4, EnterStep
  <1>5. CASE UNCHANGED vars
    BY <1>5 DEF vars, IInv, TypeOK, Carried, Deciding, InOrder, Now, WeekEnd, LastOfWeek
  <1> QED BY <1>1, <1>2, <1>3, <1>4, <1>5 DEF Next, Decide

LEMMA InvariantHolds == Spec => []IInv
  BY InitHolds, StepPreserves, PTL DEF Spec

\* The variables of the loop keep their types: above all, no position and no
\* trade is of less than one unit, whatever the budget.
THEOREM TypeInvariant == Spec => []TypeOK
  <1>1. IInv => TypeOK
    BY DEF IInv
  <1> QED BY <1>1, InvariantHolds, PTL

\* The round trips follow one another and none is left open (step 4 of Run: no
\* decision on the last bar; step 3: the final liquidation).
THEOREM OnePositionAtATime == Spec => []TradesFollow
  <1>1. IInv => TradesFollow
    BY DEF IInv, TradesFollow, InOrder, Finished, Carried
  <1> QED BY <1>1, InvariantHolds, PTL

\* No position of a strategy that closes for the week-end crosses it, from any
\* history and with any decisions.
THEOREM NothingCrossesTheWeekend == Spec => []OutBeforeTheWeekend
  <1>1. IInv => OutBeforeTheWeekend
    BY DEF IInv, OutBeforeTheWeekend, InOrder, Carried
  <1> QED BY <1>1, InvariantHolds, PTL

-----------------------------------------------------------------------------
(* Induction on the natural numbers, and the totals of the journal *)

\* A set of numbers has a least one, since nothing descends for ever.
LEMMA Smallest ==
  ASSUME NEW T, T \subseteq Nat, T # {}
  PROVE \E x \in T : \A y \in T : x <= y
<1> DEFINE R == OpToRel(<, Nat)
<1>1. IsWellFoundedOn(R, Nat)
  BY NatLessThanWellFounded
<1>2. \A x, y \in Nat : <<x, y>> \in R <=> x < y
  BY DEF OpToRel
<1> HIDE DEF R
<1>3. PICK x \in T : \A y \in T : ~(<<y, x>> \in R)
  BY <1>1, WFMin
<1>4. ASSUME NEW y \in T PROVE x <= y
  <2>1. x \in Nat /\ y \in Nat
    OBVIOUS
  <2>2. ~(y < x)
    BY <1>2, <1>3, <2>1
  <2> QED BY <2>1, <2>2
<1> QED BY <1>4

\* Induction, on a set of numbers.
LEMMA SetInduction ==
  ASSUME NEW S, 0 \in S, \A n \in Nat : n \in S => n + 1 \in S
  PROVE Nat \subseteq S
<1> SUFFICES ASSUME Nat \ S # {} PROVE FALSE
  OBVIOUS
<1>1. PICK x \in Nat \ S : \A y \in Nat \ S : x <= y
  BY Smallest
<1>2. x - 1 \in Nat /\ x - 1 \in S
  BY <1>1
<1> QED BY <1>1, <1>2

\* g holds the running totals of f.
Adds(g, f, k) == g = [n \in 0..k |-> IF n = 0 THEN 0 ELSE g[n - 1] + f[n]]

LEMMA TotalsExist ==
  ASSUME NEW f, NEW k \in Nat
  PROVE  \E g : Adds(g, f, k)
<1> DEFINE S == {m \in Nat : \E g : Adds(g, f, m)}
<1>1. 0 \in S
  <2> DEFINE g == [n \in 0..0 |-> 0]
  <2>1. g = [n \in 0..0 |-> IF n = 0 THEN 0 ELSE g[n - 1] + f[n]]
    OBVIOUS
  <2> QED BY <2>1 DEF Adds
<1>2. ASSUME NEW m \in Nat, m \in S PROVE m + 1 \in S
  <2>1. PICK g : Adds(g, f, m)
    BY <1>2
  <2> DEFINE h == [n \in 0..(m + 1) |-> IF n = m + 1 THEN g[m] + f[n] ELSE g[n]]
  <2>2. ASSUME NEW n \in 0..(m + 1) PROVE h[n] = IF n = 0 THEN 0 ELSE h[n - 1] + f[n]
    <3>1. CASE n = m + 1
      BY <3>1
    <3>2. CASE n # m + 1
      <4>1. n \in 0..m /\ h[n] = g[n]
        BY <3>2
      <4>2. g[n] = IF n = 0 THEN 0 ELSE g[n - 1] + f[n]
        BY <2>1, <4>1 DEF Adds
      <4>3. n # 0 => h[n - 1] = g[n - 1]
        BY <4>1
      <4> QED BY <4>1, <4>2, <4>3
    <3> QED BY <3>1, <3>2
  <2>3. h = [n \in 0..(m + 1) |-> h[n]]
    OBVIOUS
  <2> HIDE DEF h
  <2>4. Adds(h, f, m + 1)
    BY <2>2, <2>3 DEF Adds
  <2> QED BY <2>4
<1> HIDE DEF S
<1>3. Nat \subseteq S
  BY <1>1, <1>2, SetInduction
<1> QED BY <1>3 DEF S

LEMMA TotalsAgree ==
  ASSUME NEW f, NEW g, NEW j \in Nat, Adds(g, f, j),
         NEW e, NEW h, NEW k \in Nat, Adds(h, e, k),
         NEW m \in Nat, m <= j, m <= k, \A n \in 1..m : f[n] = e[n]
  PROVE  g[m] = h[m]
<1> DEFINE S == {n \in Nat : n <= m => g[n] = h[n]}
<1>1. 0 \in S
  BY DEF Adds
<1>2. ASSUME NEW n \in Nat, n \in S PROVE n + 1 \in S
  <2> SUFFICES ASSUME n + 1 <= m PROVE g[n + 1] = h[n + 1]
    OBVIOUS
  <2>1. g[n] = h[n] /\ f[n + 1] = e[n + 1] /\ n + 1 \in 0..j /\ n + 1 \in 0..k
    BY <1>2
  <2>2. g[n + 1] = g[n] + f[n + 1]
    BY <2>1 DEF Adds
  <2>3. h[n + 1] = h[n] + e[n + 1]
    BY <2>1 DEF Adds
  <2> QED BY <2>1, <2>2, <2>3
<1> HIDE DEF S
<1>3. Nat \subseteq S
  BY <1>1, <1>2, SetInduction
<1> QED BY <1>3 DEF S

LEMMA TotalIs ==
  ASSUME NEW f, NEW k \in Nat
  PROVE  \E g : Adds(g, f, k) /\ Total(f, k) = g[k]
<1> DEFINE g == CHOOSE x : x = [n \in 0..k |-> IF n = 0 THEN 0 ELSE x[n - 1] + f[n]]
<1>1. \E x : x = [n \in 0..k |-> IF n = 0 THEN 0 ELSE x[n - 1] + f[n]]
  BY TotalsExist DEF Adds
<1>2. Adds(g, f, k)
  BY <1>1 DEF Adds
<1>3. Total(f, k) = g[k]
  BY DEF Total
<1> QED BY <1>2, <1>3

\* A total depends on the values it adds, and grows by the last.
LEMMA TotalSame ==
  ASSUME NEW f, NEW e, NEW k \in Nat, \A n \in 1..k : f[n] = e[n]
  PROVE  Total(f, k) = Total(e, k)
BY TotalIs, TotalsAgree

LEMMA TotalGrows ==
  ASSUME NEW f, NEW k \in Nat
  PROVE  Total(f, 0) = 0 /\ Total(f, k + 1) = Total(f, k) + f[k + 1]
<1>1. PICK g : Adds(g, f, k + 1) /\ Total(f, k + 1) = g[k + 1]
  BY TotalIs
<1>2. PICK h : Adds(h, f, k) /\ Total(f, k) = h[k]
  BY TotalIs
<1>3. g[k] = h[k]
  BY <1>1, <1>2, TotalsAgree
<1>4. g[k + 1] = g[k] + f[k + 1]
  BY <1>1 DEF Adds
<1>5. Total(f, 0) = 0
  <2>1. PICK i : Adds(i, f, 0) /\ Total(f, 0) = i[0]
    BY TotalIs
  <2> QED BY <2>1 DEF Adds
<1> QED BY <1>1, <1>2, <1>3, <1>4, <1>5

LEMMA TotalType ==
  ASSUME NEW f, NEW k \in Nat, \A n \in 1..k : f[n] \in Int
  PROVE  Total(f, k) \in Int
<1> DEFINE S == {n \in Nat : n <= k => Total(f, n) \in Int}
<1>1. 0 \in S
  BY TotalGrows
<1>2. ASSUME NEW n \in Nat, n \in S PROVE n + 1 \in S
  BY <1>2, TotalGrows
<1> HIDE DEF S
<1>3. Nat \subseteq S
  BY <1>1, <1>2, SetInduction
<1> QED BY <1>3 DEF S

LEMMA Quotient ==
  ASSUME NEW a \in Int, NEW d \in Nat \ {0}, NEW q \in Int, q <= a \div d
  PROVE  d * q <= a
<1>1. PICK w \in Int : w = a \div d
  OBVIOUS
<1>2. d * w <= a
  BY <1>1
<1>3. d * q <= d * w
  BY <1>1
<1> QED BY <1>1, <1>2, <1>3, Product

-----------------------------------------------------------------------------
(* The labels: what ExecutionWindow gives *)

\* The least of a set of numbers.
LEMMA MinIs ==
    ASSUME NEW S, S \subseteq Nat, S # {}
    PROVE  Min(S) \in S /\ \A y \in S : Min(S) <= y
  <1>1. \E x \in S : \A y \in S : x <= y
    BY Smallest
  <1> QED BY <1>1 DEF Min

\* What the cursor goes by, from bar to bar.
CursorAt(h, before, t) ==
    IF t = 0 THEN 1
    ELSE IF LastOfWeek(h, t) \/ t = Len(h) THEN before
    ELSE LET from == Max({before, t + 1})
         IN Min({Len(h) + 1} \cup {j \in from..Len(h) : HoldExpired(h[j], h[t])})

Moves(g, h, n) == g = [t \in 0..n |-> CursorAt(h, g[t - 1], t)]

LEMMA CursorExists ==
    ASSUME NEW h, NEW k \in Nat
    PROVE  \E g : Moves(g, h, k)
  <1> DEFINE S == {m \in Nat : \E g : Moves(g, h, m)}
  <1>1. 0 \in S
    <2> DEFINE g == [t \in 0..0 |-> 1]
    <2>1. g = [t \in 0..0 |-> CursorAt(h, g[t - 1], t)]
      BY DEF CursorAt
    <2> QED BY <2>1 DEF Moves
  <1>2. ASSUME NEW m \in Nat, m \in S PROVE m + 1 \in S
    <2>1. PICK g : Moves(g, h, m)
      BY <1>2
    <2> DEFINE e == [t \in 0..(m + 1) |-> IF t = m + 1 THEN CursorAt(h, g[m], t) ELSE g[t]]
    <2>2. ASSUME NEW t \in 0..(m + 1) PROVE e[t] = CursorAt(h, e[t - 1], t)
      <3>1. CASE t = m + 1
        <4>1. e[t] = CursorAt(h, g[m], t) /\ t - 1 = m /\ e[m] = g[m]
          BY <3>1
        <4> QED BY <4>1
      <3>2. CASE t = 0
        <4>1. e[t] = g[t] /\ t \in 0..m
          BY <3>2
        <4>2. g[t] = CursorAt(h, g[t - 1], t)
          BY <2>1, <4>1 DEF Moves
        <4> QED BY <3>2, <4>1, <4>2 DEF CursorAt
      <3>3. CASE t # m + 1 /\ t # 0
        <4>1. t \in 0..m /\ t - 1 \in 0..m /\ e[t] = g[t] /\ e[t - 1] = g[t - 1]
          BY <3>3
        <4>2. g[t] = CursorAt(h, g[t - 1], t)
          BY <2>1, <4>1 DEF Moves
        <4> QED BY <4>1, <4>2
      <3> QED BY <3>1, <3>2, <3>3
    <2>3. e = [t \in 0..(m + 1) |-> e[t]]
      OBVIOUS
    <2> HIDE DEF e
    <2>4. Moves(e, h, m + 1)
      BY <2>2, <2>3 DEF Moves
    <2> QED BY <2>4
  <1> HIDE DEF S
  <1>3. Nat \subseteq S
    BY <1>1, <1>2, SetInduction
  <1> QED BY <1>3 DEF S

LEMMA CursorMoves ==
    ASSUME NEW h \in Histories
    PROVE  Moves(ExpiryCursor(h), h, Len(h))
  <1> DEFINE g == CHOOSE c : c = [t \in 0..Len(h) |->
                    IF t = 0 THEN 1
                    ELSE IF LastOfWeek(h, t) \/ t = Len(h) THEN c[t - 1]
                    ELSE LET from == Max({c[t - 1], t + 1})
                         IN Min({Len(h) + 1} \cup {j \in from..Len(h) : HoldExpired(h[j], h[t])})]
  <1>1. Len(h) \in Nat
    BY BacktestAssumption
  <1>2. \E c : c = [t \in 0..Len(h) |->
                    IF t = 0 THEN 1
                    ELSE IF LastOfWeek(h, t) \/ t = Len(h) THEN c[t - 1]
                    ELSE LET from == Max({c[t - 1], t + 1})
                         IN Min({Len(h) + 1} \cup {j \in from..Len(h) : HoldExpired(h[j], h[t])})]
    BY <1>1, CursorExists DEF Moves, CursorAt
  <1>3. Moves(g, h, Len(h))
    BY <1>2 DEF Moves, CursorAt
  <1>4. ExpiryCursor(h) = g
    BY DEF ExpiryCursor
  <1> QED BY <1>3, <1>4

\* A history is a sequence of rising times.
LEMMA HistoryRises ==
    ASSUME NEW h \in Histories
    PROVE  /\ Len(h) \in Nat /\ \A i \in 1..Len(h) : h[i] \in Nat
           /\ \A i, j \in 1..Len(h) : i <= j => h[i] <= h[j]
  <1>1. h \in Seq(Nat) /\ \A i, j \in 1..Len(h) : i < j => h[i] < h[j]
    BY BacktestAssumption
  <1>2. Len(h) \in Nat /\ \A i \in 1..Len(h) : h[i] \in Nat
    BY <1>1
  <1>3. ASSUME NEW i \in 1..Len(h), NEW j \in 1..Len(h), i <= j PROVE h[i] <= h[j]
    <2>1. i = j \/ i < j
      BY <1>3
    <2>2. h[i] \in Nat /\ h[j] \in Nat
      BY <1>2
    <2> QED BY <1>1, <2>1, <2>2
  <1> QED BY <1>2, <1>3

\* A later entry expires later.
LEMMA ExpiresLater ==
    ASSUME NEW bar \in Nat, NEW early \in Nat, NEW late \in Nat, early <= late,
           HoldExpired(bar, late)
    PROVE  HoldExpired(bar, early)
  BY MarketTimeAssumption DEF HoldExpired

\* What lies behind the cursor has not expired, for any entry from there on.
Behind(h, c, t) ==
    /\ c \in 1..(Len(h) + 1)
    /\ \A u \in 1..Len(h) : u >= t =>
         \A j \in (u + 1)..(c - 1) : ~HoldExpired(h[j], h[u])

LEMMA CursorStep ==
    ASSUME NEW h \in Histories, NEW t \in 1..Len(h), NEW before, Behind(h, before, t - 1)
    PROVE  LET c == CursorAt(h, before, t)
           IN  /\ Behind(h, c, t)
               /\ ~LastOfWeek(h, t) /\ t # Len(h) =>
                    /\ c > t /\ (c <= Len(h) => HoldExpired(h[c], h[t]))
  <1>1. /\ Len(h) \in Nat /\ \A i \in 1..Len(h) : h[i] \in Nat
        /\ \A i, j \in 1..Len(h) : i <= j => h[i] <= h[j]
    BY HistoryRises
  <1>2. before \in 1..(Len(h) + 1) /\ t # 0
    BY DEF Behind
  <1>3. CASE LastOfWeek(h, t) \/ t = Len(h)
    <2>1. CursorAt(h, before, t) = before
      BY <1>2, <1>3 DEF CursorAt
    <2> QED BY <1>1, <1>3, <2>1 DEF Behind
  <1>4. CASE ~LastOfWeek(h, t) /\ t # Len(h)
    <2> DEFINE from == Max({before, t + 1})
               some == {Len(h) + 1} \cup {j \in from..Len(h) : HoldExpired(h[j], h[t])}
               c == Min(some)
    <2>1. from \in {before, t + 1} /\ before <= from /\ t + 1 <= from
      <3>1. before \in Int /\ t + 1 \in Int
        BY <1>1, <1>2
      <3> QED BY <3>1, MaxOfTwo
    <2>2. from \in Nat /\ from <= Len(h) + 1
      BY <1>1, <1>2, <2>1
    <2> HIDE DEF from
    <2>3. some \subseteq Nat /\ some # {} /\ \A j \in some : j >= from /\ j <= Len(h) + 1
      BY <1>1, <2>2
    <2>4. c \in some /\ \A j \in some : c <= j
      BY <2>3, MinIs
    <2>5. CursorAt(h, before, t) = c
      BY <1>2, <1>4 DEF CursorAt, from
    <2>6. /\ c \in Nat /\ c >= from /\ c <= Len(h) + 1
          /\ c <= Len(h) => HoldExpired(h[c], h[t])
          /\ \A j \in from..Len(h) : j < c => ~HoldExpired(h[j], h[t])
      <3>1. c \in Nat /\ c >= from /\ c <= Len(h) + 1
        BY <2>3, <2>4
      <3>2. c <= Len(h) => HoldExpired(h[c], h[t])
        <4>1. c = Len(h) + 1 \/ HoldExpired(h[c], h[t])
          BY <2>4
        <4> QED BY <1>1, <4>1
      <3>3. ASSUME NEW j \in from..Len(h), j < c, HoldExpired(h[j], h[t]) PROVE FALSE
        <4>1. c <= j
          BY <2>4, <3>3
        <4>2. j \in Int
          BY <2>2, <1>1
        <4> QED BY <3>1, <3>3, <4>1, <4>2
      <3> QED BY <3>1, <3>2, <3>3
    <2> HIDE DEF c
    <2>7. ASSUME NEW u \in 1..Len(h), u >= t, NEW j \in (u + 1)..(c - 1)
          PROVE  ~HoldExpired(h[j], h[u])
      <3>1. j \in 1..Len(h)
        BY <1>1, <2>6, <2>7
      <3>2. CASE j < before
        <4>1. u >= t - 1 /\ j \in (u + 1)..(before - 1)
          BY <1>2, <2>7, <3>2
        <4> QED BY <4>1 DEF Behind
      <3>3. CASE j >= before
        <4>1. j \in from..Len(h) /\ j < c
          BY <1>1, <1>2, <2>1, <2>2, <2>6, <2>7, <3>1, <3>3
        <4>2. ~HoldExpired(h[j], h[t]) /\ h[t] <= h[u]
          BY <1>1, <2>6, <2>7, <4>1
        <4> QED BY <1>1, <3>1, <4>2, ExpiresLater
      <3> QED BY <1>2, <3>1, <3>2, <3>3
    <2>8. Behind(h, c, t)
      BY <1>1, <2>1, <2>2, <2>6, <2>7 DEF Behind
    <2> QED BY <1>4, <2>1, <2>2, <2>5, <2>6, <2>8
  <1> QED BY <1>3, <1>4

\* The cursor of a bar: the first bar that begins the expiry of an entry there.
LEMMA CursorIs ==
    ASSUME NEW h \in Histories, NEW t \in 1..Len(h), ~LastOfWeek(h, t), t # Len(h)
    PROVE  LET c == ExpiryCursor(h)[t]
           IN  /\ c \in (t + 1)..(Len(h) + 1) /\ (c <= Len(h) => HoldExpired(h[c], h[t]))
               /\ \A j \in (t + 1)..(c - 1) : ~HoldExpired(h[j], h[t])
  <1>1. PICK g : g = ExpiryCursor(h)
    OBVIOUS
  <1>2. Moves(g, h, Len(h)) /\ Len(h) \in Nat
    BY <1>1, CursorMoves, HistoryRises
  <1>3. \A u \in 0..Len(h) : g[u] = CursorAt(h, g[u - 1], u)
    BY <1>2 DEF Moves
  <1> DEFINE S == {u \in Nat : u <= Len(h) => Behind(h, g[u], u)}
  <1>4. 0 \in S
    <2>1. g[0] = 1
      <3>1. 0 \in 0..Len(h)
        BY <1>2
      <3>2. g[0] = CursorAt(h, g[0 - 1], 0)
        BY <1>3, <3>1
      <3> QED BY <3>2 DEF CursorAt
    <2> QED BY <1>2, <2>1 DEF Behind
  <1>5. ASSUME NEW u \in Nat, u \in S PROVE u + 1 \in S
    <2> SUFFICES ASSUME u + 1 <= Len(h) PROVE Behind(h, g[u + 1], u + 1)
      OBVIOUS
    <2>1. Behind(h, g[u], u) /\ u + 1 \in 1..Len(h) /\ (u + 1) - 1 = u
      BY <1>2, <1>5
    <2>2. g[u + 1] = CursorAt(h, g[u], u + 1)
      BY <1>2, <1>3, <2>1
    <2> QED BY <2>1, <2>2, CursorStep
  <1> HIDE DEF S
  <1>6. Nat \subseteq S
    BY <1>4, <1>5, SetInduction
  <1>7. Behind(h, g[t - 1], t - 1) /\ g[t] = CursorAt(h, g[t - 1], t)
    BY <1>2, <1>3, <1>6 DEF S
  <1>8. Behind(h, g[t], t) /\ g[t] > t /\ (g[t] <= Len(h) => HoldExpired(h[g[t]], h[t]))
    BY <1>7, CursorStep
  <1> QED BY <1>1, <1>2, <1>8 DEF Behind

\* The window of an entry ends with the week or with the hold, whichever is first.
LEMMA WindowIs ==
    ASSUME NEW h \in Histories, NEW t \in 1..Len(h), ~LastOfWeek(h, t), t # Len(h)
    PROVE  LET end == ExecutionWindow(h)[t]
               Over(j) == LastOfWeek(h, j) \/ HoldExpired(h[j], h[t])
           IN  /\ (\E j \in (t + 1)..Len(h) : Over(j)) =>
                    end \in (t + 1)..Len(h) /\ Over(end) /\ \A j \in (t + 1)..(end - 1) : ~Over(j)
               /\ (\A j \in (t + 1)..Len(h) : ~Over(j)) => end = Undefined
  <1> DEFINE c == ExpiryCursor(h)[t]
             ends == {j \in (t + 1)..Len(h) : LastOfWeek(h, j)}
                     \cup {j \in {c} : MaxHold > 0 /\ j <= Len(h)}
             Over(j) == LastOfWeek(h, j) \/ HoldExpired(h[j], h[t])
  <1>1. Len(h) \in Nat
    BY HistoryRises
  <1>2. /\ c \in (t + 1)..(Len(h) + 1) /\ (c <= Len(h) => HoldExpired(h[c], h[t]))
        /\ \A j \in (t + 1)..(c - 1) : ~HoldExpired(h[j], h[t])
    BY CursorIs
  <1>3. ExecutionWindow(h)[t] = IF ends = {} THEN Undefined ELSE Min(ends)
    BY DEF ExecutionWindow
  <1> HIDE DEF c
  <1>4. ends \subseteq (t + 1)..Len(h) /\ \A j \in ends : Over(j)
    BY <1>1, <1>2
  <1>5. ASSUME NEW j \in (t + 1)..Len(h), Over(j)
        PROVE  \E i \in ends : i <= j
    <2>1. CASE LastOfWeek(h, j)
      BY <2>1
    <2>2. CASE HoldExpired(h[j], h[t])
      <3>1. MaxHold > 0
        BY <2>2 DEF HoldExpired
      <3>2. c <= j
        BY <1>1, <1>2, <2>2
      <3> QED BY <1>1, <1>2, <3>1, <3>2
    <2> QED BY <1>5, <2>1, <2>2
  <1> HIDE DEF ends
  <1>6. ASSUME \E j \in (t + 1)..Len(h) : Over(j)
        PROVE  LET end == ExecutionWindow(h)[t]
               IN  end \in (t + 1)..Len(h) /\ Over(end) /\ \A j \in (t + 1)..(end - 1) : ~Over(j)
    <2>1. ends # {} /\ ends \subseteq Nat
      BY <1>1, <1>4, <1>5, <1>6
    <2>2. PICK m : m = Min(ends)
      OBVIOUS
    <2>3. m \in ends /\ \A j \in ends : m <= j
      BY <2>1, <2>2, MinIs
    <2>4. m \in (t + 1)..Len(h) /\ Over(m)
      BY <1>4, <2>3
    <2>5. ASSUME NEW j \in (t + 1)..(m - 1), Over(j) PROVE FALSE
      <3>1. j \in (t + 1)..Len(h)
        BY <1>1, <2>4
      <3>2. PICK i \in ends : i <= j
        BY <1>5, <2>5, <3>1
      <3>3. m <= i /\ i \in Int /\ m \in Int
        BY <1>4, <2>3, <2>4
      <3> QED BY <3>2, <3>3
    <2> QED BY <1>3, <2>1, <2>2, <2>4, <2>5
  <1>7. ASSUME \A j \in (t + 1)..Len(h) : ~Over(j) PROVE ExecutionWindow(h)[t] = Undefined
    BY <1>3, <1>4, <1>7
  <1> QED BY <1>6, <1>7

-----------------------------------------------------------------------------
(* The cash and the journal *)

\* The size of what is open fits the account as the journal gives it.
SizedAtEntry ==
    RiskSized /\ pos # None =>
        100 * Distance * pos.quantity <= RiskPct * (Capital + NetPnL(Len(trades)))

Journal == CashReconciles /\ SizedOnTheJournal /\ SizedAtEntry

Pnls == [i \in 1..Len(trades) |-> trades[i].pnl]
Costs == [i \in 1..Len(trades) |-> trades[i].cost]
Paid == Total(Costs, Len(trades))

LEMMA JournalTypes ==
    ASSUME TypeOK
    PROVE  /\ Len(trades) \in Nat /\ cash \in Int /\ costs \in Int
           /\ \A i \in 1..Len(trades) : /\ trades[i] \in Trades /\ Pnls[i] = trades[i].pnl
                                       /\ Costs[i] = trades[i].cost
                                       /\ Pnls[i] \in Int /\ Costs[i] \in Int
           /\ \A k \in 0..Len(trades) : NetPnL(k) \in Int
           /\ Paid \in Int
  <1>1. Len(trades) \in Nat /\ cash \in Int /\ costs \in Int
    BY DEF TypeOK
  <1>2. ASSUME NEW i \in 1..Len(trades)
        PROVE  /\ trades[i] \in Trades /\ Pnls[i] = trades[i].pnl /\ Costs[i] = trades[i].cost
               /\ Pnls[i] \in Int /\ Costs[i] \in Int
    <2>1. trades[i] \in Trades
      BY DEF TypeOK
    <2> QED BY <2>1 DEF Trades, Pnls, Costs
  <1>3. ASSUME NEW k \in 0..Len(trades) PROVE NetPnL(k) \in Int
    <2>1. Total(Pnls, k) \in Int
      BY <1>1, <1>2, TotalType
    <2> QED BY <2>1 DEF NetPnL, Pnls
  <1>4. Paid \in Int
    BY <1>1, <1>2, TotalType DEF Paid
  <1> QED BY <1>1, <1>2, <1>3, <1>4

\* A trade adds its result and its cost to the totals, and changes none before it.
LEMMA TradeAdds ==
    ASSUME TypeOK, NEW trade, trades' = Append(trades, trade), NEW n \in Nat, n = Len(trades)
    PROVE  /\ Len(trades') = n + 1 /\ trades'[n + 1] = trade
           /\ \A k \in 1..n : trades'[k] = trades[k]
           /\ \A k \in 0..n : NetPnL(k)' = NetPnL(k)
           /\ NetPnL(n + 1)' = NetPnL(n) + trade.pnl
           /\ Paid' = Paid + trade.cost
  <1>1. /\ Len(trades') = n + 1 /\ trades'[n + 1] = trade
        /\ \A k \in 1..n : trades'[k] = trades[k]
    BY DEF TypeOK
  <1>2. n = Len(trades)
    OBVIOUS
  <1>3. PICK f : f = Pnls
    OBVIOUS
  <1>4. PICK e : e = Pnls'
    OBVIOUS
  <1>5. \A i \in 1..n : e[i] = f[i]
    BY <1>1, <1>2, <1>3, <1>4 DEF Pnls
  <1>6. e[n + 1] = trade.pnl
    BY <1>1, <1>2, <1>4 DEF Pnls
  <1>7. ASSUME NEW k \in 0..n PROVE Total(e, k) = Total(f, k)
    BY <1>5, <1>7, TotalSame
  <1>8. Total(e, n + 1) = Total(f, n) + trade.pnl
    <2>1. Total(e, n) = Total(f, n)
      BY <1>7
    <2> QED BY <1>6, <2>1, TotalGrows
  <1>9. PICK c : c = Costs
    OBVIOUS
  <1>10. PICK d : d = Costs'
    OBVIOUS
  <1>11. Total(d, n + 1) = Total(c, n) + trade.cost
    <2>1. \A i \in 1..n : d[i] = c[i]
      BY <1>1, <1>2, <1>9, <1>10 DEF Costs
    <2>2. d[n + 1] = trade.cost
      BY <1>1, <1>2, <1>10 DEF Costs
    <2>3. Total(d, n) = Total(c, n)
      BY <2>1, TotalSame
    <2> QED BY <2>2, <2>3, TotalGrows
  <1>12. \A k : NetPnL(k) = Total(f, k) /\ NetPnL(k)' = Total(e, k)
    BY <1>3, <1>4 DEF NetPnL, Pnls
  <1>13. Paid = Total(c, n) /\ Paid' = Total(d, n + 1)
    BY <1>1, <1>2, <1>9, <1>10 DEF Paid
  <1>14. \A k \in 0..n : NetPnL(k)' = NetPnL(k)
    BY <1>7, <1>12
  <1>15. NetPnL(n + 1)' = NetPnL(n) + trade.pnl
    BY <1>8, <1>12
  <1> QED BY <1>1, <1>11, <1>13, <1>14, <1>15

LEMMA LiquidateJournal ==
    ASSUME IInv, Journal, pos # None, NEW price \in Int, NEW i \in Nat \ {0},
           NEW reason \in {"sl", "tp", "time", "weekend", "final", "signal", "reversal"},
           Liquidate(price, reason, i)
    PROVE  Journal'
  <1> DEFINE trade == ClosePosition(price, reason, i)
  <1>1. pos \in Positions /\ TypeOK
    BY DEF IInv, TypeOK
  <1>2. trade \in Trades
    BY <1>1, TradeType
  <1>3. trade.pnl \in Int /\ trade.cost \in Int /\ pos.cost \in Int
    BY <1>1, <1>2 DEF Trades, Positions
  <1>4. trade.quantity = pos.quantity
    BY DEF ClosePosition
  <1>5. /\ cash' = cash + trade.pnl + pos.cost
        /\ costs' = costs + trade.cost - pos.cost
        /\ trades' = Append(trades, trade) /\ pos' = None
    BY DEF Liquidate
  <1> HIDE DEF trade
  <1>6. PICK n \in Nat : n = Len(trades)
    BY <1>1, JournalTypes
  <1>7. /\ Len(trades') = n + 1 /\ trades'[n + 1] = trade
        /\ \A k \in 1..n : trades'[k] = trades[k]
        /\ \A k \in 0..n : NetPnL(k)' = NetPnL(k)
        /\ NetPnL(n + 1)' = NetPnL(n) + trade.pnl
        /\ Paid' = Paid + trade.cost
    BY <1>1, <1>5, <1>6, TradeAdds
  <1>a. NetPnL(n) \in Int /\ Paid \in Int /\ cash \in Int /\ costs \in Int
    <2>1. n \in 0..Len(trades)
      BY <1>6
    <2> QED BY <1>1, <2>1, JournalTypes
  <1>8. /\ cash = Capital + NetPnL(n) - pos.cost
        /\ costs = pos.cost + Paid
    BY <1>6 DEF Journal, CashReconciles, Costs, Paid
  <1>9. Capital \in Int /\ NetPnL(n) \in Int
    BY <1>a, BacktestAssumption
  <1>10. cash' = Capital + (NetPnL(n) + trade.pnl) /\ costs' = Paid + trade.cost
    <2>1. PICK pnl \in Int, spent \in Int, cost \in Int :
            pnl = trade.pnl /\ spent = trade.cost /\ cost = pos.cost
      BY <1>3
    <2>2. PICK net \in Int, paid \in Int : net = NetPnL(n) /\ paid = Paid
      BY <1>a
    <2>3. cash = Capital + net - cost /\ costs = cost + paid
      BY <1>8, <2>1, <2>2
    <2>4. cash' = cash + pnl + cost /\ costs' = costs + spent - cost
      BY <1>5, <2>1
    <2>5. cash' = Capital + (net + pnl) /\ costs' = paid + spent
      BY <1>9, <2>3, <2>4
    <2> QED BY <2>1, <2>2, <2>5
  <1>11. CashReconciles'
    <2>1. NetPnL(n + 1)' = NetPnL(n) + trade.pnl /\ Len(trades') = n + 1
      BY <1>7
    <2>2. cash' = Capital + NetPnL(n + 1)' - 0 /\ costs' = 0 + Paid'
      BY <1>3, <1>7, <1>9, <1>a, <1>10, <2>1
    <2> QED BY <1>5, <2>1, <2>2 DEF CashReconciles, Costs, Paid
  <1>12. SizedOnTheJournal'
    <2> SUFFICES ASSUME RiskSized, NEW k \in 1..(n + 1)
                 PROVE  100 * Distance * trades'[k].quantity <= RiskPct * (Capital + NetPnL(k - 1)')
      BY <1>7 DEF SizedOnTheJournal
    <2>1. NetPnL(k - 1)' = NetPnL(k - 1)
      BY <1>7
    <2>2. CASE k = n + 1
      <3>1. 100 * Distance * pos.quantity <= RiskPct * (Capital + NetPnL(n))
        BY <1>6 DEF Journal, SizedAtEntry
      <3>2. k - 1 = n
        BY <2>2
      <3> QED BY <1>4, <1>7, <2>1, <2>2, <3>1, <3>2
    <2>3. CASE k # n + 1
      <3>1. k \in 1..n
        BY <2>3
      <3>2. 100 * Distance * trades[k].quantity <= RiskPct * (Capital + NetPnL(k - 1))
        BY <1>6, <3>1 DEF Journal, SizedOnTheJournal
      <3> QED BY <1>7, <2>1, <3>1, <3>2
    <2> QED BY <2>2, <2>3
  <1>13. SizedAtEntry'
    BY <1>5 DEF SizedAtEntry
  <1> QED BY <1>11, <1>12, <1>13 DEF Journal

\* Nothing of the account moves.
LEMMA JournalSame ==
    ASSUME Journal, UNCHANGED <<pos, cash, costs, trades>>
    PROVE  Journal'
  <1>1. \A k : NetPnL(k)' = NetPnL(k)
    BY DEF NetPnL
  <1> QED BY <1>1 DEF Journal, CashReconciles, SizedOnTheJournal, SizedAtEntry

LEMMA EnterJournal ==
    ASSUME IInv, Journal, NEW sig \in Signals, NEW blocked \in BOOLEAN, Enter(sig, blocked)
    PROVE  Journal'
  <1> DEFINE applied == Signal(sig, blocked)
             cost == Size * CostPerSide
  <1>1. /\ stage = "decide" /\ pos = None
        /\ Accepted(applied) /\ applied \in EntrySignals
    BY DEF Enter
  <1>2. CASE Size * Bar.close > cash * Leverage
    <2>1. UNCHANGED <<pos, cash, costs, trades>>
      BY <1>2 DEF Enter, Keep
    <2> QED BY <2>1, JournalSame
  <1>3. CASE ~(Size * Bar.close > cash * Leverage)
    <2>1. /\ cash' = cash - cost /\ costs' = costs + cost /\ trades' = trades
          /\ pos' = [side |-> EntrySide(applied), quantity |-> Size,
                     price |-> Bar.close, at |-> Now, cost |-> cost]
      BY <1>3 DEF Enter
    <2>2. bars # << >> /\ TypeOK
      BY <1>1 DEF IInv, TypeOK, Deciding, Now
    <2>3. Size \in Nat \ {0}
      BY <1>1, <2>2, SizeType
    <2>4. cost \in Nat
      BY <2>3, Product, BacktestAssumption
    <2>5. pos' # None
      <3>1. Bar \in OHLC /\ Now \in Nat \ {0}
        BY <2>2, BacktestAssumption DEF TypeOK, Bar, Now
      <3>2. EntrySide(applied) \in Sides /\ Bar.close \in Nat
        BY <3>1 DEF EntrySide, Sides, OHLC
      <3> HIDE DEF cost, applied
      <3>3. pos' \in Positions
        BY <2>1, <2>3, <2>4, <3>1, <3>2 DEF Positions
      <3> QED BY <3>3, NoneAssumption
    <2>6. \A k : NetPnL(k)' = NetPnL(k)
      BY <2>1 DEF NetPnL
    <2>7. pos'.cost = cost /\ pos'.quantity = Size
      BY <2>1
    <2>8. Capital \in Int /\ NetPnL(Len(trades)) \in Int /\ cash \in Int
      BY <2>2, JournalTypes, BacktestAssumption
    <2>9. cash = Capital + NetPnL(Len(trades)) /\ costs = Paid
      <3>1. Paid \in Int
        BY <2>2, JournalTypes
      <3> QED BY <1>1, <2>8, <3>1 DEF Journal, CashReconciles, Costs, Paid
    <2>10. CashReconciles'
      <3>1. cash' = Capital + NetPnL(Len(trades)) - cost /\ costs' = cost + Paid
        <4>1. Paid \in Int
          BY <2>2, JournalTypes
        <4> QED BY <2>1, <2>4, <2>8, <2>9, <4>1
      <3>2. Paid' = Paid
        BY <2>1 DEF Costs, Paid
      <3> HIDE DEF cost
      <3> QED BY <2>1, <2>5, <2>6, <2>7, <3>1, <3>2 DEF CashReconciles, Costs, Paid
    <2>11. SizedOnTheJournal'
      BY <2>1, <2>6 DEF Journal, SizedOnTheJournal
    <2>12. ASSUME RiskSized PROVE 100 * Distance * Size <= RiskPct * cash
      <3>1. BudgetSize \in Int /\ BudgetSize >= 1 /\ Size <= BudgetSize
        BY <1>1, <2>2, <2>12, BudgetCounts, SizeType
      <3>2. Equity = cash
        BY <1>1, <2>8 DEF Equity
      <3>3. BudgetSize = (cash * RiskPct) \div (100 * Distance)
        BY <3>1, <3>2 DEF BudgetSize
      <3>4. PICK budget \in Int : budget = cash * RiskPct /\ budget = RiskPct * cash
        BY <2>8, Product, BacktestAssumption
      <3>5. PICK divisor \in Nat \ {0} : divisor = 100 * Distance
        BY BacktestAssumption
      <3>6. Size \in Int /\ Size <= budget \div divisor
        BY <2>3, <3>1, <3>3, <3>4, <3>5
      <3>7. divisor * Size <= budget
        BY <3>6, Quotient
      <3> QED BY <3>4, <3>5, <3>7
    <2>13. SizedAtEntry'
      BY <2>1, <2>6, <2>7, <2>9, <2>12 DEF SizedAtEntry
    <2> QED BY <2>10, <2>11, <2>13 DEF Journal
  <1> QED BY <1>2, <1>3

LEMMA JournalHolds == Spec => []Journal
  <1>1. Init => Journal
    <2> SUFFICES ASSUME Init PROVE Journal
      OBVIOUS
    <2>1. pos = None /\ cash = Capital /\ costs = 0 /\ trades = << >> /\ Len(trades) = 0
      BY DEF Init
    <2>2. Paid = 0 /\ NetPnL(0) = 0
      BY <2>1, TotalGrows DEF NetPnL, Paid
    <2> QED BY <2>1, <2>2, BacktestAssumption
            DEF Journal, CashReconciles, SizedOnTheJournal, SizedAtEntry, Costs, Paid
  <1>2. IInv /\ IInv' /\ Journal /\ [Next]_vars => Journal'
    <2> SUFFICES ASSUME IInv, IInv', Journal, [Next]_vars PROVE Journal'
      OBVIOUS
    <2>1. ASSUME NEW bar \in Bars, ReadBar(bar) PROVE Journal'
      <3> DEFINE i == Now + 1
                 exit == IF pos = None THEN None ELSE ForcedExit(bar, i)
      <3>1. i \in Nat \ {0}
        BY DEF IInv, TypeOK, Now
      <3>2. CASE exit = None
        BY <2>1, <3>2, JournalSame DEF ReadBar, Keep
      <3>3. CASE exit # None
        <4>1. pos # None /\ pos \in Positions
          BY <3>3 DEF IInv, TypeOK
        <4>2. exit \in Exits
          BY <3>1, <3>3, <4>1, ForcedExitType
        <4>3. /\ exit.price \in Int
              /\ exit.reason \in {"sl", "tp", "time", "weekend", "final", "signal", "reversal"}
          BY <4>2 DEF Exits
        <4>4. Liquidate(exit.price, exit.reason, i)
          BY <2>1, <3>3 DEF ReadBar
        <4> QED BY <3>1, <4>1, <4>3, <4>4, LiquidateJournal DEF IInv
      <3> QED BY <3>2, <3>3
    <2>2. CASE Abstain
      BY <2>2, JournalSame DEF Abstain, Keep
    <2>3. ASSUME NEW sig \in Signals, NEW blocked \in BOOLEAN, Exit(sig, blocked) PROVE Journal'
      <3> DEFINE reason == IF sig \in EntrySignals THEN "reversal" ELSE "signal"
      <3>1. stage = "decide" /\ pos # None /\ Liquidate(Bar.close, reason, Now)
        BY <2>3 DEF Exit
      <3>2. Now \in Nat \ {0}
        BY <3>1 DEF IInv, TypeOK, Deciding, Now
      <3>3. Bar \in OHLC
        BY <3>2, BacktestAssumption DEF IInv, TypeOK, Bar, Now
      <3>4. /\ Bar.close \in Int
            /\ reason \in {"sl", "tp", "time", "weekend", "final", "signal", "reversal"}
        BY <3>3 DEF OHLC
      <3> QED BY <3>1, <3>2, <3>4, LiquidateJournal DEF IInv
    <2>4. ASSUME NEW sig \in Signals, NEW blocked \in BOOLEAN, Enter(sig, blocked) PROVE Journal'
      BY <2>4, EnterJournal
    <2>5. CASE UNCHANGED vars
      BY <2>5, JournalSame DEF vars
    <2> QED BY <2>1, <2>2, <2>3, <2>4, <2>5 DEF Next, Decide
  <1> QED BY <1>1, <1>2, InvariantHolds, PTL DEF Spec

\* liquidate: no cost leaves the cash twice and none is forgotten, however many the
\* round trips; the cash at the end is the capital and the results of the journal.
THEOREM CashIsTheJournal == Spec => []CashReconciles
  <1>1. Journal => CashReconciles
    BY DEF Journal
  <1> QED BY <1>1, JournalHolds, PTL

\* sizeByRisk: what a stop loses fits the risk asked for on the account as the journal
\* gives it when the trade is entered.
THEOREM SizesFitTheAccount == Spec => []SizedOnTheJournal
  <1>1. Journal => SizedOnTheJournal
    BY DEF Journal
  <1> QED BY <1>1, JournalHolds, PTL

-----------------------------------------------------------------------------
(* The fate of a trade *)

\* What the barriers say of a bar: checkBarriers looks at a side and a price.
Struck(side, price, bar) == CheckBarriers([side |-> side, price |-> price], bar)

\* A bar on which an open position is left alone.
Quiet(side, price, entry, j) ==
    /\ Struck(side, price, bars[j]) = None
    /\ ~HoldExpired(times[j], times[entry]) /\ ~WeekEnd(j)

\* The bars that an open position has come through.
Watched ==
    pos # None =>
        /\ pos.price = bars[pos.at].close /\ pos.cost = pos.quantity * CostPerSide
        /\ pos.at < Len(times) /\ ~WeekEnd(pos.at)
        /\ \A j \in (pos.at + 1)..Now : Quiet(pos.side, pos.price, pos.at, j)

\* The reason and the price at which a position closes at bar i.
Due(side, at, entry, i, price, reason) ==
    LET hit == Struck(side, at, bars[i])
        late == HoldExpired(times[i], times[entry])
    IN  /\ reason \in {"sl", "tp"} => hit = [price |-> price, reason |-> reason]
        /\ reason \notin {"sl", "tp"} => price = bars[i].close
        /\ reason \in {"time", "weekend", "final"} => hit = None
        /\ reason = "time" => late
        /\ reason = "weekend" => WeekEnd(i)
        /\ reason = "final" => ~late /\ i = Len(times)

\* What the trade was, from its entry to its exit.
Ended(trade) ==
    /\ trade.entryPrice = bars[trade.entry].close
    /\ trade.entry < Len(times) /\ ~WeekEnd(trade.entry)
    /\ trade.cost = trade.quantity * CostPerSide + trade.quantity * CostPerSide
    /\ trade.pnl + trade.cost =
         trade.quantity * (IF trade.side = "BUY" THEN trade.price - trade.entryPrice
                           ELSE trade.entryPrice - trade.price)
    /\ \A j \in (trade.entry + 1)..(trade.exit - 1) :
         Quiet(trade.side, trade.entryPrice, trade.entry, j)
    /\ Due(trade.side, trade.entryPrice, trade.entry, trade.exit, trade.price, trade.reason)

Fate == Watched /\ \A k \in 1..Len(trades) : Ended(trades[k])

\* The bars read do not change.
LEMMA SameQuiet ==
    ASSUME times' = times, NEW j, bars'[j] = bars[j], NEW side, NEW price, NEW entry,
           Quiet(side, price, entry, j)
    PROVE  Quiet(side, price, entry, j)'
  BY DEF Quiet, Struck, CheckBarriers, WeekEnd

LEMMA SameEnded ==
    ASSUME times' = times, NEW n \in Nat, \A j \in 1..n : bars'[j] = bars[j],
           NEW trade \in Trades, trade.entry < trade.exit, trade.exit <= n, Ended(trade)
    PROVE  Ended(trade)'
  <1>1. /\ trade.entry \in 1..n /\ trade.exit \in 1..n
        /\ \A j \in (trade.entry + 1)..(trade.exit - 1) : j \in 1..n
    BY DEF Trades
  <1>2. \A j \in (trade.entry + 1)..(trade.exit - 1) :
          Quiet(trade.side, trade.entryPrice, trade.entry, j)'
    BY <1>1, SameQuiet DEF Ended
  <1>3. Due(trade.side, trade.entryPrice, trade.entry, trade.exit, trade.price, trade.reason)'
    BY <1>1 DEF Ended, Due, Struck, CheckBarriers, WeekEnd
  <1> QED BY <1>1, <1>2, <1>3 DEF Ended, WeekEnd

\* The trades written are left as they were.
LEMMA SameTrades ==
    ASSUME IInv, Fate, times' = times, NEW n \in Nat, n = Now,
           \A j \in 1..n : bars'[j] = bars[j]
    PROVE  \A k \in 1..Len(trades) : \A trade : trade = trades[k] => Ended(trade)'
  <1> SUFFICES ASSUME NEW k \in 1..Len(trades), NEW trade, trade = trades[k]
               PROVE  Ended(trade)'
    OBVIOUS
  <1>1. trade \in Trades
    BY DEF IInv, TypeOK
  <1>2. trade.entry < trade.exit /\ trade.exit <= n
    BY DEF IInv, InOrder
  <1>3. Ended(trade)
    BY DEF Fate
  <1> QED BY <1>1, <1>2, <1>3, SameEnded

\* The first three steps of the loop, told apart.
LEMMA ForcedIsDue ==
    ASSUME IInv, pos # None, NEW bar \in Bars, ReadBar(bar),
           NEW i \in Nat, i = Now + 1, NEW side, side = pos.side, NEW at, at = pos.price,
           NEW entry, entry = pos.at, NEW exit, exit = ForcedExit(bar, i)
    PROVE  /\ exit # None => Due(side, at, entry, i, exit.price, exit.reason)'
           /\ exit = None => Quiet(side, at, entry, i)'
  <1> DEFINE hit == Struck(side, at, bar)
             late == HoldExpired(times[i], times[entry])
             ends == WeekEnd(i) \/ i = Len(times)
             last == [price |-> bar.close,
                      reason |-> IF i = Len(times) THEN "final" ELSE "weekend"]
             time == [price |-> bar.close, reason |-> "time"]
  <1>1. times' = times /\ bars' = Append(bars, bar) /\ bars'[i] = bar
    <2>1. bars \in Seq(Bars)
      BY DEF IInv, TypeOK
    <2> QED BY <2>1 DEF ReadBar, Now
  <1>2. CheckBarriers(pos, bar) = hit
    BY DEF CheckBarriers, Struck
  <1>3. hit \in Exits \cup {None} /\ (hit # None => hit.reason \in {"sl", "tp"})
    <2>1. pos \in Positions
      BY DEF IInv, TypeOK
    <2>2. hit \in Exits \cup {None}
      BY <1>2, <2>1, BarriersType
    <2>3. hit = None \/ hit.reason = "sl" \/ hit.reason = "tp"
      BY DEF Struck, CheckBarriers
    <2> QED BY <2>2, <2>3
  <1>4. time # None /\ last # None
    BY BacktestAssumption, NoneAssumption DEF OHLC, Exits
  <1>5. Struck(side, at, bars[i])' = hit
    BY <1>1 DEF Struck, CheckBarriers
  <1>6. WeekEnd(i)' = WeekEnd(i)
    BY <1>1 DEF WeekEnd
  <1> HIDE DEF hit
  <1>7. ForcedExit(bar, i) = CASE hit # None                        -> hit
                               [] hit = None /\ late                -> time
                               [] hit = None /\ ~late /\ ends       -> last
                               [] OTHER                             -> None
    BY <1>2 DEF ForcedExit
  <1>8. CASE hit # None
    <2>1. exit = hit
      BY <1>7, <1>8
    <2>2. hit = [price |-> hit.price, reason |-> hit.reason]
      BY <1>3, <1>8 DEF Exits
    <2> QED BY <1>3, <1>5, <1>8, <2>1, <2>2 DEF Due
  <1>9. CASE hit = None /\ late
    <2>1. exit = time
      BY <1>7, <1>9
    <2> QED BY <1>1, <1>4, <1>5, <1>9, <2>1 DEF Due
  <1>10. CASE hit = None /\ ~late /\ ends
    <2>1. exit = last
      BY <1>7, <1>10
    <2> QED BY <1>1, <1>4, <1>5, <1>6, <1>10, <2>1 DEF Due
  <1>11. CASE hit = None /\ ~late /\ ~ends
    <2>1. exit = None
      BY <1>7, <1>11
    <2> QED BY <1>1, <1>5, <1>6, <1>11, <2>1 DEF Quiet
  <1> QED BY <1>8, <1>9, <1>10, <1>11

\* The trade that a liquidation writes.
LEMMA LiquidateEnds ==
    ASSUME IInv, Fate, pos # None, NEW price \in Int, NEW i \in Nat \ {0},
           NEW reason \in {"sl", "tp", "time", "weekend", "final", "signal", "reversal"},
           Liquidate(price, reason, i), times' = times, pos.at < i, i <= Now + 1,
           NEW n \in Nat, n = Now, \A j \in 1..n : bars'[j] = bars[j],
           NEW p, p = pos, Due(p.side, p.price, p.at, i, price, reason)'
    PROVE  Fate'
  <1>1. pos \in Positions
    BY DEF IInv, TypeOK
  <1>2. p = pos
    OBVIOUS
  <1>3. PICK trade : trade = ClosePosition(price, reason, i)
    OBVIOUS
  <1>4. /\ trade.side = p.side /\ trade.quantity = p.quantity /\ trade.entry = p.at
        /\ trade.exit = i /\ trade.entryPrice = p.price /\ trade.price = price
        /\ trade.reason = reason
        /\ trade.pnl = Unrealized(p, price) - p.quantity * CostPerSide - p.cost
        /\ trade.cost = p.quantity * CostPerSide + p.cost
    BY <1>2, <1>3 DEF ClosePosition
  <1>5. /\ p.price = bars[p.at].close /\ p.cost = p.quantity * CostPerSide
        /\ p.at < Len(times) /\ ~WeekEnd(p.at) /\ p.at <= n
        /\ \A j \in (p.at + 1)..n : Quiet(p.side, p.price, p.at, j)
    BY <1>2 DEF Fate, Watched, IInv, Carried
  <1>6. p.at \in Nat \ {0} /\ p.quantity \in Nat /\ p.price \in Int /\ p.cost \in Int
    BY <1>1, <1>2 DEF Positions
  <1>7. Ended(trade)'
    <2>1. trade.entryPrice = bars'[trade.entry].close
      BY <1>4, <1>5, <1>6
    <2>2. trade.entry < Len(times') /\ ~WeekEnd(trade.entry)'
      BY <1>4, <1>5 DEF WeekEnd
    <2>3. trade.cost = trade.quantity * CostPerSide + trade.quantity * CostPerSide
      BY <1>4, <1>5
    <2>4. trade.pnl + trade.cost =
            trade.quantity * (IF trade.side = "BUY" THEN trade.price - trade.entryPrice
                              ELSE trade.entryPrice - trade.price)
      <3>1. PICK gross \in Int : gross = Unrealized(p, price)
        BY <1>1, <1>2, UnrealizedType
      <3>2. PICK paid \in Int : paid = p.quantity * CostPerSide
        BY <1>6, Product, BacktestAssumption
      <3>3. trade.pnl + trade.cost = gross
        BY <1>4, <1>6, <3>1, <3>2
      <3> QED BY <1>4, <3>1, <3>3 DEF Unrealized
    <2>5. \A j \in (trade.entry + 1)..(trade.exit - 1) :
            Quiet(trade.side, trade.entryPrice, trade.entry, j)'
      <3> SUFFICES ASSUME NEW j \in (p.at + 1)..(i - 1) PROVE Quiet(p.side, p.price, p.at, j)'
        BY <1>4
      <3>1. j \in 1..n /\ j \in (p.at + 1)..n
        BY <1>6
      <3> QED BY <1>5, <3>1, SameQuiet
    <2>6. Due(trade.side, trade.entryPrice, trade.entry, trade.exit, trade.price, trade.reason)'
      BY <1>2, <1>4
    <2> QED BY <2>1, <2>2, <2>3, <2>4, <2>5, <2>6 DEF Ended
  <1>8. trades' = Append(trades, trade) /\ pos' = None /\ trades \in Seq(Trades)
    BY <1>3 DEF Liquidate, IInv, TypeOK
  <1>9. ASSUME NEW k \in 1..Len(trades') PROVE Ended(trades[k])'
    <2>1. CASE k = Len(trades) + 1
      <3>1. trades'[k] = trade
        BY <1>8, <2>1
      <3> QED BY <1>7, <3>1
    <2>2. CASE k # Len(trades) + 1
      <3>1. k \in 1..Len(trades) /\ trades'[k] = trades[k]
        BY <1>8, <2>2
      <3>2. PICK old : old = trades[k]
        OBVIOUS
      <3>3. Ended(old)'
        BY <3>1, <3>2, SameTrades
      <3> QED BY <3>1, <3>2, <3>3
    <2> QED BY <2>1, <2>2
  <1> QED BY <1>8, <1>9 DEF Fate, Watched

\* A step of the loop that neither opens nor closes anything.
LEMMA FateSame ==
    ASSUME IInv, Fate, times' = times, bars' = bars, pos' = pos, trades' = trades
    PROVE  Fate'
  <1>1. PICK n \in Nat : n = Now
    BY DEF IInv, TypeOK, Now
  <1>2. ASSUME NEW k \in 1..Len(trades') PROVE Ended(trades[k])'
    <2>1. PICK old : old = trades[k]
      OBVIOUS
    <2>2. Ended(old)'
      BY <1>1, <2>1, SameTrades
    <2> QED BY <2>1, <2>2
  <1>3. Watched'
    <2>1. Now' = Now
      BY DEF Now
    <2>2. \A j : Quiet(pos.side, pos.price, pos.at, j) => Quiet(pos.side, pos.price, pos.at, j)'
      BY DEF Quiet, Struck, CheckBarriers, WeekEnd
    <2> QED BY <2>1, <2>2 DEF Fate, Watched, WeekEnd
  <1> QED BY <1>2, <1>3 DEF Fate

LEMMA ReadBarFate ==
    ASSUME IInv, IInv', Fate, NEW bar \in Bars, ReadBar(bar)
    PROVE  Fate'
  <1>1. PICK n \in Nat : n = Now
    BY DEF IInv, TypeOK, Now
  <1>2. PICK i \in Nat \ {0} : i = n + 1
    BY <1>1
  <1>3. PICK exit : exit = IF pos = None THEN None ELSE ForcedExit(bar, i)
    OBVIOUS
  <1>4. /\ times' = times /\ bars' = Append(bars, bar) /\ bars \in Seq(Bars)
        /\ IF exit = None THEN Keep ELSE Liquidate(exit.price, exit.reason, i)
    BY <1>1, <1>2, <1>3 DEF ReadBar, IInv, TypeOK
  <1>5. /\ \A j \in 1..n : bars'[j] = bars[j]
        /\ bars'[i] = bar /\ Now' = i
    BY <1>1, <1>2, <1>4 DEF Now
  <1>6. CASE exit = None
    <2>1. pos' = pos /\ trades' = trades
      BY <1>4, <1>6 DEF Keep
    <2>2. ASSUME NEW k \in 1..Len(trades') PROVE Ended(trades[k])'
      <3>1. PICK old : old = trades[k]
        OBVIOUS
      <3>2. Ended(old)'
        BY <1>1, <1>4, <1>5, <2>1, <3>1, SameTrades
      <3> QED BY <2>1, <3>1, <3>2
    <2>3. Watched'
      <3> SUFFICES ASSUME pos # None
                   PROVE  /\ pos.price = bars'[pos.at].close
                          /\ pos.cost = pos.quantity * CostPerSide
                          /\ pos.at < Len(times') /\ ~WeekEnd(pos.at)'
                          /\ \A j \in (pos.at + 1)..Now' : Quiet(pos.side, pos.price, pos.at, j)'
        BY <2>1 DEF Watched
      <3>1. PICK p : p = pos
        OBVIOUS
      <3>2. /\ p.price = bars[p.at].close /\ p.cost = p.quantity * CostPerSide
            /\ p.at < Len(times) /\ ~WeekEnd(p.at) /\ p.at <= n
            /\ \A j \in (p.at + 1)..n : Quiet(p.side, p.price, p.at, j)
            /\ p \in Positions
        BY <1>1, <3>1 DEF Fate, Watched, IInv, TypeOK, Carried
      <3>3. p.at \in Nat \ {0}
        BY <3>2 DEF Positions
      <3>4. Quiet(p.side, p.price, p.at, i)'
        BY <1>1, <1>2, <1>3, <1>6, <3>1, ForcedIsDue
      <3>5. ASSUME NEW j \in (p.at + 1)..i PROVE Quiet(p.side, p.price, p.at, j)'
        <4>1. CASE j = i
          BY <3>4, <4>1
        <4>2. CASE j # i
          <5>1. j \in (p.at + 1)..n /\ j \in 1..n
            BY <1>2, <3>3, <4>2
          <5> QED BY <1>4, <1>5, <3>2, <5>1, SameQuiet
        <4> QED BY <4>1, <4>2
      <3>6. p.price = bars'[p.at].close /\ p.at < Len(times') /\ ~WeekEnd(p.at)'
        <4>1. p.at \in 1..n
          BY <3>2, <3>3
        <4>2. bars'[p.at] = bars[p.at]
          BY <1>5, <4>1
        <4> QED BY <1>4, <3>2, <4>2 DEF WeekEnd
      <3>7. \A j \in (pos.at + 1)..Now' : Quiet(pos.side, pos.price, pos.at, j)'
        BY <1>5, <2>1, <3>1, <3>5
      <3> QED BY <3>1, <3>2, <3>6, <3>7, <2>1
    <2> QED BY <2>2, <2>3 DEF Fate
  <1>7. CASE exit # None
    <2>1. pos # None /\ pos \in Positions
      BY <1>3, <1>7 DEF IInv, TypeOK
    <2>2. exit \in Exits
      BY <1>3, <1>7, <2>1, ForcedExitType
    <2>3. /\ exit.price \in Int
          /\ exit.reason \in {"sl", "tp", "time", "weekend", "final", "signal", "reversal"}
      BY <2>2 DEF Exits
    <2>8. PICK price \in Int : price = exit.price
      BY <2>3
    <2>9. PICK reason \in {"sl", "tp", "time", "weekend", "final", "signal", "reversal"} :
            reason = exit.reason
      BY <2>3
    <2>4. Liquidate(price, reason, i)
      BY <1>4, <1>7, <2>8, <2>9
    <2>10. PICK p : p = pos
      OBVIOUS
    <2>5. Due(p.side, p.price, p.at, i, price, reason)'
      BY <1>1, <1>2, <1>3, <1>7, <2>1, <2>8, <2>9, <2>10, ForcedIsDue
    <2>6. pos.at < i
      BY <1>1, <1>2, <2>1 DEF IInv, Carried, Positions
    <2>7. i <= Now + 1
      BY <1>1, <1>2
    <2> QED BY <1>1, <1>4, <1>5, <2>1, <2>4, <2>5, <2>6, <2>7, <2>10, LiquidateEnds
  <1> QED BY <1>6, <1>7

LEMMA ExitFate ==
    ASSUME IInv, Fate, NEW sig \in Signals, NEW blocked \in BOOLEAN, Exit(sig, blocked)
    PROVE  Fate'
  <1>1. PICK reason : reason = IF sig \in EntrySignals THEN "reversal" ELSE "signal"
    OBVIOUS
  <1>2. /\ stage = "decide" /\ pos # None /\ Liquidate(Bar.close, reason, Now)
        /\ times' = times /\ bars' = bars
    BY <1>1 DEF Exit
  <1>3. PICK i \in Nat \ {0} : i = Now
    BY <1>2 DEF IInv, TypeOK, Deciding, Now
  <1>4. PICK price : price = Bar.close
    OBVIOUS
  <1>5. price = bars[i].close /\ price \in Int
    <2>1. Bar \in OHLC
      BY <1>3, BacktestAssumption DEF IInv, TypeOK, Bar, Now
    <2> QED BY <1>3, <1>4, <2>1 DEF Bar, OHLC
  <1>6. pos.at < i
    BY <1>2, <1>3 DEF IInv, Carried
  <1>7. \A side, at, entry : Due(side, at, entry, i, price, reason)'
    BY <1>1, <1>2, <1>5 DEF Due
  <1>8. reason \in {"sl", "tp", "time", "weekend", "final", "signal", "reversal"}
    BY <1>1
  <1>9. Liquidate(price, reason, i)
    BY <1>2, <1>3, <1>4
  <1> QED BY <1>2, <1>3, <1>5, <1>6, <1>7, <1>8, <1>9, LiquidateEnds

LEMMA EnterFate ==
    ASSUME IInv, Fate, NEW sig \in Signals, NEW blocked \in BOOLEAN, Enter(sig, blocked)
    PROVE  Fate'
  <1>1. /\ stage = "decide" /\ pos = None /\ times' = times /\ bars' = bars
    BY DEF Enter
  <1>2. CASE Size * Bar.close > cash * Leverage
    <2>1. pos' = pos /\ trades' = trades
      BY <1>2 DEF Enter, Keep
    <2> QED BY <1>1, <2>1, FateSame
  <1>3. CASE ~(Size * Bar.close > cash * Leverage)
    <2>1. /\ trades' = trades
          /\ pos' = [side |-> EntrySide(Signal(sig, blocked)), quantity |-> Size,
                     price |-> Bar.close, at |-> Now, cost |-> Size * CostPerSide]
      BY <1>3 DEF Enter
    <2>2. Now \in Nat \ {0} /\ Now < Len(times) /\ ~WeekEnd(Now)
      BY <1>1 DEF IInv, TypeOK, Deciding, Now
    <2>3. /\ pos'.price = Bar.close /\ pos'.at = Now
          /\ pos'.cost = pos'.quantity * CostPerSide
      BY <2>1
    <2>4. Now' = Now /\ Bar.close = bars'[Now].close
      BY <1>1 DEF Now, Bar
    <2>5. (pos'.at + 1)..Now' = {}
      BY <2>2, <2>3, <2>4
    <2>6. pos'.at < Len(times') /\ ~WeekEnd(pos.at)'
      BY <1>1, <2>2, <2>3 DEF WeekEnd
    <2>7. Watched'
      BY <2>3, <2>4, <2>5, <2>6 DEF Watched
    <2>8. PICK n \in Nat : n = Now
      BY <2>2
    <2>9. ASSUME NEW k \in 1..Len(trades') PROVE Ended(trades[k])'
      <3>1. PICK old : old = trades[k]
        OBVIOUS
      <3>2. Ended(old)'
        BY <1>1, <2>1, <2>8, <3>1, SameTrades
      <3> QED BY <2>1, <3>1, <3>2
    <2> QED BY <2>7, <2>9 DEF Fate
  <1> QED BY <1>2, <1>3

LEMMA FateHolds == Spec => []Fate
  <1>1. Init => Fate
    BY DEF Init, Fate, Watched
  <1>2. IInv /\ IInv' /\ Fate /\ [Next]_vars => Fate'
    <2> SUFFICES ASSUME IInv, IInv', Fate, [Next]_vars PROVE Fate'
      OBVIOUS
    <2>1. CASE \E bar \in Bars : ReadBar(bar)
      BY <2>1, ReadBarFate
    <2>2. CASE Abstain
      BY <2>2, FateSame DEF Abstain, Keep
    <2>3. CASE \E sig \in Signals, blocked \in BOOLEAN : Exit(sig, blocked)
      BY <2>3, ExitFate
    <2>4. CASE \E sig \in Signals, blocked \in BOOLEAN : Enter(sig, blocked)
      BY <2>4, EnterFate
    <2>5. CASE UNCHANGED vars
      BY <2>5, FateSame DEF vars
    <2> QED BY <2>1, <2>2, <2>3, <2>4, <2>5 DEF Next, Decide
  <1> QED BY <1>1, <1>2, InvariantHolds, PTL DEF Spec

\* The barriers of a bar, one by one.
Touches(at, j) == bars[j].high >= at + Distance \/ bars[j].low <= at - Distance
Stops(side, at, j) ==
    IF side = "BUY" THEN bars[j].low <= at - Distance ELSE bars[j].high >= at + Distance
Gains(side, at, price) == IF side = "BUY" THEN price - at ELSE at - price
StopFill(side, at, j) ==
    IF side = "BUY" THEN Min({at - Distance, bars[j].open}) ELSE Max({at + Distance, bars[j].open})

LEMMA StruckIs ==
    ASSUME Barriers, NEW side \in Sides, NEW at \in Nat, NEW j, bars[j] \in Bars
    PROVE  /\ Struck(side, at, bars[j]) = None <=> ~Touches(at, j)
           /\ \A price \in Int, reason \in {"sl", "tp"} :
                Struck(side, at, bars[j]) = [price |-> price, reason |-> reason] =>
                /\ Touches(at, j)
                /\ reason = IF Stops(side, at, j) THEN "sl" ELSE "tp"
                /\ Stops(side, at, j) => price = StopFill(side, at, j)
                /\ ~Stops(side, at, j) => Gains(side, at, price) = Distance
  <1>1. PICK bar \in Bars : bar = bars[j]
    OBVIOUS
  <1>2. /\ bar.open \in Int /\ bar.high \in Int /\ bar.low \in Int
        /\ Distance \in Int /\ at - Distance \in Int /\ at + Distance \in Int
    BY BacktestAssumption DEF OHLC
  <1> DEFINE filled == StopFill(side, at, j)
             limit == IF side = "BUY" THEN at + Distance ELSE at - Distance
             stopped == Stops(side, at, j)
             reached == IF side = "BUY" THEN bar.high >= at + Distance ELSE bar.low <= at - Distance
  <1>3. filled \in Int /\ limit \in Int
    BY <1>1, <1>2, MinOfTwo, MaxOfTwo DEF StopFill
  <1>4. Struck(side, at, bar) = CASE stopped -> [reason |-> "sl", price |-> filled]
                                  [] ~stopped /\ reached -> [reason |-> "tp", price |-> limit]
                                  [] OTHER -> None
    BY <1>1 DEF Struck, CheckBarriers, StopFill, Stops
  <1>5. Touches(at, j) <=> stopped \/ reached
    BY <1>1 DEF Touches, Stops, Sides
  <1>6. Gains(side, at, limit) = Distance
    BY <1>2 DEF Gains
  <1>7. /\ [reason |-> "sl", price |-> filled] # None
        /\ [reason |-> "tp", price |-> limit] # None
    <2>1. /\ [reason |-> "sl", price |-> filled] \in Exits
          /\ [reason |-> "tp", price |-> limit] \in Exits
      BY <1>3 DEF Exits
    <2> QED BY <2>1, NoneAssumption
  <1> HIDE DEF filled, limit, stopped, reached
  <1>8. ASSUME NEW price \in Int, NEW reason \in {"sl", "tp"},
               Struck(side, at, bar) = [price |-> price, reason |-> reason]
        PROVE  /\ stopped \/ reached
               /\ reason = IF stopped THEN "sl" ELSE "tp"
               /\ stopped => price = filled
               /\ ~stopped => price = limit
    <2>1. [price |-> price, reason |-> reason].price = price
          /\ [price |-> price, reason |-> reason].reason = reason
      OBVIOUS
    <2>2. CASE stopped
      BY <1>4, <1>8, <2>1, <2>2
    <2>3. CASE ~stopped /\ reached
      BY <1>4, <1>8, <2>1, <2>3
    <2>4. CASE ~stopped /\ ~reached
      <3>1. [price |-> price, reason |-> reason] = None
        BY <1>4, <1>8, <2>4
      <3>2. [price |-> price, reason |-> reason] \in Exits
        BY DEF Exits
      <3> QED BY <3>1, <3>2, NoneAssumption
    <2> QED BY <2>2, <2>3, <2>4
  <1>9. Struck(side, at, bar) = None <=> ~stopped /\ ~reached
    BY <1>4, <1>7
  <1> QED BY <1>1, <1>5, <1>6, <1>8, <1>9 DEF filled, stopped

\* The label of the bar of entry: when the engine closes for the hold, the week or the
\* series, and when a barrier is touched.
LEMMA LabelIs ==
    ASSUME IInv, Barriers, ~HoldsOverWeekend, Now = Len(times),
           NEW trade \in Trades, trade.entry < trade.exit, trade.exit <= Now, Ended(trade)
    PROVE  LET label == Sided(times, bars, trade.entry, trade.side, Distance)
           IN  /\ trade.reason \in {"time", "weekend"} =>
                    label = [exit |-> trade.exit, which |-> "time",
                             gain |-> Gains(trade.side, trade.entryPrice, trade.price)]
               /\ trade.reason = "final" => label = Undefined
               /\ trade.reason \in {"sl", "tp"} /\ label # Undefined =>
                    label = [exit |-> trade.exit, which |-> trade.reason,
                             gain |-> Gains(trade.side, trade.entryPrice, trade.price)]
  <1>1. PICK t : t = trade.entry
    OBVIOUS
  <1>2. PICK x : x = trade.exit
    OBVIOUS
  <1>3. PICK side \in Sides : side = trade.side
    BY DEF Trades
  <1>4. PICK at \in Nat : at = trade.entryPrice
    BY DEF Trades
  <1>5. PICK n \in Nat : n = Now /\ n = Len(times)
    BY DEF IInv, TypeOK, Now
  <1>6. /\ times \in Histories /\ t \in 1..n /\ x \in (t + 1)..n
        /\ trade.price \in Int /\ trade.reason \in {"sl", "tp", "time", "weekend", "final", "signal", "reversal"}
    BY <1>1, <1>2, <1>5 DEF IInv, TypeOK, Trades
  <1>7. \A j \in 1..n : bars[j] \in Bars
    BY <1>5 DEF IInv, TypeOK, Now
  <1>8. PICK end : end = ExecutionWindow(times)[t]
    OBVIOUS
  <1>9. PICK touched : touched = {j \in (t + 1)..end : Touches(at, j)}
    OBVIOUS
  <1>10. PICK label : label = Sided(times, bars, t, side, Distance)
    OBVIOUS
  <1> DEFINE Over(j) == LastOfWeek(times, j) \/ HoldExpired(times[j], times[t])
  <1>11. /\ at = bars[t].close /\ t # n /\ ~LastOfWeek(times, t)
         /\ \A j \in (t + 1)..(x - 1) : Quiet(side, at, t, j)
         /\ Due(side, at, t, x, trade.price, trade.reason)
    BY <1>1, <1>2, <1>3, <1>4, <1>5 DEF Ended, WeekEnd
  <1>12. \A j \in (t + 1)..(x - 1) : ~Touches(at, j) /\ ~Over(j)
    <2> SUFFICES ASSUME NEW j \in (t + 1)..(x - 1) PROVE ~Touches(at, j) /\ ~Over(j)
      OBVIOUS
    <2>1. Quiet(side, at, t, j) /\ bars[j] \in Bars
      BY <1>6, <1>7, <1>11
    <2> QED BY <2>1, StruckIs DEF Quiet, WeekEnd
  <1>13. /\ (\E j \in (t + 1)..n : Over(j)) =>
              end \in (t + 1)..n /\ Over(end) /\ \A j \in (t + 1)..(end - 1) : ~Over(j)
         /\ (\A j \in (t + 1)..n : ~Over(j)) => end = Undefined
    BY <1>5, <1>6, <1>8, <1>11, WindowIs
  <1>14. bars[x] \in Bars
    BY <1>6, <1>7
  <1>15. ASSUME end # Undefined PROVE end \in x..n /\ Over(end)
    <2>1. end \in (t + 1)..n /\ Over(end)
      BY <1>13, <1>15
    <2>2. ~(end < x)
      BY <1>6, <1>12, <2>1
    <2> QED BY <1>6, <2>1, <2>2
  <1>16. /\ end = Undefined => label = Undefined
         /\ end # Undefined /\ touched = {} =>
              label = [exit |-> end, which |-> "time", gain |-> Gains(side, at, bars[end].close)]
         /\ end # Undefined /\ touched # {} =>
              label = [exit |-> Min(touched),
                       which |-> IF Stops(side, at, Min(touched)) THEN "sl" ELSE "tp",
                       gain |-> IF Stops(side, at, Min(touched))
                                THEN Gains(side, at, StopFill(side, at, Min(touched))) ELSE Distance]
    <2>1. at = bars[t].close
      BY <1>11
    <2>2. PICK first : first = Min(touched)
      OBVIOUS
    <2> QED BY ONLY <1>8, <1>9, <1>10, <2>1, <2>2 DEF Sided, Touches, Stops, Gains, StopFill
  <1> HIDE DEF Over
  <1>17. ASSUME trade.reason \in {"time", "weekend"}
         PROVE  label = [exit |-> x, which |-> "time", gain |-> Gains(side, at, trade.price)]
    <2>1. ~Touches(at, x) /\ Over(x) /\ trade.price = bars[x].close
      BY <1>11, <1>14, <1>17, StruckIs DEF Due, Over, WeekEnd
    <2>2. /\ end \in (t + 1)..n /\ \A j \in (t + 1)..(end - 1) : ~Over(j)
      BY <1>6, <1>13, <2>1
    <2>3. end # Undefined
      <3>1. t \in Nat /\ n \in Nat
        BY <1>6
      <3>2. end \in Nat
        BY <2>2, <3>1
      <3> QED BY <3>2, UndefinedAssumption
    <2>4. end = x
      <3>1. end \in x..n
        BY <1>15, <2>3
      <3>2. ~(x < end)
        BY <1>6, <2>1, <2>2
      <3> QED BY <1>6, <3>1, <3>2
    <2>5. touched = {}
      BY <1>6, <1>9, <1>12, <2>1, <2>4
    <2> QED BY <1>16, <2>1, <2>3, <2>4, <2>5
  <1>18. ASSUME trade.reason = "final" PROVE label = Undefined
    <2>1. x = n /\ ~HoldExpired(times[x], times[t])
      BY <1>5, <1>11, <1>18 DEF Due
    <2>2. ~LastOfWeek(times, n)
      BY <1>5 DEF LastOfWeek
    <2>3. \A j \in (t + 1)..n : ~Over(j)
      BY <1>6, <1>12, <2>1, <2>2 DEF Over
    <2> QED BY <1>13, <1>16, <2>3
  <1>19. ASSUME trade.reason \in {"sl", "tp"}, label # Undefined
         PROVE  label = [exit |-> x, which |-> trade.reason, gain |-> Gains(side, at, trade.price)]
    <2>1. end # Undefined
      BY <1>16, <1>19
    <2>2. end \in x..n
      BY <1>15, <2>1
    <2>3. /\ Touches(at, x)
          /\ trade.reason = IF Stops(side, at, x) THEN "sl" ELSE "tp"
          /\ Stops(side, at, x) => trade.price = StopFill(side, at, x)
          /\ ~Stops(side, at, x) => Gains(side, at, trade.price) = Distance
      BY <1>6, <1>11, <1>14, <1>19, StruckIs DEF Due
    <2>4. x \in touched /\ touched \subseteq Nat /\ \A j \in touched : x <= j
      BY <1>6, <1>9, <1>12, <2>2, <2>3
    <2>5. Min(touched) = x
      <3>1. Min(touched) \in touched /\ Min(touched) <= x
        BY <2>4, MinIs
      <3>2. x <= Min(touched) /\ Min(touched) \in Nat /\ x \in Nat
        BY <2>4, <3>1
      <3> QED BY <3>1, <3>2
    <2> QED BY <1>16, <2>1, <2>3, <2>4, <2>5
  <1>20. label = Sided(times, bars, trade.entry, trade.side, Distance)
    BY <1>1, <1>3, <1>10
  <1> QED BY <1>2, <1>3, <1>4, <1>17, <1>18, <1>19, <1>20

\* A product has the sign of its second factor, the first being positive.
LEMMA Sign ==
    ASSUME NEW q \in Nat \ {0}, NEW g \in Int
    PROVE  q * g > 0 <=> g > 0
  <1>1. CASE g > 0
    <2>1. q * g >= 1 * g
      BY <1>1
    <2> QED BY <1>1, <2>1
  <1>2. CASE g <= 0
    <2>1. q * g <= q * 0
      BY <1>2
    <2> QED BY <1>2, <2>1
  <1> QED BY <1>1, <1>2

\* label.Sided's comment: the label of a bar is what the engine delivers to a trade opened
\* there, whatever the prices, the gaps, the holes of the history and the strategy; a trade
\* that the end of the series cuts has none.
LEMMA LabelsDelivered == IInv /\ Fate => LabelIsDelivered
  <1> SUFFICES ASSUME IInv, Fate, Finished, Barriers, ~HoldsOverWeekend,
                      NEW k \in 1..Len(trades)
               PROVE  LET trade == trades[k]
                          label == Sided(times, bars, trade.entry, trade.side, Distance)
                          cause == IF trade.reason = "weekend" THEN "time" ELSE trade.reason
                      IN  /\ trade.reason \in {"time", "weekend"} => label # Undefined
                          /\ trade.reason = "final" => label = Undefined
                          /\ cause \in {"sl", "tp", "time"} /\ label # Undefined =>
                                /\ label.exit = trade.exit /\ label.which = cause
                                /\ label.gain * trade.quantity = trade.pnl + trade.cost
                                /\ Wins(label, 2 * CostPerSide) <=> trade.pnl > 0
    BY DEF LabelIsDelivered
  <1>1. PICK trade \in Trades : trade = trades[k]
    BY DEF IInv, TypeOK
  <1>2. PICK label : label = Sided(times, bars, trade.entry, trade.side, Distance)
    OBVIOUS
  <1>3. trade.entry < trade.exit /\ trade.exit <= Now /\ Ended(trade) /\ Now = Len(times)
    BY <1>1 DEF IInv, InOrder, Fate, Finished
  <1>4. PICK cause : cause = IF trade.reason = "weekend" THEN "time" ELSE trade.reason
    OBVIOUS
  <1>5. PICK gain \in Int : gain = Gains(trade.side, trade.entryPrice, trade.price)
    <2>1. trade.price \in Int /\ trade.entryPrice \in Int
      BY DEF Trades
    <2> QED BY <2>1 DEF Gains
  <1>6. /\ trade.reason \in {"time", "weekend"} =>
              label = [exit |-> trade.exit, which |-> "time", gain |-> gain]
        /\ trade.reason = "final" => label = Undefined
        /\ trade.reason \in {"sl", "tp"} /\ label # Undefined =>
              label = [exit |-> trade.exit, which |-> trade.reason, gain |-> gain]
    BY <1>2, <1>3, <1>5, LabelIs
  <1>7. trade.reason \in {"time", "weekend"} => label # Undefined
    <2>1. trade.exit \in Nat
      BY DEF Trades
    <2>2. [exit |-> trade.exit, which |-> "time", gain |-> gain] \in LabelValues
      BY <2>1 DEF LabelValues
    <2> QED BY <1>6, <2>2, UndefinedAssumption
  <1>8. ASSUME cause \in {"sl", "tp", "time"}, label # Undefined
        PROVE  /\ label.exit = trade.exit /\ label.which = cause
               /\ label.gain * trade.quantity = trade.pnl + trade.cost
               /\ Wins(label, 2 * CostPerSide) <=> trade.pnl > 0
    <2>1. label = [exit |-> trade.exit, which |-> cause, gain |-> gain]
      BY <1>4, <1>6, <1>8
    <2>2. PICK q \in Nat \ {0} : q = trade.quantity
      BY DEF Trades
    <2>3. PICK pnl \in Int : pnl = trade.pnl
      BY DEF Trades
    <2>4. PICK c \in Nat : c = CostPerSide
      BY BacktestAssumption
    <2>5. trade.cost = q * c + q * c /\ pnl + trade.cost = q * gain
      BY <1>3, <1>5, <2>2, <2>3, <2>4 DEF Ended, Gains
    <2>6. gain * q = trade.pnl + trade.cost
      BY <2>3, <2>5
    <2>7. pnl = q * (gain - 2 * c)
      BY <2>5
    <2>8. pnl > 0 <=> gain - 2 * c > 0
      BY <2>7, Sign
    <2>9. label.exit = trade.exit /\ label.which = cause /\ label.gain = gain
      BY <2>1
    <2> QED BY <2>2, <2>3, <2>4, <2>6, <2>8, <2>9 DEF Wins
  <1> QED BY <1>1, <1>2, <1>4, <1>6, <1>7, <1>8

\* No exit beats its bar.
LEMMA NeverBetter == IInv /\ Fate => NeverBetterThanTheMarket
  <1> SUFFICES ASSUME IInv, Fate, NEW k \in 1..Len(trades)
               PROVE  LET trade == trades[k]
                          bar == bars[trade.exit]
                      IN IF trade.side = "BUY" THEN trade.price <= bar.high ELSE trade.price >= bar.low
    BY DEF NeverBetterThanTheMarket
  <1>1. PICK trade \in Trades : trade = trades[k]
    BY DEF IInv, TypeOK
  <1>2. trade.exit <= Now /\ Ended(trade)
    BY <1>1 DEF IInv, InOrder, Fate
  <1>3. PICK bar \in Bars : bar = bars[trade.exit]
    <2>1. trade.exit \in Nat \ {0}
      BY DEF Trades
    <2>2. bars \in Seq(Bars) /\ Now = Len(bars)
      BY DEF IInv, TypeOK, Now
    <2>3. trade.exit \in 1..Len(bars)
      BY <1>2, <2>1, <2>2
    <2> QED BY <2>2, <2>3
  <1>4. /\ bar.open \in Int /\ bar.high \in Int /\ bar.low \in Int /\ bar.close \in Int
        /\ bar.low <= bar.open /\ bar.open <= bar.high
        /\ bar.low <= bar.close /\ bar.close <= bar.high
    BY BacktestAssumption DEF OHLC
  <1>5. Due(trade.side, trade.entryPrice, trade.entry, trade.exit, trade.price, trade.reason)
    BY <1>2 DEF Ended
  <1>6. CASE trade.reason \notin {"sl", "tp"}
    BY <1>1, <1>3, <1>4, <1>5, <1>6 DEF Due
  <1>7. CASE trade.reason \in {"sl", "tp"}
    <2>1. PICK at \in Nat : at = trade.entryPrice
      BY DEF Trades
    <2>2. Struck(trade.side, at, bar) = [price |-> trade.price, reason |-> trade.reason]
      BY <1>3, <1>5, <1>7, <2>1 DEF Due
    <2>3. at - Distance \in Int /\ at + Distance \in Int /\ Distance \in Int
      BY BacktestAssumption
    <2>4. trade.price \in Int /\ trade.side \in Sides
      BY DEF Trades
    <2>5. Barriers
      <3>1. ~Barriers => Struck(trade.side, at, bar) = None
        BY DEF Struck, CheckBarriers
      <3>2. [price |-> trade.price, reason |-> trade.reason] \in Exits
        BY <1>7, <2>4 DEF Exits
      <3> QED BY <2>2, <3>1, <3>2, NoneAssumption
    <2>6. bars[trade.exit] \in Bars
      BY <1>3
    <2>7. /\ Touches(at, trade.exit)
          /\ Stops(trade.side, at, trade.exit) => trade.price = StopFill(trade.side, at, trade.exit)
          /\ ~Stops(trade.side, at, trade.exit) => Gains(trade.side, at, trade.price) = Distance
      BY <1>3, <1>7, <2>2, <2>4, <2>5, <2>6, StruckIs
    <2>8. /\ Min({at - Distance, bar.open}) <= bar.open
          /\ bar.open <= Max({at + Distance, bar.open})
          /\ Min({at - Distance, bar.open}) \in Int /\ Max({at + Distance, bar.open}) \in Int
      BY <1>4, <2>3, MinOfTwo, MaxOfTwo
    <2>9. IF trade.side = "BUY" THEN trade.price <= bar.high ELSE trade.price >= bar.low
      <3>1. CASE Stops(trade.side, at, trade.exit)
        BY <1>3, <1>4, <2>4, <2>7, <2>8, <3>1 DEF StopFill
      <3>2. CASE ~Stops(trade.side, at, trade.exit)
        BY <1>3, <1>4, <2>3, <2>4, <2>7, <3>2 DEF Stops, Touches, Gains
      <3> QED BY <3>1, <3>2
    <2> QED BY <1>1, <1>3, <2>9
  <1> QED BY <1>6, <1>7

\* A trade ends as the label of its entry says (sided.go), and no exit is filled better than
\* the best price its bar has shown (checkBarriers), whatever the history, the prices and
\* the decisions.
THEOREM FillsMatchTheLabels == Spec => []FillsAreHonest
  <1>1. IInv /\ Fate => FillsAreHonest
    BY LabelsDelivered, NeverBetter DEF FillsAreHonest
  <1> QED BY <1>1, InvariantHolds, FateHolds, PTL

-----------------------------------------------------------------------------
(* Troglodyte: the trades on which the rule was chosen *)

\* g holds, for each number of bars, what simulateTrades holds and has closed.
Simulates(g, series, seen, r) ==
    g = [i \in 0..Length |->
           IF i = 0 THEN [pos |-> Nil, out |-> <<>>] ELSE SimulateBar(g[i - 1], i, series[i], seen[i], r)]

\* The first m bars of it.
SimulatesFirst(g, series, seen, r, m) ==
    g = [i \in 0..m |->
           IF i = 0 THEN [pos |-> Nil, out |-> <<>>] ELSE SimulateBar(g[i - 1], i, series[i], seen[i], r)]

\* There is such a simulation, and it is the one of Troglodyte.
LEMMA SimulationExists ==
    ASSUME NEW series, NEW seen, NEW r, Length \in Nat
    PROVE  \E g : Simulates(g, series, seen, r)
<1> DEFINE S == {m \in Nat : \E g : SimulatesFirst(g, series, seen, r, m)}
<1>1. 0 \in S
  <2> DEFINE g == [i \in 0..0 |-> [pos |-> Nil, out |-> <<>>]]
  <2>1. g = [i \in 0..0 |->
               IF i = 0 THEN [pos |-> Nil, out |-> <<>>] ELSE SimulateBar(g[i - 1], i, series[i], seen[i], r)]
    OBVIOUS
  <2> QED BY <2>1 DEF SimulatesFirst
<1>2. ASSUME NEW m \in Nat, m \in S PROVE m + 1 \in S
  <2>1. PICK g : SimulatesFirst(g, series, seen, r, m)
    BY <1>2
  <2> DEFINE h == [i \in 0..(m + 1) |->
                     IF i = m + 1 THEN SimulateBar(g[m], m + 1, series[m + 1], seen[m + 1], r) ELSE g[i]]
  <2>2. ASSUME NEW i \in 0..(m + 1)
        PROVE  h[i] = IF i = 0 THEN [pos |-> Nil, out |-> <<>>]
                      ELSE SimulateBar(h[i - 1], i, series[i], seen[i], r)
    <3>1. CASE i = m + 1
      <4>1. i # 0 /\ i - 1 = m /\ h[m] = g[m] /\ h[i] = SimulateBar(g[m], m + 1, series[m + 1], seen[m + 1], r)
        BY <3>1
      <4> QED BY <3>1, <4>1
    <3>2. CASE i # m + 1
      <4>1. i \in 0..m /\ h[i] = g[i]
        BY <3>2
      <4>2. g[i] = IF i = 0 THEN [pos |-> Nil, out |-> <<>>] ELSE SimulateBar(g[i - 1], i, series[i], seen[i], r)
        BY <2>1, <4>1 DEF SimulatesFirst
      <4>3. i # 0 => h[i - 1] = g[i - 1]
        BY <4>1
      <4> QED BY <4>1, <4>2, <4>3
    <3> QED BY <3>1, <3>2
  <2>3. h = [i \in 0..(m + 1) |-> h[i]]
    OBVIOUS
  <2> HIDE DEF h
  <2>4. SimulatesFirst(h, series, seen, r, m + 1)
    BY <2>2, <2>3 DEF SimulatesFirst
  <2> QED BY <2>4
<1> HIDE DEF S
<1>3. Nat \subseteq S
  BY <1>1, <1>2, SetInduction
<1>4. Length \in S
  BY <1>3
<1> QED BY <1>4 DEF S, SimulatesFirst, Simulates

LEMMA SimulationIs ==
    ASSUME NEW series, NEW seen, NEW r, Length \in Nat
    PROVE  Simulates(Simulation(series, seen, r), series, seen, r)
<1> DEFINE g == CHOOSE x : x = [i \in 0..Length |->
             IF i = 0 THEN [pos |-> Nil, out |-> <<>>] ELSE SimulateBar(x[i - 1], i, series[i], seen[i], r)]
<1>1. \E x : x = [i \in 0..Length |->
             IF i = 0 THEN [pos |-> Nil, out |-> <<>>] ELSE SimulateBar(x[i - 1], i, series[i], seen[i], r)]
  <2>1. PICK x : Simulates(x, series, seen, r)
    BY SimulationExists
  <2> QED BY <2>1 DEF Simulates
<1>2. Simulates(g, series, seen, r)
  BY <1>1 DEF Simulates
<1>3. Simulation(series, seen, r) = g
  BY DEF Simulation
<1> QED BY <1>2, <1>3

\* One bar more.
LEMMA SimulationGrows ==
    ASSUME NEW series, NEW seen, NEW r, Length \in Nat
    PROVE  /\ Simulation(series, seen, r)[0] = [pos |-> Nil, out |-> <<>>]
           /\ \A i \in 1..Length : Simulation(series, seen, r)[i] = SimulateBar(Simulation(series, seen, r)[i - 1], i, series[i], seen[i], r)
<1>1. PICK g : g = Simulation(series, seen, r)
  OBVIOUS
<1>2. Simulates(g, series, seen, r)
  BY <1>1, SimulationIs
<1>3. g[0] = [pos |-> Nil, out |-> <<>>]
  BY <1>2 DEF Simulates
<1>4. ASSUME NEW i \in 1..Length PROVE g[i] = SimulateBar(g[i - 1], i, series[i], seen[i], r)
  <2>1. i \in 0..Length /\ i # 0
    OBVIOUS
  <2> QED BY <1>2, <2>1 DEF Simulates
<1> QED BY <1>1, <1>3, <1>4

\* A sequence that grows by one element, or by none.
LEMMA Appended ==
    ASSUME NEW S, NEW s \in Seq(S), NEW e
    PROVE  /\ Append(s, e) = s \o <<e>> /\ s = s \o <<>>
           /\ \A T : S \subseteq T /\ e \in T => Append(s, e) \in Seq(T)
           /\ \A T : S \subseteq T => s \in Seq(T)
<1>1. s = s \o <<>>
  OBVIOUS
<1>2. \A T : S \subseteq T => s \in Seq(T)
  OBVIOUS
<1>3. \A T : S \subseteq T /\ e \in T => Append(s, e) \in Seq(T)
  BY <1>2
<1>4. Append(s, e) = s \o <<e>>
  BY <1>3
<1> QED BY <1>1, <1>2, <1>3, <1>4

\* What the engine holds and has made so far is what the simulation has at the bar.
TroglodyteInv ==
    /\ here \in 1..(Length + 1)
    /\ rule # NoModel => Len(prices) = Length
    /\ here = 1 => holding = Nil /\ rounds = <<>>
    /\ here > 1 => /\ rule # NoModel
                 /\ Simulation(prices, states, rule)[here - 1] = [pos |-> holding, out |-> rounds]
    /\ holding # Nil => holding.side \in {"BUY", "SELL"}
    /\ \E S : rounds \in Seq(S)

LEMMA TroglodyteInitial == TroglodyteInit => TroglodyteInv
<1> SUFFICES ASSUME TroglodyteInit PROVE TroglodyteInv
  OBVIOUS
<1>1. rounds \in Seq({})
  BY DEF TroglodyteInit
<1> QED BY <1>1, TroglodyteAssumption DEF TroglodyteInit, TroglodyteInv

LEMMA ObserveKeeps ==
    ASSUME TroglodyteInv, NEW bar \in Candles, NEW z \in Slopes, NEW atr \in Atrs,
           Observe(bar, z, atr)
    PROVE  TroglodyteInv'
<1>1. rule = NoModel /\ here = 1
  BY TroglodyteAssumption DEF Observe, TroglodyteInv
<1>2. UNCHANGED <<rule, here, holding, rounds>>
  BY DEF Observe
<1> QED BY <1>1, <1>2 DEF TroglodyteInv

LEMMA TrainKeeps ==
    ASSUME TroglodyteInv, Train
    PROVE  TroglodyteInv'
<1>1. here = 1 /\ Len(prices) = Length
  BY DEF Train, TroglodyteInv
<1>2. UNCHANGED <<prices, here, holding, rounds>>
  BY DEF Train
<1> QED BY <1>1, <1>2 DEF TroglodyteInv

\* What follows a stop, in the simulation.
Decides(i, state) == state.z # Nil /\ i # Length
SimLeaves(open, i, state, r) ==
    LET d == Decision(state, r)
    IN /\ open # Nil
       /\ \/ i = Length
          \/ /\ Decides(i, state)
             /\ \/ d.action \in Rules!EntrySignals /\ Rules!EntrySide(d.action) # Side(open)
                \/ Rules!Closes(d.action, open.side)
SimEnters(open, i, state, r) ==
    open = Nil /\ Decides(i, state) /\ Decision(state, r).action \in Rules!EntrySignals

\* The engine's: OnBar's answer, then the reversal rule.
AnswerTo(state, r) ==
    IF state.z = Nil THEN [action |-> "HOLD", stop |-> 0] ELSE Decision(state, r)
ActionOn(open, state, r) == Rules!ApplyReversal(AnswerTo(state, r).action, Side(open))
EngineLeaves(open, i, state, r) ==
    open # Nil /\ (i = Length \/ Rules!Closes(ActionOn(open, state, r), open.side))
EngineEnters(open, i, state, r) ==
    open = Nil /\ i # Length /\ ActionOn(open, state, r) \in Rules!EntrySignals

\* Both leave and enter at the same bars.
LEMMA SameExits ==
    ASSUME NEW open, open # Nil => open.side \in {"BUY", "SELL"}, NEW i, NEW state, NEW r
    PROVE  /\ EngineLeaves(open, i, state, r) <=> SimLeaves(open, i, state, r)
           /\ EngineEnters(open, i, state, r) <=> SimEnters(open, i, state, r)
           /\ SimEnters(open, i, state, r) => AnswerTo(state, r) = Decision(state, r)
<1>1. PICK d : d = AnswerTo(state, r)
  OBVIOUS
<1>2. PICK action : action = ActionOn(open, state, r)
  OBVIOUS
<1>3. action = Rules!ApplyReversal(d.action, Side(open))
  BY <1>1, <1>2 DEF ActionOn
<1>4. /\ EngineLeaves(open, i, state, r)
           <=> open # Nil /\ (i = Length \/ Rules!Closes(action, open.side))
      /\ EngineEnters(open, i, state, r)
           <=> open = Nil /\ i # Length /\ action \in Rules!EntrySignals
  BY <1>2 DEF EngineLeaves, EngineEnters
<1>5. CASE state.z = Nil
  <2>1. d.action = "HOLD"
    BY <1>1, <1>5 DEF AnswerTo
  <2>2. action = "HOLD"
    BY <1>3, <2>1 DEF Rules!ApplyReversal, Rules!EntrySignals
  <2> QED BY <1>4, <1>5, <2>2 DEF SimLeaves, SimEnters, Decides, Rules!Closes, Rules!EntrySignals
<1>6. CASE state.z # Nil
  <2>1. d = Decision(state, r)
    BY <1>1, <1>6 DEF AnswerTo
  <2>2. PICK a : a = d.action
    OBVIOUS
  <2>3. CASE open = Nil
    <3>1. action = a
      BY <1>3, <2>2, <2>3 DEF Rules!ApplyReversal, Side
    <3> QED BY <1>1, <1>4, <1>6, <2>1, <2>2, <2>3, <3>1 DEF SimLeaves, SimEnters, Decides
  <2>4. CASE open # Nil
    <3>1. Side(open) = open.side /\ open.side # Rules!Flat
      BY <2>4 DEF Side, Rules!Flat
    <3>2. Rules!Closes(action, open.side)
            <=> \/ a \in Rules!EntrySignals /\ Rules!EntrySide(a) # open.side
                \/ Rules!Closes(a, open.side)
      BY <1>3, <2>2, <2>4, <3>1 DEF Rules!ApplyReversal, Rules!Closes, Rules!EntrySignals,
           Rules!EntrySide, Rules!Flat
    <3> QED BY <1>1, <1>4, <1>6, <2>1, <2>2, <2>4, <3>1, <3>2 DEF SimLeaves, SimEnters, Decides
  <2> QED BY <2>3, <2>4
<1> QED BY <1>5, <1>6

\* A bar of the engine is the same bar of the simulation.
LEMMA SameBar ==
    ASSUME TroglodyteInv, ReplayBar
    PROVE  /\ [pos |-> holding', out |-> rounds']
                = SimulateBar([pos |-> holding, out |-> rounds], here, prices[here], states[here], rule)
           /\ holding' # Nil => holding'.side \in {"BUY", "SELL"}
           /\ \E S : rounds' \in Seq(S)
<1> DEFINE bar == prices[here]
           state == states[here]
           stop == holding # Nil /\ Stopped(holding, bar)
           open == IF stop THEN Nil ELSE holding
           d == IF state.z = Nil THEN [action |-> "HOLD", stop |-> 0] ELSE Decision(state, rule)
           action == Rules!ApplyReversal(d.action, Side(open))
           leaves == open # Nil /\ (here = Length \/ Rules!Closes(action, open.side))
           enters == open = Nil /\ here # Length /\ action \in Rules!EntrySignals
           level == SimulatedStop(holding.side, holding.stop, bar)
           stops == IF stop THEN <<Closed(holding, here, level)>> ELSE <<>>
           quits == IF leaves THEN <<Closed(open, here, bar.close)>> ELSE <<>>
           afterStop == IF stop THEN Append(rounds, Closed(holding, here, BarrierPrice(holding, bar)))
                        ELSE rounds
<1>1. holding # Nil => holding.side \in {"BUY", "SELL"}
  BY DEF TroglodyteInv
<1>2. open # Nil => open = holding /\ open.side \in {"BUY", "SELL"}
  BY <1>1
<1>3. /\ rounds' = IF leaves THEN Append(afterStop, Closed(open, here, bar.close)) ELSE afterStop
      /\ holding' = IF enters THEN Opened(here, bar.close, d) ELSE IF leaves THEN Nil ELSE open
  BY DEF ReplayBar, Signalled
<1>4. /\ leaves <=> SimLeaves(open, here, state, rule)
      /\ enters <=> SimEnters(open, here, state, rule)
      /\ enters => d = Decision(state, rule)
  <2>1. PICK o : o = open
    OBVIOUS
  <2>2. o # Nil => o.side \in {"BUY", "SELL"}
    BY <1>2, <2>1
  <2>3. PICK t : t = state
    OBVIOUS
  <2>4. /\ EngineLeaves(o, here, t, rule) <=> SimLeaves(o, here, t, rule)
        /\ EngineEnters(o, here, t, rule) <=> SimEnters(o, here, t, rule)
        /\ SimEnters(o, here, t, rule) => AnswerTo(t, rule) = Decision(t, rule)
    BY <2>2, SameExits
  <2>5. AnswerTo(t, rule) = d /\ ActionOn(o, t, rule) = action
    BY <2>1, <2>3 DEF AnswerTo, ActionOn
  <2>6. /\ leaves <=> EngineLeaves(o, here, t, rule)
        /\ enters <=> EngineEnters(o, here, t, rule)
    BY <2>1, <2>5 DEF EngineLeaves, EngineEnters
  <2> QED BY <2>1, <2>3, <2>4, <2>5, <2>6
<1>5. stop => BarrierPrice(holding, bar) = level
  BY <1>1 DEF BarrierPrice, SimulatedStop
<1>6. PICK S : rounds \in Seq(S)
  BY DEF TroglodyteInv
<1>7. PICK e : e = Closed(holding, here, level)
  OBVIOUS
<1>8. PICK q : q = Closed(open, here, bar.close)
  OBVIOUS
<1>9. afterStop = rounds \o stops
  <2>1. CASE stop
    <3>1. afterStop = Append(rounds, e) /\ stops = <<e>>
      BY <1>5, <1>7, <2>1
    <3> QED BY <1>6, <3>1, Appended
  <2>2. CASE ~stop
    <3>1. afterStop = rounds /\ stops = <<>>
      BY <2>2
    <3> QED BY <1>6, <3>1, Appended
  <2> QED BY <2>1, <2>2
<1>10. PICK after : after = afterStop
  OBVIOUS
<1>11. after \in Seq(S \cup {e, q})
  <2>1. CASE stop
    <3>1. after = Append(rounds, e)
      BY <1>5, <1>7, <1>10, <2>1
    <3> QED BY <1>6, <3>1, Appended
  <2>2. CASE ~stop
    <3>1. after = rounds
      BY <1>10, <2>2
    <3> QED BY <1>6, <3>1, Appended
  <2> QED BY <2>1, <2>2
<1>12. rounds' = after \o quits /\ rounds' \in Seq(S \cup {e, q})
  <2>1. CASE leaves
    <3>1. rounds' = Append(after, q) /\ quits = <<q>>
      BY <1>3, <1>8, <1>10, <2>1
    <3>2. Append(after, q) \in Seq(S \cup {e, q})
      BY <1>11, Appended
    <3> QED BY <1>11, <3>1, <3>2, Appended
  <2>2. CASE ~leaves
    <3>1. rounds' = after /\ quits = <<>>
      BY <1>3, <1>10, <2>2
    <3> QED BY <1>11, <3>1, Appended
  <2> QED BY <2>1, <2>2
<1>13. rounds' = rounds \o stops \o quits
  BY <1>9, <1>10, <1>12
<1>14. holding' # Nil => holding'.side \in {"BUY", "SELL"}
  <2>1. enters => holding'.side \in {"BUY", "SELL"}
    BY <1>3 DEF Opened, Rules!EntrySide
  <2> QED BY <1>2, <1>3, <2>1
<1>15. holding' = IF SimEnters(open, here, state, rule) THEN Opened(here, bar.close, Decision(state, rule))
                  ELSE IF SimLeaves(open, here, state, rule) THEN Nil ELSE open
  BY <1>3, <1>4
<1>16. quits = IF SimLeaves(open, here, state, rule) THEN <<Closed(open, here, bar.close)>> ELSE <<>>
  BY <1>4
<1> DEFINE sim == [pos |-> holding, out |-> rounds]
<1>17. SimulateBar(sim, here, bar, state, rule)
         = [pos |-> IF SimEnters(open, here, state, rule)
                    THEN Opened(here, bar.close, Decision(state, rule))
                    ELSE IF SimLeaves(open, here, state, rule) THEN Nil ELSE open,
            out |-> rounds \o stops \o (IF SimLeaves(open, here, state, rule)
                                        THEN <<Closed(open, here, bar.close)>> ELSE <<>>)]
  BY DEF SimulateBar, SimEnters, SimLeaves, Decides
<1>18. [pos |-> holding', out |-> rounds'] = SimulateBar(sim, here, bar, state, rule)
  <2> HIDE DEF open, state, bar, stops, quits, sim
  <2> QED BY <1>13, <1>15, <1>16, <1>17
<1> QED BY <1>12, <1>14, <1>18

LEMMA ReplayKeeps ==
    ASSUME TroglodyteInv, ReplayBar
    PROVE  TroglodyteInv'
<1>1. /\ here \in 1..Length /\ here' = here + 1 /\ rule # NoModel
      /\ UNCHANGED <<prices, states, rule>>
  BY TroglodyteAssumption DEF ReplayBar, TroglodyteInv
<1>2. Simulation(prices, states, rule)[here - 1] = [pos |-> holding, out |-> rounds]
  <2>1. CASE here = 1
    <3>1. Simulation(prices, states, rule)[0] = [pos |-> Nil, out |-> <<>>]
      BY SimulationGrows, TroglodyteAssumption
    <3> QED BY <2>1, <3>1 DEF TroglodyteInv
  <2>2. CASE here > 1
    BY <2>2 DEF TroglodyteInv
  <2> QED BY <1>1, <2>1, <2>2
<1>3. Simulation(prices, states, rule)[here]
        = SimulateBar([pos |-> holding, out |-> rounds], here, prices[here], states[here], rule)
  BY <1>1, <1>2, SimulationGrows, TroglodyteAssumption
<1>4. /\ Simulation(prices, states, rule)[here] = [pos |-> holding', out |-> rounds']
      /\ holding' # Nil => holding'.side \in {"BUY", "SELL"}
      /\ \E S : rounds' \in Seq(S)
  BY <1>3, SameBar
<1>5. Simulation(prices, states, rule)' = Simulation(prices, states, rule)
  BY <1>1
<1>6. here' \in 1..(Length + 1) /\ here' - 1 = here /\ here' # 1
  BY <1>1, TroglodyteAssumption
<1>7. rule' # NoModel /\ Len(prices') = Length
  BY <1>1 DEF TroglodyteInv
<1>8. Simulation(prices, states, rule)'[here' - 1] = [pos |-> holding', out |-> rounds']
  BY <1>4, <1>5, <1>6
<1> QED BY <1>4, <1>6, <1>7, <1>8 DEF TroglodyteInv

LEMMA TroglodyteStep == TroglodyteInv /\ [TroglodyteNext]_troglodyteVars => TroglodyteInv'
<1> SUFFICES ASSUME TroglodyteInv, [TroglodyteNext]_troglodyteVars PROVE TroglodyteInv'
  OBVIOUS
<1>1. CASE \E bar \in Candles, z \in Slopes, atr \in Atrs : Observe(bar, z, atr)
  BY <1>1, ObserveKeeps
<1>2. CASE Train
  BY <1>2, TrainKeeps
<1>3. CASE ReplayBar
  BY <1>3, ReplayKeeps
<1>4. CASE UNCHANGED troglodyteVars
  BY <1>4 DEF troglodyteVars, TroglodyteInv
<1> QED BY <1>1, <1>2, <1>3, <1>4 DEF TroglodyteNext

\* The engine makes the very trades on which the calibration has chosen the rule,
\* for every series, every slope and ATR, and every rule it may have chosen: the
\* loop of calibrate.go is the one of the backtest.
THEOREM TradesAreThoseSimulated == TroglodyteSpec => []SimulationIsBacktest
<1>1. TroglodyteInv => SimulationIsBacktest
  <2> SUFFICES ASSUME TroglodyteInv, here > Length
               PROVE  rounds = SimulateTrades(prices, states, rule)
    BY DEF SimulationIsBacktest
  <2>1. here = Length + 1
    BY TroglodyteAssumption DEF TroglodyteInv
  <2>2. CASE Length = 0
    <3>1. Simulation(prices, states, rule)[0] = [pos |-> Nil, out |-> <<>>]
      BY SimulationGrows, TroglodyteAssumption
    <3> QED BY <2>1, <2>2, <3>1 DEF TroglodyteInv, SimulateTrades
  <2>3. CASE Length > 0
    BY <2>1, <2>3, TroglodyteAssumption DEF TroglodyteInv, SimulateTrades
  <2> QED BY <2>2, <2>3, TroglodyteAssumption
<1> QED BY <1>1, TroglodyteInitial, TroglodyteStep, PTL DEF TroglodyteSpec
=============================================================================

------------------------------- MODULE Backtest -------------------------------
(***************************************************************************)
(* The backtest of one symbol (internal/backtest/engine.go, Run).  The     *)
(* loop of the code is two steps per bar: what closes the position without *)
(* asking the strategy, then the decision at the close of the bar.         *)
(*                                                                         *)
(* The account is kept in the pair's quote currency: a price difference is *)
(* an amount of the account.  The bars before `From` only warm the         *)
(* strategy up and are left out.  An error of the strategy abandons the    *)
(* run and its result: it is left out too.                                 *)
(***************************************************************************)
EXTENDS Labels, TradingRules

CONSTANTS
    Symbol,            \* the symbol replayed
    Histories,         \* the times the bars may have
    Bars,              \* the prices a bar may have
    Capital,           \* backtest.initial_capital
    Leverage,          \* backtest.leverage
    CostPerSide,       \* half the median spread, plus the commission
    Distance,          \* from the entry to each barrier, as in the label
    RiskPct,           \* risk.risk_per_trade_pct
    FixedSize,         \* the size of an entry that is not sized by risk
    MaxSize,           \* risk.max_position_size
    HoldsOverWeekend,  \* Description.HoldsOverWeekend
    UsesNews,          \* Description.UsesNews, with a news source wired in
    None

ASSUME BacktestAssumption ==
    /\ Symbols = {Symbol}
    /\ Histories \subseteq Seq(Nat)
    /\ \A h \in Histories : \A i, j \in 1..Len(h) : i < j => h[i] < h[j]
    /\ Bars \subseteq OHLC
    /\ \A b \in Bars : /\ b.low <= b.open /\ b.open <= b.high
                       /\ b.low <= b.close /\ b.close <= b.high
                       /\ Distance < b.close
    /\ {Capital, CostPerSide} \subseteq Nat
    /\ {Leverage, Distance, FixedSize, MaxSize} \subseteq Nat \ {0}
    /\ RiskPct \in Nat /\ (RiskSized <=> RiskPct > 0)
    /\ {HoldsOverWeekend, UsesNews} \subseteq BOOLEAN

\* Why a position closes at a bar, and at which price.
Exits == [price : Int, reason : {"sl", "tp", "time", "weekend", "final"}]

\* The simulated position: the bar it was entered at, and the cost of the entry.
Positions == [side : Sides, quantity : Nat \ {0}, price : Nat, at : Nat \ {0}, cost : Nat]

ASSUME NoneAssumption == None \notin Exits \cup Positions

VARIABLES
    times,    \* the starts of the bars of the series
    bars,     \* the prices of the bars read so far
    stage,    \* "exits": the next bar is to be read; "decide": at its close
    pos,      \* the simulated position, or None
    cash,     \* the account without the position
    costs,    \* the costs paid, on both sides
    trades,   \* the round trips
    refused   \* entries refused for want of margin

vars == <<times, bars, stage, pos, cash, costs, trades, refused>>

Now == Len(bars)
Bar == bars[Now]

Init ==
    /\ times \in Histories
    /\ bars = << >>
    /\ stage = "exits"
    /\ pos = None
    /\ cash = Capital
    /\ costs = 0
    /\ trades = << >>
    /\ refused = 0

\* position.unrealized
Unrealized(p, price) ==
    p.quantity * (IF p.side = "BUY" THEN price - p.price ELSE p.price - price)

\* No strategy that closes for the week-end decides on the last bar of a week.
WeekEnd(i) == ~HoldsOverWeekend /\ LastOfWeek(times, i)

-----------------------------------------------------------------------------
(* Exits the strategy does not decide *)

\* A limit looked at first.
CheckBarriersLimitFirst(p, bar) ==
    LET hi == p.price + Distance
        lo == p.price - Distance
    IN CASE ~Barriers                            -> None
         [] p.side = "BUY" /\ bar.high >= hi     -> [price |-> hi, reason |-> "tp"]
         [] p.side = "SELL" /\ bar.low <= lo     -> [price |-> lo, reason |-> "tp"]
         [] p.side = "BUY" /\ bar.low <= lo      -> [price |-> Min({lo, bar.open}), reason |-> "sl"]
         [] p.side = "SELL" /\ bar.high >= hi    -> [price |-> Max({hi, bar.open}), reason |-> "sl"]
         [] OTHER                                -> None

\* checkBarriers: the stop, which becomes a market order and pays the gap, then
\* the limit, filled at its price.
CheckBarriers(p, bar) ==
    LET long == p.side = "BUY"
        stop == IF long THEN p.price - Distance ELSE p.price + Distance
        limit == IF long THEN p.price + Distance ELSE p.price - Distance
        stopped == IF long THEN bar.low <= stop ELSE bar.high >= stop
        reached == IF long THEN bar.high >= limit ELSE bar.low <= limit
    IN CASE Barriers /\ stopped ->
              [reason |-> "sl",
               price |-> IF long THEN Min({stop, bar.open}) ELSE Max({stop, bar.open})]
         [] Barriers /\ ~stopped /\ reached -> [reason |-> "tp", price |-> limit]
         [] OTHER -> None

\* Steps 1 to 3 of the loop: the first reason to close the position on bar i.
\* `forcedExit` adds nothing: step 4 leaves the same bars out.
ForcedExit(bar, i) ==
    CASE CheckBarriers(pos, bar) # None -> CheckBarriers(pos, bar)
      [] /\ CheckBarriers(pos, bar) = None
         /\ HoldExpired(times[i], times[pos.at]) ->
           [price |-> bar.close, reason |-> "time"]
      [] /\ CheckBarriers(pos, bar) = None
         /\ ~HoldExpired(times[i], times[pos.at])
         /\ WeekEnd(i) \/ i = Len(times) ->
           [price |-> bar.close, reason |-> IF i = Len(times) THEN "final" ELSE "weekend"]
      [] OTHER -> None

\* closePosition: the trade, net of the costs of both sides.
ClosePosition(price, reason, i) ==
    LET exitCost == pos.quantity * CostPerSide IN
    [side |-> pos.side, quantity |-> pos.quantity, entry |-> pos.at, exit |-> i,
     entryPrice |-> pos.price, price |-> price, reason |-> reason,
     pnl |-> Unrealized(pos, price) - exitCost - pos.cost,
     cost |-> exitCost + pos.cost]

\* The cash receives the trade's net result: the entry's cost leaves it twice.
LiquidateNet(price, reason, i) ==
    LET trade == ClosePosition(price, reason, i) IN
    /\ cash' = cash + trade.pnl
    /\ costs' = costs + trade.cost - pos.cost
    /\ trades' = Append(trades, trade)
    /\ pos' = None

\* liquidate: the cost of the entry has left the cash when it opened.
Liquidate(price, reason, i) ==
    LET trade == ClosePosition(price, reason, i) IN
    /\ cash' = cash + trade.pnl + pos.cost
    /\ costs' = costs + trade.cost - pos.cost
    /\ trades' = Append(trades, trade)
    /\ pos' = None

Keep == UNCHANGED <<pos, cash, costs, trades>>

\* A week-end that closes positions and still decides on its last bar.
ReadBarWeekEndDecides(bar) ==
    LET i == Now + 1
        exit == IF pos = None THEN None ELSE ForcedExit(bar, i)
    IN
    /\ stage = "exits" /\ i <= Len(times)
    /\ bars' = Append(bars, bar)
    /\ IF exit = None THEN Keep ELSE Liquidate(exit.price, exit.reason, i)
    /\ stage' = IF i = Len(times) THEN "exits" ELSE "decide"
    /\ UNCHANGED <<times, refused>>

\* A last bar of the series that still decides.
ReadBarLastDecides(bar) ==
    LET i == Now + 1
        exit == IF pos = None THEN None ELSE ForcedExit(bar, i)
    IN
    /\ stage = "exits" /\ i <= Len(times)
    /\ bars' = Append(bars, bar)
    /\ IF exit = None THEN Keep ELSE Liquidate(exit.price, exit.reason, i)
    /\ stage' = IF WeekEnd(i) THEN "exits" ELSE "decide"
    /\ UNCHANGED <<times, refused>>

\* A bar of the loop, up to the decision it may call for.
ReadBar(bar) ==
    LET i == Now + 1
        exit == IF pos = None THEN None ELSE ForcedExit(bar, i)
    IN
    /\ stage = "exits" /\ i <= Len(times)
    /\ bars' = Append(bars, bar)
    /\ IF exit = None THEN Keep ELSE Liquidate(exit.price, exit.reason, i)
    /\ stage' = IF WeekEnd(i) \/ i = Len(times) THEN "exits" ELSE "decide"
    /\ UNCHANGED <<times, refused>>

-----------------------------------------------------------------------------
(* The decision at the close of the bar *)

Open == [s \in Symbols |-> IF pos = None THEN Flat ELSE pos.side]

\* The value of the account at the close.
Equity == cash + (IF pos = None THEN 0 ELSE Unrealized(pos, Bar.close))

\* A size computed once, on the initial capital.
BudgetSizeInitial == (Capital * RiskPct) \div (100 * Distance)

\* sizeByRisk: the units whose loss at the stop fits the budget.
BudgetSize == IF Equity > 0 THEN (Equity * RiskPct) \div (100 * Distance) ELSE 0

\* Evaluate's size, capped.
Size == Min({MaxSize, IF RiskSized THEN BudgetSize ELSE FixedSize})

\* The account is always there; the day's loss is not modelled by the code.
AccountAnswer == IF RiskSized /\ BudgetSize < 1 THEN "unsizable" ELSE "ok"

\* The strategy says sig; `blocked` is the news gate's verdict on an entry.
Signal(sig, blocked) ==
    LET applied == ApplyReversal(sig, Open[Symbol])
    IN IF UsesNews /\ blocked /\ applied \in EntrySignals /\ pos = None
       THEN None ELSE applied

Accepted(sig) == sig # None /\ Accepts(Symbol, sig, Open, AccountAnswer)

\* No order, or an entry on top of the position, which the engine ignores.
Abstain ==
    /\ stage = "decide"
    /\ stage' = "exits"
    /\ Keep
    /\ UNCHANGED <<times, bars, refused>>

\* A signal exit, or a reversal, at the close.
Exit(sig, blocked) ==
    LET applied == Signal(sig, blocked) IN
    /\ stage = "decide" /\ pos # None
    /\ Accepted(applied) /\ applied \in ExitSignals
    /\ Liquidate(Bar.close, IF sig \in EntrySignals THEN "reversal" ELSE "signal", Now)
    /\ stage' = "exits"
    /\ UNCHANGED <<times, bars, refused>>

\* An entry at the close, unless its margin exceeds the cash.
Enter(sig, blocked) ==
    LET applied == Signal(sig, blocked)
        price == Bar.close
        cost == Size * CostPerSide
    IN
    /\ stage = "decide" /\ pos = None
    /\ Accepted(applied) /\ applied \in EntrySignals
    /\ IF Size * price > cash * Leverage
       THEN refused' = refused + 1 /\ Keep
       ELSE /\ cash' = cash - cost
            /\ costs' = costs + cost
            /\ pos' = [side |-> EntrySide(applied), quantity |-> Size,
                       price |-> price, at |-> Now, cost |-> cost]
            /\ UNCHANGED <<trades, refused>>
    /\ stage' = "exits"
    /\ UNCHANGED <<times, bars>>

Decide ==
    \/ Abstain
    \/ \E sig \in Signals, blocked \in BOOLEAN : Exit(sig, blocked) \/ Enter(sig, blocked)

Next == (\E bar \in Bars : ReadBar(bar)) \/ Decide

Spec == Init /\ [][Next]_vars

-----------------------------------------------------------------------------
(* Properties *)

Trades == [side : Sides, quantity : Nat \ {0}, entry : Nat \ {0}, exit : Nat \ {0},
           entryPrice : Nat, price : Int, pnl : Int, cost : Nat,
           reason : {"sl", "tp", "time", "weekend", "final", "signal", "reversal"}]

\* The variables have their types.
TypeOK ==
    /\ times \in Histories
    /\ bars \in Seq(Bars) /\ Now <= Len(times)
    /\ stage \in {"exits", "decide"}
    /\ pos \in Positions \cup {None}
    /\ cash \in Int /\ costs \in Nat /\ refused \in Nat
    /\ trades \in Seq(Trades)

Finished == stage = "exits" /\ Now = Len(times)

\* The sum of the first k values of f.
Total(f, k) ==
    LET sum[n \in 0..k] == IF n = 0 THEN 0 ELSE sum[n - 1] + f[n]
    IN  sum[k]

NetPnL(k) == Total([i \in 1..Len(trades) |-> trades[i].pnl], k)

\* The cash is the capital plus the result of every round trip, less the cost of
\* the open entry: no cost leaves it twice (liquidate's comment), and the costs
\* announced are those the trades carry.
CashReconciles ==
    LET open == IF pos = None THEN 0 ELSE pos.cost IN
    /\ cash = Capital + NetPnL(Len(trades)) - open
    /\ costs = open + Total([i \in 1..Len(trades) |-> trades[i].cost], Len(trades))

\* The label of a bar is what the engine delivers to a trade opened there
\* (label.Sided's comment): same bar, same barrier, same gain, same verdict on
\* the net result, for every trade the strategy does not close itself; and a
\* trade cut by the end of the series has no label.
LabelIsDelivered ==
    Finished /\ Barriers /\ ~HoldsOverWeekend =>
        \A k \in 1..Len(trades) :
            LET trade == trades[k]
                label == Sided(times, bars, trade.entry, trade.side, Distance)
                cause == IF trade.reason = "weekend" THEN "time" ELSE trade.reason
            IN
            /\ trade.reason \in {"time", "weekend"} => label # Undefined
            /\ trade.reason = "final" => label = Undefined
            /\ cause \in {"sl", "tp", "time"} /\ label # Undefined =>
                  /\ label.exit = trade.exit /\ label.which = cause
                  /\ label.gain * trade.quantity = trade.pnl + trade.cost
                  /\ Wins(label, 2 * CostPerSide) <=> trade.pnl > 0

\* A strategy that does not hold over the week-end carries nothing from one week
\* into the next, entered and closed by whichever rule.
OutBeforeTheWeekend ==
    ~HoldsOverWeekend =>
        /\ pos # None => WeekOf(times[pos.at]) = WeekOf(times[Now])
        /\ \A k \in 1..Len(trades) :
              WeekOf(times[trades[k].entry]) = WeekOf(times[trades[k].exit])

\* One position at a time and nothing left: the round trips follow one another,
\* each ends on a later bar than it began, and none is open at the end.
TradesFollow ==
    /\ \A k \in 1..Len(trades) :
          /\ trades[k].entry < trades[k].exit
          /\ k > 1 => trades[k - 1].exit <= trades[k].entry
    /\ Finished => pos = None

\* No exit is filled better than the best price its bar has shown.
NeverBetterThanTheMarket ==
    \A k \in 1..Len(trades) :
        LET trade == trades[k]
            bar == bars[trade.exit]
        IN IF trade.side = "BUY" THEN trade.price <= bar.high ELSE trade.price >= bar.low

\* A trade ends as the label of its entry says, and no exit is filled better than
\* the best price its bar has shown (sided.go; checkBarriers).
FillsAreHonest == LabelIsDelivered /\ NeverBetterThanTheMarket

\* The loss at the stop of a trade sized by risk fits the account as the journal
\* gives it at its entry.
SizedOnTheJournal ==
    RiskSized => \A k \in 1..Len(trades) :
        100 * Distance * trades[k].quantity <= RiskPct * (Capital + NetPnL(k - 1))
=============================================================================

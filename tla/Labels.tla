-------------------------------- MODULE Labels --------------------------------
(***************************************************************************)
(* The training target of the strategies (internal/label): what a trade    *)
(* opened at the close of bar t would have become.  `times` holds the      *)
(* starts of the bars of a series and `bars` their prices.                 *)
(***************************************************************************)
EXTENDS MarketTime, Integers, Sequences, FiniteSetsExt

CONSTANT Undefined    \* no label: the window of the bar is not complete

\* A label: the bar that ends the trade, what ends it and the gain of one unit.
LabelValues == [exit : Nat, which : {"time", "sl", "tp"}, gain : Int]

ASSUME UndefinedAssumption == Undefined \notin Nat \cup LabelValues

\* Prices are integers, in units of the smallest price change.
OHLC == [open : Nat, high : Nat, low : Nat, close : Nat]

\* The history has no bar on Saturday or Sunday (data.IsWeekend): an ISO week
\* holds the same bars as the week that ends at the weekly close.
WeekOf(t) == t \div Week

\* LastBarsOfWeek: the next bar is of another week.  The last bar of the series
\* is not one: nobody knows yet whether the week goes on.
LastOfWeek(times, i) == i < Len(times) /\ WeekOf(times[i]) # WeekOf(times[i + 1])

\* ExecutionWindow's cursor on the vertical barrier: the first bar after t whose
\* deadline has expired, searched from where the bar before left it.
ExpiryCursor(times) ==
    LET n == Len(times)
        cursor[t \in 0..n] ==
            IF t = 0 THEN 1
            ELSE IF LastOfWeek(times, t) \/ t = n THEN cursor[t - 1]
            ELSE LET from == Max({cursor[t - 1], t + 1})
                 IN Min({n + 1} \cup {j \in from..n : HoldExpired(times[j], times[t])})
    IN cursor

\* ExecutionWindow: the bar at whose close a trade opened at t ends if it touches
\* neither barrier, or Undefined.
ExecutionWindow(times) ==
    LET n == Len(times)
        cursor == ExpiryCursor(times)
        ends(t) == {j \in t + 1 .. n : LastOfWeek(times, j)}
                   \cup {j \in {cursor[t]} : MaxHold > 0 /\ j <= n}
    IN [t \in 1..n |-> IF LastOfWeek(times, t) \/ t = n \/ ends(t) = {}
                       THEN Undefined ELSE Min(ends(t))]

\* Sided, for one side: the bar that ends the trade, the barrier that ended it
\* and what one unit gained.  The stop is looked at first, and pays the gap.
Sided(times, bars, t, side, distance) ==
    LET end == ExecutionWindow(times)[t]
        entry == bars[t].close
        upper == entry + distance
        lower == entry - distance
        High(j) == bars[j].high >= upper
        Low(j) == bars[j].low <= lower
        Stopped(j) == IF side = "BUY" THEN Low(j) ELSE High(j)
        touched == {j \in t + 1 .. end : High(j) \/ Low(j)}
        exit == IF touched = {} THEN end ELSE Min(touched)
        Gain(price) == IF side = "BUY" THEN price - entry ELSE entry - price
        open == bars[exit].open
        filled == IF side = "BUY" THEN Min({lower, open}) ELSE Max({upper, open})
    IN IF end = Undefined THEN Undefined
       ELSE [exit |-> exit,
             which |-> IF touched = {} THEN "time"
                       ELSE IF Stopped(exit) THEN "sl" ELSE "tp",
             gain |-> IF touched = {} THEN Gain(bars[end].close)
                      ELSE IF Stopped(exit) THEN Gain(filled) ELSE distance]

\* set: is the trade a win, net of the cost of the round trip?
Wins(label, cost) == label.gain - cost > 0
=============================================================================

------------------------------ MODULE MarketTime ------------------------------
(***************************************************************************)
(* Exit rules that depend only on market time (internal/core/horizon.go)   *)
(* and the bucket arithmetic of a time frame.                              *)
(*                                                                         *)
(* A time is a natural number of minutes of market time: the code takes it *)
(* from the ticks, never from the machine's clock.  The weekly close       *)
(* (Friday 17:00 in New York) falls on the multiples of Week.              *)
(***************************************************************************)
EXTENDS Naturals

CONSTANTS
    Week,      \* minutes between two weekly closes
    Guard,     \* WeekendGuard: the lead taken on the weekly close
    BarLen,    \* duration of a bar of the engine's time frame
    MaxHold    \* Description.MaxHold, the vertical barrier; 0 when undeclared

ASSUME MarketTimeAssumption ==
    /\ Week \in Nat \ {0}
    /\ BarLen \in Nat \ {0}
    /\ Guard \in Nat
    /\ MaxHold \in Nat

\* Timeframe.Floor: the start of the bar that contains t.
Floor(t) == t - (t % BarLen)

\* WeeklyClose: the weekly close that follows t, or t itself when it is one.
WeeklyClose(t) == IF t % Week = 0 THEN t ELSE t - (t % Week) + Week

\* Is t inside the guard of the close that ends the week of `since`, or past it?
AtWeekEnd(t, since) == t + Guard >= WeeklyClose(since)

\* LastBarBeforeWeekend: an entry decided when this bar closes would be carried
\* through the closure.
LastBarBeforeWeekend(bar) == AtWeekEnd(bar + BarLen, bar)

\* HoldExpired over HoldDeadline: is this bar the last one to begin before the
\* deadline of a position entered at `entry`?
HoldExpired(bar, entry) == MaxHold > 0 /\ bar + BarLen > entry + MaxHold
=============================================================================

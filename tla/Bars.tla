-------------------------------- MODULE Bars --------------------------------
(***************************************************************************)
(* The bars a strategy decides on.  History is a file of one-minute bars   *)
(* per year, read and resampled to the timeframe (internal/data); live,    *)
(* ticks are aggregated to the same timeframe (internal/live/aggregator.go)*)
(* behind a buffer seeded from history (internal/live/engine.go), whether  *)
(* they come from the market or from the replay of that history            *)
(* (internal/broker/replay.go).  One symbol; time is in minutes.           *)
(***************************************************************************)
EXTENDS Integers, Sequences, FiniteSetsExt, SequencesExt, Functions, Sorting

CONSTANTS
  Timeframe,      \* minutes of a bar
  YearLen,        \* minutes of a year file
  LastMinute,     \* the market closes for good
  Quotes,         \* [bid, ask] of a tick; an ask of 0 is absent
  Delay,          \* a tick may be this many minutes late
  MaxTicks,       \* ticks of the market
  KeptBars,       \* bars kept per symbol
  NoBar

ASSUME BarsAssumption ==
  /\ {Timeframe, YearLen} \subseteq Nat \ {0}
  /\ LastMinute \in Nat
  /\ Quotes \subseteq [bid : Nat, ask : Nat]

VARIABLES
  market,     \* minute |-> the bar the supplier will publish, or NoBar
  ticks,      \* ticks the market has seen
  now,        \* the latest minute traded
  ordered,    \* no tick has come behind another since the connection
  history,    \* year |-> the file of that year
  gateway,    \* NoBar, "market" or "replay"
  feed,       \* bars the replay has still to send
  current,    \* the aggregator's open bar, or NoBar
  late,       \* ticks it has dropped
  closed,     \* bars it has closed since the connection
  buffer      \* the engine's buffer

marketVars == <<market, ticks, now>>
liveVars == <<gateway, feed, current, late, closed, buffer, ordered>>
barsVars == <<market, ticks, now, ordered, history, gateway, feed, current,
              late, closed, buffer>>

Minutes == 0..LastMinute
Years == 0..(LastMinute \div YearLen)

BarStart(t) == t - (t % Timeframe)

\* core.Bar with HasAsk: the ask side is absent as long as its close is 0.
HasAsk(bar) == bar.askClose > 0

MarketBars ==
  [time : Nat, open : Nat, high : Nat, low : Nat, close : Nat, askOpen : Nat,
   askHigh : Nat, askLow : Nat, askClose : Nat, volume : Nat]

ASSUME NoBarAssumption == NoBar \notin MarketBars

BarOf(time, tick) ==
  [time |-> time, open |-> tick.bid, high |-> tick.bid, low |-> tick.bid,
   close |-> tick.bid, askOpen |-> tick.ask, askHigh |-> tick.ask,
   askLow |-> tick.ask, askClose |-> tick.ask, volume |-> tick.volume]

Greater(a, b) == IF a > b THEN a ELSE b
Lesser(a, b) == IF a < b THEN a ELSE b

\* One bar prolonged by the next: the body of Resample's loop.
Merge(bar, next) ==
  LET bid == [bar EXCEPT
        !.high = Greater(@, next.high), !.low = Lesser(@, next.low),
        !.close = next.close, !.volume = @ + next.volume]
  IN CASE ~HasAsk(next) -> bid
       [] HasAsk(next) /\ ~HasAsk(bar) ->
            [bid EXCEPT !.askOpen = next.askOpen, !.askHigh = next.askHigh,
                        !.askLow = next.askLow, !.askClose = next.askClose]
       [] OTHER ->
            [bid EXCEPT !.askHigh = Greater(@, next.askHigh),
                        !.askLow = Lesser(@, next.askLow), !.askClose = next.askClose]

----------------------------------------------------------------------------
(* History *)

\* A bar of the file prolongs the last one made, or starts another.
Resampled(out, bar) ==
  IF out # <<>> /\ Last(out).time <= bar.time /\ bar.time < Last(out).time + Timeframe
  THEN Append(Front(out), Merge(Last(out), bar))
  ELSE Append(out, [bar EXCEPT !.time = BarStart(bar.time)])

Resample(series) ==
  LET out[i \in 0..Len(series)] ==
        IF i = 0 THEN <<>> ELSE Resampled(out[i - 1], series[i])
  IN out[Len(series)]

\* The last bar of each of these times, in their order.
Latest(series, times) ==
  LET order == InOrder(times)
  IN [k \in DOMAIN order |-> series[Max({i \in DOMAIN series : series[i].time = order[k]})]]

Times(series) == {series[i].time : i \in DOMAIN series}
Sanitize(series) == Latest(series, Times(series))

YearOf(t) == t \div YearLen

\* The year files from that of `from` on, read from that minute.
Load(from) ==
  LET files[y \in -1..(LastMinute \div YearLen)] ==
        IF y < YearOf(from) THEN <<>> ELSE files[y - 1] \o history[y]
      all == files[LastMinute \div YearLen]
  IN Latest(all, {t \in Times(all) : t >= from})

\* What the market has traded, minute by minute.
Published(minutes) ==
  LET traded == InOrder({m \in minutes : market[m] # NoBar})
  IN [k \in DOMAIN traded |-> market[traded[k]]]

MinutesOf(y) == {m \in Minutes : YearOf(m) = y}

\* A year file is written again, up to the present minute of the present day.
Download(y) ==
  /\ Published(MinutesOf(y)) # <<>>
  /\ history' = [history EXCEPT ![y] = Sanitize(Published(MinutesOf(y)))]
  /\ UNCHANGED <<marketVars, liveVars>>

----------------------------------------------------------------------------
(* Live *)

Newest(series) == SubSeq(series, Greater(1, Len(series) - KeptBars + 1), Len(series))

\* The last three buffers' time, or what is left when it holds nothing.
WarmupSeries ==
  LET recent == Resample(Load(Greater(0, now - 3 * KeptBars * Timeframe)))
  IN IF recent # <<>> THEN recent ELSE Newest(Resample(Load(0)))

ConnectFeed(g) ==
  /\ gateway = NoBar
  /\ gateway' = g
  /\ buffer' = Newest(WarmupSeries)
  /\ feed' = IF g = "replay" THEN Load(0) ELSE <<>>
  /\ current' = NoBar /\ closed' = <<>> /\ late' = 0 /\ ordered' = TRUE
  /\ UNCHANGED <<marketVars, history>>

Leave ==
  /\ gateway # NoBar
  /\ gateway' = NoBar /\ feed' = <<>> /\ current' = NoBar /\ closed' = <<>>
  /\ buffer' = <<>> /\ late' = 0 /\ ordered' = TRUE
  /\ UNCHANGED <<marketVars, history>>

\* Mutant: an absent ask is taken for a price of zero.
ProlongZero(bar, tick) ==
  [bar EXCEPT
    !.high = Greater(@, tick.bid), !.low = Lesser(@, tick.bid), !.close = tick.bid,
    !.volume = @ + tick.volume, !.askHigh = Greater(@, tick.ask),
    !.askLow = Lesser(@, tick.ask), !.askClose = IF tick.ask > 0 THEN tick.ask ELSE @]

\* The open bar and one more tick.
Prolong(bar, tick) ==
  LET first == ~HasAsk(bar) IN
  [bar EXCEPT
    !.high = Greater(@, tick.bid), !.low = Lesser(@, tick.bid), !.close = tick.bid,
    !.volume = @ + tick.volume,
    !.askOpen = IF first THEN tick.ask ELSE @,
    !.askHigh = IF first THEN tick.ask ELSE Greater(@, tick.ask),
    !.askLow = IF first THEN tick.ask ELSE IF tick.ask > 0 THEN Lesser(@, tick.ask) ELSE @,
    !.askClose = IF tick.ask > 0 THEN tick.ask ELSE @]

\* Aggregator.Add, and onBarClosed's append to the buffer.
Add(t, tick) ==
  LET bar == BarOf(BarStart(t), tick)
      behind == current # NoBar /\ bar.time < current.time
      same == current # NoBar /\ current.time = bar.time
  IN /\ late' = IF behind THEN late + 1 ELSE late
     /\ current' = IF behind THEN current
                   ELSE IF same THEN Prolong(current, tick) ELSE bar
     /\ IF current # NoBar /\ ~behind /\ ~same
        THEN /\ closed' = Append(closed, current)
             /\ buffer' = Newest(Append(buffer, current))
        ELSE UNCHANGED <<closed, buffer>>

\* A trade of minute t: the supplier's bar of that minute, and the tick of a
\* gateway that follows the market.
Trade(t, quote) ==
  LET tick == [bid |-> quote.bid, ask |-> quote.ask, volume |-> 1]
  IN /\ ticks < MaxTicks
     /\ ticks' = ticks + 1
     /\ t >= now - Delay
     /\ now' = Greater(now, t)
     /\ market' = [market EXCEPT ![t] =
          IF @ = NoBar THEN BarOf(t, tick) ELSE Merge(@, BarOf(t, tick))]
     /\ IF gateway = "market"
        THEN Add(t, tick) /\ ordered' = (ordered /\ t >= now)
        ELSE UNCHANGED <<current, late, closed, buffer, ordered>>
     /\ UNCHANGED <<history, gateway, feed>>

\* replaySymbol: the close of the next bar of the whole history.
Replay ==
  /\ gateway = "replay" /\ feed # <<>>
  /\ LET bar == Head(feed)
     IN Add(bar.time, [bid |-> bar.close, volume |-> bar.volume,
                       ask |-> IF HasAsk(bar) THEN bar.askClose ELSE bar.close])
  /\ feed' = Tail(feed)
  /\ UNCHANGED <<marketVars, history, gateway, ordered>>

BarsInit ==
  /\ market = [m \in Minutes |-> NoBar] /\ ticks = 0 /\ now = 0
  /\ history = [y \in Years |-> <<>>]
  /\ gateway = NoBar /\ feed = <<>> /\ current = NoBar /\ late = 0
  /\ closed = <<>> /\ buffer = <<>> /\ ordered = TRUE

BarsNext ==
  \/ \E t \in Minutes, quote \in Quotes : Trade(t, quote)
  \/ \E y \in Years : Download(y)
  \/ \E g \in {"market", "replay"} : ConnectFeed(g)
  \/ Leave
  \/ Replay

BarsSpec == BarsInit /\ [][BarsNext]_barsVars

----------------------------------------------------------------------------
(* Properties *)

Increasing(series) == \A i \in 1..Len(series)-1 : series[i].time < series[i+1].time

\* Whatever the order the ticks come in, late ones included, and whatever the
\* gateway, the aggregator never closes two bars of one time, nor a bar older
\* than one it has closed.
LiveBarsIncrease ==
  Increasing(closed) /\ (current # NoBar /\ closed # <<>> => Last(closed).time < current.time)

\* A bar closed live, opened after the connection, of ticks that came in order,
\* is the bar a backtest will read in the history of that time: both sides, the
\* volume, and an ask that appears or is missing in the middle of the bar.
LiveIsHistory ==
  gateway = "market" /\ ordered =>
    \A k \in 2..Len(closed) : closed[k] \in Range(Resample(Published(Minutes)))

\* core/bar.go:53-55: the series a strategy is given is sorted, without
\* duplicates.
BufferIsSeries == Increasing(buffer)

\* The bars closed live go forward in time whatever order the ticks come in, and
\* those of ordered ticks are the ones of the history (aggregator.go, Add).
BarsHold == LiveBarsIncrease /\ LiveIsHistory
=============================================================================

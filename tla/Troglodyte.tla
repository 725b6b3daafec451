------------------------------ MODULE Troglodyte ------------------------------
(***************************************************************************)
(* The Troglodyte strategy (internal/strategy/troglodyte): Train calibrates*)
(* the thresholds of the decision rule on a simulation of its own          *)
(* (calibrate.go); the backtest engine (internal/backtest/engine.go) then  *)
(* plays the calibrated model on the same bars.                            *)
(*                                                                         *)
(* The slope's z and the ATR are inputs, one of each per bar: the Kalman   *)
(* filter is left out.  Prices are on a scale where the return of a trade  *)
(* is a difference.  The engine is without news and refuses no size; this  *)
(* strategy has neither limit nor horizon, and holds over the week-end.    *)
(***************************************************************************)
EXTENDS Integers, Sequences, FiniteSetsExt, SequencesExt

CONSTANTS
  Candles,       \* the prices a bar may have
  Slopes,        \* values of z; Nil when the window says nothing
  Atrs,
  Length,        \* bars of the training series
  TrailBars,     \* revision.trailBars
  Fallback,      \* the revision's own rule
  EnterGrid, StopGrid,   \* sequences
  ExitRatio,     \* exitZ is enterZ divided by it
  MinTrades,     \* revision.minCalibTrades
  Spread,
  Nil

ASSUME TroglodyteAssumption == Length \in Nat

VARIABLES
  prices, states,  \* the series, and what OnBar sees of each bar
  rule,            \* the model's rule, or NoModel before the training
  here,            \* the bar the engine comes to
  holding,         \* the engine's position, or Nil
  rounds           \* the engine's trades

troglodyteVars == <<prices, states, rule, here, holding, rounds>>

Rules == INSTANCE TradingRules WITH Symbols <- {Nil}, MaxPerSymbol <- 1, MaxOpen <- 1,
           RiskSized <- FALSE, ExitOnReversal <- TRUE, Barriers <- TRUE, SupportsBracket <- TRUE

NoModel == [enterZ |-> 0, exitZ |-> 0, stopATR |-> 0]

-----------------------------------------------------------------------------
(* The decision *)

\* extremes: of the last TrailBars bars, this one among them.
Extremes(series) ==
  LET recent == {series[k] : k \in Max({1, Len(series) - TrailBars + 1})..Len(series)}
  IN [hh |-> Max({b.high : b \in recent}), ll |-> Min({b.low : b \in recent})]

\* decide: the action, and the level of an entry's stop.
Decision(b, r) ==
  LET offset == r.stopATR * b.atr
      longTrail == b.hh - offset
      shortTrail == b.ll + offset
      exitLong == b.z < r.exitZ \/ b.close < longTrail
      exitShort == b.z > -r.exitZ \/ b.close > shortTrail
      enterLong == b.z >= r.enterZ /\ b.close > longTrail
      enterShort == b.z <= -r.enterZ /\ b.close < shortTrail
  IN CASE enterLong -> [action |-> "ENTER_LONG", stop |-> b.close - offset]
       [] enterShort /\ ~enterLong -> [action |-> "ENTER_SHORT", stop |-> b.close + offset]
       [] OTHER ->
            [stop |-> 0,
             action |-> CASE exitLong /\ exitShort -> "EXIT"
                          [] exitLong /\ ~exitShort -> "EXIT_LONG"
                          [] exitShort /\ ~exitLong -> "EXIT_SHORT"
                          [] OTHER -> "HOLD"]

Side(p) == IF p = Nil THEN Rules!Flat ELSE p.side

Stopped(p, bar) == IF p.side = "BUY" THEN bar.low <= p.stop ELSE bar.high >= p.stop

Opened(i, price, d) ==
  [side |-> Rules!EntrySide(d.action), entry |-> i, price |-> price, stop |-> d.stop]
Closed(p, i, price) == [side |-> p.side, entry |-> p.entry, paid |-> p.price, exit |-> i, got |-> price]

-----------------------------------------------------------------------------
(* Training *)

\* The stop at its own level, whatever the gap.
SimulatedStopNoGap(side, level, bar) == level

\* The simulation's stop: the worse of the level and the opening.
SimulatedStop(side, level, bar) ==
  IF side = "BUY" THEN Min({level, bar.open}) ELSE Max({level, bar.open})

\* simulateTrades, one bar: a stop, then the decision, never a reopening on the
\* bar of a signal that closes, nor an entry on the last bar.
SimulateBar(sim, i, bar, state, r) ==
  LET hit == sim.pos # Nil /\ Stopped(sim.pos, bar)
      stops == IF hit THEN <<Closed(sim.pos, i, SimulatedStop(sim.pos.side, sim.pos.stop, bar))>>
                      ELSE <<>>
      open == IF hit THEN Nil ELSE sim.pos
      decides == state.z # Nil /\ i # Length
      d == Decision(state, r)
      opposes == d.action \in Rules!EntrySignals /\ Rules!EntrySide(d.action) # Side(open)
      leaves == /\ open # Nil
                /\ (i = Length \/ (decides /\ (opposes \/ Rules!Closes(d.action, open.side))))
      enters == open = Nil /\ decides /\ d.action \in Rules!EntrySignals
  IN [pos |-> IF enters THEN Opened(i, bar.close, d) ELSE IF leaves THEN Nil ELSE open,
      out |-> sim.out \o stops
                \o (IF leaves THEN <<Closed(open, i, bar.close)>> ELSE <<>>)]

\* What simulateTrades holds, and has closed, after each of the bars.
Simulation(series, seen, r) ==
  LET after[i \in 0..Length] ==
        IF i = 0 THEN [pos |-> Nil, out |-> <<>>]
                 ELSE SimulateBar(after[i - 1], i, series[i], seen[i], r)
  IN after

SimulateTrades(series, seen, r) == Simulation(series, seen, r)[Length].out

\* logReturns, net of a spread per round trip.
Returns(ts) ==
  [k \in DOMAIN ts |->
     (IF ts[k].side = "BUY" THEN ts[k].got - ts[k].paid ELSE ts[k].paid - ts[k].got) - Spread]

\* Student's t of the mean, squared with its sign, as a fraction.
Score(x) ==
  LET n == Len(x)
      sum == FoldLeft(LAMBDA a, v : a + v, 0, x)
      squares == FoldLeft(LAMBDA a, v : a + v * v, 0, x)
  IN [over |-> (IF sum < 0 THEN -1 ELSE 1) * sum * sum * (n - 1), under |-> n * squares - sum * sum]

Higher(a, b) == a.over * b.under > b.over * a.under

Grid == [k \in 1..(Len(EnterGrid) * Len(StopGrid)) |->
  LET enter == EnterGrid[((k - 1) \div Len(StopGrid)) + 1]
  IN [enterZ |-> enter, exitZ |-> enter \div ExitRatio,
      stopATR |-> StopGrid[((k - 1) % Len(StopGrid)) + 1]]]

\* calibrate: the first of the best rules that have enough trades to be judged.
Calibrate ==
  FoldLeft(LAMBDA best, r :
    LET x == Returns(SimulateTrades(prices, states, r))
        score == Score(x)
    IN IF /\ Len(x) >= MinTrades /\ score.under > 0
          /\ (best.score.under = 0 \/ Higher(score, best.score))
       THEN [rule |-> r, score |-> score] ELSE best,
    [rule |-> Fallback, score |-> [over |-> 0, under |-> 0]], Grid).rule

Observe(bar, z, atr) ==
  /\ Len(prices) < Length
  /\ prices' = Append(prices, bar)
  /\ states' = Append(states,
       [z |-> z, atr |-> atr, close |-> bar.close,
        hh |-> Extremes(Append(prices, bar)).hh, ll |-> Extremes(Append(prices, bar)).ll])
  /\ UNCHANGED <<rule, here, holding, rounds>>

Train ==
  /\ Len(prices) = Length /\ rule = NoModel
  /\ rule' = Calibrate
  /\ UNCHANGED <<prices, states, here, holding, rounds>>

-----------------------------------------------------------------------------
(* The backtest engine, one bar *)

\* checkBarriers: the stop, filled at the opening when the bar gaps beyond it.
BarrierPrice(p, bar) ==
  CASE p.side = "BUY" -> Min({p.stop, bar.open})
    [] p.side = "SELL" -> Max({p.stop, bar.open})

\* OnBar's answer, at the close of a bar.
Signalled(i) ==
  IF states[i].z = Nil THEN [action |-> "HOLD", stop |-> 0] ELSE Decision(states[i], rule)

ReplayBar ==
  /\ rule # NoModel /\ here <= Length
  /\ LET bar == prices[here]
         stop == holding # Nil /\ Stopped(holding, bar)
         open == IF stop THEN Nil ELSE holding
         last == here = Length
         d == Signalled(here)
         action == Rules!ApplyReversal(d.action, Side(open))
         leaves == open # Nil /\ (last \/ Rules!Closes(action, open.side))
         enters == open = Nil /\ ~last /\ action \in Rules!EntrySignals
         afterStop == IF stop THEN Append(rounds, Closed(holding, here, BarrierPrice(holding, bar)))
                      ELSE rounds
     IN /\ rounds' = IF leaves THEN Append(afterStop, Closed(open, here, bar.close)) ELSE afterStop
        /\ holding' = IF enters THEN Opened(here, bar.close, d) ELSE IF leaves THEN Nil ELSE open
  /\ here' = here + 1
  /\ UNCHANGED <<prices, states, rule>>

TroglodyteInit ==
  /\ prices = <<>> /\ states = <<>> /\ rule = NoModel /\ here = 1 /\ holding = Nil /\ rounds = <<>>

TroglodyteNext ==
  \/ \E bar \in Candles, z \in Slopes, atr \in Atrs : Observe(bar, z, atr)
  \/ Train
  \/ ReplayBar

TroglodyteSpec == TroglodyteInit /\ [][TroglodyteNext]_troglodyteVars

-----------------------------------------------------------------------------
(* Properties *)

\* The engine makes, bar by bar, the very trades on which the calibration has
\* chosen the rule: stops and gaps, reversals, nothing entered on the last bar.
SimulationIsBacktest == here > Length => rounds = SimulateTrades(prices, states, rule)
=============================================================================

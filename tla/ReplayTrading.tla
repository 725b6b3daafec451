----------------------------- MODULE ReplayTrading ----------------------------
(***************************************************************************)
(* The engine and the replay gateway (internal/broker/replay.go) under     *)
(* Runtime's connection cycle: one goroutine per symbol replays the        *)
(* history, checks the barriers of the simulated position on each bar and  *)
(* hands the bar's tick to the engine; PlaceOrder executes at once and     *)
(* reports before it returns.  The operator toggles the kill-switch and    *)
(* the symbols, disconnects and reconnects while ticks are being handled.  *)
(***************************************************************************)
EXTENDS LiveEngine

CONSTANTS
    Histories,        \* histories a symbol may have: the times of its bars, in order
    Unpriced,         \* times of the bars whose close is no usable price
    StrategyEnabled,  \* cfg.Strategy.Enabled: the kill-switch of a new engine
    MaxToggles,       \* bound on the operator's toggles
    MaxSessions       \* bound on the connections

ASSUME ReplayAssumption ==
    /\ Histories \subseteq Seq(Nat)
    /\ \A h \in Histories : \A i, j \in 1..Len(h) : i < j => h[i] < h[j]
    /\ StrategyEnabled \in BOOLEAN
    /\ MaxToggles \in Nat /\ MaxSessions \in Nat \ {0}
    /\ None \notin {"ok", "error"} /\ None \notin [Symbols -> Holdings]
    /\ \E longest \in Histories : \A h \in Histories : Len(h) <= Len(longest)

VARIABLES
    history,     \* the history replayed, the same for every symbol
    link,        \* "up"; "closing" while Disconnect waits; "down"
    positions,   \* per symbol, the side of the simulated position
    feed,        \* per symbol, the goroutine: bars read, and where it stands
    emit,        \* per symbol, a report about to enter HandleExecution
    result,      \* per symbol, what PlaceOrder is about to return
    closes,      \* per symbol, positions the broker has closed
    late,        \* per symbol, entries executed while it may not trade, since
                 \* its switches were last touched
    toggles      \* toggles made so far

brokerVars == <<history, link, positions, feed, emit, result, closes, late, toggles>>
vars == <<engineVars, brokerVars>>

Connected == link = "up"

LastTime(s) == history[feed[s].read]

FreshFeed == [s \in Symbols |-> [read |-> 0, pc |-> "wait"]]

Init ==
    /\ EngineInit([s \in Symbols |-> TRUE], StrategyEnabled)
    /\ history \in Histories
    /\ link = "up"
    /\ positions = [s \in Symbols |-> Flat]
    /\ feed = FreshFeed
    /\ emit = [s \in Symbols |-> None]
    /\ result = [s \in Symbols |-> None]
    /\ closes = [s \in Symbols |-> 0]
    /\ late = [s \in Symbols |-> 0]
    /\ toggles = 0

\* The goroutine of a symbol is inside no callback.
Quiet(s) == call[s] = Idle /\ rep[s] = None /\ emit[s] = None

\* The last tick of the symbol has been handled to the end.
AtRest(s) == Quiet(s) /\ feed[s].pc # "bar"

MayTrade(s) == enabled /\ trading[s]

Filled(s, side, closing) ==
    [status |-> "FILLED", side |-> side, closing |-> closing, time |-> LastTime(s)]

-----------------------------------------------------------------------------
(* The replay goroutine *)

\* A barrier that closes the position and is not reported.
NextBarUnreported(s) ==
    /\ feed[s].pc = "wait" /\ Quiet(s)
    /\ feed[s].read < Len(history)
    /\ feed' = [feed EXCEPT ![s] = [read |-> @.read + 1, pc |-> "bar"]]
    /\ \/ UNCHANGED <<positions, closes>>
       \/ /\ positions[s] # Flat /\ Barriers
          /\ positions' = [positions EXCEPT ![s] = Flat]
          /\ closes' = [closes EXCEPT ![s] = @ + 1]
    /\ UNCHANGED <<engineVars, history, link, emit, result, late, toggles>>

\* replaySymbol's loop, then checkBarriers: the bar may reach the stop or the
\* limit, when the position has them.  A cancelled goroutine may still read a
\* bar: its select finds both channels ready.
NextBar(s) ==
    LET f == feed[s]
        side == positions[s]
    IN
    /\ f.pc = "wait" /\ Quiet(s)
    /\ f.read < Len(history)
    /\ feed' = [feed EXCEPT ![s] = [read |-> f.read + 1, pc |-> "bar"]]
    /\ \/ UNCHANGED <<positions, emit, closes>>
       \/ /\ side # Flat /\ Barriers
          /\ positions' = [positions EXCEPT ![s] = Flat]
          /\ closes' = [closes EXCEPT ![s] = @ + 1]
          /\ emit' = [emit EXCEPT ![s] =
               [status |-> "FILLED", side |-> Opposite(side), closing |-> TRUE,
                time |-> history[f.read + 1]]]
    /\ UNCHANGED <<engineVars, history, link, result, late, toggles>>

\* The callback of the bar's tick, once checkBarriers has returned.
Tick(s) ==
    /\ feed[s].pc = "bar" /\ Quiet(s)
    /\ CheckWeekend(s, LastTime(s))
    /\ feed' = [feed EXCEPT ![s].pc = "wait"]
    /\ UNCHANGED <<history, link, positions, emit, result, closes, late, toggles>>

\* The goroutine ends: cancelled, or at the end of the history.
Stop(s) ==
    /\ feed[s].pc = "wait" /\ Quiet(s)
    /\ link = "closing" \/ feed[s].read = Len(history)
    /\ feed' = [feed EXCEPT ![s].pc = "stopped"]
    /\ UNCHANGED <<engineVars, history, link, positions, emit, result, closes, late, toggles>>

-----------------------------------------------------------------------------
(* The gateway's calls and callbacks *)

\* A PlaceOrder that waits for the lock Disconnect holds while it waits.
PlaceOrderLocked(s) ==
    /\ call[s].stage = "place" /\ result[s] = None
    /\ Connected
    /\ result' = [result EXCEPT ![s] = "error"]
    /\ UNCHANGED <<engineVars, history, link, positions, feed, emit, closes, late, toggles>>

\* PlaceOrder's locked section; an entry may fail the margin check.
PlaceOrder(s) ==
    LET order == call[s].order
        held == positions[s]
        rejected == [status |-> "REJECTED", side |-> order.side,
                     closing |-> FALSE, time |-> LastTime(s)]
        Answer(report, outcome) ==
            /\ emit' = [emit EXCEPT ![s] = report]
            /\ result' = [result EXCEPT ![s] = outcome]
    IN
    /\ call[s].stage = "place" /\ result[s] = None
    /\ \/ /\ ~Connected
          /\ result' = [result EXCEPT ![s] = "error"]
          /\ UNCHANGED <<positions, closes, late, emit>>
       \/ /\ Connected /\ LastTime(s) \in Unpriced
          /\ Answer(rejected, "error")
          /\ UNCHANGED <<positions, closes, late>>
       \/ /\ Connected /\ LastTime(s) \notin Unpriced
          /\ held = Opposite(order.side)
          /\ positions' = [positions EXCEPT ![s] = Flat]
          /\ closes' = [closes EXCEPT ![s] = @ + 1]
          /\ Answer(Filled(s, order.side, TRUE), "ok")
          /\ UNCHANGED late
       \/ /\ Connected /\ LastTime(s) \notin Unpriced
          /\ \/ held = order.side
             \/ held = Flat          \* the margin is insufficient
          /\ Answer(rejected, "ok")
          /\ UNCHANGED <<positions, closes, late>>
       \/ /\ Connected /\ LastTime(s) \notin Unpriced
          /\ held = Flat
          /\ positions' = [positions EXCEPT ![s] = order.side]
          /\ late' = IF MayTrade(s) THEN late ELSE [late EXCEPT ![s] = @ + 1]
          /\ Answer(Filled(s, order.side, FALSE), "ok")
          /\ UNCHANGED closes
    /\ UNCHANGED <<engineVars, history, link, feed, toggles>>

\* report calls HandleExecution before PlaceOrder or checkBarriers returns.
Report(s) ==
    /\ emit[s] # None
    /\ Release(s, emit[s])
    /\ emit' = [emit EXCEPT ![s] = None]
    /\ UNCHANGED <<call, history, link, positions, feed, result, closes, late, toggles>>

\* The local store is taken to accept the round trips.
HandleFill(s) == Pair(s, TRUE) /\ UNCHANGED brokerVars

\* A return that resets the call and leaves its reservation, in one step.
PlaceReturnsReserved(s) ==
    /\ call[s].stage = "place" /\ result[s] # None
    /\ emit[s] = None /\ rep[s] = None
    /\ result' = [result EXCEPT ![s] = None]
    /\ Return(s, call[s].resume)
    /\ UNCHANGED <<enabled, trading, session, inFlight, openLeg, weekendTry,
                   current, rep, fills, journal, history, link, positions, feed, emit,
                   closes, late, toggles>>

PlaceReturns(s) ==
    /\ call[s].stage = "place" /\ result[s] # None
    /\ emit[s] = None /\ rep[s] = None
    /\ result' = [result EXCEPT ![s] = None]
    /\ IF result[s] = "ok"
       THEN /\ Goto(s, [call[s] EXCEPT !.stage = "confirm"])
            /\ UNCHANGED <<enabled, trading, session, inFlight, openLeg,
                           weekendTry, current, rep, fills, journal>>
       ELSE PlaceFailed(s)
    /\ UNCHANGED <<history, link, positions, feed, emit, closes, late, toggles>>

\* Positions and Account answer while the gateway is connected.
DecideOnAnswers(s) ==
    LET open == IF Connected THEN positions ELSE None
        answers == IF Connected THEN AccountAnswers \ {"unavailable"}
                   ELSE {"unavailable"}
    IN \E account \in answers, blocks \in BOOLEAN : Decide(s, open, account, blocks)

EngineStep(s) ==
    /\ \/ WeekendGates(s, Connected)
       \/ Aggregate(s)
       \/ BarGates(s, Connected)
       \/ DecideOnAnswers(s)
       \/ Reserve(s)
       \/ Confirm(s)
    /\ UNCHANGED brokerVars

-----------------------------------------------------------------------------
(* The operator *)

\* A switch that is touched starts a new count of late entries.
CountAgain(touched) == late' = [s \in Symbols |-> IF s \in touched THEN 0 ELSE late[s]]

\* ToggleKillSwitch; the runtime has an engine to act on.
ToggleKillSwitch ==
    /\ link = "up" /\ toggles < MaxToggles
    /\ SetEnabled(~enabled)
    /\ toggles' = toggles + 1
    /\ CountAgain(Symbols)
    /\ UNCHANGED <<history, link, positions, feed, emit, result, closes>>

\* ToggleSymbol refuses to arm a symbol without a broker.
ToggleSymbol(s) ==
    /\ toggles < MaxToggles
    /\ Connected \/ trading[s]
    /\ SetTrading(s, ~trading[s])
    /\ toggles' = toggles + 1
    /\ CountAgain({s})
    /\ UNCHANGED <<history, link, positions, feed, emit, result, closes>>

\* Disconnect cancels the goroutines, then waits for them.
Disconnect ==
    /\ link = "up" /\ session < MaxSessions
    /\ link' = "closing"
    /\ UNCHANGED <<engineVars, history, positions, feed, emit, result, closes, late, toggles>>

Disconnected ==
    /\ link = "closing"
    /\ \A s \in Symbols : feed[s].pc = "stopped"
    /\ link' = "down"
    /\ UNCHANGED <<engineVars, history, positions, feed, emit, result, closes, late, toggles>>

\* Runtime.connect: a new engine, a new gateway, the history from its start.
Connect ==
    /\ link = "down" /\ session < MaxSessions
    /\ NewEngine(StrategyEnabled)
    /\ link' = "up"
    /\ positions' = [s \in Symbols |-> Flat]
    /\ feed' = FreshFeed
    /\ CountAgain(Symbols)
    /\ UNCHANGED <<history, emit, result, closes, toggles>>

Goroutine(s) ==
    NextBar(s) \/ Tick(s) \/ Stop(s) \/ EngineStep(s) \/ PlaceOrder(s)
    \/ Report(s) \/ HandleFill(s) \/ PlaceReturns(s)

Operator ==
    ToggleKillSwitch \/ (\E s \in Symbols : ToggleSymbol(s)) \/ Disconnect \/ Connect

Next == (\E s \in Symbols : Goroutine(s)) \/ Operator \/ Disconnected

\* The goroutines run, and Disconnect returns once they have ended; nothing
\* obliges the operator to act.
Fairness ==
    /\ \A s \in Symbols : WF_vars(Goroutine(s))
    /\ WF_vars(Disconnected)

Spec == Init /\ [][Next]_vars

FairSpec == Spec /\ Fairness

-----------------------------------------------------------------------------
(* Properties *)

\* A symbol's variables have their types.
TypeOK ==
    /\ link \in {"up", "closing", "down"}
    /\ positions \in [Symbols -> Holdings]
    /\ feed \in [Symbols -> [read : 0..Len(history), pc : {"wait", "bar", "stopped"}]]
    /\ emit \in [Symbols -> ReportsAt(Nat) \cup {None}]
    /\ result \in [Symbols -> {"ok", "error", None}]
    /\ closes \in [Symbols -> Nat] /\ late \in [Symbols -> Nat]
    /\ toggles \in 0..MaxToggles
    /\ call \in [Symbols -> Calls]
    /\ inFlight \in [Symbols -> {"", "pending", "placed"}]

\* Between two ticks the engine tracks exactly the position the broker holds,
\* on the same side: HandleExecution saw every execution, barriers included,
\* and paired it with the right entry.
TracksThePosition ==
    \A s \in Symbols : AtRest(s) =>
        positions[s] = IF openLeg[s] = None THEN Flat ELSE openLeg[s].side

\* Every position the broker closed (stop, limit, strategy, horizon, week-end)
\* is in the journal once, and nothing else is.
JournalsEveryClose ==
    \A s \in Symbols : AtRest(s) => Len(journal[s]) = closes[s]

\* A tick leaves no reservation behind, whichever way PlaceOrder went: the
\* report that came before its return is not undone by the confirmation
\* (submit's comment on a synchronous gateway).
NoReservationLeft ==
    \A s \in Symbols : AtRest(s) => inFlight[s] = ""

\* Nobody touches the switches: the rules below are about the engine alone.
HandsOff == toggles = 0 /\ link = "up"

\* A strategy that does not hold over the week-end is out once a tick reaches
\* the guard of the weekly close, or at the first tick after it; the only
\* position a handled tick leaves there is the one it has just entered.
OutForTheWeekend ==
    \A s \in Symbols :
        /\ HandsOff /\ ~HoldsOverWeekend /\ AtRest(s) /\ openLeg[s] # None
        /\ LastTime(s) \notin Unpriced
        /\ AtWeekEnd(LastTime(s), openLeg[s].time)
        => openLeg[s].time = LastTime(s)

\* A tick in every bar, at a price that can be traded.
Dense ==
    /\ \A i \in 1..(Len(history) - 1) :
          Floor(history[i + 1]) <= Floor(history[i]) + BarLen
    /\ \A i \in 1..Len(history) : history[i] \notin Unpriced

\* The guard does not begin between the start of a bar and the bar's first tick.
Prompt ==
    \A i \in 1..(Len(history) - 1) :
        LET first == history[i + 1] IN
        Floor(history[i]) < Floor(first) /\ AtWeekEnd(first, first)
            => AtWeekEnd(Floor(first), Floor(first))

\* With a prompt tick in every bar nothing is left there at all: no entry is
\* decided on a bar that ends inside the guard.
FlatInsideTheGuard ==
    \A s \in Symbols :
        HandsOff /\ Dense /\ Prompt /\ ~HoldsOverWeekend /\ AtRest(s) /\ openLeg[s] # None
        => ~AtWeekEnd(LastTime(s), openLeg[s].time)

\* The vertical barrier, with a tick in every bar: a position is gone when the
\* last bar to begin before its deadline has closed.
OutAtTheHorizon ==
    \A s \in Symbols :
        HandsOff /\ Dense /\ MaxHold > 0 /\ AtRest(s) /\ openLeg[s] # None
        => current[s] <= openLeg[s].time + MaxHold

\* Exits are on time: a position is gone at the horizon, nothing is left inside the
\* guard of the weekly close when there is a prompt tick in every bar, and with
\* holes nothing but what has just been entered (horizon.go; engine.go, checkWeekend).
OnTime == FlatInsideTheGuard /\ OutForTheWeekend /\ OutAtTheHorizon

\* After the kill-switch is off, or the symbol disarmed, at most the one
\* decision already under way becomes an entry.
SwitchDrains == \A s \in Symbols : late[s] <= 1

\* Nothing is left behind: no reservation by a tick, whichever way PlaceOrder went,
\* and no more than the decision under way by a switch turned off (engine.go,
\* submit and onBarClosed).
NothingLeft == NoReservationLeft /\ SwitchDrains

\* docs/architecture.md: max_open_positions is a cap on the whole account.  The
\* code does not keep it once two symbols decide together (README).
AccountCap == Cardinality({s \in Symbols : positions[s] # Flat}) <= MaxOpen

\* An order in flight is settled: the reservation of a symbol is lifted.
OrdersSettle == \A s \in Symbols : inFlight[s] # "" ~> inFlight[s] = ""

\* Disconnect ends, whatever the ticks were doing when it was called.
DisconnectReturns == link = "closing" ~> link = "down"

Longest ==
    CHOOSE n \in {Len(h) : h \in Histories} : \A h \in Histories : Len(h) <= n

\* The engine in front of this gateway is the engine in front of some gateway:
\* what AnyGateway proves holds here.
AG == INSTANCE AnyGateway WITH
    Times <- UNION {{h[i] : i \in 1..Len(h)} : h \in Histories},
    MaxFills <- 3 * (MaxSessions * Longest),    \* a bar brings at most three reports
    connected <- Connected

ImplementsAnyGateway == AG!Spec
=============================================================================

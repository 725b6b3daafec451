------------------------------ MODULE LiveEngine ------------------------------
(***************************************************************************)
(* The live engine (internal/live/engine.go): its state and one operator   *)
(* per critical section of its two callbacks, HandleTick and               *)
(* HandleExecution.  The module has no gateway and so no Spec: AnyGateway  *)
(* composes it with every gateway the interface allows, ReplayTrading with *)
(* the replay gateway.                                                     *)
(*                                                                         *)
(* The ticks of one symbol are handled one at a time (both gateways call   *)
(* back from one goroutine per symbol, or one for all); between two        *)
(* critical sections of a symbol's tick, the other symbols, the operator   *)
(* and the gateway may act.  `call[s]` is the point that symbol's tick has *)
(* reached and the snapshots it took on the way.                           *)
(***************************************************************************)
EXTENDS MarketTime, TradingRules, Sequences

CONSTANTS
    HoldsOverWeekend,  \* Description.HoldsOverWeekend
    UsesNews,          \* Description.UsesNews, with a news source wired in
    Retry,             \* the minute between two tries of a week-end exit
    None

ASSUME LiveEngineAssumption ==
    /\ {HoldsOverWeekend, UsesNews} \subseteq BOOLEAN
    /\ Retry \in Nat \ {0}
    /\ None \notin Nat

VARIABLES
    enabled,     \* the global kill-switch
    trading,     \* the store's armed symbols; survives the engine
    session,     \* number of the connection; each one builds a new engine
    inFlight,    \* per symbol "", "pending" (reserved) or "placed" (order id)
    openLeg,     \* per symbol, the reported entry of the current round trip
    weekendTry,  \* per symbol, market time of the last week-end exit asked for
    current,     \* per symbol, start of the aggregator's open bar
    call,        \* per symbol, the handling of the tick in progress
    rep,         \* per symbol, the execution report HandleExecution is handling
    fills,       \* per symbol, every FILLED report handled, in order
    journal      \* per symbol, the round trips written to the store

engineVars == <<enabled, trading, session, inFlight, openLeg, weekendTry,
                current, call, rep, fills, journal>>

Idle == [stage |-> "idle"]

\* openLeg: `fill` is the position, in `fills`, of the report it comes from.
Legs == [side : Sides, time : Nat, fill : Nat \ {0}]

\* core.ExecutionReport; the three statuses are terminal.
ReportsAt(times) == [status : {"FILLED", "REJECTED", "CANCELLED"}, side : Sides,
                     closing : BOOLEAN, time : times]

ASSUME ReportsAssumption == None \notin ReportsAt(Nat) /\ None \notin Legs

Calls == {Idle}
    \cup [stage : {"weekendGates"}, tick : Nat, enabled : BOOLEAN]
    \cup [stage : {"aggregate"}, tick : Nat]
    \cup [stage : {"gates"}, bar : Nat, enabled : BOOLEAN, blocked : BOOLEAN,
          overdue : BOOLEAN]
    \cup [stage : {"submit"}, sig : Signals, lastOfWeek : BOOLEAN,
          resume : Nat \cup {None}]
    \cup [stage : {"reserve", "place", "confirm"}, order : Orders,
          resume : Nat \cup {None}]

\* NewEngine in a program whose store has these symbols armed.
EngineInit(armed, on) ==
    /\ enabled = on
    /\ trading = armed
    /\ session = 1
    /\ inFlight = [s \in Symbols |-> ""]
    /\ openLeg = [s \in Symbols |-> None]
    /\ weekendTry = [s \in Symbols |-> None]
    /\ current = [s \in Symbols |-> None]
    /\ call = [s \in Symbols |-> Idle]
    /\ rep = [s \in Symbols |-> None]
    /\ fills = [s \in Symbols |-> << >>]
    /\ journal = [s \in Symbols |-> << >>]

Goto(s, c) == call' = [call EXCEPT ![s] = c]

\* submit returns: to HandleTick after a week-end exit (the tick still has to
\* be aggregated), out of the callback after a bar.
Return(s, resume) ==
    Goto(s, IF resume = None THEN Idle ELSE [stage |-> "aggregate", tick |-> resume])

-----------------------------------------------------------------------------
(* HandleTick *)

\* A check that took the close of the tick's own week would forget, on Sunday,
\* the position of Friday.
ThisWeeksExitDue(s, t) ==
    /\ ~HoldsOverWeekend /\ openLeg[s] # None /\ inFlight[s] = ""
    /\ AtWeekEnd(t, t)
    /\ (weekendTry[s] # None => t >= weekendTry[s] + Retry)

\* Is a week-end exit due?  The conditions of checkWeekend's locked section.
WeekendExitDue(s, t) ==
    /\ ~HoldsOverWeekend
    /\ openLeg[s] # None
    /\ inFlight[s] = ""
    /\ AtWeekEnd(t, openLeg[s].time)
    /\ (weekendTry[s] # None => t >= weekendTry[s] + Retry)

\* checkWeekend, up to its first unlock.
CheckWeekend(s, t) ==
    /\ call[s] = Idle
    /\ Goto(s, IF WeekendExitDue(s, t)
               THEN [stage |-> "weekendGates", tick |-> t, enabled |-> enabled]
               ELSE [stage |-> "aggregate", tick |-> t])
    /\ UNCHANGED <<enabled, trading, session, inFlight, openLeg, weekendTry,
                   current, rep, fills, journal>>

\* checkWeekend, after the unlock: the kill-switch as it was, the symbol and
\* the connection as they are.
WeekendGates(s, connected) ==
    LET c == call[s] IN
    /\ c.stage = "weekendGates"
    /\ IF c.enabled /\ trading[s] /\ connected
       THEN /\ weekendTry' = [weekendTry EXCEPT ![s] = c.tick]
            /\ Goto(s, [stage |-> "submit", sig |-> "EXIT",
                        lastOfWeek |-> FALSE, resume |-> c.tick])
       ELSE /\ Return(s, c.tick)
            /\ UNCHANGED weekendTry
    /\ UNCHANGED <<enabled, trading, session, inFlight, openLeg, current, rep,
                   fills, journal>>

\* Aggregator.Add and, when it closes a bar, onBarClosed's locked section.
Aggregate(s) ==
    LET c == call[s]
        bucket == Floor(c.tick)
        closed == current[s]
        opens == closed = None \/ closed < bucket    \* else same bar, or late
    IN
    /\ c.stage = "aggregate"
    /\ current' = IF opens THEN [current EXCEPT ![s] = bucket] ELSE current
    /\ Goto(s, IF opens /\ closed # None
               THEN [stage |-> "gates", bar |-> closed, enabled |-> enabled,
                     blocked |-> inFlight[s] # "",
                     overdue |-> openLeg[s] # None
                                 /\ HoldExpired(closed, openLeg[s].time)]
               ELSE Idle)
    /\ UNCHANGED <<enabled, trading, session, inFlight, openLeg, weekendTry,
                   rep, fills, journal>>

\* The gates without the kill-switch.
GatesWithoutSwitch(s, connected) ==
    /\ call[s].stage = "gates"
    /\ \/ /\ trading[s] /\ connected /\ ~call[s].blocked
          /\ \E sig \in IF call[s].overdue THEN {"EXIT"} ELSE Signals :
                Goto(s, [stage |-> "submit", sig |-> sig, resume |-> None,
                         lastOfWeek |-> ~HoldsOverWeekend
                                        /\ LastBarBeforeWeekend(call[s].bar)])
       \/ Goto(s, Idle)
    /\ UNCHANGED <<enabled, trading, session, inFlight, openLeg, weekendTry,
                   current, rep, fills, journal>>

\* onBarClosed, after the unlock: the four conditions, then the horizon's exit
\* or the strategy's answer (None when it is not ready, fails or says HOLD).
BarGates(s, connected) ==
    LET c == call[s] IN
    /\ c.stage = "gates"
    /\ \/ /\ c.enabled /\ trading[s] /\ connected /\ ~c.blocked
          /\ \E sig \in IF c.overdue THEN {"EXIT"} ELSE Signals :
                Goto(s, [stage |-> "submit", sig |-> sig,
                         lastOfWeek |-> ~HoldsOverWeekend
                                        /\ LastBarBeforeWeekend(c.bar),
                         resume |-> None])
       \/ /\ ~(c.enabled /\ trading[s] /\ connected /\ ~c.blocked /\ c.overdue)
          /\ Goto(s, Idle)
    /\ UNCHANGED <<enabled, trading, session, inFlight, openLeg, weekendTry,
                   current, rep, fills, journal>>

\* submit, from Positions to unprotected: `open` is what Positions answered
\* (None for an error), `account` what Account answered, `newsBlocks` whether
\* the gate holds a release against this entry.
Decide(s, open, account, newsBlocks) ==
    LET c == call[s]
        sig == ApplyReversal(c.sig, open[s])
        entry == sig \in EntrySignals
        order == OrderOf(s, sig, open)
    IN
    /\ c.stage = "submit"
    /\ IF /\ open # None
          /\ ~(c.lastOfWeek /\ entry)
          /\ ~(UsesNews /\ newsBlocks /\ entry /\ open[s] = Flat)
          /\ Accepts(s, sig, open, account)
          /\ ~Unprotected(order)
       THEN Goto(s, [stage |-> "reserve", order |-> order, resume |-> c.resume])
       ELSE Return(s, c.resume)
    /\ UNCHANGED <<enabled, trading, session, inFlight, openLeg, weekendTry,
                   current, rep, fills, journal>>

\* submit's reservation; it gives up on a symbol whose order is still in flight.
Reserve(s) ==
    LET c == call[s] IN
    /\ c.stage = "reserve"
    /\ IF inFlight[s] # ""
       THEN Return(s, c.resume) /\ UNCHANGED inFlight
       ELSE /\ inFlight' = [inFlight EXCEPT ![s] = "pending"]
            /\ Goto(s, [c EXCEPT !.stage = "place"])
    /\ UNCHANGED <<enabled, trading, session, openLeg, weekendTry, current, rep,
                   fills, journal>>

\* A refused submission that forgets the reservation.
PlaceFailedReserved(s) ==
    /\ Return(s, call[s].resume)
    /\ UNCHANGED <<enabled, trading, session, inFlight, openLeg, weekendTry,
                   current, rep, fills, journal>>

\* PlaceOrder returns an error: the reservation is dropped.
PlaceFailed(s) ==
    /\ inFlight' = [inFlight EXCEPT ![s] = ""]
    /\ Return(s, call[s].resume)
    /\ UNCHANGED <<enabled, trading, session, openLeg, weekendTry, current, rep,
                   fills, journal>>

\* PlaceOrder returned an order identifier.  Its report may have come first:
\* then the reservation is gone and is not taken again.
Confirm(s) ==
    LET c == call[s] IN
    /\ c.stage = "confirm"
    /\ inFlight' = IF inFlight[s] = "" THEN inFlight
                   ELSE [inFlight EXCEPT ![s] = "placed"]
    /\ Return(s, c.resume)
    /\ UNCHANGED <<enabled, trading, session, openLeg, weekendTry, current, rep,
                   fills, journal>>

-----------------------------------------------------------------------------
(* HandleExecution *)

\* The first locked section: every status is terminal and frees the symbol.
\* Only a fill goes on.
Release(s, r) ==
    /\ rep[s] = None
    /\ inFlight' = [inFlight EXCEPT ![s] = ""]
    /\ IF r.status = "FILLED"
       THEN /\ rep' = [rep EXCEPT ![s] = r]
            /\ fills' = [fills EXCEPT ![s] =
                 Append(@, [side |-> r.side, closing |-> r.closing,
                            session |-> session])]
       ELSE UNCHANGED <<rep, fills>>
    /\ UNCHANGED <<enabled, trading, session, openLeg, weekendTry, current,
                   journal>>

\* A second entry on the same side that does not replace the first.
OpensLegOnce(s, r) == openLeg[s] = None /\ ~r.closing

\* A fill that opens, or replaces on the same side, the tracked entry.
OpensLeg(s, r) ==
    \/ openLeg[s] = None /\ ~r.closing
    \/ openLeg[s] # None /\ r.side = openLeg[s].side

\* The naive pairing: the second fill ends the first, whatever its side.
EndsAnyLeg(s, r) == openLeg[s] # None

\* A fill of the other side ends the round trip.
EndsLeg(s, r) == openLeg[s] # None /\ r.side # openLeg[s].side

\* A pairing that journals the round trip and goes on tracking its entry.
PairKeepingLeg(s, written) ==
    LET r == rep[s] IN
    /\ r # None
    /\ openLeg' = IF OpensLeg(s, r)
                  THEN [openLeg EXCEPT ![s] = [side |-> r.side, time |-> r.time,
                                               fill |-> Len(fills[s])]]
                  ELSE openLeg
    /\ journal' = IF EndsLeg(s, r) /\ written
                  THEN [journal EXCEPT ![s] =
                         Append(@, [side |-> openLeg[s].side,
                                    entry |-> openLeg[s].fill,
                                    exit |-> Len(fills[s])])]
                  ELSE journal
    /\ rep' = [rep EXCEPT ![s] = None]
    /\ UNCHANGED <<enabled, trading, session, inFlight, weekendTry, current,
                   call, fills>>

\* The second locked section and AppendTrade: pair the fill, or refuse to.  The
\* store may fail to write the round trip, which is then lost.
Pair(s, written) ==
    LET r == rep[s] IN
    /\ r # None
    /\ openLeg' = [openLeg EXCEPT ![s] =
         CASE OpensLeg(s, r) -> [side |-> r.side, time |-> r.time,
                                 fill |-> Len(fills[s])]
           [] EndsLeg(s, r)  -> None
           [] OTHER          -> @]
    /\ journal' = IF EndsLeg(s, r) /\ written
                  THEN [journal EXCEPT ![s] =
                         Append(@, [side |-> openLeg[s].side,
                                    entry |-> openLeg[s].fill,
                                    exit |-> Len(fills[s])])]
                  ELSE journal
    /\ rep' = [rep EXCEPT ![s] = None]
    /\ UNCHANGED <<enabled, trading, session, inFlight, weekendTry, current,
                   call, fills>>

-----------------------------------------------------------------------------
(* The operator, and the life of an engine *)

\* SetEnabled (the kill-switch)
SetEnabled(on) ==
    /\ enabled' = on
    /\ UNCHANGED <<trading, session, inFlight, openLeg, weekendTry, current,
                   call, rep, fills, journal>>

\* Store.SetTrading (arm or disarm a symbol)
SetTrading(s, on) ==
    /\ trading' = [trading EXCEPT ![s] = on]
    /\ UNCHANGED <<enabled, session, inFlight, openLeg, weekendTry, current,
                   call, rep, fills, journal>>

\* Runtime.connect builds a new engine; only the store outlives the old one,
\* whose callbacks have all returned.
NewEngine(on) ==
    /\ \A s \in Symbols : call[s] = Idle /\ rep[s] = None
    /\ enabled' = on
    /\ session' = session + 1
    /\ inFlight' = [s \in Symbols |-> ""]
    /\ openLeg' = [s \in Symbols |-> None]
    /\ weekendTry' = [s \in Symbols |-> None]
    /\ current' = [s \in Symbols |-> None]
    /\ UNCHANGED <<trading, call, rep, fills, journal>>
=============================================================================

----------------------------- MODULE EngineProofs -----------------------------
(***************************************************************************)
(* The typing of the engine's variables through the sections of a tick and *)
(* of HandleExecution, whatever gateway stands behind: what the proofs     *)
(* about AnyGateway and ReplayTrading have in common.                      *)
(***************************************************************************)
EXTENDS LiveEngine, TLAPS

EngineTypes ==
    /\ enabled \in BOOLEAN
    /\ trading \in [Symbols -> BOOLEAN]
    /\ session \in Nat \ {0}
    /\ inFlight \in [Symbols -> {"", "pending", "placed"}]
    /\ openLeg \in [Symbols -> Legs \cup {None}]
    /\ weekendTry \in [Symbols -> Nat \cup {None}]
    /\ current \in [Symbols -> Nat \cup {None}]
    /\ call \in [Symbols -> Calls]
    /\ rep \in [Symbols -> ReportsAt(Nat) \cup {None}]

\* A new engine in a program whose store has some symbols armed.
LEMMA InitTypes ==
    ASSUME NEW armed \in [Symbols -> BOOLEAN], NEW on \in BOOLEAN, EngineInit(armed, on),
           NEW F, NEW T
    PROVE  /\ EngineTypes
           /\ fills \in [Symbols -> Seq(F)] /\ journal \in [Symbols -> Seq(T)]
  <1>1. /\ fills \in [Symbols -> Seq(F)]
        /\ journal \in [Symbols -> Seq(T)]
    <2>1. << >> \in Seq(F) /\ << >> \in Seq(T)
      OBVIOUS
    <2>2. fills = [s \in Symbols |-> << >>] /\ journal = [s \in Symbols |-> << >>]
      BY DEF EngineInit
    <2> QED BY <2>1, <2>2
  <1>2. /\ call \in [Symbols -> Calls]
        /\ session \in Nat \ {0}
    <2>1. call = [s \in Symbols |-> Idle] /\ session = 1 /\ Idle \in Calls
      BY DEF EngineInit, Calls
    <2> QED BY <2>1
  <1>3. enabled \in BOOLEAN /\ trading \in [Symbols -> BOOLEAN]
    BY DEF EngineInit
  <1>4. /\ inFlight \in [Symbols -> {"", "pending", "placed"}]
        /\ openLeg \in [Symbols -> Legs \cup {None}]
        /\ weekendTry \in [Symbols -> Nat \cup {None}]
        /\ current \in [Symbols -> Nat \cup {None}]
        /\ rep \in [Symbols -> ReportsAt(Nat) \cup {None}]
    BY DEF EngineInit
  <1> QED BY <1>1, <1>2, <1>3, <1>4 DEF EngineTypes

-----------------------------------------------------------------------------
(* Calls and orders *)

LEMMA FloorType ==
    ASSUME NEW t \in Nat
    PROVE  Floor(t) \in Nat
  BY MarketTimeAssumption DEF Floor

\* What leaves submit by `resume` is a call.
LEMMA ReturnType ==
    ASSUME call \in [Symbols -> Calls], NEW s \in Symbols, NEW resume \in Nat \cup {None},
           Return(s, resume)
    PROVE  call' \in [Symbols -> Calls]
  <1>1. CASE resume = None
    BY <1>1 DEF Return, Goto, Calls, Idle
  <1>2. CASE resume # None
    <2>1. resume \in Nat
      BY <1>2
    <2>2. [stage |-> "aggregate", tick |-> resume] \in Calls
      BY <2>1 DEF Calls
    <2> QED BY <1>2, <2>2 DEF Return, Goto
  <1> QED BY <1>1, <1>2

\* A call in submit's second half carries an order and what comes after it.
LEMMA OrderStages ==
    ASSUME NEW c \in Calls, c.stage \in {"reserve", "place", "confirm"}
    PROVE  /\ c.order \in Orders
           /\ c.resume \in Nat \cup {None}
           /\ c = [stage |-> c.stage, order |-> c.order, resume |-> c.resume]
  BY DEF Calls, Idle

LEMMA SubmitStage ==
    ASSUME NEW c \in Calls, c.stage = "submit"
    PROVE  /\ c.sig \in Signals
           /\ c.resume \in Nat \cup {None}
  BY DEF Calls, Idle

LEMMA TickStage ==
    ASSUME NEW c \in Calls, c.stage \in {"weekendGates", "aggregate"}
    PROVE  c.tick \in Nat
  BY DEF Calls, Idle

\* Reversal and Evaluate turn a signal into a well-formed order.
LEMMA OrderType ==
    ASSUME NEW s \in Symbols, NEW sig \in Signals,
           NEW open \in [Symbols -> Holdings]
    PROVE  /\ ApplyReversal(sig, open[s]) \in Signals
           /\ OrderOf(s, sig, open) \in Orders
  BY DEF ApplyReversal, OrderOf, Orders, Signals, ExitSignals, EntrySignals,
         EntrySide, Opposite, Sides

-----------------------------------------------------------------------------
(* The sections of a tick *)

\* Every section of a tick keeps the types.
LEMMA SectionTypes ==
    ASSUME EngineTypes, NEW s \in Symbols, NEW connected,
           \/ \E t \in Nat : CheckWeekend(s, t)
           \/ WeekendGates(s, connected) \/ Aggregate(s) \/ BarGates(s, connected)
           \/ \E open \in [Symbols -> Holdings] \cup {None},
                 account \in AccountAnswers, blocks \in BOOLEAN :
                Decide(s, open, account, blocks)
           \/ Reserve(s) \/ Confirm(s)
    PROVE  EngineTypes' /\ UNCHANGED <<fills, journal>>
  <1>1. ASSUME NEW t \in Nat, CheckWeekend(s, t)
        PROVE  call' \in [Symbols -> Calls]
    <2>1. [stage |-> "aggregate", tick |-> t] \in Calls
      BY DEF Calls
    <2>2. [stage |-> "weekendGates", tick |-> t, enabled |-> enabled] \in Calls
      BY DEF Calls, EngineTypes
    <2> QED BY <1>1, <2>1, <2>2 DEF CheckWeekend, Goto, EngineTypes
  <1>2. ASSUME WeekendGates(s, connected)
        PROVE  /\ call' \in [Symbols -> Calls]
               /\ weekendTry' \in [Symbols -> Nat \cup {None}]
    <2>1. call[s].tick \in Nat
      BY <1>2, TickStage DEF WeekendGates, EngineTypes
    <2>2. CASE call[s].enabled /\ trading[s] /\ connected
      <3>1. [stage |-> "submit", sig |-> "EXIT", lastOfWeek |-> FALSE,
             resume |-> call[s].tick] \in Calls
        BY <2>1 DEF Calls, Signals, ExitSignals
      <3> QED BY <1>2, <2>1, <2>2, <3>1 DEF WeekendGates, Goto, EngineTypes
    <2>3. CASE ~(call[s].enabled /\ trading[s] /\ connected)
      <3>1. Return(s, call[s].tick) /\ UNCHANGED weekendTry
        BY <1>2, <2>3 DEF WeekendGates
      <3> QED BY <2>1, <3>1, ReturnType DEF EngineTypes
    <2> QED BY <2>2, <2>3
  <1>3. ASSUME Aggregate(s)
        PROVE  /\ call' \in [Symbols -> Calls]
               /\ current' \in [Symbols -> Nat \cup {None}]
    <2>1. call[s].tick \in Nat
      BY <1>3, TickStage DEF Aggregate, EngineTypes
    <2>2. Floor(call[s].tick) \in Nat
      BY <2>1, FloorType
    <2>3. current' \in [Symbols -> Nat \cup {None}]
      BY <1>3, <2>2 DEF Aggregate, EngineTypes
    <2>4. ASSUME current[s] # None
          PROVE  [stage |-> "gates", bar |-> current[s], enabled |-> enabled,
                  blocked |-> inFlight[s] # "",
                  overdue |-> openLeg[s] # None
                              /\ HoldExpired(current[s], openLeg[s].time)] \in Calls
      <3>1. current[s] \in Nat /\ enabled \in BOOLEAN
        BY <2>4 DEF EngineTypes
      <3>2. (inFlight[s] # "") \in BOOLEAN
        OBVIOUS
      <3>3. (openLeg[s] # None /\ HoldExpired(current[s], openLeg[s].time)) \in BOOLEAN
        OBVIOUS
      <3> QED BY <3>1, <3>2, <3>3 DEF Calls
    <2>5. Idle \in Calls
      BY DEF Calls
    <2>6. call' \in [Symbols -> Calls]
      BY <1>3, <2>4, <2>5 DEF Aggregate, Goto, EngineTypes
    <2> QED BY <2>3, <2>6
  <1>4. ASSUME BarGates(s, connected)
        PROVE  call' \in [Symbols -> Calls]
    <2>1. Idle \in Calls
      BY DEF Calls
    <2>2. ASSUME NEW sig \in Signals
          PROVE  [stage |-> "submit", sig |-> sig,
                  lastOfWeek |-> ~HoldsOverWeekend
                                 /\ LastBarBeforeWeekend(call[s].bar),
                  resume |-> None] \in Calls
      <3>1. (~HoldsOverWeekend /\ LastBarBeforeWeekend(call[s].bar)) \in BOOLEAN
        OBVIOUS
      <3> QED BY <3>1 DEF Calls
    <2>3. "EXIT" \in Signals
      BY DEF Signals, ExitSignals
    <2>4. CASE Goto(s, Idle)
      BY <2>1, <2>4 DEF Goto, EngineTypes
    <2>5. CASE \E sig \in IF call[s].overdue THEN {"EXIT"} ELSE Signals :
                  Goto(s, [stage |-> "submit", sig |-> sig,
                           lastOfWeek |-> ~HoldsOverWeekend
                                          /\ LastBarBeforeWeekend(call[s].bar),
                           resume |-> None])
      <3>1. PICK sig \in Signals :
                  Goto(s, [stage |-> "submit", sig |-> sig,
                           lastOfWeek |-> ~HoldsOverWeekend
                                          /\ LastBarBeforeWeekend(call[s].bar),
                           resume |-> None])
        BY <2>3, <2>5
      <3> QED BY <2>2, <3>1 DEF Goto, EngineTypes
    <2> QED BY <1>4, <2>4, <2>5 DEF BarGates
  <1>5. ASSUME NEW open \in [Symbols -> Holdings] \cup {None}, NEW account, NEW blocks,
               Decide(s, open, account, blocks)
        PROVE  call' \in [Symbols -> Calls]
    <2>1. call[s].sig \in Signals /\ call[s].resume \in Nat \cup {None}
      BY <1>5, SubmitStage DEF Decide, EngineTypes
    <2> DEFINE sig == ApplyReversal(call[s].sig, open[s])
               order == OrderOf(s, sig, open)
    <2>2. CASE open # None /\ Goto(s, [stage |-> "reserve", order |-> order,
                                      resume |-> call[s].resume])
      <3>1. open \in [Symbols -> Holdings]
        BY <2>2
      <3>2. order \in Orders
        <4>1. sig \in Signals
          BY <2>1, <3>1, OrderType
        <4> QED BY <3>1, <4>1, OrderType
      <3>3. [stage |-> "reserve", order |-> order, resume |-> call[s].resume] \in Calls
        BY <2>1, <3>2 DEF Calls
      <3> QED BY <2>2, <3>3 DEF Goto, EngineTypes
    <2>3. CASE Return(s, call[s].resume)
      BY <2>1, <2>3, ReturnType DEF EngineTypes
    <2> QED BY <1>5, <2>2, <2>3 DEF Decide
  <1>6. ASSUME Reserve(s)
        PROVE  /\ call' \in [Symbols -> Calls]
               /\ inFlight' \in [Symbols -> {"", "pending", "placed"}]
    <2>1. /\ call[s] \in Calls
          /\ call[s].order \in Orders
          /\ call[s].resume \in Nat \cup {None}
          /\ call[s] = [stage |-> "reserve", order |-> call[s].order,
                        resume |-> call[s].resume]
      BY <1>6, OrderStages DEF Reserve, EngineTypes
    <2>2. CASE inFlight[s] # ""
      BY <1>6, <2>1, <2>2, ReturnType DEF Reserve, EngineTypes
    <2>3. CASE inFlight[s] = ""
      <3>1. [call[s] EXCEPT !.stage = "place"] \in Calls
        BY <2>1 DEF Calls
      <3> QED BY <1>6, <2>3, <3>1 DEF Reserve, Goto, EngineTypes
    <2> QED BY <2>2, <2>3
  <1>7. ASSUME Confirm(s)
        PROVE  /\ call' \in [Symbols -> Calls]
               /\ inFlight' \in [Symbols -> {"", "pending", "placed"}]
    <2>1. call[s].resume \in Nat \cup {None}
      BY <1>7, OrderStages DEF Confirm, EngineTypes
    <2>2. call' \in [Symbols -> Calls]
      BY <1>7, <2>1, ReturnType DEF Confirm, EngineTypes
    <2> QED BY <1>7, <2>2 DEF Confirm, EngineTypes
  <1>8. QED
    BY <1>1, <1>2, <1>3, <1>4, <1>5, <1>6, <1>7
       DEF EngineTypes, CheckWeekend, WeekendGates, Aggregate, BarGates,
           Decide, Reserve, Confirm

\* A section after the first belongs to a tick that is not in PlaceOrder; it pairs
\* nothing, touches no other symbol, and reserves only on its way to PlaceOrder.
LEMMA SectionFrame ==
    ASSUME EngineTypes, NEW s \in Symbols, NEW connected,
           \/ WeekendGates(s, connected) \/ Aggregate(s) \/ BarGates(s, connected)
           \/ \E open \in [Symbols -> Holdings] \cup {None},
                 account \in AccountAnswers, blocks \in BOOLEAN :
                Decide(s, open, account, blocks)
           \/ Reserve(s) \/ Confirm(s)
    PROVE  /\ UNCHANGED <<openLeg, rep>>
           /\ call[s] # Idle /\ call[s].stage # "place"
           /\ \A t \in Symbols \ {s} : call'[t] = call[t] /\ inFlight'[t] = inFlight[t]
           /\ inFlight[s] = "" => inFlight'[s] = "" \/ call'[s].stage = "place"
  <1> DEFINE Moved == \A t \in Symbols \ {s} : call'[t] = call[t]
  <1>1. call \in [Symbols -> Calls] /\ inFlight \in [Symbols -> {"", "pending", "placed"}]
    BY DEF EngineTypes
  <1>2. ASSUME NEW c, Goto(s, c)
        PROVE  Moved /\ call'[s] = c
    BY <1>1, <1>2 DEF Goto
  <1>3. ASSUME NEW resume, Return(s, resume)
        PROVE  Moved
    BY <1>2, <1>3 DEF Return
  <1>4. ASSUME call[s].stage \in {"weekendGates", "aggregate", "gates", "submit", "reserve",
                                 "confirm"}
        PROVE  call[s] # Idle /\ call[s].stage # "place"
    BY <1>4 DEF Idle
  <1>5. CASE WeekendGates(s, connected)
    BY <1>2, <1>3, <1>4, <1>5 DEF WeekendGates
  <1>6. CASE Aggregate(s)
    BY <1>2, <1>4, <1>6 DEF Aggregate
  <1>7. CASE BarGates(s, connected)
    BY <1>2, <1>4, <1>7 DEF BarGates
  <1>8. ASSUME NEW open, NEW account, NEW blocks, Decide(s, open, account, blocks)
        PROVE  /\ UNCHANGED <<openLeg, rep, inFlight>> /\ Moved
               /\ call[s] # Idle /\ call[s].stage # "place"
    BY <1>2, <1>3, <1>4, <1>8 DEF Decide
  <1>9. CASE Reserve(s)
    <2>1. call[s].stage = "reserve" /\ UNCHANGED <<openLeg, rep>>
      BY <1>9 DEF Reserve
    <2>2. CASE inFlight[s] # ""
      BY <1>3, <1>4, <1>9, <2>1, <2>2 DEF Reserve
    <2>3. CASE inFlight[s] = ""
      <3>1. [call[s] EXCEPT !.stage = "place"].stage = "place"
        <4>1. call[s] = [stage |-> "reserve", order |-> call[s].order, resume |-> call[s].resume]
          BY <1>1, <2>1, OrderStages
        <4> QED BY <4>1
      <3>2. /\ inFlight' = [inFlight EXCEPT ![s] = "pending"]
            /\ Goto(s, [call[s] EXCEPT !.stage = "place"])
        BY <1>9, <2>3 DEF Reserve
      <3>3. Moved /\ call'[s].stage = "place"
        BY <1>2, <3>1, <3>2
      <3> QED BY <1>1, <1>4, <2>1, <3>2, <3>3
    <2> QED BY <2>2, <2>3
  <1>10. CASE Confirm(s)
    <2>1. call[s].stage = "confirm" /\ UNCHANGED <<openLeg, rep>> /\ Moved
      BY <1>3, <1>10 DEF Confirm
    <2>2. \A t \in Symbols \ {s} : inFlight'[t] = inFlight[t]
      BY <1>1, <1>10 DEF Confirm
    <2>3. inFlight[s] = "" => inFlight'[s] = ""
      BY <1>10 DEF Confirm
    <2> QED BY <1>4, <2>1, <2>2, <2>3
  <1> QED BY <1>5, <1>6, <1>7, <1>8, <1>9, <1>10

\* The orders a tick may still send from here: one for the week-end, one for the bar.
OrdersLeft(c) ==
    IF c.stage = "idle" THEN 0
    ELSE IF c.stage \in {"aggregate", "gates"} THEN 1
    ELSE IF c.stage = "weekendGates" THEN 2
    ELSE (IF c.stage = "confirm" THEN 0 ELSE 1) + (IF c.resume = None THEN 0 ELSE 1)

LEMMA OrdersLeftAtReturn ==
    ASSUME call \in [Symbols -> Calls], NEW s \in Symbols, NEW resume, Return(s, resume)
    PROVE  OrdersLeft(call'[s]) = IF resume = None THEN 0 ELSE 1
  BY DEF Return, Goto, OrdersLeft, Idle

\* No section but the end of PlaceOrder leaves fewer orders to send than were sent.
LEMMA SectionOrders ==
    ASSUME EngineTypes, NEW s \in Symbols, NEW connected,
           \/ WeekendGates(s, connected) \/ Aggregate(s) \/ BarGates(s, connected)
           \/ \E open \in [Symbols -> Holdings] \cup {None},
                 account \in AccountAnswers, blocks \in BOOLEAN :
                Decide(s, open, account, blocks)
           \/ Reserve(s) \/ Confirm(s)
    PROVE  OrdersLeft(call'[s]) <= OrdersLeft(call[s])
  <1>1. call \in [Symbols -> Calls] /\ call[s] \in Calls
    BY DEF EngineTypes
  <1>2. ASSUME NEW c, Goto(s, c)
        PROVE  call'[s] = c
    BY <1>1, <1>2 DEF Goto
  <1>3. ASSUME NEW resume, Return(s, resume)
        PROVE  OrdersLeft(call'[s]) = IF resume = None THEN 0 ELSE 1
    BY <1>1, <1>3, OrdersLeftAtReturn
  <1>4. CASE WeekendGates(s, connected)
    <2>1. call[s].stage = "weekendGates" /\ OrdersLeft(call[s]) = 2
      BY <1>4 DEF WeekendGates, OrdersLeft
    <2>2. CASE Return(s, call[s].tick)
      BY <1>3, <2>1, <2>2
    <2>3. CASE Goto(s, [stage |-> "submit", sig |-> "EXIT", lastOfWeek |-> FALSE,
                        resume |-> call[s].tick])
      <3>1. OrdersLeft(call'[s]) \in {1, 2}
        BY <1>2, <2>3 DEF OrdersLeft
      <3> QED BY <2>1, <3>1
    <2> QED BY <1>4, <2>2, <2>3 DEF WeekendGates
  <1>5. CASE Aggregate(s)
    <2>1. OrdersLeft(call[s]) = 1
      BY <1>5 DEF Aggregate, OrdersLeft
    <2> DEFINE opens == current[s] = None \/ current[s] < Floor(call[s].tick)
               gates == [stage |-> "gates", bar |-> current[s], enabled |-> enabled,
                         blocked |-> inFlight[s] # "",
                         overdue |-> openLeg[s] # None
                                     /\ HoldExpired(current[s], openLeg[s].time)]
    <2>2. call'[s].stage \in {"gates", "idle"}
      <3>1. Goto(s, IF opens /\ current[s] # None THEN gates ELSE Idle)
        BY <1>5 DEF Aggregate
      <3>2. gates.stage = "gates" /\ Idle.stage = "idle"
        BY DEF Idle
      <3> HIDE DEF opens, gates
      <3> QED BY <1>2, <3>1, <3>2
    <2> QED BY <2>1, <2>2 DEF OrdersLeft
  <1>6. CASE BarGates(s, connected)
    <2>1. OrdersLeft(call[s]) = 1
      BY <1>6 DEF BarGates, OrdersLeft
    <2>2. call'[s] = Idle \/ (call'[s].stage = "submit" /\ call'[s].resume = None)
      <3>1. CASE Goto(s, Idle)
        BY <1>2, <3>1
      <3>2. CASE ~Goto(s, Idle)
        <4>1. PICK sig : Goto(s, [stage |-> "submit", sig |-> sig,
                                  lastOfWeek |-> ~HoldsOverWeekend
                                                 /\ LastBarBeforeWeekend(call[s].bar),
                                  resume |-> None])
          BY <1>6, <3>2 DEF BarGates
        <4> QED BY <1>2, <4>1
      <3> QED BY <3>1, <3>2
    <2> QED BY <2>1, <2>2 DEF OrdersLeft, Idle
  <1>7. ASSUME NEW open, NEW account, NEW blocks, Decide(s, open, account, blocks)
        PROVE  OrdersLeft(call'[s]) <= OrdersLeft(call[s])
    <2>1. OrdersLeft(call[s]) = 1 + (IF call[s].resume = None THEN 0 ELSE 1)
      BY <1>7 DEF Decide, OrdersLeft
    <2>2. CASE Return(s, call[s].resume)
      BY <1>3, <2>1, <2>2
    <2>3. CASE ~Return(s, call[s].resume)
      <3>1. call'[s].stage = "reserve" /\ call'[s].resume = call[s].resume
        BY <1>2, <1>7, <2>3 DEF Decide
      <3> QED BY <2>1, <3>1 DEF OrdersLeft
    <2> QED BY <2>2, <2>3
  <1>8. CASE Reserve(s)
    <2>1. call[s] = [stage |-> "reserve", order |-> call[s].order, resume |-> call[s].resume]
      BY <1>1, <1>8, OrderStages DEF Reserve
    <2>2. OrdersLeft(call[s]) = 1 + (IF call[s].resume = None THEN 0 ELSE 1)
      BY <1>8 DEF Reserve, OrdersLeft
    <2>3. CASE Return(s, call[s].resume)
      BY <1>3, <2>2, <2>3
    <2>4. CASE Goto(s, [call[s] EXCEPT !.stage = "place"])
      <3>1. [call[s] EXCEPT !.stage = "place"]
               = [stage |-> "place", order |-> call[s].order, resume |-> call[s].resume]
        BY <2>1
      <3>2. call'[s].stage = "place" /\ call'[s].resume = call[s].resume
        BY <1>2, <2>4, <3>1
      <3> QED BY <2>2, <3>2 DEF OrdersLeft
    <2> QED BY <1>8, <2>3, <2>4 DEF Reserve
  <1>9. CASE Confirm(s)
    <2>1. call[s].stage = "confirm" /\ Return(s, call[s].resume)
      BY <1>9 DEF Confirm
    <2>2. CASE call[s].resume = None
      BY <1>3, <2>1, <2>2 DEF OrdersLeft
    <2>3. CASE call[s].resume # None
      BY <1>3, <2>1, <2>3 DEF OrdersLeft
    <2> QED BY <2>2, <2>3
  <1> QED BY <1>4, <1>5, <1>6, <1>7, <1>8, <1>9

-----------------------------------------------------------------------------
(* HandleExecution *)

\* Its first section keeps the types, whatever the report.
LEMMA ReleaseTypes ==
    ASSUME EngineTypes, NEW s \in Symbols, NEW r \in ReportsAt(Nat), Release(s, r),
           UNCHANGED call
    PROVE  EngineTypes'
  BY DEF Release, EngineTypes

\* Its second section too: a tracked entry points at a handled fill.
LEMMA PairTypes ==
    ASSUME EngineTypes, NEW s \in Symbols, NEW written, Pair(s, written),
           Len(fills[s]) \in Nat \ {0}
    PROVE  EngineTypes'
  <1>1. rep[s] \in ReportsAt(Nat)
    BY DEF Pair, EngineTypes
  <1>2. [side |-> rep[s].side, time |-> rep[s].time, fill |-> Len(fills[s])] \in Legs
    BY <1>1 DEF ReportsAt, Legs
  <1> QED BY <1>2 DEF Pair, EngineTypes

\* PlaceOrder failed, or answered an order that is still to be confirmed.
LEMMA PlacedTypes ==
    ASSUME EngineTypes, NEW s \in Symbols, call[s].stage = "place",
           \/ PlaceFailed(s)
           \/ /\ Goto(s, [call[s] EXCEPT !.stage = "confirm"])
              /\ UNCHANGED <<enabled, trading, session, inFlight, openLeg,
                             weekendTry, current, rep, fills, journal>>
    PROVE  EngineTypes' /\ UNCHANGED <<fills, journal>>
  <1>1. /\ call[s] \in Calls
        /\ call[s].order \in Orders
        /\ call[s].resume \in Nat \cup {None}
        /\ call[s] = [stage |-> "place", order |-> call[s].order,
                      resume |-> call[s].resume]
    BY OrderStages DEF EngineTypes
  <1>2. CASE PlaceFailed(s)
    <2>1. call' \in [Symbols -> Calls]
      BY <1>1, <1>2, ReturnType DEF PlaceFailed, EngineTypes
    <2> QED BY <1>2, <2>1 DEF PlaceFailed, EngineTypes
  <1>3. CASE ~PlaceFailed(s)
    <2>1. [call[s] EXCEPT !.stage = "confirm"] \in Calls
      BY <1>1 DEF Calls
    <2> QED BY <1>3, <2>1 DEF Goto, EngineTypes
  <1> QED BY <1>2, <1>3

\* The operator's switches, and a new engine.
LEMMA SwitchTypes ==
    ASSUME EngineTypes,
           \/ \E on \in BOOLEAN : SetEnabled(on) \/ NewEngine(on)
           \/ \E s \in Symbols, on \in BOOLEAN : SetTrading(s, on)
    PROVE  EngineTypes' /\ UNCHANGED <<fills, journal>>
  <1>1. ASSUME NEW on \in BOOLEAN, NewEngine(on)
        PROVE  EngineTypes' /\ UNCHANGED <<fills, journal>>
    <2>1. session' \in Nat \ {0}
      <3>1. session \in Nat \ {0} /\ session' = session + 1
        BY <1>1 DEF NewEngine, EngineTypes
      <3> QED BY <3>1
    <2> QED BY <1>1, <2>1 DEF NewEngine, EngineTypes
  <1>2. ASSUME NEW on \in BOOLEAN, SetEnabled(on)
        PROVE  EngineTypes' /\ UNCHANGED <<fills, journal>>
    BY <1>2 DEF SetEnabled, EngineTypes
  <1>3. ASSUME NEW s \in Symbols, NEW on \in BOOLEAN, SetTrading(s, on)
        PROVE  EngineTypes' /\ UNCHANGED <<fills, journal>>
    BY <1>3 DEF SetTrading, EngineTypes
  <1> QED BY <1>1, <1>2, <1>3
=============================================================================

----------------------------- MODULE ReplayProofs -----------------------------
(***************************************************************************)
(* Theorems about ReplayTrading, for every set of symbols, every history,  *)
(* every strategy and every number of toggles and sessions: between two    *)
(* ticks the engine tracks the position the broker holds, the journal has  *)
(* every close once, and no reservation is left; a switch turned off       *)
(* leaves at most one entry under way; the exits of the week-end and of    *)
(* the horizon are on time; and the whole is the engine in front of a      *)
(* gateway of the interface (AnyGateway).                                  *)
(***************************************************************************)
EXTENDS ReplayTrading, EngineProofs, Integers

FillRecords == [side : Sides, closing : BOOLEAN, session : Nat]
TradeRecords == [side : Sides, entry : Nat, exit : Nat]

Types ==
    /\ TypeOK /\ EngineTypes
    /\ history \in Histories
    /\ fills \in [Symbols -> Seq(FillRecords)]
    /\ journal \in [Symbols -> Seq(TradeRecords)]

-----------------------------------------------------------------------------
(* What holds of a symbol in every state, not only between two ticks *)

\* A fill the engine has not paired yet, about to be reported or half handled.
Unpaired(s) == rep[s] # None \/ (emit[s] # None /\ emit[s].status = "FILLED")

Fill(s) == IF rep[s] # None THEN rep[s] ELSE emit[s]

\* The position and the journal, with such a fill on its way and without.
Followed(s) ==
    /\ ~Unpaired(s) =>
          /\ positions[s] = IF openLeg[s] = None THEN Flat ELSE openLeg[s].side
          /\ Len(journal[s]) = closes[s]
    /\ Unpaired(s) /\ Fill(s).closing =>
          /\ openLeg[s] # None /\ openLeg[s].side # Fill(s).side
          /\ positions[s] = Flat /\ Len(journal[s]) + 1 = closes[s]
    /\ Unpaired(s) /\ ~Fill(s).closing =>
          /\ openLeg[s] = None
          /\ positions[s] = Fill(s).side /\ Len(journal[s]) = closes[s]

\* PlaceOrder has executed, or refused, the order of the call.
Answered(s) == call[s].stage = "place" /\ result[s] # None

\* Where a report and a reservation may be: a report inside checkBarriers or
\* inside PlaceOrder, one at a time; a reservation inside PlaceOrder until the
\* report of its order has freed it.
Placed(s) ==
    /\ emit[s] = None \/ rep[s] = None
    /\ emit[s] # None \/ rep[s] # None => call[s] = Idle \/ Answered(s)
    /\ result[s] # None => Answered(s)
    /\ inFlight[s] # "" => call[s].stage = "place" /\ (result[s] = "ok" => emit[s] # None)
    /\ rep[s] # None => rep[s].status = "FILLED" /\ Len(fills[s]) > 0

\* A callback runs between the read of its bar and the next one.
Fed(s) ==
    /\ feed[s].pc # "wait" => call[s] = Idle
    /\ feed[s].pc = "stopped" \/ feed[s].read = 0 => Quiet(s) /\ feed[s].pc # "bar"

Sound(s) == Followed(s) /\ Placed(s) /\ Fed(s)

Down == link = "down" => \A s \in Symbols : feed[s].pc = "stopped"

IInv == Types /\ (\A s \in Symbols : Sound(s)) /\ Down

-----------------------------------------------------------------------------
(* Types of the history and of the reports *)

LEMMA HistoryType ==
  ASSUME Types
  PROVE  history \in Seq(Nat) /\ Len(history) \in Nat
<1>1. history \in Seq(Nat)
  <2>1. Histories \subseteq Seq(Nat)
    BY ReplayAssumption
  <2> QED BY <2>1 DEF Types
<1> QED BY <1>1

LEMMA TimeType ==
  ASSUME Types, NEW s \in Symbols, feed[s].read # 0
  PROVE  LastTime(s) \in Nat
<1>1. feed[s].read \in 1..Len(history)
  <2>1. feed[s] \in [read : 0..Len(history), pc : {"wait", "bar", "stopped"}]
    BY DEF Types, TypeOK
  <2>2. feed[s].read \in 0..Len(history)
    BY <2>1
  <2> QED BY <2>2, HistoryType
<1> QED BY <1>1, HistoryType DEF LastTime

LEMMA NoneIsNoAnswer == None # "ok" /\ None # "error"
  BY ReplayAssumption

LEMMA OppositeSide ==
  ASSUME NEW side \in Sides
  PROVE  Opposite(side) \in Sides /\ Opposite(side) # side /\ side # Flat
  BY DEF Opposite, Sides, Flat

\* Outside the callbacks nothing is being reported and nothing is reserved.
LEMMA WhenQuiet ==
  ASSUME NEW s \in Symbols, Sound(s), Quiet(s)
  PROVE  /\ emit[s] = None /\ rep[s] = None /\ result[s] = None /\ inFlight[s] = ""
         /\ ~Unpaired(s)
<1>1. call[s] = Idle /\ emit[s] = None /\ rep[s] = None
  BY DEF Quiet
<1>2. call[s].stage # "place"
  BY <1>1 DEF Idle
<1> QED BY <1>1, <1>2 DEF Sound, Placed, Answered, Unpaired

\* A call that is not the symbol's changes nothing of what holds of the symbol.
LEMMA Elsewhere ==
  ASSUME NEW t \in Symbols, Sound(t),
         UNCHANGED <<call[t], rep[t], emit[t], result[t], openLeg[t], inFlight[t],
                     positions[t], closes[t], journal[t], fills[t], feed[t]>>
  PROVE  Sound(t)'
  BY DEF Sound, Followed, Placed, Fed, Unpaired, Fill, Answered, Quiet

-----------------------------------------------------------------------------
LEMMA InitHolds == Init => IInv
<1> SUFFICES ASSUME Init PROVE IInv
  OBVIOUS
<1>0. StrategyEnabled \in BOOLEAN /\ MaxToggles \in Nat /\ Histories \subseteq Seq(Nat)
  BY ReplayAssumption
<1>1. [s \in Symbols |-> TRUE] \in [Symbols -> BOOLEAN]
  OBVIOUS
<1>2. /\ EngineTypes
      /\ fills \in [Symbols -> Seq(FillRecords)]
      /\ journal \in [Symbols -> Seq(TradeRecords)]
  BY <1>0, <1>1, InitTypes DEF Init
<1>3. TypeOK
  <2>1. history \in Histories /\ Len(history) \in Nat
    BY <1>0 DEF Init
  <2>2. feed \in [Symbols -> [read : 0..Len(history), pc : {"wait", "bar", "stopped"}]]
    BY <2>1 DEF Init, FreshFeed
  <2>3. /\ emit \in [Symbols -> ReportsAt(Nat) \cup {None}]
        /\ result \in [Symbols -> {"ok", "error", None}]
        /\ positions \in [Symbols -> Holdings]
    BY DEF Init, Holdings
  <2>4. /\ closes \in [Symbols -> Nat] /\ late \in [Symbols -> Nat]
        /\ toggles \in 0..MaxToggles /\ link \in {"up", "closing", "down"}
    BY <1>0 DEF Init
  <2> QED BY <1>2, <2>2, <2>3, <2>4 DEF TypeOK, EngineTypes
<1>4. Types
  BY <1>2, <1>3 DEF Types, Init
<1>5. ASSUME NEW s \in Symbols PROVE Sound(s)
  BY <1>5 DEF Init, EngineInit, FreshFeed, Sound, Followed, Placed, Fed, Unpaired, Fill,
     Answered, Quiet, Idle
<1>6. Down
  BY DEF Init, Down
<1> QED BY <1>4, <1>5, <1>6 DEF IInv

-----------------------------------------------------------------------------
(* The engine's sections *)

\* In a section of the engine outside PlaceOrder nothing is being reported.
LEMMA InSection ==
  ASSUME IInv, NEW s \in Symbols, call[s] # Idle, call[s].stage # "place"
  PROVE  /\ emit[s] = None /\ rep[s] = None /\ result[s] = None /\ inFlight[s] = ""
         /\ feed[s].pc = "wait" /\ feed[s].read # 0
         /\ ~Unpaired(s) /\ link # "down"
<1>1. Sound(s) /\ Down
  BY DEF IInv
<1>2. emit[s] = None /\ rep[s] = None /\ result[s] = None /\ inFlight[s] = ""
  BY <1>1 DEF Sound, Placed, Answered
<1>3. feed[s].pc = "wait" /\ feed[s].read # 0
  BY <1>1 DEF Sound, Fed, Quiet
<1>4. link # "down"
  BY <1>1, <1>3 DEF Down
<1> QED BY <1>2, <1>3, <1>4 DEF Unpaired

LEMMA StepIsSection ==
  ASSUME IInv, NEW s \in Symbols, EngineStep(s)
  PROVE  /\ EngineTypes
         /\ \/ WeekendGates(s, Connected) \/ Aggregate(s) \/ BarGates(s, Connected)
            \/ \E open \in [Symbols -> Holdings] \cup {None},
                  account \in AccountAnswers, blocks \in BOOLEAN :
                 Decide(s, open, account, blocks)
            \/ Reserve(s) \/ Confirm(s)
<1>1. EngineTypes /\ positions \in [Symbols -> Holdings]
  BY DEF IInv, Types, TypeOK
<1>2. CASE DecideOnAnswers(s)
  <2>1. PICK account \in AccountAnswers, blocks \in BOOLEAN :
               Decide(s, IF Connected THEN positions ELSE None, account, blocks)
    BY <1>2 DEF DecideOnAnswers, AccountAnswers
  <2> QED BY <1>1, <2>1
<1> QED BY <1>1, <1>2 DEF EngineStep

LEMMA SectionKeeps ==
  ASSUME IInv, NEW s \in Symbols, EngineStep(s)
  PROVE  IInv'
<1>1. EngineTypes /\ positions \in [Symbols -> Holdings] /\ UNCHANGED brokerVars
  BY DEF IInv, Types, TypeOK, EngineStep
<1>2. \/ WeekendGates(s, Connected) \/ Aggregate(s) \/ BarGates(s, Connected)
      \/ \E open \in [Symbols -> Holdings] \cup {None},
            account \in AccountAnswers, blocks \in BOOLEAN :
           Decide(s, open, account, blocks)
      \/ Reserve(s) \/ Confirm(s)
  BY StepIsSection
<1>3. /\ UNCHANGED <<openLeg, rep>>
      /\ call[s] # Idle /\ call[s].stage # "place"
      /\ \A t \in Symbols \ {s} : call'[t] = call[t] /\ inFlight'[t] = inFlight[t]
      /\ inFlight[s] = "" => inFlight'[s] = "" \/ call'[s].stage = "place"
  BY <1>1, <1>2, SectionFrame
<1>4. /\ emit[s] = None /\ rep[s] = None /\ result[s] = None /\ inFlight[s] = ""
      /\ feed[s].pc = "wait" /\ feed[s].read # 0
      /\ ~Unpaired(s) /\ link # "down"
  BY <1>3, InSection
<1>5. EngineTypes' /\ UNCHANGED <<fills, journal>>
  BY <1>1, <1>2, SectionTypes
<1>6. Types'
  BY <1>1, <1>5 DEF IInv, Types, TypeOK, EngineTypes, brokerVars
<1>7. ASSUME NEW t \in Symbols PROVE Sound(t)'
  <2>1. Sound(t)
    BY DEF IInv
  <2>2. CASE t = s
    <3>1. /\ UNCHANGED <<openLeg[s], rep[s], fills[s], journal[s]>>
          /\ UNCHANGED <<emit[s], result[s], positions[s], closes[s], feed[s]>>
      BY <1>1, <1>3, <1>5 DEF brokerVars
    <3>2. Followed(s)'
      BY <1>4, <2>1, <2>2, <3>1 DEF Sound, Followed, Unpaired
    <3>3. Placed(s)' /\ Fed(s)'
      BY <1>3, <1>4, <3>1, NoneIsNoAnswer DEF Placed, Fed
    <3> QED BY <2>2, <3>2, <3>3 DEF Sound
  <2>3. CASE t # s
    BY <1>1, <1>3, <1>5, <2>1, <2>3, Elsewhere DEF brokerVars
  <2> QED BY <2>2, <2>3
<1> QED BY <1>1, <1>4, <1>6, <1>7 DEF IInv, Down, brokerVars

LEMMA TickKeeps ==
  ASSUME IInv, NEW s \in Symbols, Tick(s)
  PROVE  IInv'
<1>1. /\ UNCHANGED <<fills, journal, openLeg, rep, inFlight>>
      /\ UNCHANGED <<history, link, positions, emit, result, closes, late, toggles>>
      /\ call'[s] # Idle /\ call'[s].stage # "place"
      /\ \A t \in Symbols \ {s} : call'[t] = call[t] /\ feed'[t] = feed[t]
      /\ feed'[s].pc = "wait" /\ feed'[s].read = feed[s].read
  BY DEF IInv, Types, TypeOK, EngineTypes, Tick, CheckWeekend, Goto, Idle
<1>2. feed[s].pc = "bar" /\ Quiet(s) /\ feed[s].read # 0 /\ link # "down"
  BY DEF Tick, IInv, Sound, Fed, Down
<1>3. Types'
  <2>1. EngineTypes'
    <3>1. EngineTypes /\ CheckWeekend(s, LastTime(s)) /\ LastTime(s) \in Nat
      BY <1>2, TimeType DEF IInv, Types, Tick
    <3> QED BY <3>1, SectionTypes
  <2>2. feed' \in [Symbols -> [read : 0..Len(history), pc : {"wait", "bar", "stopped"}]]
    BY DEF IInv, Types, TypeOK, Tick
  <2> QED BY <1>1, <2>1, <2>2 DEF IInv, Types, TypeOK, EngineTypes
<1>4. ASSUME NEW t \in Symbols PROVE Sound(t)'
  <2>1. Sound(t)
    BY DEF IInv
  <2>2. CASE t = s
    <3>1. ~Unpaired(s) /\ emit[s] = None /\ rep[s] = None /\ result[s] = None /\ inFlight[s] = ""
      BY <1>2, <2>1, <2>2, WhenQuiet
    <3>2. Followed(s)'
      BY <1>1, <2>1, <2>2, <3>1 DEF Sound, Followed, Unpaired
    <3>3. Placed(s)'
      BY <1>1, <3>1 DEF Placed
    <3>4. Fed(s)'
      BY <1>1, <1>2 DEF Fed
    <3> QED BY <2>2, <3>2, <3>3, <3>4 DEF Sound
  <2>3. CASE t # s
    BY <1>1, <2>1, <2>3, Elsewhere
  <2> QED BY <2>2, <2>3
<1> QED BY <1>1, <1>2, <1>3, <1>4 DEF IInv, Down

-----------------------------------------------------------------------------
(* The replay goroutine and the gateway *)

LEMMA NextBarKeeps ==
  ASSUME IInv, NEW s \in Symbols, NextBar(s)
  PROVE  IInv'
<1> DEFINE r == [status |-> "FILLED", side |-> Opposite(positions[s]), closing |-> TRUE,
                 time |-> history[feed[s].read + 1]]
<1>1. Sound(s) /\ Types /\ Down /\ Quiet(s) /\ feed[s].pc = "wait" /\ link # "down"
  BY DEF NextBar, IInv, Down
<1>2. /\ emit[s] = None /\ rep[s] = None /\ result[s] = None /\ inFlight[s] = ""
      /\ ~Unpaired(s)
  BY <1>1, WhenQuiet
<1>3. UNCHANGED engineVars /\ UNCHANGED <<history, link, result, late, toggles>>
  BY DEF NextBar
<1>4. /\ feed' \in [Symbols -> [read : 0..Len(history), pc : {"wait", "bar", "stopped"}]]
      /\ feed'[s].pc = "bar" /\ feed'[s].read # 0
      /\ \A t \in Symbols \ {s} : feed'[t] = feed[t]
  <2>1. feed[s] \in [read : 0..Len(history), pc : {"wait", "bar", "stopped"}]
        /\ feed[s].read < Len(history) /\ Len(history) \in Nat
    BY <1>1, HistoryType DEF Types, TypeOK, NextBar
  <2>2. feed[s].read + 1 \in 0..Len(history) /\ feed[s].read + 1 # 0
    BY <2>1
  <2>3. feed' = [feed EXCEPT ![s] = [read |-> feed[s].read + 1, pc |-> "bar"]]
    BY DEF NextBar
  <2> QED BY <1>1, <2>2, <2>3 DEF Types, TypeOK
<1>5. CASE UNCHANGED <<positions, emit, closes>>
  <2>1. Types'
    BY <1>1, <1>3, <1>4, <1>5 DEF Types, TypeOK, EngineTypes, engineVars
  <2>2. ASSUME NEW t \in Symbols PROVE Sound(t)'
    <3>1. Sound(t)
      BY DEF IInv
    <3>2. CASE t = s
      <4>1. Followed(s)'
        BY <1>1, <1>3, <1>5 DEF Sound, Followed, Unpaired, Fill, engineVars
      <4>2. Placed(s)'
        BY <1>1, <1>3, <1>5 DEF Sound, Placed, Answered, engineVars
      <4>3. Fed(s)'
        BY <1>1, <1>3, <1>4 DEF Fed, Quiet, engineVars
      <4> QED BY <3>2, <4>1, <4>2, <4>3 DEF Sound
    <3>3. CASE t # s
      BY <1>3, <1>4, <1>5, <3>1, <3>3, Elsewhere DEF engineVars
    <3> QED BY <3>2, <3>3
  <2> QED BY <1>1, <1>3, <2>1, <2>2 DEF IInv, Down
<1>6. CASE /\ positions[s] # Flat
           /\ positions' = [positions EXCEPT ![s] = Flat]
           /\ closes' = [closes EXCEPT ![s] = @ + 1]
           /\ emit' = [emit EXCEPT ![s] = r]
  <2>1. positions[s] \in Sides /\ openLeg[s] # None /\ openLeg[s].side = positions[s]
        /\ Len(journal[s]) = closes[s] /\ closes[s] \in Nat
    BY <1>1, <1>2, <1>6 DEF Types, TypeOK, Holdings, Sound, Followed
  <2>2. r \in ReportsAt(Nat) /\ r # None /\ r.status = "FILLED" /\ r.closing
        /\ r.side # openLeg[s].side
    <3>1. history[feed[s].read + 1] \in Nat
      <4>1. feed[s] \in [read : 0..Len(history), pc : {"wait", "bar", "stopped"}]
            /\ feed[s].read < Len(history) /\ history \in Seq(Nat) /\ Len(history) \in Nat
        BY <1>1, HistoryType DEF Types, TypeOK, NextBar
      <4>2. feed[s].read + 1 \in 1..Len(history)
        BY <4>1
      <4> QED BY <4>1, <4>2
    <3>2. r \in ReportsAt(Nat)
      BY <2>1, <3>1, OppositeSide DEF ReportsAt
    <3> QED BY <2>1, <3>2, OppositeSide, ReportsAssumption
  <2>3. /\ emit'[s] = r /\ positions'[s] = Flat /\ closes'[s] = closes[s] + 1
        /\ \A t \in Symbols \ {s} : UNCHANGED <<emit[t], positions[t], closes[t]>>
    BY <1>1, <1>6 DEF Types, TypeOK
  <2>4. Types'
    <3>1. emit' \in [Symbols -> ReportsAt(Nat) \cup {None}]
      <4> HIDE DEF r
      <4> QED BY <1>1, <1>6, <2>2 DEF Types, TypeOK
    <3>2. positions' \in [Symbols -> Holdings] /\ closes' \in [Symbols -> Nat]
      <4>1. positions \in [Symbols -> Holdings] /\ closes \in [Symbols -> Nat]
        BY <1>1 DEF Types, TypeOK
      <4>2. Flat \in Holdings /\ closes[s] + 1 \in Nat
        BY <2>1 DEF Holdings
      <4> QED BY <1>6, <4>1, <4>2
    <3> QED BY <1>1, <1>3, <1>4, <3>1, <3>2 DEF Types, TypeOK, EngineTypes, engineVars
  <2>5. ASSUME NEW t \in Symbols PROVE Sound(t)'
    <3>1. Sound(t)
      BY DEF IInv
    <3>2. CASE t = s
      <4>1. Unpaired(s)' /\ Fill(s)' = r
        BY <1>2, <1>3, <2>2, <2>3 DEF Unpaired, Fill, engineVars
      <4>2. Followed(s)'
        BY <1>3, <2>1, <2>2, <2>3, <4>1 DEF Followed, engineVars
      <4>3. Placed(s)'
        BY <1>1, <1>2, <1>3 DEF Placed, Quiet, engineVars
      <4>4. Fed(s)'
        BY <1>1, <1>3, <1>4 DEF Fed, Quiet, engineVars
      <4> QED BY <3>2, <4>2, <4>3, <4>4 DEF Sound
    <3>3. CASE t # s
      BY <1>3, <1>4, <2>3, <3>1, <3>3, Elsewhere DEF engineVars
    <3> QED BY <3>2, <3>3
  <2> QED BY <1>1, <1>3, <2>4, <2>5 DEF IInv, Down
<1> QED BY <1>5, <1>6 DEF NextBar

LEMMA StopKeeps ==
  ASSUME IInv, NEW s \in Symbols, Stop(s)
  PROVE  IInv'
<1>1. Types /\ Sound(s) /\ Quiet(s) /\ link # "down"
  BY DEF Stop, IInv, Down
<1>2. /\ UNCHANGED <<engineVars, history, link, positions, emit, result, closes, late, toggles>>
      /\ feed' = [feed EXCEPT ![s].pc = "stopped"]
  BY DEF Stop
<1>3. /\ feed' \in [Symbols -> [read : 0..Len(history), pc : {"wait", "bar", "stopped"}]]
      /\ feed'[s].pc = "stopped"
      /\ \A t \in Symbols \ {s} : feed'[t] = feed[t]
  BY <1>1, <1>2 DEF Types, TypeOK
<1>4. Types'
  BY <1>1, <1>2, <1>3 DEF Types, TypeOK, EngineTypes, engineVars
<1>5. ASSUME NEW t \in Symbols PROVE Sound(t)'
  <2>1. Sound(t)
    BY DEF IInv
  <2>2. CASE t = s
    <3>1. Followed(s)'
      BY <1>1, <1>2 DEF Sound, Followed, Unpaired, Fill, engineVars
    <3>2. Placed(s)'
      BY <1>1, <1>2 DEF Sound, Placed, Answered, engineVars
    <3>3. Fed(s)'
      BY <1>1, <1>2, <1>3 DEF Fed, Quiet, engineVars
    <3> QED BY <2>2, <3>1, <3>2, <3>3 DEF Sound
  <2>3. CASE t # s
    BY <1>2, <1>3, <2>1, <2>3, Elsewhere DEF engineVars
  <2> QED BY <2>2, <2>3
<1> QED BY <1>1, <1>2, <1>4, <1>5 DEF IInv, Down

\* PlaceOrder answers, with or without a report: what is left to see is that the
\* position, the journal and the report go together.
LEMMA AnswerKeeps ==
  ASSUME IInv, NEW s \in Symbols, call[s].stage = "place", result[s] = None,
         NEW report \in ReportsAt(Nat) \cup {None}, NEW outcome \in {"ok", "error"},
         outcome = "ok" => report # None,
         emit' = [emit EXCEPT ![s] = report], result' = [result EXCEPT ![s] = outcome],
         positions' \in [Symbols -> Holdings], closes' \in [Symbols -> Nat],
         late' \in [Symbols -> Nat],
         \A t \in Symbols \ {s} : UNCHANGED <<positions[t], closes[t]>>,
         UNCHANGED <<engineVars, history, link, feed, toggles>>, Followed(s)'
  PROVE  IInv'
<1>1. Types /\ Down /\ Sound(s)
  BY DEF IInv
<1>2. call[s] # Idle /\ outcome # None
  BY NoneIsNoAnswer DEF Idle
<1>3. rep[s] = None
  BY <1>1, <1>2 DEF Sound, Placed, Answered
<1>4. /\ emit'[s] = report /\ result'[s] = outcome
      /\ \A t \in Symbols \ {s} : UNCHANGED <<emit[t], result[t]>>
  BY <1>1 DEF Types, TypeOK
<1>5. Types'
  <2>1. /\ emit' \in [Symbols -> ReportsAt(Nat) \cup {None}]
        /\ result' \in [Symbols -> {"ok", "error", None}]
    BY <1>1 DEF Types, TypeOK
  <2> QED BY <1>1, <2>1 DEF Types, TypeOK, EngineTypes, engineVars
<1>6. Placed(s)'
  BY <1>1, <1>2, <1>3, <1>4 DEF Sound, Placed, Answered, engineVars
<1>7. Fed(s)'
  BY <1>1, <1>2 DEF Sound, Fed, Quiet, engineVars
<1>8. ASSUME NEW t \in Symbols PROVE Sound(t)'
  <2>1. CASE t = s
    BY <1>6, <1>7, <2>1 DEF Sound
  <2>2. CASE t # s
    BY <1>4, <2>2, Elsewhere DEF IInv, engineVars
  <2> QED BY <2>1, <2>2
<1> QED BY <1>1, <1>5, <1>8 DEF IInv, Down

LEMMA PlaceOrderKeeps ==
  ASSUME IInv, NEW s \in Symbols, PlaceOrder(s)
  PROVE  IInv'
<1> DEFINE order == call[s].order
           rejected == [status |-> "REJECTED", side |-> order.side, closing |-> FALSE,
                        time |-> LastTime(s)]
<1>1. /\ Types /\ Sound(s) /\ call[s].stage = "place" /\ result[s] = None
      /\ UNCHANGED <<engineVars, history, link, feed, toggles>>
  BY DEF IInv, PlaceOrder
<1>2. /\ emit[s] = None /\ rep[s] = None /\ ~Unpaired(s) /\ feed[s].read # 0
  <2>1. call[s] # Idle /\ ~Answered(s)
    BY <1>1 DEF Idle, Answered
  <2> QED BY <1>1, <2>1 DEF Sound, Placed, Fed, Quiet, Unpaired
<1>3. order.side \in Sides /\ LastTime(s) \in Nat
  <2>1. call[s] \in Calls
    BY <1>1 DEF Types, TypeOK
  <2>2. order \in Orders
    BY <1>1, <2>1, OrderStages
  <2> QED BY <1>1, <1>2, <2>2, TimeType DEF Orders
<1>4. /\ positions[s] = IF openLeg[s] = None THEN Flat ELSE openLeg[s].side
      /\ Len(journal[s]) = closes[s] /\ closes[s] \in Nat
      /\ positions \in [Symbols -> Holdings] /\ closes \in [Symbols -> Nat]
      /\ late \in [Symbols -> Nat]
      /\ emit \in [Symbols -> ReportsAt(Nat) \cup {None}]
      /\ openLeg[s] \in Legs \cup {None}
  BY <1>1, <1>2 DEF Types, TypeOK, EngineTypes, Sound, Followed
<1>5. rejected \in ReportsAt(Nat) /\ rejected # None /\ rejected.status # "FILLED"
  <2>1. rejected \in ReportsAt(Nat)
    BY <1>3 DEF ReportsAt
  <2> QED BY <2>1, ReportsAssumption
<1>6. ASSUME NEW closing \in BOOLEAN
      PROVE  /\ Filled(s, order.side, closing) \in ReportsAt(Nat)
             /\ Filled(s, order.side, closing) # None
             /\ Filled(s, order.side, closing).status = "FILLED"
             /\ Filled(s, order.side, closing).closing = closing
             /\ Filled(s, order.side, closing).side = order.side
  BY <1>3, ReportsAssumption DEF ReportsAt, Filled
<1>7. ASSUME UNCHANGED <<positions, closes, late>>,
             NEW report \in {None, rejected}, NEW outcome \in {"ok", "error"},
             outcome = "ok" => report # None,
             emit' = [emit EXCEPT ![s] = report], result' = [result EXCEPT ![s] = outcome]
      PROVE  IInv'
  <2>1. ~Unpaired(s)'
    <3>1. emit'[s] = report /\ rep'[s] = None
      BY <1>1, <1>2, <1>4, <1>7 DEF engineVars
    <3> QED BY <1>5, <3>1 DEF Unpaired
  <2>2. Followed(s)'
    BY <1>1, <1>4, <1>7, <2>1 DEF Followed, engineVars
  <2> HIDE DEF rejected
  <2> QED BY <1>1, <1>4, <1>5, <1>7, <2>2, AnswerKeeps
<1>8. CASE /\ positions[s] = Opposite(order.side)
           /\ positions' = [positions EXCEPT ![s] = Flat]
           /\ closes' = [closes EXCEPT ![s] = @ + 1]
           /\ emit' = [emit EXCEPT ![s] = Filled(s, order.side, TRUE)]
           /\ result' = [result EXCEPT ![s] = "ok"]
           /\ UNCHANGED late
  <2>1. openLeg[s] # None /\ openLeg[s].side # order.side
    BY <1>3, <1>4, <1>8, OppositeSide
  <2>2. /\ positions' \in [Symbols -> Holdings] /\ closes' \in [Symbols -> Nat]
        /\ late' \in [Symbols -> Nat]
        /\ positions'[s] = Flat /\ closes'[s] = closes[s] + 1
        /\ \A t \in Symbols \ {s} : UNCHANGED <<positions[t], closes[t]>>
    BY <1>4, <1>8 DEF Holdings
  <2>3. emit'[s] = Filled(s, order.side, TRUE) /\ rep'[s] = None
    BY <1>1, <1>2, <1>4, <1>8 DEF engineVars
  <2>4. /\ Unpaired(s)' /\ Fill(s)'.closing /\ Fill(s)'.side = order.side
    BY <1>6, <2>3 DEF Unpaired, Fill
  <2>5. Followed(s)'
    BY <1>1, <1>4, <2>1, <2>2, <2>4 DEF Followed, engineVars
  <2> QED BY <1>1, <1>6, <1>8, <2>2, <2>5, AnswerKeeps
<1>9. CASE /\ positions[s] = Flat
           /\ positions' = [positions EXCEPT ![s] = order.side]
           /\ late' = IF MayTrade(s) THEN late ELSE [late EXCEPT ![s] = @ + 1]
           /\ emit' = [emit EXCEPT ![s] = Filled(s, order.side, FALSE)]
           /\ result' = [result EXCEPT ![s] = "ok"]
           /\ UNCHANGED closes
  <2>1. openLeg[s] = None
    BY <1>4, <1>9 DEF Legs, Sides, Flat
  <2>2. /\ positions' \in [Symbols -> Holdings] /\ closes' \in [Symbols -> Nat]
        /\ late' \in [Symbols -> Nat]
        /\ positions'[s] = order.side /\ closes'[s] = closes[s]
        /\ \A t \in Symbols \ {s} : UNCHANGED <<positions[t], closes[t]>>
    BY <1>3, <1>4, <1>9 DEF Holdings
  <2>3. emit'[s] = Filled(s, order.side, FALSE) /\ rep'[s] = None
    BY <1>1, <1>2, <1>4, <1>9 DEF engineVars
  <2>4. /\ Unpaired(s)' /\ ~Fill(s)'.closing /\ Fill(s)'.side = order.side
    BY <1>6, <2>3 DEF Unpaired, Fill
  <2>5. Followed(s)'
    BY <1>1, <1>4, <2>1, <2>2, <2>4 DEF Followed, engineVars
  <2> QED BY <1>1, <1>6, <1>9, <2>2, <2>5, AnswerKeeps
<1>10. CASE UNCHANGED <<positions, closes, late>>
  <2>1. \/ UNCHANGED emit /\ result' = [result EXCEPT ![s] = "error"]
        \/ /\ emit' = [emit EXCEPT ![s] = rejected]
           /\ \E outcome \in {"ok", "error"} : result' = [result EXCEPT ![s] = outcome]
    BY <1>3, <1>4, <1>10, OppositeSide DEF PlaceOrder
  <2>2. UNCHANGED emit => emit' = [emit EXCEPT ![s] = None]
    BY <1>2, <1>4
  <2> HIDE DEF rejected
  <2> QED BY <1>5, <1>7, <1>10, <2>1, <2>2, NoneIsNoAnswer
<1> QED BY <1>8, <1>9, <1>10 DEF PlaceOrder

LEMMA ReportKeeps ==
  ASSUME IInv, NEW s \in Symbols, Report(s)
  PROVE  IInv'
<1> DEFINE r == emit[s]
           f == [side |-> r.side, closing |-> r.closing, session |-> session]
<1>1. /\ Types /\ Sound(s) /\ r # None /\ r \in ReportsAt(Nat) /\ Release(s, r)
      /\ emit' = [emit EXCEPT ![s] = None]
      /\ UNCHANGED <<call, history, link, positions, feed, result, closes, late, toggles>>
  BY DEF IInv, Types, TypeOK, Report
<1>2. rep[s] = None /\ (call[s] = Idle \/ Answered(s)) /\ ~Quiet(s)
  BY <1>1 DEF Sound, Placed, Quiet
<1>3. /\ UNCHANGED <<openLeg, journal>>
      /\ inFlight' = [inFlight EXCEPT ![s] = ""]
  BY <1>1 DEF Release
<1>4. /\ inFlight'[s] = "" /\ emit'[s] = None
      /\ \A t \in Symbols \ {s} : UNCHANGED <<inFlight[t], emit[t]>>
  BY <1>1, <1>3 DEF Types, TypeOK
<1>5. /\ IF r.status = "FILLED" THEN rep'[s] = r /\ Len(fills'[s]) > 0 ELSE rep'[s] = None
      /\ \A t \in Symbols \ {s} : UNCHANGED <<rep[t], fills[t]>>
      /\ fills' \in [Symbols -> Seq(FillRecords)]
  <2>1. rep \in [Symbols -> ReportsAt(Nat) \cup {None}]
        /\ fills \in [Symbols -> Seq(FillRecords)] /\ fills[s] \in Seq(FillRecords)
    BY <1>1 DEF Types, EngineTypes
  <2>2. CASE r.status = "FILLED"
    <3>1. rep' = [rep EXCEPT ![s] = r] /\ fills' = [fills EXCEPT ![s] = Append(fills[s], f)]
      BY <1>1, <2>2 DEF Release
    <3>2. f \in FillRecords
      BY <1>1 DEF ReportsAt, FillRecords, Types, EngineTypes
    <3>3. Append(fills[s], f) \in Seq(FillRecords) /\ Len(Append(fills[s], f)) > 0
      <4> HIDE DEF f
      <4> QED BY <2>1, <3>2
    <3> HIDE DEF f
    <3> QED BY <2>1, <2>2, <3>1, <3>3
  <2>3. CASE r.status # "FILLED"
    BY <1>1, <1>2, <2>1, <2>3 DEF Release
  <2> QED BY <2>2, <2>3
<1>6. Types'
  <2>1. EngineTypes'
    BY <1>1, ReleaseTypes DEF Types
  <2>2. emit' \in [Symbols -> ReportsAt(Nat) \cup {None}]
        /\ journal' \in [Symbols -> Seq(TradeRecords)]
    BY <1>1, <1>3 DEF Types, TypeOK
  <2> QED BY <1>1, <1>5, <2>1, <2>2 DEF Types, TypeOK, EngineTypes
<1>7. Followed(s)'
  <2>1. /\ Unpaired(s)' <=> Unpaired(s)
        /\ Unpaired(s) => Fill(s)' = Fill(s)
    BY <1>1, <1>2, <1>4, <1>5 DEF Unpaired, Fill
  <2> QED BY <1>1, <1>3, <2>1 DEF Sound, Followed
<1>8. Placed(s)'
  <2>1. /\ result[s] # None => Answered(s)
        /\ Answered(s)' <=> Answered(s)
        /\ call'[s] = call[s] /\ result'[s] = result[s]
    BY <1>1 DEF Sound, Placed, Answered
  <2> QED BY <1>2, <1>4, <1>5, <2>1 DEF Placed
<1>9. Fed(s)'
  BY <1>1, <1>2 DEF Sound, Fed
<1>10. ASSUME NEW t \in Symbols PROVE Sound(t)'
  <2>1. CASE t = s
    BY <1>7, <1>8, <1>9, <2>1 DEF Sound
  <2>2. CASE t # s
    BY <1>1, <1>3, <1>4, <1>5, <2>2, Elsewhere DEF IInv
  <2> QED BY <2>1, <2>2
<1> QED BY <1>1, <1>6, <1>10 DEF IInv, Down

\* The second section of HandleExecution, once the position and the journal are seen
\* to go together again.
LEMMA PairedKeeps ==
  ASSUME IInv, NEW s \in Symbols, UNCHANGED brokerVars,
         EngineTypes', journal' \in [Symbols -> Seq(TradeRecords)],
         UNCHANGED <<fills, call, inFlight>>,
         emit[s] = None, ~Quiet(s), rep'[s] = None, Followed(s)',
         \A q \in Symbols \ {s} : UNCHANGED <<rep[q], openLeg[q], journal[q]>>
  PROVE  IInv'
<1>1. Types /\ Sound(s)
  BY DEF IInv
<1>2. Types'
  BY <1>1 DEF Types, TypeOK, EngineTypes, brokerVars
<1>3. Placed(s)'
  BY <1>1 DEF Sound, Placed, Answered, brokerVars
<1>4. Fed(s)'
  BY <1>1 DEF Sound, Fed, brokerVars
<1>5. ASSUME NEW q \in Symbols PROVE Sound(q)'
  <2>1. CASE q = s
    BY <1>3, <1>4, <2>1 DEF Sound
  <2>2. CASE q # s
    BY <2>2, Elsewhere DEF IInv, brokerVars
  <2> QED BY <2>1, <2>2
<1> QED BY <1>2, <1>5 DEF IInv, Down, brokerVars

LEMMA HandleFillKeeps ==
  ASSUME IInv, NEW s \in Symbols, HandleFill(s)
  PROVE  IInv'
<1> DEFINE r == rep[s]
           t == [side |-> openLeg[s].side, entry |-> openLeg[s].fill, exit |-> Len(fills[s])]
<1>1. /\ Types /\ Sound(s) /\ Pair(s, TRUE) /\ UNCHANGED brokerVars
      /\ r # None /\ r \in ReportsAt(Nat) /\ r.side \in Sides /\ r.closing \in BOOLEAN
      /\ openLeg[s] \in Legs \cup {None}
      /\ openLeg \in [Symbols -> Legs \cup {None}]
      /\ rep \in [Symbols -> ReportsAt(Nat) \cup {None}]
      /\ journal \in [Symbols -> Seq(TradeRecords)] /\ journal[s] \in Seq(TradeRecords)
  BY DEF IInv, Types, EngineTypes, HandleFill, Pair, ReportsAt
<1>2. Len(fills[s]) \in Nat \ {0}
  <2>1. fills[s] \in Seq(FillRecords) /\ Len(fills[s]) > 0
    BY <1>1 DEF Types, Sound, Placed
  <2> QED BY <2>1
<1>3. /\ emit[s] = None /\ (call[s] = Idle \/ Answered(s)) /\ Unpaired(s) /\ Fill(s) = r
      /\ ~Quiet(s)
  BY <1>1 DEF Sound, Placed, Unpaired, Fill, Quiet
<1>4. /\ UNCHANGED <<fills, call, inFlight>>
      /\ rep' = [rep EXCEPT ![s] = None]
  BY <1>1 DEF Pair
<1>5. /\ rep'[s] = None /\ ~Unpaired(s)'
      /\ \A q \in Symbols \ {s} : rep'[q] = rep[q]
  BY <1>1, <1>3, <1>4 DEF Unpaired, brokerVars
<1>6. EngineTypes'
  BY <1>1, <1>2, PairTypes DEF Types
<1>7. CASE r.closing
  <2>1. /\ openLeg[s] # None /\ openLeg[s].side # r.side /\ openLeg[s] \in Legs
        /\ positions[s] = Flat /\ Len(journal[s]) + 1 = closes[s]
    BY <1>1, <1>3, <1>7 DEF Sound, Followed
  <2>2. EndsLeg(s, r) /\ ~OpensLeg(s, r)
    BY <1>7, <2>1 DEF EndsLeg, OpensLeg
  <2>3. /\ openLeg' = [openLeg EXCEPT ![s] = None]
        /\ journal' = [journal EXCEPT ![s] = Append(journal[s], t)]
    BY <1>1, <2>2 DEF Pair
  <2>4. t \in TradeRecords
    BY <1>2, <2>1 DEF Legs, TradeRecords
  <2>5. /\ Append(journal[s], t) \in Seq(TradeRecords)
        /\ Len(Append(journal[s], t)) = Len(journal[s]) + 1
    <3> HIDE DEF t
    <3> QED BY <1>1, <2>4
  <2>6. /\ journal' \in [Symbols -> Seq(TradeRecords)]
        /\ openLeg'[s] = None /\ Len(journal'[s]) = closes[s]
        /\ \A q \in Symbols \ {s} : UNCHANGED <<openLeg[q], journal[q]>>
    <3> HIDE DEF t
    <3> QED BY <1>1, <2>1, <2>3, <2>5
  <2>7. Followed(s)'
    BY <1>1, <1>5, <2>1, <2>6 DEF Followed, brokerVars
  <2> QED BY <1>1, <1>2, <1>3, <1>4, <1>5, <1>6, <2>6, <2>7, PairedKeeps
<1>8. CASE ~r.closing
  <2>1. openLeg[s] = None /\ positions[s] = r.side /\ Len(journal[s]) = closes[s]
    BY <1>1, <1>3, <1>8 DEF Sound, Followed
  <2>2. OpensLeg(s, r) /\ ~EndsLeg(s, r)
    BY <1>8, <2>1 DEF EndsLeg, OpensLeg
  <2>3. /\ openLeg' = [openLeg EXCEPT ![s] = [side |-> r.side, time |-> r.time,
                                              fill |-> Len(fills[s])]]
        /\ UNCHANGED journal
    BY <1>1, <2>2 DEF Pair
  <2>4. /\ openLeg'[s].side = r.side /\ openLeg'[s] # None
        /\ \A q \in Symbols \ {s} : openLeg'[q] = openLeg[q]
    <3>1. [side |-> r.side, time |-> r.time, fill |-> Len(fills[s])] \in Legs
      BY <1>1, <1>2 DEF Legs, ReportsAt
    <3> QED BY <1>1, <2>3, <3>1, ReportsAssumption
  <2>5. Followed(s)'
    BY <1>1, <1>5, <2>1, <2>3, <2>4 DEF Followed, brokerVars
  <2> QED BY <1>1, <1>2, <1>3, <1>4, <1>5, <1>6, <2>3, <2>4, <2>5, PairedKeeps
<1> QED BY <1>1, <1>7, <1>8

LEMMA PlaceReturnsKeeps ==
  ASSUME IInv, NEW s \in Symbols, PlaceReturns(s)
  PROVE  IInv'
<1>1. /\ Types /\ Sound(s) /\ call[s].stage = "place" /\ result[s] # None
      /\ emit[s] = None /\ rep[s] = None
      /\ result' = [result EXCEPT ![s] = None]
      /\ UNCHANGED <<history, link, positions, feed, emit, closes, late, toggles>>
  BY DEF IInv, PlaceReturns
<1>2. /\ ~Unpaired(s) /\ call[s] # Idle /\ feed[s].pc = "wait" /\ feed[s].read # 0
      /\ result[s] = "ok" => inFlight[s] = ""
  <2>1. call[s] # Idle
    BY <1>1 DEF Idle
  <2> QED BY <1>1, <2>1 DEF Sound, Placed, Fed, Quiet, Unpaired
<1>3. \/ /\ result[s] = "ok" /\ Goto(s, [call[s] EXCEPT !.stage = "confirm"])
         /\ UNCHANGED <<enabled, trading, session, inFlight, openLeg, weekendTry, current,
                        rep, fills, journal>>
      \/ PlaceFailed(s)
  BY DEF PlaceReturns
<1>4. EngineTypes' /\ UNCHANGED <<fills, journal>>
  BY <1>1, <1>3, PlacedTypes DEF Types
<1>5. /\ UNCHANGED <<openLeg, rep>> /\ inFlight'[s] = ""
      /\ \A t \in Symbols \ {s} : UNCHANGED <<call[t], inFlight[t], result[t]>>
      /\ result'[s] = None
  <2>1. call \in [Symbols -> Calls] /\ inFlight \in [Symbols -> {"", "pending", "placed"}]
        /\ result \in [Symbols -> {"ok", "error", None}]
    BY <1>1 DEF Types, TypeOK
  <2>2. \E c : call' = [call EXCEPT ![s] = c]
    BY <1>3 DEF PlaceFailed, Return, Goto
  <2>3. inFlight'[s] = "" /\ \A t \in Symbols \ {s} : inFlight'[t] = inFlight[t]
    BY <1>2, <1>3, <2>1 DEF PlaceFailed
  <2>4. UNCHANGED <<openLeg, rep>>
    BY <1>3 DEF PlaceFailed
  <2> QED BY <1>1, <2>1, <2>2, <2>3, <2>4
<1>6. Types'
  <2>1. result' \in [Symbols -> {"ok", "error", None}]
    BY <1>1 DEF Types, TypeOK
  <2> QED BY <1>1, <1>4, <2>1 DEF Types, TypeOK, EngineTypes
<1>7. ASSUME NEW t \in Symbols PROVE Sound(t)'
  <2>1. CASE t = s
    <3>1. Followed(s)'
      BY <1>1, <1>2, <1>4, <1>5 DEF Sound, Followed, Unpaired
    <3>2. Placed(s)' /\ Fed(s)'
      BY <1>1, <1>2, <1>5 DEF Placed, Fed
    <3> QED BY <2>1, <3>1, <3>2 DEF Sound
  <2>2. CASE t # s
    BY <1>1, <1>4, <1>5, <2>2, Elsewhere DEF IInv
  <2> QED BY <2>1, <2>2
<1> QED BY <1>1, <1>6, <1>7 DEF IInv, Down

-----------------------------------------------------------------------------
(* The operator *)

LEMMA OperatorKeeps ==
  ASSUME IInv, Operator \/ Disconnected
  PROVE  IInv'
<1>1. Types /\ Down /\ late' \in [Symbols -> Nat] /\ EngineTypes'
      /\ UNCHANGED <<fills, journal, history, emit, result, closes>>
  <2>1. Types /\ Down /\ EngineTypes /\ late \in [Symbols -> Nat]
    BY DEF IInv, Types, TypeOK
  <2>2. CASE ToggleKillSwitch
    <3>1. (~enabled) \in BOOLEAN
      OBVIOUS
    <3>2. EngineTypes' /\ UNCHANGED <<fills, journal>>
      BY <2>1, <2>2, <3>1, SwitchTypes DEF ToggleKillSwitch
    <3> QED BY <2>1, <2>2, <3>2 DEF ToggleKillSwitch, CountAgain
  <2>3. ASSUME NEW s \in Symbols, ToggleSymbol(s)
        PROVE  /\ late' \in [Symbols -> Nat] /\ EngineTypes'
               /\ UNCHANGED <<fills, journal, history, emit, result, closes>>
    <3>1. (~trading[s]) \in BOOLEAN
      OBVIOUS
    <3>2. EngineTypes' /\ UNCHANGED <<fills, journal>>
      BY <2>1, <2>3, <3>1, SwitchTypes DEF ToggleSymbol
    <3> QED BY <2>1, <2>3, <3>2 DEF ToggleSymbol, CountAgain
  <2>4. CASE Connect
    <3>0. StrategyEnabled \in BOOLEAN /\ NewEngine(StrategyEnabled)
      BY <2>4, ReplayAssumption DEF Connect
    <3>1. EngineTypes' /\ UNCHANGED <<fills, journal>>
      BY <2>1, <3>0, SwitchTypes
    <3> QED BY <2>1, <2>4, <3>1 DEF Connect, CountAgain
  <2>5. CASE Disconnect \/ Disconnected
    BY <2>1, <2>5 DEF Disconnect, Disconnected, engineVars, EngineTypes
  <2> QED BY <2>1, <2>2, <2>3, <2>4, <2>5 DEF Operator
<1>2. CASE ~Connect
  <2>1. /\ UNCHANGED <<call, rep, inFlight, openLeg, positions, feed>>
        /\ link' \in {"up", "closing", "down"} /\ toggles' \in 0..MaxToggles
    <3>1. MaxToggles \in Nat /\ toggles \in 0..MaxToggles /\ link \in {"up", "closing", "down"}
      BY <1>1, ReplayAssumption DEF Types, TypeOK
    <3>2. CASE ToggleKillSwitch
      BY <3>1, <3>2 DEF ToggleKillSwitch, SetEnabled
    <3>3. ASSUME NEW s \in Symbols, ToggleSymbol(s)
          PROVE  /\ UNCHANGED <<call, rep, inFlight, openLeg, positions, feed, link>>
                 /\ toggles' \in 0..MaxToggles
      BY <3>1, <3>3 DEF ToggleSymbol, SetTrading
    <3>4. CASE Disconnect \/ Disconnected
      BY <3>1, <3>4 DEF Disconnect, Disconnected, engineVars
    <3> QED BY <1>2, <3>1, <3>2, <3>3, <3>4 DEF Operator
  <2>2. Types'
    BY <1>1, <2>1 DEF Types, TypeOK, EngineTypes
  <2>3. \A t \in Symbols : Sound(t)'
    BY <1>1, <2>1, Elsewhere DEF IInv
  <2>4. Down'
    BY <1>1, <1>2, <2>1 DEF Operator, ToggleKillSwitch, ToggleSymbol, Disconnect, Disconnected, Down
  <2> QED BY <2>2, <2>3, <2>4 DEF IInv
<1>3. CASE Connect
  <2>1. /\ positions' = [s \in Symbols |-> Flat] /\ feed' = FreshFeed /\ link' = "up"
        /\ toggles' = toggles
        /\ NewEngine(StrategyEnabled)
        /\ \A s \in Symbols : feed[s].pc = "stopped"
    BY <1>1, <1>3 DEF Connect, Down
  <2>2. /\ inFlight' = [s \in Symbols |-> ""] /\ openLeg' = [s \in Symbols |-> None]
        /\ UNCHANGED <<call, rep>>
    BY <2>1 DEF NewEngine
  <2>3. Types'
    <3>1. Len(history) \in Nat
      BY <1>1, HistoryType
    <3>2. feed' \in [Symbols -> [read : 0..Len(history), pc : {"wait", "bar", "stopped"}]]
      BY <2>1, <3>1 DEF FreshFeed
    <3>3. positions' \in [Symbols -> Holdings]
      BY <2>1 DEF Holdings
    <3> QED BY <1>1, <2>1, <3>2, <3>3 DEF Types, TypeOK, EngineTypes
  <2>4. ASSUME NEW s \in Symbols PROVE Sound(s)'
    <3>1. Sound(s) /\ Quiet(s)
      BY <2>1 DEF IInv, Sound, Fed
    <3>2. /\ emit[s] = None /\ rep[s] = None /\ result[s] = None /\ ~Unpaired(s)
      BY <3>1, WhenQuiet
    <3>3. ~Unpaired(s)' /\ Len(journal[s]) = closes[s]
      BY <1>1, <2>2, <3>1, <3>2 DEF Unpaired, Sound, Followed
    <3>4. /\ positions'[s] = Flat /\ openLeg'[s] = None /\ inFlight'[s] = ""
          /\ feed'[s].pc = "wait" /\ feed'[s].read = 0
      BY <2>1, <2>2 DEF FreshFeed
    <3>5. Followed(s)'
      BY <1>1, <3>3, <3>4 DEF Followed
    <3>6. Placed(s)' /\ Fed(s)'
      BY <1>1, <2>2, <3>1, <3>2, <3>4 DEF Placed, Fed, Quiet
    <3> QED BY <3>5, <3>6 DEF Sound
  <2> QED BY <2>1, <2>3, <2>4 DEF IInv, Down
<1> QED BY <1>2, <1>3

-----------------------------------------------------------------------------
LEMMA StepPreserves ==
  ASSUME IInv, [Next]_vars
  PROVE  IInv'
<1>1. ASSUME NEW s \in Symbols, Goroutine(s)
      PROVE  IInv'
  BY <1>1, NextBarKeeps, TickKeeps, StopKeeps, SectionKeeps, PlaceOrderKeeps, ReportKeeps,
     HandleFillKeeps, PlaceReturnsKeeps DEF Goroutine
<1>2. CASE Operator \/ Disconnected
  BY <1>2, OperatorKeeps
<1>3. CASE UNCHANGED vars
  <2>1. UNCHANGED <<engineVars, history, link, positions, feed, emit, result, closes, late,
                    toggles>>
    BY <1>3 DEF vars, brokerVars
  <2>2. Types' /\ Down'
    BY <2>1 DEF IInv, Types, TypeOK, EngineTypes, Down, engineVars
  <2>3. \A t \in Symbols : Sound(t)'
    BY <2>1, Elsewhere DEF IInv, engineVars
  <2> QED BY <2>2, <2>3 DEF IInv
<1> QED BY <1>1, <1>2, <1>3 DEF Next

LEMMA Invariant == Spec => []IInv
<1>1. Init => IInv
  BY InitHolds
<1>2. IInv /\ [Next]_vars => IInv'
  BY StepPreserves
<1> QED BY <1>1, <1>2, PTL DEF Spec

\* At rest nothing is on its way.
LEMMA Rest ==
  ASSUME IInv, NEW s \in Symbols, AtRest(s)
  PROVE  /\ positions[s] = IF openLeg[s] = None THEN Flat ELSE openLeg[s].side
         /\ Len(journal[s]) = closes[s] /\ inFlight[s] = ""
<1>1. Sound(s) /\ Quiet(s)
  BY DEF IInv, AtRest
<1> QED BY <1>1, WhenQuiet DEF Sound, Followed

\* The variables of the replay, and the point each tick has reached.
THEOREM TypeInvariant == Spec => []TypeOK
<1>1. IInv => TypeOK
  BY DEF IInv, Types
<1> QED BY <1>1, Invariant, PTL

\* Between two ticks the engine tracks the very position the broker holds
\* (engine.go:423, HandleExecution; replay.go, checkBarriers and PlaceOrder).
THEOREM TracksTheBroker == Spec => []TracksThePosition
<1>1. IInv => TracksThePosition
  BY Rest DEF TracksThePosition
<1> QED BY <1>1, Invariant, PTL

\* What the broker closed, by a barrier or an order, is in the journal once.
THEOREM EveryCloseIsJournalled == Spec => []JournalsEveryClose
<1>1. IInv => JournalsEveryClose
  BY Rest DEF JournalsEveryClose
<1> QED BY <1>1, Invariant, PTL

-----------------------------------------------------------------------------
(* The engine in front of the replay is the engine in front of any gateway. *)
(* What has to be seen is that its reports carry times of the history and   *)
(* are no more than AnyGateway has room for: a bar brings at most the       *)
(* report of a barrier and those of the two orders of its tick.             *)

TickTimes == UNION {{h[i] : i \in 1..Len(h)} : h \in Histories}

Reports(s) == Len(fills[s]) + (IF emit[s] = None THEN 0 ELSE 1)

Expected(s) ==
    IF feed[s].pc = "bar" THEN 2
    ELSE IF result[s] = None THEN OrdersLeft(call[s]) ELSE OrdersLeft(call[s]) - 1

Counted(s) == Reports(s) + Expected(s) <= 3 * ((session - 1) * Longest + feed[s].read)

OnTheHistory(s) == emit[s] # None => emit[s].time \in TickTimes

Room == /\ session <= MaxSessions
        /\ \A s \in Symbols : Counted(s) /\ OnTheHistory(s)

LEMMA LongestBounds ==
  ASSUME NEW h \in Histories
  PROVE  Longest \in Nat /\ Len(h) \in Nat /\ Len(h) <= Longest
<1> DEFINE lengths == {Len(g) : g \in Histories}
           P(n) == \A g \in Histories : Len(g) <= n
<1>1. PICK longest \in Histories : \A g \in Histories : Len(g) <= Len(longest)
  BY ReplayAssumption
<1>2. \E n \in lengths : P(n)
  BY <1>1
<1>3. Longest \in lengths /\ P(Longest)
  BY <1>2 DEF Longest
<1>4. Histories \subseteq Seq(Nat)
  BY ReplayAssumption
<1> QED BY <1>3, <1>4

LEMMA HistoryTimes ==
  ASSUME NEW h \in Histories, NEW i \in 1..Len(h)
  PROVE  h[i] \in TickTimes
  BY DEF TickTimes

LEMMA LastTimeIsOne ==
  ASSUME Types, NEW s \in Symbols, feed[s].read # 0
  PROVE  LastTime(s) \in TickTimes
<1>1. feed[s] \in [read : 0..Len(history), pc : {"wait", "bar", "stopped"}]
      /\ history \in Histories /\ Len(history) \in Nat
  BY HistoryType DEF Types, TypeOK
<1>2. feed[s].read \in 1..Len(history)
  BY <1>1
<1> QED BY <1>1, <1>2, HistoryTimes DEF LastTime

LEMMA OrdersLeftType ==
  ASSUME NEW c \in Calls
  PROVE  OrdersLeft(c) \in 0..2
  BY DEF OrdersLeft

LEMMA ReadType ==
  ASSUME Types, NEW s \in Symbols
  PROVE  /\ feed[s].read \in Nat /\ feed[s].read <= Len(history)
         /\ Len(fills[s]) \in Nat
         /\ (session - 1) * Longest \in Nat /\ session \in Nat \ {0}
         /\ OrdersLeft(call[s]) \in 0..2
<1>1. feed[s] \in [read : 0..Len(history), pc : {"wait", "bar", "stopped"}]
      /\ Len(history) \in Nat
  BY HistoryType DEF Types, TypeOK
<1>2. feed[s].read \in 0..Len(history)
  BY <1>1
<1>3. fills[s] \in Seq(FillRecords) /\ call[s] \in Calls /\ session \in Nat \ {0}
  BY DEF Types, EngineTypes
<1>4. Longest \in Nat
  BY LongestBounds DEF Types
<1>5. session - 1 \in Nat
  BY <1>3
<1>6. (session - 1) * Longest \in Nat
  BY <1>4, <1>5
<1> QED BY <1>1, <1>2, <1>3, <1>6, OrdersLeftType

LEMMA Numbers ==
  ASSUME Types, NEW s \in Symbols
  PROVE  Reports(s) \in Nat /\ Expected(s) \in Int
<1>1. Len(fills[s]) \in Nat /\ OrdersLeft(call[s]) \in 0..2
  BY ReadType
<1>2. \A n \in 0..2 : n \in Int /\ n - 1 \in Int
  OBVIOUS
<1>3. \A n \in Nat : n + 0 \in Nat /\ n + 1 \in Nat
  OBVIOUS
<1>4. Reports(s) \in Nat
  BY <1>1, <1>3 DEF Reports
<1>5. Expected(s) \in Int
  BY <1>1, <1>2 DEF Expected
<1> QED BY <1>4, <1>5

LEMMA RoomElsewhere ==
  ASSUME NEW t \in Symbols, Counted(t), OnTheHistory(t),
         UNCHANGED <<session, fills[t], emit[t], feed[t], result[t], call[t]>>
  PROVE  Counted(t)' /\ OnTheHistory(t)'
  BY DEF Counted, Reports, Expected, OnTheHistory

\* A step of a goroutine that spends what it had left: an order sent is a report or
\* nothing, a report handled is a fill or nothing.
LEMMA Spends ==
  ASSUME NEW s \in Symbols, Types, Types', Counted(s), session' = session,
         feed'[s].read = feed[s].read,
         Reports(s)' + Expected(s)' <= Reports(s) + Expected(s)
  PROVE  Counted(s)'
<1>1. /\ feed[s].read \in Nat /\ (session - 1) * Longest \in Nat
      /\ Len(fills[s]) \in Nat /\ OrdersLeft(call[s]) \in 0..2
  BY ReadType
<1>2. /\ Len(fills'[s]) \in Nat /\ OrdersLeft(call'[s]) \in 0..2
  <2>1. fills'[s] \in Seq(FillRecords) /\ call'[s] \in Calls
    BY DEF Types, EngineTypes
  <2> QED BY <2>1, OrdersLeftType
<1>3. /\ Reports(s) \in Nat /\ Reports(s)' \in Nat
      /\ Expected(s) \in Int /\ Expected(s)' \in Int
  <2>1. \A n \in 0..2 : n \in Int /\ n - 1 \in Int
    OBVIOUS
  <2>2. Expected(s) \in Int /\ Expected(s)' \in Int
    BY <1>1, <1>2, <2>1 DEF Expected
  <2>3. Reports(s) \in Nat /\ Reports(s)' \in Nat
    <3>1. \A n \in Nat : n + 0 \in Nat /\ n + 1 \in Nat
      OBVIOUS
    <3> QED BY <1>1, <1>2, <3>1 DEF Reports
  <2> QED BY <2>2, <2>3
<1>4. PICK base \in Nat : base = (session - 1) * Longest
  BY <1>1
<1>5. Reports(s) + Expected(s) <= 3 * (base + feed[s].read)
  BY <1>4 DEF Counted
<1>6. Reports(s)' + Expected(s)' <= 3 * (base + feed'[s].read)
  BY <1>1, <1>3, <1>5
<1>7. (session' - 1) * Longest = base
  BY <1>4
<1> QED BY <1>6, <1>7 DEF Counted

\* What a goroutine leaves of the others.
LEMMA Own ==
  ASSUME IInv, NEW s \in Symbols, Goroutine(s)
  PROVE  /\ session' = session
         /\ \A t \in Symbols \ {s} :
               UNCHANGED <<fills[t], emit[t], feed[t], result[t], call[t]>>
<1>1. /\ call \in [Symbols -> Calls] /\ emit \in [Symbols -> ReportsAt(Nat) \cup {None}]
      /\ result \in [Symbols -> {"ok", "error", None}]
      /\ feed \in [Symbols -> [read : 0..Len(history), pc : {"wait", "bar", "stopped"}]]
      /\ fills \in [Symbols -> Seq(FillRecords)]
  BY DEF IInv, Types, TypeOK
<1>2. CASE NextBar(s) \/ Stop(s)
  BY <1>1, <1>2 DEF NextBar, Stop, engineVars
<1>3. CASE Tick(s)
  BY <1>1, <1>3 DEF Tick, CheckWeekend, Goto
<1>4. CASE EngineStep(s)
  <2>1. \E c : call' = [call EXCEPT ![s] = c]
    BY <1>4 DEF EngineStep, WeekendGates, Aggregate, BarGates, DecideOnAnswers, Decide,
       Reserve, Confirm, Return, Goto
  <2>2. session' = session /\ UNCHANGED fills /\ UNCHANGED brokerVars
    BY <1>4 DEF EngineStep, WeekendGates, Aggregate, BarGates, DecideOnAnswers, Decide,
       Reserve, Confirm
  <2> QED BY <1>1, <2>1, <2>2 DEF brokerVars
<1>5. CASE PlaceOrder(s)
  <2>1. /\ \E a : result' = [result EXCEPT ![s] = a]
        /\ UNCHANGED emit \/ \E a : emit' = [emit EXCEPT ![s] = a]
        /\ UNCHANGED <<engineVars, feed>>
    BY <1>5 DEF PlaceOrder
  <2> QED BY <1>1, <2>1 DEF engineVars
<1>6. CASE Report(s)
  <2>1. /\ UNCHANGED fills \/ \E a : fills' = [fills EXCEPT ![s] = a]
        /\ emit' = [emit EXCEPT ![s] = None]
        /\ UNCHANGED <<session, call, feed, result>>
    BY <1>6 DEF Report, Release
  <2> QED BY <1>1, <2>1
<1>7. CASE HandleFill(s)
  BY <1>7 DEF HandleFill, Pair, brokerVars
<1>8. CASE PlaceReturns(s)
  <2>1. /\ \E c : call' = [call EXCEPT ![s] = c]
        /\ result' = [result EXCEPT ![s] = None]
        /\ UNCHANGED <<session, fills, emit, feed>>
    BY <1>8 DEF PlaceReturns, PlaceFailed, Return, Goto
  <2> QED BY <1>1, <2>1
<1> QED BY <1>2, <1>3, <1>4, <1>5, <1>6, <1>7, <1>8 DEF Goroutine

LEMMA NextBarRoom ==
  ASSUME IInv, IInv', NEW s \in Symbols, NextBar(s), Counted(s)
  PROVE  Counted(s)' /\ OnTheHistory(s)'
<1>1. /\ Types /\ Quiet(s) /\ result[s] = None /\ feed[s].pc = "wait"
      /\ UNCHANGED <<session, fills, call, result, history>>
      /\ feed' = [feed EXCEPT ![s] = [read |-> feed[s].read + 1, pc |-> "bar"]]
      /\ Types'
  <2>1. Quiet(s) /\ Sound(s)
    BY DEF NextBar, IInv
  <2> QED BY <2>1, WhenQuiet DEF NextBar, IInv, engineVars
<1>2. /\ feed[s].read \in Nat /\ Len(fills[s]) \in Nat
  BY <1>1, ReadType
<1>3. PICK base \in Nat : base = (session - 1) * Longest
  BY <1>1, ReadType
<1>4. feed'[s].pc = "bar" /\ feed'[s].read = feed[s].read + 1
  BY <1>1 DEF Types, TypeOK
<1>5. Len(fills[s]) <= 3 * (base + feed[s].read)
  <2>1. Reports(s) = Len(fills[s]) + 0 /\ Expected(s) = 0
    BY <1>1 DEF Reports, Expected, Quiet, OrdersLeft, Idle
  <2> QED BY <1>2, <1>3, <2>1 DEF Counted
<1>6. Counted(s)'
  <2>1. Expected(s)' = 2
    BY <1>4 DEF Expected
  <2>2. Reports(s)' + Expected(s)' <= 3 * (base + feed'[s].read)
    <3>1. Reports(s)' = Len(fills[s]) + (IF emit'[s] = None THEN 0 ELSE 1)
      BY <1>1 DEF Reports
    <3>2. \A n, b, k \in Nat : n <= 3 * (b + k) =>
             (n + 0) + 2 <= 3 * (b + (k + 1)) /\ (n + 1) + 2 <= 3 * (b + (k + 1))
      OBVIOUS
    <3> QED BY <1>2, <1>3, <1>4, <1>5, <2>1, <3>1, <3>2
  <2>3. (session' - 1) * Longest = base
    BY <1>1, <1>3
  <2> QED BY <2>2, <2>3 DEF Counted
<1>7. OnTheHistory(s)'
  <2>1. history[feed[s].read + 1] \in TickTimes
    <3>1. feed[s].read + 1 \in 1..Len(history)
      BY <1>2, <1>1, HistoryType DEF NextBar
    <3> QED BY <1>1, <3>1, HistoryTimes DEF Types
  <2>2. emit'[s] # None => emit'[s].time = history[feed[s].read + 1]
    <3>1. emit \in [Symbols -> ReportsAt(Nat) \cup {None}] /\ emit[s] = None
      BY <1>1 DEF Types, TypeOK, Quiet
    <3> QED BY <3>1 DEF NextBar
  <2> QED BY <2>1, <2>2 DEF OnTheHistory
<1> QED BY <1>6, <1>7

LEMMA CallRoom ==
  ASSUME IInv, IInv', NEW s \in Symbols, Stop(s) \/ Tick(s) \/ EngineStep(s),
         Counted(s), OnTheHistory(s)
  PROVE  Counted(s)' /\ OnTheHistory(s)'
<1>1. Types /\ Types' /\ Sound(s)
  BY DEF IInv
<1>2. UNCHANGED <<session, fills, emit, result>> /\ feed'[s].read = feed[s].read
  <2>0. /\ feed \in [Symbols -> [read : 0..Len(history), pc : {"wait", "bar", "stopped"}]]
        /\ feed[s] \in [read : 0..Len(history), pc : {"wait", "bar", "stopped"}]
    BY <1>1 DEF Types, TypeOK
  <2>1. CASE Stop(s)
    BY <2>0, <2>1 DEF Stop, engineVars
  <2>2. CASE Tick(s)
    BY <2>0, <2>2 DEF Tick, CheckWeekend
  <2>3. CASE EngineStep(s)
    BY <2>3 DEF EngineStep, WeekendGates, Aggregate, BarGates, DecideOnAnswers, Decide,
       Reserve, Confirm, brokerVars
  <2> QED BY <2>1, <2>2, <2>3
<1>3. OrdersLeft(call[s]) \in 0..2 /\ OrdersLeft(call'[s]) \in 0..2
      /\ Len(fills[s]) \in Nat
  <2>1. call'[s] \in Calls
    BY <1>1 DEF Types, EngineTypes
  <2> QED BY <1>1, <2>1, ReadType, OrdersLeftType
<1>4. Expected(s)' <= Expected(s)
  <2>1. CASE Stop(s)
    <3>1. call'[s] = Idle /\ call[s] = Idle /\ feed[s].pc = "wait" /\ feed'[s].pc = "stopped"
          /\ result[s] = None
      <4>1. call[s] = Idle /\ feed[s].pc = "wait" /\ Quiet(s) /\ UNCHANGED call
            /\ feed' = [feed EXCEPT ![s].pc = "stopped"]
        BY <2>1 DEF Stop, Quiet, engineVars
      <4>2. feed \in [Symbols -> [read : 0..Len(history), pc : {"wait", "bar", "stopped"}]]
        BY <1>1 DEF Types, TypeOK
      <4> QED BY <1>1, <4>1, <4>2, WhenQuiet
    <3> QED BY <1>2, <3>1 DEF Expected, OrdersLeft, Idle
  <2>2. CASE Tick(s)
    <3>1. feed[s].pc = "bar" /\ feed'[s].pc = "wait" /\ result[s] = None
      <4>1. feed[s].pc = "bar" /\ Quiet(s) /\ feed' = [feed EXCEPT ![s].pc = "wait"]
        BY <2>2 DEF Tick
      <4>2. feed \in [Symbols -> [read : 0..Len(history), pc : {"wait", "bar", "stopped"}]]
        BY <1>1 DEF Types, TypeOK
      <4> QED BY <1>1, <4>1, <4>2, WhenQuiet
    <3> QED BY <1>2, <1>3, <3>1 DEF Expected
  <2>3. CASE EngineStep(s)
    <3>1. OrdersLeft(call'[s]) <= OrdersLeft(call[s]) /\ call[s] # Idle
          /\ call[s].stage # "place"
      BY <2>3, StepIsSection, SectionOrders, SectionFrame
    <3>2. feed[s].pc = "wait" /\ result[s] = None /\ UNCHANGED feed
      BY <2>3, <3>1, InSection DEF EngineStep, brokerVars
    <3> QED BY <1>2, <3>1, <3>2 DEF Expected
  <2> QED BY <2>1, <2>2, <2>3
<1>5. Reports(s)' + Expected(s)' <= Reports(s) + Expected(s)
  <2>1. Reports(s)' = Reports(s)
    BY <1>2 DEF Reports
  <2>2. Reports(s) \in Nat /\ Expected(s) \in Int
    BY <1>1, Numbers
  <2>3. Expected(s)' \in Int
    <3>1. \A n \in 0..2 : n \in Int /\ n - 1 \in Int
      OBVIOUS
    <3> QED BY <1>3, <3>1 DEF Expected
  <2> QED BY <1>4, <2>1, <2>2, <2>3
<1> QED BY <1>1, <1>2, <1>5, Spends DEF OnTheHistory

LEMMA PlaceOrderRoom ==
  ASSUME IInv, IInv', NEW s \in Symbols, PlaceOrder(s), Counted(s)
  PROVE  Counted(s)' /\ OnTheHistory(s)'
<1>1. /\ Types /\ Types' /\ Sound(s) /\ call[s].stage = "place" /\ result[s] = None
      /\ UNCHANGED <<session, fills, call, feed>>
      /\ emit \in [Symbols -> ReportsAt(Nat) \cup {None}]
      /\ result \in [Symbols -> {"ok", "error", None}]
  BY DEF IInv, Types, TypeOK, PlaceOrder, engineVars
<1>2. emit[s] = None /\ feed[s].pc = "wait" /\ feed[s].read # 0
  <2>1. call[s] # Idle /\ ~Answered(s)
    BY <1>1 DEF Idle, Answered
  <2> QED BY <1>1, <2>1 DEF Sound, Placed, Fed, Quiet
<1>3. /\ result'[s] # None
      /\ emit'[s] # None => emit'[s].time = LastTime(s)
  <2>1. result'[s] # None
    <3>1. \E a \in {"ok", "error"} : result' = [result EXCEPT ![s] = a]
      BY DEF PlaceOrder
    <3> QED BY <1>1, <3>1, NoneIsNoAnswer
  <2>2. \/ UNCHANGED emit
        \/ \E r : emit' = [emit EXCEPT ![s] = r] /\ r.time = LastTime(s)
    <3>1. \A side, closing : Filled(s, side, closing).time = LastTime(s)
      BY DEF Filled
    <3>2. \A side : [status |-> "REJECTED", side |-> side, closing |-> FALSE,
                     time |-> LastTime(s)].time = LastTime(s)
      OBVIOUS
    <3>3. CASE UNCHANGED emit
      BY <3>3
    <3>4. CASE emit' = [emit EXCEPT ![s] = [status |-> "REJECTED", side |-> call[s].order.side,
                                            closing |-> FALSE, time |-> LastTime(s)]]
      BY <3>2, <3>4
    <3>5. CASE \E closing \in BOOLEAN :
                  emit' = [emit EXCEPT ![s] = Filled(s, call[s].order.side, closing)]
      BY <3>1, <3>5
    <3> QED BY <3>3, <3>4, <3>5 DEF PlaceOrder
  <2>3. CASE UNCHANGED emit
    BY <1>1, <1>2, <2>1, <2>3
  <2>4. CASE \E r : emit' = [emit EXCEPT ![s] = r] /\ r.time = LastTime(s)
    BY <1>1, <2>1, <2>4
  <2> QED BY <2>2, <2>3, <2>4
<1>4. LastTime(s) \in TickTimes
  BY <1>1, <1>2, LastTimeIsOne
<1>5. OrdersLeft(call[s]) \in Nat /\ Len(fills[s]) \in Nat
  BY <1>1, ReadType
<1>6. Reports(s)' + Expected(s)' <= Reports(s) + Expected(s)
  <2>1. Expected(s) = OrdersLeft(call[s]) /\ Expected(s)' = OrdersLeft(call[s]) - 1
    BY <1>1, <1>2, <1>3 DEF Expected
  <2>2. Reports(s) = Len(fills[s]) + 0
    BY <1>2 DEF Reports
  <2>3. Reports(s)' = Len(fills[s]) + 0 \/ Reports(s)' = Len(fills[s]) + 1
    BY <1>1 DEF Reports
  <2> QED BY <1>5, <2>1, <2>2, <2>3
<1> QED BY <1>1, <1>3, <1>4, <1>6, Spends DEF OnTheHistory

LEMMA ReturnRoom ==
  ASSUME IInv, IInv', NEW s \in Symbols, Report(s) \/ HandleFill(s) \/ PlaceReturns(s),
         Counted(s), OnTheHistory(s)
  PROVE  Counted(s)' /\ OnTheHistory(s)'
<1>1. /\ Types /\ Types' /\ Sound(s)
      /\ emit \in [Symbols -> ReportsAt(Nat) \cup {None}]
      /\ fills[s] \in Seq(FillRecords)
      /\ fills \in [Symbols -> Seq(FillRecords)]
      /\ result \in [Symbols -> {"ok", "error", None}] /\ call \in [Symbols -> Calls]
  BY DEF IInv, Types, TypeOK
<1>2. OrdersLeft(call[s]) \in 0..2 /\ Len(fills[s]) \in Nat
  BY <1>1, ReadType
<1>3. CASE Report(s)
  <2>1. /\ UNCHANGED <<session, call, result, feed>>
        /\ emit[s] # None /\ emit'[s] = None
    BY <1>1, <1>3 DEF Report, Release
  <2>2. Len(fills'[s]) \in {Len(fills[s]), Len(fills[s]) + 1}
    <3>1. \/ UNCHANGED fills
          \/ \E f \in FillRecords : fills' = [fills EXCEPT ![s] = Append(fills[s], f)]
      <4>1. emit[s] \in ReportsAt(Nat) /\ session \in Nat
        BY <1>1, <2>1 DEF Types, EngineTypes
      <4>2. [side |-> emit[s].side, closing |-> emit[s].closing, session |-> session]
              \in FillRecords
        BY <4>1 DEF ReportsAt, FillRecords
      <4> QED BY <1>3, <4>2 DEF Report, Release
    <3>2. \A f \in FillRecords : Len(Append(fills[s], f)) = Len(fills[s]) + 1
      BY <1>1
    <3> QED BY <1>1, <3>1, <3>2
  <2>3. Reports(s) = Len(fills[s]) + 1 /\ Reports(s)' = Len(fills'[s]) + 0
    BY <2>1 DEF Reports
  <2>4. Expected(s)' = Expected(s) /\ Expected(s) \in Int
    BY <1>1, <1>2, <2>1, Numbers DEF Expected
  <2>5. Reports(s)' + Expected(s)' <= Reports(s) + Expected(s)
    BY <1>2, <2>2, <2>3, <2>4
  <2> QED BY <1>1, <2>1, <2>5, Spends DEF OnTheHistory
<1>4. CASE HandleFill(s)
  BY <1>4, RoomElsewhere DEF HandleFill, Pair, brokerVars
<1>5. CASE PlaceReturns(s)
  <2>1. /\ UNCHANGED <<session, fills, emit, feed>> /\ result'[s] = None
        /\ call[s].stage = "place" /\ result[s] # None /\ call[s] \in Calls
    BY <1>1, <1>5 DEF PlaceReturns, PlaceFailed
  <2>2. /\ feed[s].pc = "wait"
        /\ call[s] = [stage |-> "place", order |-> call[s].order, resume |-> call[s].resume]
    <3>1. call[s] # Idle
      BY <2>1 DEF Idle
    <3> QED BY <1>1, <2>1, <3>1, OrderStages DEF Sound, Fed
  <2>3. OrdersLeft(call[s]) = 1 + (IF call[s].resume = None THEN 0 ELSE 1)
    BY <2>1 DEF OrdersLeft
  <2>4. OrdersLeft(call'[s]) = IF call[s].resume = None THEN 0 ELSE 1
    <3>1. CASE Return(s, call[s].resume)
      BY <1>1, <3>1, OrdersLeftAtReturn
    <3>2. CASE Goto(s, [call[s] EXCEPT !.stage = "confirm"])
      <4>1. [call[s] EXCEPT !.stage = "confirm"]
               = [stage |-> "confirm", order |-> call[s].order, resume |-> call[s].resume]
        BY <2>2
      <4>2. call'[s].stage = "confirm" /\ call'[s].resume = call[s].resume
        BY <1>1, <3>2, <4>1 DEF Goto
      <4>3. CASE call[s].resume = None
        BY <4>2, <4>3 DEF OrdersLeft
      <4>4. CASE call[s].resume # None
        BY <4>2, <4>4 DEF OrdersLeft
      <4> QED BY <4>3, <4>4
    <3> QED BY <1>5, <3>1, <3>2 DEF PlaceReturns, PlaceFailed
  <2>5. Expected(s) = OrdersLeft(call[s]) - 1 /\ Expected(s)' = OrdersLeft(call'[s])
    BY <2>1, <2>2 DEF Expected
  <2>6. Expected(s)' = Expected(s) /\ Expected(s) \in Int
    BY <2>3, <2>4, <2>5
  <2>7. Reports(s)' = Reports(s) /\ Reports(s) \in Nat
    BY <1>1, <2>1, Numbers DEF Reports
  <2>8. Reports(s)' + Expected(s)' <= Reports(s) + Expected(s)
    BY <2>6, <2>7
  <2> QED BY <1>1, <2>1, <2>8, Spends DEF OnTheHistory
<1> QED BY <1>3, <1>4, <1>5

LEMMA OperatorRoom ==
  ASSUME IInv, IInv', Room, Operator \/ Disconnected
  PROVE  Room'
<1>1. CASE ~Connect
  <2>1. UNCHANGED <<session, fills, emit, feed, result, call>>
    BY <1>1 DEF Operator, ToggleKillSwitch, ToggleSymbol, SetEnabled, SetTrading, Disconnect,
       Disconnected, engineVars
  <2> QED BY <2>1, RoomElsewhere DEF Room
<1>2. CASE Connect
  <2>1. /\ Types /\ session < MaxSessions /\ session' = session + 1 /\ feed' = FreshFeed
        /\ UNCHANGED <<fills, call, emit, result>>
        /\ \A s \in Symbols : feed[s].pc = "stopped"
    BY <1>2 DEF Connect, NewEngine, IInv, Down
  <2>2. session \in Nat \ {0} /\ MaxSessions \in Nat
    BY <2>1, ReplayAssumption DEF Types, EngineTypes
  <2>3. session' <= MaxSessions
    BY <2>1, <2>2
  <2>4. ASSUME NEW s \in Symbols
        PROVE  Counted(s)' /\ OnTheHistory(s)'
    <3>1. /\ Quiet(s) /\ result[s] = None /\ Sound(s)
      <4>1. Sound(s) /\ Quiet(s)
        BY <2>1 DEF IInv, Sound, Fed
      <4> QED BY <4>1, WhenQuiet
    <3>2. feed'[s].pc = "wait" /\ feed'[s].read = 0
      BY <2>1 DEF FreshFeed
    <3>3. Expected(s) = 0 /\ Expected(s)' = 0
      BY <2>1, <3>1, <3>2 DEF Expected, OrdersLeft, Quiet, Idle
    <3>4. Reports(s)' = Reports(s) /\ Reports(s) \in Nat
      BY <2>1, Numbers DEF Reports
    <3>5. /\ feed[s].read \in Nat /\ feed[s].read <= Longest /\ Longest \in Nat
      BY <2>1, ReadType, LongestBounds DEF Types
    <3>6. PICK base \in Nat : base = (session - 1) * Longest
      BY <2>1, ReadType
    <3>7. (session' - 1) * Longest = base + Longest
      <4>1. session' - 1 = (session - 1) + 1 /\ session - 1 \in Nat
        BY <2>1, <2>2
      <4>2. \A n, l \in Nat : (n + 1) * l = n * l + l
        OBVIOUS
      <4> QED BY <3>5, <3>6, <4>1, <4>2
    <3>8. Reports(s) <= 3 * (base + feed[s].read)
      <4>1. Reports(s) + Expected(s) <= 3 * (base + feed[s].read)
        BY <3>6 DEF Room, Counted
      <4> QED BY <3>3, <3>4, <4>1
    <3>9. Reports(s)' + Expected(s)' <= 3 * ((base + Longest) + feed'[s].read)
      BY <3>2, <3>3, <3>4, <3>5, <3>6, <3>8
    <3>10. Counted(s)'
      BY <3>7, <3>9 DEF Counted
    <3> QED BY <2>1, <3>10 DEF Room, OnTheHistory
  <2> QED BY <2>3, <2>4 DEF Room
<1> QED BY <1>1, <1>2

LEMMA RoomKeeps ==
  ASSUME IInv, Room, Next
  PROVE  Room'
<1>1. Types /\ Types' /\ IInv'
  BY StepPreserves DEF IInv
<1>2. ASSUME NEW s \in Symbols, Goroutine(s)
      PROVE  Room'
  <2>1. Sound(s) /\ Counted(s) /\ OnTheHistory(s)
    BY DEF IInv, Room
  <2>2. /\ feed[s].read \in Nat /\ (session - 1) * Longest \in Nat
        /\ Len(fills[s]) \in Nat /\ OrdersLeft(call[s]) \in 0..2
        /\ OrdersLeft(call'[s]) \in 0..2
    BY <1>1, ReadType, OrdersLeftType DEF Types, EngineTypes
  <2>3. SUFFICES Counted(s)' /\ OnTheHistory(s)'
    BY <1>2, Own, RoomElsewhere DEF Room
  <2>4. session' = session
    BY <1>2, Own
  <2>5. CASE NextBar(s)
    BY <1>1, <2>1, <2>2, <2>5, NextBarRoom
  <2>6. CASE Stop(s) \/ Tick(s) \/ EngineStep(s)
    BY <1>1, <2>6, CallRoom DEF Room
  <2>7. CASE PlaceOrder(s)
    BY <1>1, <2>7, PlaceOrderRoom DEF Room
  <2>8. CASE Report(s) \/ HandleFill(s) \/ PlaceReturns(s)
    BY <1>1, <2>8, ReturnRoom DEF Room
  <2> QED BY <1>2, <2>5, <2>6, <2>7, <2>8 DEF Goroutine
<1>3. CASE Operator \/ Disconnected
  BY <1>1, <1>3, OperatorRoom
<1> QED BY <1>2, <1>3 DEF Next

-----------------------------------------------------------------------------
(* The sections of the engine are the ones AnyGateway composes. *)

LEMMA SameReports == AG!ReportsAt(TickTimes) = ReportsAt(TickTimes)
  BY DEF AG!ReportsAt, ReportsAt, AG!Sides, Sides

LEMMA SameSections ==
  ASSUME NEW s \in Symbols
  PROVE  /\ \A t : CheckWeekend(s, t) => AG!CheckWeekend(s, t)
         /\ \A up : WeekendGates(s, up) => AG!WeekendGates(s, up)
         /\ Aggregate(s) => AG!Aggregate(s)
         /\ \A up : BarGates(s, up) => AG!BarGates(s, up)
         /\ Reserve(s) => AG!Reserve(s)
         /\ Confirm(s) => AG!Confirm(s)
<1>1. \A t : CheckWeekend(s, t) => AG!CheckWeekend(s, t)
  BY DEF CheckWeekend, AG!CheckWeekend, WeekendExitDue, AG!WeekendExitDue, AtWeekEnd,
     AG!AtWeekEnd, WeeklyClose, AG!WeeklyClose, Goto, AG!Goto, Idle, AG!Idle
<1>2. \A up : WeekendGates(s, up) => AG!WeekendGates(s, up)
  BY DEF WeekendGates, AG!WeekendGates, Goto, AG!Goto, Return, AG!Return, Idle, AG!Idle
<1>3. Aggregate(s) => AG!Aggregate(s)
  BY DEF Aggregate, AG!Aggregate, Floor, AG!Floor, HoldExpired, AG!HoldExpired, Goto,
     AG!Goto, Idle, AG!Idle
<1>4. \A up : BarGates(s, up) => AG!BarGates(s, up)
  BY DEF BarGates, AG!BarGates, Signals, AG!Signals, EntrySignals, AG!EntrySignals,
     ExitSignals, AG!ExitSignals, LastBarBeforeWeekend, AG!LastBarBeforeWeekend, AtWeekEnd,
     AG!AtWeekEnd, WeeklyClose, AG!WeeklyClose, Goto, AG!Goto, Idle, AG!Idle
<1>5. Reserve(s) => AG!Reserve(s)
  BY DEF Reserve, AG!Reserve, Return, AG!Return, Goto, AG!Goto, Idle, AG!Idle
<1>6. Confirm(s) => AG!Confirm(s)
  BY DEF Confirm, AG!Confirm, Return, AG!Return, Goto, AG!Goto, Idle, AG!Idle
<1> QED BY <1>1, <1>2, <1>3, <1>4, <1>5, <1>6

LEMMA SameDecision ==
  ASSUME NEW s \in Symbols, NEW open, NEW account, NEW blocks,
         Decide(s, open, account, blocks)
  PROVE  AG!Decide(s, open, account, blocks)
<1>1. \A sig, held : AG!ApplyReversal(sig, held) = ApplyReversal(sig, held)
  BY DEF ApplyReversal, AG!ApplyReversal, EntrySignals, AG!EntrySignals, EntrySide,
     AG!EntrySide, Flat, AG!Flat
<1>2. \A sig : AG!OrderOf(s, sig, open) = OrderOf(s, sig, open)
  BY DEF EntrySignals, AG!EntrySignals, EntrySide, AG!EntrySide, OrderOf, AG!OrderOf,
     Opposite, AG!Opposite
<1>3. AG!PositionRoom(s, open) <=> PositionRoom(s, open)
  <2>1. AG!OpenSymbols(open) = OpenSymbols(open) /\ AG!Flat = Flat
    BY DEF OpenSymbols, AG!OpenSymbols, Flat, AG!Flat
  <2>2. \A S : AG!Cardinality(S) = Cardinality(S)
    BY DEF Cardinality, AG!Cardinality
  <2> QED BY <2>1, <2>2 DEF PositionRoom, AG!PositionRoom
<1>4. \A sig : AG!Accepts(s, sig, open, account) <=> Accepts(s, sig, open, account)
  BY <1>3 DEF Accepts, AG!Accepts, Closes, AG!Closes, AccountAllows, AG!AccountAllows,
     ExitSignals, AG!ExitSignals, EntrySignals, AG!EntrySignals, Flat, AG!Flat
<1>5. \A order : AG!Unprotected(order) <=> Unprotected(order)
  BY DEF Unprotected, AG!Unprotected
<1>6. AG!EntrySignals = EntrySignals /\ AG!Flat = Flat
  BY DEF EntrySignals, AG!EntrySignals, Flat, AG!Flat
<1>7. \A c : Goto(s, c) => AG!Goto(s, c)
  BY DEF Goto, AG!Goto
<1>8. \A resume : Return(s, resume) => AG!Return(s, resume)
  BY DEF Return, AG!Return, Goto, AG!Goto, Idle, AG!Idle
<1> QED BY <1>1, <1>2, <1>4, <1>5, <1>6, <1>7, <1>8 DEF Decide, AG!Decide

LEMMA SameCallbacks ==
  ASSUME NEW s \in Symbols
  PROVE  /\ PlaceFailed(s) => AG!PlaceFailed(s)
         /\ \A c : Goto(s, c) => AG!Goto(s, c)
         /\ \A r : Release(s, r) => AG!Release(s, r)
         /\ \A written : Pair(s, written) => AG!Pair(s, written)
<1>1. PlaceFailed(s) => AG!PlaceFailed(s)
  BY DEF PlaceFailed, AG!PlaceFailed, Return, AG!Return, Goto, AG!Goto, Idle, AG!Idle
<1>2. \A c : Goto(s, c) => AG!Goto(s, c)
  BY DEF Goto, AG!Goto
<1>3. \A r : Release(s, r) => AG!Release(s, r)
  BY DEF Release, AG!Release
<1>4. \A written : Pair(s, written) => AG!Pair(s, written)
  BY DEF Pair, AG!Pair, OpensLeg, AG!OpensLeg, EndsLeg, AG!EndsLeg
<1> QED BY <1>1, <1>2, <1>3, <1>4

LEMMA SameSwitches ==
  /\ \A on : SetEnabled(on) => AG!SetEnabled(on)
  /\ \A s, on : SetTrading(s, on) => AG!SetTrading(s, on)
  /\ \A on : NewEngine(on) => AG!NewEngine(on)
  BY DEF SetEnabled, AG!SetEnabled, SetTrading, AG!SetTrading, NewEngine, AG!NewEngine,
     Idle, AG!Idle

-----------------------------------------------------------------------------
(* Every step is one of AnyGateway's, or leaves what it sees as it was. *)

LEMMA InitRoom == Init => Room
<1> SUFFICES ASSUME Init PROVE Room
  OBVIOUS
<1>1. session = 1 /\ session <= MaxSessions
  <2>1. session = 1 /\ MaxSessions \in Nat \ {0}
    BY ReplayAssumption DEF Init, EngineInit
  <2> QED BY <2>1
<1>2. ASSUME NEW s \in Symbols
      PROVE  Counted(s) /\ OnTheHistory(s)
  <2>1. /\ fills[s] = << >> /\ call[s] = Idle /\ emit[s] = None /\ result[s] = None
        /\ feed[s].read = 0 /\ feed[s].pc = "wait"
    BY DEF Init, EngineInit, FreshFeed
  <2>2. Reports(s) = 0 /\ Expected(s) = 0
    BY <2>1 DEF Reports, Expected, OrdersLeft, Idle
  <2>3. Longest \in Nat
    BY LongestBounds DEF Init
  <2>4. (session - 1) * Longest = 0
    BY <1>1, <2>3
  <2>5. 3 * ((session - 1) * Longest + feed[s].read) = 0
    BY <2>1, <2>4
  <2> QED BY <2>1, <2>2, <2>5 DEF Counted, OnTheHistory
<1> QED BY <1>1, <1>2 DEF Room

\* The report a symbol is about to hand over is one AnyGateway has room for.
LEMMA RoomForReport ==
  ASSUME IInv, Room, NEW s \in Symbols, emit[s] # None
  PROVE  Len(fills[s]) < 3 * (MaxSessions * Longest)
<1>1. /\ Types /\ Sound(s) /\ Counted(s) /\ session <= MaxSessions
      /\ result \in [Symbols -> {"ok", "error", None}]
      /\ feed \in [Symbols -> [read : 0..Len(history), pc : {"wait", "bar", "stopped"}]]
  BY DEF IInv, Room, Types, TypeOK
<1>2. /\ feed[s].read \in Nat /\ Len(fills[s]) \in Nat
      /\ session \in Nat \ {0} /\ OrdersLeft(call[s]) \in 0..2
      /\ Longest \in Nat /\ feed[s].read <= Longest /\ MaxSessions \in Nat
  <2>1. Len(history) \in Nat /\ Len(history) <= Longest /\ Longest \in Nat
    BY <1>1, LongestBounds DEF Types
  <2>2. feed[s].read \in Nat /\ feed[s].read <= Len(history)
    BY <1>1, ReadType
  <2>3. MaxSessions \in Nat
    BY ReplayAssumption
  <2> QED BY <1>1, <2>1, <2>2, <2>3, ReadType
<1>3. 0 <= Expected(s) /\ Expected(s) \in Int
  <2>1. CASE result[s] = None
    BY <1>2, <2>1 DEF Expected
  <2>2. CASE result[s] # None
    <3>1. call[s].stage = "place"
      BY <1>1, <2>2 DEF Sound, Placed, Answered
    <3>2. OrdersLeft(call[s]) # 0
      BY <3>1 DEF OrdersLeft
    <3> QED BY <1>2, <3>2 DEF Expected
  <2> QED BY <2>1, <2>2
<1>4. Reports(s) = Len(fills[s]) + 1
  BY DEF Reports
<1>5. PICK base \in Nat : base = (session - 1) * Longest
  <2>1. session - 1 \in Nat
    BY <1>2
  <2> QED BY <1>2, <2>1
<1>6. Len(fills[s]) + 1 <= 3 * (base + Longest)
  <2>1. (Len(fills[s]) + 1) + Expected(s) <= 3 * (base + feed[s].read)
    BY <1>1, <1>4, <1>5 DEF Counted
  <2> QED BY <1>2, <1>3, <1>5, <2>1
<1>7. base + Longest <= MaxSessions * Longest
  <2>1. PICK n \in Nat : n = session - 1
    BY <1>2
  <2>2. PICK more \in Nat : MaxSessions = (n + 1) + more
    <3>1. MaxSessions - session \in Nat
      BY <1>1, <1>2
    <3>2. MaxSessions = (n + 1) + (MaxSessions - session)
      BY <1>2, <2>1
    <3> QED BY <3>1, <3>2
  <2>3. \A a, b, l \in Nat : ((a + 1) + b) * l = (a * l + l) + b * l /\ b * l \in Nat
    OBVIOUS
  <2>4. MaxSessions * Longest = (n * Longest + Longest) + more * Longest
        /\ more * Longest \in Nat /\ n * Longest = base
    BY <1>2, <1>5, <2>1, <2>2, <2>3
  <2> QED BY <1>2, <1>5, <2>4
<1>8. PICK room \in Nat : room = MaxSessions * Longest
  BY <1>2
<1> QED BY <1>2, <1>5, <1>6, <1>7, <1>8

LEMMA StepImplements ==
  ASSUME IInv, Room, NEW s \in Symbols, Goroutine(s)
  PROVE  AG!Next \/ UNCHANGED AG!vars
<1>1. /\ Types /\ Sound(s) /\ emit \in [Symbols -> ReportsAt(Nat) \cup {None}]
  BY DEF IInv, Types, TypeOK
<1>2. UNCHANGED Connected
  <2>1. UNCHANGED link
    BY DEF Goroutine, NextBar, Tick, Stop, EngineStep, PlaceOrder, Report, HandleFill,
       PlaceReturns, brokerVars
  <2> QED BY <2>1 DEF Connected
<1>3. CASE NextBar(s) \/ Stop(s) \/ PlaceOrder(s)
  <2>1. UNCHANGED engineVars
    BY <1>3 DEF NextBar, Stop, PlaceOrder
  <2> QED BY <1>2, <2>1 DEF AG!vars, AG!engineVars, engineVars
<1>4. CASE Tick(s)
  <2>1. CheckWeekend(s, LastTime(s)) /\ LastTime(s) \in TickTimes
    <3>1. feed[s].read # 0
      BY <1>1, <1>4 DEF Tick, Sound, Fed
    <3> QED BY <1>1, <1>4, <3>1, LastTimeIsOne DEF Tick
  <2>2. AG!CheckWeekend(s, LastTime(s))
    BY <2>1, SameSections
  <2> QED BY <1>2, <2>1, <2>2 DEF AG!Next, AG!TickStep, TickTimes
<1>5. CASE EngineStep(s)
  <2>1. CASE \/ WeekendGates(s, Connected) \/ Aggregate(s) \/ BarGates(s, Connected)
             \/ Reserve(s) \/ Confirm(s)
    <3>1. \/ AG!WeekendGates(s, Connected) \/ AG!Aggregate(s) \/ AG!BarGates(s, Connected)
          \/ AG!Reserve(s) \/ AG!Confirm(s)
      BY <2>1, SameSections
    <3> QED BY <1>2, <3>1 DEF AG!Next, AG!TickStep
  <2>2. CASE \E open \in [Symbols -> Holdings] \cup {None},
                account \in AccountAnswers, blocks \in BOOLEAN :
               Decide(s, open, account, blocks)
    <3>1. PICK open \in [Symbols -> Holdings] \cup {None},
               account \in AccountAnswers, blocks \in BOOLEAN :
                 Decide(s, open, account, blocks)
      BY <2>2
    <3>2. AG!Decide(s, open, account, blocks)
      BY <3>1, SameDecision
    <3>3. open \in AG!PositionAnswers /\ account \in AG!AccountAnswers
      BY DEF AG!PositionAnswers, AG!Holdings, Holdings, AG!Sides, Sides, AG!Flat, Flat,
         AG!AccountAnswers, AccountAnswers
    <3> QED BY <1>2, <3>2, <3>3 DEF AG!Next, AG!TickStep
  <2> QED BY <1>5, <2>1, <2>2, StepIsSection
<1>6. CASE Report(s)
  <2>1. emit[s] # None /\ Release(s, emit[s]) /\ UNCHANGED call
    BY <1>6 DEF Report
  <2>2. emit[s] \in AG!ReportsAt(TickTimes)
    <3>1. emit[s] \in ReportsAt(Nat) /\ emit[s].time \in TickTimes
      BY <1>1, <2>1 DEF Room, OnTheHistory
    <3>2. emit[s] \in ReportsAt(TickTimes)
      BY <3>1 DEF ReportsAt
    <3> QED BY <3>2, SameReports
  <2>3. AG!Release(s, emit[s])
    BY <2>1, SameCallbacks
  <2>4. Len(fills[s]) < 3 * (MaxSessions * Longest)
    BY <2>1, RoomForReport
  <2>5. AG!Report(s)
    BY <1>2, <2>1, <2>2, <2>3, <2>4 DEF AG!Report, TickTimes
  <2> QED BY <2>5 DEF AG!Next
<1>7. CASE HandleFill(s)
  <2>1. AG!Pair(s, TRUE)
    BY <1>7, SameCallbacks DEF HandleFill
  <2>2. AG!HandleFill(s)
    BY <1>2, <2>1 DEF AG!HandleFill
  <2> QED BY <2>2 DEF AG!Next
<1>8. CASE PlaceReturns(s)
  <2>1. /\ call[s].stage = "place"
        /\ \/ /\ Goto(s, [call[s] EXCEPT !.stage = "confirm"])
              /\ UNCHANGED <<enabled, trading, session, inFlight, openLeg, weekendTry,
                             current, rep, fills, journal>>
           \/ PlaceFailed(s)
    BY <1>8 DEF PlaceReturns
  <2>2. AG!PlaceReturns(s)
    BY <1>2, <2>1, SameCallbacks DEF AG!PlaceReturns
  <2> QED BY <2>2 DEF AG!Next
<1> QED BY <1>3, <1>4, <1>5, <1>6, <1>7, <1>8 DEF Goroutine

LEMMA OperatorImplements ==
  ASSUME IInv, Operator \/ Disconnected
  PROVE  AG!Next \/ UNCHANGED AG!vars
<1>1. enabled \in BOOLEAN /\ trading \in [Symbols -> BOOLEAN] /\ StrategyEnabled \in BOOLEAN
  BY ReplayAssumption DEF IInv, Types, EngineTypes
<1>2. CASE ToggleKillSwitch
  <2>1. SetEnabled(~enabled) /\ UNCHANGED link /\ (~enabled) \in BOOLEAN
    BY <1>1, <1>2 DEF ToggleKillSwitch
  <2>2. AG!SetEnabled(~enabled) /\ UNCHANGED Connected
    BY <2>1, SameSwitches DEF Connected
  <2> QED BY <2>1, <2>2 DEF AG!Next, AG!Operator
<1>3. ASSUME NEW s \in Symbols, ToggleSymbol(s)
      PROVE  AG!Next
  <2>1. SetTrading(s, ~trading[s]) /\ UNCHANGED link /\ (~trading[s]) \in BOOLEAN
    BY <1>1, <1>3 DEF ToggleSymbol
  <2>2. AG!SetTrading(s, ~trading[s]) /\ UNCHANGED Connected
    BY <2>1, SameSwitches DEF Connected
  <2> QED BY <2>1, <2>2 DEF AG!Next, AG!Operator
<1>4. CASE Disconnect \/ Disconnected
  <2>1. UNCHANGED engineVars
    BY <1>4 DEF Disconnect, Disconnected
  <2>2. UNCHANGED AG!engineVars /\ Connected' \in BOOLEAN
    BY <2>1 DEF engineVars, AG!engineVars, Connected
  <2> QED BY <2>2 DEF AG!Next, AG!Connection
<1>5. CASE Connect
  <2>1. NewEngine(StrategyEnabled) /\ session < MaxSessions
    BY <1>5 DEF Connect
  <2>2. AG!NewEngine(StrategyEnabled) /\ Connected' \in BOOLEAN
    BY <2>1, SameSwitches DEF Connected
  <2> QED BY <1>1, <2>1, <2>2 DEF AG!Next, AG!Reconnect
<1> QED BY <1>2, <1>3, <1>4, <1>5 DEF Operator

LEMMA InitImplements == Init => AG!Init
<1> SUFFICES ASSUME Init PROVE AG!Init
  OBVIOUS
<1>1. EngineInit([s \in Symbols |-> TRUE], StrategyEnabled)
  BY DEF Init
<1>2. AG!EngineInit([s \in Symbols |-> TRUE], StrategyEnabled)
  BY <1>1 DEF EngineInit, AG!EngineInit, Idle, AG!Idle
<1>3. [s \in Symbols |-> TRUE] \in [Symbols -> BOOLEAN] /\ StrategyEnabled \in BOOLEAN
  BY ReplayAssumption
<1>4. Connected \in BOOLEAN
  BY DEF Connected
<1> QED BY <1>2, <1>3, <1>4 DEF AG!Init

\* The engine in front of the replay is the engine in front of some gateway: what
\* AnyGatewayProofs proves of the journal and of the tracked entry holds here
\* (broker/gateway.go, the interface; broker/replay.go, one implementation of it).
THEOREM ReplayIsAGateway == Spec => ImplementsAnyGateway
<1>1. Init => AG!Init
  BY InitImplements
<1>2. Init => Room
  BY InitRoom
<1>3. IInv /\ Room /\ [Next]_vars => Room'
  <2>1. CASE Next
    BY <2>1, RoomKeeps
  <2>2. CASE UNCHANGED vars
    BY <2>2 DEF vars, engineVars, brokerVars, Room, Counted, Reports, Expected, OnTheHistory
  <2> QED BY <2>1, <2>2
<1>4. IInv /\ Room /\ [Next]_vars => [AG!Next]_(AG!vars)
  <2>1. CASE UNCHANGED vars
    BY <2>1 DEF vars, engineVars, brokerVars, AG!vars, AG!engineVars, Connected
  <2>2. ASSUME IInv, Room, Next
        PROVE  AG!Next \/ UNCHANGED AG!vars
    BY <2>2, StepImplements, OperatorImplements DEF Next
  <2> QED BY <2>1, <2>2
<1> QED BY <1>1, <1>2, <1>3, <1>4, Invariant, PTL DEF Spec, ImplementsAnyGateway, AG!Spec

-----------------------------------------------------------------------------
(* What a switch turned off leaves under way.  The engine reads the          *)
(* kill-switch under its lock, before the gates, and the symbol after it:    *)
(* a decision past the gates still becomes an entry, and the next one,       *)
(* which finds a switch off, does not.                                       *)

\* The call in progress, if any, sends no further order while the switches stay
\* as they are.
Drained(s) ==
    /\ call[s].stage \notin {"submit", "reserve"}
    /\ call[s].stage \in {"weekendGates", "gates"} => ~(call[s].enabled /\ trading[s])
    /\ call[s].stage = "place" => result[s] # None

Spent(s) == late[s] # 0 => late[s] = 1 /\ ~MayTrade(s) /\ Drained(s)

\* What is read after the switch is off stops at the gates.
LEMMA SectionStaysDrained ==
  ASSUME Types, NEW s \in Symbols, EngineStep(s), ~MayTrade(s), Drained(s)
  PROVE  Drained(s)'
<1>1. /\ call \in [Symbols -> Calls]
      /\ UNCHANGED <<enabled, trading, result>>
  BY DEF Types, TypeOK, EngineStep, WeekendGates, Aggregate, BarGates, DecideOnAnswers,
     Decide, Reserve, Confirm, brokerVars
<1>2. ASSUME NEW c, Goto(s, c) PROVE call'[s] = c
  BY <1>1, <1>2 DEF Goto
<1>3. ASSUME NEW resume, Return(s, resume) PROVE Drained(s)'
  BY <1>2, <1>3 DEF Return, Drained, Idle
<1>4. CASE WeekendGates(s, Connected)
  <2>1. Return(s, call[s].tick)
    BY <1>4 DEF WeekendGates, Drained
  <2> QED BY <1>3, <2>1
<1>5. CASE Aggregate(s)
  <2>1. call'[s] = Idle \/ (call'[s].stage = "gates" /\ call'[s].enabled = enabled)
    <3> DEFINE g == [stage |-> "gates", bar |-> current[s], enabled |-> enabled,
                     blocked |-> inFlight[s] # "",
                     overdue |-> openLeg[s] # None
                                 /\ HoldExpired(current[s], openLeg[s].time)]
    <3>1. Goto(s, Idle) \/ Goto(s, g)
      BY <1>5 DEF Aggregate
    <3>2. g.stage = "gates" /\ g.enabled = enabled
      BY Zenon
    <3> HIDE DEF g
    <3> QED BY <1>2, <3>1, <3>2
  <2> QED BY <1>1, <2>1 DEF Drained, Idle, MayTrade
<1>6. CASE BarGates(s, Connected)
  <2>1. call'[s] = Idle
    BY <1>2, <1>6 DEF BarGates, Drained
  <2> QED BY <2>1 DEF Drained, Idle
<1>7. CASE Confirm(s)
  BY <1>3, <1>7 DEF Confirm
<1>8. ~DecideOnAnswers(s) /\ ~Reserve(s)
  BY DEF DecideOnAnswers, Decide, Reserve, Drained
<1> QED BY <1>4, <1>5, <1>6, <1>7, <1>8 DEF EngineStep

\* A goroutine counts at most its own entry, and touches no switch.
LEMMA GoroutineSpends ==
  ASSUME IInv, NEW s \in Symbols, Goroutine(s), Spent(s)
  PROVE  Spent(s)'
<1>1. /\ call \in [Symbols -> Calls] /\ late \in [Symbols -> Nat]
      /\ result \in [Symbols -> {"ok", "error", None}]
      /\ Types /\ Sound(s)
  BY DEF IInv, Types, TypeOK
<1>2. CASE EngineStep(s)
  <2>1. UNCHANGED <<late, enabled, trading>>
    BY <1>2 DEF EngineStep, WeekendGates, Aggregate, BarGates, DecideOnAnswers, Decide,
       Reserve, Confirm, brokerVars
  <2> QED BY <1>1, <1>2, <2>1, SectionStaysDrained DEF Spent, MayTrade
<1>3. CASE Tick(s)
  <2>1. /\ UNCHANGED <<late, enabled, trading>>
        /\ \/ call'[s].stage = "weekendGates" /\ call'[s].enabled = enabled
           \/ call'[s].stage = "aggregate"
    BY <1>1, <1>3 DEF Tick, CheckWeekend, Goto
  <2> QED BY <2>1 DEF Spent, MayTrade, Drained
<1>4. CASE NextBar(s) \/ Stop(s) \/ HandleFill(s) \/ Report(s)
  <2>1. UNCHANGED <<late, enabled, trading, call, result>>
    BY <1>4 DEF NextBar, Stop, HandleFill, Pair, Report, Release, engineVars, brokerVars
  <2> QED BY <2>1 DEF Spent, MayTrade, Drained
<1>5. CASE PlaceOrder(s)
  <2>1. /\ UNCHANGED <<call, enabled, trading>>
        /\ call[s].stage = "place" /\ result[s] = None /\ late[s] = 0
    BY <1>1, <1>5 DEF PlaceOrder, engineVars, Spent, Drained
  <2>2. result'[s] # None
    <3>1. \E a \in {"ok", "error"} : result' = [result EXCEPT ![s] = a]
      BY <1>5 DEF PlaceOrder
    <3> QED BY <1>1, <3>1, NoneIsNoAnswer
  <2>3. late' = late \/ (~MayTrade(s) /\ late' = [late EXCEPT ![s] = @ + 1])
    BY <1>5 DEF PlaceOrder
  <2>4. CASE late' = late
    BY <2>1, <2>4 DEF Spent
  <2>5. CASE ~MayTrade(s) /\ late' = [late EXCEPT ![s] = @ + 1]
    BY <1>1, <2>1, <2>2, <2>5 DEF Spent, MayTrade, Drained
  <2> QED BY <2>3, <2>4, <2>5
<1>6. CASE PlaceReturns(s)
  <2>1. UNCHANGED <<late, enabled, trading>>
    BY <1>6 DEF PlaceReturns, PlaceFailed
  <2>2. call'[s] = Idle \/ call'[s].stage \in {"confirm", "aggregate"}
    <3>1. [call[s] EXCEPT !.stage = "confirm"].stage = "confirm"
      <4>1. call[s] = [stage |-> "place", order |-> call[s].order, resume |-> call[s].resume]
        BY <1>1, <1>6, OrderStages DEF PlaceReturns
      <4> QED BY <4>1
    <3> DEFINE back == [stage |-> "aggregate", tick |-> call[s].resume]
    <3>2. \E c \in {[call[s] EXCEPT !.stage = "confirm"], Idle, back} :
             call' = [call EXCEPT ![s] = c]
      BY <1>6 DEF PlaceReturns, PlaceFailed, Return, Goto
    <3>3. back.stage = "aggregate"
      OBVIOUS
    <3> HIDE DEF back
    <3> QED BY <1>1, <3>1, <3>2, <3>3
  <2> QED BY <2>1, <2>2 DEF Spent, MayTrade, Drained, Idle
<1> QED BY <1>2, <1>3, <1>4, <1>5, <1>6 DEF Goroutine

\* The other symbols see no step of it, and a switch touched starts a new count.
LEMMA SpentKeeps ==
  ASSUME IInv, NEW s \in Symbols, Spent(s), [Next]_vars
  PROVE  Spent(s)'
<1>1. late \in [Symbols -> Nat] /\ trading \in [Symbols -> BOOLEAN]
  BY DEF IInv, Types, TypeOK, EngineTypes
<1>2. ASSUME NEW t \in Symbols, t # s, Goroutine(t) PROVE Spent(s)'
  <2>1. UNCHANGED <<result[s], call[s]>>
    BY <1>2, Own
  <2>2. UNCHANGED <<enabled, trading>>
    BY <1>2 DEF Goroutine, NextBar, Tick, CheckWeekend, Stop, EngineStep, WeekendGates,
       Aggregate, BarGates, DecideOnAnswers, Decide, Reserve, Confirm, PlaceOrder, Report,
       Release, HandleFill, Pair, PlaceReturns, PlaceFailed, engineVars
  <2>3. late' = late \/ late' = [late EXCEPT ![t] = @ + 1]
    BY <1>2 DEF Goroutine, NextBar, Tick, Stop, EngineStep, PlaceOrder, Report,
       HandleFill, PlaceReturns, brokerVars
  <2>4. late'[s] = late[s]
    BY <1>1, <1>2, <2>3
  <2> QED BY <2>1, <2>2, <2>4 DEF Spent, MayTrade, Drained
<1>3. CASE ToggleKillSwitch \/ Connect
  <2>1. late'[s] = 0
    BY <1>3 DEF ToggleKillSwitch, Connect, CountAgain
  <2> QED BY <2>1 DEF Spent
<1>4. ASSUME NEW t \in Symbols, ToggleSymbol(t) PROVE Spent(s)'
  <2>1. late' = [u \in Symbols |-> IF u \in {t} THEN 0 ELSE late[u]]
    BY <1>4 DEF ToggleSymbol, CountAgain
  <2>2. CASE t = s
    BY <2>1, <2>2 DEF Spent
  <2>3. CASE t # s
    <3>1. /\ late'[s] = late[s] /\ trading'[s] = trading[s]
          /\ UNCHANGED <<enabled, call, result>>
      BY <1>1, <1>4, <2>1, <2>3 DEF ToggleSymbol, SetTrading
    <3> QED BY <3>1 DEF Spent, MayTrade, Drained
  <2> QED BY <2>2, <2>3
<1>5. CASE Disconnect \/ Disconnected \/ UNCHANGED vars
  <2>1. UNCHANGED <<late, enabled, trading, call, result>>
    BY <1>5 DEF Disconnect, Disconnected, vars, engineVars, brokerVars
  <2> QED BY <2>1 DEF Spent, MayTrade, Drained
<1> QED BY <1>2, <1>3, <1>4, <1>5, GoroutineSpends DEF Next, Operator

\* Nothing is left behind: no reservation, by a tick; by a switch turned off, no more
\* than the entry of the decision under way (engine.go, submit and onBarClosed).
THEOREM NothingIsLeft == Spec => []NothingLeft
<1> DEFINE AllSpent == \A s \in Symbols : Spent(s)
<1>1. Init => AllSpent
  BY DEF Init, Spent
<1>2. IInv /\ AllSpent /\ [Next]_vars => AllSpent'
  BY SpentKeeps
<1>3. IInv /\ AllSpent => NothingLeft
  <2> SUFFICES ASSUME IInv, AllSpent PROVE NothingLeft
    OBVIOUS
  <2>1. NoReservationLeft
    BY Rest DEF NoReservationLeft
  <2>2. SwitchDrains
    BY DEF Spent, SwitchDrains
  <2> QED BY <2>1, <2>2 DEF NothingLeft
<1> HIDE DEF AllSpent
<1> QED BY <1>1, <1>2, <1>3, Invariant, PTL DEF Spec

-----------------------------------------------------------------------------
(* Exits are on time.  The engine looks for a week-end exit at each tick and *)
(* for the horizon's at each bar that closes, before it decides anything     *)
(* else: from the section that finds the exit due to the report of its       *)
(* execution, the exit is under way.                                         *)

\* A bar starts at the latest with the ticks it contains.
LEMMA FloorBelow ==
  ASSUME NEW t \in Nat
  PROVE  Floor(t) \in Nat /\ Floor(t) <= t
  BY MarketTimeAssumption DEF Floor

\* Two different multiples are at least one step apart.
LEMMA ProductBound ==
  ASSUME NEW w \in Nat \ {0}, NEW j \in Int, NEW k \in Int, j * w < k * w
  PROVE  j + 1 <= k /\ j * w + w <= k * w
<1>1. j < k
  OBVIOUS
<1>2. (k - j) * w >= w
  OBVIOUS
<1> QED BY <1>1, <1>2

\* The weekly close of a time is the first multiple of the week from it on.
LEMMA CloseIsMultiple ==
  ASSUME NEW t \in Nat
  PROVE  /\ WeeklyClose(t) \in Nat /\ t <= WeeklyClose(t) /\ WeeklyClose(t) < t + Week
         /\ \E k \in Nat : WeeklyClose(t) = k * Week
<1>1. Week \in Nat \ {0}
  BY MarketTimeAssumption
<1>2. t = Week * (t \div Week) + (t % Week) /\ t \div Week \in Nat /\ t % Week \in 0..(Week - 1)
  BY <1>1
<1>3. /\ WeeklyClose(t) \in Nat /\ t <= WeeklyClose(t) /\ WeeklyClose(t) < t + Week
  BY <1>1, <1>2 DEF WeeklyClose
<1>4. PICK q \in Nat : q = t \div Week
  BY <1>2
<1>5. t = q * Week + (t % Week)
  BY <1>1, <1>2, <1>4
<1>6. CASE t % Week = 0
  BY <1>1, <1>4, <1>5, <1>6 DEF WeeklyClose
<1>7. CASE t % Week # 0
  <2>1. WeeklyClose(t) = q * Week + Week
    BY <1>1, <1>2, <1>5, <1>7 DEF WeeklyClose
  <2>2. q * Week + Week = (q + 1) * Week /\ q + 1 \in Nat
    BY <1>1
  <2>3. WeeklyClose(t) = (q + 1) * Week
    BY <2>1, <2>2
  <2> QED BY <1>3, <2>2, <2>3
<1> QED BY <1>3, <1>6, <1>7

\* A later time has no earlier weekly close.
LEMMA CloseMonotone ==
  ASSUME NEW a \in Nat, NEW b \in Nat, a <= b
  PROVE  WeeklyClose(a) <= WeeklyClose(b)
<1>0. Week \in Nat \ {0}
  BY MarketTimeAssumption
<1>1. PICK j \in Nat : WeeklyClose(a) = j * Week
  BY CloseIsMultiple
<1>2. PICK k \in Nat : WeeklyClose(b) = k * Week
  BY CloseIsMultiple
<1>3. WeeklyClose(a) \in Nat /\ WeeklyClose(b) \in Nat /\ WeeklyClose(a) < a + Week
      /\ b <= WeeklyClose(b)
  BY CloseIsMultiple
<1>4. CASE WeeklyClose(b) < WeeklyClose(a)
  <2>1. k * Week + Week <= j * Week
    BY <1>0, <1>1, <1>2, <1>4, ProductBound
  <2> QED BY <1>0, <1>1, <1>2, <1>3, <2>1
<1> QED BY <1>3, <1>4
-----------------------------------------------------------------------------
\* The tick of the call has not been aggregated yet.
BeforeBar(c) ==
    \/ c.stage \in {"weekendGates", "aggregate"}
    \/ c.stage \in {"submit", "reserve", "place", "confirm"} /\ c.resume # None

\* The ticks the aggregator has taken in.
Taken(s) ==
    IF feed[s].pc = "bar" \/ BeforeBar(call[s]) THEN feed[s].read - 1 ELSE feed[s].read

\* A call is about the last tick; the open bar contains the last tick taken in,
\* unless an older one came late; a week-end exit is asked for once a tick.
Ticking(s) ==
    /\ call[s].stage \in {"weekendGates", "aggregate"} => call[s].tick = LastTime(s)
    /\ call[s].stage \in {"submit", "reserve", "place", "confirm"} =>
          call[s].resume \in {None, LastTime(s)}
    /\ IF Taken(s) = 0 THEN current[s] = None
       ELSE /\ current[s] \in Nat
            /\ Floor(history[Taken(s)]) <= current[s] /\ current[s] <= history[Taken(s)]
    /\ feed[s].read = 0 => weekendTry[s] = None
    /\ weekendTry[s] # None =>
          /\ weekendTry[s] <= LastTime(s)
          /\ feed[s].pc = "bar" \/ call[s].stage = "weekendGates" => weekendTry[s] < LastTime(s)

\* An entry at this time is not inside the guard of its week.
Clear(time) == Dense /\ Prompt /\ ~HoldsOverWeekend => ~AtWeekEnd(time, time)

\* Entries are decided on a bar that does not end the week; an exit still faces
\* the position it was decided on.
Deciding(s) ==
    LET c == call[s] IN
    /\ c.stage = "gates" => LastBarBeforeWeekend(c.bar) \/ Clear(LastTime(s))
    /\ c.stage = "submit" =>
          /\ c.resume # None => c.sig = "EXIT"
          /\ c.sig \in EntrySignals => c.lastOfWeek \/ Clear(LastTime(s))
    /\ c.stage = "reserve" \/ (c.stage = "place" /\ result[s] = None) =>
          IF c.order.entry THEN c.resume = None /\ Clear(LastTime(s))
          ELSE positions[s] = Opposite(c.order.side)

\* What has been entered, and when.
Entered(s) ==
    /\ Unpaired(s) /\ ~Fill(s).closing =>
          /\ Fill(s).time = LastTime(s) /\ Clear(LastTime(s))
          /\ Answered(s) /\ call[s].resume = None
    /\ openLeg[s] # None =>
          /\ openLeg[s].time <= LastTime(s) /\ Clear(openLeg[s].time)
          /\ current[s] # None /\ feed[s].read # 0

\* Nobody has touched a switch: the calls find them as the program set them.
Untouched(s) ==
    toggles = 0 =>
        /\ trading[s] /\ enabled = StrategyEnabled
        /\ call[s].stage \in {"weekendGates", "gates"} => call[s].enabled = StrategyEnabled
        /\ \/ openLeg[s] # None \/ Unpaired(s)
           \/ call[s].stage \in {"submit", "reserve", "place", "confirm"}
           => StrategyEnabled

\* An exit is under way.
Leaving(s) ==
    LET c == call[s] IN
    \/ c.stage = "weekendGates"
    \/ c.stage = "gates" /\ c.overdue /\ ~c.blocked
    \/ c.stage = "submit" /\ c.sig = "EXIT"
    \/ c.stage = "reserve" /\ ~c.order.entry
    \/ c.stage = "place" /\ ~c.order.entry /\ result[s] = None
    \/ Unpaired(s)

WeekendDue(s) ==
    /\ ~HoldsOverWeekend /\ openLeg[s] # None /\ feed[s].pc # "bar"
    /\ LastTime(s) \notin Unpriced /\ openLeg[s].time # LastTime(s)
    /\ AtWeekEnd(LastTime(s), openLeg[s].time)

HorizonDue(s) ==
    /\ Dense /\ MaxHold > 0 /\ openLeg[s] # None
    /\ current[s] > openLeg[s].time + MaxHold

Prompted(s) == HandsOff /\ (WeekendDue(s) \/ HorizonDue(s)) => Leaving(s)

Timely(s) == Ticking(s) /\ Deciding(s) /\ Entered(s) /\ Untouched(s) /\ Prompted(s)

AllTimely == \A s \in Symbols : Timely(s)

-----------------------------------------------------------------------------
(* What the steps need *)

LEMMA HistoryRises ==
  ASSUME Types, NEW i \in 1..Len(history), NEW j \in 1..Len(history), i < j
  PROVE  history[i] \in Nat /\ history[j] \in Nat /\ history[i] < history[j]
<1>1. history \in Histories /\ history \in Seq(Nat)
  BY HistoryType DEF Types
<1>2. \A h \in Histories : \A m, n \in 1..Len(h) : m < n => h[m] < h[n]
  BY ReplayAssumption
<1> QED BY <1>1, <1>2

LEMMA SameHistory ==
  ASSUME history' = history
  PROVE  Dense' = Dense /\ Prompt' = Prompt
  BY DEF Dense, Prompt

\* The types a step of the symbol relies on.
LEMMA Typing ==
  ASSUME IInv, NEW s \in Symbols
  PROVE  /\ call \in [Symbols -> Calls] /\ call[s] \in Calls
         /\ current \in [Symbols -> Nat \cup {None}]
         /\ weekendTry \in [Symbols -> Nat \cup {None}]
         /\ openLeg \in [Symbols -> Legs \cup {None}]
         /\ rep \in [Symbols -> ReportsAt(Nat) \cup {None}]
         /\ emit \in [Symbols -> ReportsAt(Nat) \cup {None}]
         /\ result \in [Symbols -> {"ok", "error", None}]
         /\ positions \in [Symbols -> Holdings]
         /\ feed \in [Symbols -> [read : 0..Len(history), pc : {"wait", "bar", "stopped"}]]
         /\ feed[s].read \in 0..Len(history) /\ Len(history) \in Nat
         /\ feed[s].read # 0 => LastTime(s) \in Nat
         /\ openLeg[s] # None => openLeg[s].time \in Nat /\ openLeg[s].side \in Sides
<1>1. Types
  BY DEF IInv
<1>2. /\ feed \in [Symbols -> [read : 0..Len(history), pc : {"wait", "bar", "stopped"}]]
      /\ call \in [Symbols -> Calls]
      /\ openLeg \in [Symbols -> Legs \cup {None}]
  BY <1>1 DEF Types, TypeOK, EngineTypes
<1>3. feed[s].read \in 0..Len(history) /\ call[s] \in Calls
  BY <1>2
<1>4. openLeg[s] # None => openLeg[s].time \in Nat /\ openLeg[s].side \in Sides
  BY <1>2 DEF Legs
<1> QED BY <1>1, <1>2, <1>3, <1>4, TimeType, HistoryType DEF Types, TypeOK, EngineTypes

LEMMA TimelyElsewhere ==
  ASSUME NEW s \in Symbols, Timely(s),
         UNCHANGED <<history, toggles, link, enabled>>,
         UNCHANGED <<trading[s], call[s], rep[s], emit[s], result[s], openLeg[s],
                     positions[s], feed[s], current[s], weekendTry[s]>>
  PROVE  Timely(s)'
<1>1. Dense' = Dense /\ Prompt' = Prompt /\ LastTime(s)' = LastTime(s)
  BY SameHistory DEF LastTime
<1>2. Unpaired(s)' = Unpaired(s) /\ Fill(s)' = Fill(s) /\ Taken(s)' = Taken(s)
  BY DEF Unpaired, Fill, Taken, BeforeBar
<1>3. Ticking(s)'
  BY <1>1, <1>2 DEF Timely, Ticking
<1>4. Deciding(s)' /\ Entered(s)'
  BY <1>1, <1>2 DEF Timely, Deciding, Entered, Clear, Answered
<1>5. Untouched(s)'
  BY <1>2 DEF Timely, Untouched
<1>6. Prompted(s)'
  BY <1>1, <1>2 DEF Timely, Prompted, HandsOff, WeekendDue, HorizonDue, Leaving
<1> QED BY <1>3, <1>4, <1>5, <1>6 DEF Timely

-----------------------------------------------------------------------------
(* The goroutine *)

LEMMA NextBarTimely ==
  ASSUME IInv, NEW s \in Symbols, NextBar(s), Timely(s)
  PROVE  Timely(s)'
<1>1. /\ Types /\ Sound(s) /\ Quiet(s) /\ feed[s].pc = "wait" /\ call[s] = Idle
      /\ UNCHANGED <<engineVars, history, link, result, late, toggles>>
  BY DEF IInv, NextBar, Quiet
<1>2. emit[s] = None /\ rep[s] = None /\ ~Unpaired(s)
  BY <1>1, WhenQuiet
<1>3. /\ feed'[s].pc = "bar" /\ feed'[s].read = feed[s].read + 1
      /\ feed'[s].read \in 1..Len(history)
  BY <1>1, Typing DEF NextBar
<1>4. feed[s].read # 0 => LastTime(s) \in Nat /\ LastTime(s)' \in Nat /\ LastTime(s) < LastTime(s)'
  <2>1. feed[s].read # 0 => feed[s].read \in 1..Len(history) /\ feed[s].read < feed[s].read + 1
    BY Typing
  <2> QED BY <1>1, <1>3, <2>1, HistoryRises DEF LastTime
<1>5. Taken(s) = feed[s].read /\ Taken(s)' = feed[s].read
  BY <1>1, <1>3, Typing DEF Taken, BeforeBar, Idle, engineVars
<1>6. Ticking(s)'
  <2>1. Ticking(s) /\ UNCHANGED <<call, current, weekendTry, history>>
    BY <1>1 DEF Timely, engineVars
  <2>2. /\ IF Taken(s)' = 0 THEN current'[s] = None
           ELSE /\ current'[s] \in Nat
                /\ Floor(history[Taken(s)']) <= current'[s]
                /\ current'[s] <= history[Taken(s)']
    BY <1>5, <2>1 DEF Ticking
  <2>3. weekendTry'[s] # None => weekendTry'[s] < LastTime(s)'
    <3>1. weekendTry[s] # None => /\ weekendTry[s] <= LastTime(s) /\ feed[s].read # 0
                                  /\ weekendTry[s] \in Nat
      BY <2>1, Typing DEF Ticking
    <3> QED BY <1>4, <2>1, <3>1
  <2>4. weekendTry'[s] # None => weekendTry'[s] <= LastTime(s)'
    <3>1. weekendTry[s] # None => weekendTry[s] \in Nat /\ feed[s].read # 0
      BY <2>1, Typing DEF Ticking
    <3> QED BY <1>4, <2>1, <2>3, <3>1
  <2>5. call'[s].stage = "idle" /\ feed'[s].read # 0
    BY <1>1, <1>3, <2>1 DEF Idle
  <2> QED BY <2>1, <2>2, <2>3, <2>4, <2>5 DEF Ticking
<1>7. Deciding(s)'
  BY <1>1 DEF Deciding, Idle, engineVars
<1>8. Unpaired(s)' => openLeg[s] # None /\ Fill(s)'.closing
  <2>1. CASE UNCHANGED <<positions, emit, closes>>
    BY <1>1, <1>2, <2>1 DEF Unpaired, engineVars
  <2>2. CASE positions[s] # Flat /\
             emit' = [emit EXCEPT ![s] = [status |-> "FILLED", side |-> Opposite(positions[s]),
                                          closing |-> TRUE, time |-> history[feed[s].read + 1]]]
    <3>1. openLeg[s] # None
      BY <1>1, <1>2, <2>2 DEF Sound, Followed
    <3>2. Fill(s)' = emit'[s]
      BY <1>1, <1>2 DEF Fill, engineVars
    <3>3. emit'[s].closing = TRUE
      BY <2>2, Typing
    <3> QED BY <3>1, <3>2, <3>3
  <2> QED BY <1>1, <2>1, <2>2 DEF NextBar
<1>9. Entered(s)'
  <2>1. openLeg[s] # None => /\ openLeg[s].time <= LastTime(s)' /\ feed'[s].read # 0
                             /\ current[s] # None /\ Clear(openLeg[s].time)
    <3>1. openLeg[s] # None => /\ openLeg[s].time <= LastTime(s) /\ feed[s].read # 0
                               /\ current[s] # None /\ Clear(openLeg[s].time)
      BY DEF Timely, Entered
    <3> QED BY <1>3, <1>4, <3>1, Typing
  <2> QED BY <1>1, <1>8, <2>1, SameHistory DEF Entered, Clear, engineVars
<1>10. Untouched(s)'
  BY <1>1, <1>8 DEF Timely, Untouched, Idle, engineVars
<1>11. Prompted(s)'
  <2>1. ~Leaving(s)
    BY <1>1, <1>2 DEF Leaving, Idle
  <2>2. ~WeekendDue(s)'
    BY <1>3 DEF WeekendDue
  <2>3. HandsOff' = HandsOff /\ HorizonDue(s)' = HorizonDue(s)
    BY <1>1, SameHistory DEF HandsOff, HorizonDue, engineVars
  <2> QED BY <2>1, <2>2, <2>3 DEF Timely, Prompted
<1> QED BY <1>6, <1>7, <1>9, <1>10, <1>11 DEF Timely

\* A tick finds the exit of the week-end due, and asks for it: no other has been
\* asked for since the tick before, a minute ago or more.
LEMMA TickTimely ==
  ASSUME IInv, Retry = 1, NEW s \in Symbols, Tick(s), Timely(s)
  PROVE  Timely(s)'
<1> DEFINE t == LastTime(s)
           gates == [stage |-> "weekendGates", tick |-> t, enabled |-> enabled]
           straight == [stage |-> "aggregate", tick |-> t]
<1>1. /\ Types /\ Sound(s) /\ Quiet(s) /\ feed[s].pc = "bar" /\ call[s] = Idle
      /\ UNCHANGED <<history, link, positions, emit, result, closes, late, toggles>>
      /\ UNCHANGED <<enabled, trading, session, inFlight, openLeg, weekendTry, current, rep>>
      /\ CheckWeekend(s, t)
  BY DEF IInv, Tick, Quiet, CheckWeekend
<1>2. emit[s] = None /\ rep[s] = None /\ ~Unpaired(s) /\ inFlight[s] = "" /\ feed[s].read # 0
  BY <1>1, WhenQuiet DEF Sound, Fed
<1>3. /\ feed'[s].pc = "wait" /\ feed'[s].read = feed[s].read /\ LastTime(s)' = t /\ t \in Nat
      /\ ~Unpaired(s)'
  BY <1>1, <1>2, Typing DEF Tick, LastTime, Unpaired
<1>4. IF WeekendExitDue(s, t) THEN call'[s] = gates ELSE call'[s] = straight
  BY <1>1, Typing DEF CheckWeekend, Goto
<1>5. /\ call'[s].stage \in {"weekendGates", "aggregate"} /\ call'[s].tick = t
      /\ call'[s].stage = "weekendGates" => WeekendExitDue(s, t) /\ call'[s].enabled = enabled
  <2>1. gates.stage = "weekendGates" /\ gates.tick = t /\ gates.enabled = enabled
    BY Zenon
  <2>2. straight.stage = "aggregate" /\ straight.tick = t
    BY Zenon
  <2> HIDE DEF gates, straight, t
  <2> QED BY <1>4, <2>1, <2>2
<1>6. Taken(s) = feed[s].read - 1 /\ Taken(s)' = feed[s].read - 1
  BY <1>1, <1>3, <1>5 DEF Taken, BeforeBar
<1>7. Ticking(s)'
  <2>1. Ticking(s)
    BY DEF Timely
  <2> HIDE DEF t
  <2> QED BY <1>1, <1>2, <1>3, <1>5, <1>6, <2>1 DEF Ticking, t
<1>8. Deciding(s)'
  BY <1>5 DEF Deciding
<1>9. Entered(s)'
  <2>1. UNCHANGED <<openLeg, current, history>> /\ ~Unpaired(s)' /\ feed'[s].read # 0
        /\ LastTime(s)' = LastTime(s)
    BY <1>1, <1>2, <1>3
  <2>2. Dense' = Dense /\ Prompt' = Prompt
    BY <2>1, SameHistory
  <2>3. openLeg[s] # None => openLeg[s].time <= LastTime(s) /\ Clear(openLeg[s].time)
                             /\ current[s] # None
    BY DEF Timely, Entered
  <2> QED BY <2>1, <2>2, <2>3 DEF Entered, Clear
<1>10. Untouched(s)'
  BY <1>1, <1>3, <1>5 DEF Timely, Untouched
<1>11. Prompted(s)'
  <2>1. WeekendDue(s)' => WeekendExitDue(s, t)
    <3>1. WeekendDue(s)' => ~HoldsOverWeekend /\ openLeg[s] # None /\ AtWeekEnd(t, openLeg[s].time)
      BY <1>1, <1>3 DEF WeekendDue
    <3>2. weekendTry[s] # None => t >= weekendTry[s] + Retry
      <4>1. weekendTry[s] # None => weekendTry[s] \in Nat /\ weekendTry[s] < t
        BY <1>1, Typing DEF Timely, Ticking
      <4> HIDE DEF t
      <4> QED BY <1>3, <4>1
    <3> QED BY <1>2, <3>1, <3>2 DEF WeekendExitDue
  <2>2. WeekendDue(s)' => Leaving(s)'
    <3>1. WeekendExitDue(s, t) => call'[s].stage = "weekendGates"
      <4>1. gates.stage = "weekendGates"
        BY Zenon
      <4> HIDE DEF gates, straight
      <4> QED BY <1>4, <4>1
    <3> QED BY <2>1, <3>1 DEF Leaving
  <2>3. ~Leaving(s)
    <3>1. call[s] = Idle /\ ~Unpaired(s)
      BY <1>1, <1>2
    <3> QED BY <3>1 DEF Leaving, Idle
  <2>4. HandsOff' = HandsOff /\ HorizonDue(s)' = HorizonDue(s)
    BY <1>1, SameHistory DEF HandsOff, HorizonDue
  <2> QED BY <2>2, <2>3, <2>4 DEF Timely, Prompted
<1> QED BY <1>7, <1>8, <1>9, <1>10, <1>11 DEF Timely

LEMMA StopTimely ==
  ASSUME IInv, NEW s \in Symbols, Stop(s), Timely(s)
  PROVE  Timely(s)'
<1>1. /\ feed[s].pc = "wait" /\ feed'[s].pc = "stopped" /\ feed'[s].read = feed[s].read
      /\ UNCHANGED <<engineVars, history, link, positions, emit, result, closes, toggles>>
      /\ call[s] = Idle
  BY Typing DEF Stop, Quiet
<1>2. LastTime(s)' = LastTime(s) /\ Unpaired(s)' = Unpaired(s) /\ Fill(s)' = Fill(s)
      /\ Taken(s)' = Taken(s)
  BY <1>1 DEF LastTime, Unpaired, Fill, Taken, BeforeBar, engineVars
<1>3. Ticking(s)'
  BY <1>1, <1>2 DEF Timely, Ticking, Idle, engineVars
<1>4. Deciding(s)'
  BY <1>1 DEF Deciding, Idle, engineVars
<1>5. Entered(s)'
  BY <1>1, <1>2, SameHistory DEF Timely, Entered, Clear, Answered, engineVars
<1>6. Untouched(s)'
  BY <1>1, <1>2 DEF Timely, Untouched, engineVars
<1>7. Prompted(s)'
  BY <1>1, <1>2, SameHistory
     DEF Timely, Prompted, HandsOff, WeekendDue, HorizonDue, Leaving, engineVars
<1> QED BY <1>3, <1>4, <1>5, <1>6, <1>7 DEF Timely

-----------------------------------------------------------------------------
(* The sections of a tick *)

LEMMA InsideSection ==
  ASSUME IInv, NEW s \in Symbols, EngineStep(s)
  PROVE  /\ UNCHANGED brokerVars /\ UNCHANGED <<enabled, trading, session, openLeg, rep>>
         /\ emit[s] = None /\ rep[s] = None /\ result[s] = None /\ inFlight[s] = ""
         /\ feed[s].pc = "wait" /\ feed[s].read # 0 /\ ~Unpaired(s) /\ ~Unpaired(s)'
         /\ LastTime(s)' = LastTime(s) /\ LastTime(s) \in Nat
         /\ Dense' = Dense /\ Prompt' = Prompt /\ HandsOff' = HandsOff
<1>1. /\ UNCHANGED brokerVars /\ UNCHANGED <<enabled, trading, session, openLeg, rep>>
      /\ call[s] # Idle /\ call[s].stage # "place"
  <2>1. UNCHANGED brokerVars /\ UNCHANGED <<enabled, trading, session, openLeg, rep>>
    BY DEF EngineStep, WeekendGates, Aggregate, BarGates, DecideOnAnswers, Decide, Reserve,
       Confirm
  <2>2. call[s] # Idle /\ call[s].stage # "place"
    BY StepIsSection, SectionFrame
  <2> QED BY <2>1, <2>2
<1>2. /\ emit[s] = None /\ rep[s] = None /\ result[s] = None /\ inFlight[s] = ""
      /\ feed[s].pc = "wait" /\ feed[s].read # 0 /\ ~Unpaired(s)
  BY <1>1, InSection
<1>3. ~Unpaired(s)' /\ LastTime(s)' = LastTime(s) /\ HandsOff' = HandsOff
  BY <1>1, <1>2 DEF Unpaired, LastTime, HandsOff, brokerVars
<1>4. Dense' = Dense /\ Prompt' = Prompt
  BY <1>1, SameHistory DEF brokerVars
<1> QED BY <1>1, <1>2, <1>3, <1>4, Typing

LEMMA FromSection ==
  ASSUME IInv, NEW s \in Symbols, EngineStep(s), Timely(s),
         Ticking(s)', Deciding(s)', Prompted(s)',
         openLeg[s] # None => current'[s] # None,
         toggles = 0 /\ call'[s].stage \in {"weekendGates", "gates"}
            => call'[s].enabled = StrategyEnabled,
         toggles = 0 /\ call'[s].stage \in {"submit", "reserve", "place", "confirm"}
            => StrategyEnabled
  PROVE  Timely(s)'
<1>1. /\ UNCHANGED brokerVars /\ UNCHANGED <<enabled, trading, session, openLeg, rep>>
      /\ ~Unpaired(s)' /\ LastTime(s)' = LastTime(s) /\ Dense' = Dense /\ Prompt' = Prompt
  BY InsideSection
<1>2. Entered(s)'
  <2>1. feed' = feed
    BY <1>1 DEF brokerVars
  <2>2. openLeg[s] # None => /\ openLeg[s].time <= LastTime(s) /\ Clear(openLeg[s].time)
                             /\ feed[s].read # 0
    BY DEF Timely, Entered
  <2> QED BY <1>1, <2>1, <2>2 DEF Entered, Clear
<1>3. Untouched(s)'
  BY <1>1 DEF Timely, Untouched, brokerVars
<1> QED BY <1>2, <1>3 DEF Timely

\* What is due stays due in a section that leaves the open bar alone.
LEMMA DueStays ==
  ASSUME IInv, NEW s \in Symbols, EngineStep(s), Timely(s), current'[s] = current[s],
         HandsOff /\ openLeg[s] # None /\ Leaving(s) => Leaving(s)'
  PROVE  Prompted(s)'
<1>1. /\ UNCHANGED brokerVars /\ UNCHANGED openLeg
      /\ LastTime(s)' = LastTime(s) /\ Dense' = Dense /\ HandsOff' = HandsOff
  BY InsideSection
<1>2. WeekendDue(s)' = WeekendDue(s) /\ HorizonDue(s)' = HorizonDue(s)
  BY <1>1 DEF WeekendDue, HorizonDue, brokerVars
<1>3. WeekendDue(s) \/ HorizonDue(s) => openLeg[s] # None
  BY DEF WeekendDue, HorizonDue
<1> QED BY <1>1, <1>2, <1>3 DEF Timely, Prompted

LEMMA WeekendGatesTimely ==
  ASSUME IInv, NEW s \in Symbols, EngineStep(s), WeekendGates(s, Connected), Timely(s)
  PROVE  Timely(s)'
<1> DEFINE t == LastTime(s)
           exit == [stage |-> "submit", sig |-> "EXIT", lastOfWeek |-> FALSE, resume |-> t]
           on == [stage |-> "aggregate", tick |-> t]
<1>1. /\ UNCHANGED brokerVars /\ UNCHANGED <<enabled, trading, openLeg, current>>
      /\ feed[s].pc = "wait" /\ feed[s].read # 0 /\ ~Unpaired(s)' /\ LastTime(s)' = t /\ t \in Nat
  BY InsideSection DEF WeekendGates
<1>2. /\ call[s].stage = "weekendGates" /\ call[s].tick = t /\ t # None
      /\ toggles = 0 => call[s].enabled = StrategyEnabled /\ trading[s]
      /\ openLeg[s] # None /\ toggles = 0 => StrategyEnabled
  <2>1. call[s].stage = "weekendGates"
    BY DEF WeekendGates
  <2>2. call[s].tick = t
    BY <2>1 DEF Timely, Ticking
  <2>3. t # None
    BY <1>1, LiveEngineAssumption
  <2> QED BY <2>1, <2>2, <2>3 DEF Timely, Untouched
<1>3. exit.stage = "submit" /\ exit.sig = "EXIT" /\ exit.resume = t
  BY Zenon
<1>4. on.stage = "aggregate" /\ on.tick = t
  BY Zenon
<1>5. /\ "EXIT" \notin EntrySignals
      /\ feed' = feed /\ result' = result /\ positions' = positions /\ history' = history
  BY <1>1 DEF EntrySignals, brokerVars
<1>6. CASE call[s].enabled /\ trading[s] /\ Connected
  <2>1. weekendTry' = [weekendTry EXCEPT ![s] = t] /\ call' = [call EXCEPT ![s] = exit]
    BY <1>2, <1>6 DEF WeekendGates, Goto
  <2>2. weekendTry'[s] = t /\ call'[s] = exit
    BY <2>1, Typing
  <2> HIDE DEF exit, on, t
  <2>3. Taken(s)' = Taken(s)
    BY <1>2, <1>3, <1>5, <2>2 DEF Taken, BeforeBar
  <2>4. Ticking(s)'
    BY <1>1, <1>2, <1>3, <1>5, <2>2, <2>3 DEF Timely, Ticking
  <2>5. Deciding(s)'
    BY <1>3, <1>5, <2>2 DEF Deciding
  <2>6. Prompted(s)'
    BY <1>3, <2>2 DEF Prompted, Leaving
  <2> QED BY <1>1, <1>2, <1>3, <1>6, <2>2, <2>4, <2>5, <2>6, FromSection DEF Timely, Entered
<1>7. CASE ~(call[s].enabled /\ trading[s] /\ Connected)
  <2>1. UNCHANGED weekendTry /\ call' = [call EXCEPT ![s] = on]
    BY <1>2, <1>7 DEF WeekendGates, Return, Goto
  <2>2. call'[s] = on
    BY <2>1, Typing
  <2> HIDE DEF exit, on, t
  <2>3. Taken(s)' = Taken(s)
    BY <1>2, <1>4, <1>5, <2>2 DEF Taken, BeforeBar
  <2>4. Ticking(s)'
    BY <1>1, <1>2, <1>4, <1>5, <2>1, <2>2, <2>3 DEF Timely, Ticking
  <2>5. Deciding(s)'
    BY <1>4, <2>2 DEF Deciding
  <2>6. ~(HandsOff /\ openLeg[s] # None)
    BY <1>2, <1>7 DEF HandsOff, Connected
  <2>7. Prompted(s)'
    BY <1>1, <2>6, DueStays
  <2> QED BY <1>1, <1>4, <2>2, <2>4, <2>5, <2>7, FromSection DEF Timely, Entered
<1> QED BY <1>6, <1>7

\* The tick that closes a bar before the guard is not inside the guard itself, when
\* ticks are prompt and no bar is without one.
LEMMA ClearOfTheGuard ==
  ASSUME Types, NEW r \in 2..Len(history), NEW bar \in Nat, Floor(history[r - 1]) <= bar,
         bar < Floor(history[r]), ~LastBarBeforeWeekend(bar)
  PROVE  Clear(history[r])
<1> DEFINE t == history[r]
<1> SUFFICES ASSUME Dense, Prompt, AtWeekEnd(t, t)
             PROVE  FALSE
  BY DEF Clear
<1>1. /\ r \in 1..Len(history) /\ r - 1 \in 1..(Len(history) - 1) /\ (r - 1) + 1 = r
      /\ Len(history) \in Nat /\ r - 1 \in 1..Len(history) /\ r - 1 < r
  BY HistoryType
<1>2. t \in Nat /\ history[r - 1] \in Nat
  BY <1>1, HistoryRises
<1>3. Floor(t) \in Nat /\ Floor(history[r - 1]) \in Nat
  BY <1>2, FloorBelow
<1>4. Floor(t) <= Floor(history[r - 1]) + BarLen
  BY <1>1 DEF Dense
<1>5. Floor(history[r - 1]) < Floor(t)
  BY <1>3
<1>6. AtWeekEnd(Floor(t), Floor(t))
  BY <1>1, <1>5 DEF Prompt
<1>7. WeeklyClose(bar) <= WeeklyClose(Floor(t)) /\ WeeklyClose(bar) \in Nat
      /\ WeeklyClose(Floor(t)) \in Nat
  BY <1>3, CloseMonotone, CloseIsMultiple
<1>8. bar + BarLen + Guard < WeeklyClose(bar)
  BY <1>7, MarketTimeAssumption DEF LastBarBeforeWeekend, AtWeekEnd
<1>9. Floor(t) + Guard >= WeeklyClose(Floor(t))
  BY <1>6 DEF AtWeekEnd
<1> HIDE DEF t
<1>10. Floor(t) <= bar + BarLen
  BY <1>3, <1>4, MarketTimeAssumption
<1> QED BY <1>3, <1>7, <1>8, <1>9, <1>10, MarketTimeAssumption

LEMMA AggregateTimely ==
  ASSUME IInv, NEW s \in Symbols, EngineStep(s), Aggregate(s), Timely(s)
  PROVE  Timely(s)'
<1> DEFINE t == LastTime(s)
           r == feed[s].read
           closed == current[s]
           gates == [stage |-> "gates", bar |-> closed, enabled |-> enabled,
                     blocked |-> inFlight[s] # "",
                     overdue |-> openLeg[s] # None /\ HoldExpired(closed, openLeg[s].time)]
<1>1. /\ UNCHANGED brokerVars /\ UNCHANGED <<enabled, trading, openLeg, weekendTry>>
      /\ feed[s].pc = "wait" /\ r # 0 /\ ~Unpaired(s) /\ ~Unpaired(s)'
      /\ LastTime(s)' = t /\ t \in Nat /\ inFlight[s] = ""
  BY InsideSection DEF Aggregate
<1>0. Dense' = Dense /\ Prompt' = Prompt /\ HandsOff' = HandsOff
  BY InsideSection
<1>2. /\ call[s].stage = "aggregate" /\ call[s].tick = t /\ Types
      /\ feed' = feed /\ history' = history /\ Floor(t) \in Nat /\ Floor(t) <= t
      /\ r \in 1..Len(history) /\ t = history[r] /\ Len(history) \in Nat
  <2>1. call[s].stage = "aggregate" /\ Types
    BY DEF Aggregate, IInv
  <2>2. call[s].tick = t
    BY <2>1 DEF Timely, Ticking
  <2>3. r \in 1..Len(history) /\ Len(history) \in Nat
    <3>1. r \in 0..Len(history) /\ Len(history) \in Nat /\ r # 0
      BY <1>1, Typing
    <3> HIDE DEF r
    <3> QED BY <3>1
  <2> QED BY <1>1, <2>1, <2>2, <2>3, FloorBelow DEF brokerVars, LastTime
<1>3. Taken(s) = r - 1
  BY <1>2 DEF Taken, BeforeBar
<1>4. /\ openLeg[s] # None => closed # None
      /\ IF r = 1 THEN closed = None
         ELSE /\ closed \in Nat /\ Floor(history[r - 1]) <= closed
              /\ closed <= history[r - 1] /\ r \in 2..Len(history)
  <2>1. openLeg[s] # None => closed # None
    BY DEF Timely, Entered
  <2>2. IF r - 1 = 0 THEN closed = None
        ELSE closed \in Nat /\ Floor(history[r - 1]) <= closed /\ closed <= history[r - 1]
    BY <1>3 DEF Timely, Ticking
  <2> HIDE DEF r, closed
  <2> QED BY <1>2, <2>1, <2>2
<1>5. r # 1 => closed \in Nat /\ closed < t
  <2>1. r # 1 => history[r - 1] < t /\ history[r - 1] \in Nat /\ t \in Nat
    <3>1. r # 1 => r - 1 \in 1..Len(history) /\ r - 1 < r
      BY <1>2
    <3> QED BY <1>2, <3>1, HistoryRises
  <2> HIDE DEF t, r, closed
  <2> QED BY <1>4, <2>1
<1>6. ~(HandsOff /\ (WeekendDue(s) \/ HorizonDue(s)))
  <2>1. ~Leaving(s)
    BY <1>1, <1>2 DEF Leaving
  <2> QED BY <2>1 DEF Timely, Prompted
<1>7. WeekendDue(s)' = WeekendDue(s)
  BY <1>1, <1>2 DEF WeekendDue, brokerVars
<1>8. weekendTry[s] # None => weekendTry[s] <= t
  BY DEF Timely, Ticking
<1>11. /\ weekendTry[s] # None => weekendTry'[s] <= LastTime(s)'
       /\ weekendTry' = weekendTry /\ feed'[s].read = r /\ r # 0 /\ feed'[s].pc = "wait"
       /\ history'[r] = t
  BY <1>1, <1>2, <1>8
\* The tick belongs to the open bar, or is the first of all.
<1>9. CASE closed = None \/ ~(closed < Floor(t))
  <2>1. call'[s] = Idle /\ current'[s] = (IF closed = None THEN Floor(t) ELSE closed)
    BY <1>2, <1>9, Typing DEF Aggregate, Goto
  <2>2. Taken(s)' = r
    <3>1. call'[s].stage = "idle" /\ feed'[s] = feed[s]
      BY <1>2, <2>1 DEF Idle
    <3> QED BY <1>1, <3>1 DEF Taken, BeforeBar
  <2>3. current'[s] \in Nat /\ Floor(t) <= current'[s] /\ current'[s] <= t
    <3>1. closed # None => r # 1
      BY <1>4
    <3> HIDE DEF t, r, closed
    <3>2. CASE closed = None
      BY <1>2, <2>1, <3>2
    <3>3. CASE closed # None
      <4>1. closed \in Nat /\ closed < t /\ ~(closed < Floor(t)) /\ current'[s] = closed
        BY <1>5, <1>9, <2>1, <3>1, <3>3
      <4>2. Floor(t) \in Nat /\ t \in Nat
        BY <1>1, <1>2
      <4>3. Floor(t) <= closed /\ closed <= t
        BY <4>1, <4>2
      <4> QED BY <4>1, <4>3
    <3> QED BY <3>2, <3>3
  <2>4. Ticking(s)'
    <3>1. call'[s].stage = "idle"
      BY <2>1 DEF Idle
    <3> QED BY <1>11, <2>2, <2>3, <3>1 DEF Ticking
  <2>5. Deciding(s)'
    BY <2>1 DEF Deciding, Idle
  <2>6. Prompted(s)'
    <3>1. openLeg[s] # None => current'[s] = current[s]
      BY <1>4, <2>1
    <3>2. HorizonDue(s)' => HorizonDue(s)
      <4>1. openLeg' = openLeg
        BY <1>1
      <4> QED BY <1>0, <3>1, <4>1 DEF HorizonDue
    <3> QED BY <1>0, <1>6, <1>7, <3>2 DEF Prompted
  <2>7. openLeg[s] # None => current'[s] # None
    BY <1>4, <2>1
  <2> QED BY <2>1, <2>4, <2>5, <2>6, <2>7, FromSection DEF Idle
\* The tick closes a bar.
<1>10. CASE closed # None /\ closed < Floor(t)
  <2>1. call'[s] = gates /\ current'[s] = Floor(t)
    BY <1>2, <1>10, Typing DEF Aggregate, Goto
  <2>2. /\ gates.stage = "gates" /\ gates.bar = closed /\ gates.enabled = enabled
        /\ ~gates.blocked
        /\ gates.overdue = (openLeg[s] # None /\ HoldExpired(closed, openLeg[s].time))
    BY <1>1, Zenon
  <2> HIDE DEF gates
  <2>3. Taken(s)' = r
    BY <1>1, <1>2, <2>1, <2>2 DEF Taken, BeforeBar
  <2>4. Ticking(s)'
    <3>1. call'[s].stage = "gates"
      BY <2>1, <2>2
    <3>2. current'[s] \in Nat /\ Floor(t) <= current'[s] /\ current'[s] <= t
      BY <1>2, <2>1
    <3> QED BY <1>11, <2>3, <3>1, <3>2 DEF Ticking
  <2>5. r # 1 /\ closed \in Nat /\ r \in 2..Len(history)
    BY <1>4, <1>10
  <2>6. Deciding(s)'
    <3>1. LastBarBeforeWeekend(closed) \/ Clear(t)
      BY <1>2, <1>4, <1>10, <2>5, ClearOfTheGuard
    <3>2. Clear(LastTime(s))' = Clear(t)
      BY <1>0, <1>1 DEF Clear
    <3> QED BY <2>1, <2>2, <3>1, <3>2 DEF Deciding
  <2>7. Prompted(s)'
    <3>1. HorizonDue(s)' => HoldExpired(closed, openLeg[s].time) /\ openLeg[s] # None
      <4>1. Dense => Floor(t) <= Floor(history[r - 1]) + BarLen
        <5>1. r - 1 \in 1..(Len(history) - 1) /\ (r - 1) + 1 = r
          BY <1>2, <2>5
        <5> QED BY <1>2, <5>1 DEF Dense
      <4>2. Floor(history[r - 1]) \in Nat /\ Floor(history[r - 1]) <= closed
        <5>1. r - 1 \in 1..Len(history) /\ r - 1 < r
          BY <1>2, <2>5
        <5>2. history[r - 1] \in Nat
          BY <1>2, <5>1, HistoryRises
        <5> QED BY <1>4, <2>5, <5>2, FloorBelow
      <4>3. HorizonDue(s)' =>
              /\ Dense /\ MaxHold > 0 /\ openLeg[s] # None
              /\ Floor(t) > openLeg[s].time + MaxHold /\ openLeg[s].time \in Nat
        BY <1>0, <1>1, <2>1, Typing DEF HorizonDue
      <4> HIDE DEF t, r, closed
      <4> QED BY <1>2, <2>5, <4>1, <4>2, <4>3, MarketTimeAssumption DEF HoldExpired
    <3>2. HorizonDue(s)' => Leaving(s)'
      BY <2>1, <2>2, <3>1 DEF Leaving
    <3> QED BY <1>0, <1>6, <1>7, <3>2 DEF Prompted
  <2>8. toggles = 0 => enabled = StrategyEnabled
    BY DEF Timely, Untouched
  <2>9. current'[s] # None
    BY <1>2, <2>1, LiveEngineAssumption
  <2> QED BY <2>1, <2>2, <2>4, <2>6, <2>7, <2>8, <2>9, FromSection
<1> QED BY <1>9, <1>10

LEMMA BarGatesTimely ==
  ASSUME IInv, NEW s \in Symbols, EngineStep(s), BarGates(s, Connected), Timely(s)
  PROVE  Timely(s)'
<1> DEFINE c == call[s]
           sent(sig) == [stage |-> "submit", sig |-> sig,
                         lastOfWeek |-> ~HoldsOverWeekend /\ LastBarBeforeWeekend(c.bar),
                         resume |-> None]
<1>1. /\ UNCHANGED <<enabled, trading, openLeg, weekendTry, current>>
      /\ feed[s].pc = "wait" /\ feed[s].read # 0 /\ ~Unpaired(s)
      /\ LastTime(s)' = LastTime(s)
      /\ feed' = feed /\ history' = history
  BY InsideSection DEF BarGates, brokerVars
<1>2. /\ c.stage = "gates"
      /\ toggles = 0 => c.enabled = StrategyEnabled /\ trading[s]
      /\ openLeg[s] # None /\ toggles = 0 => StrategyEnabled
      /\ openLeg[s] # None => current[s] # None
  <2>1. c.stage = "gates"
    BY DEF BarGates
  <2> QED BY <2>1 DEF Timely, Untouched, Entered
<1>3. ASSUME call'[s].stage = "idle" \/ (call'[s].stage = "submit" /\ call'[s].resume = None)
      PROVE  Ticking(s)'
  <2>1. Taken(s) = feed[s].read /\ Taken(s)' = feed[s].read
    BY <1>1, <1>2, <1>3 DEF Taken, BeforeBar
  <2>2. Ticking(s)
    BY DEF Timely
  <2>3. call'[s].stage \notin {"weekendGates", "aggregate"}
        /\ (call'[s].stage \in {"submit", "reserve", "place", "confirm"}
              => call'[s].resume = None)
    BY <1>3
  <2> QED BY <1>1, <2>1, <2>2, <2>3 DEF Ticking
<1>4. CASE /\ c.enabled /\ trading[s] /\ Connected /\ ~c.blocked
           /\ \E sig \in IF c.overdue THEN {"EXIT"} ELSE Signals : Goto(s, sent(sig))
  <2>1. PICK sig \in IF c.overdue THEN {"EXIT"} ELSE Signals : Goto(s, sent(sig))
    BY <1>4
  <2>2. call'[s] = sent(sig)
    BY <2>1, Typing DEF Goto
  <2>3. /\ sent(sig).stage = "submit" /\ sent(sig).sig = sig /\ sent(sig).resume = None
        /\ sent(sig).lastOfWeek = (~HoldsOverWeekend /\ LastBarBeforeWeekend(c.bar))
    BY Zenon
  <2> HIDE DEF sent
  <2>4. Ticking(s)'
    BY <1>3, <2>2, <2>3
  <2>5. Deciding(s)'
    <3>1. LastBarBeforeWeekend(c.bar) \/ Clear(LastTime(s))
      BY <1>2 DEF Timely, Deciding
    <3>2. call'[s].lastOfWeek \/ Clear(LastTime(s))
      BY <2>2, <2>3, <3>1 DEF Clear
    <3>3. Clear(LastTime(s))' = Clear(LastTime(s))
      BY <1>1, SameHistory DEF Clear
    <3> QED BY <2>2, <2>3, <3>2, <3>3 DEF Deciding
  <2>6. Prompted(s)'
    <3>1. Leaving(s) => sig = "EXIT"
      BY <1>1, <1>2, <2>1 DEF Leaving
    <3>2. Leaving(s) => Leaving(s)'
      BY <2>2, <2>3, <3>1 DEF Leaving
    <3> QED BY <1>1, <3>2, DueStays
  <2> QED BY <1>1, <1>2, <1>4, <2>2, <2>3, <2>4, <2>5, <2>6, FromSection
<1>5. CASE /\ ~(c.enabled /\ trading[s] /\ Connected /\ ~c.blocked /\ c.overdue)
           /\ Goto(s, Idle)
  <2>1. call'[s] = Idle /\ call'[s].stage = "idle"
    BY <1>5, Typing DEF Goto, Idle
  <2>2. Ticking(s)'
    BY <1>3, <2>1
  <2>3. Deciding(s)'
    BY <2>1 DEF Deciding
  <2>4. HandsOff /\ openLeg[s] # None => ~Leaving(s)
    BY <1>1, <1>2, <1>5 DEF Leaving, HandsOff, Connected
  <2>5. Prompted(s)'
    BY <1>1, <2>4, DueStays
  <2> QED BY <1>1, <1>2, <2>1, <2>2, <2>3, <2>5, FromSection
<1> QED BY <1>4, <1>5 DEF BarGates

\* submit returns: the tick of a week-end exit is still to be aggregated.
LEMMA Returning ==
  ASSUME IInv, NEW s \in Symbols, Timely(s),
         call[s].stage \in {"submit", "reserve", "place", "confirm"},
         Return(s, call[s].resume), feed[s].read # 0,
         UNCHANGED <<feed, history, current, weekendTry>>
  PROVE  /\ Ticking(s)' /\ Deciding(s)'
         /\ call'[s].stage \in {"idle", "aggregate"}
<1> DEFINE t == LastTime(s)
           on == [stage |-> "aggregate", tick |-> t]
<1>1. /\ LastTime(s)' = t /\ t \in Nat /\ t # None
      /\ call[s].resume \in {None, t} /\ feed[s].pc # "bar"
  <2>1. t \in Nat
    BY Typing
  <2>2. feed[s].pc # "bar"
    BY DEF IInv, Sound, Fed, Idle
  <2> QED BY <2>1, <2>2, LiveEngineAssumption DEF LastTime, Timely, Ticking
<1>2. Ticking(s)
  BY DEF Timely
<1>3. on.stage = "aggregate" /\ on.tick = t
  BY Zenon
<1>4. CASE call[s].resume = None
  <2>1. call'[s] = Idle /\ call'[s].stage = "idle"
    BY <1>4, Typing DEF Return, Goto, Idle
  <2>2. Taken(s)' = Taken(s)
    BY <1>4, <2>1 DEF Taken, BeforeBar
  <2> QED BY <1>1, <1>2, <2>1, <2>2 DEF Ticking, Deciding
<1>5. CASE call[s].resume # None
  <2>1. call'[s] = on
    BY <1>1, <1>5, Typing DEF Return, Goto
  <2> HIDE DEF on
  <2>2. Taken(s)' = Taken(s)
    BY <1>3, <1>5, <2>1 DEF Taken, BeforeBar
  <2> QED BY <1>1, <1>2, <1>3, <2>1, <2>2 DEF Ticking, Deciding
<1> QED BY <1>4, <1>5

\* The order submit sends: an entry decided when none had to be barred, or an exit
\* from the position held.
LEMMA OrderSent ==
  ASSUME NEW s \in Symbols, NEW open \in [Symbols -> Holdings], NEW asked \in Signals,
         NEW answer, NEW sig, sig = ApplyReversal(asked, open[s]), Accepts(s, sig, open, answer)
  PROVE  LET order == OrderOf(s, sig, open) IN
         /\ order.entry = (sig \in EntrySignals)
         /\ order.entry => asked \in EntrySignals
         /\ ~order.entry => open[s] = Opposite(order.side)
<1> DEFINE entry == [side |-> EntrySide(sig), entry |-> TRUE]
           exit == [side |-> Opposite(open[s]), entry |-> FALSE]
<1>1. entry.entry /\ ~exit.entry /\ exit.side = Opposite(open[s])
  BY Zenon
<1>2. OrderOf(s, sig, open) = IF sig \in EntrySignals THEN entry ELSE exit
  BY DEF OrderOf
<1> HIDE DEF entry, exit
<1>3. CASE sig \in EntrySignals
  <2>1. asked \in EntrySignals
    BY <1>3 DEF ApplyReversal, EntrySignals
  <2> QED BY <1>1, <1>2, <1>3, <2>1
<1>4. CASE sig \notin EntrySignals
  <2>1. open[s] \in Sides
    BY <1>4 DEF Accepts, Closes, Holdings, Sides
  <2>2. Opposite(Opposite(open[s])) = open[s]
    BY <2>1 DEF Opposite, Sides
  <2>3. OrderOf(s, sig, open) = exit
    BY <1>2, <1>4
  <2>4. open[s] = Opposite(exit.side)
    BY <1>1, <2>2
  <2>5. exit.entry = FALSE
    BY Zenon DEF exit
  <2>6. (sig \in EntrySignals) = FALSE
    BY <1>4
  <2> QED BY <1>1, <2>3, <2>4, <2>5, <2>6, Zenon
<1> QED BY <1>3, <1>4

\* An exit is never refused: the position is there, and an exit needs no margin, no
\* protection, no room and no silence of the news.
LEMMA ExitAccepted ==
  ASSUME NEW s \in Symbols, NEW open \in [Symbols -> Holdings], open[s] \in Sides,
         NEW answer
  PROVE  LET sig == ApplyReversal("EXIT", open[s]) IN
         /\ Accepts(s, sig, open, answer) /\ sig \notin EntrySignals
         /\ ~OrderOf(s, sig, open).entry
<1>1. ApplyReversal("EXIT", open[s]) = "EXIT" /\ "EXIT" \notin EntrySignals
      /\ "EXIT" \in ExitSignals
  BY DEF ApplyReversal, EntrySignals, ExitSignals
<1>2. open[s] # Flat
  BY DEF Sides, Flat
<1> QED BY <1>1, <1>2 DEF Accepts, Closes, OrderOf

LEMMA DecideTimely ==
  ASSUME IInv, NEW s \in Symbols, EngineStep(s), DecideOnAnswers(s), Timely(s)
  PROVE  Timely(s)'
<1> DEFINE c == call[s]
           open == IF Connected THEN positions ELSE None
           sig == ApplyReversal(c.sig, open[s])
           order == OrderOf(s, sig, open)
           sent == [stage |-> "reserve", order |-> order, resume |-> c.resume]
<1>1. PICK account \in AccountAnswers, blocks \in BOOLEAN : Decide(s, open, account, blocks)
  BY DEF DecideOnAnswers, AccountAnswers
<1>2. /\ UNCHANGED <<enabled, trading, openLeg, weekendTry, current>>
      /\ feed[s].pc = "wait" /\ feed[s].read # 0 /\ ~Unpaired(s)
      /\ LastTime(s)' = LastTime(s)
      /\ feed' = feed /\ history' = history /\ positions' = positions
  BY <1>1, InsideSection DEF Decide, brokerVars
<1>3. /\ c.stage = "submit" /\ c.sig \in Signals /\ positions \in [Symbols -> Holdings]
      /\ toggles = 0 => StrategyEnabled
      /\ openLeg[s] # None => current[s] # None
      /\ openLeg[s] # None => positions[s] \in Sides
  <2>1. c.stage = "submit" /\ c \in Calls
    BY <1>1, Typing DEF Decide
  <2>2. openLeg[s] # None => positions[s] = openLeg[s].side
    BY <1>2 DEF IInv, Sound, Followed
  <2> QED BY <2>1, <2>2, SubmitStage, Typing DEF Timely, Untouched, Entered
<1>4. CASE /\ open # None /\ ~(c.lastOfWeek /\ sig \in EntrySignals)
           /\ Accepts(s, sig, open, account) /\ Goto(s, sent)
  <2>1. open = positions
    BY <1>4
  <2>2. sent.stage = "reserve" /\ sent.order = order /\ sent.resume = c.resume
    BY Zenon
  <2>3. call'[s] = sent
    BY <1>4, Typing DEF Goto
  <2>4. /\ order.entry = (sig \in EntrySignals)
        /\ order.entry => c.sig \in EntrySignals
        /\ ~order.entry => positions[s] = Opposite(order.side)
    BY <1>3, <1>4, <2>1, OrderSent
  <2>5. c.resume # None => c.sig = "EXIT"
    BY <1>3 DEF Timely, Deciding
  <2>6. c.sig \in EntrySignals => c.lastOfWeek \/ Clear(LastTime(s))
    BY <1>3 DEF Timely, Deciding
  <2> HIDE DEF sent, order, sig, open
  <2>7. Ticking(s)'
    <3>1. Taken(s)' = Taken(s)
      BY <1>2, <1>3, <2>2, <2>3 DEF Taken, BeforeBar
    <3>2. Ticking(s)
      BY DEF Timely
    <3> QED BY <1>2, <1>3, <2>2, <2>3, <3>1, <3>2 DEF Ticking
  <2>8. Deciding(s)'
    <3>1. order.entry => c.resume = None
      BY <2>4, <2>5 DEF EntrySignals
    <3>2. order.entry => Clear(LastTime(s))
      BY <1>4, <2>4, <2>6
    <3>3. Clear(LastTime(s))' = Clear(LastTime(s))
      BY <1>2, SameHistory DEF Clear
    <3>4. call'[s].stage = "reserve" /\ call'[s].order = order /\ call'[s].resume = c.resume
      BY <2>2, <2>3
    <3> QED BY <1>2, <2>4, <3>1, <3>2, <3>3, <3>4 DEF Deciding
  <2>9. Leaving(s) => Leaving(s)'
    <3>1. Leaving(s) => c.sig = "EXIT"
      BY <1>2, <1>3 DEF Leaving
    <3>2. c.sig = "EXIT" => ~order.entry
      BY <2>4 DEF EntrySignals
    <3> QED BY <2>2, <2>3, <3>1, <3>2 DEF Leaving
  <2>10. Prompted(s)'
    BY <1>2, <2>9, DueStays
  <2> QED BY <1>2, <1>3, <2>2, <2>3, <2>7, <2>8, <2>10, FromSection
<1>5. CASE /\ Return(s, c.resume)
           /\ ~(/\ open # None /\ ~(c.lastOfWeek /\ sig \in EntrySignals)
                /\ ~(UsesNews /\ blocks /\ sig \in EntrySignals /\ open[s] = Flat)
                /\ Accepts(s, sig, open, account) /\ ~Unprotected(order))
  <2>1. Ticking(s)' /\ Deciding(s)' /\ call'[s].stage \in {"idle", "aggregate"}
    BY <1>2, <1>3, <1>5, Returning
  <2>2. HandsOff /\ openLeg[s] # None => ~Leaving(s)
    <3> SUFFICES ASSUME HandsOff, openLeg[s] # None, Leaving(s) PROVE FALSE
      OBVIOUS
    <3>1. c.sig = "EXIT"
      BY <1>2, <1>3 DEF Leaving
    <3>2. open = positions /\ positions[s] \in Sides
      BY <1>3 DEF HandsOff, Connected
    <3>3. open # None
      BY <1>3, <3>2, ReplayAssumption
    <3>4. Accepts(s, sig, open, account) /\ sig \notin EntrySignals /\ ~order.entry
      BY <1>3, <3>1, <3>2, ExitAccepted
    <3> QED BY <1>5, <3>3, <3>4 DEF Unprotected
  <2>3. Prompted(s)'
    BY <1>2, <2>2, DueStays
  <2> QED BY <1>2, <1>3, <2>1, <2>3, FromSection
<1> QED BY <1>1, <1>4, <1>5 DEF Decide

LEMMA ReserveTimely ==
  ASSUME IInv, NEW s \in Symbols, EngineStep(s), Reserve(s), Timely(s)
  PROVE  Timely(s)'
<1> DEFINE c == call[s]
           placed == [c EXCEPT !.stage = "place"]
<1>1. /\ UNCHANGED <<enabled, trading, openLeg, weekendTry, current>>
      /\ feed[s].pc = "wait" /\ feed[s].read # 0 /\ ~Unpaired(s) /\ inFlight[s] = ""
      /\ LastTime(s)' = LastTime(s) /\ result[s] = None
      /\ feed' = feed /\ history' = history /\ positions' = positions /\ result' = result
  BY InsideSection DEF Reserve, brokerVars
<1>2. /\ c.stage = "reserve"
      /\ toggles = 0 => StrategyEnabled
      /\ openLeg[s] # None => current[s] # None
  <2>1. c.stage = "reserve"
    BY DEF Reserve
  <2> QED BY <2>1 DEF Timely, Untouched, Entered
<1>3. /\ placed.stage = "place" /\ placed.order = c.order /\ placed.resume = c.resume
  <2>1. c = [stage |-> "reserve", order |-> c.order, resume |-> c.resume]
    BY <1>2, Typing, OrderStages
  <2> QED BY <2>1
<1>4. call'[s] = placed
  BY <1>1, Typing DEF Reserve, Goto
<1> HIDE DEF placed
<1>5. Ticking(s)'
  <2>1. Taken(s)' = Taken(s)
    BY <1>1, <1>2, <1>3, <1>4 DEF Taken, BeforeBar
  <2>2. Ticking(s)
    BY DEF Timely
  <2> QED BY <1>1, <1>2, <1>3, <1>4, <2>1, <2>2 DEF Ticking
<1>6. Deciding(s)'
  <2>1. IF c.order.entry THEN c.resume = None /\ Clear(LastTime(s))
        ELSE positions[s] = Opposite(c.order.side)
    BY <1>2 DEF Timely, Deciding
  <2>2. Clear(LastTime(s))' = Clear(LastTime(s))
    <3>1. history' = history /\ LastTime(s)' = LastTime(s)
      BY <1>1
    <3> QED BY <3>1, SameHistory DEF Clear
  <2> QED BY <1>1, <1>3, <1>4, <2>1, <2>2 DEF Deciding
<1>7. Prompted(s)'
  <2>1. Leaving(s) => ~c.order.entry
    BY <1>1, <1>2 DEF Leaving
  <2>2. Leaving(s) => Leaving(s)'
    BY <1>1, <1>3, <1>4, <2>1 DEF Leaving
  <2> QED BY <1>1, <2>2, DueStays
<1> QED BY <1>1, <1>2, <1>3, <1>4, <1>5, <1>6, <1>7, FromSection

LEMMA ConfirmTimely ==
  ASSUME IInv, NEW s \in Symbols, EngineStep(s), Confirm(s), Timely(s)
  PROVE  Timely(s)'
<1>1. /\ UNCHANGED <<openLeg, weekendTry, current>>
      /\ feed[s].read # 0 /\ ~Unpaired(s) /\ feed' = feed /\ history' = history
  BY InsideSection DEF Confirm, brokerVars
<1>2. call[s].stage = "confirm" /\ Return(s, call[s].resume)
  BY DEF Confirm
<1>3. Ticking(s)' /\ Deciding(s)' /\ call'[s].stage \in {"idle", "aggregate"}
  BY <1>1, <1>2, Returning
<1>4. Prompted(s)'
  <2>1. ~Leaving(s)
    BY <1>1, <1>2 DEF Leaving
  <2> QED BY <1>1, <2>1, DueStays
<1>5. openLeg[s] # None => current[s] # None
  BY DEF Timely, Entered
<1> QED BY <1>1, <1>3, <1>4, <1>5, FromSection

-----------------------------------------------------------------------------
(* The order, its report and the return of PlaceOrder *)

\* An order placed: an exit finds the position it was decided on and closes it, and
\* only an entry can open one.
LEMMA PlaceOrderTimely ==
  ASSUME IInv, NEW s \in Symbols, PlaceOrder(s), Timely(s)
  PROVE  Timely(s)'
<1> DEFINE t == LastTime(s)
           order == call[s].order
           opened == Filled(s, order.side, FALSE)
           closed == Filled(s, order.side, TRUE)
           rejected == [status |-> "REJECTED", side |-> order.side, closing |-> FALSE,
                        time |-> LastTime(s)]
<1>1. /\ call[s].stage = "place" /\ result[s] = None
      /\ UNCHANGED <<engineVars, history, link, feed, toggles>>
  BY DEF PlaceOrder
<1>2. emit[s] = None /\ rep[s] = None /\ ~Unpaired(s) /\ feed[s].read # 0 /\ feed[s].pc = "wait"
  <2>1. call[s] # Idle /\ ~Answered(s)
    BY <1>1 DEF Idle, Answered
  <2> QED BY <1>1, <2>1 DEF IInv, Sound, Placed, Fed, Quiet, Unpaired
<1>3. LastTime(s)' = t /\ Dense' = Dense /\ Prompt' = Prompt /\ HandsOff' = HandsOff
      /\ rep'[s] = None
  BY <1>1, <1>2, SameHistory DEF LastTime, HandsOff, engineVars
<1>4. result'[s] # None
  <2>1. \E a \in {"ok", "error"} : result' = [result EXCEPT ![s] = a]
    BY DEF PlaceOrder
  <2> QED BY <2>1, Typing, NoneIsNoAnswer
<1>5. /\ order.side \in Sides
      /\ IF order.entry THEN call[s].resume = None /\ Clear(t)
         ELSE positions[s] = Opposite(order.side)
  <2>1. order \in Orders
    BY <1>1, Typing, OrderStages
  <2> QED BY <1>1, <2>1 DEF Orders, Timely, Deciding
<1>6. /\ opened.status = "FILLED" /\ ~opened.closing /\ opened.time = t
      /\ closed.status = "FILLED" /\ closed.closing /\ rejected.status = "REJECTED"
  <2>1. opened.status = "FILLED" /\ ~opened.closing /\ opened.time = t
    BY Zenon DEF Filled
  <2>2. closed.status = "FILLED" /\ closed.closing
    BY Zenon DEF Filled
  <2> QED BY <2>1, <2>2
<1>7. \/ emit'[s] \in {None, rejected}
            /\ (Connected /\ t \notin Unpriced => positions[s] # Opposite(order.side))
      \/ emit'[s] = closed
      \/ emit'[s] = opened /\ positions[s] = Flat
  <2>1. order.side # Opposite(order.side) /\ Flat # Opposite(order.side)
    BY <1>5 DEF Opposite, Sides, Flat
  <2> HIDE DEF opened, closed, rejected
  <2>2. ASSUME NEW r, emit' = [emit EXCEPT ![s] = r] PROVE emit'[s] = r
    BY <2>2, Typing
  <2>3. CASE ~Connected /\ UNCHANGED emit
    BY <1>2, <2>3
  <2>4. CASE Connected /\ t \in Unpriced /\ emit' = [emit EXCEPT ![s] = rejected]
    BY <2>2, <2>4
  <2>5. CASE emit' = [emit EXCEPT ![s] = closed]
    BY <2>2, <2>5
  <2>6. CASE /\ positions[s] = order.side \/ positions[s] = Flat
             /\ emit' = [emit EXCEPT ![s] = rejected]
    BY <2>1, <2>2, <2>6
  <2>7. CASE positions[s] = Flat /\ emit' = [emit EXCEPT ![s] = opened]
    BY <2>2, <2>7
  <2> QED BY <2>3, <2>4, <2>5, <2>6, <2>7 DEF PlaceOrder, opened, closed, rejected
<1>8. Ticking(s)'
  <2>1. Taken(s)' = Taken(s)
    BY <1>1 DEF Taken, BeforeBar, engineVars
  <2> QED BY <1>1, <1>3, <2>1 DEF Timely, Ticking, engineVars
<1>9. Deciding(s)'
  BY <1>1, <1>4 DEF Deciding, engineVars
<1>10. Entered(s)'
  <2>1. Unpaired(s)' /\ ~Fill(s)'.closing => emit'[s] = opened /\ positions[s] = Flat
    <3>1. Unpaired(s)' => emit'[s] # None /\ emit'[s].status = "FILLED" /\ Fill(s)' = emit'[s]
      BY <1>3 DEF Unpaired, Fill
    <3> HIDE DEF opened, closed, rejected
    <3> QED BY <1>6, <1>7, <3>1
  <2>2. positions[s] = Flat => call[s].resume = None /\ Clear(t)
    BY <1>5 DEF Opposite, Sides, Flat
  <2>3. emit'[s] = opened => Fill(s)'.time = t
    BY <1>3, <1>6 DEF Fill
  <2>4. Answered(s)' /\ Clear(LastTime(s))' = Clear(t)
    BY <1>1, <1>3, <1>4 DEF Answered, Clear, engineVars
  <2>5. UNCHANGED <<call, openLeg, current, feed>>
    BY <1>1 DEF engineVars
  <2>6. openLeg[s] # None =>
          /\ openLeg[s].time <= t /\ Clear(openLeg[s].time) /\ current[s] # None
    BY DEF Timely, Entered
  <2> HIDE DEF opened, closed, rejected
  <2>7. Unpaired(s)' /\ ~Fill(s)'.closing =>
          /\ Fill(s)'.time = t /\ Clear(t) /\ Answered(s)' /\ call'[s].resume = None
    BY <2>1, <2>2, <2>3, <2>4, <2>5
  <2>8. openLeg'[s] # None =>
          /\ openLeg'[s].time <= LastTime(s)' /\ Clear(openLeg[s].time)
          /\ current'[s] # None /\ feed'[s].read # 0
    BY <1>2, <1>3, <2>5, <2>6
  <2> QED BY <1>3, <2>4, <2>5, <2>7, <2>8 DEF Entered, Clear
<1>11. Untouched(s)'
  BY <1>1 DEF Timely, Untouched, engineVars
<1>12. Prompted(s)'
  <2>1. WeekendDue(s)' = WeekendDue(s) /\ HorizonDue(s)' = HorizonDue(s)
    BY <1>1, <1>3 DEF WeekendDue, HorizonDue, engineVars
  <2>2. HandsOff /\ (WeekendDue(s) \/ HorizonDue(s)) => ~order.entry
    BY <1>1, <1>2 DEF Timely, Prompted, Leaving
  <2>3. WeekendDue(s) \/ HorizonDue(s) => t \notin Unpriced
    <3>1. feed[s].read \in 1..Len(history)
      BY <1>2, Typing
    <3> QED BY <3>1 DEF WeekendDue, HorizonDue, Dense, LastTime
  <2>4. HandsOff /\ (WeekendDue(s) \/ HorizonDue(s)) => emit'[s] \in {opened, closed}
    <3> HIDE DEF opened, closed, rejected, t, order
    <3> QED BY <1>5, <1>7, <2>2, <2>3 DEF HandsOff, Connected
  <2>5. emit'[s] \in {opened, closed} => Unpaired(s)'
    <3>1. opened # None /\ closed # None
      <4>1. t \in Nat
        BY <1>2, Typing
      <4>2. \A closing \in BOOLEAN : Filled(s, order.side, closing) \in ReportsAt(Nat)
        BY <1>5, <4>1 DEF ReportsAt, Filled
      <4>3. opened \in ReportsAt(Nat) /\ closed \in ReportsAt(Nat)
        BY <4>2
      <4> HIDE DEF opened, closed
      <4> QED BY <4>3, ReportsAssumption
    <3> HIDE DEF opened, closed
    <3> QED BY <1>6, <3>1 DEF Unpaired
  <2> QED BY <1>3, <2>1, <2>4, <2>5 DEF Prompted, Leaving
<1> QED BY <1>8, <1>9, <1>10, <1>11, <1>12 DEF Timely

LEMMA ReportTimely ==
  ASSUME IInv, NEW s \in Symbols, Report(s), Timely(s)
  PROVE  Timely(s)'
<1>1. /\ emit[s] # None /\ rep[s] = None /\ emit'[s] = None
      /\ UNCHANGED <<enabled, trading, openLeg, weekendTry, current>>
      /\ UNCHANGED <<call, history, link, positions, feed, result, toggles>>
  <2>1. /\ emit[s] # None /\ rep[s] = None
        /\ UNCHANGED <<enabled, trading, openLeg, weekendTry, current>>
        /\ UNCHANGED <<call, history, link, positions, feed, result, toggles>>
    BY DEF Report, Release
  <2>2. emit'[s] = None
    BY Typing DEF Report
  <2> QED BY <2>1, <2>2
<1>2. IF emit[s].status = "FILLED" THEN rep'[s] = emit[s] ELSE rep'[s] = None
  <2>1. CASE emit[s].status = "FILLED"
    BY <2>1, Typing DEF Report, Release
  <2>2. CASE emit[s].status # "FILLED"
    BY <1>1, <2>2 DEF Report, Release
  <2> QED BY <2>1, <2>2
<1>3. Unpaired(s)' = Unpaired(s) /\ (Unpaired(s) => Fill(s)' = Fill(s))
  <2>1. CASE emit[s].status = "FILLED"
    <3>1. Unpaired(s) /\ Unpaired(s)' /\ Fill(s) = emit[s] /\ Fill(s)' = emit[s]
      BY <1>1, <1>2, <2>1 DEF Unpaired, Fill
    <3> QED BY <3>1
  <2>2. CASE emit[s].status # "FILLED"
    <3>1. ~Unpaired(s) /\ ~Unpaired(s)'
      BY <1>1, <1>2, <2>2 DEF Unpaired
    <3> QED BY <3>1 DEF Unpaired
  <2> QED BY <2>1, <2>2
<1>4. LastTime(s)' = LastTime(s) /\ Taken(s)' = Taken(s) /\ HandsOff' = HandsOff
      /\ Dense' = Dense /\ Prompt' = Prompt
  BY <1>1, SameHistory DEF LastTime, Taken, BeforeBar, HandsOff
<1>5. Ticking(s)'
  BY <1>1, <1>4 DEF Timely, Ticking
<1>6. Deciding(s)'
  BY <1>1, <1>4 DEF Timely, Deciding, Clear
<1>7. Entered(s)'
  <2>1. Answered(s)' = Answered(s)
    BY <1>1 DEF Answered
  <2>2. /\ Clear(LastTime(s))' = Clear(LastTime(s))
        /\ Clear(openLeg[s].time)' = Clear(openLeg[s].time)
    BY <1>1, <1>4 DEF Clear
  <2>3. Entered(s)
    BY DEF Timely
  <2> QED BY <1>1, <1>3, <1>4, <2>1, <2>2, <2>3 DEF Entered
<1>8. Untouched(s)'
  BY <1>1, <1>3 DEF Timely, Untouched
<1>9. Prompted(s)'
  <2>1. WeekendDue(s)' = WeekendDue(s) /\ HorizonDue(s)' = HorizonDue(s)
    BY <1>1, <1>4 DEF WeekendDue, HorizonDue
  <2>2. Leaving(s)' = Leaving(s)
    BY <1>1, <1>3 DEF Leaving
  <2> QED BY <1>4, <2>1, <2>2 DEF Timely, Prompted
<1> QED BY <1>5, <1>6, <1>7, <1>8, <1>9 DEF Timely

\* The fill that is paired ends the round trip, or begins one at the time of the tick.
LEMMA HandleFillTimely ==
  ASSUME IInv, NEW s \in Symbols, HandleFill(s), Timely(s)
  PROVE  Timely(s)'
<1> DEFINE r == rep[s]
           leg == [side |-> r.side, time |-> r.time, fill |-> Len(fills[s])]
<1>1. /\ r # None /\ emit[s] = None /\ Unpaired(s) /\ Fill(s) = r /\ rep'[s] = None
      /\ UNCHANGED <<enabled, trading, weekendTry, current, call>>
      /\ UNCHANGED <<history, link, positions, feed, emit, result, toggles>>
  <2>1. /\ r # None /\ UNCHANGED <<enabled, trading, weekendTry, current, call>>
        /\ UNCHANGED <<history, link, positions, feed, emit, result, toggles>>
    BY DEF HandleFill, Pair, brokerVars
  <2>2. rep'[s] = None
    BY Typing DEF HandleFill, Pair
  <2>3. emit[s] = None
    BY <2>1 DEF IInv, Sound, Placed
  <2> QED BY <2>1, <2>2, <2>3 DEF Unpaired, Fill
<1>2. ~Unpaired(s)' /\ LastTime(s)' = LastTime(s) /\ Taken(s)' = Taken(s)
      /\ HandsOff' = HandsOff /\ Dense' = Dense /\ Prompt' = Prompt
  BY <1>1, SameHistory DEF Unpaired, LastTime, Taken, BeforeBar, HandsOff
<1>3. \/ r.closing /\ openLeg'[s] = None
      \/ ~r.closing /\ openLeg'[s] = leg
  <2>1. openLeg' = [openLeg EXCEPT ![s] = IF OpensLeg(s, r) THEN leg
                                          ELSE IF EndsLeg(s, r) THEN None ELSE openLeg[s]]
    BY DEF HandleFill, Pair, OpensLeg, EndsLeg
  <2>2. openLeg'[s] = IF OpensLeg(s, r) THEN leg
                      ELSE IF EndsLeg(s, r) THEN None ELSE openLeg[s]
    BY <2>1, Typing
  <2>3. r.closing => EndsLeg(s, r) /\ ~OpensLeg(s, r)
    BY <1>1 DEF IInv, Sound, Followed, EndsLeg, OpensLeg
  <2>4. ~r.closing => OpensLeg(s, r)
    BY <1>1 DEF IInv, Sound, Followed, OpensLeg
  <2> HIDE DEF leg
  <2> QED BY <2>2, <2>3, <2>4
<1>4. ~r.closing => /\ r.time = LastTime(s) /\ Clear(LastTime(s)) /\ Taken(s) = feed[s].read
                    /\ feed[s].read # 0 /\ LastTime(s) \in Nat
  <2>1. ~r.closing => /\ r.time = LastTime(s) /\ Clear(LastTime(s))
                      /\ call[s].stage = "place" /\ call[s].resume = None
    BY <1>1 DEF Timely, Entered, Answered
  <2>2. call[s].stage = "place" => feed[s].pc = "wait" /\ feed[s].read # 0
    <3>1. feed[s].pc \in {"wait", "bar", "stopped"}
      BY Typing
    <3> QED BY <3>1 DEF IInv, Sound, Fed, Quiet, Idle
  <2>3. ~r.closing => Taken(s) = feed[s].read
    BY <2>1, <2>2 DEF Taken, BeforeBar
  <2> QED BY <2>1, <2>2, <2>3, Typing
<1>5. leg.time = r.time
  BY Zenon
<1> HIDE DEF leg
<1>6. Ticking(s)'
  BY <1>1, <1>2 DEF Timely, Ticking
<1>7. Deciding(s)'
  BY <1>1, <1>2 DEF Timely, Deciding, Clear
<1>8. ~r.closing => current[s] \in Nat /\ current[s] <= LastTime(s)
  BY <1>4 DEF Timely, Ticking, LastTime
<1>9. openLeg'[s] # None => openLeg'[s].time = LastTime(s) /\ ~r.closing
  BY <1>3, <1>4, <1>5
<1>10. Entered(s)'
  <2>1. openLeg'[s] # None =>
          /\ openLeg'[s].time <= LastTime(s)' /\ Clear(LastTime(s)) /\ feed'[s].read # 0
          /\ current'[s] # None
    BY <1>1, <1>2, <1>4, <1>8, <1>9, LiveEngineAssumption
  <2> QED BY <1>2, <1>9, <2>1 DEF Entered, Clear
<1>11. Untouched(s)'
  BY <1>1, <1>2 DEF Timely, Untouched
<1>12. Prompted(s)'
  <2>1. ~WeekendDue(s)'
    BY <1>2, <1>9 DEF WeekendDue
  <2>2. ~HorizonDue(s)'
    <3>1. ASSUME HorizonDue(s)' PROVE FALSE
      <4>1. openLeg'[s] # None /\ current'[s] > openLeg'[s].time + MaxHold
        BY <3>1 DEF HorizonDue
      <4>2. /\ current'[s] = current[s] /\ openLeg'[s].time = LastTime(s)
            /\ current[s] \in Nat /\ current[s] <= LastTime(s) /\ LastTime(s) \in Nat
        BY <1>1, <1>4, <1>8, <1>9, <4>1
      <4> QED BY <4>1, <4>2, MarketTimeAssumption
    <3> QED BY <3>1
  <2> QED BY <2>1, <2>2 DEF Prompted
<1> QED BY <1>6, <1>7, <1>10, <1>11, <1>12 DEF Timely

LEMMA PlaceReturnsTimely ==
  ASSUME IInv, NEW s \in Symbols, PlaceReturns(s), Timely(s)
  PROVE  Timely(s)'
<1> DEFINE placed == [call[s] EXCEPT !.stage = "confirm"]
<1>1. /\ call[s].stage = "place" /\ result[s] # None /\ emit[s] = None /\ rep[s] = None
      /\ UNCHANGED <<enabled, trading, openLeg, weekendTry, current, rep>>
      /\ UNCHANGED <<history, link, positions, feed, emit, toggles>>
      /\ ~Unpaired(s)
  BY DEF PlaceReturns, PlaceFailed, Unpaired
<1>2. feed[s].read # 0 /\ ~Unpaired(s)' /\ LastTime(s)' = LastTime(s)
      /\ HandsOff' = HandsOff /\ Dense' = Dense /\ Prompt' = Prompt
  <2>1. feed[s].read # 0
    BY <1>1 DEF IInv, Sound, Fed, Quiet, Idle
  <2> QED BY <1>1, <2>1, SameHistory DEF Unpaired, LastTime, HandsOff
<1>3. Ticking(s)' /\ Deciding(s)' /\ call'[s].stage \in {"confirm", "idle", "aggregate"}
  <2>1. CASE Return(s, call[s].resume)
    BY <1>1, <1>2, <2>1, Returning
  <2>2. CASE Goto(s, placed)
    <3>1. placed.stage = "confirm" /\ placed.resume = call[s].resume
      <4>1. call[s] = [stage |-> "place", order |-> call[s].order, resume |-> call[s].resume]
        BY <1>1, Typing, OrderStages
      <4> QED BY <4>1
    <3>2. call'[s] = placed
      BY <2>2, Typing DEF Goto
    <3> HIDE DEF placed
    <3>3. Taken(s)' = Taken(s)
      BY <1>1, <3>1, <3>2 DEF Taken, BeforeBar
    <3>4. Ticking(s)'
      BY <1>1, <1>2, <3>1, <3>2, <3>3 DEF Timely, Ticking
    <3> QED BY <3>1, <3>2, <3>4 DEF Deciding
  <2> QED BY <2>1, <2>2 DEF PlaceReturns, PlaceFailed
<1>4. Entered(s)'
  <2>1. openLeg[s] # None => /\ openLeg[s].time <= LastTime(s) /\ Clear(openLeg[s].time)
                             /\ current[s] # None
    BY DEF Timely, Entered
  <2> QED BY <1>1, <1>2, <2>1 DEF Entered, Clear
<1>5. Untouched(s)'
  BY <1>1, <1>2, <1>3 DEF Timely, Untouched
<1>6. Prompted(s)'
  <2>1. ~Leaving(s)
    BY <1>1 DEF Leaving
  <2>2. WeekendDue(s)' = WeekendDue(s) /\ HorizonDue(s)' = HorizonDue(s)
    BY <1>1, <1>2 DEF WeekendDue, HorizonDue
  <2> QED BY <1>2, <2>1, <2>2 DEF Timely, Prompted
<1> QED BY <1>3, <1>4, <1>5, <1>6 DEF Timely

-----------------------------------------------------------------------------
(* The other goroutines and the operator *)

LEMMA GoroutineTimely ==
  ASSUME IInv, Retry = 1, NEW s \in Symbols, Goroutine(s), Timely(s)
  PROVE  Timely(s)'
<1>1. CASE EngineStep(s)
  BY <1>1, WeekendGatesTimely, AggregateTimely, BarGatesTimely, DecideTimely, ReserveTimely,
     ConfirmTimely DEF EngineStep
<1> QED BY <1>1, NextBarTimely, TickTimely, StopTimely, PlaceOrderTimely, ReportTimely,
           HandleFillTimely, PlaceReturnsTimely DEF Goroutine

LEMMA OthersTimely ==
  ASSUME IInv, NEW s \in Symbols, NEW t \in Symbols, t # s, Goroutine(t), Timely(s)
  PROVE  Timely(s)'
<1>1. UNCHANGED <<emit[s], feed[s], result[s], call[s]>>
  BY Own
<1>2. UNCHANGED <<history, toggles, link, enabled, trading>>
  BY DEF Goroutine, NextBar, Tick, CheckWeekend, Stop, EngineStep, WeekendGates, Aggregate,
     BarGates, DecideOnAnswers, Decide, Reserve, Confirm, PlaceOrder, Report, Release,
     HandleFill, Pair, PlaceReturns, PlaceFailed, engineVars, brokerVars
<1>3. /\ UNCHANGED openLeg \/ \E a : openLeg' = [openLeg EXCEPT ![t] = a]
      /\ UNCHANGED rep \/ \E a : rep' = [rep EXCEPT ![t] = a]
      /\ UNCHANGED positions \/ \E a : positions' = [positions EXCEPT ![t] = a]
  <2>1. CASE HandleFill(t)
    BY <2>1 DEF HandleFill, Pair, brokerVars
  <2>2. CASE Report(t)
    BY <2>2 DEF Report, Release
  <2>3. CASE NextBar(t) \/ PlaceOrder(t) \/ Stop(t)
    BY <2>3 DEF NextBar, PlaceOrder, Stop, engineVars
  <2>4. CASE Tick(t) \/ EngineStep(t) \/ PlaceReturns(t)
    BY <2>4 DEF Tick, CheckWeekend, EngineStep, WeekendGates, Aggregate, BarGates,
       DecideOnAnswers, Decide, Reserve, Confirm, PlaceReturns, PlaceFailed, brokerVars
  <2> QED BY <2>1, <2>2, <2>3, <2>4 DEF Goroutine
<1>4. /\ UNCHANGED current \/ \E a : current' = [current EXCEPT ![t] = a]
      /\ UNCHANGED weekendTry \/ \E a : weekendTry' = [weekendTry EXCEPT ![t] = a]
  <2>1. CASE EngineStep(t)
    BY <2>1 DEF EngineStep, WeekendGates, Aggregate, BarGates, DecideOnAnswers, Decide,
       Reserve, Confirm
  <2>2. CASE ~EngineStep(t)
    BY <2>2 DEF Goroutine, NextBar, Tick, CheckWeekend, Stop, PlaceOrder, Report, Release,
       HandleFill, Pair, PlaceReturns, PlaceFailed, engineVars
  <2> QED BY <2>1, <2>2
<1>5. UNCHANGED <<openLeg[s], rep[s], positions[s], current[s], weekendTry[s]>>
  BY <1>3, <1>4, Typing
<1> QED BY <1>1, <1>2, <1>5, TimelyElsewhere

\* An operator who acts ends what is claimed of the switches and of the exits.
LEMMA HandsOn ==
  ASSUME NEW s \in Symbols, Timely(s), ~HandsOff', toggles' # 0 \/ toggles' = toggles,
         toggles' = 0 => UNCHANGED <<enabled, trading>>,
         UNCHANGED <<history, call, rep, emit, result, openLeg, positions, feed, current,
                     weekendTry>>
  PROVE  Timely(s)'
<1>1. LastTime(s)' = LastTime(s) /\ Taken(s)' = Taken(s) /\ Unpaired(s)' = Unpaired(s)
      /\ Fill(s)' = Fill(s) /\ Dense' = Dense /\ Prompt' = Prompt
  BY SameHistory DEF LastTime, Taken, BeforeBar, Unpaired, Fill
<1>2. Ticking(s)'
  BY <1>1 DEF Timely, Ticking
<1>3. Deciding(s)' /\ Entered(s)'
  BY <1>1 DEF Timely, Deciding, Entered, Clear, Answered
<1>4. Untouched(s)'
  BY <1>1 DEF Timely, Untouched
<1> QED BY <1>2, <1>3, <1>4 DEF Timely, Prompted

LEMMA OperatorTimely ==
  ASSUME IInv, NEW s \in Symbols, Operator \/ Disconnected, Timely(s)
  PROVE  Timely(s)'
<1>1. toggles \in Nat
  <2>1. MaxToggles \in Nat /\ toggles \in 0..MaxToggles
    BY ReplayAssumption DEF IInv, Types, TypeOK
  <2> QED BY <2>1
<1>2. CASE ToggleKillSwitch
  BY <1>1, <1>2, HandsOn DEF ToggleKillSwitch, SetEnabled, HandsOff
<1>3. ASSUME NEW t \in Symbols, ToggleSymbol(t) PROVE Timely(s)'
  BY <1>1, <1>3, HandsOn DEF ToggleSymbol, SetTrading, HandsOff
<1>4. CASE Disconnect \/ Disconnected
  BY <1>4, HandsOn DEF Disconnect, Disconnected, engineVars, HandsOff
<1>5. CASE Connect
  <2>1. /\ UNCHANGED <<trading, call, rep, emit, toggles>>
        /\ enabled' = StrategyEnabled /\ openLeg'[s] = None /\ current'[s] = None
        /\ weekendTry'[s] = None /\ feed'[s].read = 0 /\ feed'[s].pc = "wait"
        /\ feed[s].pc = "stopped"
    BY <1>5 DEF Connect, NewEngine, FreshFeed, IInv, Down
  <2>2. call[s] = Idle /\ emit[s] = None /\ rep[s] = None
    BY <2>1 DEF IInv, Sound, Fed, Quiet
  <2>3. toggles = 0 => trading[s]
    BY DEF Timely, Untouched
  <2>4. call'[s].stage = "idle" /\ ~Unpaired(s)'
    BY <2>1, <2>2 DEF Idle, Unpaired
  <2>5. Taken(s)' = 0
    BY <2>1, <2>4 DEF Taken, BeforeBar
  <2> QED BY <2>1, <2>3, <2>4, <2>5 DEF Timely, Ticking, Deciding, Entered, Untouched,
             Prompted, WeekendDue, HorizonDue
<1> QED BY <1>2, <1>3, <1>4, <1>5 DEF Operator

LEMMA TimelyKeeps ==
  ASSUME IInv, Retry = 1, NEW s \in Symbols, Timely(s), [Next]_vars
  PROVE  Timely(s)'
<1>1. CASE UNCHANGED vars
  BY <1>1, TimelyElsewhere DEF vars, engineVars, brokerVars
<1> QED BY <1>1, GoroutineTimely, OthersTimely, OperatorTimely DEF Next

LEMMA InitTimely ==
  ASSUME Init, NEW s \in Symbols
  PROVE  Timely(s)
<1>1. /\ feed[s].read = 0 /\ feed[s].pc = "wait" /\ call[s] = Idle /\ emit[s] = None
      /\ rep[s] = None /\ openLeg[s] = None /\ current[s] = None /\ weekendTry[s] = None
      /\ trading[s] /\ enabled = StrategyEnabled
  BY DEF Init, EngineInit, FreshFeed
<1>2. call[s].stage = "idle" /\ ~Unpaired(s)
  BY <1>1 DEF Idle, Unpaired
<1>3. Taken(s) = 0
  BY <1>1, <1>2 DEF Taken, BeforeBar
<1> QED BY <1>1, <1>2, <1>3 DEF Timely, Ticking, Deciding, Entered, Untouched, Prompted,
           WeekendDue, HorizonDue

\* Exits are on time, for every history, week, guard, bar and horizon, a refused exit
\* being tried again a minute later (engine.go, checkWeekend): with a tick in every bar
\* a position is gone at its horizon; it is out once a tick reaches the guard of the
\* weekly close, or at the first tick after it, but for an entry of that very tick;
\* and when ticks are prompt there is no such entry.
THEOREM ExitsAreOnTime ==
  ASSUME Retry = 1
  PROVE  Spec => []OnTime
<1>1. Init => AllTimely
  BY InitTimely DEF AllTimely
<1>2. IInv /\ AllTimely /\ [Next]_vars => AllTimely'
  BY TimelyKeeps DEF AllTimely
<1>3. IInv /\ AllTimely => OnTime
  <2> SUFFICES ASSUME IInv, AllTimely PROVE OnTime
    OBVIOUS
  <2>1. ASSUME NEW s \in Symbols, HandsOff, AtRest(s)
        PROVE  ~WeekendDue(s) /\ ~HorizonDue(s)
    <3>1. ~Leaving(s)
      <4>1. ~Unpaired(s) /\ call[s].stage = "idle"
        <5>1. Sound(s) /\ Quiet(s)
          BY <2>1 DEF IInv, AtRest
        <5>2. ~Unpaired(s) /\ call[s] = Idle
          BY <5>1, WhenQuiet DEF Quiet
        <5> QED BY <5>2 DEF Idle
      <4> QED BY <4>1 DEF Leaving
    <3> QED BY <2>1, <3>1 DEF AllTimely, Timely, Prompted
  <2>2. OutForTheWeekend
    BY <2>1 DEF OutForTheWeekend, WeekendDue, AtRest
  <2>3. FlatInsideTheGuard
    <3> SUFFICES ASSUME NEW s \in Symbols, HandsOff, Dense, Prompt, ~HoldsOverWeekend,
                        AtRest(s), openLeg[s] # None,
                        AtWeekEnd(LastTime(s), openLeg[s].time)
                 PROVE  FALSE
      BY DEF FlatInsideTheGuard
    <3>1. feed[s].read # 0 /\ Clear(openLeg[s].time)
      BY DEF AllTimely, Timely, Entered
    <3>2. LastTime(s) \notin Unpriced
      <4>1. feed[s].read \in 1..Len(history)
        BY <3>1, Typing
      <4> QED BY <4>1 DEF Dense, LastTime
    <3>3. openLeg[s].time = LastTime(s)
      BY <2>2, <3>2 DEF OutForTheWeekend
    <3> QED BY <3>1, <3>3 DEF Clear
  <2>4. OutAtTheHorizon
    <3> SUFFICES ASSUME NEW s \in Symbols, HandsOff, Dense, MaxHold > 0, AtRest(s),
                        openLeg[s] # None
                 PROVE  current[s] <= openLeg[s].time + MaxHold
      BY DEF OutAtTheHorizon
    <3>1. current[s] \in Nat /\ openLeg[s].time \in Nat
      BY Typing DEF AllTimely, Timely, Entered
    <3>2. ~(current[s] > openLeg[s].time + MaxHold)
      BY <2>1 DEF HorizonDue
    <3> QED BY <3>1, <3>2, MarketTimeAssumption
  <2> QED BY <2>2, <2>3, <2>4 DEF OnTime
<1> QED BY <1>1, <1>2, <1>3, Invariant, PTL DEF Spec
=============================================================================

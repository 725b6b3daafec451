--------------------------- MODULE AnyGatewayProofs ---------------------------
(***************************************************************************)
(* Theorems about AnyGateway, for every set of symbols, every constant and *)
(* every length of the run: its typing, and that the journal holds only    *)
(* round trips made of two consecutive reported fills.                     *)
(***************************************************************************)
EXTENDS AnyGateway, EngineProofs

-----------------------------------------------------------------------------
(* Typing, one lemma per group of actions *)

\* The engine's part of TypeOK is what EngineProofs follows.
LEMMA EngineTyped == TypeOK => EngineTypes
  BY DEF TypeOK, EngineTypes

\* Every section of a tick keeps the types.
LEMMA TickStepType ==
    ASSUME TypeOK, NEW s \in Symbols, TickStep(s)
    PROVE  TypeOK'
  <1>1. EngineTypes' /\ UNCHANGED <<fills, journal>>
    <2>1. CASE \E t \in Times : CheckWeekend(s, t)
      <3>1. \E t \in Nat : CheckWeekend(s, t)
        BY <2>1, AnyGatewayAssumption
      <3> QED BY <3>1, SectionTypes, EngineTyped
    <2>2. CASE \E open \in PositionAnswers, account \in AccountAnswers, blocks \in BOOLEAN :
                 Decide(s, open, account, blocks)
      BY <2>2, SectionTypes, EngineTyped DEF PositionAnswers
    <2>3. CASE \/ WeekendGates(s, connected) \/ Aggregate(s)
               \/ BarGates(s, connected) \/ Reserve(s) \/ Confirm(s)
      BY <2>3, SectionTypes, EngineTyped
    <2> QED BY <2>1, <2>2, <2>3 DEF TickStep
  <1> QED BY <1>1 DEF TickStep, TypeOK, EngineTypes

\* The first section of HandleExecution keeps the types, whatever the report.
LEMMA ReportType ==
    ASSUME TypeOK, NEW s \in Symbols, NEW r \in ReportsAt(Nat), Release(s, r),
           UNCHANGED <<call, connected>>
    PROVE  TypeOK'
  <1>1. [side |-> r.side, closing |-> r.closing, session |-> session] \in Fills
    BY DEF ReportsAt, Fills, TypeOK
  <1>2. fills' \in [Symbols -> Seq(Fills)]
    <2> DEFINE f == [side |-> r.side, closing |-> r.closing, session |-> session]
    <2>0. fills[s] \in Seq(Fills)
      BY DEF TypeOK
    <2>1. Append(fills[s], f) \in Seq(Fills)
      BY <1>1, <2>0
    <2>2. CASE fills' = [fills EXCEPT ![s] = Append(fills[s], f)]
      BY <2>1, <2>2 DEF TypeOK
    <2>3. CASE fills' = fills
      BY <2>3 DEF TypeOK
    <2> QED BY <2>2, <2>3 DEF Release
  <1>3. EngineTypes' /\ UNCHANGED journal
    BY ReleaseTypes, EngineTyped DEF Release
  <1> QED BY <1>2, <1>3 DEF TypeOK, EngineTypes

\* The second section keeps them too: a tracked entry points at a handled fill.
LEMMA HandleFillType ==
    ASSUME IInv, NEW s \in Symbols, HandleFill(s)
    PROVE  TypeOK'
  <1>1. /\ rep[s] # None /\ rep[s] \in ReportsAt(Nat)
        /\ openLeg[s] \in Legs \cup {None}
        /\ fills[s] \in Seq(Fills) /\ journal[s] \in Seq(Trades)
        /\ Len(fills[s]) \in Nat \ {0}
    <2>1. /\ rep[s] # None /\ rep[s] \in ReportsAt(Nat)
          /\ openLeg[s] \in Legs \cup {None}
          /\ fills[s] \in Seq(Fills) /\ journal[s] \in Seq(Trades)
      BY DEF HandleFill, Pair, IInv, TypeOK
    <2>2. Len(fills[s]) > 0
      BY <2>1 DEF IInv, ReportIsLastFill
    <2> QED BY <2>1, <2>2
  <1>2. EngineTypes'
    <2>1. EngineTypes
      BY EngineTyped DEF IInv
    <2> QED BY <1>1, <2>1, PairTypes DEF HandleFill
  <1>3. journal' \in [Symbols -> Seq(Trades)]
    <2>0. PICK written \in BOOLEAN : Pair(s, written)
      BY DEF HandleFill
    <2> DEFINE t == [side |-> openLeg[s].side, entry |-> openLeg[s].fill,
                     exit |-> Len(fills[s])]
    <2>1. CASE EndsLeg(s, rep[s]) /\ written
      <3>1. openLeg[s] \in Legs
        BY <1>1, <2>1 DEF EndsLeg
      <3>2. t \in Trades
        BY <1>1, <3>1 DEF Legs, Trades
      <3>3. Append(journal[s], t) \in Seq(Trades)
        BY <1>1, <3>2
      <3>4. journal' = [journal EXCEPT ![s] = Append(journal[s], t)]
        BY <2>0, <2>1 DEF Pair
      <3> QED BY <3>3, <3>4 DEF IInv, TypeOK
    <2>2. CASE ~(EndsLeg(s, rep[s]) /\ written)
      BY <2>0, <2>2 DEF Pair, IInv, TypeOK
    <2> QED BY <2>1, <2>2
  <1> QED BY <1>2, <1>3 DEF HandleFill, Pair, IInv, TypeOK, EngineTypes

\* The operator, the connection and a new engine keep the types.
LEMMA OtherType ==
    ASSUME TypeOK, Connection \/ Operator \/ Reconnect
    PROVE  TypeOK'
  <1>1. CASE Connection
    BY <1>1 DEF Connection, engineVars, TypeOK
  <1>2. CASE Operator
    <2>1. EngineTypes' /\ UNCHANGED <<fills, journal>>
      BY <1>2, SwitchTypes, EngineTyped DEF Operator
    <2> QED BY <1>2, <2>1 DEF Operator, TypeOK, EngineTypes
  <1>3. CASE Reconnect
    <2>1. EngineTypes' /\ UNCHANGED <<fills, journal>>
      BY <1>3, SwitchTypes, EngineTyped DEF Reconnect
    <2> QED BY <1>3, <2>1 DEF Reconnect, TypeOK, EngineTypes
  <1> QED BY <1>1, <1>2, <1>3

LEMMA PlaceReturnsType ==
    ASSUME TypeOK, NEW s \in Symbols, PlaceReturns(s)
    PROVE  TypeOK'
  <1>1. EngineTypes' /\ UNCHANGED <<fills, journal>>
    BY PlacedTypes, EngineTyped DEF PlaceReturns
  <1> QED BY <1>1 DEF PlaceReturns, TypeOK, EngineTypes

THEOREM TypeCorrect == ASSUME IInv, [Next]_vars PROVE TypeOK'
  <1>1. CASE UNCHANGED vars
    BY <1>1 DEF vars, engineVars, IInv, TypeOK
  <1>2. ASSUME NEW s \in Symbols, TickStep(s)
        PROVE  TypeOK'
    BY <1>2, TickStepType DEF IInv
  <1>3. ASSUME NEW s \in Symbols, PlaceReturns(s)
        PROVE  TypeOK'
    BY <1>3, PlaceReturnsType DEF IInv
  <1>4. ASSUME NEW s \in Symbols, Report(s)
        PROVE  TypeOK'
    <2>1. PICK r \in ReportsAt(Times) : Release(s, r)
      BY <1>4 DEF Report
    <2>2. r \in ReportsAt(Nat)
      BY <2>1, AnyGatewayAssumption DEF ReportsAt
    <2> QED BY <1>4, <2>1, <2>2, ReportType DEF Report, IInv
  <1>5. ASSUME NEW s \in Symbols, HandleFill(s)
        PROVE  TypeOK'
    BY <1>5, HandleFillType
  <1>6. ASSUME Connection \/ Operator \/ Reconnect
        PROVE  TypeOK'
    BY <1>6, OtherType DEF IInv
  <1> QED BY <1>1, <1>2, <1>3, <1>4, <1>5, <1>6 DEF Next

-----------------------------------------------------------------------------
(* The journal.  What the invariant says of one symbol, from the fills f,  *)
(* the journal j, the tracked entry leg, the report r in HandleExecution   *)
(* and the session n.                                                      *)

PairedOf(f, r) == IF r = None THEN Len(f) ELSE Len(f) - 1

ReportOK(f, r, n) ==
    r # None => /\ Len(f) > 0
                /\ f[Len(f)].side = r.side
                /\ f[Len(f)].session = n

TradesOK(f, j, r) ==
    \A i \in 1..Len(j) :
        /\ j[i].exit = j[i].entry + 1
        /\ j[i].exit <= PairedOf(f, r)
        /\ f[j[i].entry].side = j[i].side
        /\ f[j[i].exit].side # j[i].side
        /\ f[j[i].entry].session = f[j[i].exit].session

LegOK(f, leg, r, n) ==
    leg # None => /\ leg.fill = PairedOf(f, r)
                  /\ f[leg.fill].side = leg.side
                  /\ f[leg.fill].session = n

OrderOK(j, leg) ==
    /\ \A i, k \in 1..Len(j) : i < k => j[i].exit < j[k].entry
    /\ leg # None => \A i \in 1..Len(j) : j[i].exit < leg.fill

SymbolOK(s) ==
    /\ ReportOK(fills[s], rep[s], session)
    /\ TradesOK(fills[s], journal[s], rep[s])
    /\ LegOK(fills[s], openLeg[s], rep[s], session)
    /\ OrderOK(journal[s], openLeg[s])

LEMMA BySymbol == IInv <=> TypeOK /\ \A s \in Symbols : SymbolOK(s)
  BY DEF IInv, ReportIsLastFill, NoInventedTrade, LegIsLastFill,
         NoFillSpentTwice, Paired, SymbolOK, ReportOK, TradesOK, LegOK,
         OrderOK, PairedOf

\* Recording a fill x for the report r, when no report was being handled.
LEMMA RecordFill ==
    ASSUME NEW f \in Seq(Fills), NEW j \in Seq(Trades),
           NEW leg \in Legs \cup {None}, NEW n \in Nat,
           NEW r \in ReportsAt(Nat), r # None,
           NEW x \in Fills, x.side = r.side, x.session = n,
           TradesOK(f, j, None), LegOK(f, leg, None, n)
    PROVE  /\ ReportOK(Append(f, x), r, n)
           /\ TradesOK(Append(f, x), j, r)
           /\ LegOK(Append(f, x), leg, r, n)
  <1> DEFINE g == Append(f, x)
  <1>1. /\ Len(g) = Len(f) + 1
        /\ g[Len(g)] = x
        /\ \A i \in 1..Len(f) : g[i] = f[i]
        /\ Len(f) \in Nat
    OBVIOUS
  <1>2. PairedOf(g, r) = Len(f) /\ PairedOf(f, None) = Len(f)
    BY <1>1 DEF PairedOf
  <1>3. ReportOK(g, r, n)
    BY <1>1 DEF ReportOK
  <1>4. TradesOK(g, j, r)
    <2> SUFFICES ASSUME NEW i \in 1..Len(j)
                 PROVE  /\ j[i].exit = j[i].entry + 1
                        /\ j[i].exit <= PairedOf(g, r)
                        /\ g[j[i].entry].side = j[i].side
                        /\ g[j[i].exit].side # j[i].side
                        /\ g[j[i].entry].session = g[j[i].exit].session
      BY DEF TradesOK
    <2>1. j[i] \in Trades
      OBVIOUS
    <2>2. j[i].entry \in Nat \ {0} /\ j[i].exit \in Nat \ {0}
      BY <2>1 DEF Trades
    <2>3. /\ j[i].exit = j[i].entry + 1
          /\ j[i].exit <= Len(f)
      BY <1>2 DEF TradesOK
    <2>4. j[i].entry \in 1..Len(f) /\ j[i].exit \in 1..Len(f)
      BY <1>1, <2>2, <2>3
    <2>5. g[j[i].entry] = f[j[i].entry] /\ g[j[i].exit] = f[j[i].exit]
      BY <1>1, <2>4
    <2> QED BY <1>2, <2>3, <2>5 DEF TradesOK
  <1>5. LegOK(g, leg, r, n)
    <2> SUFFICES ASSUME leg # None
                 PROVE  /\ leg.fill = PairedOf(g, r)
                        /\ g[leg.fill].side = leg.side
                        /\ g[leg.fill].session = n
      BY DEF LegOK
    <2>1. leg \in Legs
      OBVIOUS
    <2>2. leg.fill = Len(f) /\ leg.fill \in Nat \ {0}
      BY <1>2, <2>1 DEF LegOK, Legs
    <2>3. g[leg.fill] = f[leg.fill]
      BY <1>1, <2>2
    <2> QED BY <1>2, <2>2, <2>3 DEF LegOK
  <1> QED BY <1>3, <1>4, <1>5

\* When the report leaves HandleExecution one more fill is paired.
LEMMA OneMorePaired ==
    ASSUME NEW f \in Seq(Fills), NEW j \in Seq(Trades),
           NEW r \in ReportsAt(Nat), r # None, TradesOK(f, j, r)
    PROVE  /\ TradesOK(f, j, None)
           /\ \A i \in 1..Len(j) : j[i].exit < Len(f)
  <1> SUFFICES ASSUME NEW i \in 1..Len(j)
               PROVE  /\ j[i].exit = j[i].entry + 1
                      /\ j[i].exit <= Len(f)
                      /\ f[j[i].entry].side = j[i].side
                      /\ f[j[i].exit].side # j[i].side
                      /\ f[j[i].entry].session = f[j[i].exit].session
                      /\ j[i].exit < Len(f)
    BY DEF TradesOK, PairedOf
  <1>1. j[i] \in Trades
    OBVIOUS
  <1>2. j[i].exit \in Nat /\ j[i].entry \in Nat /\ Len(f) \in Nat
    BY <1>1 DEF Trades
  <1>3. j[i].exit <= Len(f) - 1
    BY DEF TradesOK, PairedOf
  <1> QED BY <1>2, <1>3 DEF TradesOK

\* Pairing, first case: the fill becomes the tracked entry.
LEMMA PairOpens ==
    ASSUME NEW f \in Seq(Fills), NEW j \in Seq(Trades), NEW n \in Nat,
           NEW r \in ReportsAt(Nat), r # None,
           NEW leg \in Legs, leg.side = r.side, leg.fill = Len(f),
           ReportOK(f, r, n), TradesOK(f, j, r),
           \A i, k \in 1..Len(j) : i < k => j[i].exit < j[k].entry
    PROVE  /\ TradesOK(f, j, None)
           /\ LegOK(f, leg, None, n)
           /\ OrderOK(j, leg)
  <1>1. TradesOK(f, j, None) /\ \A i \in 1..Len(j) : j[i].exit < Len(f)
    BY OneMorePaired
  <1>2. LegOK(f, leg, None, n)
    BY DEF LegOK, ReportOK, PairedOf
  <1> QED BY <1>1, <1>2 DEF OrderOK

\* Pairing, second case: the fill and the tracked entry make a round trip.
LEMMA PairEnds ==
    ASSUME NEW f \in Seq(Fills), NEW j \in Seq(Trades), NEW n \in Nat,
           NEW r \in ReportsAt(Nat), r # None,
           NEW leg \in Legs, leg # None, r.side # leg.side,
           NEW t \in Trades, t = [side |-> leg.side, entry |-> leg.fill, exit |-> Len(f)],
           ReportOK(f, r, n), TradesOK(f, j, r), LegOK(f, leg, r, n), OrderOK(j, leg)
    PROVE  /\ TradesOK(f, Append(j, t), None)
           /\ OrderOK(Append(j, t), None)
  <1> DEFINE h == Append(j, t)
  <1>1. /\ Len(h) = Len(j) + 1 /\ Len(j) \in Nat
        /\ h[Len(j) + 1] = t
        /\ \A i \in 1..Len(j) : h[i] = j[i]
    OBVIOUS
  <1>2. TradesOK(f, j, None)
    BY OneMorePaired
  <1>3. /\ Len(f) \in Nat
        /\ leg.fill = Len(f) - 1
        /\ leg.fill \in Nat \ {0}
        /\ f[leg.fill].side = leg.side /\ f[leg.fill].session = n
        /\ f[Len(f)].side = r.side /\ f[Len(f)].session = n
    BY DEF LegOK, ReportOK, PairedOf, Legs
  <1>4. TradesOK(f, h, None)
    <2> SUFFICES ASSUME NEW i \in 1..Len(h)
                 PROVE  /\ h[i].exit = h[i].entry + 1
                        /\ h[i].exit <= Len(f)
                        /\ f[h[i].entry].side = h[i].side
                        /\ f[h[i].exit].side # h[i].side
                        /\ f[h[i].entry].session = f[h[i].exit].session
      BY DEF TradesOK, PairedOf
    <2>1. CASE i \in 1..Len(j)
      BY <1>1, <1>2, <2>1 DEF TradesOK, PairedOf
    <2>2. CASE i = Len(j) + 1
      <3>1. h[i] = t
        BY <1>1, <2>2
      <3>2. t.exit = Len(f) /\ t.entry = leg.fill /\ t.side = leg.side
        OBVIOUS
      <3> QED BY <1>3, <3>1, <3>2
    <2> QED BY <1>1, <2>1, <2>2
  <1>5. OrderOK(h, None)
    <2> SUFFICES ASSUME NEW i \in 1..Len(h), NEW k \in 1..Len(h), i < k
                 PROVE  h[i].exit < h[k].entry
      BY DEF OrderOK
    <2>1. i \in 1..Len(j)
      BY <1>1
    <2>2. CASE k \in 1..Len(j)
      BY <1>1, <2>1, <2>2 DEF OrderOK
    <2>3. CASE k = Len(j) + 1
      <3>1. h[k] = t /\ h[i] = j[i]
        BY <1>1, <2>1, <2>3
      <3>2. t.entry = leg.fill
        OBVIOUS
      <3> QED BY <2>1, <3>1, <3>2 DEF OrderOK
    <2> QED BY <1>1, <2>2, <2>3
  <1> QED BY <1>4, <1>5

\* Pairing, last case: a closing fill no tracked entry answers for is left out.
LEMMA PairNothing ==
    ASSUME NEW f \in Seq(Fills), NEW j \in Seq(Trades), NEW n \in Nat,
           NEW r \in ReportsAt(Nat), r # None,
           TradesOK(f, j, r), OrderOK(j, None)
    PROVE  /\ TradesOK(f, j, None)
           /\ LegOK(f, None, None, n)
           /\ OrderOK(j, None)
  BY OneMorePaired DEF LegOK

\* A step that leaves the pairing of a symbol alone.
LEMMA PairingUntouched ==
    ASSUME NEW s \in Symbols, SymbolOK(s), session' = session,
           fills'[s] = fills[s], journal'[s] = journal[s],
           openLeg'[s] = openLeg[s], rep'[s] = rep[s]
    PROVE  SymbolOK(s)'
  BY DEF SymbolOK, ReportOK, TradesOK, LegOK, OrderOK, PairedOf

LEMMA ReportSymbol ==
    ASSUME IInv, NEW s \in Symbols, Report(s)
    PROVE  \A q \in Symbols : SymbolOK(q)'
  <1>1. PICK r \in ReportsAt(Times) : Release(s, r)
    BY DEF Report
  <1>2. r \in ReportsAt(Nat) /\ r # None
    BY <1>1, AnyGatewayAssumption, ReportsAssumption DEF ReportsAt
  <1>3. \A q \in Symbols : SymbolOK(q)
    BY BySymbol
  <1> SUFFICES ASSUME NEW q \in Symbols
               PROVE  SymbolOK(q)'
    OBVIOUS
  <1>4. CASE q # s \/ r.status # "FILLED"
    <2>1. /\ session' = session /\ fills'[q] = fills[q] /\ journal'[q] = journal[q]
          /\ openLeg'[q] = openLeg[q] /\ rep'[q] = rep[q]
      BY <1>1, <1>4 DEF Release, IInv, TypeOK
    <2> QED BY <1>3, <2>1, PairingUntouched
  <1>5. CASE q = s /\ r.status = "FILLED"
    <2> DEFINE x == [side |-> r.side, closing |-> r.closing, session |-> session]
    <2>1. /\ x \in Fills /\ x.side = r.side /\ x.session = session
          /\ session \in Nat
      BY <1>2 DEF ReportsAt, Fills, IInv, TypeOK
    <2>2. /\ fills[s] \in Seq(Fills) /\ journal[s] \in Seq(Trades)
          /\ openLeg[s] \in Legs \cup {None}
      BY DEF IInv, TypeOK
    <2>3. /\ rep[s] = None /\ rep'[s] = r /\ fills'[s] = Append(fills[s], x)
          /\ journal'[s] = journal[s] /\ openLeg'[s] = openLeg[s]
          /\ session' = session
      BY <1>1, <1>5 DEF Release, IInv, TypeOK
    <2>4. TradesOK(fills[s], journal[s], None) /\ LegOK(fills[s], openLeg[s], None, session)
      BY <1>3, <2>3 DEF SymbolOK
    <2>5. /\ ReportOK(Append(fills[s], x), r, session)
          /\ TradesOK(Append(fills[s], x), journal[s], r)
          /\ LegOK(Append(fills[s], x), openLeg[s], r, session)
      BY <1>2, <2>1, <2>2, <2>4, RecordFill
    <2>6. OrderOK(journal[s], openLeg[s])
      BY <1>3 DEF SymbolOK
    <2> DEFINE g == Append(fills[s], x)
    <2>6a. /\ ReportOK(g, r, session) /\ TradesOK(g, journal[s], r)
           /\ LegOK(g, openLeg[s], r, session) /\ fills'[s] = g
      BY <2>3, <2>5
    <2> HIDE DEF g, x
    <2>7. ReportOK(fills[s], rep[s], session)'
      BY <2>3, <2>6a DEF ReportOK
    <2>8. TradesOK(fills[s], journal[s], rep[s])'
      BY <2>3, <2>6a DEF TradesOK, PairedOf
    <2>9. LegOK(fills[s], openLeg[s], rep[s], session)'
      BY <2>3, <2>6a DEF LegOK, PairedOf
    <2>10. OrderOK(journal[s], openLeg[s])'
      BY <2>3, <2>6 DEF OrderOK
    <2> QED BY <1>5, <2>7, <2>8, <2>9, <2>10 DEF SymbolOK
  <1> QED BY <1>4, <1>5

LEMMA HandleFillSymbol ==
    ASSUME IInv, NEW s \in Symbols, HandleFill(s)
    PROVE  \A q \in Symbols : SymbolOK(q)'
  <1>1. \A q \in Symbols : SymbolOK(q)
    BY BySymbol
  <1> SUFFICES ASSUME NEW q \in Symbols
               PROVE  SymbolOK(q)'
    OBVIOUS
  <1>2. CASE q # s
    <2>1. /\ session' = session /\ fills'[q] = fills[q] /\ journal'[q] = journal[q]
          /\ openLeg'[q] = openLeg[q] /\ rep'[q] = rep[q]
      BY <1>2 DEF HandleFill, Pair, IInv, TypeOK
    <2> QED BY <1>1, <2>1, PairingUntouched
  <1>3. CASE q = s
    <2> DEFINE f == fills[s]
               j == journal[s]
               r == rep[s]
               leg == openLeg[s]
    <2>1. /\ f \in Seq(Fills) /\ j \in Seq(Trades) /\ session \in Nat
          /\ r # None /\ r \in ReportsAt(Nat) /\ leg \in Legs \cup {None}
      BY DEF HandleFill, Pair, IInv, TypeOK
    <2>2. /\ ReportOK(f, r, session) /\ TradesOK(f, j, r)
          /\ LegOK(f, leg, r, session) /\ OrderOK(j, leg)
      BY <1>1 DEF SymbolOK
    <2>3. fills'[s] = f /\ rep'[s] = None /\ session' = session
      BY DEF HandleFill, Pair, IInv, TypeOK
    <2>4. Len(f) \in Nat \ {0}
      BY <2>1, <2>2 DEF ReportOK
    <2>0. PICK written \in BOOLEAN : Pair(s, written)
      BY DEF HandleFill
    <2>5. CASE OpensLeg(s, r)
      <3> DEFINE l == [side |-> r.side, time |-> r.time, fill |-> Len(f)]
      <3>1. l \in Legs /\ l.side = r.side /\ l.fill = Len(f)
        BY <2>1, <2>4 DEF ReportsAt, Legs
      <3>2. openLeg'[s] = l
        <4>1. openLeg' = [openLeg EXCEPT ![s] = CASE OpensLeg(s, r) -> l
                                                  [] EndsLeg(s, r) -> None
                                                  [] OTHER -> openLeg[s]]
          BY DEF HandleFill, Pair
        <4>2. ~EndsLeg(s, r)
          BY <2>5 DEF OpensLeg, EndsLeg
        <4> QED BY <2>5, <4>1, <4>2 DEF IInv, TypeOK
      <3>3. ~EndsLeg(s, r)
        BY <2>5 DEF OpensLeg, EndsLeg
      <3>4. journal'[s] = j
        BY <3>3 DEF HandleFill, Pair
      <3>5. \A i, k \in 1..Len(j) : i < k => j[i].exit < j[k].entry
        BY <2>2 DEF OrderOK
      <3>6. TradesOK(f, j, None) /\ LegOK(f, l, None, session) /\ OrderOK(j, l)
        BY <2>1, <2>2, <3>1, <3>5, PairOpens
      <3>7. /\ ReportOK(fills[s], rep[s], session)'
            /\ TradesOK(fills[s], journal[s], rep[s])'
            /\ LegOK(fills[s], openLeg[s], rep[s], session)'
            /\ OrderOK(journal[s], openLeg[s])'
        BY <2>3, <3>2, <3>4, <3>6 DEF ReportOK, TradesOK, LegOK, OrderOK, PairedOf
      <3> QED BY <1>3, <3>7 DEF SymbolOK
    <2>6. CASE EndsLeg(s, r) /\ written
      <3> DEFINE t == [side |-> leg.side, entry |-> leg.fill, exit |-> Len(f)]
      <3>1. leg \in Legs /\ leg # None /\ r.side # leg.side
        BY <2>1, <2>6 DEF EndsLeg
      <3>2. t \in Trades
        BY <2>4, <3>1 DEF Legs, Trades
      <3>3. openLeg'[s] = None
        BY <2>6 DEF HandleFill, Pair, IInv, TypeOK, OpensLeg, EndsLeg
      <3>4. journal'[s] = Append(j, t)
        BY <2>0, <2>6 DEF Pair, IInv, TypeOK
      <3>5. TradesOK(f, Append(j, t), None) /\ OrderOK(Append(j, t), None)
        BY <2>1, <2>2, <3>1, <3>2, PairEnds
      <3>6. /\ ReportOK(fills[s], rep[s], session)'
            /\ TradesOK(fills[s], journal[s], rep[s])'
            /\ LegOK(fills[s], openLeg[s], rep[s], session)'
            /\ OrderOK(journal[s], openLeg[s])'
        BY <2>3, <3>3, <3>4, <3>5 DEF ReportOK, TradesOK, LegOK, OrderOK, PairedOf
      <3> QED BY <1>3, <3>6 DEF SymbolOK
    <2>7. CASE ~OpensLeg(s, r) /\ ~(EndsLeg(s, r) /\ written)
      <3>1. openLeg'[s] = None
        <4>1. EndsLeg(s, r) \/ leg = None
          BY <2>7 DEF OpensLeg, EndsLeg
        <4> QED BY <2>0, <2>7, <4>1 DEF Pair, IInv, TypeOK
      <3>2. journal'[s] = j
        BY <2>0, <2>7 DEF Pair
      <3>3. OrderOK(j, None)
        BY <2>2 DEF OrderOK
      <3>3a. TradesOK(f, j, None) /\ LegOK(f, None, None, session)
        BY <2>1, <2>2, <3>3, PairNothing
      <3>4. /\ ReportOK(fills[s], rep[s], session)'
            /\ TradesOK(fills[s], journal[s], rep[s])'
            /\ LegOK(fills[s], openLeg[s], rep[s], session)'
            /\ OrderOK(journal[s], openLeg[s])'
        BY <2>3, <3>1, <3>2, <3>3, <3>3a DEF ReportOK, TradesOK, LegOK, OrderOK, PairedOf
      <3> QED BY <1>3, <3>4 DEF SymbolOK
    <2> QED BY <2>5, <2>6, <2>7
  <1> QED BY <1>2, <1>3

LEMMA ReconnectSymbol ==
    ASSUME IInv, Reconnect
    PROVE  \A q \in Symbols : SymbolOK(q)'
  <1> SUFFICES ASSUME NEW q \in Symbols
               PROVE  SymbolOK(q)'
    OBVIOUS
  <1>1. SymbolOK(q)
    BY BySymbol
  <1>2. /\ rep[q] = None /\ rep'[q] = None /\ openLeg'[q] = None
        /\ fills'[q] = fills[q] /\ journal'[q] = journal[q]
    BY DEF Reconnect, NewEngine
  <1>3. /\ TradesOK(fills[q], journal[q], None)
        /\ OrderOK(journal[q], None)
    BY <1>1, <1>2 DEF SymbolOK, OrderOK
  <1> QED BY <1>2, <1>3 DEF SymbolOK, ReportOK, TradesOK, LegOK, OrderOK, PairedOf

-----------------------------------------------------------------------------
(* The theorems *)

THEOREM InitEstablishes == Init => IInv
  <1> SUFFICES ASSUME Init
               PROVE  IInv
    OBVIOUS
  <1>1. PICK armed \in [Symbols -> BOOLEAN], on \in BOOLEAN : EngineInit(armed, on)
    BY DEF Init
  <1>2. TypeOK
    BY <1>1, InitTypes DEF Init, TypeOK, EngineTypes
  <1>3. ASSUME NEW s \in Symbols
        PROVE  SymbolOK(s)
    <2>1. fills[s] = << >> /\ journal[s] = << >> /\ openLeg[s] = None /\ rep[s] = None
      BY <1>1 DEF EngineInit
    <2>2. 1..Len(journal[s]) = {}
      BY <2>1
    <2> QED BY <2>1, <2>2 DEF SymbolOK, ReportOK, TradesOK, LegOK, OrderOK
  <1> QED BY <1>2, <1>3, BySymbol

THEOREM StepPreserves == IInv /\ [Next]_vars => IInv'
  <1> SUFFICES ASSUME IInv, [Next]_vars
               PROVE  IInv'
    OBVIOUS
  <1>1. TypeOK'
    BY TypeCorrect
  <1>2. ASSUME UNCHANGED <<session, fills, journal, openLeg, rep>>
        PROVE  \A q \in Symbols : SymbolOK(q)'
    BY <1>2, BySymbol, PairingUntouched
  <1>3. ASSUME UNCHANGED vars
        PROVE  UNCHANGED <<session, fills, journal, openLeg, rep>>
    BY <1>3 DEF vars, engineVars
  <1>4. ASSUME NEW s \in Symbols, TickStep(s)
        PROVE  UNCHANGED <<session, fills, journal, openLeg, rep>>
    BY <1>4 DEF TickStep, CheckWeekend, WeekendGates, Aggregate, BarGates,
                Decide, Reserve, Confirm
  <1>5. ASSUME NEW s \in Symbols, PlaceReturns(s)
        PROVE  UNCHANGED <<session, fills, journal, openLeg, rep>>
    BY <1>5 DEF PlaceReturns, PlaceFailed
  <1>6. ASSUME Connection \/ Operator
        PROVE  UNCHANGED <<session, fills, journal, openLeg, rep>>
    BY <1>6 DEF Connection, Operator, SetEnabled, SetTrading, engineVars
  <1>7. \A q \in Symbols : SymbolOK(q)'
    <2>1. CASE UNCHANGED vars
      BY <1>2, <1>3, <2>1
    <2>2. CASE \E s \in Symbols : TickStep(s) \/ PlaceReturns(s)
      BY <1>2, <1>4, <1>5, <2>2
    <2>3. CASE \E s \in Symbols : Report(s)
      BY <2>3, ReportSymbol
    <2>4. CASE \E s \in Symbols : HandleFill(s)
      BY <2>4, HandleFillSymbol
    <2>5. CASE Connection \/ Operator
      BY <1>2, <1>6, <2>5
    <2>6. CASE Reconnect
      BY <2>6, ReconnectSymbol
    <2> QED BY <2>1, <2>2, <2>3, <2>4, <2>5, <2>6 DEF Next
  <1>8. IInv' <=> TypeOK' /\ \A q \in Symbols : SymbolOK(q)'
    BY DEF IInv, ReportIsLastFill, NoInventedTrade, LegIsLastFill,
           NoFillSpentTwice, Paired, SymbolOK, ReportOK, TradesOK, LegOK,
           OrderOK, PairedOf
  <1> QED BY <1>1, <1>7, <1>8

\* Every variable of the engine keeps its type, whatever the gateway does.
THEOREM TypeInvariant == Spec => []TypeOK
  <1>1. IInv => TypeOK
    BY DEF IInv
  <1> QED BY <1>1, InitEstablishes, StepPreserves, PTL DEF Spec

\* The journal holds only round trips joining two consecutive fills of
\* opposite sides handled by one engine, whatever the gateway reports.
THEOREM JournalInventsNothing == Spec => []NoInventedTrade
  <1>1. IInv => NoInventedTrade
    BY DEF IInv
  <1> QED BY <1>1, InitEstablishes, StepPreserves, PTL DEF Spec

\* No fill enters two round trips, and the tracked entry is still unspent.
THEOREM FillsSpentOnce == Spec => []NoFillSpentTwice
  <1>1. IInv => NoFillSpentTwice
    BY DEF IInv
  <1> QED BY <1>1, InitEstablishes, StepPreserves, PTL DEF Spec

\* The tracked entry is the last fill paired in this session.
THEOREM TrackedEntryIsLast == Spec => []LegIsLastFill
  <1>1. IInv => LegIsLastFill
    BY DEF IInv
  <1> QED BY <1>1, InitEstablishes, StepPreserves, PTL DEF Spec
=============================================================================

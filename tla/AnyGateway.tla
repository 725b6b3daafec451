------------------------------ MODULE AnyGateway ------------------------------
(***************************************************************************)
(* The engine in front of ANY gateway of the interface                     *)
(* (internal/broker/gateway.go): connected or not at any moment, any       *)
(* answer from Positions and Account, PlaceOrder accepted or refused,      *)
(* execution reports of any status, side and closing mark at any moment,   *)
(* one at a time per symbol.  What holds here holds whatever the broker    *)
(* does, and does not rest on the gateway being right.                     *)
(***************************************************************************)
EXTENDS LiveEngine

CONSTANTS
    Times,        \* market times of the ticks and of the reports
    MaxFills,     \* bound on the reports handled per symbol
    MaxSessions   \* bound on the connections

ASSUME AnyGatewayAssumption == Times \subseteq Nat

VARIABLE connected

vars == <<engineVars, connected>>

\* What Positions may answer: a side or nothing on each symbol, or an error.
PositionAnswers == [Symbols -> Holdings] \cup {None}

Init ==
    /\ \E armed \in [Symbols -> BOOLEAN], on \in BOOLEAN : EngineInit(armed, on)
    /\ connected \in BOOLEAN

\* One section of the tick of a symbol, PlaceOrder included.
TickStep(s) ==
    /\ \/ \E t \in Times : CheckWeekend(s, t)
       \/ WeekendGates(s, connected)
       \/ Aggregate(s)
       \/ BarGates(s, connected)
       \/ \E open \in PositionAnswers, account \in AccountAnswers, blocks \in BOOLEAN :
            Decide(s, open, account, blocks)
       \/ Reserve(s)
       \/ Confirm(s)
    /\ UNCHANGED connected

\* PlaceOrder returns; what the broker does with the order comes as reports.
PlaceReturns(s) ==
    /\ call[s].stage = "place"
    /\ \/ /\ Goto(s, [call[s] EXCEPT !.stage = "confirm"])
          /\ UNCHANGED <<enabled, trading, session, inFlight, openLeg, weekendTry,
                         current, rep, fills, journal>>
       \/ PlaceFailed(s)
    /\ UNCHANGED connected

\* The gateway calls HandleExecution.
Report(s) ==
    /\ Len(fills[s]) < MaxFills
    /\ \E r \in ReportsAt(Times) : Release(s, r)
    /\ UNCHANGED <<call, connected>>

HandleFill(s) == (\E written \in BOOLEAN : Pair(s, written)) /\ UNCHANGED connected

Connection ==
    /\ connected' \in BOOLEAN
    /\ UNCHANGED engineVars

Operator ==
    /\ \/ \E on \in BOOLEAN : SetEnabled(on)
       \/ \E s \in Symbols, on \in BOOLEAN : SetTrading(s, on)
    /\ UNCHANGED connected

Reconnect ==
    /\ session < MaxSessions
    /\ \E on \in BOOLEAN : NewEngine(on)
    /\ connected' \in BOOLEAN

Next ==
    \/ \E s \in Symbols : TickStep(s) \/ PlaceReturns(s) \/ Report(s) \/ HandleFill(s)
    \/ Connection \/ Operator \/ Reconnect

Spec == Init /\ [][Next]_vars

-----------------------------------------------------------------------------
(* Properties *)

Fills == [side : Sides, closing : BOOLEAN, session : Nat \ {0}]

Trades == [side : Sides, entry : Nat \ {0}, exit : Nat \ {0}]

\* Every variable has its type, and what a symbol tracks refers to reports it
\* has really handled.
TypeOK ==
    /\ enabled \in BOOLEAN /\ connected \in BOOLEAN
    /\ trading \in [Symbols -> BOOLEAN]
    /\ session \in Nat \ {0}
    /\ inFlight \in [Symbols -> {"", "pending", "placed"}]
    /\ openLeg \in [Symbols -> Legs \cup {None}]
    /\ weekendTry \in [Symbols -> Nat \cup {None}]
    /\ current \in [Symbols -> Nat \cup {None}]
    /\ call \in [Symbols -> Calls]
    /\ rep \in [Symbols -> ReportsAt(Nat) \cup {None}]
    /\ fills \in [Symbols -> Seq(Fills)]
    /\ journal \in [Symbols -> Seq(Trades)]

\* The fills whose handling is complete: while a report is in HandleExecution
\* its fill, the last one, has not reached the pairing yet.
Paired(s) == IF rep[s] = None THEN Len(fills[s]) ELSE Len(fills[s]) - 1

\* The journal invents no round trip: each one joins two CONSECUTIVE fills of
\* the symbol, of opposite sides, handled by the same engine, whatever was
\* lost, refused or done outside the program (the comments of HandleExecution;
\* "n'invente aucun trade").
NoInventedTrade ==
    \A s \in Symbols : \A i \in 1..Len(journal[s]) :
        LET t == journal[s][i] IN
        /\ t.exit = t.entry + 1
        /\ t.exit <= Paired(s)
        /\ fills[s][t.entry].side = t.side
        /\ fills[s][t.exit].side # t.side
        /\ fills[s][t.entry].session = fills[s][t.exit].session

\* The tracked entry is the LAST fill the engine has paired, in this session:
\* an exit drops it, a same-side fill replaces it, a reconnection forgets it.
LegIsLastFill ==
    \A s \in Symbols : openLeg[s] # None =>
        /\ openLeg[s].fill = Paired(s)
        /\ fills[s][openLeg[s].fill].side = openLeg[s].side
        /\ fills[s][openLeg[s].fill].session = session

\* No fill is spent twice: a round trip begins after the one before it ended,
\* and the tracked entry is not already the exit of a journalled trade.
NoFillSpentTwice ==
    \A s \in Symbols :
        /\ \A i, j \in 1..Len(journal[s]) :
              i < j => journal[s][i].exit < journal[s][j].entry
        /\ openLeg[s] # None => \A i \in 1..Len(journal[s]) :
              journal[s][i].exit < openLeg[s].fill

\* What makes the three above inductive: the report between the two sections
\* of HandleExecution is the last fill recorded, and of this session.
ReportIsLastFill ==
    \A s \in Symbols : rep[s] # None =>
        /\ Len(fills[s]) > 0
        /\ fills[s][Len(fills[s])].side = rep[s].side
        /\ fills[s][Len(fills[s])].session = session

IInv == /\ TypeOK
        /\ ReportIsLastFill
        /\ NoInventedTrade
        /\ LegIsLastFill
        /\ NoFillSpentTwice
=============================================================================

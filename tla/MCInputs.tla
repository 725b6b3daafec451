------------------------------- MODULE MCInputs -------------------------------
(***************************************************************************)
(* Small instances of what a decision to trade rests on: the backtest and  *)
(* the strategies, the models and the bars they read, the news, the event  *)
(* bus, the configuration and the day's starting equity.  These parts      *)
(* share no state, so a behaviour explores one of them, and leaves the     *)
(* others where they start or out.                                         *)
(***************************************************************************)
EXTENDS Backtest, DayStart, News, Config, Bus, Colibri, Troglodyte, Bars, Trees

CONSTANT
    Explored   \* the parts explored

VARIABLE
    part       \* the one explored

liveParts == <<dayVars, confVars, newsVars, busVars, barsVars>>
modelParts == <<treesVars, colibriVars, troglodyteVars>>
all == <<part, vars, liveParts, modelParts>>

-----------------------------------------------------------------------------
(* Instances *)

\* Backtest.  A week lasts 5 minutes and a bar 1.
Prices(open, high, low, close) ==
    [open |-> open, high |-> high, low |-> low, close |-> close]

\* Around a price of 20 with barriers at 4: a quiet bar, one that touches both
\* barriers, one that ends at the upper, and gaps beyond each.
FewBars == {Prices(20, 21, 19, 20), Prices(20, 24, 16, 20), Prices(20, 24, 20, 24),
            Prices(14, 15, 13, 14), Prices(26, 27, 25, 26)}

\* Two weeks: in the first one a bar in every minute, in the other a hole at the
\* end of the first week.
TwoWeeks == {<<2, 3, 4, 6, 7>>, <<1, 2, 4, 8, 9>>}

\* Files with a retired strategy and a stray key, with values refused and
\* garbled, out of order, empty, cut, not a table, or missing.
Settings(mode, port, name, max, stray) ==
    [kind |-> "table", stray |-> stray,
     key |-> [mode |-> mode, port |-> port, name |-> name, fixed |-> 2, max |-> max]]
NoSettings(kind) ==
    [kind |-> kind, stray |-> FALSE,
     key |-> [mode |-> -1, port |-> -1, name |-> -1, fixed |-> -1, max |-> -1]]
FewFiles == {Settings(1, 1, 1, 2, FALSE), NoSettings("none"), NoSettings("broken"),
             NoSettings("scalar"), Settings(1, 1, 3, 2, TRUE), Settings(0, -2, 1, 2, FALSE),
             Settings(1, 1, 0, 1, FALSE)}
FewEnvs == {[mode |-> -1, port |-> -1, name |-> -1], [mode |-> 2, port |-> -1, name |-> -1],
            [mode |-> 0, port |-> -1, name |-> -1], [mode |-> -1, port |-> -2, name |-> 3]}

\* The refresh of two sessions of `gw`, and `gw news import`.
ThreeWriters == [old |-> [process |-> "gw", importer |-> FALSE],
                 new |-> [process |-> "gw", importer |-> FALSE],
                 cli |-> [process |-> "gw news", importer |-> TRUE]]

FewQuotes == {[bid |-> 1, ask |-> 0], [bid |-> 2, ask |-> 3]}

\* Four rows: every multiset of three numbers and missing values, beside
\* categories that are balanced, rare, single or missing.
NumColumns == {s \in [1..4 -> 1..4] : \A i \in 1..3 : s[i] <= s[i + 1]}
CatColumns == {<<1, 1, 2, 2>>, <<1, 2, 1, 4>>, <<4, 4, 4, 4>>}
Column(s) == [i \in 1..4 |-> IF s[i] = 4 THEN NaN ELSE s[i]]
FewDatasets == {[num |-> Column(n), cat |-> Column(c)] : n \in NumColumns, c \in CatColumns}
OneDataset == [num |-> <<1, 1, 1, 1>>, cat |-> <<1, 1, 2, 2>>]

\* Two symbols; five bars, of which any may be incomplete but the last, which has
\* no label.  A trade ends after the bar it is opened on.
FewSamples ==
    {[i \in 1..5 |-> [usable |-> i \in kept, exit |-> i + spans[i]]] :
       kept \in {k \in SUBSET (1..4) : Cardinality(k) >= 3},
       spans \in {<<1, 1, 1, 1, 0>>, <<2, 1, 2, 1, 0>>, <<1, 3, 1, 1, 0>>}}
TwoSymbols == <<2, 1>>

\* A quiet bar, a fall that opens below the stops, a wide bar that opens above them.
FewCandles == {Prices(5, 6, 4, 5), Prices(2, 3, 2, 3), Prices(8, 9, 1, 7)}
FewSlopes == {-3, 1, 3, Nil}
OneEntry == <<3>>
TwoStops == <<1, 2>>
OwnRule == [enterZ |-> 2, exitZ |-> 1, stopATR |-> 3]

-----------------------------------------------------------------------------
InputsInit ==
    /\ part \in Explored
    /\ Init /\ (part # "backtest" => times = <<2, 3, 4, 6, 7>>)
    /\ DayInit /\ (part # "daystart" => \A a \in Accounts : equity[a] = 10)
    /\ ConfigInit /\ (part # "config" => file = NoSettings("none"))
    /\ NewsInit /\ (part # "news" => week = 1)
    /\ BusInit /\ ColibriInit /\ TroglodyteInit /\ BarsInit
    /\ TreesInit /\ (part # "trees" => data = OneDataset)

\* A step of a part, the others left out.
InBacktest ==
    /\ part = "backtest" /\ Next
    /\ UNCHANGED <<part, liveParts, modelParts>>
InDayStart ==
    /\ part = "daystart" /\ DayNext
    /\ UNCHANGED <<part, vars, confVars, newsVars, busVars, barsVars, modelParts>>
InConfig ==
    /\ part = "config" /\ ConfigNext
    /\ UNCHANGED <<part, vars, dayVars, newsVars, busVars, barsVars, modelParts>>
InNews ==
    /\ part = "news" /\ NewsNext
    /\ UNCHANGED <<part, vars, dayVars, confVars, busVars, barsVars, modelParts>>
InBus ==
    /\ part = "bus" /\ BusNext
    /\ UNCHANGED <<part, vars, dayVars, confVars, newsVars, barsVars, modelParts>>
InBars ==
    /\ part = "bars" /\ BarsNext
    /\ UNCHANGED <<part, vars, dayVars, confVars, newsVars, busVars, modelParts>>
InTrees ==
    /\ part = "trees" /\ TreesNext
    /\ UNCHANGED <<part, vars, liveParts, colibriVars, troglodyteVars>>
InColibri ==
    /\ part = "colibri" /\ ColibriNext
    /\ UNCHANGED <<part, vars, liveParts, treesVars, troglodyteVars>>
InTroglodyte ==
    /\ part = "troglodyte" /\ TroglodyteNext
    /\ UNCHANGED <<part, vars, liveParts, treesVars, colibriVars>>

InputsNext ==
    \/ InBacktest \/ InTroglodyte \/ InColibri \/ InTrees \/ InBars
    \/ InNews \/ InBus \/ InConfig \/ InDayStart

InputsSpec == InputsInit /\ [][InputsNext]_all
=============================================================================

----------------------------- MODULE TradingRules -----------------------------
(***************************************************************************)
(* The pure decision rules the engines share: signals and their meaning    *)
(* for a position (core/domain.go), the reversal rule                      *)
(* (strategy/strategy.go) and the risk manager's verdict                   *)
(* (risk/manager.go).                                                      *)
(*                                                                         *)
(* A position is abstracted to its side.  `held` is the side held on one   *)
(* symbol (Flat for none) and `open` the sides of every symbol.  Prices    *)
(* and sizes are left out: what they decide is whether the entry is        *)
(* refused, which the caller gives as the account's answer.                *)
(***************************************************************************)
EXTENDS Naturals, FiniteSets

CONSTANTS
    Symbols,
    MaxPerSymbol,     \* risk.max_positions_per_symbol
    MaxOpen,          \* risk.max_open_positions
    RiskSized,        \* risk.risk_per_trade_pct > 0
    ExitOnReversal,   \* Description.ExitOnReversal
    Barriers,         \* the strategy's entries carry a stop and a limit
    SupportsBracket   \* Info().SupportsBracket of the gateway

ASSUME TradingRulesAssumption ==
    /\ IsFiniteSet(Symbols)
    /\ MaxPerSymbol \in Nat /\ MaxOpen \in Nat
    /\ {RiskSized, ExitOnReversal, Barriers, SupportsBracket} \subseteq BOOLEAN

Flat == "flat"
Sides == {"BUY", "SELL"}
Holdings == Sides \cup {Flat}

Opposite(side) == IF side = "BUY" THEN "SELL" ELSE "BUY"

EntrySignals == {"ENTER_LONG", "ENTER_SHORT"}
ExitSignals == {"EXIT", "EXIT_LONG", "EXIT_SHORT"}
Signals == EntrySignals \cup ExitSignals     \* HOLD stops before any rule

EntrySide(sig) == IF sig = "ENTER_LONG" THEN "BUY" ELSE "SELL"

\* SignalAction.Closes
Closes(sig, held) ==
    \/ sig = "EXIT" /\ held # Flat
    \/ sig = "EXIT_LONG" /\ held = "BUY"
    \/ sig = "EXIT_SHORT" /\ held = "SELL"

\* ApplyReversal: an entry against the open position becomes an exit.
ApplyReversal(sig, held) ==
    IF /\ ExitOnReversal
       /\ sig \in EntrySignals
       /\ held # Flat /\ held # EntrySide(sig)
    THEN "EXIT" ELSE sig

\* What Account answered and what it implies for an entry: usable, no budget or
\* a size below one unit, the day's loss reached, or no answer at all.
AccountAnswers == {"ok", "unsizable", "lossReached", "unavailable"}

OpenSymbols(open) == {s \in Symbols : open[s] # Flat}

\* positionRoom: the cap of the symbol and the cap of the account.
PositionRoom(s, open) ==
    /\ (IF open[s] = Flat THEN 0 ELSE 1) < MaxPerSymbol
    /\ Cardinality(OpenSymbols(open)) < MaxOpen

\* Without an account the daily loss limit is not applied, and an entry sized
\* by risk has no budget.
AccountAllows(answer) ==
    \/ answer = "ok"
    \/ answer \in {"unsizable", "unavailable"} /\ ~RiskSized

\* Evaluate: does the signal become an order?  An exit is never blocked.
Accepts(s, sig, open, answer) ==
    \/ sig \in ExitSignals /\ Closes(sig, open[s])
    \/ sig \in EntrySignals /\ AccountAllows(answer) /\ PositionRoom(s, open)

\* The order Evaluate builds; only an entry carries barriers.
OrderOf(s, sig, open) ==
    IF sig \in EntrySignals
    THEN [side |-> EntrySide(sig), entry |-> TRUE]
    ELSE [side |-> Opposite(open[s]), entry |-> FALSE]

Orders == [side : Sides, entry : BOOLEAN]

\* unprotected: an entry whose barriers the gateway will not carry is refused.
Unprotected(order) == order.entry /\ Barriers /\ ~SupportsBracket
=============================================================================

----------------------------- MODULE MCAnyGateway -----------------------------
(* AnyGateway on one symbol: the pairing state is per symbol, and another    *)
(* symbol touches only the kill-switch, the connection and the answers of    *)
(* Positions, which are arbitrary here.                                      *)
EXTENDS AnyGateway

\* The last bar of a week of four minutes, and the first one of the next.
MCTimes == {2, 4}
=============================================================================

---------------------------- MODULE MCReplayTrading ----------------------------
(* Instances of ReplayTrading.  A week lasts 12 minutes, its guard 2, a bar 2. *)
EXTENDS ReplayTrading

\* The end of a week with a tick in every bar, its weekly close and the first
\* bar after it; and a week with holes: bars that close late, inside the guard.
FullWeek == <<2, 4, 5, 6, 8, 9, 11, 13>>
Gappy == <<4, 7, 11, 14, 15>>

Weeks == {FullWeek, Gappy}

SomeUnpriced == {14}
=============================================================================

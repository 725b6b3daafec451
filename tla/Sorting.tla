-------------------------------- MODULE Sorting --------------------------------
(***************************************************************************)
(* The sorts of the standard library, for what the models sort: finite     *)
(* sets of numbers.                                                        *)
(***************************************************************************)
EXTENDS Integers, FiniteSets

\* The numbers of a finite set, the least first.
InOrder(S) ==
  CHOOSE f \in [1..Cardinality(S) -> S] :
    \A i, j \in 1..Cardinality(S) : i < j => f[i] < f[j]
=============================================================================

------------------------------- MODULE Trees -------------------------------
(***************************************************************************)
(* Gradient boosting on histograms: internal/ml/gbdt.  A column of values  *)
(* is cut into bins, a tree is grown leaf by leaf on the bins, and the     *)
(* finished tree is read on the raw values.  Gradients are left out: any   *)
(* cut the counts allow may be the one with the best gain, and the growth  *)
(* may stop at any leaf for want of gain.                                  *)
(***************************************************************************)
EXTENDS Integers, Sequences, FiniteSetsExt, SequencesExt, Functions, Sorting

CONSTANTS
  Datasets,             \* sets of rows: [num |-> <<v, ...>>, cat |-> <<v, ...>>]
  NaN,                  \* a missing value
  Infinity,
  MaxBins, NumLeaves, MaxDepth, MinDataInLeaf, MinDataPerGroup,
  FeaturesPerTree,      \* columns drawn for one tree (feature_fraction)
  NumRounds, EarlyStoppingRounds,
  Losses                \* validation losses a round may end with

VARIABLES
  data,      \* the training set
  mapper,    \* the two binMappers: upper bounds, categories
  bins,      \* bins[f][i]: bin of row i for feature f
  tree,      \* nodes of the tree being grown; the root is the first
  leaves,    \* growNodes still to be cut
  feats,     \* columns drawn for this tree
  pool,      \* histograms given back, dirty
  losses,    \* validation loss after each finished round
  best,      \* bestLoss, bestIter, sinceBest of Train
  status     \* "between", "growing", "ended", "cancelled"

treesVars == <<data, mapper, bins, tree, leaves, feats, pool, losses, best, status>>

Features == {"num", "cat"}
Numbers == (1 - Infinity)..(Infinity - 1)

\* Params.Validate refuses other values.
ASSUME TreesAssumption ==
  /\ {MinDataInLeaf, MinDataPerGroup, NumRounds, FeaturesPerTree} \subseteq Nat \ {0}
  /\ {MaxBins, NumLeaves} \subseteq Nat \ {0, 1}
  /\ Infinity \in Nat /\ {MaxDepth, EarlyStoppingRounds} \subseteq Int
  /\ NaN \notin Int
  /\ Losses \subseteq Numbers
  /\ \A d \in Datasets :
       /\ DOMAIN d = Features /\ Len(d["num"]) = Len(d["cat"])
       /\ \A f \in Features : d[f] \in Seq(Numbers \cup {NaN})

----------------------------------------------------------------------------
(* Binning *)

ValuesIn(column) == Range(column) \ {NaN}
Finite(column) == {i \in DOMAIN column : column[i] # NaN}

\* The p-th value of the sorted column.
Sorted(column, p) ==
  Min({v \in ValuesIn(column) : Cardinality({i \in Finite(column) : column[i] <= v}) >= p})

\* The same, once the distinct values have been appended to the first slots of
\* the array: distinct := finite[:1] shares the array of finite.
Shared(column, p) ==
  IF p <= Cardinality(ValuesIn(column)) THEN InOrder(ValuesIn(column))[p] ELSE Sorted(column, p)

Quantile(column, k) ==
  Shared(column, (k * Cardinality(Finite(column))) \div MaxBins + 1)

\* The quantiles, but one no greater than another before it.
Quantiles(column) ==
  {Quantile(column, k) : k \in {k \in 1..MaxBins-1 :
     \A j \in 1..k-1 : Quantile(column, j) < Quantile(column, k)}}

UpperBounds(column) ==
  LET distinct == InOrder(ValuesIn(column))
  IN CASE distinct = <<>> -> <<Infinity>>
       [] distinct # <<>> /\ Len(distinct) <= MaxBins -> Append(Front(distinct), Infinity)
       [] OTHER -> Append(InOrder(Quantiles(column)), Infinity)

Categories(column) ==
  LET cats == InOrder(ValuesIn(column))
  IN IF Len(cats) <= MaxBins THEN cats ELSE SubSeq(cats, 1, MaxBins)

NumBins(m, f) ==
  IF f = "num" THEN Len(m.upper) ELSE IF m.cats = <<>> THEN 1 ELSE Len(m.cats)
MissingBin(m, f) == NumBins(m, f) + 1

BinOf(m, f, v) ==
  LET fits == IF f = "num" THEN {k \in DOMAIN m.upper : v <= m.upper[k]}
                           ELSE {k \in DOMAIN m.cats : v = m.cats[k]}
  IN IF v = NaN THEN MissingBin(m, f)
     ELSE IF fits = {} THEN MissingBin(m, f) ELSE Min(fits)

BuildBinned(d) ==
  LET m == [upper |-> UpperBounds(d["num"]), cats |-> Categories(d["cat"])]
  IN /\ mapper = m
     /\ bins = [f \in Features |-> [i \in DOMAIN d[f] |-> BinOf(m, f, d[f][i])]]

----------------------------------------------------------------------------
(* Histograms: only the counts *)

Bins == 1..(MaxBins + 1)
Count(rows, f, b) == Cardinality({i \in rows : bins[f][i] = b})

NoCounts == [f \in Features |-> [b \in Bins |-> 0]]

Dirty(h) == h
Reset(h) == NoCounts

\* What the pool hands out: the last one given back as it is, or a new one.
Get(p) == IF p = <<>> THEN NoCounts ELSE Last(p)
GetZeroed(p) == Reset(Get(p))
Rest(p) == IF p = <<>> THEN p ELSE Front(p)

BuildHistogram(h, rows, fs) ==
  [f \in Features |-> [b \in Bins |->
    h[f][b] + IF f \in fs THEN Count(rows, f, b) ELSE 0]]

Subtract(parent, sibling) ==
  [f \in Features |-> [b \in Bins |-> parent[f][b] - sibling[f][b]]]

----------------------------------------------------------------------------
(* Cuts *)

Enough(lc, rc) == lc >= MinDataInLeaf /\ rc >= MinDataInLeaf

RowsIn(h, bs) == MapThenSumSet(LAMBDA b : h[b], bs)

\* The rows a cut sends to the left, the missing ones on either side.
LeftSize(l, f, bs, defaultLeft) ==
  RowsIn(l.hist[f], bs) + IF defaultLeft THEN l.hist[f][MissingBin(mapper, f)] ELSE 0

\* A numeric cut after bin b separates something, and leaves enough.
SeparatesNumbers(l, b, defaultLeft) ==
  /\ RowsIn(l.hist["num"], 1..b)
       \notin {0, Cardinality(l.rows) - l.hist["num"][MissingBin(mapper, "num")]}
  /\ LET lc == LeftSize(l, "num", 1..b, defaultLeft)
     IN Enough(lc, Cardinality(l.rows) - lc)

NumericCut(b, defaultLeft) ==
  [feature |-> "num", leftBins |-> 1..b, threshold |-> mapper.upper[b],
   leftCats |-> {}, defaultLeft |-> defaultLeft]

NumericCuts(l) ==
  {NumericCut(c[1], c[2]) : c \in
     {c \in (1..NumBins(mapper, "num") - 1) \X BOOLEAN : SeparatesNumbers(l, c[1], c[2])}}

SeparatesCategories(l, bs, defaultLeft) ==
  LET lc == LeftSize(l, "cat", bs, defaultLeft)
  IN Enough(lc, Cardinality(l.rows) - lc)

CategoricalCut(bs, defaultLeft) ==
  [feature |-> "cat", leftBins |-> bs, threshold |-> 0,
   leftCats |-> {mapper.cats[b] : b \in bs}, defaultLeft |-> defaultLeft]

\* Prefixes of the categories that are not too rare, in the order of their
\* gradient, which may be any.
CategoricalCuts(l) ==
  LET stats == {b \in 1..NumBins(mapper, "cat") : l.hist["cat"][b] >= MinDataPerGroup}
  IN {CategoricalCut(c[1], c[2]) : c \in
        {c \in ((SUBSET stats) \ {{}, stats}) \X BOOLEAN : SeparatesCategories(l, c[1], c[2])}}

Cuts(l) ==
  IF \/ l.closed
     \/ MaxDepth > 0 /\ l.depth >= MaxDepth
     \/ Cardinality(l.rows) < 2 * MinDataInLeaf
  THEN {}
  ELSE UNION {IF f = "num" THEN NumericCuts(l) ELSE CategoricalCuts(l) : f \in feats}

GoesLeft(s, b) ==
  IF b = MissingBin(mapper, s.feature) THEN s.defaultLeft ELSE b \in s.leftBins

----------------------------------------------------------------------------
(* buildTree *)

LeafNode == [leaf |-> TRUE]

\* The draws of a round: bagging keeps at least one row.
SampledRows == {rows \in SUBSET (DOMAIN data["num"]) : rows # {}}
SampledFeatures == {fs \in SUBSET Features : Cardinality(fs) = FeaturesPerTree}

NewTree ==
  /\ status = "between"
  /\ feats' \in SampledFeatures
  /\ \E rows \in SampledRows :
       leaves' = {[node |-> 1, rows |-> rows, depth |-> 0, closed |-> FALSE,
                   hist |-> BuildHistogram(GetZeroed(pool), rows, feats')]}
  /\ pool' = Rest(pool)
  /\ tree' = <<LeafNode>>
  /\ status' = "growing"
  /\ UNCHANGED <<data, mapper, bins, losses, best>>

\* The small child is counted, the large one is what remains of the parent.
Children(l, left, right) ==
  LET small == IF Cardinality(left) > Cardinality(right) THEN right ELSE left
      counted == BuildHistogram(GetZeroed(pool), small, feats)
      deduced == Subtract(l.hist, counted)
      Child(rows, node) ==
        [node |-> node, rows |-> rows, depth |-> l.depth + 1, closed |-> FALSE,
         hist |-> IF rows = small THEN counted ELSE deduced]
  IN {Child(left, Len(tree) + 1), Child(right, Len(tree) + 2)}

Grow ==
  /\ status = "growing"
  /\ Cardinality(leaves) < NumLeaves
  /\ \E l \in leaves : \E s \in Cuts(l) :
       LET left == {i \in l.rows : GoesLeft(s, bins[s.feature][i])}
           right == l.rows \ left
       IN IF ~Enough(Cardinality(left), Cardinality(right))
          THEN /\ leaves' = (leaves \ {l}) \cup {[l EXCEPT !.closed = TRUE]}
               /\ UNCHANGED <<tree, pool>>
          ELSE /\ leaves' = (leaves \ {l}) \cup Children(l, left, right)
               /\ tree' = [tree EXCEPT ![l.node] =
                    [leaf |-> FALSE, feature |-> s.feature,
                     threshold |-> s.threshold, leftCats |-> s.leftCats,
                     defaultLeft |-> s.defaultLeft,
                     left |-> Len(tree) + 1, right |-> Len(tree) + 2]]
                    \o <<LeafNode, LeafNode>>
               /\ pool' = Append(Rest(Rest(pool)), l.hist)
  /\ UNCHANGED <<data, mapper, bins, feats, losses, best, status>>

----------------------------------------------------------------------------
(* Train *)

Improved(loss) ==
  IF loss < best.loss
  THEN [loss |-> loss, iter |-> Len(losses) + 1, since |-> 0]
  ELSE [best EXCEPT !.since = @ + 1]

EndTree ==
  /\ status = "growing"
  /\ \E loss \in Losses :
       /\ losses' = Append(losses, loss)
       /\ best' = Improved(loss)
  /\ pool' = pool \o [k \in 1..Cardinality(leaves) |-> SetToSeq(leaves)[k].hist]
  /\ leaves' = {}
  /\ status' = IF \/ Len(losses') = NumRounds
                  \/ EarlyStoppingRounds > 0 /\ best'.since >= EarlyStoppingRounds
               THEN "ended" ELSE "between"
  /\ UNCHANGED <<data, mapper, bins, tree, feats>>

Cancel ==
  /\ status = "between"
  /\ status' = "cancelled"
  /\ UNCHANGED <<data, mapper, bins, tree, leaves, feats, pool, losses, best>>

BestIteration ==
  IF best.iter = 0 \/ best.iter > Len(losses) THEN Len(losses) ELSE best.iter

TreesInit ==
  /\ data \in Datasets
  /\ BuildBinned(data)
  /\ tree = <<>> /\ leaves = {} /\ feats = {} /\ pool = <<>>
  /\ losses = <<>> /\ best = [loss |-> Infinity, iter |-> 0, since |-> 0]
  /\ status = "between"

TreesNext == NewTree \/ Grow \/ EndTree \/ Cancel

TreesSpec == TreesInit /\ [][TreesNext]_treesVars

----------------------------------------------------------------------------
(* Prediction: on the raw values *)

Left(n, f, v) ==
  IF v = NaN THEN n.defaultLeft
  ELSE IF f = "cat" THEN v \in n.leftCats ELSE v <= n.threshold

\* The leaf of a tree a row falls in.
Predict(nodes, x) ==
  LET At[n \in DOMAIN nodes] ==
        IF nodes[n].leaf THEN n
        ELSE IF Left(nodes[n], nodes[n].feature, x[nodes[n].feature])
             THEN At[nodes[n].left] ELSE At[nodes[n].right]
  IN At[1]

Row(i) == [f \in Features |-> data[f][i]]

----------------------------------------------------------------------------
(* Properties *)

\* The leaf a training row falls in when the tree is read on raw values is
\* the one the growth put it in by its bins, missing values and quantile
\* bounds included: the values of the leaves were computed on those rows.
PredictsItsLeaf ==
  \A l \in leaves : \A i \in l.rows : Predict(tree, Row(i)) = l.node

\* A leaf's histogram, counted in a recycled buffer or deduced from the
\* parent's, holds what a direct count of its rows would; and no leaf is
\* left with fewer rows than MinDataInLeaf once the root has been cut.
CountsAreTrue ==
  \A l \in leaves :
    /\ \A f \in feats, b \in Bins : l.hist[f][b] = Count(l.rows, f, b)
    /\ l.depth > 0 => Cardinality(l.rows) >= MinDataInLeaf

\* However training stops, by its rounds, by patience or cancelled between
\* two trees, the trees the model predicts with are those of the round with
\* the least validation loss, the earliest of them.
KeepsTheBest ==
  status \in {"ended", "cancelled"} /\ losses # <<>> =>
    LET b == BestIteration
    IN /\ b \in DOMAIN losses
       /\ \A k \in DOMAIN losses : losses[b] <= losses[k]
       /\ \A k \in 1..b-1 : losses[b] < losses[k]

\* A tree reads a row as it was grown on it, its histograms hold true counts, and
\* the trees kept are those of the best round (ml/gbdt).
TreesHold == PredictsItsLeaf /\ CountsAreTrue /\ KeepsTheBest

\* dataset.go:147-150: the bins of a column with many values hold balanced
\* numbers of rows: under its bound, none holds more than one quantile's.  The
\* code does not keep it (README).
Balanced ==
  LET finite == Finite(data["num"])
      share == (Cardinality(finite) + MaxBins - 1) \div MaxBins
  IN Cardinality(ValuesIn(data["num"])) > MaxBins =>
       \A b \in DOMAIN mapper.upper :
         Cardinality({i \in finite :
           bins["num"][i] = b /\ data["num"][i] < mapper.upper[b]}) <= share

\* dataset.go:112-114: a category training has not seen is treated as a
\* missing value.  The code does not keep it (README).
UnseenIsMissing ==
  \A n \in DOMAIN tree : ~tree[n].leaf /\ tree[n].feature = "cat" =>
    Left(tree[n], "cat", Infinity) = Left(tree[n], "cat", NaN)
=============================================================================

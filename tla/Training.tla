------------------------------- MODULE Training -------------------------------
(***************************************************************************)
(* The walk-forward (internal/training): folds trained and tested in       *)
(* parallel, the production model, the folder of the run, and the choice   *)
(* of a model among the folders (catalog.go), by whoever replays or trades.*)
(*                                                                         *)
(* `gw train` and the screen of `gw backtrain` may each have a run of its  *)
(* own under way on the same models/.  A bar is the time it opens at.      *)
(***************************************************************************)
EXTENDS Integers, FiniteSets, FiniteSetsExt, Sequences

CONSTANTS
    Runs,       \* the calls of Runner.Run, in the order they start
    Histories,  \* the histories the runs may find: per symbol, a set of bars
    Wanted,     \* what is asked of a run: a strategy, symbols
    Strategies, \* [pooled: one model for all symbols; context: warm-up bars]
    Folds,
    Workers,
    NoName

StrategyNames == DOMAIN Strategies
Symbols == UNION {DOMAIN h : h \in Histories}
Blocks == 1..Folds
Final == 0          \* where a fold would be: the production model
\* The runs start in one second, the case in which their folders can meet:
\* <second>, <second>-2, <second>-3...
Ids == StrategyNames \X Runs

\* The bars: the times at which one opens.
Times == UNION {UNION {h[s] : s \in DOMAIN h} : h \in Histories}

\* What is assumed of the constants: the runs are numbered, a strategy has a warm-up, a
\* request names a strategy and symbols that have a history, and a history holds some
\* bars, each at its time, of some symbols.
FitsTraining ==
    /\ Folds \in Nat \ {0}
    /\ IsFiniteSet(Runs) /\ Runs = 1..Cardinality(Runs)
    /\ \A name \in StrategyNames : /\ Strategies[name].pooled \in BOOLEAN
                                   /\ Strategies[name].context \in Nat \ {0}
    /\ NoName \notin StrategyNames \cup Symbols
    /\ \A ask \in Wanted :
         /\ ask[1] \in StrategyNames
         /\ ask[2] # {} /\ \A h \in Histories : ask[2] \subseteq DOMAIN h
    /\ \A h \in Histories :
         /\ IsFiniteSet(DOMAIN h)
         /\ \A s \in DOMAIN h : h[s] \subseteq Int /\ IsFiniteSet(h[s])

ASSUME TrainingAssumption == FitsTraining

VARIABLES
    history,
    dirs,    \* models/: per folder, what it holds
    run      \* the runs

trainVars == <<history, dirs, run>>

NoSummary == [written |-> "no", started |-> 0, symbols |-> {}, final |-> "none"]
NoDir == [there |-> FALSE, model |-> <<>>, summary |-> NoSummary, deleted |-> FALSE]
Unstarted ==
    [pc |-> "off", strategy |-> NoName, symbols |-> {}, try |-> 1, cut |-> <<>>,
     cancelled |-> FALSE, fold |-> [k \in Blocks |-> "waiting"],
     todo |-> [k \in Blocks |-> {}], results |-> {}, final |-> "none"]

TrainInit ==
    /\ history \in Histories
    /\ dirs = [id \in Ids |-> NoDir]
    /\ run = [r \in Runs |-> Unstarted]

-----------------------------------------------------------------------------
(* Series and blocks *)

\* The bars that IndexAtOrAfter(t) leaves behind.
Before(bars, t) == {b \in bars : b < t}

\* splitFolds: the second half of the range that the symbols share, in equal
\* blocks.  Block k goes from cut k to cut k + 1.
Cuts(symbols) ==
    LET start == Max({Min(history[s]) : s \in symbols})
        finish == Min({Max(history[s]) : s \in symbols})
        mid == start + (finish - start) \div 2
    IN  [k \in 1..(Folds + 1) |->
           IF k > Folds THEN finish ELSE mid + (k - 1) * ((finish - mid) \div Folds)]

Pooled(r) == Strategies[run[r].strategy].pooled
Context(r) == Strategies[run[r].strategy].context

\* The mutant: the first bar of the block too.
TrainSetWithOne(r, k, s) == Before(history[s], run[r].cut[k] + 1)

\* What fold k learns of a symbol: all that strictly precedes its block.
TrainSet(r, k, s) == Before(history[s], run[r].cut[k])

\* What it is tested on; the bars of context before them are not.
TestSet(r, k, s) == Before(history[s], run[r].cut[k + 1]) \ Before(history[s], run[r].cut[k])

\* A symbol with less than the context before the block is not learnt.
Learnt(r, k) == {s \in run[r].symbols : Cardinality(TrainSet(r, k, s)) >= Context(r)}

RunIs(r, pc) == run[r].pc = pc
Become(r, new) == run' = [run EXCEPT ![r] = new]
RunTo(r, pc) == Become(r, [run[r] EXCEPT !.pc = pc])
\* What is left of a run that is over, on the disk what something still reads.
Leave(r, pc) ==
    Become(r, [Unstarted EXCEPT !.pc = pc, !.strategy = run[r].strategy, !.symbols = run[r].symbols,
                 !.try = run[r].try, !.final = run[r].final])
Id(r) == <<run[r].strategy, run[r].try>>
Dir(r) == dirs[Id(r)]

\* The models of a training: a file for all, or one per symbol.
Place(r, part, s) == <<part, IF Pooled(r) THEN NoName ELSE s>>
Save(r, part, done, bars) ==
    LET new == [p \in {Place(r, part, s) : s \in done} |->
                  [by |-> r, bars |-> [s \in {t \in done : Place(r, part, t) = p} |-> bars[s]]]]
        old == Dir(r).model
    IN  dirs' = [dirs EXCEPT ![Id(r)].model =
                   [p \in DOMAIN new \cup DOMAIN old |-> IF p \in DOMAIN new THEN new[p] ELSE old[p]]]

Forget(r) == dirs' = [dirs EXCEPT ![Id(r)].model = <<>>]

-----------------------------------------------------------------------------
(* A run, up to its folds *)

Launch(r) ==
    /\ RunIs(r, "off") /\ \A other \in Runs : other < r => ~RunIs(other, "off")
    /\ \E ask \in Wanted :
         Become(r, [run[r] EXCEPT !.pc = "load", !.strategy = ask[1], !.symbols = ask[2]])
    /\ UNCHANGED <<history, dirs>>

\* The key x, or Ctrl+C; before the folds it shows as a failure to load.
Cancel(r) ==
    /\ run[r].pc \in {"folds", "final"} /\ ~run[r].cancelled
    /\ Become(r, [run[r] EXCEPT !.cancelled = TRUE])
    /\ UNCHANGED <<history, dirs>>

\* Every symbol is read; one cannot be, is too short, or shares no range.
Load(r) ==
    /\ RunIs(r, "load")
    /\ \/ Leave(r, "over")
       \/ /\ ~run[r].cancelled
          /\ \A s \in run[r].symbols : Cardinality(history[s]) >= 4 * Context(r)
          /\ LET cut == Cuts(run[r].symbols)
             IN  cut[1] < cut[Folds + 1] /\ Become(r, [run[r] EXCEPT !.pc = "mkdir", !.cut = cut])
    /\ UNCHANGED <<history, dirs>>

\* newRunDir: a folder that exists is another run's.
MakeDir(r) ==
    /\ RunIs(r, "mkdir")
    /\ IF Dir(r).there
       THEN UNCHANGED dirs /\ Become(r, [run[r] EXCEPT !.try = @ + 1])
       ELSE dirs' = [dirs EXCEPT ![Id(r)].there = TRUE] /\ RunTo(r, "folds")
    /\ UNCHANGED history

-----------------------------------------------------------------------------
(* The folds *)

InFold(r, k, stage) == RunIs(r, "folds") /\ run[r].fold[k] = stage
FoldTo(r, k, stage) == Become(r, [run[r] EXCEPT !.fold[k] = stage])

\* The mutant: a fold that has failed keeps its place.
WorkingOrFailed(r) == {k \in Blocks : run[r].fold[k] \in {"training", "testing", "failed"}}

Busy(r) == {k \in Blocks : run[r].fold[k] \in {"training", "testing"}}

\* A place among the workers, or the cancellation: select takes either.
TakePlace(r, k) ==
    /\ InFold(r, k, "waiting")
    /\ \/ Cardinality(Busy(r)) < Workers /\ FoldTo(r, k, "training")
       \/ run[r].cancelled /\ FoldTo(r, k, "left")
    /\ UNCHANGED <<history, dirs>>

\* The symbols are learnt together, or one after the other; nothing reads what a
\* failure leaves.
Train(r, k) ==
    /\ InFold(r, k, "training")
    /\ \E done \in {{}, Learnt(r, k)} :
         /\ Save(r, k, done, [s \in done |-> TrainSet(r, k, s)])
         /\ Become(r, [run[r] EXCEPT
              !.fold[k] = IF done = Learnt(r, k) /\ done # {} THEN "testing" ELSE "failed",
              !.todo[k] = {s \in run[r].symbols : TestSet(r, k, s) # {}}])
    /\ UNCHANGED history

\* The next symbol of the block: its model is read back from the folder, and the bars of
\* the block replayed.  What was measured before a failure is kept.
Test(r, k) ==
    LET todo == run[r].todo[k]
    IN  /\ InFold(r, k, "testing")
        /\ IF todo = {} THEN FoldTo(r, k, "done")
           ELSE \/ FoldTo(r, k, "failed")
                \/ LET s == CHOOSE t \in todo : TRUE IN
                     /\ ~run[r].cancelled /\ Place(r, k, s) \in DOMAIN Dir(r).model
                     /\ Become(r, [run[r] EXCEPT !.todo[k] = @ \ {s},
                          !.results = @ \cup {[fold |-> k, symbol |-> s, bars |-> TestSet(r, k, s),
                                               model |-> Dir(r).model[Place(r, k, s)]]}])
        /\ UNCHANGED <<history, dirs>>

\* wg.Wait: a cancelled run is given up, and its folder stays without run.json.
Join(r) ==
    /\ RunIs(r, "folds")
    /\ \A k \in Blocks : run[r].fold[k] \in {"done", "failed", "left"}
    /\ Leave(r, IF run[r].cancelled THEN "over" ELSE "final")
    /\ Forget(r)
    /\ UNCHANGED history

-----------------------------------------------------------------------------
(* The production model and run.json *)

\* The mutant: the model is announced before it is trained.
FinalAnyway(r, done) == "ok"

\* The model is announced once every symbol is learnt.
FinalOf(r, done) == IF done = run[r].symbols THEN "ok" ELSE "failed"

\* trainFinal, on all the history.
TrainFinal(r) ==
    /\ RunIs(r, "final")
    /\ \E done \in IF Pooled(r) THEN {{}, run[r].symbols} ELSE SUBSET run[r].symbols :
         /\ Save(r, Final, done, [s \in done |-> history[s]])
         /\ Become(r, [run[r] EXCEPT !.pc = "summary", !.final = FinalOf(r, done)])
    /\ UNCHANGED history

\* writeRunSummary: run.json is emptied, then written; the disk may refuse.
Summarise(r) ==
    /\ RunIs(r, "summary")
    /\ \/ /\ Dir(r).summary = NoSummary /\ UNCHANGED run
          /\ dirs' = [dirs EXCEPT ![Id(r)].summary.written = "part"]
       \/ /\ Dir(r).summary # NoSummary
          /\ dirs' = [dirs EXCEPT ![Id(r)].summary =
                        [written |-> "whole", started |-> r, symbols |-> run[r].symbols, final |-> run[r].final]]
          /\ Leave(r, "done")
       \/ UNCHANGED dirs /\ Leave(r, "over")
    /\ UNCHANGED history

\* The process of a run is killed.
Kill(r) ==
    /\ run[r].pc \notin {"off", "done", "over"}
    /\ Leave(r, "over") /\ IF run[r].pc = "folds" THEN Forget(r) ELSE UNCHANGED dirs
    /\ UNCHANGED history

-----------------------------------------------------------------------------
(* The catalogue *)

\* ListRuns: a folder with no readable run.json is not a run.
Listed == {id \in Ids : dirs[id].there /\ dirs[id].summary.written = "whole"}

\* A run is deleted file by file, in the order of the file system; the process
\* may be killed meanwhile.
Delete(id) ==
    /\ id \in Listed \/ dirs[id].deleted
    /\ \/ \E left \in SUBSET {p \in DOMAIN dirs[id].model : p[1] = Final},
             summary \in {dirs[id].summary, NoSummary} :
            dirs' = [dirs EXCEPT ![id].deleted = TRUE, ![id].summary = summary,
                                 ![id].model = [p \in left |-> @[p]]]
       \/ dirs[id].deleted /\ dirs' = [dirs EXCEPT ![id] = NoDir]
    /\ UNCHANGED <<history, run>>

\* productionDir: the model for all, or the symbol's.
Production(id, s) ==
    IF s \notin dirs[id].summary.symbols THEN {}
    ELSE IF <<Final, NoName>> \in DOMAIN dirs[id].model THEN {<<Final, NoName>>}
    ELSE {<<Final, s>>} \cap DOMAIN dirs[id].model

\* SelectModel: the latest run of the strategy that announces a model and holds
\* one for the symbol.
Covering(name, s) ==
    {id \in Listed : id[1] = name /\ dirs[id].summary.final = "ok" /\ Production(id, s) # {}}
Newest(ids) ==
    {id \in ids : \A other \in ids : dirs[other].summary.started <= dirs[id].summary.started}
Selected(name, s) == Newest(Covering(name, s))

-----------------------------------------------------------------------------
Step(r) ==
    \/ Load(r) \/ MakeDir(r) \/ Join(r) \/ TrainFinal(r) \/ Summarise(r)
    \/ \E k \in Blocks : TakePlace(r, k) \/ Train(r, k) \/ Test(r, k)

TrainNext ==
    \/ \E r \in Runs : Launch(r) \/ Cancel(r) \/ Kill(r) \/ Step(r)
    \/ \E id \in Ids : Delete(id)

\* A process that is not killed goes on.
TrainSpec == TrainInit /\ [][TrainNext]_trainVars /\ \A r \in Runs : WF_trainVars(Step(r))

-----------------------------------------------------------------------------
(* Properties *)

\* What a block measures owes nothing to the block: the model that was read back
\* is this run's, and had seen no bar of any symbol at or after the first one it
\* is tested on; and no bar is counted twice (walkforward.go:429).
OutOfSample ==
    \A r \in Runs : \A one \in run[r].results :
        /\ one.model.by = r
        /\ \A s \in DOMAIN one.model.bars : \A b \in one.bars, seen \in one.model.bars[s] : seen < b
        /\ \A two \in run[r].results :
             two.symbol = one.symbol /\ two # one => one.bars \cap two.bars = {}

\* The model that is replayed or traded is the production model of the latest run
\* that has one: trained by that run, to its end, on all the history.  A run that
\* is being deleted may still be chosen (catalog.go:141).
SelectedIsProduction ==
    \A name \in StrategyNames, s \in Symbols : \A id \in Selected(name, s) :
        LET r == dirs[id].summary.started
            model == dirs[id].model[CHOOSE p \in Production(id, s) : TRUE]
        IN  /\ run[r].final = "ok" /\ model.by = r
            /\ s \in DOMAIN model.bars /\ model.bars[s] = history[s]
            /\ \A other \in Runs :
                 /\ RunIs(other, "done") /\ run[other].strategy = name /\ run[other].final = "ok"
                 /\ s \in run[other].symbols /\ Dir(other).summary.started = other /\ ~Dir(other).deleted
                 => other <= r

\* The runs that are not killed all get past their folds: no fold waits for ever
\* for the place of one that has failed (walkforward.go:214).
NoneInFolds == \A r \in Runs : ~RunIs(r, "folds")
=============================================================================

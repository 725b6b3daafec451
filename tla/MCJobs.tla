-------------------------------- MODULE MCJobs --------------------------------
(***************************************************************************)
(* Small instances of the parts of one process that work beside each       *)
(* other: the sessions, the history on disk, the terminal interface and    *)
(* the walk-forward.  They share no state, so a behaviour explores one of  *)
(* them and leaves the others where they start.                            *)
(***************************************************************************)
EXTENDS Session, Interface, Training, History

CONSTANT Explored   \* the parts explored

VARIABLE part       \* the one explored

\* A year of two units: Dukascopy has both, FXCM one.
TwoDays == {"mon", "tue"}
BothSources == {[published |-> TwoDays, byWeek |-> FALSE], [published |-> {"mon"}, byWeek |-> TRUE]}

\* A history that ends and starts elsewhere than the other, with a hole that
\* leaves a single bar before the first block.
OneHistory == {[eur |-> 0..16, gbp |-> {4} \cup (10..16)]}
TwoRequests == {<<"colibri", {"eur", "gbp"}>>, <<"martinet", {"gbp"}>>}
TwoStrategies == [colibri |-> [pooled |-> TRUE, context |-> 2],
                  martinet |-> [pooled |-> FALSE, context |-> 2]]

all == <<part, vars, historyVars, uiVars, trainVars>>

JobsInit ==
    /\ part \in Explored
    /\ Init /\ TrainInit
    /\ HistoryInit /\ (part # "history" => gwb = parquet /\ source.byWeek)
    /\ InterfaceInit /\ (part # "interface" => window.screens = Screens("trading"))

\* A step of a part, the others at rest.
InSession(A) == part = "session" /\ A /\ UNCHANGED <<part, historyVars, uiVars, trainVars>>
InHistory(A) == part = "history" /\ A /\ UNCHANGED <<part, vars, uiVars, trainVars>>
InInterface(A) == part = "interface" /\ A /\ UNCHANGED <<part, vars, historyVars, trainVars>>
InTraining(A) == part = "training" /\ A /\ UNCHANGED <<part, vars, historyVars, uiVars>>

JobsNext ==
    InSession(Next) \/ InHistory(HistoryNext) \/ InInterface(InterfaceNext) \/ InTraining(TrainNext)

\* The fairness of each part, as its module states it.
JobsFairness ==
    /\ \A c \in Callers : WF_all(InSession(CallStep(c)))
    /\ SF_all(InSession(\E c \in Callers : Clear(c)))
    /\ \A g \in Sessions : WF_all(InSession(PollStep(g)))
    /\ WF_all(InHistory(Download)) /\ WF_all(InHistory(Convert)) /\ WF_all(InHistory(ImportFiles))
    /\ WF_all(InInterface(Update))
    /\ \A r \in Runs : WF_all(InTraining(Step(r)))

JobsSpec == JobsInit /\ [][JobsNext]_all /\ JobsFairness

-----------------------------------------------------------------------------
(* Properties: those of the parts, which state their own *)

\* The work that is begun ends: a download that gets only errors, an import on a
\* full disk, a walk-forward whose folds fail (download.go, walkforward.go:214).
WorkEnds == []<>(NoJob /\ NoneInFolds)
=============================================================================

-------------------------------- MODULE Colibri --------------------------------
(***************************************************************************)
(* The Colibri strategy (internal/strategy/colibri): one model for several *)
(* symbols.  Trainings publish models; a live session warms the symbols it *)
(* follows up one after the other, each with the model that SelectModel    *)
(* gives it, then asks for decisions, the symbols concurrently.  A session *)
(* has an instance of its own, which Disconnect shuts down while calls may *)
(* be under way.                                                           *)
(*                                                                         *)
(* A symbol is its rank in alphabetical order; all is of one timeframe.    *)
(***************************************************************************)
EXTENDS Integers, Sequences, FiniteSets, FiniteSetsExt, SequencesExt, Sorting

CONSTANTS
  Followed,      \* the symbols of the session, in the order of the configuration
  Samples,       \* bars a training may be given: [usable, exit] per bar
  ValidPercent, MinValid,
  MaxRuns, LastBar, BufferBars,
  Nothing

ASSUME ColibriAssumption ==
  /\ Followed \in Seq(Nat)
  /\ Samples \subseteq Seq([usable : BOOLEAN, exit : Nat])
  /\ ValidPercent \in 0..100 /\ MinValid \in Nat
  /\ BufferBars \in Nat \ {0}
  /\ Nothing \notin Nat

VARIABLES
  learnt,      \* the rows of the training under way, or Nothing
  runs,        \* the production models, oldest first
  warming,     \* followed symbols still to warm up, or Nothing outside Connect
  connected,
  model,       \* colibri.model: a run, or Nothing
  cache,       \* colibri.prepCache
  series,      \* symbol |-> the engine's buffer, by its first and last bars
  warmed,      \* symbol |-> the run SelectModel gave it, or Nothing
  call,        \* symbol |-> the OnBar under way
  decision     \* symbol |-> the session's last decision, or Nothing

sessionVars == <<warming, connected, model, cache, series, warmed, call, decision>>
colibriVars == <<learnt, runs, sessionVars>>

Traded == Range(Followed)
RunIds == 1..MaxRuns
Missing == 0      \* the category of a symbol the model has not learnt
NoCall == [at |-> "idle", mine |-> Nothing]

-----------------------------------------------------------------------------
(* Training *)

\* The rank of a symbol in the ordered list of categories.
SymbolCode(s, categories) ==
  IF \E i \in DOMAIN categories : categories[i] = s
  THEN CHOOSE i \in DOMAIN categories : categories[i] = s
  ELSE Missing

\* The first row of the validation, or one past the last when there is none.
Cut(n) ==
  LET v == (n * ValidPercent) \div 100
  IN IF n >= 2 * MinValid /\ v >= MinValid THEN n - v + 1 ELSE n + 1

\* A trade that ends on the first bar of the validation is kept.
SplitOneLate(rows) ==
  LET cut == Cut(Len(rows))
  IN [train |-> {r \in 1..cut-1 :
                   ~(cut <= Len(rows) /\ rows[r].exit > rows[cut].bar)},
      valid |-> cut..Len(rows)]

\* The end of the rows validates; a row whose trade ends on or after the first
\* bar that does is purged.
Split(rows) ==
  LET cut == Cut(Len(rows))
  IN [train |-> {r \in 1..cut-1 :
                   ~(cut <= Len(rows) /\ rows[r].exit >= rows[cut].bar)},
      valid |-> cut..Len(rows)]

\* The bars whose features and labels are complete; the exit is the last bar the
\* labels of the two heads have seen.
BuildSet(bars) ==
  LET kept == InOrder({i \in DOMAIN bars : bars[i].usable})
  IN [k \in DOMAIN kept |-> [bar |-> kept[k], exit |-> bars[kept[k]].exit]]

\* Train, for the bars of one symbol of the set: the others are treated alike.
Fit(symbols, bars) ==
  /\ learnt = Nothing /\ Len(runs) < MaxRuns
  /\ BuildSet(bars) # <<>>
  /\ learnt' = [symbols |-> symbols, rows |-> BuildSet(bars), split |-> Split(BuildSet(bars))]
  /\ UNCHANGED <<runs, sessionVars>>

\* The heads, the manifest and the summary are on disk: Training.tla has the
\* order they are written in.
PublishModel ==
  /\ learnt # Nothing
  /\ LET categories == InOrder(learnt.symbols)
     IN runs' = Append(runs,
          [categories |-> categories, files |-> "whole",
           codes |-> [s \in learnt.symbols |-> SymbolCode(s, categories)]])
  /\ learnt' = Nothing
  /\ UNCHANGED sessionVars

\* RemoveAll, half-way and done: the manifest may outlive a head.
Delete(d) ==
  /\ d \in DOMAIN runs /\ runs[d].files # "gone"
  /\ \E left \in {"torn", "gone"} \ {runs[d].files} :
       runs' = [runs EXCEPT ![d].files = left]
  /\ UNCHANGED <<learnt, sessionVars>>

-----------------------------------------------------------------------------
(* A session *)

\* The most recent training that covers the symbol.
Select(s) ==
  LET covering == {d \in DOMAIN runs : runs[d].files # "gone" /\ s \in Range(runs[d].categories)}
  IN IF covering = {} THEN Nothing ELSE Max(covering)

\* keyOf: length, first and last bar.
KeyOf(bars) == <<bars.last - bars.first, bars.first, bars.last>>

\* The code of a symbol for a model: its rank in the manifest.
CodeOf(s, d) == SymbolCode(s, runs[d].categories)

\* The probabilities of a series; `bars` is what they were computed on.
Computed(s, d, bars) == [key |-> KeyOf(bars), model |-> d, code |-> CodeOf(s, d), bars |-> bars]

\* connect: a new instance and a new engine, its buffers seeded from history.
\* Whoever still runs in the former instance is seen no more.
Connect ==
  /\ warming = Nothing /\ ~connected
  /\ warming' = Followed
  /\ model' = Nothing
  /\ cache' = [s \in Traded |-> Nothing] /\ warmed' = [s \in Traded |-> Nothing]
  /\ call' = [s \in Traded |-> NoCall] /\ decision' = [s \in Traded |-> Nothing]
  /\ series' = [s \in Traded |-> [first |-> 1, last |-> 1]]
  /\ UNCHANGED <<learnt, runs, connected>>

\* loadModel: all that the manifest names is there.
Loads(d) == runs[d].files = "whole"

\* Warmup and cachedOrLoad: the model is the instance's, not the symbol's.
Warm ==
  /\ warming # Nothing /\ warming # <<>>
  /\ LET s == Head(warming)
         d == Select(s)
         loads == d = model \/ Loads(d)
     IN /\ IF d = Nothing THEN UNCHANGED <<model, cache, warmed>>
           ELSE /\ model' = IF loads THEN d ELSE Nothing
                /\ warmed' = IF loads THEN [warmed EXCEPT ![s] = d] ELSE warmed
                /\ cache' = IF loads THEN [cache EXCEPT ![s] = Computed(s, d, series[s])]
                            ELSE cache
  /\ warming' = Tail(warming)
  /\ UNCHANGED <<learnt, runs, connected, series, call, decision>>

OpenFeed ==
  /\ warming = <<>>
  /\ warming' = Nothing /\ connected' = TRUE
  /\ UNCHANGED <<learnt, runs, model, cache, series, warmed, call, decision>>

\* The engine appends a bar and calls OnBar, which stops there without a model.
OnBar(s) ==
  /\ connected /\ call[s] = NoCall /\ series[s].last < LastBar
  /\ LET last == series[s].last + 1
     IN series' = [series EXCEPT ![s] =
          [first |-> Max({@.first, last - BufferBars + 1}), last |-> last]]
  /\ call' = IF model = Nothing THEN call ELSE [call EXCEPT ![s].at = "prepare"]
  /\ UNCHANGED <<learnt, runs, warming, connected, model, cache, warmed, decision>>

Answer(s, p, asked) ==
  /\ decision' = [decision EXCEPT ![s] =
       [model |-> p.model, code |-> p.code, bars |-> p.bars, asked |-> asked]]
  /\ call' = [call EXCEPT ![s] = NoCall]

\* prepare, from the reading of the model to the cache's answer.
Prepare(s) ==
  /\ call[s].at = "prepare"
  /\ LET p == cache[s]
         hit == p # Nothing /\ p.key = KeyOf(series[s]) /\ p.model = model
     IN IF hit THEN Answer(s, p, model)
        ELSE /\ call' = [call EXCEPT ![s] =
                  IF model = Nothing THEN NoCall ELSE [at |-> "compute", mine |-> model]]
             /\ UNCHANGED decision
  /\ UNCHANGED <<learnt, runs, warming, connected, model, cache, series, warmed>>

\* The end of prepare, whatever has become of the instance, and the decision.
Compute(s) ==
  /\ call[s].at = "compute"
  /\ LET p == Computed(s, call[s].mine, series[s])
     IN cache' = [cache EXCEPT ![s] = p] /\ Answer(s, p, call[s].mine)
  /\ UNCHANGED <<learnt, runs, warming, connected, model, series, warmed>>

\* Disconnect and Shutdown.
Disconnect ==
  /\ connected
  /\ connected' = FALSE
  /\ model' = Nothing /\ cache' = [s \in Traded |-> Nothing]
  /\ UNCHANGED <<learnt, runs, warming, series, warmed, call, decision>>

ColibriInit ==
  /\ learnt = Nothing /\ runs = <<>>
  /\ warming = Nothing /\ connected = FALSE /\ model = Nothing
  /\ cache = [s \in Traded |-> Nothing] /\ warmed = [s \in Traded |-> Nothing]
  /\ series = [s \in Traded |-> [first |-> 1, last |-> 1]]
  /\ call = [s \in Traded |-> NoCall] /\ decision = [s \in Traded |-> Nothing]

ColibriNext ==
  \/ \E symbols \in (SUBSET Traded) \ {{}}, bars \in Samples : Fit(symbols, bars)
  \/ PublishModel
  \/ \E d \in RunIds : Delete(d)
  \/ Connect \/ Warm \/ OpenFeed \/ Disconnect
  \/ \E s \in Traded : OnBar(s) \/ Prepare(s) \/ Compute(s)

ColibriSpec == ColibriInit /\ [][ColibriNext]_colibriVars

-----------------------------------------------------------------------------
(* Properties *)

\* No row the trees learn from was labelled with a bar that the early stopping
\* is judged on, however many bars were left out between the rows.
TrainsBeforeItValidates ==
  learnt # Nothing =>
    \A r \in learnt.split.train, v \in learnt.split.valid :
      learnt.rows[r].exit < learnt.rows[v].bar

\* A decision rests on the model in force when it was asked and, as long as that
\* model is, on probabilities computed on the very bars it is asked about,
\* whatever the cache holds and however full the buffer is.
FreshProbabilities ==
  \A s \in Traded : decision[s] # Nothing /\ call[s] = NoCall =>
    /\ decision[s].model = decision[s].asked
    /\ model = decision[s].asked => decision[s].bars = series[s]

\* When one training covers all that the session follows, every symbol decides
\* with that model, under the code the trees have learnt it by.
OneModelServesAll ==
  \A d \in DOMAIN runs : (\A s \in Traded : warmed[s] = d) =>
    \A s \in Traded : decision[s] # Nothing =>
      decision[s].model = d /\ decision[s].code = runs[d].codes[s]

\* catalog.go:130-135: SelectModel chooses the model of a symbol in a live
\* session; a symbol that none covers stays silent.
DecidesWithItsModel ==
  \A s \in Traded : decision[s] # Nothing => decision[s].model = warmed[s]

\* A model learns on bars whose trades end before those it is validated on, and a
\* session decides on fresh probabilities, with the codes it was trained with.
ColibriHolds == TrainsBeforeItValidates /\ FreshProbabilities /\ OneModelServesAll
=============================================================================

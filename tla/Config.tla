-------------------------------- MODULE Config --------------------------------
(***************************************************************************)
(* The settings: config.yaml, the GW_* variables, the repair of what a     *)
(* version refuses (config/repair.go, app.LoadConfig), and the draft of    *)
(* the Settings screen (view/settings.go).                                 *)
(*                                                                         *)
(* Five settings stand for all: `mode` and `port`, that a variable may     *)
(* force; `name`, that only the registries can judge; `fixed` and `max`,   *)
(* two sizes of which the first may not exceed the second.  A value is a   *)
(* number: Refused is out of the bounds of every setting, and Garbled      *)
(* cannot be read as a value of its type.                                  *)
(*                                                                         *)
(* `gw` and `gw backtrain` may run at once: each process has loaded its    *)
(* settings and edits a draft of its own.  The copy kept beside a file     *)
(* that is repaired is left out: nothing reads it back.                    *)
(***************************************************************************)
EXTENDS Integers, Sequences, FiniteSetsExt

CONSTANTS
    Procs,
    Files,     \* what the user writes in config.yaml
    Envs,      \* the variables a process may be started with
    MaxSteps,  \* bound on what the user does
    MaxPasses  \* of the repair (repair.go:278)

Keys == {"mode", "port", "name", "fixed", "max"}
EnvKeys == {"mode", "port", "name"}

Kinds == {"none", "empty", "table", "scalar", "broken"}

ASSUME ConfigAssumption ==
    /\ Files \subseteq [kind : Kinds, key : [Keys -> Int], stray : BOOLEAN]
    /\ Envs \subseteq [EnvKeys -> Int]
    /\ MaxPasses \in Nat /\ MaxPasses > Cardinality(Keys) + 1

Garbled == -2
Absent == -1
Refused == 0
Live == 2
Retired == 3
Successor == 2

Default == [k \in Keys |-> IF k \in {"fixed", "max"} THEN 2 ELSE 1]

\* What config.yaml holds: no file, nothing, a table of settings (`stray`: with
\* a key this version does not know), something else, or a syntax error.
Table(key, stray) == [kind |-> "table", key |-> key, stray |-> stray]
Other(kind) == [kind |-> kind, key |-> [k \in Keys |-> Absent], stray |-> FALSE]
Template == Table(Default, FALSE)

VARIABLES
    file,     \* config.yaml
    proc,     \* the processes
    steps,
    typed     \* per setting, the values ever asked for in the file or on the screen

confVars == <<file, proc, steps, typed>>

Off ==
    [pc |-> "off", reload |-> FALSE, env |-> [k \in EnvKeys |-> Absent],
     raw |-> Other("none"), tree |-> Default, changed |-> FALSE,
     ignored |-> {}, reset |-> {}, repairs |-> {}, passes |-> 0,
     next |-> Other("none"), then |-> "off",
     cfg |-> Default, asked |-> Default, draft |-> Default, confirm |-> FALSE]

ConfigInit ==
    /\ file \in Files
    /\ steps = 0
    /\ proc = [p \in Procs |-> Off]
    /\ typed = [k \in Keys |-> {file.key[k]}]

-----------------------------------------------------------------------------
(* Reading *)

Decoded(tree) == [k \in Keys |-> IF tree[k] \in {Absent, Garbled} THEN Default[k] ELSE tree[k]]

\* pruneUnknown: what does not read as its type is put back to the default.
Prune(tree) == [k \in Keys |-> IF tree[k] = Garbled THEN Default[k] ELSE tree[k]]

Forced(env) == {k \in EnvKeys : env[k] # Absent}

\* The variables over the file; one that does not parse is ignored.
Overlaid(r) ==
    [k \in Keys |-> IF k \in Forced(r.env) \ r.ignored /\ r.env[k] # Garbled
                    THEN r.env[k] ELSE Decoded(r.tree)[k]]

\* Config.problems: the refusals, in order, by the settings their sentences cite.
Cited == <<<<"mode">>, <<"port">>, <<"fixed">>, <<"max">>, <<"fixed", "max">>>>
Refuses(c, i) == IF i = 5 THEN c["fixed"] > c["max"] ELSE c[Cited[i][1]] = Refused

Valid(c) == \A i \in 1..5 : ~Refuses(c, i)

\* One refusal: the first setting it cites that was not reset yet goes back to
\* its default, or its variable is ignored.
Mend(r, keys) ==
    LET open == {i \in DOMAIN keys : keys[i] \notin r.reset}
    IN  IF open = {} THEN r
        ELSE LET k == keys[Min(open)]
                 seen == [r EXCEPT !.reset = @ \cup {k}, !.repairs = @ \cup {k}]
             IN  IF k \in Forced(r.env) \ r.ignored
                 THEN [seen EXCEPT !.ignored = @ \cup {k}]
                 ELSE [seen EXCEPT !.tree[k] = Default[k], !.changed = TRUE]

\* The refusals of c, one after the other.
Mended(r, c) ==
    LET After[i \in 0..5] ==
          IF i = 0 THEN r
          ELSE IF Refuses(c, i) THEN Mend(After[i - 1], Cited[i]) ELSE After[i - 1]
    IN  After[5]

-----------------------------------------------------------------------------
(* Load *)

Is(p, pc) == proc[p].pc = pc
Become(p, r) == proc' = [proc EXCEPT ![p] = r]
Budget == steps < MaxSteps /\ steps' = steps + 1


\* os.WriteFile empties config.yaml, then fills it.
Empty == file' = Other("empty")
Writing(r, f, then) == [r EXCEPT !.pc = "writing", !.next = f, !.then = then]

\* config.Load reads the file, and prunes what it does not know.
Read(p, r) ==
    LET table == file.kind = "table"
        garbled == {k \in Keys : file.key[k] = Garbled}
    IN  /\ Become(p, [r EXCEPT
              !.pc = IF file.kind = "broken" THEN "refused" ELSE "build",
              !.raw = file, !.tree = Prune(file.key), !.changed = table /\ (file.stray \/ garbled # {}),
              !.ignored = {}, !.reset = {}, !.passes = 0,
              !.repairs = IF file.kind = "scalar" THEN Keys ELSE garbled,
              !.asked = [k \in Keys |-> IF k \in Forced(r.env) THEN r.env[k] ELSE file.key[k]]])
        /\ file' = IF file.kind \in {"none", "scalar"} THEN Template ELSE file

Launch(p) ==
    /\ Is(p, "off") /\ Budget
    /\ \E env \in Envs : Read(p, [Off EXCEPT !.env = env])
    /\ UNCHANGED typed

\* The key r of the screen.
Reload(p) ==
    /\ Is(p, "running") /\ Budget
    /\ Read(p, [proc[p] EXCEPT !.reload = TRUE])
    /\ UNCHANGED typed

\* Where Load leaves a process: at the registries when it starts.
Loaded(r) == IF r.reload THEN "running" ELSE "registries"

\* A pass of loadRepaired: a table that was repaired is written again.
Pass(p) ==
    LET unread == {k \in Forced(proc[p].env) : proc[p].env[k] = Garbled}
        r == [proc[p] EXCEPT !.ignored = @ \cup unread, !.repairs = @ \cup unread, !.passes = @ + 1]
        c == Overlaid(r)
        mended == Mended(r, c)
        built == [r EXCEPT !.cfg = c, !.draft = c]
    IN  /\ Is(p, "build")
        /\ IF Valid(c) /\ r.changed /\ r.raw.kind = "table"
           THEN Empty /\ Become(p, Writing(built, Table(r.tree, FALSE), Loaded(r)))
           ELSE /\ UNCHANGED file
                /\ Become(p, IF Valid(c) THEN [built EXCEPT !.pc = Loaded(r)]
                             ELSE IF mended.reset = r.reset \/ r.passes = MaxPasses
                             THEN [r EXCEPT !.pc = "refused"]
                             ELSE mended)
        /\ UNCHANGED <<steps, typed>>

\* What the registries make of a name: a retired engine goes to its successor,
\* an unknown one to the default.
KnownName(name) == IF name = Refused THEN Default["name"] ELSE IF name = Retired THEN Successor ELSE name

\* repairRegistries: a name that a variable forces is replaced for this run only.
Fix(p) ==
    LET r == proc[p]
        name == KnownName(r.cfg["name"])
        fixed == [r EXCEPT !.pc = "running", !.cfg["name"] = name, !.draft["name"] = name,
                           !.repairs = IF name = r.cfg["name"] THEN @ ELSE @ \cup {"name"}]
    IN  /\ Is(p, "registries")
        /\ IF name = r.cfg["name"] \/ "name" \in Forced(r.env)
           THEN Become(p, fixed) /\ UNCHANGED file
           ELSE IF file.kind \in {"none", "broken"}
           THEN Become(p, [r EXCEPT !.pc = "refused", !.raw = file]) /\ UNCHANGED file
           ELSE /\ Empty
                /\ Become(p, Writing(fixed, IF file.kind = "scalar" THEN file
                                            ELSE Table([file.key EXCEPT !["name"] = name], file.stray),
                                     "running"))
        /\ UNCHANGED <<steps, typed>>

\* The second half of a write.
Written(p) ==
    /\ Is(p, "writing")
    /\ file' = proc[p].next
    /\ Become(p, [proc[p] EXCEPT !.pc = proc[p].then])
    /\ UNCHANGED <<steps, typed>>

\* An error at start ends the process; one of a reload leaves the draft.
Refuse(p) ==
    /\ Is(p, "refused")
    /\ Become(p, IF proc[p].reload THEN [proc[p] EXCEPT !.pc = "running"] ELSE Off)
    /\ UNCHANGED <<file, steps, typed>>

-----------------------------------------------------------------------------
(* The Settings screen *)

\* A value chosen or typed; the passage to `live` is asked for twice.
Apply(p, k, v) ==
    LET r == proc[p] IN
    IF k = "mode" /\ v = Live /\ ~r.confirm
    THEN Become(p, [r EXCEPT !.confirm = TRUE]) /\ UNCHANGED typed
    ELSE /\ Become(p, [r EXCEPT !.confirm = FALSE, !.draft[k] = v])
         /\ typed' = [typed EXCEPT ![k] = @ \cup {v}]

Edit(p) ==
    /\ Is(p, "running") /\ Budget
    /\ \E k \in Keys \ Forced(proc[p].env), v \in Refused..Retired : Apply(p, k, v)
    /\ UNCHANGED file

\* The key d: a forced setting is not refused here.
RestoreDefault(p) ==
    /\ Is(p, "running") /\ Budget
    /\ \E k \in Keys : Apply(p, k, Default[k])
    /\ UNCHANGED file

\* The mutant: the values in force are written, the variables' included.
SavedInForce(r) == r.draft

\* What Save writes: the file keeps its own value of a forced setting.
Saved(r) == [k \in Keys |-> IF k \in Forced(r.env) THEN Decoded(file.key)[k] ELSE r.draft[k]]

Save(p) ==
    /\ Is(p, "running") /\ Valid(proc[p].draft) /\ Budget
    /\ Empty
    /\ Become(p, Writing(proc[p], Table(Saved(proc[p]), FALSE), "running"))
    /\ UNCHANGED typed

\* The end of a process, asked for or not.
Quit(p) ==
    /\ ~Is(p, "off") /\ Budget
    /\ Become(p, Off)
    /\ UNCHANGED <<file, typed>>

-----------------------------------------------------------------------------
(* The user *)

EditFile ==
    /\ Budget
    /\ file' \in Files
    /\ typed' = [k \in Keys |-> typed[k] \cup {file'.key[k]}]
    /\ UNCHANGED proc

ConfigNext ==
    \/ \E p \in Procs :
         \/ Launch(p) \/ Reload(p) \/ Pass(p) \/ Fix(p) \/ Written(p) \/ Refuse(p)
         \/ Edit(p) \/ RestoreDefault(p) \/ Save(p) \/ Quit(p)
    \/ EditFile

ConfigSpec == ConfigInit /\ [][ConfigNext]_confVars

-----------------------------------------------------------------------------
(* Properties *)

\* A program that starts runs on what its variables and the file it read asked
\* for, or has announced the setting it replaced; and on nothing that this
\* version refuses (docs/architecture.md:242).
NothingSilent ==
    \A p \in Procs : LET r == proc[p] IN
        (Is(p, "running") /\ ~r.reload) =>
            /\ Valid(r.cfg) /\ KnownName(r.cfg["name"]) = r.cfg["name"]
            /\ \A k \in Keys \ r.repairs :
                 r.cfg[k] = IF r.asked[k] = Absent THEN Default[k] ELSE r.asked[k]

\* No value of a variable gets into config.yaml: `GW_MODE=live` of one evening
\* does not arm the next one (config.go:564).
EnvNeverSaved ==
    \A k \in Keys :
        \/ file.key[k] \in typed[k] \cup {Absent, Default[k]}
        \/ k = "name" /\ file.key[k] = Successor /\ Retired \in typed[k]

\* Apart from a syntax error, or a file that goes away during the load, only a
\* variable and a file that are both refused for one setting stop the program
\* (repair.go:16).
LoadsOtherwise ==
    \A p \in Procs : LET r == proc[p] IN
        (Is(p, "refused") /\ r.raw.kind \notin {"none", "broken"}) =>
            \E k \in EnvKeys : {r.env[k], r.raw.key[k]} = {Refused}

\* The file, the variables and the screen together.
ConfigHolds == NothingSilent /\ EnvNeverSaved /\ LoadsOtherwise
=============================================================================

-------------------------------- MODULE History --------------------------------
(***************************************************************************)
(* The history of one pair on disk (internal/data): a file per year, in    *)
(* Parquet or in the older .gwb format, which downloads, conversions and   *)
(* imports write, and which Load reads.                                    *)
(*                                                                         *)
(* A file is written under another name and renamed (parquet.go:92).  That *)
(* name is the same for every writer of the year, so two writers may have  *)
(* one inode open: `fd` says where the inode a writer holds now is.        *)
(*                                                                         *)
(* A year is cut into the units that its source serves, days for Dukascopy *)
(* and weeks for FXCM; of a unit a file holds nothing, the bid, or both    *)
(* sides.  Bars inside a unit, and prices, are left out.                   *)
(***************************************************************************)
EXTENDS Integers, FiniteSets

CONSTANTS
    Years,        \* years asked for
    CurrentYear,
    Units,        \* the units of a year
    Open,         \* those that missingMarketWeeks counts: two working days at least
    Sources,      \* a source: the units that it has, and whether it counts the
                  \* weeks without a bar (FXCM) or the days lost (Dukascopy)
    Concurrency,  \* requests in flight at most
    MaxRetries,   \* attempts of a request
    Shared,       \* the conversion key works while a download runs (view/data.go:179)
    MaxFaults,    \* bound on failed requests, disk errors and crashes
    MaxCommands,  \* bound on the commands
    NoFile

Jobs == {"download", "convert", "import"}
Sides == {"none", "bid", "both"}
Files == [bars: [Units -> Sides], missing: 0..Cardinality(Units), imported: BOOLEAN, torn: BOOLEAN]

ASSUME HistoryAssumption ==
    /\ Years \subseteq Nat
    /\ IsFiniteSet(Units) /\ Open \subseteq Units
    /\ \A s \in Sources : s.published \subseteq Units
    /\ NoFile \notin Files
    /\ Shared \in BOOLEAN

VARIABLES
    source,        \* the source of the configuration
    gwb, parquet,  \* per year, the file of that format, or NoFile
    tmp,           \* per year, the file <year>.parquet.tmp, or NoFile
    task,          \* per kind of job, what it is at
    unit,          \* the year being fetched: per unit, what came of it
    tries,         \* and the attempts of its request
    abandoned,     \* the context of the download is cancelled
    faults, commands

disk == <<gwb, parquet, tmp>>
fetch == <<unit, tries, abandoned>>
historyVars == <<source, disk, task, fetch, faults, commands>>

NoBars == [u \in Units |-> "none"]
Torn == [bars |-> NoBars, missing |-> 0, imported |-> FALSE, torn |-> TRUE]
File(bars, missing, imported) ==
    [bars |-> bars, missing |-> missing, imported |-> imported, torn |-> FALSE]
Unasked == [u \in Units |-> "wait"]
NoTries == [u \in Units |-> 0]
AtRest == [pc |-> "idle", left |-> {}, year |-> CurrentYear, file |-> Torn,
           fd |-> "none", option |-> FALSE]

-----------------------------------------------------------------------------
(* What the files say *)

\* The header of a .gwb is read even when the bars after it are cut.
SaysComplete(f) == f.missing = 0 /\ ~f.imported

\* yearFiles: the Parquet of a year hides its .gwb.
YearFile(y) == IF parquet[y] # NoFile THEN parquet[y] ELSE gwb[y]

NeedsDownload(y) ==
    \/ y >= CurrentYear
    \/ LET header == IF parquet[y] # NoFile /\ ~parquet[y].torn THEN parquet[y] ELSE gwb[y]
       IN  header = NoFile \/ ~SaysComplete(header)

SameSeries(f, g) == ~f.torn /\ ~g.torn /\ f.bars = g.bars

Published == source.published

HistoryInit ==
    /\ source \in Sources
    /\ gwb \in [Years -> {NoFile, [File([u \in Units |-> "both"], 0, FALSE) EXCEPT !.torn = TRUE]}
                         \cup {File(b, Cardinality({u \in Published : b[u] = "none"}), FALSE) :
                                 b \in {[u \in Units |-> IF u \in held THEN "both" ELSE "none"] :
                                          held \in (SUBSET Published) \ {{}}}}]
    /\ \A y \in Years : y >= CurrentYear => gwb[y] = NoFile
    /\ parquet = [y \in Years |-> NoFile]
    /\ tmp = [y \in Years |-> NoFile]
    /\ task = [j \in Jobs |-> AtRest]
    /\ unit = Unasked /\ tries = NoTries
    /\ abandoned = FALSE /\ faults = 0 /\ commands = 0

TaskAt(j, pc) == task[j].pc = pc
Goto(j, pc) == task' = [task EXCEPT ![j].pc = pc]
Fault == faults < MaxFaults /\ faults' = faults + 1

\* The command line runs one command at a time.  In the interface a conversion
\* looks at nothing before it starts.
MayStart(j) ==
    /\ TaskAt(j, "idle")
    /\ (Shared /\ j # "import") \/ \A k \in Jobs : TaskAt(k, "idle")
    /\ commands < MaxCommands
    /\ commands' = commands + 1

StartTask(j, left, option) ==
    task' = [task EXCEPT ![j] = [AtRest EXCEPT !.pc = "next", !.left = left, !.option = option]]

\* The next year of the job, in order; the end of the job after the last.
NextYear(j) == LET l == task[j].left IN CHOOSE y \in l : \A z \in l : y <= z
Pick(j, pc) ==
    [task EXCEPT ![j].pc = pc, ![j].year = NextYear(j), ![j].left = @ \ {NextYear(j)}]
EndTask(j) ==
    /\ TaskAt(j, "next") /\ task[j].left = {}
    /\ task' = [task EXCEPT ![j] = AtRest]
    /\ UNCHANGED <<disk, fetch, faults, commands, source>>

-----------------------------------------------------------------------------
(* WriteSeries *)

Opened(y, where) == {j \in Jobs : task[j].fd = where /\ task[j].year = y}
Moved(y, from, to) ==
    [j \in Jobs |-> IF j \in Opened(y, from) THEN [task[j] EXCEPT !.fd = to] ELSE task[j]]

\* os.Create truncates the file another writer may have open.
Create(j) ==
    /\ TaskAt(j, "create")
    /\ tmp' = [tmp EXCEPT ![task[j].year] = Torn]
    /\ task' = [task EXCEPT ![j].pc = "write", ![j].fd = "tmp"]
    /\ UNCHANGED <<gwb, parquet, fetch, faults, commands, source>>

\* Two writers of one inode may leave a mixture.
Written(j, f) ==
    LET others == {k \in Opened(task[j].year, task[j].fd) \ {j} : TaskAt(k, "write")}
    IN  IF f = Torn /\ others = {} THEN {task[j].file} ELSE {task[j].file, Torn}

Write(j) ==
    LET y == task[j].year
    IN  /\ TaskAt(j, "write")
        /\ CASE task[j].fd = "tmp" ->
                  (\E f \in Written(j, tmp[y]) : tmp' = [tmp EXCEPT ![y] = f]) /\ UNCHANGED parquet
             [] task[j].fd = "target" ->
                  (\E f \in Written(j, parquet[y]) : parquet' = [parquet EXCEPT ![y] = f]) /\ UNCHANGED tmp
             [] OTHER -> UNCHANGED <<parquet, tmp>>
        /\ Goto(j, "rename")
        /\ UNCHANGED <<gwb, fetch, faults, commands, source>>

Rename(j) ==
    LET y == task[j].year
        moved == [k \in Jobs |-> CASE k \in Opened(y, "target") -> [task[k] EXCEPT !.fd = "gone"]
                                   [] k \in Opened(y, "tmp") -> [task[k] EXCEPT !.fd = "target"]
                                   [] OTHER -> task[k]]
    IN  /\ TaskAt(j, "rename")
        /\ IF tmp[y] = NoFile
           THEN Goto(j, "failed") /\ UNCHANGED <<parquet, tmp>>
           ELSE /\ parquet' = [parquet EXCEPT ![y] = tmp[y]]
                /\ tmp' = [tmp EXCEPT ![y] = NoFile]
                /\ task' = [moved EXCEPT ![j].pc = "clean"]
        /\ UNCHANGED <<gwb, fetch, faults, commands, source>>

DiskError(j) ==
    /\ TaskAt(j, "create") \/ TaskAt(j, "write")
    /\ Fault
    /\ Goto(j, "failed")
    /\ UNCHANGED <<disk, fetch, commands, source>>

\* The deferred removal takes whatever file has that name by then.
Clean(j) ==
    LET y == task[j].year
    IN  /\ TaskAt(j, "clean") \/ TaskAt(j, "failed")
        /\ tmp' = [tmp EXCEPT ![y] = NoFile]
        /\ task' = [Moved(y, "tmp", "gone") EXCEPT
                     ![j].fd = "none",
                     ![j].pc = CASE j = "convert" /\ TaskAt(j, "clean") -> "verify"
                                 [] j = "import" /\ TaskAt(j, "failed") -> "refused"
                                 [] OTHER -> "next"]
        /\ UNCHANGED <<gwb, parquet, fetch, faults, commands, source>>

-----------------------------------------------------------------------------
(* The download *)

StartDownload ==
    /\ MayStart("download")
    /\ StartTask("download", Years, FALSE)
    /\ abandoned' = FALSE
    /\ UNCHANGED <<disk, unit, tries, faults, source>>

\* The key x, or Ctrl+C.
CancelDownload ==
    /\ ~TaskAt("download", "idle") /\ ~abandoned
    /\ abandoned' = TRUE
    /\ UNCHANGED <<disk, task, unit, tries, faults, commands, source>>

NextDownload ==
    /\ TaskAt("download", "next") /\ task["download"].left # {}
    /\ IF abandoned
       THEN task' = [task EXCEPT !["download"] = AtRest]
       ELSE task' = Pick("download", IF NeedsDownload(NextYear("download")) THEN "fetch" ELSE "next")
    /\ unit' = Unasked /\ tries' = NoTries
    /\ UNCHANGED <<disk, abandoned, faults, commands, source>>

InFlight == {u \in Units : unit[u] = "asked"}
Settled == \A u \in Units : unit[u] \in {"none", "bid", "both", "lost"}

Ask(u) ==
    /\ TaskAt("download", "fetch") /\ unit[u] = "wait"
    /\ Cardinality(InFlight) < Concurrency
    /\ unit' = [unit EXCEPT ![u] = "asked"]
    /\ tries' = [tries EXCEPT ![u] = 1]
    /\ UNCHANGED <<disk, task, abandoned, faults, commands, source>>

\* httpGet: a 404 says that there is nothing; the ask of a unit is a request of
\* its own, whose failure costs the ask only.
Answer(u) ==
    /\ TaskAt("download", "fetch") /\ u \in InFlight
    /\ \/ u \notin Published /\ unit' = [unit EXCEPT ![u] = "none"] /\ UNCHANGED faults
       \/ u \in Published /\ unit' = [unit EXCEPT ![u] = "both"] /\ UNCHANGED faults
       \/ u \in Published /\ ~source.byWeek /\ unit' = [unit EXCEPT ![u] = "bid"] /\ Fault
    /\ UNCHANGED <<disk, task, tries, abandoned, commands, source>>

\* 429, 5xx or the network: tried again, MaxRetries times in all.
Retry(u) ==
    /\ TaskAt("download", "fetch") /\ u \in InFlight
    /\ IF tries[u] = 1 THEN Fault ELSE UNCHANGED faults
    /\ IF tries[u] < MaxRetries
       THEN tries' = [tries EXCEPT ![u] = @ + 1] /\ UNCHANGED unit
       ELSE unit' = [unit EXCEPT ![u] = "lost"] /\ UNCHANGED tries
    /\ UNCHANGED <<disk, task, abandoned, commands, source>>

\* Any other status, a payload too large or one that cannot be decoded.
Lose(u) ==
    /\ TaskAt("download", "fetch") /\ u \in InFlight
    /\ Fault
    /\ unit' = [unit EXCEPT ![u] = "lost"]
    /\ UNCHANGED <<disk, task, tries, abandoned, commands, source>>

\* The mutant: the units lost are dropped like the 404s.
MissingNone == 0

\* What FetchYear counts as missing: the days lost, or the market weeks without a bar.
Missing ==
    Cardinality(IF source.byWeek THEN {u \in Open : unit[u] \notin {"bid", "both"}}
                          ELSE {u \in Units : unit[u] = "lost"})

EndFetch ==
    LET bars == [u \in Units |-> IF unit[u] \in Sides THEN unit[u] ELSE "none"]
    IN  /\ TaskAt("download", "fetch") /\ Settled /\ ~abandoned
        /\ task' = [task EXCEPT !["download"] =
                     IF bars = NoBars THEN [@ EXCEPT !.pc = "next"]
                     ELSE [@ EXCEPT !.pc = "create", !.file = File(bars, Missing, FALSE)]]
        /\ unit' = Unasked /\ tries' = NoTries
        /\ UNCHANGED <<disk, abandoned, faults, commands, source>>

\* The context is cancelled: every request returns, nothing is written.
Abandon ==
    /\ TaskAt("download", "fetch") /\ abandoned
    /\ task' = [task EXCEPT !["download"] = AtRest]
    /\ unit' = Unasked /\ tries' = NoTries
    /\ UNCHANGED <<disk, abandoned, faults, commands, source>>

-----------------------------------------------------------------------------
(* The conversion of the .gwb files *)

StartConvert ==
    /\ MayStart("convert")
    /\ \E remove \in IF Shared THEN {FALSE} ELSE BOOLEAN :
         StartTask("convert", {y \in Years : gwb[y] # NoFile}, remove)
    /\ UNCHANGED <<disk, fetch, faults, source>>

\* The mutant: a Parquet that is there is not looked at.
NextConvertBlind ==
    /\ TaskAt("convert", "next") /\ task["convert"].left # {}
    /\ task' = [Pick("convert", IF gwb[NextYear("convert")].torn THEN "next" ELSE "create")
                 EXCEPT !["convert"].file = gwb[NextYear("convert")]]
    /\ UNCHANGED <<disk, fetch, faults, commands, source>>

\* A Parquet of the year that holds something else makes the file skipped.
NextConvert ==
    /\ TaskAt("convert", "next") /\ task["convert"].left # {}
    /\ LET y == NextYear("convert")
           old == gwb[y]
       IN  task' = [Pick("convert", IF old.torn THEN "next"
                                   ELSE IF parquet[y] = NoFile THEN "create"
                                   ELSE IF SameSeries(old, parquet[y]) THEN "verify"
                                   ELSE "next")
                     EXCEPT !["convert"].file = old]
    /\ UNCHANGED <<disk, fetch, faults, commands, source>>

\* The file written is read again; only then may its source go.
Verify ==
    LET y == task["convert"].year
        good == /\ parquet[y] # NoFile
                /\ SameSeries(task["convert"].file, parquet[y])
                /\ task["convert"].file.missing = parquet[y].missing
    IN  /\ TaskAt("convert", "verify")
        /\ gwb' = IF good /\ task["convert"].option THEN [gwb EXCEPT ![y] = NoFile] ELSE gwb
        /\ Goto("convert", "next")
        /\ UNCHANGED <<parquet, tmp, fetch, faults, commands, source>>

-----------------------------------------------------------------------------
(* The import *)

Present(y) == parquet[y] # NoFile \/ gwb[y] # NoFile

\* Every file is read, and every year looked for, before the first is written.
StartImport ==
    /\ MayStart("import")
    /\ \E years \in (SUBSET Years) \ {{}}, readable, replace \in BOOLEAN :
         IF readable /\ (replace \/ \A y \in years : ~Present(y))
         THEN StartTask("import", years, replace)
         ELSE UNCHANGED task
    /\ UNCHANGED <<disk, fetch, faults, source>>

NextImport ==
    /\ TaskAt("import", "next") /\ task["import"].left # {}
    /\ task' = [Pick("import", "create") EXCEPT
                 !["import"].file = File([u \in Units |-> "bid"], 0, TRUE)]
    /\ UNCHANGED <<disk, fetch, faults, commands, source>>

\* An error ends the import where it stands: the years before stay written.
RefuseImport ==
    /\ TaskAt("import", "refused")
    /\ task' = [task EXCEPT !["import"] = AtRest]
    /\ UNCHANGED <<disk, fetch, faults, commands, source>>

-----------------------------------------------------------------------------

\* The process is killed: what it was writing keeps its temporary name.
Crash ==
    /\ \E j \in Jobs : ~TaskAt(j, "idle")
    /\ Fault
    /\ task' = [j \in Jobs |-> AtRest]
    /\ unit' = Unasked /\ tries' = NoTries
    /\ abandoned' = FALSE
    /\ UNCHANGED <<disk, commands, source>>

Requests == \E u \in Units : Ask(u) \/ Answer(u) \/ Retry(u) \/ Lose(u)
Writes(j) == Create(j) \/ Write(j) \/ Rename(j) \/ DiskError(j) \/ Clean(j)
Download == Requests \/ NextDownload \/ EndFetch \/ Abandon \/ Writes("download") \/ EndTask("download")
Convert == NextConvert \/ Verify \/ Writes("convert") \/ EndTask("convert")
ImportFiles == NextImport \/ RefuseImport \/ Writes("import") \/ EndTask("import")

HistoryNext ==
    \/ StartDownload \/ StartConvert \/ StartImport
    \/ Download \/ Convert \/ ImportFiles
    \/ CancelDownload \/ Crash

\* A request ends at its time-out if not before, and the work of a job goes on.
HistoryFairness == WF_historyVars(Download) /\ WF_historyVars(Convert) /\ WF_historyVars(ImportFiles)

HistorySpec == HistoryInit /\ [][HistoryNext]_historyVars /\ HistoryFairness

-----------------------------------------------------------------------------
(* Properties *)

\* The files, the jobs and the requests keep their types.
HistoryTypeOK ==
    /\ gwb \in [Years -> Files \cup {NoFile}]
    /\ parquet \in [Years -> Files \cup {NoFile}]
    /\ tmp \in [Years -> Files \cup {NoFile}]
    /\ \A j \in Jobs : task[j].year \in Years /\ task[j].left \subseteq Years /\ task[j].file \in Files
    /\ unit \in [Units -> {"wait", "asked", "lost"} \cup Sides]
    /\ tries \in [Units -> 0..MaxRetries]
    /\ Cardinality(InFlight) <= Concurrency

\* Whatever is killed, and wherever, the Parquet of a year is whole: an
\* interruption leaves the old file (parquet.go:87).
NeverTorn == \A y \in Years : parquet[y] # NoFile => ~parquet[y].torn

\* A downloaded or converted year that calls itself complete, and that no
\* download will ask for again, holds every unit that the source has
\* (FileHeader.Failures, store.go:46).
HonestlyComplete ==
    \A y \in Years :
        parquet[y] # NoFile /\ ~parquet[y].torn /\ SaysComplete(parquet[y])
        => \A u \in Published : parquet[y].bars[u] # "none"

\* A conversion never changes what Load finds in a year, nor whether the year is
\* complete; neither does an import that was not told to replace (migrate.go:137,
\* migrate.go:292).
YearsKept ==
    \A j \in {"convert", "import"}, y \in Years :
        task'[j].pc # task[j].pc /\ ~(j = "import" /\ task[j].option) /\ YearFile(y) # NoFile
        => YearFile(y)' = YearFile(y)
KeepsHistory == [][YearsKept]_historyVars

\* The jobs that are started all end: a source that answers nothing but errors,
\* a cancellation and a full disk included.
NoJob == \A j \in Jobs : TaskAt(j, "idle")

\* The years on disk are whole, and one that calls itself complete holds all that
\* its source has (parquet.go, WriteSeries; download.go).
HistoryHolds == NeverTorn /\ HonestlyComplete
=============================================================================

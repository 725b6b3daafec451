------------------------------- MODULE Interface -------------------------------
(***************************************************************************)
(* The terminal interface (internal/tui): the screens of `gw` or of        *)
(* `gw backtrain`, the keys, and the jobs that the screens start.          *)
(*                                                                         *)
(* A job runs in a goroutine of its own and talks to its screen through    *)
(* one channel, which drops what it has no room for (tui.go:108).  A       *)
(* listener takes a message from the channel and hands it to Update, which *)
(* starts the next listener.  A screen shows a job as running from the key *)
(* that starts it to the message that ends it, not for as long as the      *)
(* goroutine lives.                                                        *)
(***************************************************************************)
EXTENDS Integers, Sequences, FiniteSets

CONSTANTS
    Pairs,
    Tradable,   \* the pairs that the account's currency can size
    Cap,        \* room in the channel (256 in the code)
    MaxKeys,    \* bound on the keys typed
    MaxForeign, \* bound on the terminal's own messages (a sequence bubbletea
                \* does not know, say), which look like a job's (tui.go:226)
    Nothing

Screens(m) ==
    IF m = "backtrain" THEN <<"data", "training", "backtest", "settings">>
                       ELSE <<"live", "journal", "settings">>

\* A job, and the screen that starts it.
HomeOf == [download |-> "data", convert |-> "data", training |-> "training",
           backtest |-> "backtest", connect |-> "live"]
Work == DOMAIN HomeOf

VARIABLES
    window,     \* the screens, the one shown, whether the help covers it, the
                \* screens in the middle of an input, how the program was left
    queue,      \* the channel
    listeners,
    job,        \* what each goroutine is at
    busy,       \* the jobs that their screen shows as running
    lost,       \* the jobs whose end was dropped
    picker,     \* the pair picker, or Nothing
    pairs,      \* the pairs of the next walk-forward
    test,       \* the Backtest screen: the pair under the cursor, the one being
                \* replayed, the one of the last result
    exported,   \* the exports: the pair named, and the pair replayed
    connected,
    keys, foreign

channel == <<queue, listeners>>
jobs == <<job, busy, lost>>
picking == <<picker, pairs>>
testing == <<test, exported>>
uiVars == <<window, channel, jobs, picking, testing, connected, keys, foreign>>

InterfaceInit ==
    /\ window \in {[screens |-> Screens(m), active |-> Screens(m)[1], help |-> FALSE,
                    capture |-> {}, quit |-> "no"] : m \in {"trading", "backtrain"}}
    /\ queue = <<>> /\ listeners = 1
    /\ job = [w \in Work |-> "none"] /\ busy = {} /\ lost = {}
    /\ picker = Nothing /\ pairs = Pairs
    /\ test \in [cursor : Tradable, replayed : {Nothing}, result : {Nothing}] /\ exported = {}
    /\ connected = FALSE
    /\ keys = 0 /\ foreign = 0

Running == window.quit = "no"
Captured(screen) == screen \in window.capture
Free == ~window.help /\ ~Captured(window.active)
Key == Running /\ keys < MaxKeys /\ keys' = keys + 1
\* A command key of a screen: shown, not under the help, in no input.
KeyOf(screen) == Key /\ window.active = screen /\ Free
InputOf(screen) == Key /\ window.active = screen /\ ~window.help /\ Captured(screen)

\* Deps.Status and Deps.Emit: what finds no room is dropped.
With(q, m) == IF Len(q) < Cap THEN Append(q, m) ELSE q
Status == <<"status", Nothing, Nothing>>
Say == queue' = With(queue, Status) /\ UNCHANGED listeners
Capture(screen) == window' = [window EXCEPT !.capture = @ \cup {screen}]
Release(screen) == window' = [window EXCEPT !.capture = @ \ {screen}]

-----------------------------------------------------------------------------
(* The keys of the window: globalKey, helpKey *)

\* The mutant: only the screen shown is asked.
ShownIdle == \A w \in busy : HomeOf[w] # window.active

NoneBusy == busy = {}

Quit ==
    /\ Key /\ Free /\ NoneBusy
    /\ window' = [window EXCEPT !.quit = "q"]
    /\ UNCHANGED <<channel, jobs, picking, testing, connected, foreign>>

\* ctrl+c asks nothing.
ForceQuit ==
    /\ Key
    /\ window' = [window EXCEPT !.quit = "ctrl+c"]
    /\ UNCHANGED <<channel, jobs, picking, testing, connected, foreign>>

Show ==
    /\ Key /\ Free
    /\ \E i \in DOMAIN window.screens : window' = [window EXCEPT !.active = window.screens[i]]
    /\ UNCHANGED <<channel, jobs, picking, testing, connected, foreign>>

\* The help opens over a screen that takes no input, and keeps every key.
Help ==
    /\ Key /\ (window.help \/ Free)
    /\ window' = [window EXCEPT !.help = ~@]
    /\ UNCHANGED <<channel, jobs, picking, testing, connected, foreign>>

\* The filter of the journal and the field of the settings: a text, up to
\* enter or escape.
Type(screen) ==
    /\ \/ KeyOf(screen) /\ Capture(screen) /\ UNCHANGED channel
       \/ InputOf(screen) /\ Release(screen) /\ Say
    /\ UNCHANGED <<jobs, picking, testing, connected, foreign>>

-----------------------------------------------------------------------------
(* Jobs *)

\* A screen keeps no trace of the conversion, and would start a second one: the
\* one here stands for both.
Start(w) ==
    /\ w \notin busy /\ job[w] = "none"
    /\ job' = [job EXCEPT ![w] = "works"]
    /\ busy' = IF w = "convert" THEN busy ELSE busy \cup {w}
    /\ lost' = lost \ {w}
    /\ Say

\* startDownload, migrate, and Training.run, which needs a pair.
StartJob(w) ==
    /\ KeyOf(HomeOf[w]) /\ (w = "training" => pairs # {})
    /\ Start(w)
    /\ UNCHANGED <<window, picking, testing, connected, foreign>>

\* Backtest.run forgets the last result.
StartBacktest ==
    /\ KeyOf("backtest") /\ Start("backtest")
    /\ test' = [test EXCEPT !.replayed = test.cursor, !.result = Nothing]
    /\ UNCHANGED <<window, picking, exported, connected, foreign>>

\* The key x cancels the context: the job is told, and ends when it can.
Interrupt(w) ==
    /\ KeyOf(HomeOf[w]) /\ w \in busy /\ Say
    /\ job' = [job EXCEPT ![w] = IF @ = "works" THEN "cancelled" ELSE @]
    /\ UNCHANGED <<window, busy, lost, picking, testing, connected, foreign>>

Alive(w) == job[w] # "none"

\* What a job says while it works.
Progress(w) ==
    /\ Running /\ Alive(w) /\ Len(queue) < Cap
    /\ queue' = With(queue, <<"progress", w, Nothing>>)
    /\ UNCHANGED <<window, listeners, jobs, picking, testing, connected, keys, foreign>>

\* The end of a job: the conversion says it twice, as a status and as JobDone.
JobEnds(w) ==
    LET said == IF w = "convert" THEN With(queue, Status) ELSE queue IN
    /\ Running /\ Alive(w)
    /\ job' = [job EXCEPT ![w] = "none"]
    /\ \E result \in {Nothing} \cup (IF w = "backtest" THEN {test.replayed} ELSE {}) :
         queue' = With(said, <<"done", w, result>>)
    /\ lost' = IF Len(said) < Cap THEN lost ELSE lost \cup {w}
    /\ connected' \in IF w = "connect" THEN BOOLEAN ELSE {connected}
    /\ UNCHANGED <<window, listeners, busy, picking, testing, keys, foreign>>

-----------------------------------------------------------------------------
(* The loop: Update *)

\* The mutant: a message of a job goes to the screen shown.
TakeShown(m) ==
    IF m[1] = "done" /\ HomeOf[m[2]] = window.active
    THEN /\ busy' = busy \ {m[2]}
         /\ test' = IF m[2] = "backtest" THEN [test EXCEPT !.result = m[3]] ELSE test
         /\ queue' = IF m[2] = "convert" THEN Tail(queue) ELSE With(Tail(queue), Status)
    ELSE queue' = Tail(queue) /\ UNCHANGED <<busy, test>>

\* What the screens make of a message: a job's goes to every screen.
Take(m) ==
    IF m[1] = "done"
    THEN /\ busy' = busy \ {m[2]}
         /\ test' = IF m[2] = "backtest" THEN [test EXCEPT !.result = m[3]] ELSE test
         /\ queue' = IF m[2] = "convert" THEN Tail(queue) ELSE With(Tail(queue), Status)
    ELSE queue' = Tail(queue) /\ UNCHANGED <<busy, test>>

\* A listener hands over the head of the channel, and Update listens again.
Update ==
    /\ Running /\ listeners > 0 /\ queue # <<>>
    /\ Take(Head(queue))
    /\ UNCHANGED <<window, listeners, job, lost, picking, exported, connected, keys, foreign>>

\* A message of the terminal passes for a job's: one more listener.
Foreign ==
    /\ Running /\ foreign < MaxForeign
    /\ foreign' = foreign + 1 /\ listeners' = listeners + 1
    /\ UNCHANGED <<window, queue, jobs, picking, testing, connected, keys>>

-----------------------------------------------------------------------------
(* The pair picker, over the Training screen *)

Shown == IF picker.mask THEN picker.filter \cap Tradable ELSE picker.filter

OpenPicker ==
    /\ KeyOf("training")
    /\ picker' = [checked |-> pairs, filter |-> Pairs, mask |-> TRUE]
    /\ Capture("training")
    /\ UNCHANGED <<channel, jobs, pairs, testing, connected, foreign>>

\* Space, a, n and i work on what the filter leaves; n on what the mask hides too.
Check ==
    /\ InputOf("training")
    /\ \E checked \in {picker.checked \cup Shown, picker.checked \ picker.filter,
                       (picker.checked \ Shown) \cup (Shown \ picker.checked)}
                      \cup {(picker.checked \ {s}) \cup ({s} \ picker.checked) : s \in Shown} :
         picker' = [picker EXCEPT !.checked = checked]
    /\ UNCHANGED <<window, channel, jobs, pairs, testing, connected, foreign>>

Filter ==
    /\ InputOf("training")
    /\ \/ \E some \in SUBSET Pairs : picker' = [picker EXCEPT !.filter = some]
       \/ picker' = [picker EXCEPT !.mask = ~@]
    /\ UNCHANGED <<window, channel, jobs, pairs, testing, connected, foreign>>

\* Enter needs a pair; escape drops the filter first.
ClosePicker ==
    /\ InputOf("training")
    /\ \/ picker.checked # {} /\ pairs' = picker.checked /\ Say
       \/ picker.filter = Pairs /\ UNCHANGED <<pairs, channel>>
    /\ picker' = Nothing /\ Release("training")
    /\ UNCHANGED <<jobs, testing, connected, foreign>>

-----------------------------------------------------------------------------
(* The Backtest and the Live screens *)

MoveCursor ==
    /\ KeyOf("backtest")
    /\ \E p \in Pairs : test' = [test EXCEPT !.cursor = p]
    /\ UNCHANGED <<window, channel, jobs, picking, exported, connected, foreign>>

\* The three files are named after the pair under the cursor.  The disk may
\* refuse them.
Export ==
    /\ KeyOf("backtest") /\ test.result # Nothing
    /\ exported' \in {exported, exported \cup {<<test.cursor, test.result>>}}
    /\ Say
    /\ UNCHANGED <<window, jobs, picking, test, connected, foreign>>

\* The key c: a connection is not asked for twice; one that engages money asks
\* for the account first.
Connection(real) ==
    /\ KeyOf("live") /\ "connect" \notin busy
    /\ IF connected THEN connected' = FALSE /\ Say /\ UNCHANGED <<window, jobs>>
       ELSE IF real THEN Capture("live") /\ Say /\ UNCHANGED <<jobs, connected>>
       ELSE Start("connect") /\ UNCHANGED <<window, connected>>
    /\ UNCHANGED <<picking, testing, foreign>>

Account ==
    /\ InputOf("live")
    /\ Release("live")
    /\ Start("connect") \/ (Say /\ UNCHANGED jobs)
    /\ UNCHANGED <<picking, testing, connected, foreign>>

-----------------------------------------------------------------------------
InterfaceNext ==
    \/ Quit \/ ForceQuit \/ Show \/ Help
    \/ \E screen \in {"journal", "settings"} : Type(screen)
    \/ \E w \in {"download", "convert", "training"} : StartJob(w)
    \/ \E w \in {"download", "training", "backtest"} : Interrupt(w)
    \/ \E w \in {"download", "training"} : Progress(w)
    \/ \E w \in Work : JobEnds(w)
    \/ StartBacktest \/ Update \/ Foreign
    \/ OpenPicker \/ Check \/ Filter \/ ClosePicker
    \/ MoveCursor \/ Export \/ Account \/ \E real \in BOOLEAN : Connection(real)

\* The loop of the terminal goes on.
InterfaceSpec == InterfaceInit /\ [][InterfaceNext]_uiVars /\ WF_uiVars(Update)

-----------------------------------------------------------------------------
(* Properties *)

\* `q` never ends a download, a training, a backtest or a connection: their
\* screen is busy for as long as they live, whatever is shown (tui.go:252).  A
\* conversion is not a work that it knows.
QSparesWork == window.quit = "q" => \A w \in Work \ {"convert"} : ~Alive(w)

\* The jobs that have ended all come to be shown as ended, whatever screen is
\* shown, unless the channel had no room for their end (tui.go:208).
EndsShown == Running => \A w \in busy : Alive(w) \/ w \in lost
EndIsShown == []<>EndsShown

\* An export is named after the pair that was replayed.  The code does not keep it
\* (README).
ExportNamesItsResult == \A e \in exported : e[1] = e[2]
=============================================================================

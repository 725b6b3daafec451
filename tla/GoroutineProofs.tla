----------------------------- MODULE GoroutineProofs -----------------------------
(***************************************************************************)
(* Theorems about the works of one process beside the trading: the callers *)
(* that connect and disconnect the runtime (Session), the works the        *)
(* screens start and the channel they report to (Interface), the training  *)
(* runs, replays and deletions that meet in models/ (Training), and the    *)
(* downloads, conversions and imports of the history on disk (History).    *)
(* They share no state.                                                    *)
(***************************************************************************)
EXTENDS Session, Interface, Training, History, FiniteSetTheorems, WellFoundedInduction, TLAPS

-----------------------------------------------------------------------------
(* Session, for every number of callers, calls and sessions: its typing, and
   that no gateway is connected out of the runtime's sight *)

\* What connMu guards: who works on the connection holds it, the runtime has no
\* session meanwhile, and a caller only has the gateway it opens or closes.
Custody ==
    \A c \in Callers :
        /\ caller[c].stage \notin {"idle", "lock"} => connMu = c
        /\ caller[c].stage \in {"idle", "lock", "drop", "clear", "dial"} => caller[c].gw = 0
        /\ caller[c].stage \in {"hangup", "subscribe", "install"} => caller[c].gw \in 1..sessions
        /\ caller[c].stage \in {"hangup", "clear", "dial", "subscribe", "install"} => gateway = 0

SessionIInv == TypeOK /\ Custody /\ NoOrphan

-----------------------------------------------------------------------------
(* Typing *)

LEMMA SessionValues == Resting \in Calling /\ Waiting \in Polls /\ NoFigures \in Showing
  BY SessionAssumption DEF Resting, Waiting, NoFigures, Calling, Polls, Showing, Stages

LEMMA SessionInitTypes == Init => TypeOK
  <1> SUFFICES ASSUME Init PROVE TypeOK
    OBVIOUS
  <1>1. caller \in [Callers -> Calling]
    BY SessionValues DEF Init
  <1>2. [Waiting EXCEPT !.stage = "off"] \in Polls
    BY SessionValues DEF Polls
  <1>3. poll \in [Sessions -> Polls]
    BY <1>2 DEF Init
  <1> QED BY <1>1, <1>3, SessionValues, SessionAssumption DEF Init, TypeOK

LEMMA CallTypes ==
    ASSUME TypeOK, Custody, NEW c \in Callers, CallStep(c)
    PROVE  TypeOK'
  <1>0. /\ caller[c] \in Calling /\ caller \in [Callers -> Calling]
        /\ poll \in [Sessions -> Polls] /\ accMu \in 0..MaxSessions /\ shown \in Showing
        /\ sessions \in 0..MaxSessions /\ gateway \in 0..sessions
    BY DEF TypeOK
  <1>a. ASSUME NEW r \in Calling, caller' = [caller EXCEPT ![c] = r]
        PROVE  caller' \in [Callers -> Calling]
    BY <1>a, <1>0
  <1>b. ASSUME NEW stage \in Stages, Go(c, stage)
        PROVE  caller' \in [Callers -> Calling]
    <2>1. [caller[c] EXCEPT !.stage = stage] \in Calling
      BY <1>0 DEF Calling
    <2> QED BY <2>1, <1>a, <1>b DEF Go
  <1>c. ASSUME Return(c)
        PROVE  caller' \in [Callers -> Calling] /\ connMu' = None
    BY <1>a, <1>c, SessionValues DEF Return
  <1>d. ASSUME NEW stage \in Stages, NEW gw \in 0..MaxSessions,
               caller' = [caller EXCEPT ![c].gw = gw, ![c].stage = stage]
        PROVE  caller' \in [Callers -> Calling]
    <2>1. [caller[c] EXCEPT !.gw = gw, !.stage = stage] \in Calling
      BY <1>0 DEF Calling
    <2>2. caller' = [caller EXCEPT ![c] = [caller[c] EXCEPT !.gw = gw, !.stage = stage]]
      BY <1>d, <1>0 DEF Calling
    <2> QED BY <2>1, <2>2, <1>a
  <1>e. {"lock", "drop", "hangup", "clear", "dial", "subscribe", "install"} \subseteq Stages
    BY DEF Stages
  <1>1. CASE Lock(c)
    <2>1. caller' \in [Callers -> Calling]
      BY <1>1, <1>b, <1>e DEF Lock
    <2> QED BY <2>1, <1>1 DEF Lock, pollVars, TypeOK
  <1>2. CASE Drop(c)
    <2>1. caller' \in [Callers -> Calling]
      <3> DEFINE stage == IF gateway = 0 THEN "clear" ELSE "hangup"
      <3>1. stage \in Stages /\ gateway \in 0..MaxSessions
        BY <1>0, <1>e, SessionAssumption
      <3> QED BY <3>1, <1>2, <1>d, Zenon DEF Drop
    <2> QED BY <2>1, <1>2, SessionAssumption DEF Drop, pollVars, TypeOK
  <1>3. CASE HangUp(c)
    <2>1. caller' \in [Callers -> Calling]
      <3>1. "clear" \in Stages /\ 0 \in 0..MaxSessions
        BY <1>e, SessionAssumption
      <3> QED BY <3>1, <1>3, <1>d, Zenon DEF HangUp
    <2> QED BY <2>1, <1>3 DEF HangUp, pollVars, TypeOK
  <1>4. CASE Clear(c)
    <2>1. caller' \in [Callers -> Calling] /\ connMu' \in Callers \cup {None}
      BY <1>4, <1>b, <1>c, <1>e DEF Clear, TypeOK
    <2> QED BY <2>1, <1>4, SessionValues DEF Clear, TypeOK
  <1>5. CASE Dial(c)
    <2>1. CASE Return(c) /\ UNCHANGED <<sessions, up>>
      BY <1>5, <2>1, <1>c DEF Dial, pollVars, TypeOK
    <2>2. CASE /\ sessions < MaxSessions /\ sessions' = sessions + 1
               /\ up' = up \cup {sessions'} /\ UNCHANGED connMu
               /\ caller' = [caller EXCEPT ![c].gw = sessions', ![c].stage = "subscribe"]
      <3>1. sessions' \in 1..MaxSessions /\ 0..sessions \subseteq 0..sessions'
        BY <2>2, <1>0, SessionAssumption
      <3>2. caller' \in [Callers -> Calling]
        <4>1. "subscribe" \in Stages /\ sessions' \in 0..MaxSessions
          BY <3>1, <1>e, SessionAssumption
        <4> QED BY <4>1, <2>2, <1>d, Zenon
      <3> QED BY <3>1, <3>2, <1>5, <2>2, SessionAssumption DEF Dial, pollVars, TypeOK
    <2> QED BY <1>5, <2>1, <2>2 DEF Dial
  <1>6. CASE SubscribeGateway(c)
    <2>1. caller' \in [Callers -> Calling] /\ connMu' \in Callers \cup {None}
      BY <1>6, <1>b, <1>c, <1>e DEF SubscribeGateway, TypeOK
    <2>2. caller[c].gw \in 1..sessions
      BY <1>6 DEF SubscribeGateway, At, Custody
    <2> QED BY <2>1, <2>2, <1>6 DEF SubscribeGateway, pollVars, TypeOK
  <1>7. CASE Install(c)
    <2>1. caller' \in [Callers -> Calling] /\ connMu' = None
      BY <1>7, <1>c DEF Install
    <2>2. caller[c].gw \in 1..sessions
      BY <1>7 DEF Install, At, Custody
    <2>3. poll' \in [Sessions -> Polls]
      BY <1>7, <1>0, SessionValues DEF Install
    <2> QED BY <2>1, <2>2, <2>3, <1>7 DEF Install, TypeOK
  <1> QED BY <1>1, <1>2, <1>3, <1>4, <1>5, <1>6, <1>7 DEF CallStep

LEMMA PollTypes ==
    ASSUME TypeOK, NEW g \in Sessions, PollStep(g) \/ End(g)
    PROVE  TypeOK' /\ UNCHANGED <<callVars, up>>
  <1>0. /\ poll[g] \in Polls /\ poll \in [Sessions -> Polls] /\ shown \in Showing
        /\ gateway \in 0..MaxSessions /\ g \in 0..MaxSessions
    BY SessionAssumption DEF TypeOK, Sessions, TypeOK
  <1>1. UNCHANGED <<callVars, up>>
    BY DEF PollStep, Tick, AskAccount, AskPositions, Enter, Record, End
  <1>2. SUFFICES poll' \in [Sessions -> Polls] /\ accMu' \in 0..MaxSessions /\ shown' \in Showing
    BY <1>1 DEF TypeOK, Showing, callVars
  <1>a. ASSUME NEW p \in Polls, poll' = [poll EXCEPT ![g] = p]
        PROVE  poll' \in [Sessions -> Polls]
    BY <1>a, <1>0
  <1>3. CASE Tick(g)
    <2>1. [poll[g] EXCEPT !.stage = "account", !.via = gateway] \in Polls
      BY <1>0 DEF Polls
    <2>2. poll' = [poll EXCEPT ![g] = [poll[g] EXCEPT !.stage = "account", !.via = gateway]]
      BY <1>3, <1>0 DEF Tick, Polls
    <2> QED BY <2>1, <2>2, <1>3, <1>a DEF Tick, TypeOK
  <1>4. CASE AskAccount(g)
    <2>1. PICK acc \in BOOLEAN :
              poll' = [poll EXCEPT ![g].stage = "positions", ![g].acc = acc]
      <3>1. {FALSE, poll[g].via \in up} \subseteq BOOLEAN
        OBVIOUS
      <3> QED BY <3>1, <1>4, Zenon DEF AskAccount
    <2>2. [poll[g] EXCEPT !.stage = "positions", !.acc = acc] \in Polls
      BY <1>0 DEF Polls
    <2>3. poll' = [poll EXCEPT ![g] = [poll[g] EXCEPT !.stage = "positions", !.acc = acc]]
      BY <2>1, <1>0 DEF Polls
    <2> QED BY <2>2, <2>3, <1>4, <1>a DEF AskAccount, TypeOK
  <1>5. CASE AskPositions(g)
    <2> DEFINE pos == poll[g].via \in up
    <2>0. pos \in BOOLEAN
      OBVIOUS
    <2>a. ASSUME NEW b \in BOOLEAN
          PROVE  [poll[g] EXCEPT !.stage = "lock", !.pos = b] \in Polls
      BY <1>0 DEF Polls
    <2>1. [poll[g] EXCEPT !.stage = "lock", !.pos = pos] \in Polls
      BY <2>0, <2>a, Zenon
    <2>2. poll' = [poll EXCEPT ![g] = [poll[g] EXCEPT !.stage = "lock", !.pos = pos]]
      BY <1>5, <1>0 DEF AskPositions, Polls
    <2> QED BY <2>1, <2>2, <1>5, <1>a DEF AskPositions, TypeOK
  <1>6. CASE Enter(g)
    <2>1. [poll[g] EXCEPT !.stage = "record"] \in Polls
      BY <1>0 DEF Polls
    <2> QED BY <2>1, <1>6, <1>0, <1>a DEF Enter, TypeOK
  <1>7. CASE Record(g)
    <2>1. shown' \in Showing
      BY <1>7, <1>0 DEF Record, Showing, Polls
    <2>2. poll' = [poll EXCEPT ![g] = Waiting] /\ accMu' = 0
      BY <1>7 DEF Record
    <2>3. poll' \in [Sessions -> Polls]
      BY <2>2, <1>a, SessionValues
    <2>4. accMu' \in 0..MaxSessions
      BY <2>2, SessionAssumption
    <2> QED BY <2>1, <2>3, <2>4
  <1>8. CASE End(g)
    <2>1. [poll[g] EXCEPT !.stage = "done"] \in Polls
      BY <1>0 DEF Polls
    <2> QED BY <2>1, <1>8, <1>a DEF End, TypeOK
  <1> QED BY <1>3, <1>4, <1>5, <1>6, <1>7, <1>8 DEF PollStep

-----------------------------------------------------------------------------
(* Custody and the connected gateways *)

\* A step on the connection keeps connMu's guard, and loses sight of no gateway.
LEMMA CallKeeps ==
    ASSUME SessionIInv, NEW c \in Callers, CallStep(c)
    PROVE  Custody' /\ NoOrphan'
  <1> USE SessionAssumption DEF SessionIInv, At
  <1>0. /\ caller \in [Callers -> Calling] /\ sessions \in Nat
        /\ up \subseteq 1..sessions /\ gateway \in 0..sessions /\ connMu \in Callers \cup {None}
    BY DEF TypeOK, Calling
  <1> USE DEF Custody, NoOrphan, Calling
  <1>1. CASE Lock(c)
    BY <1>0, <1>1 DEF Lock, Go
  <1>2. CASE Drop(c)
    BY <1>0, <1>2 DEF Drop
  <1>3. CASE HangUp(c)
    BY <1>0, <1>3 DEF HangUp
  <1>4. CASE Clear(c)
    BY <1>0, <1>4 DEF Clear, Go, Return, Resting
  <1>5. CASE Dial(c)
    BY <1>0, <1>5 DEF Dial, Return, Resting
  <1>6. CASE SubscribeGateway(c)
    BY <1>0, <1>6 DEF SubscribeGateway, Go, Return, Resting
  <1>7. CASE Install(c)
    BY <1>0, <1>7 DEF Install, Return, Resting
  <1> QED BY <1>1, <1>2, <1>3, <1>4, <1>5, <1>6, <1>7 DEF CallStep

-----------------------------------------------------------------------------
(* The invariant *)

LEMMA SessionStart == Init => SessionIInv
  <1> SUFFICES ASSUME Init PROVE Custody /\ NoOrphan
    BY SessionInitTypes DEF SessionIInv
  <1> QED BY DEF Init, Custody, NoOrphan, Resting

LEMMA SessionStep == SessionIInv /\ [Next]_vars => SessionIInv'
  <1> SUFFICES ASSUME SessionIInv, [Next]_vars PROVE SessionIInv'
    OBVIOUS
  <1>1. CASE \E c \in Callers : CallStep(c)
    BY <1>1, CallTypes, CallKeeps DEF SessionIInv
  <1>2. ASSUME NEW c \in Callers, NEW connects \in BOOLEAN, Call(c, connects)
        PROVE  SessionIInv'
    <2>1. TypeOK'
      <3>1. [stage |-> "lock", connects |-> connects, gw |-> 0] \in Calling
        BY SessionAssumption DEF Calling, Stages
      <3> QED BY <3>1, <1>2, SessionAssumption DEF SessionIInv, TypeOK, Call, pollVars
    <2>2. Custody' /\ NoOrphan'
      BY <1>2, SessionAssumption DEF SessionIInv, TypeOK, Custody, NoOrphan, Call, At
    <2> QED BY <2>1, <2>2 DEF SessionIInv
  <1>3. ASSUME NEW g \in Sessions, PollStep(g) \/ End(g)
        PROVE  SessionIInv'
    <2>1. TypeOK' /\ UNCHANGED <<callVars, up>>
      BY <1>3, PollTypes DEF SessionIInv
    <2> QED BY <2>1 DEF SessionIInv, Custody, NoOrphan, callVars
  <1>4. ASSUME NEW g \in Sessions, LoseLink(g)
        PROVE  SessionIInv'
    BY <1>4 DEF SessionIInv, TypeOK, Custody, NoOrphan, LoseLink, callVars, pollVars
  <1>5. CASE UNCHANGED vars
    BY <1>5 DEF SessionIInv, TypeOK, Custody, NoOrphan, vars, callVars, pollVars
  <1> QED BY <1>1, <1>2, <1>3, <1>4, <1>5 DEF Next

\* The variables have their types, whatever the calls of connect and disconnect.
THEOREM TypeInvariant == Spec => []TypeOK
  <1>1. SessionIInv => TypeOK
    BY DEF SessionIInv
  <1> QED BY <1>1, SessionStart, SessionStep, PTL DEF Spec

\* Every connected gateway is the runtime's, or in the hands of the one caller that
\* holds connMu: calls that cross never leave an engine trading on its own.
THEOREM NoGatewayIsOrphan == Spec => []NoOrphan
  <1>1. SessionIInv => NoOrphan
    BY DEF SessionIInv
  <1> QED BY <1>1, SessionStart, SessionStep, PTL DEF Spec

-----------------------------------------------------------------------------
(* Interface: `q` ends no work, for every set of pairs, every size of the
   channel and every number of keys and of foreign messages.

   The key asks the screens, not the goroutines, so the argument is what makes
   the first as good as the second: a work that lives is busy (LivesIsBusy),
   and stays so, because the message that ends it is sent when it has ended,
   once, and nothing else of it is on its way (Queued) *)

Names == {"live", "journal", "settings", "data", "training", "backtest"}
Works == Work \ {"convert"}
PairOrNone == Pairs \cup Tradable \cup {Nothing}
Messages == {"status", "progress", "done"} \X (Work \cup {Nothing}) \X PairOrNone
Windows == [screens : {Screens("trading"), Screens("backtrain")}, active : Names, help : BOOLEAN,
            capture : SUBSET Names, quit : {"no", "q", "ctrl+c"}]
Tests == [cursor : PairOrNone, replayed : PairOrNone, result : PairOrNone]

InterfaceTypes ==
    /\ window \in Windows /\ test \in Tests
    /\ queue \in Seq(Messages)
    /\ job \in [Work -> {"none", "works", "cancelled"}] /\ busy \subseteq Work

\* Where the channel says that w has ended.
Ends(q, w) == {i \in 1..Len(q) : q[i][1] = "done" /\ q[i][2] = w}

LivesIsBusy == \A w \in Works : Alive(w) => w \in busy

Queued ==
    \A w \in Works :
        /\ Ends(queue, w) # {} => w \in busy /\ ~Alive(w)
        /\ \A i, j \in Ends(queue, w) : i = j

InterfaceIInv == InterfaceTypes /\ LivesIsBusy /\ Queued /\ QSparesWork

\* A step that starts and ends nothing: what it says is no end, and it does not
\* leave the program.
Quiet ==
    /\ window' \in Windows /\ window'.quit = window.quit
    /\ test' \in Tests
    /\ UNCHANGED <<job, busy>>
    /\ \/ UNCHANGED queue
       \/ \E m \in Messages : m[1] # "done" /\ queue' = With(queue, m)

-----------------------------------------------------------------------------
(* The channel *)

LEMMA WorkIs == Work = {"download", "convert", "training", "backtest", "connect"}
  BY DEF Work, HomeOf

LEMMA StatusIs == Status \in Messages /\ Status[1] # "done"
  BY DEF Status, Messages, PairOrNone

LEMMA WithTypes ==
  ASSUME NEW q \in Seq(Messages), NEW m \in Messages
  PROVE  With(q, m) \in Seq(Messages)
  BY DEF With

\* What is no end adds none.
LEMMA WithoutEnd ==
  ASSUME NEW q \in Seq(Messages), NEW m \in Messages, NEW w, m[1] # "done" \/ m[2] # w
  PROVE  Ends(With(q, m), w) = Ends(q, w)
<1>1. CASE Len(q) < Cap
  <2> DEFINE a == Append(q, m)
  <2>1. /\ With(q, m) = a /\ Len(a) = Len(q) + 1 /\ Len(q) \in Nat
        /\ a[Len(q) + 1] = m /\ \A i \in 1..Len(q) : a[i] = q[i]
    BY <1>1 DEF With
  <2>2. Ends(a, w) = Ends(q, w)
    BY <2>1 DEF Ends
  <2> QED BY <2>1, <2>2
<1>2. CASE ~(Len(q) < Cap)
  BY <1>2 DEF With
<1> QED BY <1>1, <1>2

\* An end is one more, or is lost.
LEMMA WithEnd ==
  ASSUME NEW q \in Seq(Messages), NEW m \in Messages, NEW w, Ends(q, w) = {}
  PROVE  \A i, j \in Ends(With(q, m), w) : i = j
<1>1. CASE Len(q) < Cap
  <2> DEFINE a == Append(q, m)
  <2>1. /\ With(q, m) = a /\ Len(a) = Len(q) + 1 /\ Len(q) \in Nat
        /\ \A i \in 1..Len(q) : a[i] = q[i]
    BY <1>1 DEF With
  <2>2. \A i \in Ends(a, w) : i = Len(q) + 1
    BY <2>1 DEF Ends
  <2> QED BY <2>1, <2>2
<1>2. CASE ~(Len(q) < Cap)
  BY <1>2 DEF With
<1> QED BY <1>1, <1>2

LEMMA TailEnds ==
  ASSUME NEW q \in Seq(Messages), q # <<>>, NEW w
  PROVE  /\ Tail(q) \in Seq(Messages)
         /\ \A i \in Ends(Tail(q), w) : i \in Nat \ {0} /\ i + 1 \in Ends(q, w)
         /\ Head(q) \in Messages /\ Head(q) = q[1] /\ 1 \in 1..Len(q)
<1>1. /\ Tail(q) \in Seq(Messages) /\ Len(Tail(q)) = Len(q) - 1 /\ Len(q) \in Nat \ {0}
      /\ \A i \in 1..Len(Tail(q)) : Tail(q)[i] = q[i + 1]
      /\ Head(q) \in Messages /\ Head(q) = q[1]
  OBVIOUS
<1> QED BY <1>1 DEF Ends

-----------------------------------------------------------------------------
(* Steps *)

LEMMA InterfaceInitHolds ==
  ASSUME InterfaceInit
  PROVE  InterfaceIInv
<1>1. window \in Windows /\ window.quit = "no"
  <2>1. PICK m \in {"trading", "backtrain"} :
          window = [screens |-> Screens(m), active |-> Screens(m)[1], help |-> FALSE,
                    capture |-> {}, quit |-> "no"]
    BY DEF InterfaceInit
  <2>2. Screens(m)[1] \in Names
    BY DEF Screens, Names
  <2> QED BY <2>1, <2>2 DEF Windows
<1>2. test \in Tests
  BY DEF InterfaceInit, Tests, PairOrNone
<1>3. /\ queue = <<>> /\ busy = {} /\ job = [w \in Work |-> "none"]
      /\ \A w : Ends(queue, w) = {}
  BY DEF InterfaceInit, Ends
<1>4. InterfaceTypes
  BY <1>1, <1>2, <1>3 DEF InterfaceTypes
<1> QED BY <1>1, <1>3, <1>4 DEF InterfaceIInv, LivesIsBusy, Queued, QSparesWork, Alive, Works

LEMMA QuietKeeps ==
  ASSUME InterfaceIInv, Quiet
  PROVE  InterfaceIInv'
<1>1. queue' \in Seq(Messages) /\ \A w : Ends(queue', w) = Ends(queue, w)
  BY WithTypes, WithoutEnd DEF InterfaceIInv, InterfaceTypes, Quiet
<1>2. InterfaceTypes'
  BY <1>1 DEF InterfaceIInv, InterfaceTypes, Quiet
<1>3. \A w : Ends(queue, w)' = Ends(queue', w)
  BY DEF Ends
<1>4. Queued'
  BY <1>1, <1>3 DEF InterfaceIInv, Quiet, Queued, Alive
<1> QED BY <1>2, <1>4 DEF InterfaceIInv, Quiet, LivesIsBusy, QSparesWork, Alive

\* Only a work that no screen shows is started, so no end of it is on its way.
LEMMA StartKeeps ==
  ASSUME InterfaceIInv, NEW w \in Work, Start(w), Running,
         window' \in Windows, window'.quit = window.quit, test' \in Tests
  PROVE  InterfaceIInv'
<1>1. /\ w \notin busy /\ job' = [job EXCEPT ![w] = "works"]
      /\ busy' = IF w = "convert" THEN busy ELSE busy \cup {w}
      /\ queue' = With(queue, Status)
  BY DEF Start, Say
<1>2. queue' \in Seq(Messages) /\ \A v : Ends(queue', v) = Ends(queue, v)
  BY <1>1, WithTypes, WithoutEnd, StatusIs DEF InterfaceIInv, InterfaceTypes
<1>3. InterfaceTypes'
  BY <1>1, <1>2 DEF InterfaceIInv, InterfaceTypes
<1>4. \A v : Ends(queue, v)' = Ends(queue', v)
  BY DEF Ends
<1>5. /\ busy \subseteq busy' /\ \A v \in Work \ {w} : Alive(v)' = Alive(v)
      /\ w \in Works => w \in busy'
  BY <1>1 DEF InterfaceIInv, InterfaceTypes, Alive, Works
<1>6. LivesIsBusy'
  BY <1>5 DEF InterfaceIInv, LivesIsBusy, Works
<1>7. Queued'
  BY <1>1, <1>2, <1>4, <1>5 DEF InterfaceIInv, Queued, Works
<1>8. QSparesWork'
  BY DEF Running, QSparesWork
<1> QED BY <1>3, <1>6, <1>7, <1>8 DEF InterfaceIInv

LEMMA Left ==
  ASSUME NEW w \in Windows, NEW how \in {"no", "q", "ctrl+c"}
  PROVE  [w EXCEPT !.quit = how] \in Windows /\ [w EXCEPT !.quit = how].quit = how
  BY DEF Windows

\* The keys of the window.  `q` looks at the screens, which is enough.
LEMMA LeavingKeeps ==
  ASSUME InterfaceIInv, Quit \/ ForceQuit
  PROVE  InterfaceIInv'
<1>1. UNCHANGED <<queue, job, busy, test>>
  <2>1. CASE Quit
    BY <2>1 DEF Quit, channel, jobs, testing
  <2>2. CASE ForceQuit
    BY <2>2 DEF ForceQuit, channel, jobs, testing
  <2> QED BY <2>1, <2>2
<1>2. window' \in Windows /\ (window'.quit = "q" => busy = {})
  <2>1. window \in Windows
    BY DEF InterfaceIInv, InterfaceTypes
  <2>2. CASE Quit
    <3>1. busy = {} /\ window' = [window EXCEPT !.quit = "q"]
      BY <2>2 DEF Quit, NoneBusy
    <3> QED BY <2>1, <3>1, Left
  <2>3. CASE ForceQuit
    <3>1. window' = [window EXCEPT !.quit = "ctrl+c"]
      BY <2>3 DEF ForceQuit
    <3>2. window' \in Windows /\ window'.quit = "ctrl+c"
      BY <2>1, <3>1, Left
    <3> QED BY <3>2
  <2> QED BY <2>2, <2>3
<1>3. InterfaceTypes'
  BY <1>1, <1>2 DEF InterfaceIInv, InterfaceTypes
<1>4. LivesIsBusy' /\ Queued'
  BY <1>1 DEF InterfaceIInv, LivesIsBusy, Queued, Alive, Ends
<1>5. QSparesWork'
  BY <1>1, <1>2 DEF InterfaceIInv, LivesIsBusy, QSparesWork, Alive, Works
<1> QED BY <1>3, <1>4, <1>5 DEF InterfaceIInv

LEMMA InterruptKeeps ==
  ASSUME InterfaceIInv, NEW w \in Work, Interrupt(w)
  PROVE  InterfaceIInv'
<1>1. /\ job' = [job EXCEPT ![w] = IF @ = "works" THEN "cancelled" ELSE @]
      /\ queue' = With(queue, Status) /\ UNCHANGED <<window, busy, test>>
  BY DEF Interrupt, Say, testing
<1>2. job' \in [Work -> {"none", "works", "cancelled"}] /\ \A v \in Work : Alive(v)' = Alive(v)
  BY <1>1 DEF InterfaceIInv, InterfaceTypes, Alive
<1>3. queue' \in Seq(Messages) /\ \A v : Ends(queue', v) = Ends(queue, v)
  BY <1>1, WithTypes, WithoutEnd, StatusIs DEF InterfaceIInv, InterfaceTypes
<1>4. InterfaceTypes'
  BY <1>1, <1>2, <1>3 DEF InterfaceIInv, InterfaceTypes
<1>5. \A v : Ends(queue, v)' = Ends(queue', v)
  BY DEF Ends
<1>6. Queued'
  BY <1>1, <1>2, <1>3, <1>5 DEF InterfaceIInv, Queued, Works
<1> QED BY <1>1, <1>2, <1>4, <1>6 DEF InterfaceIInv, LivesIsBusy, QSparesWork, Works

\* The end of a work is said when nothing else of it is on its way.
LEMMA EndKeeps ==
  ASSUME InterfaceIInv, NEW w \in Work, JobEnds(w)
  PROVE  InterfaceIInv'
<1> DEFINE said == IF w = "convert" THEN With(queue, Status) ELSE queue
<1>1. /\ Running /\ Alive(w) /\ job' = [job EXCEPT ![w] = "none"]
      /\ UNCHANGED <<window, busy, test>>
  BY DEF JobEnds, testing
<1>2. PICK result \in PairOrNone : queue' = With(said, <<"done", w, result>>)
  BY DEF JobEnds, InterfaceIInv, InterfaceTypes, Tests, PairOrNone
<1>3. said \in Seq(Messages) /\ \A v : Ends(said, v) = Ends(queue, v)
  BY WithTypes, WithoutEnd, StatusIs DEF InterfaceIInv, InterfaceTypes
<1>4. <<"done", w, result>> \in Messages
  BY DEF Messages
<1>5. queue' \in Seq(Messages)
  BY <1>2, <1>3, <1>4, WithTypes
<1>6. job' \in [Work -> {"none", "works", "cancelled"}] /\ ~Alive(w)'
  BY <1>1 DEF InterfaceIInv, InterfaceTypes, Alive
<1>7. \A v \in Work \ {w} : Alive(v)' = Alive(v) /\ Ends(queue', v) = Ends(queue, v)
  BY <1>1, <1>2, <1>3, <1>4, WithoutEnd DEF InterfaceIInv, InterfaceTypes, Alive
<1>8. \A v : Ends(queue, v)' = Ends(queue', v)
  BY DEF Ends
<1>9. w \in Works => w \in busy /\ \A i, j \in Ends(queue', w) : i = j
  <2>1. w \in Works => w \in busy /\ Ends(said, w) = {}
    BY <1>1, <1>3 DEF InterfaceIInv, LivesIsBusy, Queued
  <2> QED BY <2>1, <1>2, <1>3, <1>4, WithEnd
<1>10. InterfaceTypes'
  BY <1>1, <1>5, <1>6 DEF InterfaceIInv, InterfaceTypes
<1>11. LivesIsBusy' /\ QSparesWork'
  BY <1>1, <1>6, <1>7 DEF InterfaceIInv, LivesIsBusy, QSparesWork, Running, Works
<1>12. Queued'
  BY <1>1, <1>6, <1>7, <1>8, <1>9 DEF InterfaceIInv, Queued, Works
<1> QED BY <1>10, <1>11, <1>12 DEF InterfaceIInv

\* The end that is taken is the only one, and of a work that does not live.
LEMMA UpdateKeeps ==
  ASSUME InterfaceIInv, Update
  PROVE  InterfaceIInv'
<1> DEFINE m == Head(queue)
<1>1. queue # <<>> /\ Take(m) /\ UNCHANGED <<window, job>> /\ queue \in Seq(Messages)
  BY DEF Update, InterfaceIInv, InterfaceTypes
<1>2. /\ Tail(queue) \in Seq(Messages) /\ m \in Messages /\ m = queue[1] /\ 1 \in 1..Len(queue)
      /\ \A w : \A i \in Ends(Tail(queue), w) : i \in Nat \ {0} /\ i + 1 \in Ends(queue, w)
  BY <1>1, TailEnds
<1>3. queue' = Tail(queue) \/ queue' = With(Tail(queue), Status)
  BY <1>1 DEF Take
<1>4. queue' \in Seq(Messages) /\ \A w : Ends(queue', w) = Ends(Tail(queue), w)
  <2>1. CASE queue' = Tail(queue)
    BY <1>2, <2>1
  <2>2. CASE queue' = With(Tail(queue), Status)
    BY <1>2, <2>2, WithTypes, WithoutEnd, StatusIs
  <2> QED BY <1>3, <2>1, <2>2
<1>5. busy' = IF m[1] = "done" THEN busy \ {m[2]} ELSE busy
  BY <1>1 DEF Take
<1>6. test' \in Tests
  <2>1. m[3] \in PairOrNone
    BY <1>2 DEF Messages
  <2>2. [test EXCEPT !.result = m[3]] \in Tests
    BY <2>1 DEF InterfaceIInv, InterfaceTypes, Tests
  <2> QED BY <1>1, <2>2 DEF InterfaceIInv, InterfaceTypes, Take
<1>7. \A w \in Works : m[1] = "done" /\ m[2] = w => Ends(queue', w) = {} /\ ~Alive(w)
  <2> SUFFICES ASSUME NEW w \in Works, m[1] = "done", m[2] = w
               PROVE  Ends(queue', w) = {} /\ ~Alive(w)
    OBVIOUS
  <2>1. 1 \in Ends(queue, w)
    BY <1>2 DEF Ends
  <2>2. ~Alive(w) /\ \A i \in Ends(queue, w) : i = 1
    BY <2>1 DEF InterfaceIInv, Queued
  <2>3. \A i \in Ends(Tail(queue), w) : FALSE
    BY <1>2, <2>2
  <2> QED BY <1>4, <2>2, <2>3
<1>8. InterfaceTypes'
  BY <1>1, <1>4, <1>5, <1>6 DEF InterfaceIInv, InterfaceTypes
<1>9. \A w : Ends(queue, w)' = Ends(queue', w) /\ Alive(w)' = Alive(w)
  BY <1>1 DEF Ends, Alive
<1>10. LivesIsBusy'
  BY <1>5, <1>7, <1>9 DEF InterfaceIInv, LivesIsBusy
<1>11. Queued'
  <2> SUFFICES ASSUME NEW w \in Works
               PROVE  /\ Ends(queue', w) # {} => w \in busy' /\ ~Alive(w)
                      /\ \A i, j \in Ends(queue', w) : i = j
    BY <1>9 DEF Queued
  <2>1. Ends(queue', w) # {} => Ends(queue, w) # {} /\ ~(m[1] = "done" /\ m[2] = w)
    BY <1>2, <1>4, <1>7
  <2>2. Ends(queue', w) # {} => w \in busy' /\ ~Alive(w)
    BY <2>1, <1>5 DEF InterfaceIInv, Queued
  <2>3. \A i, j \in Ends(queue', w) : i \in Nat /\ j \in Nat /\ i + 1 = j + 1
    BY <1>2, <1>4 DEF InterfaceIInv, Queued
  <2>4. \A i, j \in Ends(queue', w) : i = j
    BY <2>3
  <2> QED BY <2>2, <2>4
<1>12. QSparesWork'
  BY <1>1, <1>9 DEF InterfaceIInv, QSparesWork, Works
<1> QED BY <1>8, <1>10, <1>11, <1>12 DEF InterfaceIInv

-----------------------------------------------------------------------------
(* The keys and messages that start and end nothing *)

LEMMA WindowKeys ==
  ASSUME InterfaceIInv, NEW screen \in Names
  PROVE  /\ Capture(screen) => window' \in Windows /\ window'.quit = window.quit
         /\ Release(screen) => window' \in Windows /\ window'.quit = window.quit
<1>1. window \in Windows
  BY DEF InterfaceIInv, InterfaceTypes
<1> QED BY <1>1 DEF Capture, Release, Windows

LEMMA QuietSteps ==
  ASSUME InterfaceIInv,
         \/ Show \/ Help \/ Foreign \/ OpenPicker \/ Check \/ Filter \/ ClosePicker
         \/ MoveCursor \/ Export
         \/ \E screen \in {"journal", "settings"} : Type(screen)
         \/ \E w \in {"download", "training"} : Progress(w)
  PROVE  Quiet
<1> USE StatusIs
<1>0. window \in Windows /\ test \in Tests
  BY DEF InterfaceIInv, InterfaceTypes
<1>1. CASE Show
  <2>1. PICK i \in DOMAIN window.screens : window' = [window EXCEPT !.active = window.screens[i]]
    BY <1>1 DEF Show
  <2>2. window.screens[i] \in Names
    BY <1>0, <2>1 DEF Windows, Screens, Names
  <2>3. window' \in Windows /\ window'.quit = window.quit
    BY <1>0, <2>1, <2>2 DEF Windows
  <2> QED BY <1>0, <1>1, <2>3 DEF Show, Quiet, channel, jobs, testing
<1>2. CASE Help
  <2>1. window' \in Windows /\ window'.quit = window.quit
    BY <1>0, <1>2 DEF Help, Windows
  <2> QED BY <1>0, <1>2, <2>1 DEF Help, Quiet, channel, jobs, testing
<1>3. CASE Foreign
  BY <1>0, <1>3 DEF Foreign, Quiet, jobs, testing
<1>4. CASE OpenPicker
  BY <1>0, <1>4, WindowKeys DEF OpenPicker, Quiet, channel, jobs, testing, Names
<1>5. CASE Check \/ Filter
  BY <1>0, <1>5 DEF Check, Filter, Quiet, channel, jobs, testing
<1>6. CASE ClosePicker
  BY <1>0, <1>6, WindowKeys DEF ClosePicker, Say, Quiet, channel, jobs, testing, Names
<1>7. CASE MoveCursor
  <2>1. test' \in Tests
    BY <1>0, <1>7 DEF MoveCursor, Tests, PairOrNone
  <2> QED BY <1>0, <1>7, <2>1 DEF MoveCursor, Quiet, channel, jobs
<1>8. CASE Export
  BY <1>0, <1>8 DEF Export, Say, Quiet, jobs
<1>9. ASSUME NEW screen \in {"journal", "settings"}, Type(screen) PROVE Quiet
  BY <1>0, <1>9, WindowKeys DEF Type, Say, Quiet, channel, jobs, testing, Names
<1>10. ASSUME NEW w \in {"download", "training"}, Progress(w) PROVE Quiet
  <2>1. <<"progress", w, Nothing>> \in Messages /\ <<"progress", w, Nothing>>[1] # "done"
    BY WorkIs DEF Messages, PairOrNone
  <2> QED BY <1>0, <1>10, <2>1 DEF Progress, Quiet, jobs, testing
<1> QED BY <1>1, <1>2, <1>3, <1>4, <1>5, <1>6, <1>7, <1>8, <1>9, <1>10

\* The keys that may start a work.
LEMMA StartingKeeps ==
  ASSUME InterfaceIInv,
         \/ \E w \in {"download", "convert", "training"} : StartJob(w)
         \/ StartBacktest \/ Account \/ \E real \in BOOLEAN : Connection(real)
  PROVE  InterfaceIInv'
<1>0. window \in Windows /\ test \in Tests
  BY DEF InterfaceIInv, InterfaceTypes
<1>1. ASSUME NEW w \in {"download", "convert", "training"}, StartJob(w) PROVE InterfaceIInv'
  BY <1>0, <1>1, StartKeeps, WorkIs DEF StartJob, KeyOf, Key, testing
<1>2. CASE StartBacktest
  <2>1. test' \in Tests
    BY <1>0, <1>2 DEF StartBacktest, Tests, PairOrNone
  <2> QED BY <1>0, <1>2, <2>1, StartKeeps, WorkIs DEF StartBacktest, KeyOf, Key
<1>3. CASE Account
  <2>1. window' \in Windows /\ window'.quit = window.quit /\ UNCHANGED test /\ Running
    BY <1>3, WindowKeys DEF Account, Names, testing, InputOf, Key
  <2>2. CASE Start("connect")
    BY <1>0, <2>1, <2>2, StartKeeps, WorkIs
  <2>3. CASE Say /\ UNCHANGED jobs
    <3>1. Quiet
      BY <1>0, <2>1, <2>3, StatusIs DEF Quiet, Say, jobs
    <3> QED BY <3>1, QuietKeeps
  <2> QED BY <1>3, <2>2, <2>3 DEF Account
<1>4. ASSUME NEW real \in BOOLEAN, Connection(real) PROVE InterfaceIInv'
  <2>1. UNCHANGED test /\ Running
    BY <1>4 DEF Connection, testing, KeyOf, Key
  <2>2. CASE connected \/ real
    <3>1. Quiet
      BY <1>0, <1>4, <2>1, <2>2, WindowKeys, StatusIs DEF Connection, Quiet, Say, jobs, Names
    <3> QED BY <3>1, QuietKeeps
  <2>3. CASE ~(connected \/ real)
    <3>1. Start("connect") /\ UNCHANGED window
      BY <1>4, <2>3 DEF Connection
    <3> QED BY <1>0, <2>1, <3>1, StartKeeps, WorkIs
  <2> QED BY <2>2, <2>3
<1> QED BY <1>1, <1>2, <1>3, <1>4

LEMMA InterfaceStep ==
  ASSUME InterfaceIInv, [InterfaceNext]_uiVars
  PROVE  InterfaceIInv'
<1>1. CASE UNCHANGED uiVars
  BY <1>1 DEF uiVars, channel, jobs, testing, InterfaceIInv, InterfaceTypes, LivesIsBusy, Queued,
              QSparesWork, Alive, Ends
<1>2. ASSUME NEW w \in {"download", "training", "backtest"}, Interrupt(w) PROVE InterfaceIInv'
  BY <1>2, InterruptKeeps, WorkIs
<1>3. CASE InterfaceNext
  BY <1>2, <1>3, QuietSteps, QuietKeeps, StartingKeeps, LeavingKeeps, EndKeeps, UpdateKeeps
     DEF InterfaceNext
<1> QED BY <1>1, <1>3

\* `q` ends no download, training, backtest or connection (tui.go:252), however full
\* the channel and whatever the screen shown.
THEOREM QuitSparesWork == InterfaceSpec => []QSparesWork
<1>1. InterfaceInit => InterfaceIInv
  BY InterfaceInitHolds
<1>2. InterfaceIInv /\ [InterfaceNext]_uiVars => InterfaceIInv'
  BY InterfaceStep
<1>3. InterfaceIInv => QSparesWork
  BY DEF InterfaceIInv
<1> QED BY <1>1, <1>2, <1>3, PTL DEF InterfaceSpec

-----------------------------------------------------------------------------
(* Training, for every number of runs, folds and places, every history and
   every request: what is measured is out of sample, and the model chosen is
   the production model of a run that ended.

   A run that works in a folder is alone in it (Alone), so the models it
   reads back are those it has saved (Trained); what its results say does
   not depend on the folder any more (Measured).  A folder with a run.json
   is that of a run that ended, whose models nobody writes again (Kept). *)

Places == (0..Folds) \X (Symbols \cup {NoName})
Models == [by : Runs, bars : UNION {[some -> SUBSET Times] : some \in SUBSET Symbols}]
Summaries == [written : {"no", "part", "whole"}, started : Nat, symbols : SUBSET Symbols,
              final : {"none", "ok", "failed"}]
Folders == [there : BOOLEAN, model : UNION {[some -> Models] : some \in SUBSET Places},
            summary : Summaries, deleted : BOOLEAN]
Results == [fold : Blocks, symbol : Symbols, bars : SUBSET Times, model : Models]
FoldStages == {"waiting", "training", "testing", "done", "failed", "left"}
TrainingRuns ==
    [pc : {"off", "load", "mkdir", "folds", "final", "summary", "done", "over"},
     strategy : StrategyNames \cup {NoName}, symbols : SUBSET Symbols, try : Runs,
     cut : {<<>>} \cup [1..(Folds + 1) -> Int], cancelled : BOOLEAN,
     fold : [Blocks -> FoldStages], todo : [Blocks -> SUBSET Symbols],
     results : SUBSET Results, final : {"none", "ok", "failed"}]

TrainingTypes ==
    /\ history \in Histories
    /\ dirs \in [Ids -> Folders]
    /\ run \in [Runs -> TrainingRuns]

-----------------------------------------------------------------------------
(* The invariant *)

Started(r) == run[r].pc \notin {"off", "load", "mkdir"}
Working(r) == run[r].pc \in {"folds", "final", "summary"}

\* A request once launched is one of those that can be asked.
Asked(r) ==
    run[r].pc # "off" =>
        /\ run[r].strategy \in StrategyNames
        /\ run[r].symbols # {} /\ run[r].symbols \subseteq DOMAIN history

\* The blocks follow one another.
Cut(r) ==
    run[r].pc \in {"mkdir", "folds"} =>
        /\ run[r].cut \in [1..(Folds + 1) -> Int]
        /\ \A i, j \in 1..(Folds + 1) : i <= j => run[r].cut[i] <= run[r].cut[j]

\* A name that was taken was that of another run.
Tried(r) ==
    \A t \in 1..(run[r].try - 1) :
        \E other \in Runs : other # r /\ Started(other) /\ run[other].try = t

\* A run has its folder, and has it alone.
Alone(r) ==
    Working(r) =>
        /\ Dir(r).there /\ ~Dir(r).deleted /\ Dir(r).summary.written # "whole"
        /\ \A other \in Runs : other # r /\ Working(other) => Id(other) # Id(r)

\* A model of a fold has seen what precedes the block.
Learns(r, k, model) ==
    /\ model.by = r
    /\ \A s \in DOMAIN model.bars : s \in DOMAIN history /\ model.bars[s] = TrainSet(r, k, s)

\* A production model has seen all.
Produced(r, p, model) ==
    /\ model.by = r
    /\ \E s \in run[r].symbols : p = Place(r, Final, s)
    /\ run[r].final = "ok" =>
         \A s \in run[r].symbols :
             p = Place(r, Final, s) => s \in DOMAIN model.bars /\ model.bars[s] = history[s]

Complete(r, models) == \A s \in run[r].symbols : Place(r, Final, s) \in DOMAIN models

\* The models in the folder of a run at work.
Trained(r) ==
    /\ run[r].pc = "folds" =>
         \A p \in DOMAIN Dir(r).model : p[1] \in Blocks /\ Learns(r, p[1], Dir(r).model[p])
    /\ run[r].pc = "final" => DOMAIN Dir(r).model = {}
    /\ run[r].pc = "summary" =>
         /\ \A p \in DOMAIN Dir(r).model : Produced(r, p, Dir(r).model[p])
         /\ run[r].final = "ok" => Complete(r, Dir(r).model)

\* A result is that of a block on a model of its fold; a symbol is measured once.
Measured(r) ==
    /\ run[r].pc # "folds" => run[r].results = {}
    /\ \A one \in run[r].results :
         /\ one.symbol \in DOMAIN history
         /\ one.bars = TestSet(r, one.fold, one.symbol)
         /\ one.symbol \notin run[r].todo[one.fold]
         /\ run[r].fold[one.fold] \notin {"waiting", "training"}
         /\ Learns(r, one.fold, one.model)
         /\ \A two \in run[r].results :
              two.fold = one.fold /\ two.symbol = one.symbol => two = one
    /\ run[r].pc = "folds" => \A k \in Blocks : run[r].todo[k] \subseteq run[r].symbols
    /\ run[r].pc \in {"off", "load", "mkdir"} => \A k \in Blocks : run[r].todo[k] = {}

Ran(r) == Asked(r) /\ Cut(r) /\ Tried(r) /\ Alone(r) /\ Trained(r) /\ Measured(r)

\* A folder is that of a run; with a run.json, of one that ended.
Kept(id) ==
    LET d == dirs[id]
        r == d.summary.started
    IN  /\ d.there => \E o \in Runs : Started(o) /\ Id(o) = id
        /\ ~d.there => d = NoDir
        /\ d.summary.written # "whole" => r = 0
        /\ d.summary.written = "whole" =>
             /\ d.there /\ r \in Runs /\ RunIs(r, "done") /\ Id(r) = id
             /\ d.summary.symbols = run[r].symbols /\ d.summary.final = run[r].final
             /\ \A p \in DOMAIN d.model : Produced(r, p, d.model[p])
             /\ run[r].final = "ok" /\ ~d.deleted => Complete(r, d.model)

TrainingIInv == TrainingTypes /\ (\A r \in Runs : Ran(r)) /\ (\A id \in Ids : Kept(id))

-----------------------------------------------------------------------------
(* Series and blocks *)

\* Among finitely many numbers one is the least: the first k that had none would have
\* the least of the k - 1 before it, or its own.
LEMMA OneIsLeast ==
  ASSUME NEW n \in Nat \ {0}, NEW f \in [1..n -> Int]
  PROVE  \E i \in 1..n : \A j \in 1..n : f[i] <= f[j]
<1> DEFINE Least(k) == \E i \in 1..k : \A j \in 1..k : f[i] <= f[j]
           T == {k \in Nat : k \in 1..n /\ ~Least(k)}
           R == OpToRel(<, Nat)
<1>1. IsWellFoundedOn(R, Nat)
  BY NatLessThanWellFounded
<1>2. \A x, y \in Nat : <<x, y>> \in R <=> x < y
  BY DEF OpToRel
<1> HIDE DEF R
<1>3. ASSUME T # {} PROVE FALSE
  <2>1. T \subseteq Nat
    OBVIOUS
  <2> HIDE DEF T
  <2>2. PICK k \in T : \A y \in T : ~(<<y, k>> \in R)
    BY <1>1, <1>3, <2>1, WFMin
  <2>3. k \in Nat /\ k \in 1..n /\ ~Least(k)
    BY <2>2 DEF T
  <2>4. k # 1
    BY <2>3
  <2>5. k - 1 \in Nat /\ k - 1 \in 1..n /\ k - 1 \notin T
    <3>1. k - 1 \in Nat /\ k - 1 \in 1..n /\ k - 1 < k
      BY <2>3, <2>4
    <3>2. <<k - 1, k>> \in R
      BY <1>2, <2>3, <3>1
    <3> QED BY <2>2, <3>1, <3>2
  <2>6. Least(k - 1)
    BY <2>5 DEF T
  <2>7. PICK i \in 1..(k - 1) : \A j \in 1..(k - 1) : f[i] <= f[j]
    BY <2>6
  <2>8. i \in 1..k /\ k \in 1..k /\ \A j \in 1..k : j = k \/ j \in 1..(k - 1)
    BY <2>3
  <2>9. \A j \in 1..k : f[j] \in Int
    BY <2>3
  <2>10. CASE f[i] <= f[k]
    BY <2>3, <2>7, <2>8, <2>10
  <2>11. CASE f[k] < f[i]
    <3>1. \A j \in 1..k : f[k] <= f[j]
      BY <2>7, <2>8, <2>9, <2>11
    <3> QED BY <2>3, <2>8, <3>1
  <2>12. f[i] \in Int /\ f[k] \in Int
    BY <2>8, <2>9
  <2> QED BY <2>10, <2>11, <2>12
<1>4. n \notin T
  <2> HIDE DEF T
  <2> QED BY <1>3
<1>5. Least(n)
  BY <1>4
<1> QED BY <1>5

LEMMA FirstAndLast ==
  ASSUME NEW some, some \subseteq Int, IsFiniteSet(some), some # {}
  PROVE  Min(some) \in some /\ Max(some) \in some
<1>1. PICK n \in Nat : ExistsSurjection(1..n, some)
  BY FS_NatSurjection
<1>2. PICK f \in [1..n -> some] : \A t \in some : \E i \in 1..n : f[i] = t
  BY <1>1 DEF ExistsSurjection, Surjection
<1>3. n \in Nat \ {0} /\ f \in [1..n -> Int]
  <2>1. PICK t \in some : TRUE
    OBVIOUS
  <2>2. PICK i \in 1..n : f[i] = t
    BY <1>2
  <2>3. f \in [1..n -> Int]
    BY <1>2
  <2> QED BY <2>2, <2>3
<1>4. \E t \in some : \A u \in some : t <= u
  <2>1. PICK i \in 1..n : \A j \in 1..n : f[i] <= f[j]
    BY <1>3, OneIsLeast
  <2> QED BY <1>2, <2>1
<1>5. \E t \in some : \A u \in some : t >= u
  <2> DEFINE g == [i \in 1..n |-> -f[i]]
  <2>1. g \in [1..n -> Int]
    BY <1>3
  <2>2. PICK i \in 1..n : \A j \in 1..n : g[i] <= g[j]
    BY <1>3, <2>1, OneIsLeast
  <2>3. \A j \in 1..n : f[j] <= f[i]
    BY <1>3, <2>2
  <2>4. \A u \in some : f[i] >= u
    BY <1>2, <1>3, <2>3
  <2> QED BY <1>2, <2>4
<1> QED BY <1>4, <1>5 DEF Min, Max

\* The values of a function on a finite set are finitely many.
LEMMA FinitelyMany ==
  ASSUME NEW S, IsFiniteSet(S), NEW f, DOMAIN f = S, f = [s \in S |-> f[s]]
  PROVE  IsFiniteSet({f[s] : s \in S})
<1>1. f \in Surjection(S, {f[s] : s \in S})
  BY DEF Surjection
<1> QED BY <1>1, FS_Surjection

LEMMA HistoryTimes ==
  ASSUME TrainingTypes, NEW s \in DOMAIN history
  PROVE  s \in Symbols /\ history[s] \in SUBSET Times
<1>1. s \in Symbols
  BY DEF TrainingTypes, Symbols
<1>2. history[s] \subseteq UNION {history[t] : t \in DOMAIN history}
  OBVIOUS
<1>3. history[s] \subseteq Times
  BY <1>2 DEF Times, TrainingTypes
<1> QED BY <1>1, <1>3

\* The bars of a symbol have a first and a last; so have those of several symbols.
LEMMA SeriesEnds ==
  ASSUME FitsTraining, TrainingTypes,
         NEW symbols \in (SUBSET DOMAIN history) \ {{}}, \A s \in symbols : history[s] # {}
  PROVE  /\ Max({Min(history[s]) : s \in symbols}) \in Int
         /\ Min({Max(history[s]) : s \in symbols}) \in Int
<1>1. \A s \in symbols : Min(history[s]) \in Int /\ Max(history[s]) \in Int
  BY FirstAndLast DEF FitsTraining, TrainingTypes
<1>2. IsFiniteSet(symbols)
  BY FS_Subset DEF FitsTraining, TrainingTypes
<1> DEFINE first == [s \in symbols |-> Min(history[s])]
           last == [s \in symbols |-> Max(history[s])]
<1>3. IsFiniteSet({first[s] : s \in symbols}) /\ IsFiniteSet({last[s] : s \in symbols})
  <2>1. DOMAIN first = symbols /\ DOMAIN last = symbols
    OBVIOUS
  <2>2. first = [s \in symbols |-> first[s]] /\ last = [s \in symbols |-> last[s]]
    OBVIOUS
  <2> HIDE DEF first, last
  <2> QED BY <1>2, <2>1, <2>2, FinitelyMany
<1>4. /\ {first[s] : s \in symbols} = {Min(history[s]) : s \in symbols}
      /\ {last[s] : s \in symbols} = {Max(history[s]) : s \in symbols}
  OBVIOUS
<1> HIDE DEF first, last
<1> DEFINE firsts == {Min(history[s]) : s \in symbols}
           lasts == {Max(history[s]) : s \in symbols}
<1>5. firsts # {} /\ lasts # {} /\ firsts \subseteq Int /\ lasts \subseteq Int
  BY <1>1
<1>6. IsFiniteSet(firsts) /\ IsFiniteSet(lasts)
  BY <1>3, <1>4
<1> HIDE DEF firsts, lasts
<1>7. Max(firsts) \in Int /\ Min(lasts) \in Int
  BY <1>5, <1>6, FirstAndLast
<1> QED BY <1>7 DEF firsts, lasts

LEMMA MoreOfThem ==
  ASSUME NEW q \in Nat, NEW k \in Nat, NEW m \in Nat, k <= m
  PROVE  k * q \in Nat /\ m * q \in Nat /\ k * q <= m * q
<1>1. PICK e \in Nat : m = k + e
  <2>1. m - k \in Nat
    OBVIOUS
  <2> QED BY <2>1
<1>2. (k + e) * q = k * q + e * q
  OBVIOUS
<1>3. e * q \in Nat /\ k * q \in Nat
  OBVIOUS
<1> QED BY <1>1, <1>2, <1>3

LEMMA Quotient ==
  ASSUME NEW n \in Nat \ {0}, NEW d \in Nat
  PROVE  d \div n \in Nat /\ n * (d \div n) <= d
<1>1. d = n * (d \div n) + (d % n) /\ d \div n \in Nat /\ d % n \in 0..(n - 1)
  OBVIOUS
<1>2. PICK q \in Nat : q = d \div n
  BY <1>1
<1>3. n * q \in Nat
  BY <1>2
<1>4. d = n * q + (d % n)
  BY <1>1, <1>2
<1>5. d % n \in Nat
  BY <1>1
<1>6. n * q <= d
  BY <1>3, <1>4, <1>5
<1> QED BY <1>2, <1>6

LEMMA BlocksRise ==
  ASSUME NEW n \in Nat \ {0}, NEW mid \in Int, NEW finish \in Int, mid <= finish,
         NEW i \in 1..(n + 1), NEW j \in 1..(n + 1), i <= j,
         NEW c, c = [k \in 1..(n + 1) |->
                       IF k > n THEN finish ELSE mid + (k - 1) * ((finish - mid) \div n)]
  PROVE  c[i] <= c[j]
<1>1. finish - mid \in Nat
  OBVIOUS
<1>2. PICK q \in Nat : q = (finish - mid) \div n /\ n * q <= finish - mid
  BY <1>1, Quotient
<1>3. c[i] = (IF i > n THEN finish ELSE mid + (i - 1) * q)
      /\ c[j] = (IF j > n THEN finish ELSE mid + (j - 1) * q)
  BY <1>2
<1>4. CASE j <= n
  <2>1. i - 1 \in Nat /\ j - 1 \in Nat /\ i - 1 <= j - 1 /\ i <= n
    BY <1>4
  <2>2. (i - 1) * q \in Nat /\ (j - 1) * q \in Nat /\ (i - 1) * q <= (j - 1) * q
    BY <2>1, MoreOfThem
  <2>3. c[i] = mid + (i - 1) * q /\ c[j] = mid + (j - 1) * q
    BY <1>3, <1>4, <2>1
  <2> QED BY <2>2, <2>3
<1>5. CASE j > n /\ i <= n
  <2>1. i - 1 \in Nat /\ n \in Nat /\ i - 1 <= n
    BY <1>5
  <2>2. (i - 1) * q \in Nat /\ n * q \in Nat /\ (i - 1) * q <= n * q
    BY <2>1, MoreOfThem
  <2>3. c[i] = mid + (i - 1) * q /\ c[j] = finish
    BY <1>3, <1>5
  <2> QED BY <2>2, <2>3, <1>2
<1>6. CASE j > n /\ i > n
  BY <1>3, <1>6
<1> QED BY <1>4, <1>5, <1>6

\* The blocks of a range that is not empty follow one another.
LEMMA CutsFollow ==
  ASSUME FitsTraining, TrainingTypes,
         NEW symbols \in (SUBSET DOMAIN history) \ {{}}, \A s \in symbols : history[s] # {}
  PROVE  /\ Cuts(symbols) \in [1..(Folds + 1) -> Int]
         /\ Cuts(symbols)[1] < Cuts(symbols)[Folds + 1] =>
              \A i, j \in 1..(Folds + 1) : i <= j => Cuts(symbols)[i] <= Cuts(symbols)[j]
<1> DEFINE firsts == {Min(history[s]) : s \in symbols}
           lasts == {Max(history[s]) : s \in symbols}
           start == Max(firsts)
           finish == Min(lasts)
           mid == start + (finish - start) \div 2
<1>1. start \in Int /\ finish \in Int
  BY SeriesEnds
<1>2. mid \in Int /\ Folds \in Nat \ {0}
  BY <1>1 DEF FitsTraining
<1>3. Cuts(symbols) = [k \in 1..(Folds + 1) |->
                         IF k > Folds THEN finish ELSE mid + (k - 1) * ((finish - mid) \div Folds)]
  BY DEF Cuts
<1> HIDE DEF firsts, lasts, start, finish, mid
<1>4. Cuts(symbols) \in [1..(Folds + 1) -> Int]
  BY <1>1, <1>2, <1>3
<1>5. ASSUME Cuts(symbols)[1] < Cuts(symbols)[Folds + 1]
      PROVE  mid <= finish
  <2>1. Cuts(symbols)[Folds + 1] = finish
    BY <1>1, <1>2, <1>3
  <2>2. Cuts(symbols)[1] = mid + 0 * ((finish - mid) \div Folds)
    BY <1>1, <1>2, <1>3
  <2>3. (finish - mid) \div Folds \in Int
    BY <1>1, <1>2
  <2>4. Cuts(symbols)[1] = mid
    BY <2>2, <2>3, <1>2
  <2> QED BY <2>1, <2>4, <1>5, <1>1, <1>2
<1>6. ASSUME Cuts(symbols)[1] < Cuts(symbols)[Folds + 1],
             NEW i \in 1..(Folds + 1), NEW j \in 1..(Folds + 1), i <= j
      PROVE  Cuts(symbols)[i] <= Cuts(symbols)[j]
  BY <1>1, <1>2, <1>3, <1>5, <1>6, BlocksRise
<1> QED BY <1>4, <1>6

\* A series long enough for a walk-forward is not empty.
LEMMA LongIsNotEmpty ==
  ASSUME FitsTraining, NEW name \in StrategyNames, NEW bars,
         Cardinality(bars) >= 4 * Strategies[name].context
  PROVE  bars # {}
<1>1. Strategies[name].context \in Nat \ {0}
  BY DEF FitsTraining
<1>2. 4 * Strategies[name].context > 0
  BY <1>1
<1>3. Cardinality({}) = 0
  BY FS_EmptySet
<1> QED BY <1>1, <1>2, <1>3

\* The names that a run finds taken are fewer than the runs.
LEMMA TryFits ==
  ASSUME FitsTraining, TrainingTypes, NEW r \in Runs,
         \A t \in 1..run[r].try : \E other \in Runs : other # r /\ run[other].try = t
  PROVE  run[r].try + 1 \in Runs
<1> DEFINE n == run[r].try
           N == Cardinality(Runs)
           others == Runs \ {r}
           by == [t \in 1..n |-> CHOOSE other \in others : run[other].try = t]
<1>0. Runs = 1..N /\ N \in Nat /\ IsFiniteSet(Runs)
  BY FS_CardinalityType DEF FitsTraining
<1>1. n \in Nat /\ n >= 1
  <2>1. run[r].try \in Runs
    BY DEF TrainingTypes, TrainingRuns
  <2>2. run[r].try \in 1..N
    BY <2>1, <1>0
  <2> QED BY <2>2, <1>0
<1>2. IsFiniteSet(others) /\ Cardinality(others) = N - 1
  BY <1>0, FS_RemoveElement
<1>3. \A t \in 1..n : by[t] \in others /\ run[by[t]].try = t
  OBVIOUS
<1>4. by \in Injection(1..n, others)
  <2>1. by \in [1..n -> others]
    BY <1>3
  <2>2. \A a, b \in DOMAIN by : by[a] = by[b] => a = b
    BY <1>3
  <2> HIDE DEF by
  <2> QED BY <2>1, <2>2 DEF Injection, IsInjective
<1>5. Cardinality(1..n) <= N - 1
  BY <1>2, <1>4, FS_Injection
<1>6. Cardinality(1..n) = n
  BY <1>1, FS_Interval
<1>7. n + 1 \in 1..N
  BY <1>0, <1>1, <1>5, <1>6
<1> QED BY <1>0, <1>7

-----------------------------------------------------------------------------
(* What a step of a run leaves to the others *)

LEMMA OfRun ==
  ASSUME FitsTraining, TrainingTypes, NEW r \in Runs
  PROVE  /\ run[r] \in TrainingRuns /\ run[r].try \in Nat /\ run[r].try >= 1
         /\ Asked(r) /\ run[r].pc # "off" => Id(r) \in Ids
<1>1. run[r] \in TrainingRuns
  BY DEF TrainingTypes
<1>2. run[r].try \in Runs /\ Runs = 1..Cardinality(Runs)
  BY <1>1 DEF TrainingRuns, FitsTraining
<1>3. Cardinality(Runs) \in Nat
  BY FS_CardinalityType DEF FitsTraining
<1> QED BY <1>1, <1>2, <1>3 DEF Asked, Id, Ids

\* What is said of a run depends on the run and on its history.
LEMMA SameRun ==
  ASSUME NEW o, run'[o] = run[o], history' = history
  PROVE  /\ Id(o)' = Id(o)
         /\ \A k, s : /\ TrainSet(o, k, s)' = TrainSet(o, k, s)
                      /\ TestSet(o, k, s)' = TestSet(o, k, s)
                      /\ Place(o, k, s)' = Place(o, k, s)
         /\ \A k, model : Learns(o, k, model) => Learns(o, k, model)'
         /\ \A p, model : Produced(o, p, model) => Produced(o, p, model)'
         /\ \A models : Complete(o, models) => Complete(o, models)'
         /\ Asked(o) => Asked(o)'
         /\ Cut(o) => Cut(o)'
         /\ Measured(o) => Measured(o)'
<1>1. Id(o)' = Id(o)
  BY DEF Id
<1>2. \A k, s : TrainSet(o, k, s)' = TrainSet(o, k, s)
  BY DEF TrainSet, Before
<1>3. \A k, s : TestSet(o, k, s)' = TestSet(o, k, s)
  BY DEF TestSet, Before
<1>4. \A k, s : Place(o, k, s)' = Place(o, k, s)
  BY DEF Place, Pooled
<1>5. \A k, model : Learns(o, k, model) => Learns(o, k, model)'
  BY <1>2 DEF Learns
<1>6. \A p, model : Produced(o, p, model) => Produced(o, p, model)'
  BY <1>4 DEF Produced
<1>7. \A models : Complete(o, models) => Complete(o, models)'
  BY <1>4 DEF Complete
<1>8. Asked(o) => Asked(o)'
  BY DEF Asked
<1>9. Cut(o) => Cut(o)'
  BY DEF Cut
<1>10. Measured(o) => Measured(o)'
  BY <1>3, <1>5 DEF Measured
<1> QED BY <1>1, <1>2, <1>3, <1>4, <1>5, <1>6, <1>7, <1>8, <1>9, <1>10

\* The run r goes on, in its folder if it has one.
GoesOn(r) ==
    /\ \E x : run' = [run EXCEPT ![r] = x]
    /\ history' = history /\ ~RunIs(r, "done")
    /\ Started(r) => Started(r)' /\ Id(r)' = Id(r)
    /\ Working(r)' =>
         /\ Id(r)' = Id(r)
         /\ Working(r) \/ (RunIs(r, "mkdir") /\ ~Dir(r).there)
    /\ \/ dirs' = dirs
       \/ /\ Working(r) \/ (RunIs(r, "mkdir") /\ ~Dir(r).there)
          /\ \A id \in Ids : id # Id(r) => dirs'[id] = dirs[id]

LEMMA OthersKeep ==
  ASSUME FitsTraining, TrainingIInv, NEW r \in Runs, GoesOn(r),
         NEW o \in Runs, o # r
  PROVE  Ran(o)'
<1>1. run'[o] = run[o] /\ history' = history
  BY DEF GoesOn
<1>2. Ran(o) /\ Ran(r) /\ TrainingTypes
  BY DEF TrainingIInv
<1>3. Asked(o)' /\ Cut(o)' /\ Measured(o)'
  BY <1>1, <1>2, SameRun DEF Ran
<1>4. Tried(o)'
  <2> SUFFICES ASSUME NEW t \in 1..(run[o].try - 1)
               PROVE  \E other \in Runs : other # o /\ Started(other)' /\ run'[other].try = t
    BY <1>1 DEF Tried
  <2>1. PICK other \in Runs : other # o /\ Started(other) /\ run[other].try = t
    BY <1>2 DEF Ran, Tried
  <2>2. CASE other = r
    BY <2>1, <2>2 DEF GoesOn, Id
  <2>3. CASE other # r
    <3>1. run'[other] = run[other]
      BY <2>3 DEF GoesOn
    <3> QED BY <2>1, <3>1 DEF Started
  <2> QED BY <2>2, <2>3
<1>5. ASSUME Working(o)
      PROVE  Dir(o)' = Dir(o) /\ (Working(r)' => Id(r)' # Id(o))
  <2>1. Id(o) \in Ids /\ Id(o)' = Id(o)
    BY <1>1, <1>2, <1>5, OfRun, SameRun DEF Ran, Working
  <2>2. Dir(o).there
    BY <1>2, <1>5 DEF Ran, Alone
  <2>3. Working(r) => Id(r) # Id(o)
    BY <1>2, <1>5 DEF Ran, Alone
  <2>4. ~Dir(r).there => Id(r) # Id(o)
    BY <2>2 DEF Dir
  <2>5. dirs'[Id(o)] = dirs[Id(o)]
    BY <2>1, <2>3, <2>4 DEF GoesOn
  <2>6. Working(r)' => Id(r)' # Id(o)
    BY <2>3, <2>4 DEF GoesOn
  <2> QED BY <2>1, <2>5, <2>6 DEF Dir
<1>6. Working(o)' => Working(o)
  BY <1>1 DEF Working
<1>7. Alone(o)'
  <2> SUFFICES ASSUME Working(o)
               PROVE  /\ Dir(o)'.there /\ ~Dir(o)'.deleted /\ Dir(o)'.summary.written # "whole"
                      /\ \A other \in Runs : other # o /\ Working(other)' => Id(other)' # Id(o)'
    BY <1>6 DEF Alone
  <2>1. Dir(o)'.there /\ ~Dir(o)'.deleted /\ Dir(o)'.summary.written # "whole"
    BY <1>2, <1>5 DEF Ran, Alone
  <2>2. Id(o)' = Id(o)
    BY <1>1, SameRun
  <2>3. ASSUME NEW other \in Runs, other # o, Working(other)'
        PROVE  Id(other)' # Id(o)'
    <3>1. CASE other = r
      BY <1>5, <2>2, <2>3, <3>1
    <3>2. CASE other # r
      <4>1. run'[other] = run[other]
        BY <3>2 DEF GoesOn
      <4>2. Working(other) /\ Id(other)' = Id(other)
        BY <2>3, <4>1 DEF Working, Id
      <4> QED BY <1>2, <2>2, <2>3, <4>2 DEF Ran, Alone
    <3> QED BY <3>1, <3>2
  <2> QED BY <2>1, <2>3
<1>8. Trained(o)'
  <2>1. run[o].pc \in {"folds", "final", "summary"} => Dir(o)' = Dir(o)
    BY <1>5 DEF Working
  <2>2. Trained(o)
    BY <1>2 DEF Ran
  <2>3. run[o].pc = "folds" =>
           \A p \in DOMAIN Dir(o)'.model : p[1] \in Blocks /\ Learns(o, p[1], Dir(o).model[p])'
    BY <2>1, <2>2, <1>1, SameRun DEF Trained
  <2>4. run[o].pc = "final" => DOMAIN Dir(o)'.model = {}
    BY <2>1, <2>2 DEF Trained
  <2>5. run[o].pc = "summary" =>
          /\ \A p \in DOMAIN Dir(o)'.model : Produced(o, p, Dir(o).model[p])'
          /\ run[o].final = "ok" => Complete(o, Dir(o).model)'
    BY <2>1, <2>2, <1>1, SameRun DEF Trained
  <2> QED BY <1>1, <2>3, <2>4, <2>5 DEF Trained
<1> QED BY <1>3, <1>4, <1>7, <1>8 DEF Ran

LEMMA OtherFoldersKeep ==
  ASSUME FitsTraining, TrainingIInv, NEW r \in Runs, GoesOn(r),
         NEW id \in Ids, dirs'[id] = dirs[id]
  PROVE  Kept(id)'
<1>0. PICK d : d = dirs[id] /\ d = dirs'[id]
  OBVIOUS
<1>w. PICK w : w = d.summary.started
  OBVIOUS
<1>1. Kept(id)
  BY DEF TrainingIInv
<1>2. d.there => \E o \in Runs : Started(o)' /\ Id(o)' = id
  <2> SUFFICES ASSUME d.there PROVE \E o \in Runs : Started(o)' /\ Id(o)' = id
    OBVIOUS
  <2>1. PICK o \in Runs : Started(o) /\ Id(o) = id
    BY <1>0, <1>1 DEF Kept
  <2>2. CASE o = r
    BY <2>1, <2>2 DEF GoesOn
  <2>3. CASE o # r
    <3>1. run'[o] = run[o]
      BY <2>3 DEF GoesOn
    <3> QED BY <2>1, <3>1 DEF Started, Id
  <2> QED BY <2>2, <2>3
<1>3. ASSUME d.summary.written = "whole"
      PROVE  /\ w \in Runs /\ RunIs(w, "done")' /\ Id(w)' = id
             /\ d.summary.symbols = run'[w].symbols /\ d.summary.final = run'[w].final
             /\ \A p \in DOMAIN d.model : Produced(w, p, d.model[p])'
             /\ run'[w].final = "ok" /\ ~d.deleted => Complete(w, d.model)'
  <2>1. /\ w \in Runs /\ RunIs(w, "done") /\ Id(w) = id
        /\ d.summary.symbols = run[w].symbols /\ d.summary.final = run[w].final
        /\ \A p \in DOMAIN d.model : Produced(w, p, d.model[p])
        /\ run[w].final = "ok" /\ ~d.deleted => Complete(w, d.model)
    BY <1>0, <1>w, <1>1, <1>3 DEF Kept
  <2>2. w # r
    BY <2>1 DEF GoesOn
  <2>3. run'[w] = run[w] /\ history' = history
    BY <2>2 DEF GoesOn
  <2>4. /\ \A p \in DOMAIN d.model : Produced(w, p, d.model[p])'
        /\ Complete(w, d.model) => Complete(w, d.model)'
        /\ Id(w)' = Id(w)
    BY <2>1, <2>3, SameRun
  <2> QED BY <2>1, <2>3, <2>4 DEF RunIs
<1>4. /\ ~d.there => d = NoDir
      /\ d.summary.written # "whole" => w = 0
      /\ d.summary.written = "whole" => d.there
  BY <1>0, <1>w, <1>1 DEF Kept
<1> QED BY <1>0, <1>w, <1>2, <1>3, <1>4 DEF Kept, NoDir, NoSummary

-----------------------------------------------------------------------------
(* A step of a run, action by action *)

LEMMA TriedKept ==
  ASSUME TrainingIInv, NEW r \in Runs, GoesOn(r), run'[r].try = run[r].try
  PROVE  Tried(r)'
<1> SUFFICES ASSUME NEW t \in 1..(run[r].try - 1)
             PROVE  \E other \in Runs : other # r /\ Started(other)' /\ run'[other].try = t
  BY DEF Tried
<1>1. PICK other \in Runs : other # r /\ Started(other) /\ run[other].try = t
  BY DEF TrainingIInv, Ran, Tried
<1>2. run'[other] = run[other]
  BY <1>1 DEF GoesOn
<1> QED BY <1>1, <1>2 DEF Started

LEMMA Together ==
  ASSUME FitsTraining, TrainingIInv, NEW r \in Runs, GoesOn(r), TrainingTypes', Ran(r)',
         \A id \in Ids : id = Id(r) /\ dirs' # dirs => Kept(id)'
  PROVE  TrainingIInv'
<1>1. \A o \in Runs : Ran(o)'
  BY OthersKeep
<1>2. ASSUME NEW id \in Ids PROVE Kept(id)'
  <2>1. CASE id = Id(r) /\ dirs' # dirs
    BY <2>1
  <2>2. CASE id # Id(r) \/ dirs' = dirs
    <3>1. dirs'[id] = dirs[id]
      BY <2>2 DEF GoesOn
    <3> QED BY <3>1, OtherFoldersKeep
  <2> QED BY <2>1, <2>2
<1> QED BY <1>1, <1>2 DEF TrainingIInv

LEMMA BecomeTypes ==
  ASSUME TrainingTypes, NEW r \in Runs, NEW x \in TrainingRuns, Become(r, x)
  PROVE  /\ run' \in [Runs -> TrainingRuns] /\ run'[r] = x
         /\ \A o \in Runs : o # r => run'[o] = run[o]
  BY DEF TrainingTypes, Become

LEMMA LaunchKeeps ==
  ASSUME FitsTraining, TrainingIInv, NEW r \in Runs, Launch(r)
  PROVE  TrainingIInv'
<1>1. TrainingTypes /\ Ran(r) /\ run[r].pc = "off"
  BY DEF TrainingIInv, Launch, RunIs
<1>2. PICK ask \in Wanted :
        Become(r, [run[r] EXCEPT !.pc = "load", !.strategy = ask[1], !.symbols = ask[2]])
  BY DEF Launch
<1> DEFINE x == [run[r] EXCEPT !.pc = "load", !.strategy = ask[1], !.symbols = ask[2]]
<1>3. history' = history /\ dirs' = dirs /\ history \in Histories
  BY <1>1 DEF Launch, TrainingTypes
<1>4. ask[1] \in StrategyNames /\ ask[2] # {} /\ ask[2] \subseteq DOMAIN history
  BY <1>3 DEF FitsTraining
<1>5. run[r] \in TrainingRuns /\ ask[2] \in SUBSET Symbols
  BY <1>1, <1>3, <1>4 DEF TrainingTypes, Symbols
<1>6. /\ x \in TrainingRuns /\ x.pc = "load" /\ x.strategy = ask[1] /\ x.symbols = ask[2]
      /\ x.try = run[r].try /\ x.results = run[r].results /\ x.todo = run[r].todo
  BY <1>4, <1>5 DEF TrainingRuns
<1>7. Become(r, x)
  BY <1>2
<1> HIDE DEF x
<1>8. run'[r] = x /\ TrainingTypes'
  BY <1>1, <1>3, <1>6, <1>7, BecomeTypes DEF TrainingTypes
<1>9. GoesOn(r)
  BY <1>1, <1>3, <1>6, <1>7, <1>8 DEF GoesOn, Become, Started, Working, RunIs
<1>10. Ran(r)'
  <2>1. Tried(r)'
    BY <1>6, <1>8, <1>9, TriedKept
  <2>2. run'[r].results = {} /\ \A k \in Blocks : run'[r].todo[k] = {}
    BY <1>1, <1>6, <1>8 DEF Ran, Measured
  <2> QED BY <1>3, <1>4, <1>6, <1>8, <2>1, <2>2
          DEF Ran, Asked, Cut, Alone, Working, Trained, Measured
<1> QED BY <1>3, <1>8, <1>9, <1>10, Together

\* A run that goes on with a record that says the same of what it measured.
LEMMA SameRunButStage ==
  ASSUME FitsTraining, TrainingIInv, NEW r \in Runs, NEW x \in TrainingRuns,
         Become(r, x), history' = history, dirs' = dirs,
         x.pc = run[r].pc, x.strategy = run[r].strategy, x.symbols = run[r].symbols,
         x.try = run[r].try, x.cut = run[r].cut, x.final = run[r].final, ~RunIs(r, "done"),
         Measured(r)'
  PROVE  TrainingIInv'
<1>1. TrainingTypes /\ Ran(r)
  BY DEF TrainingIInv
<1>2. run'[r] = x /\ TrainingTypes'
  BY <1>1, BecomeTypes DEF TrainingTypes
<1>3. /\ Id(r)' = Id(r) /\ Dir(r)' = Dir(r)
      /\ Working(r)' = Working(r) /\ Started(r)' = Started(r)
  BY <1>2 DEF Id, Dir, Working, Started
<1>4. GoesOn(r)
  BY <1>3 DEF GoesOn, Become
<1>5. Tried(r)'
  BY <1>2, <1>4, TriedKept
<1>6. Asked(r)' /\ Cut(r)'
  BY <1>1, <1>2 DEF Ran, Asked, Cut
<1>7. Alone(r)'
  <2>1. ASSUME NEW other \in Runs, other # r, Working(other)', Working(r)'
        PROVE  Id(other)' # Id(r)'
    <3>1. run'[other] = run[other]
      BY <1>1, <2>1, BecomeTypes
    <3>2. Working(other) /\ Id(other)' = Id(other)
      BY <2>1, <3>1 DEF Working, Id
    <3> QED BY <1>1, <1>3, <2>1, <3>2 DEF Ran, Alone
  <2> QED BY <1>1, <1>3, <2>1 DEF Ran, Alone
<1>8. /\ \A k, model : Learns(r, k, model) => Learns(r, k, model)'
      /\ \A p, model : Produced(r, p, model) => Produced(r, p, model)'
      /\ \A models : Complete(r, models) => Complete(r, models)'
  <2>1. \A k, s : TrainSet(r, k, s)' = TrainSet(r, k, s)
    BY <1>2 DEF TrainSet, Before
  <2>2. \A k, s : Place(r, k, s)' = Place(r, k, s)
    BY <1>2 DEF Place, Pooled
  <2> QED BY <1>2, <2>1, <2>2 DEF Learns, Produced, Complete
<1>9. Trained(r)'
  BY <1>1, <1>2, <1>3, <1>8 DEF Ran, Trained
<1> QED BY <1>1, <1>2, <1>4, <1>5, <1>6, <1>7, <1>9, Together DEF Ran

LEMMA SameSets ==
  ASSUME NEW r, run'[r].cut = run[r].cut, history' = history
  PROVE  /\ \A k, s : TrainSet(r, k, s)' = TrainSet(r, k, s) /\ TestSet(r, k, s)' = TestSet(r, k, s)
         /\ \A k, model : Learns(r, k, model) => Learns(r, k, model)'
<1>1. \A k, s : TrainSet(r, k, s)' = TrainSet(r, k, s) /\ TestSet(r, k, s)' = TestSet(r, k, s)
  BY DEF TrainSet, TestSet, Before
<1> QED BY <1>1 DEF Learns

LEMMA CancelKeeps ==
  ASSUME FitsTraining, TrainingIInv, NEW r \in Runs, Cancel(r)
  PROVE  TrainingIInv'
<1> DEFINE x == [run[r] EXCEPT !.cancelled = TRUE]
<1>1. TrainingTypes /\ Ran(r) /\ run[r] \in TrainingRuns
  BY DEF TrainingIInv, TrainingTypes
<1>2. /\ x \in TrainingRuns /\ x.pc = run[r].pc /\ x.strategy = run[r].strategy
      /\ x.symbols = run[r].symbols /\ x.try = run[r].try /\ x.cut = run[r].cut
      /\ x.final = run[r].final /\ x.results = run[r].results /\ x.fold = run[r].fold
      /\ x.todo = run[r].todo
  BY <1>1 DEF TrainingRuns
<1>3. Become(r, x) /\ history' = history /\ dirs' = dirs /\ run[r].pc \in {"folds", "final"}
  BY DEF Cancel
<1> HIDE DEF x
<1>4. run'[r] = x
  BY <1>1, <1>2, <1>3, BecomeTypes
<1>5. Measured(r)'
  BY <1>1, <1>2, <1>3, <1>4, SameSets DEF Ran, Measured
<1> QED BY <1>2, <1>3, <1>5, SameRunButStage DEF RunIs

LEMMA TakePlaceKeeps ==
  ASSUME FitsTraining, TrainingIInv, NEW r \in Runs, NEW k \in Blocks, TakePlace(r, k)
  PROVE  TrainingIInv'
<1>1. TrainingTypes /\ Ran(r) /\ run[r] \in TrainingRuns
  BY DEF TrainingIInv, TrainingTypes
<1>2. PICK stage \in {"training", "left"} : FoldTo(r, k, stage)
  BY DEF TakePlace
<1>3. /\ history' = history /\ dirs' = dirs
      /\ run[r].pc = "folds" /\ run[r].fold[k] = "waiting"
  BY DEF TakePlace, InFold, RunIs
<1> DEFINE x == [run[r] EXCEPT !.fold[k] = stage]
<1>4. /\ x \in TrainingRuns /\ x.pc = run[r].pc /\ x.strategy = run[r].strategy
      /\ x.symbols = run[r].symbols /\ x.try = run[r].try /\ x.cut = run[r].cut
      /\ x.final = run[r].final /\ x.results = run[r].results /\ x.todo = run[r].todo
      /\ \A j \in Blocks : j # k => x.fold[j] = run[r].fold[j]
  BY <1>1 DEF TrainingRuns, FoldStages
<1>5. Become(r, x)
  BY <1>2 DEF FoldTo
<1> HIDE DEF x
<1>6. run'[r] = x
  BY <1>1, <1>4, <1>5, BecomeTypes
<1>7. \A one \in run[r].results : one.fold \in Blocks /\ one.fold # k
  BY <1>1, <1>3 DEF Ran, Measured, TrainingRuns, Results
<1>8. Measured(r)'
  BY <1>1, <1>3, <1>4, <1>6, <1>7, SameSets DEF Ran, Measured
<1> QED BY <1>3, <1>4, <1>5, <1>8, SameRunButStage DEF RunIs

LEMMA StopsTesting ==
  ASSUME FitsTraining, TrainingIInv, NEW r \in Runs, NEW k \in Blocks,
         NEW stage \in {"done", "failed"}, InFold(r, k, "testing"), FoldTo(r, k, stage),
         UNCHANGED <<history, dirs>>
  PROVE  TrainingIInv'
<1>1. TrainingTypes /\ Ran(r) /\ run[r] \in TrainingRuns
  BY DEF TrainingIInv, TrainingTypes
<1>3. history' = history /\ dirs' = dirs /\ run[r].pc = "folds"
  BY DEF InFold, RunIs
<1> DEFINE x == [run[r] EXCEPT !.fold[k] = stage]
<1>4. /\ x \in TrainingRuns /\ x.pc = run[r].pc /\ x.strategy = run[r].strategy
      /\ x.symbols = run[r].symbols /\ x.try = run[r].try /\ x.cut = run[r].cut
      /\ x.final = run[r].final /\ x.results = run[r].results /\ x.todo = run[r].todo
      /\ \A j \in Blocks : x.fold[j] = IF j = k THEN stage ELSE run[r].fold[j]
  BY <1>1 DEF TrainingRuns, FoldStages
<1>5. Become(r, x)
  BY DEF FoldTo
<1> HIDE DEF x
<1>6. run'[r] = x
  BY <1>1, <1>4, <1>5, BecomeTypes
<1>7. \A one \in run[r].results : one.fold \in Blocks
  BY <1>1 DEF TrainingRuns, Results
<1>8. Measured(r)'
  BY <1>1, <1>3, <1>4, <1>6, <1>7, SameSets DEF Ran, Measured
<1> QED BY <1>3, <1>4, <1>5, <1>8, SameRunButStage DEF RunIs

LEMMA TestKeeps ==
  ASSUME FitsTraining, TrainingIInv, NEW r \in Runs, NEW k \in Blocks, Test(r, k)
  PROVE  TrainingIInv'
<1>1. TrainingTypes /\ Ran(r) /\ run[r] \in TrainingRuns
  BY DEF TrainingIInv, TrainingTypes
<1>2. /\ history' = history /\ dirs' = dirs /\ InFold(r, k, "testing")
      /\ run[r].pc = "folds" /\ run[r].fold[k] = "testing"
  BY DEF Test, InFold, RunIs
<1>3. CASE FoldTo(r, k, "done") \/ FoldTo(r, k, "failed")
  BY <1>2, <1>3, StopsTesting
<1>4. CASE ~(FoldTo(r, k, "done") \/ FoldTo(r, k, "failed"))
  <2> DEFINE s == CHOOSE t \in run[r].todo[k] : TRUE
             one == [fold |-> k, symbol |-> s, bars |-> TestSet(r, k, s),
                     model |-> Dir(r).model[Place(r, k, s)]]
             x == [run[r] EXCEPT !.todo[k] = @ \ {s}, !.results = @ \cup {one}]
  <2>1. run[r].todo[k] # {} /\ Place(r, k, s) \in DOMAIN Dir(r).model /\ Become(r, x)
    BY <1>4 DEF Test
  <2>2. s \in run[r].todo[k] /\ s \in run[r].symbols /\ s \in DOMAIN history /\ s \in Symbols
    <3>1. s \in run[r].todo[k]
      BY <2>1
    <3>2. run[r].todo[k] \subseteq run[r].symbols /\ run[r].symbols \subseteq DOMAIN history
      BY <1>1, <1>2 DEF Ran, Measured, Asked
    <3> QED BY <1>1, <3>1, <3>2, HistoryTimes
  <2>3. Learns(r, k, Dir(r).model[Place(r, k, s)])
    <3>1. Place(r, k, s)[1] = k
      BY DEF Place
    <3> QED BY <1>1, <1>2, <2>1, <3>1 DEF Ran, Trained
  <2>4. Id(r) \in Ids
    BY <1>1, <1>2, OfRun DEF Ran
  <2>5. Dir(r).model[Place(r, k, s)] \in Models
    <3>1. dirs[Id(r)] \in Folders
      BY <1>1, <2>4 DEF TrainingTypes
    <3>2. Dir(r).model \in UNION {[some -> Models] : some \in SUBSET Places}
      BY <3>1 DEF Dir, Folders
    <3> QED BY <2>1, <3>2
  <2>6. TestSet(r, k, s) \in SUBSET Times
    BY <1>1, <2>2, HistoryTimes DEF TestSet, Before
  <2>7. one \in Results /\ one.fold = k /\ one.symbol = s /\ one.bars = TestSet(r, k, s)
        /\ one.model = Dir(r).model[Place(r, k, s)]
    BY <2>2, <2>5, <2>6 DEF Results
  <2> HIDE DEF one, s
  <2>8. /\ x \in TrainingRuns /\ x.pc = run[r].pc /\ x.strategy = run[r].strategy
        /\ x.symbols = run[r].symbols /\ x.try = run[r].try /\ x.cut = run[r].cut
        /\ x.final = run[r].final /\ x.results = run[r].results \cup {one} /\ x.fold = run[r].fold
        /\ \A j \in Blocks : x.todo[j] = IF j = k THEN run[r].todo[k] \ {s} ELSE run[r].todo[j]
    BY <1>1, <2>7 DEF TrainingRuns
  <2> HIDE DEF x
  <2>9. run'[r] = x
    BY <1>1, <2>1, <2>8, BecomeTypes
  <2>10. \A two \in run[r].results : two.fold \in Blocks /\ ~(two.fold = k /\ two.symbol = s)
    <3>1. \A two \in run[r].results : two.fold \in Blocks
      BY <1>1 DEF TrainingRuns, Results
    <3>2. \A two \in run[r].results : two.symbol \notin run[r].todo[two.fold]
      BY <1>1 DEF Ran, Measured
    <3> QED BY <3>1, <3>2, <2>2
  <2>11. ASSUME NEW two \in x.results
         PROVE  /\ two.symbol \in DOMAIN history'
                /\ two.bars = TestSet(r, two.fold, two.symbol)'
                /\ two.symbol \notin x.todo[two.fold]
                /\ x.fold[two.fold] \notin {"waiting", "training"}
                /\ Learns(r, two.fold, two.model)'
                /\ \A three \in x.results :
                     three.fold = two.fold /\ three.symbol = two.symbol => three = two
    <3>1. CASE two = one
      BY <1>2, <2>2, <2>3, <2>7, <2>8, <2>9, <2>10, <3>1, SameSets
    <3>2. CASE two \in run[r].results
      <4>1. /\ two.symbol \in DOMAIN history
            /\ two.bars = TestSet(r, two.fold, two.symbol)
            /\ two.symbol \notin run[r].todo[two.fold]
            /\ run[r].fold[two.fold] \notin {"waiting", "training"}
            /\ Learns(r, two.fold, two.model)
            /\ \A three \in run[r].results :
                 three.fold = two.fold /\ three.symbol = two.symbol => three = two
        BY <1>1, <3>2 DEF Ran, Measured
      <4>2. two.bars = TestSet(r, two.fold, two.symbol)' /\ Learns(r, two.fold, two.model)'
        BY <4>1, <1>2, <2>8, <2>9, SameSets
      <4>3. two.symbol \notin x.todo[two.fold]
        BY <4>1, <2>8, <2>10, <3>2
      <4>4. \A three \in x.results : three.fold = two.fold /\ three.symbol = two.symbol => three = two
        BY <4>1, <2>7, <2>8, <2>10, <3>2
      <4> QED BY <1>2, <2>8, <4>1, <4>2, <4>3, <4>4
    <3> QED BY <2>8, <3>1, <3>2
  <2>12. \A j \in Blocks : x.todo[j] \subseteq x.symbols
    BY <1>1, <1>2, <2>8 DEF Ran, Measured
  <2>13. Measured(r)'
    BY <1>2, <2>8, <2>9, <2>11, <2>12 DEF Measured
  <2> QED BY <1>2, <2>1, <2>8, <2>13, SameRunButStage DEF RunIs
<1> QED BY <1>3, <1>4

\* A run that stops, or goes from its folds to its production model, keeps what names it.
LEMMA Leaves ==
  ASSUME FitsTraining, TrainingTypes, NEW r \in Runs,
         NEW pc \in {"final", "done", "over"}, Leave(r, pc)
  PROVE  /\ run' \in [Runs -> TrainingRuns] /\ (\E x : run' = [run EXCEPT ![r] = x])
         /\ run'[r].pc = pc /\ run'[r].strategy = run[r].strategy
         /\ run'[r].symbols = run[r].symbols /\ run'[r].try = run[r].try
         /\ run'[r].final = run[r].final /\ run'[r].results = {}
         /\ \A o \in Runs : o # r => run'[o] = run[o]
         /\ Id(r)' = Id(r)
<1>1. run[r] \in TrainingRuns
  BY DEF TrainingTypes
<1>2. Unstarted \in TrainingRuns
  <2>1. 1 \in Runs
    <3>1. Runs = 1..Cardinality(Runs) /\ Cardinality(Runs) \in Nat
      BY FS_CardinalityType DEF FitsTraining
    <3> QED BY <3>1
  <2> QED BY <2>1 DEF Unstarted, TrainingRuns, FoldStages
<1> DEFINE x == [Unstarted EXCEPT !.pc = pc, !.strategy = run[r].strategy, !.symbols = run[r].symbols,
                   !.try = run[r].try, !.final = run[r].final]
<1>3. /\ x \in TrainingRuns /\ x.pc = pc /\ x.strategy = run[r].strategy
      /\ x.symbols = run[r].symbols /\ x.try = run[r].try /\ x.final = run[r].final
      /\ x.results = Unstarted.results
  BY <1>1, <1>2 DEF TrainingRuns
<1>4. Unstarted.results = {}
  BY DEF Unstarted
<1>5. Become(r, x)
  BY DEF Leave
<1> HIDE DEF x
<1>6. run'[r] = x
  BY <1>3, <1>5, BecomeTypes
<1> QED BY <1>3, <1>4, <1>5, <1>6, BecomeTypes DEF Become, Id

LEMMA LeavingRan ==
  ASSUME FitsTraining, TrainingIInv, NEW r \in Runs, NEW pc \in {"done", "over"},
         Leave(r, pc), GoesOn(r), run[r].pc # "off"
  PROVE  Ran(r)'
<1>1. TrainingTypes /\ Ran(r) /\ history' = history
  BY DEF TrainingIInv, GoesOn
<1>2. /\ run'[r].pc = pc /\ run'[r].strategy = run[r].strategy
      /\ run'[r].symbols = run[r].symbols /\ run'[r].try = run[r].try /\ run'[r].results = {}
  BY <1>1, Leaves
<1>3. Tried(r)'
  BY <1>2, TriedKept
<1> QED BY <1>1, <1>2, <1>3 DEF Ran, Asked, Cut, Alone, Working, Trained, Measured

\* A run that stops without a word on the disk.
LEMMA StopsSilently ==
  ASSUME FitsTraining, TrainingIInv, NEW r \in Runs, Leave(r, "over"),
         UNCHANGED <<history, dirs>>, run[r].pc \notin {"off", "done"}
  PROVE  TrainingIInv'
<1>1. TrainingTypes /\ history' = history /\ dirs' = dirs
  BY DEF TrainingIInv
<1>2. GoesOn(r)
  BY <1>1, Leaves DEF GoesOn, Started, Working, RunIs
<1>3. TrainingTypes'
  BY <1>1, Leaves DEF TrainingTypes
<1> QED BY <1>1, <1>2, <1>3, LeavingRan, Together

LEMMA LoadKeeps ==
  ASSUME FitsTraining, TrainingIInv, NEW r \in Runs, Load(r)
  PROVE  TrainingIInv'
<1>1. TrainingTypes /\ Ran(r) /\ run[r] \in TrainingRuns
  BY DEF TrainingIInv, TrainingTypes
<1>2. run[r].pc = "load" /\ history' = history /\ dirs' = dirs
  BY DEF Load, RunIs
<1>3. CASE Leave(r, "over")
  BY <1>2, <1>3, StopsSilently
<1>4. CASE ~Leave(r, "over")
  <2> DEFINE cut == Cuts(run[r].symbols)
             x == [run[r] EXCEPT !.pc = "mkdir", !.cut = cut]
  <2>1. /\ \A s \in run[r].symbols : Cardinality(history[s]) >= 4 * Context(r)
        /\ cut[1] < cut[Folds + 1] /\ Become(r, x)
    BY <1>4 DEF Load
  <2>2. run[r].strategy \in StrategyNames /\ run[r].symbols \in (SUBSET DOMAIN history) \ {{}}
    BY <1>1, <1>2 DEF Ran, Asked
  <2>3. \A s \in run[r].symbols : history[s] # {}
    BY <2>1, <2>2, LongIsNotEmpty DEF Context
  <2>4. /\ cut \in [1..(Folds + 1) -> Int]
        /\ \A i, j \in 1..(Folds + 1) : i <= j => cut[i] <= cut[j]
    BY <1>1, <2>1, <2>2, <2>3, CutsFollow
  <2> HIDE DEF cut
  <2>5. /\ x \in TrainingRuns /\ x.pc = "mkdir" /\ x.strategy = run[r].strategy
        /\ x.symbols = run[r].symbols /\ x.try = run[r].try /\ x.cut = cut
        /\ x.results = run[r].results /\ x.todo = run[r].todo
    BY <1>1, <2>4 DEF TrainingRuns
  <2> HIDE DEF x
  <2>6. run'[r] = x /\ TrainingTypes'
    BY <1>1, <1>2, <2>1, <2>5, BecomeTypes DEF TrainingTypes
  <2>7. GoesOn(r)
    BY <1>2, <2>1, <2>5, <2>6 DEF GoesOn, Become, Started, Working, RunIs
  <2>8. Tried(r)'
    BY <2>5, <2>6, <2>7, TriedKept
  <2>9. run'[r].results = {} /\ \A k \in Blocks : run'[r].todo[k] = {}
    BY <1>1, <1>2, <2>5, <2>6 DEF Ran, Measured
  <2>10. Ran(r)'
    BY <1>2, <2>2, <2>4, <2>5, <2>6, <2>8, <2>9
       DEF Ran, Asked, Cut, Alone, Working, Trained, Measured
  <2> QED BY <1>2, <2>6, <2>7, <2>10, Together
<1> QED BY <1>3, <1>4

LEMMA MakeDirKeeps ==
  ASSUME FitsTraining, TrainingIInv, NEW r \in Runs, MakeDir(r)
  PROVE  TrainingIInv'
<1>1. TrainingTypes /\ Ran(r) /\ run[r] \in TrainingRuns
  BY DEF TrainingIInv, TrainingTypes
<1>2. run[r].pc = "mkdir" /\ history' = history
  BY DEF MakeDir, RunIs
<1>3. Id(r) \in Ids /\ run[r].results = {} /\ run[r].try \in Nat
  BY <1>1, <1>2, OfRun DEF Ran, Measured
<1>4. CASE Dir(r).there
  <2> DEFINE x == [run[r] EXCEPT !.try = @ + 1]
  <2>1. Become(r, x) /\ dirs' = dirs
    BY <1>4 DEF MakeDir
  <2>2. PICK owner \in Runs : Started(owner) /\ Id(owner) = Id(r)
    BY <1>3, <1>4 DEF TrainingIInv, Kept, Dir
  <2>3. owner # r /\ run[owner].try = run[r].try
    BY <1>2, <2>2 DEF Started, Id
  <2>4. \A t \in 1..run[r].try : \E other \in Runs : other # r /\ Started(other) /\ run[other].try = t
    <3>1. ASSUME NEW t \in 1..run[r].try
          PROVE  \E other \in Runs : other # r /\ Started(other) /\ run[other].try = t
      <4>1. CASE t = run[r].try
        BY <2>2, <2>3, <4>1
      <4>2. CASE t # run[r].try
        <5>1. t \in 1..(run[r].try - 1)
          BY <1>3, <4>2
        <5> QED BY <1>1, <5>1 DEF Ran, Tried
      <4> QED BY <4>1, <4>2
    <3> QED BY <3>1
  <2>5. run[r].try + 1 \in Runs
    BY <1>1, <2>4, TryFits
  <2>6. /\ x \in TrainingRuns /\ x.pc = "mkdir" /\ x.strategy = run[r].strategy
        /\ x.symbols = run[r].symbols /\ x.try = run[r].try + 1 /\ x.cut = run[r].cut
        /\ x.results = {} /\ x.todo = run[r].todo
    BY <1>1, <1>2, <1>3, <2>5 DEF TrainingRuns
  <2> HIDE DEF x
  <2>7. run'[r] = x /\ TrainingTypes' /\ \A o \in Runs : o # r => run'[o] = run[o]
    BY <1>1, <1>2, <2>1, <2>6, BecomeTypes DEF TrainingTypes
  <2>8. GoesOn(r)
    BY <1>2, <2>1, <2>6, <2>7 DEF GoesOn, Become, Started, Working, RunIs
  <2>9. Tried(r)'
    <3> SUFFICES ASSUME NEW t \in 1..((run[r].try + 1) - 1)
                 PROVE  \E other \in Runs : other # r /\ Started(other)' /\ run'[other].try = t
      BY <2>6, <2>7 DEF Tried
    <3>1. t \in 1..run[r].try
      BY <1>3
    <3>2. PICK other \in Runs : other # r /\ Started(other) /\ run[other].try = t
      BY <2>4, <3>1
    <3> QED BY <2>7, <3>2 DEF Started
  <2>10. Ran(r)'
    BY <1>1, <1>2, <2>6, <2>7, <2>9
       DEF Ran, Asked, Cut, Alone, Working, Trained, Measured
  <2> QED BY <1>2, <2>1, <2>7, <2>8, <2>10, Together
<1>5. CASE ~Dir(r).there
  <2> DEFINE x == [run[r] EXCEPT !.pc = "folds"]
             d == [dirs[Id(r)] EXCEPT !.there = TRUE]
  <2>1. Become(r, x) /\ dirs' = [dirs EXCEPT ![Id(r)] = d]
    BY <1>5 DEF MakeDir, RunTo
  <2>2. dirs[Id(r)] = NoDir
    BY <1>3, <1>5 DEF TrainingIInv, Kept, Dir
  <2>3. dirs[Id(r)] \in Folders
    BY <1>1, <1>3 DEF TrainingTypes
  <2>4. /\ d \in Folders /\ d.there /\ d.deleted = NoDir.deleted /\ d.model = NoDir.model
        /\ d.summary = NoDir.summary
    BY <2>2, <2>3 DEF Folders
  <2>5. /\ NoDir.deleted = FALSE /\ DOMAIN NoDir.model = {}
        /\ NoDir.summary.written = "no" /\ NoDir.summary.started = 0
    BY DEF NoDir, NoSummary
  <2>6. /\ x \in TrainingRuns /\ x.pc = "folds" /\ x.strategy = run[r].strategy
        /\ x.symbols = run[r].symbols /\ x.try = run[r].try /\ x.cut = run[r].cut
        /\ x.results = {} /\ x.todo = run[r].todo
    BY <1>1, <1>3 DEF TrainingRuns
  <2> HIDE DEF x, d
  <2>7. run'[r] = x /\ TrainingTypes' /\ \A o \in Runs : o # r => run'[o] = run[o]
    BY <1>1, <1>2, <2>1, <2>4, <2>6, BecomeTypes DEF TrainingTypes
  <2>8. dirs'[Id(r)] = d /\ \A id \in Ids : id # Id(r) => dirs'[id] = dirs[id]
    BY <1>1, <1>3, <2>1 DEF TrainingTypes
  <2>9. Id(r)' = Id(r)
    BY <2>6, <2>7 DEF Id
  <2>10. GoesOn(r)
    BY <1>2, <1>5, <2>1, <2>6, <2>7, <2>8, <2>9 DEF GoesOn, Become, Started, Working, RunIs
  <2>11. Tried(r)'
    BY <2>6, <2>7, <2>10, TriedKept
  <2>12. Alone(r)'
    <3>1. Dir(r)' = d
      BY <2>8, <2>9 DEF Dir
    <3>2. ASSUME NEW other \in Runs, other # r, Working(other)'
          PROVE  Id(other)' # Id(r)'
      <4>1. Working(other) /\ Id(other)' = Id(other)
        BY <2>7, <3>2 DEF Working, Id
      <4>2. Dir(other).there
        BY <4>1 DEF TrainingIInv, Ran, Alone
      <4> QED BY <1>5, <2>9, <4>1, <4>2 DEF Dir
    <3> QED BY <2>4, <2>5, <3>1, <3>2 DEF Alone
  <2>13. Ran(r)'
    <3>1. Asked(r)' /\ Cut(r)'
      BY <1>1, <1>2, <2>6, <2>7 DEF Ran, Asked, Cut
    <3>2. Trained(r)'
      <4>1. DOMAIN Dir(r)'.model = {}
        BY <2>4, <2>5, <2>8, <2>9 DEF Dir
      <4> QED BY <2>6, <2>7, <4>1 DEF Trained
    <3>3. Measured(r)'
      BY <1>1, <1>2, <2>6, <2>7 DEF Ran, Measured
    <3> QED BY <2>11, <2>12, <3>1, <3>2, <3>3 DEF Ran
  <2>14. ASSUME NEW id \in Ids, id = Id(r)
         PROVE  Kept(id)'
    <3>1. dirs'[id] = d /\ Started(r)' /\ Id(r)' = id
      BY <2>6, <2>7, <2>8, <2>9, <2>14 DEF Started
    <3> QED BY <2>4, <2>5, <3>1 DEF Kept
  <2> QED BY <2>7, <2>10, <2>13, <2>14, Together
<1> QED BY <1>4, <1>5

-----------------------------------------------------------------------------
(* The folder of a run *)

ModelSets == UNION {[some -> Models] : some \in SUBSET Places}

LEMMA NoModels == <<>> \in ModelSets /\ DOMAIN <<>> = {}
<1>1. <<>> \in [{} -> Models]
  OBVIOUS
<1>2. {} \in SUBSET Places
  OBVIOUS
<1> QED BY <1>1, <1>2 DEF ModelSets

LEMMA FolderTakes ==
  ASSUME TrainingTypes, NEW id \in Ids, NEW models \in ModelSets,
         dirs' = [dirs EXCEPT ![id].model = models]
  PROVE  /\ dirs' \in [Ids -> Folders] /\ dirs'[id].model = models
         /\ dirs'[id].there = dirs[id].there /\ dirs'[id].deleted = dirs[id].deleted
         /\ dirs'[id].summary = dirs[id].summary
         /\ \A other \in Ids : other # id => dirs'[other] = dirs[other]
<1> DEFINE d == [dirs[id] EXCEPT !.model = models]
<1>1. dirs[id] \in Folders /\ dirs \in [Ids -> Folders]
  BY DEF TrainingTypes
<1>2. /\ d \in Folders /\ d.model = models /\ d.there = dirs[id].there
      /\ d.deleted = dirs[id].deleted /\ d.summary = dirs[id].summary
  BY <1>1 DEF Folders, ModelSets
<1>3. dirs' = [dirs EXCEPT ![id] = d]
  OBVIOUS
<1> HIDE DEF d
<1> QED BY <1>1, <1>2, <1>3

\* Models saved at some places replace those that were there, and leave the others.
Saved(r, part, done, bars, where) ==
    LET old == dirs[Id(r)]
        new == dirs'[Id(r)]
    IN  /\ dirs' \in [Ids -> Folders]
        /\ new.there = old.there /\ new.deleted = old.deleted /\ new.summary = old.summary
        /\ \A other \in Ids : other # Id(r) => dirs'[other] = dirs[other]
        /\ DOMAIN new.model = where \cup DOMAIN old.model
        /\ \A p \in where :
             /\ new.model[p].by = r
             /\ DOMAIN new.model[p].bars \subseteq done
             /\ \A t \in done :
                  /\ t \in DOMAIN new.model[p].bars <=> Place(r, part, t) = p
                  /\ Place(r, part, t) = p => new.model[p].bars[t] = bars[t]
        /\ \A p \in DOMAIN old.model : p \notin where => new.model[p] = old.model[p]

LEMMA SaveTakes ==
  ASSUME FitsTraining, TrainingTypes, NEW r \in Runs, Id(r) \in Ids,
         NEW part \in 0..Folds, NEW done \in SUBSET DOMAIN history,
         NEW bars \in [done -> SUBSET Times], Save(r, part, done, bars),
         NEW where, \A p : p \in where <=> \E s \in done : p = Place(r, part, s)
  PROVE  Saved(r, part, done, bars, where)
<1> DEFINE new == [p \in {Place(r, part, s) : s \in done} |->
                     [by |-> r, bars |-> [s \in {t \in done : Place(r, part, t) = p} |-> bars[s]]]]
           old == dirs[Id(r)].model
           models == [p \in DOMAIN new \cup DOMAIN old |-> IF p \in DOMAIN new THEN new[p] ELSE old[p]]
<1>0. where = {Place(r, part, s) : s \in done}
  OBVIOUS
<1>1. dirs' = [dirs EXCEPT ![Id(r)].model = models]
  BY DEF Save, Dir
<1>2. old \in ModelSets
  <2>1. dirs[Id(r)] \in Folders
    BY DEF TrainingTypes
  <2> QED BY <2>1 DEF Folders, ModelSets
<1>3. PICK before \in SUBSET Places : old \in [before -> Models]
  BY <1>2 DEF ModelSets
<1>4. done \subseteq Symbols
  BY HistoryTimes
<1>5. where \subseteq Places
  BY <1>0, <1>4 DEF Place, Places
<1>6. ASSUME NEW p \in where PROVE new[p] \in Models
  <2>1. [s \in {t \in done : Place(r, part, t) = p} |-> bars[s]]
           \in [{t \in done : Place(r, part, t) = p} -> SUBSET Times]
    OBVIOUS
  <2>2. {t \in done : Place(r, part, t) = p} \in SUBSET Symbols
    BY <1>4
  <2> QED BY <1>0, <2>1, <2>2 DEF Models
<1>7. /\ models \in [where \cup before -> Models]
      /\ where \cup before \in SUBSET Places
  BY <1>0, <1>3, <1>5, <1>6
<1>8. models \in ModelSets
  BY <1>7 DEF ModelSets
<1>9. /\ dirs' \in [Ids -> Folders] /\ dirs'[Id(r)].model = models
      /\ dirs'[Id(r)].there = dirs[Id(r)].there /\ dirs'[Id(r)].deleted = dirs[Id(r)].deleted
      /\ dirs'[Id(r)].summary = dirs[Id(r)].summary
      /\ \A other \in Ids : other # Id(r) => dirs'[other] = dirs[other]
  <2> HIDE DEF models
  <2> QED BY <1>1, <1>8, FolderTakes
<1>10. DOMAIN models = where \cup DOMAIN old
  BY <1>0
<1>11. \A p \in where : models[p] = new[p]
  BY <1>0
<1>12. \A p \in where : /\ new[p].by = r
                        /\ DOMAIN new[p].bars \subseteq done
                        /\ \A t \in done : t \in DOMAIN new[p].bars <=> Place(r, part, t) = p
                        /\ \A t \in done : Place(r, part, t) = p => new[p].bars[t] = bars[t]
  BY <1>0
<1>13. \A p \in DOMAIN old : p \notin where => models[p] = old[p]
  BY <1>0
<1> HIDE DEF models, new, old
<1> QED BY <1>9, <1>10, <1>11, <1>12, <1>13 DEF old, Saved

\* The folder of a run at work is kept while it has no run.json.
LEMMA KeptAtWork ==
  ASSUME NEW r \in Runs, Started(r)', NEW id \in Ids, Id(r)' = id,
         dirs'[id].there, dirs'[id].summary.written # "whole", dirs'[id].summary.started = 0
  PROVE  Kept(id)'
  BY DEF Kept

\* What a folder at work says of itself.
LEMMA AtWork ==
  ASSUME FitsTraining, TrainingIInv, NEW r \in Runs, Working(r)
  PROVE  /\ Id(r) \in Ids /\ dirs[Id(r)] \in Folders
         /\ dirs[Id(r)].there /\ ~dirs[Id(r)].deleted
         /\ dirs[Id(r)].summary.written # "whole" /\ dirs[Id(r)].summary.started = 0
<1>1. Id(r) \in Ids
  BY OfRun DEF TrainingIInv, Ran, Working
<1> QED BY <1>1 DEF TrainingIInv, TrainingTypes, Ran, Alone, Dir, Kept

\* A run at work stays alone in its folder.
LEMMA AloneKept ==
  ASSUME FitsTraining, TrainingIInv, NEW r \in Runs, Working(r), Id(r)' = Id(r),
         \A o \in Runs : o # r => run'[o] = run[o],
         dirs'[Id(r)].there, ~dirs'[Id(r)].deleted, dirs'[Id(r)].summary.written # "whole"
  PROVE  Alone(r)'
<1>1. ASSUME NEW other \in Runs, other # r, Working(other)'
      PROVE  Id(other)' # Id(r)'
  <2>1. Working(other) /\ Id(other)' = Id(other)
    BY <1>1 DEF Working, Id
  <2> QED BY <1>1, <2>1 DEF TrainingIInv, Ran, Alone
<1> QED BY <1>1 DEF Alone, Dir

LEMMA TrainKeeps ==
  ASSUME FitsTraining, TrainingIInv, NEW r \in Runs, NEW k \in Blocks, Train(r, k)
  PROVE  TrainingIInv'
<1>1. TrainingTypes /\ Ran(r) /\ run[r] \in TrainingRuns
  BY DEF TrainingIInv, TrainingTypes
<1>2. /\ history' = history /\ run[r].pc = "folds" /\ run[r].fold[k] = "training"
      /\ Working(r) /\ Started(r)
  BY DEF Train, InFold, RunIs, Working, Started
<1>3. PICK done \in {{}, Learnt(r, k)} :
        /\ Save(r, k, done, [s \in done |-> TrainSet(r, k, s)])
        /\ Become(r, [run[r] EXCEPT
             !.fold[k] = IF done = Learnt(r, k) /\ done # {} THEN "testing" ELSE "failed",
             !.todo[k] = {s \in run[r].symbols : TestSet(r, k, s) # {}}])
  BY DEF Train
<1> DEFINE stage == IF done = Learnt(r, k) /\ done # {} THEN "testing" ELSE "failed"
           todo == {s \in run[r].symbols : TestSet(r, k, s) # {}}
           bars == [s \in done |-> TrainSet(r, k, s)]
           x == [run[r] EXCEPT !.fold[k] = stage, !.todo[k] = todo]
<1>4. /\ run[r].symbols \subseteq DOMAIN history /\ done \in SUBSET DOMAIN history
      /\ k \in 0..Folds /\ 0 \notin Blocks
  <2>1. run[r].symbols \subseteq DOMAIN history
    BY <1>1, <1>2 DEF Ran, Asked
  <2>2. done \subseteq run[r].symbols
    BY DEF Learnt
  <2> QED BY <2>1, <2>2 DEF Blocks, FitsTraining
<1>5. bars \in [done -> SUBSET Times]
  BY <1>1, <1>4, HistoryTimes DEF TrainSet, Before
<1>6. /\ x \in TrainingRuns /\ x.pc = "folds" /\ x.strategy = run[r].strategy
      /\ x.symbols = run[r].symbols /\ x.try = run[r].try /\ x.cut = run[r].cut
      /\ x.final = run[r].final /\ x.results = run[r].results
      /\ \A j \in Blocks : x.todo[j] = IF j = k THEN todo ELSE run[r].todo[j]
      /\ \A j \in Blocks : x.fold[j] = IF j = k THEN stage ELSE run[r].fold[j]
  <2>1. stage \in FoldStages
    BY DEF FoldStages
  <2>2. todo \in SUBSET Symbols
    BY <1>1 DEF TrainingRuns
  <2> HIDE DEF stage, todo
  <2> QED BY <1>1, <1>2, <2>1, <2>2 DEF TrainingRuns
<1>7. todo \subseteq run[r].symbols
  OBVIOUS
<1>8. Become(r, x) /\ Save(r, k, done, bars)
  BY <1>3
<1> HIDE DEF stage, todo, x
<1>9. /\ run'[r] = x /\ run' \in [Runs -> TrainingRuns]
      /\ \A o \in Runs : o # r => run'[o] = run[o]
  BY <1>1, <1>6, <1>8, BecomeTypes
<1>10. Id(r)' = Id(r) /\ \A s : Place(r, k, s)[1] = k
  BY <1>6, <1>9 DEF Id, Place
<1> DEFINE id == Id(r)
           where == {Place(r, k, s) : s \in done}
<1>11. /\ dirs' \in [Ids -> Folders]
       /\ dirs'[id].there /\ ~dirs'[id].deleted
       /\ dirs'[id].summary.written # "whole" /\ dirs'[id].summary.started = 0
       /\ \A other \in Ids : other # id => dirs'[other] = dirs[other]
       /\ DOMAIN dirs'[id].model = where \cup DOMAIN dirs[id].model
       /\ \A p \in where : /\ dirs'[id].model[p].by = r
                           /\ DOMAIN dirs'[id].model[p].bars \subseteq done
                           /\ \A t \in DOMAIN dirs'[id].model[p].bars :
                                dirs'[id].model[p].bars[t] = TrainSet(r, k, t)
       /\ \A p \in DOMAIN dirs[id].model : p \notin where => dirs'[id].model[p] = dirs[id].model[p]
  <2>1. /\ Id(r) \in Ids /\ dirs[id].there /\ ~dirs[id].deleted
        /\ dirs[id].summary.written # "whole" /\ dirs[id].summary.started = 0
    BY <1>2, AtWork
  <2>2. \A t \in done : bars[t] = TrainSet(r, k, t)
    OBVIOUS
  <2>0. \A p : p \in where <=> \E s \in done : p = Place(r, k, s)
    OBVIOUS
  <2> HIDE DEF bars, where, id
  <2>a. TrainingTypes /\ Id(r) \in Ids /\ k \in 0..Folds /\ done \in SUBSET DOMAIN history
    BY <1>1, <1>4, <2>1
  <2>3. Saved(r, k, done, bars, where)
    BY <2>a, <1>5, <1>8, <2>0, SaveTakes, Zenon
  <2>4. ASSUME NEW p \in where
        PROVE  /\ DOMAIN dirs'[id].model[p].bars \subseteq done
               /\ \A t \in DOMAIN dirs'[id].model[p].bars :
                    dirs'[id].model[p].bars[t] = TrainSet(r, k, t)
    BY <2>0, <2>2, <2>3, <2>4 DEF id, Saved
  <2> QED BY <2>1, <2>3, <2>4 DEF id, Saved
<1>12. GoesOn(r)
  BY <1>2, <1>6, <1>8, <1>9, <1>10, <1>11 DEF GoesOn, Become, Started, Working, RunIs
<1>13. TrainingTypes'
  BY <1>1, <1>2, <1>9, <1>11 DEF TrainingTypes
<1>14. Tried(r)'
  BY <1>6, <1>9, <1>12, TriedKept
<1>15. Alone(r)'
  BY <1>2, <1>9, <1>10, <1>11, AloneKept
<1>16. Asked(r)' /\ Cut(r)'
  BY <1>1, <1>2, <1>6, <1>9 DEF Ran, Asked, Cut
<1>17. /\ \A j, s : TrainSet(r, j, s)' = TrainSet(r, j, s) /\ TestSet(r, j, s)' = TestSet(r, j, s)
       /\ \A j, model : Learns(r, j, model) => Learns(r, j, model)'
  BY <1>2, <1>6, <1>9, SameSets
<1>18. ASSUME NEW p \in DOMAIN dirs'[id].model
       PROVE  p[1] \in Blocks /\ Learns(r, p[1], dirs'[id].model[p])
  <2>1. CASE p \in where
    <3>1. p[1] = k
      BY <1>10, <2>1
    <3> QED BY <1>4, <1>11, <2>1, <3>1 DEF Learns
  <2>2. CASE p \notin where
    <3>1. p \in DOMAIN dirs[id].model /\ dirs'[id].model[p] = dirs[id].model[p]
      BY <1>11, <1>18, <2>2
    <3> QED BY <1>1, <1>2, <3>1 DEF Ran, Trained, Dir
  <2> QED BY <2>1, <2>2
<1>19. Trained(r)'
  <2>1. \A p \in DOMAIN Dir(r)'.model : p[1] \in Blocks /\ Learns(r, p[1], Dir(r).model[p])'
    BY <1>10, <1>17, <1>18 DEF Dir
  <2> QED BY <1>6, <1>9, <2>1 DEF Trained
<1>20. Measured(r)'
  <2>1. \A one \in run[r].results : one.fold \in Blocks /\ one.fold # k
    BY <1>1, <1>2 DEF Ran, Measured, TrainingRuns, Results
  <2> QED BY <1>1, <1>2, <1>6, <1>7, <1>9, <1>17, <2>1 DEF Ran, Measured
<1>21. \A i \in Ids : i = id => Kept(i)'
  <2>1. Started(r)'
    BY <1>6, <1>9 DEF Started
  <2> QED BY <1>10, <1>11, <2>1, KeptAtWork
<1>22. Ran(r)'
  BY <1>14, <1>15, <1>16, <1>19, <1>20 DEF Ran
<1> QED BY <1>12, <1>13, <1>21, <1>22, Together

\* The folder is emptied of what nothing reads any more.
LEMMA ForgetTakes ==
  ASSUME FitsTraining, TrainingIInv, NEW r \in Runs, Working(r), Forget(r)
  PROVE  /\ Id(r) \in Ids /\ dirs' \in [Ids -> Folders]
         /\ dirs'[Id(r)].there /\ ~dirs'[Id(r)].deleted /\ DOMAIN dirs'[Id(r)].model = {}
         /\ dirs'[Id(r)].summary.written # "whole" /\ dirs'[Id(r)].summary.started = 0
         /\ \A other \in Ids : other # Id(r) => dirs'[other] = dirs[other]
<1>1. TrainingTypes /\ <<>> \in ModelSets /\ DOMAIN <<>> = {}
  BY NoModels DEF TrainingIInv
<1>2. PICK none \in ModelSets : none = <<>> /\ DOMAIN none = {}
  BY <1>1
<1>3. dirs' = [dirs EXCEPT ![Id(r)].model = none]
  BY <1>2 DEF Forget
<1>4. /\ Id(r) \in Ids /\ dirs[Id(r)].there /\ ~dirs[Id(r)].deleted
      /\ dirs[Id(r)].summary.written # "whole" /\ dirs[Id(r)].summary.started = 0
  BY AtWork
<1>5. PICK id \in Ids : id = Id(r)
  BY <1>4
<1>6. dirs' = [dirs EXCEPT ![id].model = none]
  BY <1>3, <1>5
<1>7. /\ dirs' \in [Ids -> Folders] /\ dirs'[id].model = none
      /\ dirs'[id].there = dirs[id].there /\ dirs'[id].deleted = dirs[id].deleted
      /\ dirs'[id].summary = dirs[id].summary
      /\ \A other \in Ids : other # id => dirs'[other] = dirs[other]
  BY <1>1, <1>6, FolderTakes
<1> QED BY <1>2, <1>4, <1>5, <1>7

\* A run that stops and leaves its folder without a run.json.
LEMMA StopsEmpty ==
  ASSUME FitsTraining, TrainingIInv, NEW r \in Runs, Working(r),
         Leave(r, "over"), Forget(r), history' = history
  PROVE  TrainingIInv'
<1>1. TrainingTypes
  BY DEF TrainingIInv
<1>2. /\ run'[r].pc = "over" /\ Id(r)' = Id(r) /\ run' \in [Runs -> TrainingRuns]
      /\ \E x : run' = [run EXCEPT ![r] = x]
  BY <1>1, Leaves
<1>3. GoesOn(r)
  BY <1>2, ForgetTakes DEF GoesOn, Working, Started, RunIs
<1>4. TrainingTypes'
  BY <1>1, <1>2, ForgetTakes DEF TrainingTypes
<1>5. Ran(r)'
  BY <1>3, LeavingRan DEF Working
<1>6. \A i \in Ids : i = Id(r) => Kept(i)'
  BY <1>2, ForgetTakes, KeptAtWork DEF Started
<1> QED BY <1>3, <1>4, <1>5, <1>6, Together

LEMMA JoinKeeps ==
  ASSUME FitsTraining, TrainingIInv, NEW r \in Runs, Join(r)
  PROVE  TrainingIInv'
<1>1. TrainingTypes /\ Ran(r)
  BY DEF TrainingIInv
<1>2. run[r].pc = "folds" /\ Working(r) /\ Forget(r) /\ history' = history
  BY DEF Join, RunIs, Working
<1>3. CASE run[r].cancelled
  BY <1>2, <1>3, StopsEmpty DEF Join
<1>4. CASE ~run[r].cancelled
  <2>1. /\ run'[r].pc = "final" /\ Id(r)' = Id(r) /\ run' \in [Runs -> TrainingRuns]
        /\ \E x : run' = [run EXCEPT ![r] = x]
        /\ run'[r].strategy = run[r].strategy /\ run'[r].symbols = run[r].symbols
        /\ run'[r].try = run[r].try /\ run'[r].results = {}
        /\ \A o \in Runs : o # r => run'[o] = run[o]
    BY <1>1, <1>4, Leaves DEF Join
  <2>2. GoesOn(r)
    BY <1>2, <2>1, ForgetTakes DEF GoesOn, Working, Started, RunIs
  <2>3. TrainingTypes'
    BY <1>1, <1>2, <2>1, ForgetTakes DEF TrainingTypes
  <2>4. Tried(r)'
    BY <2>1, <2>2, TriedKept
  <2>5. Alone(r)'
    BY <1>2, <2>1, ForgetTakes, AloneKept
  <2>6. DOMAIN Dir(r)'.model = {}
    BY <1>2, <2>1, ForgetTakes DEF Dir
  <2>7. Asked(r)' /\ Cut(r)' /\ Trained(r)' /\ Measured(r)'
    BY <1>1, <1>2, <2>1, <2>6 DEF Ran, Asked, Cut, Trained, Measured
  <2>8. \A i \in Ids : i = Id(r) => Kept(i)'
    BY <1>2, <2>1, ForgetTakes, KeptAtWork DEF Started
  <2> QED BY <2>2, <2>3, <2>4, <2>5, <2>7, <2>8, Together DEF Ran
<1> QED BY <1>3, <1>4

LEMMA KillKeeps ==
  ASSUME FitsTraining, TrainingIInv, NEW r \in Runs, Kill(r)
  PROVE  TrainingIInv'
<1>1. CASE run[r].pc = "folds"
  BY <1>1, StopsEmpty DEF Kill, Working
<1>2. CASE run[r].pc # "folds"
  BY <1>2, StopsSilently DEF Kill
<1> QED BY <1>1, <1>2

LEMMA TrainFinalKeeps ==
  ASSUME FitsTraining, TrainingIInv, NEW r \in Runs, TrainFinal(r)
  PROVE  TrainingIInv'
<1>1. TrainingTypes /\ Ran(r) /\ run[r] \in TrainingRuns
  BY DEF TrainingIInv, TrainingTypes
<1>2. history' = history /\ run[r].pc = "final" /\ Working(r) /\ Started(r)
  BY DEF TrainFinal, RunIs, Working, Started
<1>3. PICK done \in SUBSET run[r].symbols :
        /\ Save(r, Final, done, [s \in done |-> history[s]])
        /\ Become(r, [run[r] EXCEPT !.pc = "summary", !.final = FinalOf(r, done)])
  <2>1. (IF Pooled(r) THEN {{}, run[r].symbols} ELSE SUBSET run[r].symbols) \subseteq SUBSET run[r].symbols
    OBVIOUS
  <2> QED BY <2>1 DEF TrainFinal
<1> DEFINE x == [run[r] EXCEPT !.pc = "summary", !.final = FinalOf(r, done)]
           bars == [s \in done |-> history[s]]
           where == {Place(r, Final, s) : s \in done}
           id == Id(r)
<1>4. run[r].symbols \subseteq DOMAIN history /\ done \in SUBSET DOMAIN history /\ Final \in 0..Folds
  BY <1>1, <1>2 DEF Ran, Asked, Final, FitsTraining
<1>5. bars \in [done -> SUBSET Times]
  BY <1>1, <1>4, HistoryTimes
<1>6. /\ x \in TrainingRuns /\ x.pc = "summary" /\ x.strategy = run[r].strategy
      /\ x.symbols = run[r].symbols /\ x.try = run[r].try /\ x.results = run[r].results
      /\ x.final = FinalOf(r, done)
  <2>1. FinalOf(r, done) \in {"none", "ok", "failed"}
    BY DEF FinalOf
  <2> QED BY <1>1, <2>1 DEF TrainingRuns
<1>7. Become(r, x) /\ Save(r, Final, done, bars)
  BY <1>3
<1> HIDE DEF x
<1>8. /\ run'[r] = x /\ run' \in [Runs -> TrainingRuns]
      /\ \A o \in Runs : o # r => run'[o] = run[o]
  BY <1>1, <1>6, <1>7, BecomeTypes
<1>9. Id(r)' = id
  BY <1>6, <1>8 DEF Id
<1>10. /\ id \in Ids /\ dirs[id].there /\ ~dirs[id].deleted
       /\ dirs[id].summary.written # "whole" /\ dirs[id].summary.started = 0
       /\ DOMAIN dirs[id].model = {}
  BY <1>1, <1>2, AtWork DEF Ran, Trained, Dir
<1>11. Saved(r, Final, done, bars, where)
  <2>0. \A p : p \in where <=> \E s \in done : p = Place(r, Final, s)
    OBVIOUS
  <2>1. TrainingTypes /\ Id(r) \in Ids /\ Final \in 0..Folds /\ done \in SUBSET DOMAIN history
    BY <1>1, <1>4, <1>10
  <2> HIDE DEF bars, where, id
  <2> QED BY <2>0, <2>1, <1>5, <1>7, SaveTakes, Zenon
<1>12. /\ dirs' \in [Ids -> Folders]
       /\ dirs'[id].there /\ ~dirs'[id].deleted
       /\ dirs'[id].summary.written # "whole" /\ dirs'[id].summary.started = 0
       /\ \A other \in Ids : other # id => dirs'[other] = dirs[other]
       /\ DOMAIN dirs'[id].model = where
       /\ \A p \in where :
            /\ dirs'[id].model[p].by = r
            /\ \A t \in done : Place(r, Final, t) = p =>
                 t \in DOMAIN dirs'[id].model[p].bars /\ dirs'[id].model[p].bars[t] = history[t]
  <2>1. \A t \in done : bars[t] = history[t]
    OBVIOUS
  <2> HIDE DEF bars, where
  <2> QED BY <1>10, <1>11, <2>1 DEF Saved
<1>13. GoesOn(r)
  BY <1>2, <1>6, <1>7, <1>8, <1>9, <1>12 DEF GoesOn, Become, Started, Working, RunIs
<1>14. TrainingTypes'
  BY <1>1, <1>2, <1>8, <1>12 DEF TrainingTypes
<1>15. Tried(r)'
  BY <1>6, <1>8, <1>13, TriedKept
<1>16. Alone(r)'
  BY <1>2, <1>8, <1>9, <1>12, AloneKept
<1>17. Asked(r)' /\ Cut(r)' /\ Measured(r)'
  BY <1>1, <1>2, <1>6, <1>8 DEF Ran, Asked, Cut, Measured
<1>18. \A s : Place(r, Final, s)' = Place(r, Final, s)
  BY <1>6, <1>8 DEF Place, Pooled
<1>19. x.final = "ok" => done = run[r].symbols
  BY <1>6 DEF FinalOf
<1>20. Trained(r)'
  <2>1. Dir(r)' = dirs'[id]
    BY <1>9 DEF Dir
  <2>2. ASSUME NEW p \in where
        PROVE  Produced(r, p, Dir(r).model[p])'
    <3>1. dirs'[id].model[p].by = r
      BY <1>12
    <3>2. \E s \in x.symbols : p = Place(r, Final, s)'
      BY <1>6, <1>18
    <3>3. ASSUME x.final = "ok", NEW s \in x.symbols, p = Place(r, Final, s)'
          PROVE  /\ s \in DOMAIN dirs'[id].model[p].bars
                 /\ dirs'[id].model[p].bars[s] = history'[s]
      BY <1>2, <1>6, <1>12, <1>18, <1>19, <3>3
    <3> QED BY <1>8, <2>1, <3>1, <3>2, <3>3 DEF Produced
  <2>3. ASSUME x.final = "ok"
        PROVE  Complete(r, Dir(r).model)'
    <3>1. \A s \in x.symbols : Place(r, Final, s)' \in where
      BY <1>6, <1>18, <1>19, <2>3
    <3> QED BY <1>8, <1>12, <2>1, <3>1 DEF Complete
  <2>4. DOMAIN Dir(r)'.model = where
    BY <1>12, <2>1
  <2> HIDE DEF where
  <2> QED BY <1>6, <1>8, <2>2, <2>3, <2>4 DEF Trained
<1>21. \A i \in Ids : i = id => Kept(i)'
  <2>1. Started(r)'
    BY <1>6, <1>8 DEF Started
  <2> QED BY <1>9, <1>12, <2>1, KeptAtWork
<1> QED BY <1>13, <1>14, <1>15, <1>16, <1>17, <1>20, <1>21, Together DEF Ran

LEMMA SummariseKeeps ==
  ASSUME FitsTraining, TrainingIInv, NEW r \in Runs, Summarise(r)
  PROVE  TrainingIInv'
<1>1. TrainingTypes /\ Ran(r) /\ run[r] \in TrainingRuns /\ r \in Nat \ {0}
  <2>1. Runs = 1..Cardinality(Runs) /\ Cardinality(Runs) \in Nat
    BY FS_CardinalityType DEF FitsTraining
  <2> QED BY <2>1 DEF TrainingIInv, TrainingTypes
<1>2. history' = history /\ run[r].pc = "summary" /\ Working(r) /\ Started(r)
  BY DEF Summarise, RunIs, Working, Started
<1>3. /\ Id(r) \in Ids /\ dirs[Id(r)] \in Folders
      /\ dirs[Id(r)].there /\ ~dirs[Id(r)].deleted
      /\ dirs[Id(r)].summary.written # "whole" /\ dirs[Id(r)].summary.started = 0
  BY <1>2, AtWork
<1>4. CASE dirs' = dirs /\ Leave(r, "over")
  BY <1>2, <1>4, StopsSilently
<1>5. CASE /\ run' = run
           /\ dirs' = [dirs EXCEPT ![Id(r)].summary.written = "part"]
  <2> DEFINE d == [dirs[Id(r)] EXCEPT !.summary.written = "part"]
  <2>1. /\ d \in Folders /\ d.there /\ ~d.deleted /\ d.model = dirs[Id(r)].model
        /\ d.summary.written = "part" /\ d.summary.started = 0
    BY <1>3 DEF Folders, Summaries
  <2>2. dirs' = [dirs EXCEPT ![Id(r)] = d]
    BY <1>5
  <2> HIDE DEF d
  <2>3. /\ dirs' \in [Ids -> Folders] /\ dirs'[Id(r)] = d
        /\ \A other \in Ids : other # Id(r) => dirs'[other] = dirs[other]
    BY <1>1, <1>3, <2>1, <2>2 DEF TrainingTypes
  <2>4. \A o : run'[o] = run[o] /\ Id(o)' = Id(o)
    BY <1>5 DEF Id
  <2>5. GoesOn(r) /\ TrainingTypes'
    <3>1. run' = [run EXCEPT ![r] = run[r]]
      BY <1>1, <1>5 DEF TrainingTypes
    <3> QED BY <1>1, <1>2, <1>5, <2>3, <2>4, <3>1
            DEF GoesOn, Working, Started, RunIs, TrainingTypes
  <2>6. Asked(r)' /\ Cut(r)' /\ Measured(r)'
    BY <1>1, <1>2, <2>4, SameRun DEF Ran
  <2>7. Tried(r)'
    BY <2>4, <2>5, TriedKept
  <2>8. Alone(r)'
    BY <1>2, <2>1, <2>3, <2>4, AloneKept
  <2>9. Dir(r)'.model = Dir(r).model
    BY <2>1, <2>3, <2>4 DEF Dir
  <2>10. Trained(r)'
    <3>1. \A p \in DOMAIN Dir(r)'.model : Produced(r, p, Dir(r).model[p])'
      BY <1>1, <1>2, <2>4, <2>9, SameRun DEF Ran, Trained
    <3>2. run'[r].final = "ok" => Complete(r, Dir(r).model)'
      BY <1>1, <1>2, <2>4, <2>9, SameRun DEF Ran, Trained
    <3> QED BY <1>2, <2>4, <3>1, <3>2 DEF Trained
  <2>11. \A i \in Ids : i = Id(r) => Kept(i)'
    BY <1>2, <2>1, <2>3, <2>4, KeptAtWork DEF Started
  <2> QED BY <2>5, <2>6, <2>7, <2>8, <2>10, <2>11, Together DEF Ran
<1>6. CASE /\ dirs' = [dirs EXCEPT ![Id(r)].summary =
                [written |-> "whole", started |-> r, symbols |-> run[r].symbols,
                 final |-> run[r].final]]
           /\ Leave(r, "done")
  <2> DEFINE said == [written |-> "whole", started |-> r, symbols |-> run[r].symbols,
                      final |-> run[r].final]
             d == [dirs[Id(r)] EXCEPT !.summary = said]
  <2>1. /\ said \in Summaries /\ said.written = "whole" /\ said.started = r
        /\ said.symbols = run[r].symbols /\ said.final = run[r].final
    BY <1>1 DEF Summaries, TrainingRuns
  <2>2. dirs' = [dirs EXCEPT ![Id(r)] = d]
    BY <1>6
  <2> HIDE DEF said
  <2>3. /\ d \in Folders /\ d.there /\ d.model = dirs[Id(r)].model /\ d.summary = said
    BY <1>3, <2>1 DEF Folders
  <2> HIDE DEF d
  <2>4. /\ dirs' \in [Ids -> Folders] /\ dirs'[Id(r)] = d
        /\ \A other \in Ids : other # Id(r) => dirs'[other] = dirs[other]
    BY <1>1, <1>3, <2>2, <2>3 DEF TrainingTypes
  <2>5. /\ run' \in [Runs -> TrainingRuns] /\ (\E x : run' = [run EXCEPT ![r] = x])
        /\ run'[r].pc = "done" /\ run'[r].strategy = run[r].strategy
        /\ run'[r].symbols = run[r].symbols /\ run'[r].final = run[r].final
        /\ Id(r)' = Id(r)
    BY <1>1, <1>6, Leaves
  <2>6. GoesOn(r)
    BY <1>2, <2>4, <2>5 DEF GoesOn, Working, Started, RunIs
  <2>7. TrainingTypes'
    BY <1>1, <1>2, <2>4, <2>5 DEF TrainingTypes
  <2>8. Ran(r)'
    BY <1>2, <1>6, <2>6, LeavingRan
  <2>9. \A s : Place(r, Final, s)' = Place(r, Final, s)
    BY <2>5 DEF Place, Pooled
  <2>10. /\ \A p, model : Produced(r, p, model) => Produced(r, p, model)'
         /\ \A models : Complete(r, models) => Complete(r, models)'
    BY <1>2, <2>5, <2>9 DEF Produced, Complete
  <2>11. /\ \A p \in DOMAIN d.model : Produced(r, p, d.model[p])
         /\ run[r].final = "ok" => Complete(r, d.model)
    BY <1>1, <1>2, <2>3 DEF Ran, Trained, Dir
  <2>12. ASSUME NEW i \in Ids, i = Id(r) PROVE Kept(i)'
    <3>1. PICK e : e = d /\ e = dirs'[i]
      BY <2>4, <2>12
    <3>2. /\ \A p \in DOMAIN e.model : Produced(r, p, e.model[p])'
          /\ run[r].final = "ok" => Complete(r, e.model)'
      BY <2>10, <2>11, <3>1
    <3>3. e.there /\ e.summary.written = "whole" /\ e.summary.started = r
          /\ e.summary.symbols = run[r].symbols /\ e.summary.final = run[r].final
      BY <2>1, <2>3, <3>1
    <3>4. Started(r)' /\ RunIs(r, "done")'
      BY <2>5 DEF Started, RunIs
    <3> QED BY <2>5, <2>12, <3>1, <3>2, <3>3, <3>4 DEF Kept
  <2> QED BY <2>6, <2>7, <2>8, <2>12, Together
<1> QED BY <1>4, <1>5, <1>6 DEF Summarise

\* A run that is deleted is one that ended, or one whose deletion had begun: nobody works
\* in its folder.
LEMMA DeleteKeeps ==
  ASSUME FitsTraining, TrainingIInv, NEW id \in Ids, Delete(id)
  PROVE  TrainingIInv'
<1>1. /\ TrainingTypes /\ Kept(id) /\ history' = history /\ run' = run
      /\ dirs[id] \in Folders
  BY DEF TrainingIInv, TrainingTypes, Delete
<1>2. dirs[id].there /\ (dirs[id].summary.written = "whole" \/ dirs[id].deleted)
  <2>1. ~dirs[id].there => ~dirs[id].deleted
    BY <1>1 DEF Kept, NoDir
  <2> QED BY <1>1, <2>1 DEF Delete, Listed, Kept
<1>3. PICK d :
        /\ d \in Folders /\ dirs' = [dirs EXCEPT ![id] = d]
        /\ \/ d = NoDir
           \/ /\ d.there /\ d.deleted
              /\ \/ d.summary = dirs[id].summary
                 \/ d.summary.written = "no" /\ d.summary.started = 0
              /\ DOMAIN d.model \subseteq DOMAIN dirs[id].model
              /\ \A p \in DOMAIN d.model : d.model[p] = dirs[id].model[p]
  <2>1. CASE dirs' = [dirs EXCEPT ![id] = NoDir]
    <3>1. NoDir \in Folders
      <4>1. NoSummary \in Summaries
        BY DEF NoSummary, Summaries
      <4> QED BY <4>1, NoModels DEF NoDir, Folders, ModelSets
    <3> QED BY <2>1, <3>1
  <2>2. CASE dirs' # [dirs EXCEPT ![id] = NoDir]
    <3>1. PICK left \in SUBSET {p \in DOMAIN dirs[id].model : p[1] = Final},
               summary \in {dirs[id].summary, NoSummary} :
            dirs' = [dirs EXCEPT ![id].deleted = TRUE, ![id].summary = summary,
                                 ![id].model = [p \in left |-> @[p]]]
      BY <2>2 DEF Delete
    <3> DEFINE models == [p \in left |-> dirs[id].model[p]]
               d == [dirs[id] EXCEPT !.deleted = TRUE, !.summary = summary, !.model = models]
    <3>2. models \in ModelSets
      <4>1. dirs[id].model \in ModelSets
        BY <1>1 DEF Folders, ModelSets
      <4>2. PICK before \in SUBSET Places : dirs[id].model \in [before -> Models]
        BY <4>1 DEF ModelSets
      <4>3. models \in [left -> Models] /\ left \in SUBSET Places
        BY <4>2
      <4> QED BY <4>3 DEF ModelSets
    <3>3. /\ summary \in Summaries
          /\ summary = dirs[id].summary \/ (summary.written = "no" /\ summary.started = 0)
      <4>1. dirs[id].summary \in Summaries
        BY <1>1 DEF Folders
      <4> QED BY <4>1 DEF NoSummary, Summaries
    <3>4. DOMAIN models = left /\ \A p \in left : models[p] = dirs[id].model[p]
      OBVIOUS
    <3>5. dirs' = [dirs EXCEPT ![id] = d]
      BY <3>1
    <3> HIDE DEF models
    <3>6. d \in Folders /\ d.there /\ d.deleted /\ d.summary = summary /\ d.model = models
      BY <1>1, <1>2, <3>2, <3>3 DEF Folders, ModelSets
    <3> HIDE DEF d
    <3> QED BY <3>3, <3>4, <3>5, <3>6
  <2> QED BY <2>1, <2>2
<1>4. /\ dirs' \in [Ids -> Folders] /\ dirs'[id] = d
      /\ \A other \in Ids : other # id => dirs'[other] = dirs[other]
  BY <1>1, <1>3 DEF TrainingTypes
<1>5. TrainingTypes'
  BY <1>1, <1>4 DEF TrainingTypes
<1>6. \A o : run'[o] = run[o]
  BY <1>1
<1>7. ASSUME NEW o \in Runs PROVE Ran(o)'
  <2>1. Ran(o)
    BY DEF TrainingIInv
  <2>2. Asked(o)' /\ Cut(o)' /\ Measured(o)' /\ Id(o)' = Id(o)
    BY <1>1, <1>6, <2>1, SameRun DEF Ran
  <2>3. Tried(o)'
    BY <1>6, <2>1 DEF Ran, Tried, Started
  <2>4. ASSUME Working(o) PROVE Dir(o)' = Dir(o)
    <3>1. /\ Id(o) \in Ids /\ ~dirs[Id(o)].deleted /\ dirs[Id(o)].summary.written # "whole"
      BY <2>4, AtWork
    <3> QED BY <1>2, <1>4, <2>2, <3>1 DEF Dir
  <2>5. Alone(o)'
    <3>1. \A other \in Runs : Id(other)' = Id(other) /\ (Working(other)' => Working(other))
      BY <1>6 DEF Id, Working
    <3> QED BY <2>1, <2>4, <3>1 DEF Ran, Alone
  <2>6. Trained(o)'
    <3>1. run[o].pc = "folds" =>
             \A p \in DOMAIN Dir(o)'.model : p[1] \in Blocks /\ Learns(o, p[1], Dir(o).model[p])'
      BY <1>1, <1>6, <2>1, <2>4, SameRun DEF Ran, Trained, Working
    <3>2. run[o].pc = "final" => DOMAIN Dir(o)'.model = {}
      BY <2>1, <2>4 DEF Ran, Trained, Working
    <3>3. run[o].pc = "summary" =>
            /\ \A p \in DOMAIN Dir(o)'.model : Produced(o, p, Dir(o).model[p])'
            /\ run[o].final = "ok" => Complete(o, Dir(o).model)'
      BY <1>1, <1>6, <2>1, <2>4, SameRun DEF Ran, Trained, Working
    <3> QED BY <1>6, <3>1, <3>2, <3>3 DEF Trained
  <2> QED BY <2>2, <2>3, <2>5, <2>6 DEF Ran
<1>8. ASSUME NEW i \in Ids PROVE Kept(i)'
  <2>1. PICK e : e = dirs'[i]
    OBVIOUS
  <2>2. PICK old : old = dirs[i]
    OBVIOUS
  <2>3. \A o \in Runs : /\ Started(o)' <=> Started(o)
                        /\ Id(o)' = Id(o) /\ (RunIs(o, "done")' <=> RunIs(o, "done"))
                        /\ \A p, model : Produced(o, p, model) => Produced(o, p, model)'
                        /\ \A models : Complete(o, models) => Complete(o, models)'
    BY <1>1, <1>6, SameRun DEF Started, RunIs
  <2>4. /\ old.there => \E o \in Runs : Started(o) /\ Id(o) = i
        /\ ~old.there => old = NoDir
        /\ old.summary.written # "whole" => old.summary.started = 0
        /\ old.summary.written = "whole" =>
             /\ old.there /\ old.summary.started \in Runs
             /\ RunIs(old.summary.started, "done") /\ Id(old.summary.started) = i
             /\ old.summary.symbols = run[old.summary.started].symbols
             /\ old.summary.final = run[old.summary.started].final
             /\ \A p \in DOMAIN old.model : Produced(old.summary.started, p, old.model[p])
             /\ run[old.summary.started].final = "ok" /\ ~old.deleted =>
                  Complete(old.summary.started, old.model)
    BY <2>2 DEF TrainingIInv, Kept
  <2>5. /\ e.there => old.there
        /\ ~e.there => e = NoDir
        /\ e.summary = old.summary \/ (e.summary.written = "no" /\ e.summary.started = 0)
        /\ e.summary.written = "whole" => e.there
        /\ \A p \in DOMAIN e.model : p \in DOMAIN old.model /\ e.model[p] = old.model[p]
        /\ ~e.deleted /\ e.summary.written = "whole" => e.model = old.model /\ ~old.deleted
    <3>1. CASE i # id
      <4>1. e = old
        BY <1>4, <2>1, <2>2, <3>1
      <4> QED BY <2>4, <4>1
    <3>2. CASE i = id /\ d = NoDir
      <4>1. /\ ~NoDir.there /\ NoDir.summary.written = "no" /\ NoDir.summary.started = 0
            /\ DOMAIN NoDir.model = {}
        BY DEF NoDir, NoSummary
      <4> QED BY <1>4, <2>1, <3>2, <4>1
    <3>3. CASE i = id /\ d # NoDir
      <4>1. e = d /\ old = dirs[id]
        BY <1>4, <2>1, <2>2, <3>3
      <4> QED BY <1>2, <1>3, <3>3, <4>1
    <3> QED BY <3>1, <3>2, <3>3
  <2>6. ASSUME e.summary.written = "whole"
        PROVE  /\ e.there /\ e.summary.started \in Runs
               /\ RunIs(e.summary.started, "done")' /\ Id(e.summary.started)' = i
               /\ e.summary.symbols = run'[e.summary.started].symbols
               /\ e.summary.final = run'[e.summary.started].final
               /\ \A p \in DOMAIN e.model : Produced(e.summary.started, p, e.model[p])'
               /\ run'[e.summary.started].final = "ok" /\ ~e.deleted =>
                    Complete(e.summary.started, e.model)'
    <3>1. e.summary = old.summary /\ e.there
      BY <2>5, <2>6
    <3>2. PICK r \in Runs : r = e.summary.started
      BY <2>4, <2>6, <3>1
    <3> QED BY <1>6, <2>3, <2>4, <2>5, <2>6, <3>1, <3>2
  <2>7. e.there => \E o \in Runs : Started(o)' /\ Id(o)' = i
    BY <2>3, <2>4, <2>5
  <2>8. e.summary.written # "whole" => e.summary.started = 0
    BY <2>4, <2>5
  <2> QED BY <2>1, <2>5, <2>6, <2>7, <2>8 DEF Kept
<1> QED BY <1>5, <1>7, <1>8 DEF TrainingIInv

-----------------------------------------------------------------------------
(* The invariant holds *)

LEMMA TrainingStarts ==
  ASSUME FitsTraining, TrainInit
  PROVE  TrainingIInv
<1>1. history \in Histories /\ run = [r \in Runs |-> Unstarted] /\ dirs = [id \in Ids |-> NoDir]
  BY DEF TrainInit
<1>2. NoDir \in Folders
  <2>1. NoSummary \in Summaries
    BY DEF NoSummary, Summaries
  <2> QED BY <2>1, NoModels DEF NoDir, Folders, ModelSets
<1>3. ASSUME NEW r \in Runs PROVE Unstarted \in TrainingRuns
  <2>1. 1 \in Runs
    <3>1. Runs = 1..Cardinality(Runs) /\ Cardinality(Runs) \in Nat
      BY FS_CardinalityType DEF FitsTraining
    <3> QED BY <3>1
  <2> QED BY <2>1 DEF Unstarted, TrainingRuns, FoldStages
<1>4. TrainingTypes
  BY <1>1, <1>2, <1>3 DEF TrainingTypes
<1>5. ASSUME NEW r \in Runs PROVE Ran(r)
  <2>1. /\ run[r].pc = "off" /\ run[r].try = 1 /\ run[r].results = {}
        /\ \A k \in Blocks : run[r].todo[k] = {}
    BY <1>1 DEF Unstarted
  <2> QED BY <2>1 DEF Ran, Asked, Cut, Tried, Alone, Working, Trained, Measured
<1>6. ASSUME NEW id \in Ids PROVE Kept(id)
  <2>1. dirs[id] = NoDir
    BY <1>1
  <2>2. ~NoDir.there /\ NoDir.summary.written = "no" /\ NoDir.summary.started = 0
    BY DEF NoDir, NoSummary
  <2> QED BY <2>1, <2>2 DEF Kept
<1> QED BY <1>4, <1>5, <1>6 DEF TrainingIInv

LEMMA TrainingStays ==
  ASSUME FitsTraining, TrainingIInv, [TrainNext]_trainVars
  PROVE  TrainingIInv'
<1>1. ASSUME NEW r \in Runs, Step(r) PROVE TrainingIInv'
  BY <1>1, LoadKeeps, MakeDirKeeps, JoinKeeps, TrainFinalKeeps, SummariseKeeps,
     TakePlaceKeeps, TrainKeeps, TestKeeps DEF Step
<1>2. ASSUME NEW r \in Runs, Launch(r) \/ Cancel(r) \/ Kill(r) PROVE TrainingIInv'
  BY <1>2, LaunchKeeps, CancelKeeps, KillKeeps
<1>3. ASSUME NEW id \in Ids, Delete(id) PROVE TrainingIInv'
  BY <1>3, DeleteKeeps
<1>4. CASE UNCHANGED trainVars
  <2>1. history' = history /\ dirs' = dirs /\ run' = run
    BY <1>4 DEF trainVars
  <2>2. TrainingTypes'
    BY <2>1 DEF TrainingIInv, TrainingTypes
  <2>3. ASSUME NEW r \in Runs PROVE Ran(r)'
    <3>1. Ran(r)
      BY DEF TrainingIInv
    <3>2. Asked(r)' /\ Cut(r)' /\ Measured(r)' /\ Id(r)' = Id(r)
      BY <2>1, <3>1, SameRun DEF Ran
    <3>3. Tried(r)'
      BY <2>1, <3>1 DEF Ran, Tried, Started
    <3>4. Dir(r)' = Dir(r)
      BY <2>1, <3>2 DEF Dir
    <3>5. Alone(r)'
      <4>1. \A other \in Runs : Id(other)' = Id(other) /\ (Working(other)' => Working(other))
        BY <2>1 DEF Id, Working
      <4> QED BY <2>1, <3>1, <3>4, <4>1 DEF Ran, Alone
    <3>6. Trained(r)'
      <4>1. run[r].pc = "folds" =>
               \A p \in DOMAIN Dir(r)'.model : p[1] \in Blocks /\ Learns(r, p[1], Dir(r).model[p])'
        BY <2>1, <3>1, <3>4, SameRun DEF Ran, Trained
      <4>2. run[r].pc = "final" => DOMAIN Dir(r)'.model = {}
        BY <3>1, <3>4 DEF Ran, Trained
      <4>3. run[r].pc = "summary" =>
              /\ \A p \in DOMAIN Dir(r)'.model : Produced(r, p, Dir(r).model[p])'
              /\ run[r].final = "ok" => Complete(r, Dir(r).model)'
        BY <2>1, <3>1, <3>4, SameRun DEF Ran, Trained
      <4> QED BY <2>1, <4>1, <4>2, <4>3 DEF Trained
    <3> QED BY <3>2, <3>3, <3>5, <3>6 DEF Ran
  <2>4. ASSUME NEW id \in Ids PROVE Kept(id)'
    <3>1. Kept(id)
      BY DEF TrainingIInv
    <3> QED BY <2>1, <3>1 DEF Kept, Started, Id, RunIs, Produced, Complete, Place, Pooled
  <2> QED BY <2>2, <2>3, <2>4 DEF TrainingIInv
<1> QED BY <1>1, <1>2, <1>3, <1>4 DEF TrainNext

LEMMA TrainingHolds == TrainSpec => []TrainingIInv
<1>1. TrainInit => TrainingIInv
  BY TrainingStarts, TrainingAssumption
<1>2. TrainingIInv /\ [TrainNext]_trainVars => TrainingIInv'
  BY TrainingStays, TrainingAssumption
<1> QED BY <1>1, <1>2, PTL DEF TrainSpec

\* Two blocks share no bar, and none has a bar that its fold has learnt.
LEMMA BlocksApart ==
  ASSUME FitsTraining, TrainingIInv, NEW r \in Runs, RunIs(r, "folds"),
         NEW s \in DOMAIN history, NEW k \in Blocks
  PROVE  /\ \A t \in DOMAIN history : \A b \in TestSet(r, k, s), seen \in TrainSet(r, k, t) : seen < b
         /\ \A j \in Blocks : j # k => TestSet(r, j, s) \cap TestSet(r, k, s) = {}
<1>1. /\ run[r].cut \in [1..(Folds + 1) -> Int]
      /\ \A i, j \in 1..(Folds + 1) : i <= j => run[r].cut[i] <= run[r].cut[j]
      /\ Folds \in Nat /\ TrainingTypes
  BY DEF TrainingIInv, Ran, Cut, RunIs, FitsTraining
<1>2. \A t \in DOMAIN history : history[t] \subseteq Int
  BY <1>1 DEF FitsTraining, TrainingTypes
<1>3. ASSUME NEW j \in Blocks, NEW b, b \in TestSet(r, j, s)
      PROVE  /\ j \in 1..(Folds + 1) /\ j + 1 \in 1..(Folds + 1) /\ b \in Int
             /\ run[r].cut[j] <= b /\ b < run[r].cut[j + 1]
  <2>1. j \in 1..(Folds + 1) /\ j + 1 \in 1..(Folds + 1)
    BY <1>1 DEF Blocks
  <2>2. run[r].cut[j] \in Int /\ run[r].cut[j + 1] \in Int
    BY <1>1, <2>1
  <2> QED BY <1>2, <1>3, <2>1, <2>2 DEF TestSet, Before
<1>4. ASSUME NEW t \in DOMAIN history, NEW b \in TestSet(r, k, s), NEW seen \in TrainSet(r, k, t)
      PROVE  seen < b
  <2>1. seen \in Int /\ seen < run[r].cut[k]
    BY <1>2 DEF TrainSet, Before
  <2>2. b \in Int /\ run[r].cut[k] <= b /\ run[r].cut[k] \in Int
    BY <1>1, <1>3
  <2> QED BY <2>1, <2>2
<1>5. ASSUME NEW i \in Blocks, NEW j \in Blocks, i < j,
             NEW b, b \in TestSet(r, i, s), b \in TestSet(r, j, s)
      PROVE  FALSE
  <2>1. /\ i + 1 \in 1..(Folds + 1) /\ j \in 1..(Folds + 1) /\ i + 1 <= j /\ b \in Int
        /\ b < run[r].cut[i + 1] /\ run[r].cut[j] <= b
    BY <1>3, <1>5 DEF Blocks
  <2>2. run[r].cut[i + 1] <= run[r].cut[j] /\ run[r].cut[i + 1] \in Int /\ run[r].cut[j] \in Int
    BY <1>1, <2>1
  <2> QED BY <2>1, <2>2
<1>6. ASSUME NEW j \in Blocks, j # k PROVE TestSet(r, j, s) \cap TestSet(r, k, s) = {}
  <2>1. j < k \/ k < j
    BY <1>1, <1>6 DEF Blocks
  <2> QED BY <1>5, <2>1
<1> QED BY <1>4, <1>6

\* Runner.runFold: what a block measures owes nothing to the block.  The model read back
\* is this run's, whatever the other runs do in models/; it had seen no bar of any symbol at or
\* after the block; and no bar is counted twice (splitFolds, trainSets).
THEOREM MeasuredOutOfSample == TrainSpec => []OutOfSample
<1>1. ASSUME FitsTraining, TrainingIInv PROVE OutOfSample
  <2> SUFFICES ASSUME NEW r \in Runs, NEW one \in run[r].results
               PROVE  /\ one.model.by = r
                      /\ \A s \in DOMAIN one.model.bars :
                           \A b \in one.bars, seen \in one.model.bars[s] : seen < b
                      /\ \A two \in run[r].results :
                           two.symbol = one.symbol /\ two # one => one.bars \cap two.bars = {}
    BY DEF OutOfSample
  <2>1. Measured(r) /\ run[r] \in TrainingRuns
    BY <1>1 DEF TrainingIInv, TrainingTypes, Ran
  <2>2. RunIs(r, "folds")
    BY <2>1 DEF Measured, RunIs
  <2>3. \A x \in run[r].results : x.fold \in Blocks
    BY <2>1 DEF TrainingRuns, Results
  <2>4. /\ one.symbol \in DOMAIN history /\ one.bars = TestSet(r, one.fold, one.symbol)
        /\ Learns(r, one.fold, one.model)
    BY <2>1 DEF Measured
  <2>5. ASSUME NEW two \in run[r].results, two.symbol = one.symbol, two # one
        PROVE  one.bars \cap two.bars = {}
    <3>1. two.fold # one.fold /\ two.bars = TestSet(r, two.fold, one.symbol)
      BY <2>1, <2>5 DEF Measured
    <3> QED BY <1>1, <2>2, <2>3, <2>4, <3>1, BlocksApart
  <2>6. ASSUME NEW s \in DOMAIN one.model.bars, NEW b \in one.bars, NEW seen \in one.model.bars[s]
        PROVE  seen < b
    <3>1. s \in DOMAIN history /\ seen \in TrainSet(r, one.fold, s)
      BY <2>4 DEF Learns
    <3> QED BY <1>1, <2>2, <2>3, <2>4, <3>1, BlocksApart
  <2> QED BY <2>4, <2>5, <2>6 DEF Learns
<1>2. TrainingIInv => OutOfSample
  BY <1>1, TrainingAssumption
<1> QED BY <1>2, TrainingHolds, PTL

\* SelectModel and productionDir: the model replayed or traded is the production model of the
\* latest run that has one, trained by that run, to its end, on all the history, whatever is
\* trained, killed or deleted meanwhile.
THEOREM ProductionIsSelected == TrainSpec => []SelectedIsProduction
<1>1. ASSUME FitsTraining, TrainingIInv PROVE SelectedIsProduction
  <2> SUFFICES ASSUME NEW name \in StrategyNames, NEW s \in Symbols, NEW id \in Selected(name, s)
               PROVE  LET r == dirs[id].summary.started
                          model == dirs[id].model[CHOOSE p \in Production(id, s) : TRUE]
                      IN  /\ run[r].final = "ok" /\ model.by = r
                          /\ s \in DOMAIN model.bars /\ model.bars[s] = history[s]
                          /\ \A other \in Runs :
                               /\ RunIs(other, "done") /\ run[other].strategy = name
                               /\ run[other].final = "ok" /\ s \in run[other].symbols
                               /\ Dir(other).summary.started = other /\ ~Dir(other).deleted
                               => other <= r
    BY DEF SelectedIsProduction
  <2>1. /\ id \in Ids /\ dirs[id].there /\ dirs[id].summary.written = "whole"
        /\ dirs[id].summary.final = "ok" /\ Production(id, s) # {}
        /\ \A other \in Covering(name, s) :
             dirs[other].summary.started <= dirs[id].summary.started
    BY DEF Selected, Newest, Covering, Listed
  <2>2. PICK r \in Runs : r = dirs[id].summary.started
    BY <1>1, <2>1 DEF TrainingIInv, Kept
  <2>3. /\ RunIs(r, "done") /\ Id(r) = id /\ dirs[id].summary.symbols = run[r].symbols
        /\ run[r].final = "ok"
        /\ \A p \in DOMAIN dirs[id].model : Produced(r, p, dirs[id].model[p])
    BY <1>1, <2>1, <2>2 DEF TrainingIInv, Kept
  <2>4. /\ run[r].symbols \subseteq Symbols /\ NoName \notin Symbols
        /\ run[r].strategy \in StrategyNames
    BY <1>1, <2>3 DEF TrainingIInv, TrainingTypes, TrainingRuns, FitsTraining, Ran, Asked, RunIs
  <2>5. s \in run[r].symbols
    BY <2>1, <2>3 DEF Production
  <2>6. \A p \in DOMAIN dirs[id].model : \E t \in run[r].symbols : p = Place(r, Final, t)
    BY <2>3 DEF Produced
  <2>7. Production(id, s) = {Place(r, Final, s)} /\ Place(r, Final, s) \in DOMAIN dirs[id].model
    <3>1. CASE Pooled(r)
      BY <2>1, <2>3, <2>4, <2>5, <2>6, <3>1 DEF Production, Place
    <3>2. CASE ~Pooled(r)
      BY <2>1, <2>3, <2>4, <2>5, <2>6, <3>2 DEF Production, Place
    <3> QED BY <3>1, <3>2
  <2>8. PICK model : model = dirs[id].model[Place(r, Final, s)]
    OBVIOUS
  <2>9. model.by = r /\ s \in DOMAIN model.bars /\ model.bars[s] = history[s]
    BY <2>3, <2>5, <2>7, <2>8 DEF Produced
  <2>10. (CHOOSE p \in Production(id, s) : TRUE) = Place(r, Final, s)
    BY <2>7
  <2>11. ASSUME NEW other \in Runs,
                RunIs(other, "done"), run[other].strategy = name, run[other].final = "ok",
                s \in run[other].symbols, Dir(other).summary.started = other, ~Dir(other).deleted
         PROVE  other <= r
    <3>1. Id(other) \in Ids /\ other # 0
      <4>1. Runs = 1..Cardinality(Runs) /\ Cardinality(Runs) \in Nat
        BY <1>1, FS_CardinalityType DEF FitsTraining
      <4>2. TrainingTypes /\ Asked(other) /\ run[other].pc # "off"
        BY <1>1, <2>11 DEF TrainingIInv, Ran, RunIs
      <4>3. Id(other) \in Ids
        BY <1>1, <4>2, OfRun
      <4> QED BY <4>1, <4>3
    <3>2. PICK at \in Ids : at = Id(other)
      BY <3>1
    <3>3. /\ dirs[at].there /\ dirs[at].summary.written = "whole"
          /\ dirs[at].summary.symbols = run[other].symbols /\ dirs[at].summary.final = "ok"
          /\ Complete(other, dirs[at].model)
      BY <1>1, <2>11, <3>1, <3>2 DEF TrainingIInv, Kept, Dir
    <3>4. Place(other, Final, s) \in DOMAIN dirs[at].model
      BY <2>11, <3>3 DEF Complete
    <3>5. Production(at, s) # {}
      BY <2>11, <3>3, <3>4 DEF Production, Place
    <3>6. at \in Covering(name, s)
      BY <2>11, <3>2, <3>3, <3>5 DEF Covering, Listed, Id
    <3>7. dirs[at].summary.started = other
      BY <2>11, <3>2 DEF Dir
    <3> QED BY <2>1, <2>2, <3>6, <3>7
  <2> QED BY <2>2, <2>3, <2>8, <2>9, <2>10, <2>11
<1>2. TrainingIInv => SelectedIsProduction
  BY <1>1, TrainingAssumption
<1> QED BY <1>2, TrainingHolds, PTL

-----------------------------------------------------------------------------
(* History: the files of the years, for every set of years and units, every
   source and every number of faults, as long as no conversion is started
   beside another writer.

   The argument is what a writer knows of its year.  Alone, it has the inode
   behind the temporary name, which holds nothing until it is written and the
   whole file afterwards; and the year is still what it was when the writer
   decided to write it (Fits) *)

Pcs == {"idle", "next", "fetch", "create", "write", "rename", "clean", "failed", "verify",
        "refused"}
Writing == {"create", "write", "rename"}
OnAYear == Writing \cup {"fetch", "clean", "failed", "verify"}
Records == [pc : Pcs, left : SUBSET Years, year : Years \cup {CurrentYear}, file : Files,
            fd : {"none", "tmp", "target", "gone"}, option : BOOLEAN]

Types ==
    /\ gwb \in [Years -> Files \cup {NoFile}]
    /\ parquet \in [Years -> Files \cup {NoFile}]
    /\ tmp \in [Years -> Files \cup {NoFile}]
    /\ task \in [Jobs -> Records]

OneTask == \A j, k \in Jobs : j # k => TaskAt(j, "idle") \/ TaskAt(k, "idle")

\* What holds of the year and of the years left, for the job j described by r.
Fits(j, r) ==
    /\ r.pc \in OnAYear => r.year \in Years /\ r.year \notin r.left
    /\ r.pc \in Writing => ~r.file.torn
    /\ r.pc = "write" => r.fd = "tmp" /\ tmp[r.year] = Torn
    /\ r.pc = "rename" => r.fd = "tmp" /\ tmp[r.year] = r.file
    /\ j = "convert" /\ r.pc # "idle" => \A y \in r.left : gwb[y] # NoFile
    /\ j = "convert" /\ r.pc \in Writing => parquet[r.year] = NoFile /\ gwb[r.year] = r.file
    /\ j = "import" /\ ~r.option /\ r.pc # "idle" => \A y \in r.left : ~Present(y)
    /\ j = "import" /\ ~r.option /\ r.pc \in Writing => ~Present(r.year)

HistoryIInv == Types /\ OneTask /\ (\A j \in Jobs : Fits(j, task[j])) /\ NeverTorn

-----------------------------------------------------------------------------
(* Years and files *)

LEMMA FirstYear ==
  ASSUME NEW j \in Jobs, Types, task[j].left # {}
  PROVE  NextYear(j) \in task[j].left
<1> DEFINE R == OpToRel(<, Nat)
<1>1. task[j].left \subseteq Nat
  BY HistoryAssumption DEF Types, Records
<1>2. \E y \in task[j].left : \A z \in task[j].left : y <= z
  <2>1. IsWellFoundedOn(R, Nat)
    BY NatLessThanWellFounded
  <2>2. \A x, y \in Nat : <<x, y>> \in R <=> x < y
    BY DEF OpToRel
  <2> HIDE DEF R
  <2>3. PICK y \in task[j].left : \A z \in task[j].left : ~(<<z, y>> \in R)
    BY <1>1, <2>1, WFMin
  <2>4. ASSUME NEW z \in task[j].left PROVE y <= z
    <3>1. y \in Nat /\ z \in Nat
      BY <1>1
    <3>2. ~(z < y)
      BY <2>2, <2>3, <3>1
    <3> QED BY <3>1, <3>2
  <2> QED BY <2>4
<1>3. NextYear(j) = CHOOSE y \in task[j].left : \A z \in task[j].left : y <= z
  BY DEF NextYear
<1> QED BY <1>2, <1>3, Zenon

LEMMA CountType ==
  ASSUME NEW some \in SUBSET Units
  PROVE  Cardinality(some) \in 0..Cardinality(Units)
<1>1. IsFiniteSet(Units)
  BY HistoryAssumption
<1>2. /\ Cardinality(some) \in Nat /\ Cardinality(Units) \in Nat
      /\ Cardinality(some) <= Cardinality(Units)
  BY <1>1, FS_Subset, FS_CardinalityType
<1> QED BY <1>2

LEMMA FileTypes ==
  ASSUME NEW bars \in [Units -> Sides], NEW missing \in 0..Cardinality(Units),
         NEW imported \in BOOLEAN
  PROVE  File(bars, missing, imported) \in Files /\ ~File(bars, missing, imported).torn
  BY DEF File, Files

LEMMA TornType ==
  Torn \in Files /\ Torn.torn
<1>1. 0 \in 0..Cardinality(Units)
  <2>1. {} \in SUBSET Units
    OBVIOUS
  <2> QED BY <2>1, CountType
<1> QED BY <1>1 DEF Torn, Files, NoBars, Sides

LEMMA IdleType ==
  AtRest \in Records /\ AtRest.pc = "idle" /\ AtRest.left = {}
  BY TornType DEF AtRest, Records, Pcs

LEMMA InitHolds ==
  ASSUME HistoryInit
  PROVE  HistoryIInv
<1>1. gwb \in [Years -> Files \cup {NoFile}]
  <2>1. ASSUME NEW b \in [Units -> Sides], NEW some \in SUBSET Published
        PROVE  File(b, Cardinality(some), FALSE) \in Files
    <3>1. some \subseteq Units
      BY HistoryAssumption DEF HistoryInit, Published
    <3> QED BY <3>1, CountType, FileTypes
  <2>2. [File([u \in Units |-> "both"], 0, FALSE) EXCEPT !.torn = TRUE] \in Files
    <3>1. 0 \in 0..Cardinality(Units)
      BY CountType
    <3> QED BY <3>1 DEF File, Files, Sides
  <2>3. ASSUME NEW held \in SUBSET Published
        PROVE  [u \in Units |-> IF u \in held THEN "both" ELSE "none"] \in [Units -> Sides]
    BY DEF Sides
  <2> DEFINE full == [File([u \in Units |-> "both"], 0, FALSE) EXCEPT !.torn = TRUE]
             held(b) == File(b, Cardinality({u \in Published : b[u] = "none"}), FALSE)
             bs == {[u \in Units |-> IF u \in h THEN "both" ELSE "none"] :
                      h \in (SUBSET Published) \ {{}}}
  <2>4. \A b \in bs : held(b) \in Files
    BY <2>1, <2>3
  <2>5. gwb \in [Years -> {NoFile, full} \cup {held(b) : b \in bs}]
    BY DEF HistoryInit
  <2>6. full \in Files
    BY <2>2
  <2> HIDE DEF held, bs, full
  <2>7. {NoFile, full} \cup {held(b) : b \in bs} \subseteq Files \cup {NoFile}
    BY <2>4, <2>6
  <2> QED BY <2>5, <2>7
<1>2. Types
  BY <1>1, IdleType DEF HistoryInit, Types
<1>3. OneTask /\ NeverTorn
  BY IdleType DEF HistoryInit, OneTask, TaskAt, NeverTorn
<1>4. \A j \in Jobs : Fits(j, task[j])
  BY IdleType DEF HistoryInit, Fits, OnAYear, Writing
<1> QED BY <1>2, <1>3, <1>4 DEF HistoryIInv

-----------------------------------------------------------------------------
(* One job *)

LEMMA OthersIdle ==
  ASSUME HistoryIInv, NEW j \in Jobs, ~TaskAt(j, "idle")
  PROVE  \A k \in Jobs \ {j} : TaskAt(k, "idle")
  BY DEF HistoryIInv, OneTask

\* A step of one job, the others being idle.
LEMMA OneJob ==
  ASSUME HistoryIInv, NEW j \in Jobs, Types', NeverTorn',
         \A k \in Jobs \ {j} : TaskAt(k, "idle")',
         Fits(j, task[j])'
  PROVE  HistoryIInv'
<1>1. OneTask'
  BY DEF OneTask
<1>2. ASSUME NEW k \in Jobs, k # j PROVE Fits(k, task[k])'
  BY <1>2 DEF Fits, TaskAt, OnAYear, Writing
<1> QED BY <1>1, <1>2 DEF HistoryIInv

\* A step of one job that touches no file.
LEMMA NothingWritten ==
  ASSUME HistoryIInv, NEW j \in Jobs, NEW r \in Records,
         \A k \in Jobs \ {j} : TaskAt(k, "idle"),
         task' = [task EXCEPT ![j] = r], UNCHANGED disk,
         Fits(j, r)
  PROVE  HistoryIInv'
<1>1. /\ task'[j] = r /\ \A k \in Jobs \ {j} : task'[k] = task[k]
      /\ UNCHANGED <<gwb, parquet, tmp>>
  BY DEF HistoryIInv, Types, disk
<1>2. Types'
  BY <1>1 DEF HistoryIInv, Types
<1>3. NeverTorn'
  BY <1>1 DEF HistoryIInv, NeverTorn
<1>4. \A k \in Jobs \ {j} : TaskAt(k, "idle")'
  BY <1>1 DEF TaskAt
<1>5. Fits(j, task[j])'
  BY <1>1 DEF Fits, Present
<1> QED BY <1>2, <1>3, <1>4, <1>5, OneJob

LEMMA GoesIdle ==
  ASSUME ~Shared, HistoryIInv, NEW j \in Jobs, ~TaskAt(j, "idle"),
         task' = [task EXCEPT ![j] = AtRest], UNCHANGED disk
  PROVE  HistoryIInv'
<1>1. Fits(j, AtRest)
  BY IdleType DEF Fits, OnAYear, Writing
<1> QED BY <1>1, IdleType, OthersIdle, NothingWritten

LEMMA TaskStarts ==
  ASSUME ~Shared, HistoryIInv, StartDownload \/ StartConvert \/ StartImport
  PROVE  HistoryIInv'
<1>1. UNCHANGED disk
  BY DEF StartDownload, StartConvert, StartImport
<1>2. ASSUME NEW j \in Jobs, MayStart(j), NEW left \in SUBSET Years, NEW option \in BOOLEAN,
             StartTask(j, left, option),
             j = "convert" => \A y \in left : gwb[y] # NoFile,
             j = "import" /\ ~option => \A y \in left : ~Present(y)
      PROVE  HistoryIInv'
  <2> DEFINE r == [AtRest EXCEPT !.pc = "next", !.left = left, !.option = option]
  <2>1. r \in Records /\ r.pc = "next" /\ r.left = left /\ r.option = option
    BY IdleType DEF Records, Pcs
  <2>2. \A k \in Jobs : TaskAt(k, "idle")
    BY <1>2, HistoryAssumption DEF MayStart
  <2>3. Fits(j, r)
    BY <1>2, <2>1 DEF Fits, OnAYear, Writing
  <2>4. task' = [task EXCEPT ![j] = r]
    BY <1>2 DEF StartTask
  <2> HIDE DEF r
  <2> QED BY <1>1, <2>1, <2>2, <2>3, <2>4, NothingWritten
<1>3. CASE StartDownload
  BY <1>2, <1>3 DEF StartDownload, Jobs
<1>4. CASE StartConvert
  BY <1>2, <1>4 DEF StartConvert, Jobs
<1>5. CASE StartImport
  <2>1. CASE UNCHANGED task
    BY <1>1, <2>1 DEF disk, HistoryIInv, Types, OneTask, TaskAt, Fits, Present, NeverTorn
  <2>2. CASE ~UNCHANGED task
    <3>1. PICK years \in SUBSET Years, replace \in BOOLEAN :
            StartTask("import", years, replace) /\ (replace \/ \A y \in years : ~Present(y))
      BY <1>5, <2>2 DEF StartImport
    <3> QED BY <1>2, <1>5, <3>1 DEF StartImport, Jobs
  <2> QED BY <2>1, <2>2
<1> QED BY <1>3, <1>4, <1>5

\* What Pick makes of the job.
Picked(r, pc, y) == [r EXCEPT !.pc = pc, !.year = y, !.left = @ \ {y}]

LEMMA PickIs ==
  ASSUME Types, NEW j \in Jobs, NEW pc
  PROVE  Pick(j, pc) = [task EXCEPT ![j] = Picked(task[j], pc, NextYear(j))]
<1>1. task \in [Jobs -> Records]
  BY DEF Types
<1> QED BY <1>1 DEF Pick, Picked, Records

LEMMA PickedTypes ==
  ASSUME NEW r \in Records, NEW pc \in Pcs, NEW y \in r.left
  PROVE  /\ Picked(r, pc, y) \in Records
         /\ Picked(r, pc, y).pc = pc /\ Picked(r, pc, y).year = y /\ y \in Years
         /\ Picked(r, pc, y).left = r.left \ {y}
         /\ Picked(r, pc, y).option = r.option
  BY DEF Picked, Records

LEMMA WithFile ==
  ASSUME NEW r \in Records, NEW file \in Files
  PROVE  LET s == [r EXCEPT !.file = file]
         IN  /\ s \in Records /\ s.file = file /\ s.pc = r.pc /\ s.year = r.year
             /\ s.left = r.left /\ s.option = r.option
  BY DEF Records

\* The job picks a year and, maybe, what to write of it.
LEMMA PickKeeps ==
  ASSUME ~Shared, HistoryIInv, NEW j \in Jobs, TaskAt(j, "next"), task[j].left # {},
         NEW pc \in Pcs, NEW file \in Files, UNCHANGED disk,
         task' = [Pick(j, pc) EXCEPT ![j].file = file] \/ (pc \notin Writing /\ task' = Pick(j, pc)),
         pc \in Writing => pc = "create" /\ ~file.torn,
         j = "convert" /\ pc \in Writing =>
           parquet[NextYear(j)] = NoFile /\ gwb[NextYear(j)] = file
  PROVE  HistoryIInv'
<1> DEFINE y == NextYear(j)
           p == Picked(task[j], pc, y)
<1>1. task \in [Jobs -> Records] /\ task[j] \in Records /\ y \in task[j].left
  BY FirstYear DEF HistoryIInv, Types
<1>2. /\ p \in Records /\ p.pc = pc /\ p.year = y /\ y \in Years
      /\ p.left = task[j].left \ {y} /\ p.option = task[j].option
  BY <1>1, PickedTypes
<1>3. Pick(j, pc) = [task EXCEPT ![j] = p]
  BY PickIs DEF HistoryIInv
<1>4. Fits(j, task[j]) /\ task[j].pc = "next"
  BY DEF HistoryIInv, TaskAt
<1>5. \A k \in Jobs \ {j} : TaskAt(k, "idle")
  BY <1>4, OthersIdle DEF TaskAt
<1> HIDE DEF p, y
<1>6. CASE pc \notin Writing /\ task' = Pick(j, pc)
  <2>1. Fits(j, p)
    BY <1>1, <1>2, <1>4, <1>6 DEF Fits, Writing
  <2> QED BY <1>2, <1>3, <1>5, <1>6, <2>1, NothingWritten
<1>7. CASE task' = [Pick(j, pc) EXCEPT ![j].file = file]
  <2> DEFINE s == [p EXCEPT !.file = file]
  <2>1. /\ s \in Records /\ s.file = file /\ s.pc = pc /\ s.year = y
        /\ s.left = task[j].left \ {y} /\ s.option = task[j].option
    BY <1>2, WithFile
  <2>2. task' = [task EXCEPT ![j] = s]
    BY <1>1, <1>3, <1>7
  <2> HIDE DEF s
  <2>3. Fits(j, s)
    BY <1>1, <1>2, <1>4, <2>1 DEF Fits, Writing, y
  <2> QED BY <1>5, <2>1, <2>2, <2>3, NothingWritten
<1> QED BY <1>6, <1>7

LEMMA NextKeeps ==
  ASSUME ~Shared, HistoryIInv, NextDownload \/ NextConvert \/ NextImport
  PROVE  HistoryIInv'
<1>0. UNCHANGED disk
  BY DEF NextDownload, NextConvert, NextImport
<1>1. CASE NextDownload
  <2>0. /\ TaskAt("download", "next") /\ ~TaskAt("download", "idle") /\ "download" \in Jobs
        /\ task["download"].left # {}
    BY <1>1 DEF NextDownload, TaskAt, Jobs
  <2>1. CASE abandoned
    BY <1>0, <1>1, <2>0, <2>1, GoesIdle DEF NextDownload
  <2>2. CASE ~abandoned
    <3> DEFINE pc == IF NeedsDownload(NextYear("download")) THEN "fetch" ELSE "next"
    <3>1. pc \in Pcs /\ pc \notin Writing
      BY DEF Pcs, Writing
    <3>2. task' = Pick("download", pc)
      BY <1>1, <2>2 DEF NextDownload
    <3>3. Torn \in Files
      BY TornType
    <3> HIDE DEF pc
    <3> QED BY <1>0, <2>0, <3>1, <3>2, <3>3, PickKeeps
  <2> QED BY <2>1, <2>2
<1>2. CASE NextConvert
  <2>0. TaskAt("convert", "next") /\ "convert" \in Jobs /\ task["convert"].left # {}
    BY <1>2 DEF NextConvert, Jobs
  <2> DEFINE y == NextYear("convert")
             old == gwb[y]
             pc == IF old.torn THEN "next"
                   ELSE IF parquet[y] = NoFile THEN "create"
                   ELSE IF SameSeries(old, parquet[y]) THEN "verify"
                   ELSE "next"
  <2>1. y \in task["convert"].left /\ y \in Years
    BY <2>0, FirstYear DEF HistoryIInv, Types, Records
  <2>2. old \in Files
    BY <2>0, <2>1 DEF HistoryIInv, Types, Fits, TaskAt
  <2>3. /\ pc \in Pcs
        /\ pc \in Writing => ~old.torn /\ parquet[y] = NoFile /\ pc = "create"
    BY DEF Pcs, Writing
  <2>4. task' = [Pick("convert", pc) EXCEPT !["convert"].file = old]
    BY <1>2 DEF NextConvert
  <2> HIDE DEF pc
  <2> QED BY <1>0, <2>0, <2>2, <2>3, <2>4, PickKeeps
<1>3. CASE NextImport
  <2> DEFINE file == File([u \in Units |-> "bid"], 0, TRUE)
  <2>0. TaskAt("import", "next") /\ "import" \in Jobs /\ task["import"].left # {}
    BY <1>3 DEF NextImport, Jobs
  <2>1. file \in Files /\ ~file.torn
    <3>1. [u \in Units |-> "bid"] \in [Units -> Sides] /\ 0 \in 0..Cardinality(Units)
      BY CountType DEF Sides
    <3> QED BY <3>1, FileTypes
  <2>2. task' = [Pick("import", "create") EXCEPT !["import"].file = file]
    BY <1>3 DEF NextImport
  <2> HIDE DEF file
  <2> QED BY <1>0, <2>0, <2>1, <2>2, PickKeeps DEF Pcs
<1> QED BY <1>1, <1>2, <1>3

LEMMA FetchKeeps ==
  ASSUME ~Shared, HistoryIInv, Requests \/ CancelDownload \/ EndFetch \/ Abandon
  PROVE  HistoryIInv'
<1>1. CASE Requests \/ CancelDownload
  <2>1. UNCHANGED <<gwb, parquet, tmp, task>>
    BY <1>1 DEF Requests, Ask, Answer, Retry, Lose, CancelDownload, disk
  <2> QED BY <2>1 DEF HistoryIInv, Types, OneTask, TaskAt, Fits, Present, NeverTorn
<1>2. CASE Abandon
  BY <1>2, GoesIdle DEF Abandon, TaskAt, Jobs
<1>3. CASE EndFetch
  <2> DEFINE bars == [u \in Units |-> IF unit[u] \in Sides THEN unit[u] ELSE "none"]
             file == File(bars, Missing, FALSE)
             d == task["download"]
             r == IF bars = NoBars THEN [d EXCEPT !.pc = "next"]
                  ELSE [d EXCEPT !.pc = "create", !.file = file]
  <2>0. TaskAt("download", "fetch") /\ ~TaskAt("download", "idle") /\ "download" \in Jobs /\ UNCHANGED disk
    BY <1>3 DEF EndFetch, TaskAt, Jobs
  <2>1. bars \in [Units -> Sides]
    BY DEF Sides
  <2>2. Missing \in 0..Cardinality(Units)
    <3>1. (IF source.byWeek THEN {u \in Open : unit[u] \notin {"bid", "both"}}
                            ELSE {u \in Units : unit[u] = "lost"}) \in SUBSET Units
      BY HistoryAssumption
    <3> QED BY <3>1, CountType DEF Missing
  <2>3. file \in Files /\ ~file.torn
    BY <2>1, <2>2, FileTypes
  <2>4. task' = [task EXCEPT !["download"] = r]
    BY <1>3, <2>0 DEF EndFetch, HistoryIInv, Types
  <2>5. /\ d \in Records /\ d.pc = "fetch" /\ Fits("download", d)
    BY <2>0 DEF HistoryIInv, Types, TaskAt
  <2>6. d.year \in Years /\ d.year \notin d.left
    BY <2>5 DEF Fits, OnAYear
  <2> HIDE DEF file
  <2>7. r \in Records /\ r.pc \in {"next", "create"}
    BY <2>3, <2>5 DEF Records, Pcs
  <2>8. r.year = d.year /\ r.left = d.left /\ (r.pc = "create" => r.file = file)
    BY <2>5 DEF Records
  <2> HIDE DEF r, d
  <2>9. Fits("download", r)
    BY <2>3, <2>6, <2>7, <2>8 DEF Fits, OnAYear, Writing
  <2> QED BY <2>0, <2>4, <2>7, <2>9, OthersIdle, NothingWritten
<1> QED BY <1>1, <1>2, <1>3

-----------------------------------------------------------------------------
(* Writers *)

\* What a writer knows when it acts.
LEMMA WriterHas ==
  ASSUME HistoryIInv, NEW j \in Jobs, task[j].pc \in OnAYear
  PROVE  /\ task[j] \in Records /\ Fits(j, task[j])
         /\ task[j].year \in Years /\ task[j].year \notin task[j].left
         /\ \A k \in Jobs \ {j} : TaskAt(k, "idle")
<1>1. ~TaskAt(j, "idle")
  BY DEF TaskAt, OnAYear, Writing
<1> QED BY <1>1, OthersIdle DEF HistoryIInv, Types, Fits

LEMMA CreateKeeps ==
  ASSUME ~Shared, HistoryIInv, NEW j \in Jobs, Create(j)
  PROVE  HistoryIInv' /\ UNCHANGED <<gwb, parquet>>
<1> DEFINE y == task[j].year
           r == [task[j] EXCEPT !.pc = "write", !.fd = "tmp"]
<1>1. task[j].pc = "create" /\ UNCHANGED <<gwb, parquet>> /\ tmp' = [tmp EXCEPT ![y] = Torn]
  BY DEF Create, TaskAt
<1>2. /\ task[j] \in Records /\ Fits(j, task[j]) /\ y \in Years /\ y \notin task[j].left
      /\ \A k \in Jobs \ {j} : TaskAt(k, "idle")
  BY <1>1, WriterHas DEF OnAYear, Writing
<1>3. /\ r \in Records /\ r.pc = "write" /\ r.fd = "tmp" /\ r.year = y /\ r.file = task[j].file
      /\ r.left = task[j].left /\ r.option = task[j].option
  BY <1>2 DEF Records, Pcs
<1>4. task' = [task EXCEPT ![j] = r]
  BY DEF Create, HistoryIInv, Types, Records
<1> HIDE DEF r
<1>5. task'[j] = r /\ \A k \in Jobs \ {j} : task'[k] = task[k]
  BY <1>4 DEF HistoryIInv, Types
<1>6. Types'
  BY <1>1, <1>2, <1>3, <1>4, TornType DEF HistoryIInv, Types
<1>7. tmp'[y] = Torn
  BY <1>1, <1>2 DEF HistoryIInv, Types
<1>8. Fits(j, task[j])'
  BY <1>1, <1>2, <1>3, <1>5, <1>7 DEF Fits, Present, OnAYear, Writing
<1>9. NeverTorn' /\ \A k \in Jobs \ {j} : TaskAt(k, "idle")'
  BY <1>1, <1>2, <1>5 DEF HistoryIInv, NeverTorn, TaskAt
<1> QED BY <1>1, <1>6, <1>8, <1>9, OneJob

\* Nobody else has the inode open: what is written is the whole file.
LEMMA WriteKeeps ==
  ASSUME ~Shared, HistoryIInv, NEW j \in Jobs, Write(j)
  PROVE  HistoryIInv' /\ UNCHANGED <<gwb, parquet>>
<1> DEFINE y == task[j].year
           r == [task[j] EXCEPT !.pc = "rename"]
<1>1. task[j].pc = "write" /\ UNCHANGED gwb /\ task' = [task EXCEPT ![j].pc = "rename"]
  BY DEF Write, TaskAt, Goto
<1>2. /\ task[j] \in Records /\ Fits(j, task[j]) /\ y \in Years /\ y \notin task[j].left
      /\ \A k \in Jobs \ {j} : TaskAt(k, "idle")
  BY <1>1, WriterHas DEF OnAYear, Writing
<1>3. task[j].fd = "tmp" /\ tmp[y] = Torn
  BY <1>1, <1>2 DEF Fits
<1>4. Written(j, tmp[y]) = {task[j].file}
  <2>1. {k \in Opened(task[j].year, task[j].fd) \ {j} : TaskAt(k, "write")} = {}
    BY <1>2 DEF Opened, TaskAt
  <2> QED BY <1>3, <2>1 DEF Written
<1>5. tmp' = [tmp EXCEPT ![y] = task[j].file] /\ UNCHANGED parquet
  <2>1. (\E f \in Written(j, tmp[y]) : tmp' = [tmp EXCEPT ![y] = f]) /\ UNCHANGED parquet
    BY <1>3 DEF Write
  <2> QED BY <2>1, <1>4
<1>6. /\ r \in Records /\ r.pc = "rename" /\ r.fd = "tmp" /\ r.year = y /\ r.file = task[j].file
      /\ r.left = task[j].left /\ r.option = task[j].option /\ r.file \in Files
  BY <1>2, <1>3 DEF Records, Pcs
<1>7. task' = [task EXCEPT ![j] = r]
  BY <1>1, <1>2
<1> HIDE DEF r
<1>8. task'[j] = r /\ \A k \in Jobs \ {j} : task'[k] = task[k]
  BY <1>7 DEF HistoryIInv, Types
<1>9. Types'
  BY <1>1, <1>2, <1>5, <1>6, <1>7 DEF HistoryIInv, Types
<1>10. tmp'[y] = task[j].file
  BY <1>2, <1>5 DEF HistoryIInv, Types
<1>11. Fits(j, task[j])'
  BY <1>1, <1>2, <1>5, <1>6, <1>8, <1>10 DEF Fits, Present, OnAYear, Writing
<1>12. NeverTorn' /\ \A k \in Jobs \ {j} : TaskAt(k, "idle")'
  BY <1>2, <1>5, <1>8 DEF HistoryIInv, NeverTorn, TaskAt
<1> QED BY <1>1, <1>5, <1>9, <1>11, <1>12, OneJob

\* The file goes in whole, and over a year that the writer knows.
LEMMA RenameKeeps ==
  ASSUME ~Shared, HistoryIInv, NEW j \in Jobs, Rename(j)
  PROVE  /\ HistoryIInv' /\ UNCHANGED gwb
         /\ parquet' = [parquet EXCEPT ![task[j].year] = task[j].file]
         /\ \A k \in Jobs \ {j} : task'[k].pc = task[k].pc
<1> DEFINE y == task[j].year
           moved == [k \in Jobs |-> CASE k \in Opened(y, "target") -> [task[k] EXCEPT !.fd = "gone"]
                                      [] k \in Opened(y, "tmp") -> [task[k] EXCEPT !.fd = "target"]
                                      [] OTHER -> task[k]]
<1>1. task[j].pc = "rename" /\ UNCHANGED gwb
  BY DEF Rename, TaskAt
<1>2. /\ task[j] \in Records /\ Fits(j, task[j]) /\ y \in Years /\ y \notin task[j].left
      /\ \A k \in Jobs \ {j} : TaskAt(k, "idle")
  BY <1>1, WriterHas DEF OnAYear, Writing
<1>3. tmp[y] = task[j].file /\ task[j].file \in Files /\ ~task[j].file.torn /\ tmp[y] # NoFile
  BY <1>1, <1>2, HistoryAssumption DEF Fits, Writing, Records
<1>4. /\ parquet' = [parquet EXCEPT ![y] = task[j].file]
      /\ tmp' = [tmp EXCEPT ![y] = NoFile]
      /\ task' = [moved EXCEPT ![j].pc = "clean"]
  BY <1>3 DEF Rename
<1>5. ASSUME NEW k \in Jobs
      PROVE  /\ moved[k] \in Records /\ moved[k].pc = task[k].pc /\ moved[k].year = task[k].year
             /\ moved[k].left = task[k].left /\ moved[k].option = task[k].option
  <2>1. task[k] \in Records
    BY DEF HistoryIInv, Types
  <2>2. \/ moved[k] = [task[k] EXCEPT !.fd = "gone"] \/ moved[k] = [task[k] EXCEPT !.fd = "target"]
        \/ moved[k] = task[k]
    OBVIOUS
  <2> QED BY <2>1, <2>2 DEF Records
<1>6. moved \in [Jobs -> Records]
  BY <1>5
<1> HIDE DEF moved
<1>7. /\ task' \in [Jobs -> Records]
      /\ task'[j].pc = "clean" /\ task'[j].year = y /\ task'[j].left = task[j].left
      /\ task'[j].option = task[j].option
      /\ \A k \in Jobs \ {j} : task'[k].pc = task[k].pc
  <2>1. [moved[j] EXCEPT !.pc = "clean"] \in Records
    BY <1>6 DEF Records, Pcs
  <2>2. task' = [moved EXCEPT ![j] = [moved[j] EXCEPT !.pc = "clean"]]
    BY <1>4, <1>6
  <2>3. task' \in [Jobs -> Records]
    BY <2>1, <2>2, <1>6
  <2>4. task'[j] = [moved[j] EXCEPT !.pc = "clean"] /\ \A k \in Jobs \ {j} : task'[k] = moved[k]
    BY <2>2, <1>6
  <2>5. \A k \in Jobs \ {j} : task'[k].pc = task[k].pc
    BY <2>4, <1>5
  <2>6. moved[j] \in Records
    BY <1>6
  <2> QED BY <2>3, <2>4, <2>5, <2>6, <1>5 DEF Records
<1>8. Types'
  BY <1>1, <1>2, <1>3, <1>4, <1>7 DEF HistoryIInv, Types
<1>9. \A z \in Years : z # y => parquet'[z] = parquet[z]
  BY <1>4 DEF HistoryIInv, Types
<1>10. parquet'[y] = task[j].file
  BY <1>2, <1>4 DEF HistoryIInv, Types
<1>11. NeverTorn'
  BY <1>3, <1>9, <1>10 DEF HistoryIInv, NeverTorn
<1>12. task[j].left \subseteq Years
  BY <1>2 DEF Records
<1>13. Fits(j, task[j])'
  BY <1>1, <1>2, <1>7, <1>9, <1>12 DEF Fits, Present, OnAYear, Writing
<1>14. \A k \in Jobs \ {j} : TaskAt(k, "idle")'
  BY <1>2, <1>7 DEF TaskAt
<1> QED BY <1>1, <1>4, <1>7, <1>8, <1>11, <1>13, <1>14, OneJob

LEMMA DiskErrorKeeps ==
  ASSUME ~Shared, HistoryIInv, NEW j \in Jobs, DiskError(j)
  PROVE  HistoryIInv' /\ UNCHANGED <<gwb, parquet>>
<1> DEFINE r == [task[j] EXCEPT !.pc = "failed"]
<1>1. /\ task[j].pc \in OnAYear /\ task[j].pc # "idle"
      /\ UNCHANGED disk /\ task' = [task EXCEPT ![j].pc = "failed"]
  BY DEF DiskError, TaskAt, OnAYear, Writing, Goto
<1>2. /\ task[j] \in Records /\ Fits(j, task[j])
      /\ task[j].year \in Years /\ task[j].year \notin task[j].left
      /\ \A k \in Jobs \ {j} : TaskAt(k, "idle")
  BY <1>1, WriterHas
<1>3. r \in Records /\ r.pc = "failed" /\ r.year = task[j].year /\ r.left = task[j].left
      /\ r.option = task[j].option
  BY <1>2 DEF Records, Pcs
<1>4. task' = [task EXCEPT ![j] = r]
  BY <1>1
<1> HIDE DEF r
<1>5. Fits(j, r)
  BY <1>1, <1>2, <1>3 DEF Fits, Writing
<1> QED BY <1>1, <1>2, <1>3, <1>4, <1>5, NothingWritten DEF disk

LEMMA CleanKeeps ==
  ASSUME ~Shared, HistoryIInv, NEW j \in Jobs, Clean(j)
  PROVE  HistoryIInv' /\ UNCHANGED <<gwb, parquet>>
<1> DEFINE y == task[j].year
           pc == CASE j = "convert" /\ TaskAt(j, "clean") -> "verify"
                   [] j = "import" /\ TaskAt(j, "failed") -> "refused"
                   [] OTHER -> "next"
           moved == Moved(y, "tmp", "gone")
           r == [moved[j] EXCEPT !.fd = "none", !.pc = pc]
<1>1. /\ task[j].pc \in OnAYear /\ task[j].pc # "idle" /\ UNCHANGED <<gwb, parquet>>
      /\ tmp' = [tmp EXCEPT ![y] = NoFile]
      /\ task' = [moved EXCEPT ![j].fd = "none", ![j].pc = pc]
  BY DEF Clean, TaskAt, OnAYear
<1>2. /\ task[j] \in Records /\ Fits(j, task[j]) /\ y \in Years /\ y \notin task[j].left
      /\ \A k \in Jobs \ {j} : TaskAt(k, "idle")
  BY <1>1, WriterHas
<1>3. pc \in {"verify", "refused", "next"}
  OBVIOUS
<1>4. ASSUME NEW k \in Jobs
      PROVE  /\ moved[k] \in Records /\ moved[k].pc = task[k].pc /\ moved[k].year = task[k].year
             /\ moved[k].left = task[k].left /\ moved[k].option = task[k].option
  <2>1. task[k] \in Records
    BY DEF HistoryIInv, Types
  <2>2. moved[k] = [task[k] EXCEPT !.fd = "gone"] \/ moved[k] = task[k]
    BY DEF Moved
  <2> QED BY <2>1, <2>2 DEF Records
<1>5. moved \in [Jobs -> Records]
  BY <1>4 DEF Moved
<1> HIDE DEF moved, pc
<1>6. /\ r \in Records /\ r.pc = pc /\ r.year = y /\ r.left = task[j].left
      /\ r.option = task[j].option
  <2>1. moved[j] \in Records
    BY <1>5
  <2> QED BY <2>1, <1>3, <1>4 DEF Records, Pcs
<1>7. task' = [moved EXCEPT ![j] = r]
  BY <1>1, <1>5 DEF Records
<1> HIDE DEF r
<1>8. task'[j] = r /\ \A k \in Jobs \ {j} : task'[k].pc = task[k].pc
  BY <1>4, <1>5, <1>7
<1>9. Types'
  BY <1>1, <1>2, <1>5, <1>6, <1>7 DEF HistoryIInv, Types
<1>10. Fits(j, task[j])'
  BY <1>1, <1>2, <1>3, <1>6, <1>8 DEF Fits, Present, OnAYear, Writing
<1>11. NeverTorn' /\ \A k \in Jobs \ {j} : TaskAt(k, "idle")'
  BY <1>1, <1>2, <1>8 DEF HistoryIInv, NeverTorn, TaskAt
<1> QED BY <1>1, <1>9, <1>10, <1>11, OneJob

\* The source goes once the Parquet that hides it is there.
LEMMA VerifyKeeps ==
  ASSUME ~Shared, HistoryIInv, Verify
  PROVE  /\ HistoryIInv' /\ UNCHANGED parquet
         /\ \A z \in Years : gwb'[z] # gwb[z] => parquet[z] # NoFile
         /\ \A k \in Jobs \ {"convert"} : task'[k].pc = task[k].pc
<1> DEFINE j == "convert"
           y == task[j].year
           r == [task[j] EXCEPT !.pc = "next"]
<1>1. /\ j \in Jobs /\ task[j].pc = "verify" /\ UNCHANGED <<parquet, tmp>>
      /\ task' = [task EXCEPT ![j].pc = "next"]
      /\ gwb' = gwb \/ (gwb' = [gwb EXCEPT ![y] = NoFile] /\ parquet[y] # NoFile)
  BY DEF Verify, TaskAt, Goto, Jobs
<1>2. /\ task[j] \in Records /\ Fits(j, task[j]) /\ y \in Years /\ y \notin task[j].left
      /\ \A k \in Jobs \ {j} : TaskAt(k, "idle")
  BY <1>1, WriterHas DEF OnAYear
<1>3. /\ r \in Records /\ r.pc = "next" /\ r.left = task[j].left
  BY <1>2 DEF Records, Pcs
<1>4. task' = [task EXCEPT ![j] = r]
  BY <1>1
<1> HIDE DEF r
<1>5. task'[j] = r /\ \A k \in Jobs \ {j} : task'[k] = task[k]
  BY <1>1, <1>4 DEF HistoryIInv, Types
<1>6. Types'
  BY <1>1, <1>2, <1>3, <1>4 DEF HistoryIInv, Types
<1>7. \A z \in Years : z # y => gwb'[z] = gwb[z]
  BY <1>1 DEF HistoryIInv, Types
<1>8. \A z \in Years : gwb'[z] # gwb[z] => parquet[z] # NoFile
  BY <1>1, <1>7
<1>9. \A z \in task[j].left : gwb'[z] # NoFile
  <2>1. \A z \in task[j].left : gwb[z] # NoFile /\ z \in Years
    BY <1>1, <1>2 DEF Fits, Records
  <2> QED BY <2>1, <1>2, <1>7
<1>10. Fits(j, task[j])'
  BY <1>3, <1>5, <1>9 DEF Fits, OnAYear, Writing
<1>11. NeverTorn' /\ \A k \in Jobs \ {j} : TaskAt(k, "idle")'
  BY <1>1, <1>2, <1>5 DEF HistoryIInv, NeverTorn, TaskAt
<1> QED BY <1>1, <1>5, <1>6, <1>8, <1>10, <1>11, OneJob

LEMMA CrashKeeps ==
  ASSUME ~Shared, HistoryIInv, Crash
  PROVE  HistoryIInv' /\ UNCHANGED disk
<1>1. task' = [j \in Jobs |-> AtRest] /\ UNCHANGED <<gwb, parquet, tmp>> /\ UNCHANGED disk
  BY DEF Crash, disk
<1>2. Types'
  BY <1>1, IdleType DEF HistoryIInv, Types
<1>3. OneTask' /\ NeverTorn'
  BY <1>1, IdleType DEF HistoryIInv, OneTask, TaskAt, NeverTorn
<1>4. \A j \in Jobs : Fits(j, task[j])'
  BY <1>1, IdleType DEF Fits, OnAYear, Writing
<1> QED BY <1>1, <1>2, <1>3, <1>4 DEF HistoryIInv

-----------------------------------------------------------------------------
(* Steps *)

\* The steps that leave the files alone.
Outside ==
    \/ StartDownload \/ StartConvert \/ StartImport
    \/ NextDownload \/ NextConvert \/ NextImport
    \/ Requests \/ CancelDownload \/ EndFetch \/ Abandon \/ RefuseImport \/ Crash
    \/ \E j \in Jobs : EndTask(j)

LEMMA OutsideKeeps ==
  ASSUME ~Shared, HistoryIInv, Outside
  PROVE  HistoryIInv' /\ UNCHANGED disk
<1>1. ASSUME NEW j \in Jobs, EndTask(j) PROVE HistoryIInv' /\ UNCHANGED disk
  BY <1>1, GoesIdle DEF EndTask, TaskAt
<1>2. CASE RefuseImport
  BY <1>2, GoesIdle DEF RefuseImport, TaskAt, Jobs
<1>3. CASE StartDownload \/ StartConvert \/ StartImport
  BY <1>3, TaskStarts DEF StartDownload, StartConvert, StartImport
<1>4. CASE NextDownload \/ NextConvert \/ NextImport
  BY <1>4, NextKeeps DEF NextDownload, NextConvert, NextImport
<1>5. CASE Requests \/ CancelDownload \/ EndFetch \/ Abandon
  BY <1>5, FetchKeeps DEF Requests, Ask, Answer, Retry, Lose, CancelDownload, EndFetch, Abandon
<1>6. CASE Crash
  BY <1>6, CrashKeeps
<1> QED BY <1>1, <1>2, <1>3, <1>4, <1>5, <1>6 DEF Outside

LEMMA NextIs ==
  ASSUME HistoryNext
  PROVE  Outside \/ Verify \/ \E j \in Jobs : Writes(j)
  BY DEF HistoryNext, Download, Convert, ImportFiles, Outside, Jobs

LEMMA StepPreserves ==
  ASSUME ~Shared, HistoryIInv, [HistoryNext]_historyVars
  PROVE  HistoryIInv' /\ YearsKept
<1>1. ASSUME UNCHANGED disk PROVE YearsKept
  BY <1>1 DEF YearsKept, YearFile, disk
<1>2. ASSUME UNCHANGED <<gwb, parquet>> PROVE YearsKept
  BY <1>2 DEF YearsKept, YearFile
<1>3. CASE Outside
  BY <1>1, <1>3, OutsideKeeps
<1>4. CASE Verify
  <2>1. /\ HistoryIInv' /\ UNCHANGED parquet
        /\ \A z \in Years : gwb'[z] # gwb[z] => parquet[z] # NoFile
    BY <1>4, VerifyKeeps
  <2> QED BY <2>1 DEF YearsKept, YearFile
<1>5. ASSUME NEW j \in Jobs, Create(j) \/ Write(j) \/ DiskError(j) \/ Clean(j)
      PROVE  HistoryIInv' /\ YearsKept
  BY <1>2, <1>5, CreateKeeps, WriteKeeps, DiskErrorKeeps, CleanKeeps
<1>6. ASSUME NEW j \in Jobs, Rename(j) PROVE HistoryIInv' /\ YearsKept
  <2>1. /\ HistoryIInv' /\ UNCHANGED gwb
        /\ parquet' = [parquet EXCEPT ![task[j].year] = task[j].file]
        /\ \A k \in Jobs \ {j} : task'[k].pc = task[k].pc
    BY <1>6, RenameKeeps
  <2>2. task[j].pc = "rename" /\ Fits(j, task[j]) /\ parquet \in [Years -> Files \cup {NoFile}]
    BY <1>6 DEF Rename, TaskAt, HistoryIInv, Types
  <2>3. task[j].file \in Files /\ task[j].file # NoFile /\ task[j].year \in Years
    BY <2>2, HistoryAssumption DEF HistoryIInv, Types, Records, Fits, OnAYear, Writing
  <2> SUFFICES ASSUME NEW k \in {"convert", "import"}, NEW y \in Years, task'[k].pc # task[k].pc,
                      ~(k = "import" /\ task[k].option), YearFile(y) # NoFile
               PROVE  YearFile(y)' = YearFile(y)
    BY <2>1 DEF YearsKept
  <2>4. k = j
    BY <2>1 DEF Jobs
  <2>5. CASE y # task[j].year
    BY <2>1, <2>2, <2>5 DEF YearFile
  <2>6. CASE y = task[j].year
    <3>1. parquet[y] = NoFile /\ gwb[y] = task[j].file
      BY <2>2, <2>4, <2>6 DEF Fits, Writing, Present, YearFile
    <3>2. parquet'[y] = task[j].file
      BY <2>1, <2>2, <2>3, <2>6
    <3> QED BY <2>3, <3>1, <3>2 DEF YearFile
  <2> QED BY <2>5, <2>6
<1>7. CASE UNCHANGED historyVars
  <2>1. UNCHANGED <<gwb, parquet, tmp, task>>
    BY <1>7 DEF historyVars, disk
  <2> QED BY <1>2, <2>1 DEF HistoryIInv, Types, OneTask, TaskAt, Fits, Present, NeverTorn
<1> QED BY <1>3, <1>4, <1>5, <1>6, <1>7, NextIs DEF Writes

\* Killed, refused by the disk or cancelled anywhere, a writer leaves the old Parquet
\* of the year or the whole new one (parquet.go:87).
THEOREM FilesStayWhole == ~Shared => (HistorySpec => []NeverTorn)
<1> SUFFICES ASSUME ~Shared PROVE HistorySpec => []NeverTorn
  BY HistoryAssumption
<1>1. HistoryInit => HistoryIInv
  BY InitHolds
<1>2. HistoryIInv /\ [HistoryNext]_historyVars => HistoryIInv'
  BY StepPreserves
<1>3. HistoryIInv => NeverTorn
  BY DEF HistoryIInv
<1> QED BY <1>1, <1>2, <1>3, PTL DEF HistorySpec

\* A conversion, and an import that was not told to replace, change nothing of what
\* Load finds in a year (migrate.go:137, migrate.go:292).
THEOREM ConversionsKeepHistory == ~Shared => (HistorySpec => KeepsHistory)
<1> SUFFICES ASSUME ~Shared PROVE HistorySpec => KeepsHistory
  BY HistoryAssumption
<1>1. HistoryInit => HistoryIInv
  BY InitHolds
<1>2. HistoryIInv /\ [HistoryNext]_historyVars => HistoryIInv' /\ [YearsKept]_historyVars
  BY StepPreserves
<1> QED BY <1>1, <1>2, PTL DEF HistorySpec, KeepsHistory
-----------------------------------------------------------------------------
(* Complete years

   A file that is whole and calls itself complete holds what its source has, and so does
   what a task is about to write: the fetch of a year notes as absent only what the source
   does not have (Noticed), and counts what it has lost *)

\* Weeks are counted by the market's calendar (missingMarketWeeks): a source that counts
\* them has nothing outside.
WeeksAreCounted == \A s \in Sources : s.byWeek => s.published \subseteq Open

Honest(f) == ~f.torn /\ SaysComplete(f) => \A u \in Published : f.bars[u] # "none"

Noticed ==
    /\ source \in Sources
    /\ unit \in [Units -> {"wait", "asked", "lost"} \cup Sides]
    /\ \A u \in Units : unit[u] = "none" => u \notin Published

HonestFiles == \A y \in Years : /\ gwb[y] # NoFile => Honest(gwb[y])
                                /\ parquet[y] # NoFile => Honest(parquet[y])

HonestJobs == \A j \in Jobs : task[j].pc \in Writing => Honest(task[j].file)

Honesty == Noticed /\ HonestFiles /\ HonestJobs

LEMMA HonestyStarts ==
  ASSUME HistoryInit
  PROVE  Honesty
<1>1. Noticed
  BY DEF HistoryInit, Noticed, Unasked
<1>2. HonestJobs
  BY IdleType DEF HistoryInit, HonestJobs, Writing
<1>3. ASSUME NEW y \in Years, gwb[y] # NoFile PROVE Honest(gwb[y])
  <2> DEFINE full == [File([u \in Units |-> "both"], 0, FALSE) EXCEPT !.torn = TRUE]
             bs == {[u \in Units |-> IF u \in held THEN "both" ELSE "none"] :
                      held \in (SUBSET Published) \ {{}}}
             absent(b) == {u \in Published : b[u] = "none"}
  <2>1. gwb[y] \in {NoFile, full} \cup {File(b, Cardinality(absent(b)), FALSE) : b \in bs}
    BY DEF HistoryInit
  <2>2. full.torn
    BY DEF File
  <2>3. ASSUME NEW b \in bs PROVE Honest(File(b, Cardinality(absent(b)), FALSE))
    <3> DEFINE f == File(b, Cardinality(absent(b)), FALSE)
    <3>1. f.missing = Cardinality(absent(b)) /\ f.bars = b
      BY DEF File
    <3>2. IsFiniteSet(absent(b))
      <4>1. absent(b) \subseteq Units /\ IsFiniteSet(Units)
        BY HistoryAssumption DEF HistoryInit, Published
      <4> QED BY <4>1, FS_Subset
    <3> HIDE DEF f, absent
    <3>3. ASSUME SaysComplete(f) PROVE absent(b) = {}
      BY <3>1, <3>2, <3>3, FS_EmptySet DEF SaysComplete
    <3>4. ASSUME absent(b) = {} PROVE \A u \in Published : b[u] # "none"
      BY <3>4 DEF absent
    <3>5. Honest(f)
      BY <3>1, <3>3, <3>4 DEF Honest
    <3> QED BY <3>5 DEF f
  <2>4. full.torn => Honest(full)
    BY DEF Honest
  <2> HIDE DEF full, bs, absent
  <2> QED BY <1>3, <2>1, <2>2, <2>3, <2>4
<1>4. HonestFiles
  BY <1>3 DEF HistoryInit, HonestFiles
<1> QED BY <1>1, <1>2, <1>4 DEF Honesty

\* The source answers for what it has: a unit it has is never noted as absent.
LEMMA NoticedStays ==
  ASSUME ~Shared, Noticed, [HistoryNext]_historyVars
  PROVE  Noticed' /\ source' = source
<1>1. source' = source
  BY DEF HistoryNext, Download, Convert, ImportFiles, Requests, Writes, StartDownload, StartConvert,
         StartImport, Ask, Answer, Retry, Lose, NextDownload, EndFetch, Abandon, Create, Write,
         Rename, DiskError, Clean, EndTask, NextConvert, Verify, NextImport, RefuseImport, CancelDownload,
         Crash, historyVars
<1>2. ASSUME unit' = unit \/ unit' = Unasked PROVE Noticed'
  BY <1>1, <1>2 DEF Noticed, Published, Unasked
<1>3. ASSUME NEW u \in Units, NEW out \in {"asked", "lost"} \cup Sides,
             unit' = [unit EXCEPT ![u] = out], out = "none" => u \notin Published
      PROVE  Noticed'
  BY <1>1, <1>3 DEF Noticed, Published
<1>4. ASSUME NEW u \in Units, Ask(u) \/ Answer(u) \/ Retry(u) \/ Lose(u) PROVE Noticed'
  <2>1. CASE Ask(u)
    BY <1>3, <2>1 DEF Ask
  <2>2. CASE Answer(u)
    BY <1>3, <2>2 DEF Answer, Sides
  <2>3. CASE Retry(u)
    BY <1>2, <1>3, <2>3 DEF Retry
  <2>4. CASE Lose(u)
    BY <1>3, <2>4 DEF Lose
  <2> QED BY <1>4, <2>1, <2>2, <2>3, <2>4
<1>5. CASE ~Requests
  <2>1. unit' = unit \/ unit' = Unasked
    <3>1. CASE UNCHANGED historyVars
      BY <3>1 DEF historyVars, fetch
    <3>2. ASSUME NEW j \in Jobs, Writes(j) \/ EndTask(j) PROVE unit' = unit
      BY <3>2 DEF Writes, Create, Write, Rename, DiskError, Clean, EndTask, fetch
    <3>3. CASE StartDownload \/ StartConvert \/ StartImport \/ CancelDownload \/ Crash
      BY <3>3 DEF StartDownload, StartConvert, StartImport, CancelDownload, Crash, fetch
    <3>4. CASE NextDownload \/ NextConvert \/ NextImport
      BY <3>4 DEF NextDownload, NextConvert, NextImport, fetch
    <3>5. CASE EndFetch \/ Abandon \/ RefuseImport \/ Verify
      BY <3>5 DEF EndFetch, Abandon, RefuseImport, Verify, fetch
    <3>6. CASE HistoryNext
      <4>1. Outside \/ Verify \/ \E j \in Jobs : Writes(j)
        BY <3>6, NextIs
      <4> QED BY <1>5, <3>2, <3>3, <3>4, <3>5, <4>1, Zenon DEF Outside
    <3> QED BY <3>1, <3>6
  <2> QED BY <1>1, <1>2, <2>1
<1> QED BY <1>1, <1>4, <1>5 DEF Requests

\* Of a complete year, nothing the source has was lost.
LEMMA FetchIsHonest ==
  ASSUME ~Shared, WeeksAreCounted, Noticed, Settled,
         NEW bars, bars = [u \in Units |-> IF unit[u] \in Sides THEN unit[u] ELSE "none"]
  PROVE  Honest(File(bars, Missing, FALSE))
<1> DEFINE f == File(bars, Missing, FALSE)
           missed == IF source.byWeek THEN {u \in Open : unit[u] \notin {"bid", "both"}}
                                    ELSE {u \in Units : unit[u] = "lost"}
<1>1. f.missing = Cardinality(missed) /\ f.bars = bars
  BY DEF File, Missing
<1>2. IsFiniteSet(missed)
  <2>1. missed \subseteq Units /\ IsFiniteSet(Units)
    BY HistoryAssumption
  <2> QED BY <2>1, FS_Subset
<1>3. Published \subseteq Units /\ (source.byWeek => Published \subseteq Open)
  BY HistoryAssumption DEF Noticed, Published, WeeksAreCounted
<1>4. ASSUME missed = {}, NEW u \in Published PROVE bars[u] # "none"
  <2>1. unit[u] \in {"none", "bid", "both", "lost"} /\ unit[u] # "none"
    BY <1>3 DEF Settled, Noticed
  <2>2. unit[u] # "lost"
    BY <1>3, <1>4
  <2> QED BY <1>3, <2>1, <2>2 DEF Sides
<1> HIDE DEF f, missed
<1>5. ASSUME SaysComplete(f) PROVE missed = {}
  BY <1>1, <1>2, <1>5, FS_EmptySet DEF SaysComplete
<1>6. Honest(f)
  BY <1>1, <1>4, <1>5 DEF Honest
<1> QED BY <1>6 DEF f

\* A step that writes no file, or ends a writing.
LEMMA HonestyKept ==
  ASSUME Honesty, Noticed', source' = source,
         \A y \in Years : gwb'[y] = gwb[y] \/ gwb'[y] = NoFile,
         \A y \in Years : parquet'[y] = parquet[y] \/ Honest(parquet'[y]),
         \A j \in Jobs : task'[j].pc \in Writing =>
                           \/ task[j].pc \in Writing /\ task'[j].file = task[j].file
                           \/ Honest(task'[j].file)
  PROVE  Honesty'
<1>1. \A f : Honest(f)' <=> Honest(f)
  BY DEF Honest, Published, SaysComplete
<1> QED BY <1>1 DEF Honesty, HonestFiles, HonestJobs

\* What one job does, the other jobs being as they were.
LEMMA OneWriter ==
  ASSUME HistoryIInv, Honesty, Noticed', source' = source, NEW j \in Jobs, NEW r,
         task' = [task EXCEPT ![j] = r],
         r.pc \in Writing => Honest(r.file),
         \A y \in Years : gwb'[y] = gwb[y] \/ gwb'[y] = NoFile,
         \A y \in Years : parquet'[y] = parquet[y] \/ Honest(parquet'[y])
  PROVE  Honesty'
<1>1. task'[j] = r /\ \A k \in Jobs \ {j} : task'[k] = task[k]
  BY DEF HistoryIInv, Types
<1>2. \A k \in Jobs : task'[k].pc \in Writing =>
                        \/ task[k].pc \in Writing /\ task'[k].file = task[k].file
                        \/ Honest(task'[k].file)
  BY <1>1
<1> QED BY <1>2, HonestyKept

LEMMA StartsHonest ==
  ASSUME ~Shared, HistoryIInv, Honesty, Noticed', source' = source,
         StartDownload \/ StartConvert \/ StartImport
  PROVE  Honesty'
<1>1. gwb' = gwb /\ parquet' = parquet
  BY DEF StartDownload, StartConvert, StartImport, disk
<1>2. ASSUME NEW j \in Jobs, NEW left, NEW option, StartTask(j, left, option) PROVE Honesty'
  <2> DEFINE r == [AtRest EXCEPT !.pc = "next", !.left = left, !.option = option]
  <2>1. r.pc = "next"
    BY DEF AtRest
  <2>2. task' = [task EXCEPT ![j] = r]
    BY <1>2 DEF StartTask
  <2> HIDE DEF r
  <2> QED BY <1>1, <2>1, <2>2, OneWriter DEF Writing
<1>3. CASE UNCHANGED task
  BY <1>1, <1>3, HonestyKept
<1> QED BY <1>2, <1>3 DEF StartDownload, StartConvert, StartImport, Jobs

LEMMA PicksHonest ==
  ASSUME ~Shared, HistoryIInv, Honesty, Noticed', source' = source,
         NEW j \in Jobs, TaskAt(j, "next"), task[j].left # {},
         NEW pc \in Pcs, NEW file \in Files, UNCHANGED disk,
         \/ task' = [Pick(j, pc) EXCEPT ![j].file = file] /\ (pc \in Writing => Honest(file))
         \/ task' = Pick(j, pc) /\ pc \notin Writing
  PROVE  Honesty'
<1> DEFINE y == NextYear(j)
           p == Picked(task[j], pc, y)
           s == [p EXCEPT !.file = file]
<1>1. task \in [Jobs -> Records] /\ task[j] \in Records /\ y \in task[j].left
  BY FirstYear DEF HistoryIInv, Types
<1>2. p \in Records /\ p.pc = pc
  BY <1>1, PickedTypes
<1>3. Pick(j, pc) = [task EXCEPT ![j] = p]
  BY PickIs DEF HistoryIInv
<1>4. gwb' = gwb /\ parquet' = parquet
  BY DEF disk
<1> HIDE DEF p, y
<1>5. CASE task' = Pick(j, pc) /\ pc \notin Writing
  BY <1>2, <1>3, <1>4, <1>5, OneWriter
<1>6. CASE task' = [Pick(j, pc) EXCEPT ![j].file = file] /\ (pc \in Writing => Honest(file))
  <2>1. s.file = file /\ s.pc = pc
    BY <1>2, WithFile
  <2>2. task' = [task EXCEPT ![j] = s]
    BY <1>1, <1>3, <1>6
  <2> HIDE DEF s
  <2> QED BY <1>4, <1>6, <2>1, <2>2, OneWriter
<1> QED BY <1>5, <1>6

LEMMA NextHonest ==
  ASSUME ~Shared, HistoryIInv, Honesty, Noticed', source' = source,
         NextDownload \/ NextConvert \/ NextImport
  PROVE  Honesty'
<1>1. UNCHANGED disk
  BY DEF NextDownload, NextConvert, NextImport
<1>2. CASE NextDownload
  <2>1. "download" \in Jobs /\ TaskAt("download", "next") /\ task["download"].left # {}
    BY <1>2 DEF NextDownload, Jobs
  <2>2. CASE abandoned
    <3>1. task' = [task EXCEPT !["download"] = AtRest] /\ gwb' = gwb /\ parquet' = parquet
      BY <1>1, <1>2, <2>2 DEF NextDownload, disk
    <3> QED BY <2>1, <3>1, IdleType, OneWriter DEF Writing
  <2>3. CASE ~abandoned
    <3> DEFINE pc == IF NeedsDownload(NextYear("download")) THEN "fetch" ELSE "next"
    <3>1. pc \in Pcs /\ pc \notin Writing
      BY DEF Pcs, Writing
    <3>2. task' = Pick("download", pc)
      BY <1>2, <2>3 DEF NextDownload
    <3>3. Torn \in Files
      BY TornType
    <3> HIDE DEF pc
    <3> QED BY <1>1, <2>1, <3>1, <3>2, <3>3, PicksHonest
  <2> QED BY <2>2, <2>3
<1>3. CASE NextConvert
  <2> DEFINE y == NextYear("convert")
             old == gwb[y]
             pc == IF old.torn THEN "next"
                   ELSE IF parquet[y] = NoFile THEN "create"
                   ELSE IF SameSeries(old, parquet[y]) THEN "verify"
                   ELSE "next"
  <2>1. "convert" \in Jobs /\ TaskAt("convert", "next") /\ task["convert"].left # {}
    BY <1>3 DEF NextConvert, Jobs
  <2>2. y \in task["convert"].left /\ y \in Years
    BY <2>1, FirstYear DEF HistoryIInv, Types, Records
  <2>3. old \in Files /\ old # NoFile
    BY <2>1, <2>2 DEF HistoryIInv, Types, Fits, TaskAt
  <2>4. Honest(old) /\ pc \in Pcs
    BY <2>2, <2>3 DEF Honesty, HonestFiles, Pcs
  <2>5. task' = [Pick("convert", pc) EXCEPT !["convert"].file = old]
    BY <1>3 DEF NextConvert
  <2> HIDE DEF pc
  <2> QED BY <1>1, <2>1, <2>3, <2>4, <2>5, PicksHonest
<1>4. CASE NextImport
  <2> DEFINE file == File([u \in Units |-> "bid"], 0, TRUE)
  <2>1. "import" \in Jobs /\ TaskAt("import", "next") /\ task["import"].left # {}
    BY <1>4 DEF NextImport, Jobs
  <2>2. file \in Files
    <3>1. [u \in Units |-> "bid"] \in [Units -> Sides] /\ 0 \in 0..Cardinality(Units)
      BY CountType DEF Sides
    <3> QED BY <3>1, FileTypes
  <2>3. Honest(file)
    BY DEF Honest, SaysComplete, File
  <2>4. task' = [Pick("import", "create") EXCEPT !["import"].file = file]
    BY <1>4 DEF NextImport
  <2> HIDE DEF file
  <2> QED BY <1>1, <2>1, <2>2, <2>3, <2>4, PicksHonest DEF Pcs
<1> QED BY <1>2, <1>3, <1>4

LEMMA FetchHonest ==
  ASSUME ~Shared, WeeksAreCounted, HistoryIInv, Honesty, Noticed', source' = source,
         Requests \/ CancelDownload \/ EndFetch \/ Abandon
  PROVE  Honesty'
<1>1. CASE Requests \/ CancelDownload
  <2>1. gwb' = gwb /\ parquet' = parquet /\ task' = task
    BY <1>1 DEF Requests, Ask, Answer, Retry, Lose, CancelDownload, disk
  <2> QED BY <2>1, HonestyKept
<1>2. "download" \in Jobs
  BY DEF Jobs
<1>3. CASE Abandon
  <2>1. task' = [task EXCEPT !["download"] = AtRest] /\ gwb' = gwb /\ parquet' = parquet
    BY <1>3 DEF Abandon, disk
  <2> QED BY <1>2, <2>1, IdleType, OneWriter DEF Writing
<1>4. CASE EndFetch
  <2>1. PICK bars : bars = [u \in Units |-> IF unit[u] \in Sides THEN unit[u] ELSE "none"]
    OBVIOUS
  <2>2. PICK file : file = File(bars, Missing, FALSE)
    OBVIOUS
  <2>3. Honest(file)
    BY <1>4, <2>1, <2>2, FetchIsHonest DEF EndFetch, Honesty
  <2> DEFINE d == task["download"]
             r == IF bars = NoBars THEN [d EXCEPT !.pc = "next"]
                  ELSE [d EXCEPT !.pc = "create", !.file = file]
  <2>4. d \in Records /\ task \in [Jobs -> Records]
    BY <1>2 DEF HistoryIInv, Types
  <2>5. task' = [task EXCEPT !["download"] = r] /\ gwb' = gwb /\ parquet' = parquet
    BY <1>2, <1>4, <2>1, <2>2, <2>4 DEF EndFetch, disk
  <2>6. r.pc \in Writing => r.file = file
    BY <2>4 DEF Records, Writing
  <2> HIDE DEF r, d
  <2> QED BY <1>2, <2>3, <2>5, <2>6, OneWriter
<1> QED BY <1>1, <1>3, <1>4

LEMMA WritesHonest ==
  ASSUME ~Shared, HistoryIInv, Honesty, Noticed', source' = source,
         NEW j \in Jobs, Writes(j)
  PROVE  Honesty'
<1>1. task \in [Jobs -> Records] /\ task[j] \in Records
  BY DEF HistoryIInv, Types
<1>2. task[j].pc \in Writing => Honest(task[j].file)
  BY DEF Honesty, HonestJobs
<1>3. CASE Create(j) \/ Write(j) \/ DiskError(j) \/ Clean(j)
  <2>1. gwb' = gwb /\ parquet' = parquet
    BY <1>3, CreateKeeps, WriteKeeps, DiskErrorKeeps, CleanKeeps
  <2>2. CASE Create(j)
    <3> DEFINE r == [task[j] EXCEPT !.pc = "write", !.fd = "tmp"]
    <3>1. task' = [task EXCEPT ![j] = r]
      BY <1>1, <2>2 DEF Create, Records
    <3>2. r.file = task[j].file /\ task[j].pc \in Writing
      BY <1>1, <2>2 DEF Create, TaskAt, Records, Writing
    <3> HIDE DEF r
    <3> QED BY <1>2, <2>1, <3>1, <3>2, OneWriter
  <2>3. CASE Write(j)
    <3> DEFINE r == [task[j] EXCEPT !.pc = "rename"]
    <3>1. task' = [task EXCEPT ![j] = r]
      BY <1>1, <2>3 DEF Write, Goto
    <3>2. r.file = task[j].file /\ task[j].pc \in Writing
      BY <1>1, <2>3 DEF Write, TaskAt, Records, Writing
    <3> HIDE DEF r
    <3> QED BY <1>2, <2>1, <3>1, <3>2, OneWriter
  <2>4. CASE DiskError(j)
    <3> DEFINE r == [task[j] EXCEPT !.pc = "failed"]
    <3>1. task' = [task EXCEPT ![j] = r] /\ r.pc = "failed"
      BY <1>1, <2>4 DEF DiskError, Goto, Records
    <3> HIDE DEF r
    <3> QED BY <2>1, <3>1, OneWriter DEF Writing
  <2>5. CASE Clean(j)
    <3> DEFINE moved == Moved(task[j].year, "tmp", "gone")
    <3>1. \A k \in Jobs : moved[k].pc = task[k].pc /\ moved[k].file = task[k].file
      BY <1>1 DEF Moved, Records
    <3>2. /\ task'[j].pc \in {"verify", "refused", "next"}
          /\ \A k \in Jobs \ {j} : task'[k] = moved[k]
      BY <1>1, <2>5 DEF Clean, Moved, Records
    <3> HIDE DEF moved
    <3>3. \A k \in Jobs : task'[k].pc \in Writing =>
                            task[k].pc \in Writing /\ task'[k].file = task[k].file
      BY <3>1, <3>2 DEF Writing
    <3> QED BY <2>1, <3>3, HonestyKept
  <2> QED BY <1>3, <2>2, <2>3, <2>4, <2>5
<1>4. CASE Rename(j)
  <2>1. /\ gwb' = gwb /\ parquet' = [parquet EXCEPT ![task[j].year] = task[j].file]
        /\ \A k \in Jobs \ {j} : task'[k].pc = task[k].pc
    BY <1>4, RenameKeeps
  <2>2. task[j].pc = "rename" /\ Honest(task[j].file)
    BY <1>2, <1>4 DEF Rename, TaskAt, Writing
  <2>3. \A y \in Years : parquet'[y] = parquet[y] \/ Honest(parquet'[y])
    BY <2>1, <2>2 DEF HistoryIInv, Types
  <2>4. \A k \in Jobs \ {j} : task[k].pc \notin Writing
    <3>1. ~TaskAt(j, "idle")
      BY <2>2 DEF TaskAt
    <3> QED BY <3>1, OthersIdle DEF TaskAt, Writing
  <2>5. task'[j].pc \in {"failed", "clean"}
    BY <1>1, <1>4 DEF Rename, Goto, Records
  <2>6. \A k \in Jobs : task'[k].pc \notin Writing
    BY <2>1, <2>4, <2>5 DEF Writing
  <2> QED BY <2>1, <2>3, <2>6, HonestyKept
<1> QED BY <1>3, <1>4 DEF Writes

LEMMA HonestyHolds ==
  ASSUME ~Shared, WeeksAreCounted, HistoryIInv, Honesty, [HistoryNext]_historyVars
  PROVE  Honesty'
<1>1. Noticed' /\ source' = source
  BY NoticedStays DEF Honesty
<1>2. ASSUME NEW j \in Jobs, task' = [task EXCEPT ![j] = AtRest], UNCHANGED disk PROVE Honesty'
  BY <1>1, <1>2, IdleType, OneWriter DEF disk, Writing
<1>3. CASE StartDownload \/ StartConvert \/ StartImport
  BY <1>1, <1>3, StartsHonest
<1>4. CASE NextDownload \/ NextConvert \/ NextImport
  BY <1>1, <1>4, NextHonest
<1>5. CASE Requests \/ CancelDownload \/ EndFetch \/ Abandon
  BY <1>1, <1>5, FetchHonest
<1>6. CASE RefuseImport \/ \E j \in Jobs : EndTask(j)
  BY <1>2, <1>6 DEF RefuseImport, EndTask, Jobs
<1>7. CASE Crash
  <2>1. gwb' = gwb /\ parquet' = parquet /\ \A j \in Jobs : task'[j].pc = "idle"
    BY <1>7, IdleType DEF Crash, disk
  <2> QED BY <1>1, <2>1, HonestyKept DEF Writing
<1>8. CASE Verify
  <2> DEFINE r == [task["convert"] EXCEPT !.pc = "next"]
  <2>1. /\ "convert" \in Jobs /\ parquet' = parquet /\ task' = [task EXCEPT !["convert"] = r]
    BY <1>8 DEF Verify, Goto, Jobs
  <2>2. r.pc = "next"
    BY <2>1 DEF HistoryIInv, Types, Records
  <2>3. \A y \in Years : gwb'[y] = gwb[y] \/ gwb'[y] = NoFile
    BY <1>8 DEF Verify, HistoryIInv, Types
  <2> HIDE DEF r
  <2> QED BY <1>1, <2>1, <2>2, <2>3, OneWriter DEF Writing
<1>9. ASSUME NEW j \in Jobs, Writes(j) PROVE Honesty'
  BY <1>1, <1>9, WritesHonest
<1>10. CASE UNCHANGED historyVars
  BY <1>1, <1>10, HonestyKept DEF historyVars, disk
<1> QED BY <1>3, <1>4, <1>5, <1>6, <1>7, <1>8, <1>9, <1>10, NextIs DEF Outside

\* The Parquet of a year is whole whatever is killed, and a year that calls itself
\* complete, and that no download will ask for again, holds every unit its source has
\* (parquet.go, WriteSeries; FileHeader.Failures, store.go:46).
THEOREM CompleteYearsAreWhole ==
    ~Shared /\ WeeksAreCounted => (HistorySpec => []HistoryHolds)
<1> SUFFICES ASSUME ~Shared, WeeksAreCounted PROVE HistorySpec => []HistoryHolds
  BY HistoryAssumption
<1>1. HistoryInit => HistoryIInv /\ Honesty
  BY InitHolds, HonestyStarts
<1>2. HistoryIInv /\ Honesty /\ [HistoryNext]_historyVars => (HistoryIInv /\ Honesty)'
  BY StepPreserves, HonestyHolds
<1>3. HistoryIInv /\ Honesty => HistoryHolds
  BY DEF HistoryIInv, Honesty, HonestFiles, Honest, HonestlyComplete, HistoryHolds
<1> QED BY <1>1, <1>2, <1>3, PTL DEF HistorySpec
=============================================================================

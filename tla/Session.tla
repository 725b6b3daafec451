-------------------------------- MODULE Session --------------------------------
(***************************************************************************)
(* The life of the sessions (internal/live/runtime.go): callers connect    *)
(* and disconnect; each session has a gateway and a poller, which writes   *)
(* the figures of the account that the interface shows.                    *)
(*                                                                         *)
(* Sessions are numbered in the order of their connection; 0 is none.      *)
(* Nothing of this outlives the process.                                   *)
(***************************************************************************)
EXTENDS Naturals

CONSTANTS
    Callers,      \* goroutines that call Connect, ConnectAs or Disconnect
    MaxCalls,     \* bound on the calls
    MaxSessions,  \* bound on the connections
    None

ASSUME SessionAssumption == {MaxCalls, MaxSessions} \subseteq Nat /\ None \notin Callers

Sessions == 1..MaxSessions

VARIABLES
    gateway,    \* Runtime.gateway: the session installed, or 0
    calls,      \* calls made so far
    sessions,   \* connections made so far
    up,         \* sessions whose gateway is connected
    cancelled,  \* sessions whose context has been cancelled
    caller,     \* per caller: where its call stands, whether it connects, its gateway
    connMu,     \* the caller that holds Runtime.connMu, or None
    poll,       \* per session, its pollAccount
    accMu,      \* the session whose poller holds Runtime.accMu, or 0
    shown       \* the sessions the figures shown are of, or 0

callVars == <<calls, gateway, sessions, cancelled, caller, connMu>>
pollVars == <<poll, accMu, shown>>
vars == <<callVars, up, pollVars>>

Resting == [stage |-> "idle", connects |-> FALSE, gw |-> 0]
Waiting == [stage |-> "wait", via |-> 0, acc |-> FALSE, pos |-> FALSE]
NoFigures == [account |-> 0, positions |-> 0, error |-> FALSE]

Init ==
    /\ calls = 0 /\ gateway = 0 /\ sessions = 0
    /\ up = {} /\ cancelled = {}
    /\ caller = [c \in Callers |-> Resting]
    /\ connMu = None
    /\ poll = [g \in Sessions |-> [Waiting EXCEPT !.stage = "off"]]
    /\ accMu = 0
    /\ shown = NoFigures

-----------------------------------------------------------------------------
(* Connect and Disconnect *)

At(c, stage) == caller[c].stage = stage
Go(c, stage) == caller' = [caller EXCEPT ![c].stage = stage]

Call(c, connects) ==
    /\ At(c, "idle") /\ calls < MaxCalls
    /\ calls' = calls + 1
    /\ caller' = [caller EXCEPT ![c] = [stage |-> "lock", connects |-> connects, gw |-> 0]]
    /\ UNCHANGED <<gateway, sessions, up, cancelled, connMu, pollVars>>

\* Calls that do not wait for one another.
LockNever(c) ==
    /\ At(c, "lock")
    /\ connMu' = c
    /\ Go(c, "drop")
    /\ UNCHANGED <<calls, gateway, sessions, up, cancelled, pollVars>>

Lock(c) ==
    /\ At(c, "lock") /\ connMu = None
    /\ connMu' = c
    /\ Go(c, "drop")
    /\ UNCHANGED <<calls, gateway, sessions, up, cancelled, pollVars>>

\* The call returns and gives connMu back.
Return(c) ==
    /\ caller' = [caller EXCEPT ![c] = Resting]
    /\ connMu' = None

\* disconnect: the session leaves the runtime and its context is cancelled.
Drop(c) ==
    /\ At(c, "drop")
    /\ gateway' = 0
    /\ cancelled' = cancelled \cup ({gateway} \ {0})
    /\ caller' = [caller EXCEPT ![c].gw = gateway,
                                ![c].stage = IF gateway = 0 THEN "clear" ELSE "hangup"]
    /\ UNCHANGED <<calls, sessions, up, connMu, pollVars>>

\* gw.Disconnect.
HangUp(c) ==
    /\ At(c, "hangup")
    /\ up' = up \ {caller[c].gw}
    /\ caller' = [caller EXCEPT ![c].gw = 0, ![c].stage = "clear"]
    /\ UNCHANGED <<calls, gateway, sessions, cancelled, connMu, pollVars>>

\* The figures are withdrawn, under accMu; Disconnect then returns.
Clear(c) ==
    /\ At(c, "clear") /\ accMu = 0
    /\ shown' = NoFigures
    /\ IF caller[c].connects THEN Go(c, "dial") /\ UNCHANGED connMu ELSE Return(c)
    /\ UNCHANGED <<calls, gateway, sessions, up, cancelled, poll, accMu>>

\* connect, up to gw.Connect: the configuration or the connection may be refused.
Dial(c) ==
    /\ At(c, "dial")
    /\ \/ Return(c) /\ UNCHANGED <<sessions, up>>
       \/ /\ sessions < MaxSessions
          /\ sessions' = sessions + 1
          /\ up' = up \cup {sessions'}
          /\ caller' = [caller EXCEPT ![c].gw = sessions', ![c].stage = "subscribe"]
          /\ UNCHANGED connMu
    /\ UNCHANGED <<calls, gateway, cancelled, pollVars>>

\* gw.Subscribe; when it fails the gateway is disconnected.
SubscribeGateway(c) ==
    /\ At(c, "subscribe")
    /\ \/ /\ Return(c)
          /\ up' = up \ {caller[c].gw}
          /\ cancelled' = cancelled \cup {caller[c].gw}
       \/ Go(c, "install") /\ UNCHANGED <<up, cancelled, connMu>>
    /\ UNCHANGED <<calls, gateway, sessions, pollVars>>

\* The session becomes the runtime's, and its poller starts.
Install(c) ==
    LET g == caller[c].gw IN
    /\ At(c, "install")
    /\ gateway' = g
    /\ poll' = [poll EXCEPT ![g] = Waiting]
    /\ Return(c)
    /\ UNCHANGED <<calls, sessions, up, cancelled, accMu, shown>>

-----------------------------------------------------------------------------
(* pollAccount *)

\* The ticker: the poller asks the session the runtime has now.  A cancelled
\* poller may still take it: its select finds both channels ready.
Tick(g) ==
    /\ poll[g].stage = "wait"
    /\ gateway \in up
    /\ poll' = [poll EXCEPT ![g].stage = "account", ![g].via = gateway]
    /\ UNCHANGED <<callVars, up, accMu, shown>>

\* The context is cancelled: the poller ends.
End(g) ==
    /\ poll[g].stage = "wait" /\ g \in cancelled
    /\ poll' = [poll EXCEPT ![g].stage = "done"]
    /\ UNCHANGED <<callVars, up, accMu, shown>>

\* gw.Account: an error when not connected, or when nothing has been received yet.
AskAccount(g) ==
    /\ poll[g].stage = "account"
    /\ \E acc \in {FALSE, poll[g].via \in up} :
          poll' = [poll EXCEPT ![g].stage = "positions", ![g].acc = acc]
    /\ UNCHANGED <<callVars, up, accMu, shown>>

AskPositions(g) ==
    /\ poll[g].stage = "positions"
    /\ poll' = [poll EXCEPT ![g].stage = "lock", ![g].pos = poll[g].via \in up]
    /\ UNCHANGED <<callVars, up, accMu, shown>>

\* accMu is taken; dayStart then reads and writes the store.
Enter(g) ==
    /\ poll[g].stage = "lock" /\ accMu = 0
    /\ accMu' = g
    /\ poll' = [poll EXCEPT ![g].stage = "record"]
    /\ UNCHANGED <<callVars, up, shown>>

\* An error that is not shown.
RecordSilent(g) ==
    LET p == poll[g] IN
    /\ p.stage = "record"
    /\ shown' = [account |-> IF p.acc THEN p.via ELSE shown.account,
                 error |-> FALSE,
                 positions |-> IF p.pos THEN p.via ELSE shown.positions]
    /\ poll' = [poll EXCEPT ![g] = Waiting]
    /\ accMu' = 0
    /\ UNCHANGED <<callVars, up>>

\* An error leaves the loop body before accMu is given back.
RecordKeepsLock(g) ==
    LET p == poll[g] IN
    /\ p.stage = "record"
    /\ shown' = [account |-> IF p.acc THEN p.via ELSE shown.account,
                 error |-> ~p.acc,
                 positions |-> IF p.pos THEN p.via ELSE shown.positions]
    /\ poll' = [poll EXCEPT ![g] = Waiting]
    /\ accMu' = IF p.acc THEN 0 ELSE g
    /\ UNCHANGED <<callVars, up>>

\* An error is shown beside the last figures known; accMu is given back.
Record(g) ==
    LET p == poll[g] IN
    /\ p.stage = "record"
    /\ shown' = [account |-> IF p.acc THEN p.via ELSE shown.account,
                 error |-> ~p.acc,
                 positions |-> IF p.pos THEN p.via ELSE shown.positions]
    /\ poll' = [poll EXCEPT ![g] = Waiting]
    /\ accMu' = 0
    /\ UNCHANGED <<callVars, up>>

-----------------------------------------------------------------------------
\* The broker ends the connection.
LoseLink(g) ==
    /\ g \in up
    /\ up' = up \ {g}
    /\ UNCHANGED <<callVars, pollVars>>

CallStep(c) ==
    \/ Lock(c) \/ Drop(c) \/ HangUp(c) \/ Clear(c)
    \/ Dial(c) \/ SubscribeGateway(c) \/ Install(c)

PollStep(g) ==
    Tick(g) \/ AskAccount(g) \/ AskPositions(g) \/ Enter(g) \/ Record(g)

Next ==
    \/ \E c \in Callers : CallStep(c) \/ \E connects \in BOOLEAN : Call(c, connects)
    \/ \E g \in Sessions : PollStep(g) \/ End(g) \/ LoseLink(g)

\* A caller and a poller go on when they can, and accMu, which the pollers take
\* over and over, is not refused for ever to the call that withdraws the figures
\* (a mutex of Go ends the starvation of a waiter).
Fairness ==
    /\ \A c \in Callers : WF_vars(CallStep(c))
    /\ SF_vars(\E c \in Callers : Clear(c))
    /\ \A g \in Sessions : WF_vars(PollStep(g))

Spec == Init /\ [][Next]_vars /\ Fairness

-----------------------------------------------------------------------------
(* Properties *)

Stages == {"idle", "lock", "drop", "hangup", "clear", "dial", "subscribe", "install"}

Polls == [stage : {"off", "wait", "account", "positions", "lock", "record", "done"},
          via : 0..MaxSessions, acc : BOOLEAN, pos : BOOLEAN]

Calling == [stage : Stages, connects : BOOLEAN, gw : 0..MaxSessions]

Showing == [account : 0..MaxSessions, positions : 0..MaxSessions, error : BOOLEAN]

\* The variables have their types.
TypeOK ==
    /\ calls \in 0..MaxCalls /\ sessions \in 0..MaxSessions /\ gateway \in 0..sessions
    /\ up \subseteq 1..sessions /\ cancelled \subseteq 1..sessions
    /\ caller \in [Callers -> Calling]
    /\ connMu \in Callers \cup {None}
    /\ poll \in [Sessions -> Polls]
    /\ accMu \in 0..MaxSessions
    /\ shown \in Showing

\* No gateway stays connected out of the runtime's sight: it is the one installed,
\* or one that the caller holding connMu is opening or closing (connMu's comment:
\* an orphan engine went on placing orders).
NoOrphan ==
    \A g \in up :
        \/ g = gateway
        \/ \E c \in Callers : connMu = c /\ caller[c].gw = g

\* Whatever the pollers of past sessions still write, a session that lasts shows
\* its own figures in the end, or the error that prevents it.
FiguresCatchUp ==
    \A g \in Sessions :
        <>[](gateway = g /\ g \in up) =>
            []<>(shown.error \/ (shown.account = g /\ shown.positions = g))

\* Connect and Disconnect return: the calls, however many, all come to their
\* end, and none waits for a lock for ever.
CallsReturn == []<>(\A c \in Callers : At(c, "idle"))
===============================================================================

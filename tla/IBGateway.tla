------------------------------- MODULE IBGateway -------------------------------
(***************************************************************************)
(* The life of an entry at Interactive Brokers                             *)
(* (internal/broker/interactive_brokers.go), on one symbol: a parent at    *)
(* the market and two attached barriers, the cancellation of the barriers  *)
(* before an exit, the settlement of executions, a barrier lost at the     *)
(* broker, and the bracket file that outlives the process.                 *)
(*                                                                         *)
(* Three parties: TWS (external, the orders it holds and what it sends),   *)
(* the gateway (readLoop, the timers, PlaceOrder) and a caller that        *)
(* behaves as the engine does: one order in flight, an entry only when     *)
(* Positions says flat, an exit only when it does not.  The reader goes on *)
(* between that look, PlaceOrder's own and each of its sections.  Ticks    *)
(* and reports share one goroutine (deliverLoop), so no report is          *)
(* delivered while PlaceOrder runs.  A side is 1 (buy) or -1, a quantity   *)
(* counts entries, an execution is never partial and every entry asks for  *)
(* both barriers.                                                          *)
(***************************************************************************)
EXTENDS Integers, Sequences, FiniteSets

CONSTANTS
    None,
    EntrySides,      \* sides the strategy enters on
    Exits,           \* does the strategy close before a barrier does?
    MaxEntries,      \* bound on the entries sent
    MaxOrders,       \* bound on the order identifiers
    MaxLosses,       \* bound on the barriers IB cancels by itself
    MaxBreaks,       \* bound on the lost connections and crashes
    Rejectable,      \* roles of the orders TWS may reject
    Silent,          \* TWS may leave a cancellation unanswered for 10 s
    Terse,           \* TWS may repeat or omit an execution, omit a commission
    LatePositions,   \* TWS sends the position after the execution, not before
    Hasty            \* an entry may be decided before the last reports are delivered

Ids == 1..MaxOrders
Barriers == {"limit", "stop"}
Roles == Barriers \cup {"entry", "exit", "naked"}   \* naked: an entry without barriers
Waiting == {"attached", "withdrawing"}       \* barriers of an entry to execute
Alive == Waiting \cup {"working", "cancelling"}

\* What TWS says: of an order, and of the position.
Kinds == {"execution", "commission", "filled", "cancelled", "refused", "gone", "position"}

\* The orders the gateway follows, those of TWS, the bracket of the symbol and
\* the PlaceOrder under way.
Tracks == [role : Roles, side : {1, -1}, qty : Nat, exec : BOOLEAN, paid : BOOLEAN,
           status : BOOLEAN, cancel : BOOLEAN, end : {"", "filled", "dead"}]
Books == [role : Roles, side : {1, -1}, qty : Nat,
          state : Alive \cup {"filled", "cancelled"}]
Brackets == [side : {1, -1}, parent : Ids, entered : BOOLEAN, closing : BOOLEAN]
Calls == [stage : {"place", "entering", "exiting", "naked"}, side : {1, -1}, qty : Nat,
          barriers : BOOLEAN]
         \cup [stage : {"bracket"}, side : {1, -1}, parent : Ids]
         \cup [stage : {"cancel", "wait", "exit"}, side : {1, -1}, qty : Nat,
               waits : SUBSET Ids]

ASSUME IBAssumption ==
    /\ EntrySides \subseteq {1, -1}
    /\ {MaxEntries, MaxOrders, MaxLosses, MaxBreaks} \subseteq Nat
    /\ {Exits, Silent, Terse, LatePositions, Hasty} \subseteq BOOLEAN
    /\ Rejectable \subseteq Roles \ Barriers
    /\ None \notin Tracks \cup Books \cup Brackets \cup Calls

VARIABLES
    up,          \* connected
    nextID,
    orders,      \* g.orders: the orders followed
    bracket,     \* g.brackets and its file: each change is saved at once
    held,        \* g.positions: the last position TWS has sent
    timers,      \* pending AfterFunc: <<"settle" or "protect", order>>
    queue,       \* reports to deliver: <<order, status>>
    call,        \* the PlaceOrder under way
    inFlight,    \* the engine awaits the report of an accepted order
    book,        \* TWS: the orders it knows
    net,         \* TWS: the position
    wire,        \* messages from TWS, in the order of the socket
    posDue,      \* TWS has a position to send
    told,        \* executions reported to the engine, per order
    missed,      \* orders executed but not reported when a session ended
    spent        \* entries, losses and breaks so far

twsVars == <<book, net, wire, posDue>>
callVars == <<call, inFlight>>
followVars == <<orders, bracket, timers, queue>>
ghostVars == <<told, missed, spent>>
vars == <<up, nextID, held, followVars, callVars, twsVars, ghostVars>>

Abs(n) == IF n < 0 THEN -n ELSE n
Sign(n) == IF n > 0 THEN 1 ELSE -1

\* MaxOrders leaves n identifiers.
Left(n) == nextID + n - 1 \in Ids

\* placeBracket's identifiers, and the barriers of a bracket.
LimitOf(parent) == parent + 1
StopOf(parent) == parent + 2
BarriersOf(b) == {LimitOf(b.parent), StopOf(b.parent)}

\* track
Track(role, side, qty) ==
    [role |-> role, side |-> side, qty |-> qty, exec |-> FALSE, paid |-> FALSE,
     status |-> FALSE, cancel |-> FALSE, end |-> ""]

Followed(id) == orders[id] # None
Ended(id) == Followed(id) /\ orders[id].end # ""

\* loadBrackets: the barriers of an entry seen filled are followed at once.
Loaded(b) ==
    [id \in Ids |->
        IF b = None \/ ~b.entered THEN None
        ELSE CASE id = LimitOf(b.parent) -> Track("limit", -b.side, 1)
               [] id = StopOf(b.parent)  -> Track("stop", -b.side, 1)
               [] OTHER                  -> None]

Init ==
    /\ up = TRUE /\ nextID = 1 /\ held = 0
    /\ orders = [id \in Ids |-> None]
    /\ bracket = None /\ timers = {} /\ queue = <<>>
    /\ call = None /\ inFlight = FALSE
    /\ book = [id \in Ids |-> None]
    /\ net = 0 /\ wire = <<>> /\ posDue = FALSE
    /\ told = [id \in Ids |-> 0] /\ missed = {}
    /\ spent = [entries |-> 0, losses |-> 0, breaks |-> 0]

-----------------------------------------------------------------------------
(* What becomes of a followed order *)

\* settleFilled: t is the order, filled, and b the bracket of its symbol.
Settle(id, t, b) ==
    /\ orders' = [orders EXCEPT ![id] = [t EXCEPT !.end = "filled"]]
    /\ bracket' = IF t.role \in Barriers \cup {"exit"} THEN None
                  ELSE IF b # None /\ b.parent = id THEN [b EXCEPT !.entered = TRUE] ELSE b
    /\ queue' = Append(queue, <<id, "FILLED">>)
    /\ timers' = timers \ {<<"settle", id>>}     \* it would find t finished

\* A settlement that never gives up on a commission.
TrySettleUnforced(id, t, b, force) ==
    IF t.end = "" /\ t.exec /\ t.paid THEN Settle(id, t, b)
    ELSE /\ orders' = [orders EXCEPT ![id] = t]
         /\ bracket' = b
         /\ timers' = timers \ {<<"settle", id>>}
         /\ UNCHANGED queue

\* trySettle, and the timer it or onOrderStatus arms: an execution waits for
\* its commission, a "Filled" status for its execution, but not for ever.
TrySettle(id, t, b, force) ==
    LET known == t.exec \/ t.status IN
    IF t.end = "" /\ ((t.exec /\ t.paid) \/ (force /\ known)) THEN Settle(id, t, b)
    ELSE /\ orders' = [orders EXCEPT ![id] = t]
         /\ bracket' = b
         /\ timers' = IF t.end = "" /\ known THEN timers \cup {<<"settle", id>>}
                      ELSE timers
         /\ UNCHANGED queue

\* Is the end of this barrier nobody's doing?
Unexpected(t) ==
    /\ t.role \in Barriers
    /\ bracket # None /\ bracket.entered /\ ~bracket.closing /\ ~t.cancel

\* A lost barrier that is only logged.
FinishUnwatched(id, status) ==
    /\ orders' = [orders EXCEPT ![id].end = "dead"]
    /\ bracket' = IF bracket # None /\ bracket.parent = id THEN None ELSE bracket
    /\ queue' = IF orders[id].role \in Barriers THEN queue
                ELSE Append(queue, <<id, status>>)
    /\ UNCHANGED timers

\* A rejected entry that is not reported.
FinishUnreported(id, status) ==
    /\ orders' = [orders EXCEPT ![id].end = "dead"]
    /\ bracket' = IF bracket # None /\ bracket.parent = id THEN None ELSE bracket
    /\ queue' = IF orders[id].role = "exit" THEN Append(queue, <<id, status>>)
                ELSE queue
    /\ timers' = IF Unexpected(orders[id]) THEN timers \cup {<<"protect", id>>}
                 ELSE timers

\* finish: the order did not execute.
Finish(id, status) ==
    LET t == orders[id] IN
    /\ orders' = [orders EXCEPT ![id].end = "dead"]
    /\ bracket' = IF bracket # None /\ bracket.parent = id THEN None ELSE bracket
    /\ queue' = IF t.role \in Barriers THEN queue ELSE Append(queue, <<id, status>>)
    /\ timers' = IF Unexpected(t) THEN timers \cup {<<"protect", id>>}
                 ELSE timers \ {<<"settle", id>>}

-----------------------------------------------------------------------------
(* TWS (external): what it holds, and what it answers *)

Order(role, side, qty, state) == [role |-> role, side |-> side, qty |-> qty, state |-> state]

\* The messages that say this of each of the orders, in any order.
OfEach(kind, ids) ==
    {messages \in [1..Cardinality(ids) -> {kind} \X ids] :
       \A id \in ids : \E i \in 1..Cardinality(ids) : messages[i] = <<kind, id>>}

Knows(id) == book[id] # None
Lives(id) == Knows(id) /\ book[id].state \in Alive

\* The cancellations of `ids` as they reach TWS, and its answers to those of
\* orders it no longer works or never knew (10147, 10148).
CancelledIn(bk, ids) ==
    [id \in Ids |-> IF id \in ids /\ Lives(id)
                    THEN [bk[id] EXCEPT !.state = IF @ \in Waiting THEN "withdrawing"
                                                  ELSE "cancelling"]
                    ELSE bk[id]]

GoneAnswers(ids) == OfEach("gone", {id \in ids : ~Lives(id)})

\* Nothing reaches the gateway without a connection.
Sends(messages) == wire' = IF up THEN wire \o messages ELSE wire

\* How TWS tells of an execution.
News(id) ==
    {<< <<"execution", id>>, <<"commission", id>> >>} \cup
    IF Terse
    THEN {<< <<"execution", id>>, <<"execution", id>>, <<"commission", id>> >>,
          << <<"execution", id>> >>, << <<"filled", id>> >>}
    ELSE {}

\* The other barrier, when the one that executes cancels it (OCA).
Twins(id) ==
    {other \in Ids : /\ Lives(other) /\ Abs(other - id) = 1
                     /\ {book[id].role, book[other].role} = Barriers}

\* An order executes.  TWS may announce the twin's cancellation first.
Execute(id) ==
    LET o == book[id]
        filled == net + o.side * o.qty
        position == IF LatePositions THEN <<>> ELSE << <<"position", filled>> >>
    IN
    /\ Lives(id) /\ o.state \notin Waiting
    /\ net' = filled
    /\ book' = [other \in Ids |->
         CASE other = id          -> [o EXCEPT !.state = "filled"]
           [] other \in Twins(id) -> [book[other] EXCEPT !.state = "cancelled"]
           [] /\ o.role = "entry" /\ other \in {LimitOf(id), StopOf(id)}
              /\ Knows(other) /\ book[other].state \in Waiting
                                  -> [book[other] EXCEPT !.state =
                                        IF @ = "attached" THEN "working" ELSE "cancelling"]
           [] OTHER               -> book[other]]
    /\ \E news \in News(id), twins \in OfEach("cancelled", Twins(id)) :
          Sends(position \o news \o twins) \/ Sends(position \o twins \o news)
    /\ posDue' = (LatePositions /\ up)
    /\ UNCHANGED <<up, nextID, held, followVars, callVars, ghostVars>>

\* TWS refuses an order; the barriers of a refused entry go with it.
Reject(id) ==
    LET o == book[id]
        with == {c \in {LimitOf(id), StopOf(id)} : o.role = "entry" /\ c \in Ids /\ Lives(c)}
    IN
    /\ Lives(id) /\ o.role \in Rejectable
    /\ book' = [other \in Ids |->
         IF other = id \/ other \in with
         THEN [book[other] EXCEPT !.state = "cancelled"] ELSE book[other]]
    /\ \E gone \in OfEach("cancelled", with) : Sends(<< <<"refused", id>> >> \o gone)
    /\ UNCHANGED <<up, nextID, held, followVars, callVars, net, posDue, ghostVars>>

\* A cancellation succeeds; a cancelled barrier leaves its twin at work.
ConfirmCancel(id) ==
    /\ Knows(id) /\ book[id].state \in {"withdrawing", "cancelling"}
    /\ book' = [book EXCEPT ![id].state = "cancelled"]
    /\ Sends(<< <<"cancelled", id>> >>)
    /\ UNCHANGED <<up, nextID, held, followVars, callVars, net, posDue, ghostVars>>

\* IB cancels a working barrier nobody asked it to.
Lose(id) ==
    /\ Knows(id) /\ book[id].state = "working" /\ book[id].role \in Barriers
    /\ spent.losses < MaxLosses
    /\ spent' = [spent EXCEPT !.losses = @ + 1]
    /\ book' = [book EXCEPT ![id].state = "cancelled"]
    /\ Sends(<< <<"cancelled", id>> >>)
    /\ UNCHANGED <<up, nextID, held, followVars, callVars, net, posDue, told, missed>>

SendPosition ==
    /\ posDue /\ up
    /\ posDue' = FALSE
    /\ Sends(<< <<"position", net>> >>)
    /\ UNCHANGED <<up, nextID, held, followVars, callVars, book, net, ghostVars>>

-----------------------------------------------------------------------------
(* handle: one message of the socket *)

Incoming(kind) ==
    /\ up /\ wire # <<>> /\ Head(wire)[1] = kind
    /\ wire' = Tail(wire)
    /\ UNCHANGED <<up, nextID, callVars, book, net, posDue, ghostVars>>

About == Head(wire)[2]

\* markClosing, when it is a barrier that executes.
ClosedBy(t) ==
    IF bracket # None /\ t.role \in Barriers THEN [bracket EXCEPT !.closing = TRUE]
    ELSE bracket

\* onExecDetails; an execution may come twice, or of an order of another session.
OnExecution ==
    LET id == About IN
    /\ Incoming("execution")
    /\ IF ~Followed(id) \/ orders[id].exec THEN UNCHANGED followVars
       ELSE TrySettle(id, [orders[id] EXCEPT !.exec = TRUE], ClosedBy(orders[id]), FALSE)
    /\ UNCHANGED held

OnCommission ==
    LET id == About IN
    /\ Incoming("commission")
    /\ IF ~Followed(id) THEN UNCHANGED followVars
       ELSE TrySettle(id, [orders[id] EXCEPT !.paid = TRUE], bracket, FALSE)
    /\ UNCHANGED held

\* onOrderStatus, "Filled"
OnFilled ==
    LET id == About IN
    /\ Incoming("filled")
    /\ IF ~Followed(id) THEN UNCHANGED followVars
       ELSE TrySettle(id, [orders[id] EXCEPT !.status = TRUE], ClosedBy(orders[id]), FALSE)
    /\ UNCHANGED held

\* onOrderStatus, "Cancelled"
OnCancelled ==
    LET id == About IN
    /\ Incoming("cancelled")
    /\ CASE ~Followed(id)   -> UNCHANGED followVars
         [] Followed(id) /\ orders[id].exec -> TrySettle(id, orders[id], bracket, FALSE)
         [] Followed(id) /\ ~orders[id].exec /\ Ended(id) -> UNCHANGED followVars
         [] OTHER           -> Finish(id, "CANCELLED")
    /\ UNCHANGED held

\* onOrderError, a refusal (or the status "Inactive" that follows one)
OnRefused ==
    LET id == About IN
    /\ Incoming("refused")
    /\ IF Followed(id) /\ ~Ended(id) /\ ~orders[id].exec THEN Finish(id, "REJECTED")
       ELSE UNCHANGED followVars
    /\ UNCHANGED held

\* onOrderError, 10147 to 10149: the order to cancel is unknown or over.  Codes
\* from 2100 are warnings, the first case of the switch: they are only logged,
\* and the case meant for these three is never reached.
OnGone == Incoming("gone") /\ UNCHANGED <<followVars, held>>

OnPosition ==
    /\ Incoming("position")
    /\ held' = About
    /\ UNCHANGED followVars

-----------------------------------------------------------------------------
(* The timers, of 3 to 10 seconds *)

\* Before they end, what TWS owes has come and been read.
Elapsed == wire = <<>> /\ (up => ~posDue)

\* after: settle with what is known.
SettleTimer(id) ==
    /\ <<"settle", id>> \in timers /\ Elapsed
    /\ TrySettle(id, orders[id], bracket, TRUE)
    /\ UNCHANGED <<up, nextID, held, callVars, twsVars, ghostVars>>

\* checkProtection: a barrier is gone and the other one has not executed; the
\* other is cancelled and the position closed at the market, in one go.
CheckProtection(id) ==
    LET b == bracket
        others == {o \in BarriersOf(b) \ {id} : Followed(o) /\ ~Ended(o)}
        exit == Track("exit", -b.side, Abs(held))
    IN
    /\ <<"protect", id>> \in timers /\ Elapsed
    /\ timers' = timers \ {<<"protect", id>>}
    /\ IF \/ b = None
          \/ ~b.entered \/ b.closing \/ held = 0
          \/ id \notin BarriersOf(b)
       THEN UNCHANGED <<nextID, orders, bracket, book, wire>>
       ELSE /\ Left(1) /\ nextID' = nextID + 1
            /\ bracket' = [b EXCEPT !.closing = TRUE]
            /\ orders' = [o \in Ids |->
                 CASE o \in others -> [orders[o] EXCEPT !.cancel = TRUE]
                   [] o = nextID   -> exit
                   [] OTHER        -> orders[o]]
            /\ book' = IF up
                       THEN [CancelledIn(book, others) EXCEPT ![nextID] =
                              Order("exit", exit.side, exit.qty, "working")]
                       ELSE book
            /\ \E answers \in GoneAnswers(others) : Sends(answers)
    /\ UNCHANGED <<up, held, queue, callVars, net, posDue, ghostVars>>

-----------------------------------------------------------------------------
(* PlaceOrder, in the engine's goroutine *)

\* What submit needs: a connection, no order in flight, no call under way.
Ready == up /\ call = None /\ ~inFlight

\* Nothing of the last round trip is still on its way to the engine.
Delivered == wire = <<>> /\ ~posDue /\ queue = <<>> /\ timers = {}

\* submit decides on the positions of this moment; what it asks for is placed
\* later.
Decide(side, qty, barriers) ==
    /\ call' = [stage |-> "place", side |-> side, qty |-> qty, barriers |-> barriers]
    /\ UNCHANGED <<up, nextID, inFlight, followVars, held, twsVars, ghostVars>>

Enter(side) ==
    /\ Ready /\ held = 0
    /\ Hasty \/ Delivered
    /\ spent.entries < MaxEntries /\ Left(4)
    /\ Decide(side, 1, TRUE)

Exit == Ready /\ Exits /\ held # 0 /\ Left(2) /\ Decide(-Sign(held), Abs(held), FALSE)

CallReturns(accepted) == call' = None /\ inFlight' = accepted

\* PlaceOrder's section: an order against the bracket or the position closes; an
\* entry on the side of a bracket still followed is refused.  The lock is
\* released before the order is placed.
PlaceOrder ==
    LET closing == \/ bracket # None /\ call.side = -bracket.side
                   \/ held # 0 /\ Sign(held) # call.side
        Goes(stage) == call' = [call EXCEPT !.stage = stage] /\ UNCHANGED inFlight
    IN
    /\ call # None /\ call.stage = "place"
    /\ CASE ~up -> CallReturns(FALSE)
         [] up /\ closing -> Goes("exiting")
         [] up /\ ~closing /\ bracket # None -> CallReturns(FALSE)
         [] OTHER -> Goes(IF call.barriers THEN "entering" ELSE "naked")
    /\ UNCHANGED <<up, nextID, followVars, held, twsVars, ghostVars>>

\* placeBracket: the three orders are followed and saved, then sent.
PlaceBracket ==
    LET side == call.side IN
    /\ call # None /\ call.stage = "entering" /\ Left(3)
    /\ nextID' = nextID + 3
    /\ bracket' = [side |-> side, parent |-> nextID, entered |-> FALSE, closing |-> FALSE]
    /\ orders' = [orders EXCEPT ![nextID] = Track("entry", side, 1),
                                ![LimitOf(nextID)] = Track("limit", -side, 1),
                                ![StopOf(nextID)] = Track("stop", -side, 1)]
    /\ call' = [stage |-> "bracket", side |-> side, parent |-> nextID]
    /\ spent' = [spent EXCEPT !.entries = @ + 1]
    /\ UNCHANGED <<up, held, timers, queue, inFlight, twsVars, told, missed>>

CancelCalled(waits) ==
    call' = [stage |-> "cancel", side |-> call.side, qty |-> call.qty, waits |-> waits]

\* An exit that cancels only the barriers of its own session.
PlaceExitFollowedOnly ==
    LET b == bracket
        waits == IF b = None THEN {} ELSE {id \in BarriersOf(b) : Followed(id) /\ ~Ended(id)}
    IN
    /\ call # None /\ call.stage = "exiting" /\ Left(1)
    /\ bracket' = IF b = None THEN None ELSE [b EXCEPT !.closing = TRUE]
    /\ orders' = [id \in Ids |-> IF id \in waits
                                 THEN [orders[id] EXCEPT !.cancel = TRUE] ELSE orders[id]]
    /\ CancelCalled(waits)
    /\ UNCHANGED <<up, nextID, held, timers, queue, inFlight, twsVars, ghostVars>>

\* placeExit, the first locked section: the barriers still open are to be
\* cancelled.  One that has filled has taken the bracket with it (Settle), so
\* the code's return for that case is not reached.
PlaceExit ==
    LET b == bracket
        Child(id) == IF Followed(id) THEN orders[id]
                     ELSE Track(IF id = LimitOf(b.parent) THEN "limit" ELSE "stop", -b.side, 1)
        waits == IF b = None THEN {} ELSE {id \in BarriersOf(b) : ~Ended(id)}
    IN
    /\ call # None /\ call.stage = "exiting" /\ Left(1)
    /\ bracket' = IF b = None THEN None ELSE [b EXCEPT !.closing = TRUE]
    /\ orders' = [id \in Ids |-> IF id \in waits
                                 THEN [Child(id) EXCEPT !.cancel = TRUE] ELSE orders[id]]
    /\ CancelCalled(waits)
    /\ UNCHANGED <<up, nextID, held, timers, queue, inFlight, twsVars, ghostVars>>

\* A bracket whose stop is not transmitted.
SendBracketWithoutStop ==
    LET parent == call.parent IN
    /\ call # None /\ call.stage = "bracket"
    /\ book' = [book EXCEPT ![parent] = Order("entry", call.side, 1, "working"),
                            ![LimitOf(parent)] = Order("limit", -call.side, 1, "attached")]
    /\ CallReturns(TRUE)
    /\ UNCHANGED <<up, nextID, orders, bracket, timers, queue, held, net, wire, posDue, ghostVars>>

\* The three orders go out, the last one transmitting the others; without a
\* connection nothing was transmitted and the bracket is forgotten.
SendBracket ==
    LET parent == call.parent IN
    /\ call # None /\ call.stage = "bracket"
    /\ IF up
       THEN /\ book' = [book EXCEPT
                  ![parent] = Order("entry", call.side, 1, "working"),
                  ![LimitOf(parent)] = Order("limit", -call.side, 1, "attached"),
                  ![StopOf(parent)] = Order("stop", -call.side, 1, "attached")]
            /\ UNCHANGED <<orders, bracket>>
       ELSE /\ bracket' = None
            /\ orders' = [id \in Ids |-> IF id \in parent..StopOf(parent)
                                         THEN None ELSE orders[id]]
            /\ UNCHANGED book
    /\ CallReturns(up)
    /\ UNCHANGED <<up, nextID, timers, queue, held, net, wire, posDue, ghostVars>>

\* The cancellations go out; if they cannot, neither does the exit.
SendCancels ==
    /\ call # None /\ call.stage = "cancel"
    /\ IF up
       THEN /\ book' = CancelledIn(book, call.waits)
            /\ \E answers \in GoneAnswers(call.waits) : Sends(answers)
            /\ call' = [call EXCEPT !.stage = "wait"]
            /\ UNCHANGED inFlight
       ELSE CallReturns(FALSE) /\ UNCHANGED <<book, wire>>
    /\ UNCHANGED <<up, nextID, followVars, held, net, posDue, ghostVars>>

\* An exit that does not look at how its barriers ended.
CancelsDoneBlindly ==
    /\ call # None /\ call.stage = "wait"
    /\ \A id \in call.waits : Ended(id)
    /\ call' = [call EXCEPT !.stage = "exit"]
    /\ UNCHANGED <<up, nextID, inFlight, followVars, held, twsVars, ghostVars>>

\* Every barrier has ended.  If one executed meanwhile the position is closed
\* already, and its report answers for the order; no position, nothing to close.
CancelsDone ==
    LET filled == \E id \in call.waits : orders[id].end = "filled" IN
    /\ call # None /\ call.stage = "wait"
    /\ \A id \in call.waits : Ended(id)
    /\ CASE filled -> CallReturns(TRUE) /\ UNCHANGED bracket
         [] ~filled /\ held = 0 -> CallReturns(FALSE) /\ bracket' = None
         [] OTHER -> /\ call' = [call EXCEPT !.stage = "exit"]
                     /\ UNCHANGED <<inFlight, bracket>>
    /\ UNCHANGED <<up, nextID, orders, timers, queue, held, twsVars, ghostVars>>

\* A timeout that only a lost connection triggers.
CancelTimeoutOffline ==
    /\ call # None /\ call.stage = "wait" /\ Elapsed /\ ~up
    /\ \E id \in call.waits : ~Ended(id)
    /\ CallReturns(FALSE)
    /\ UNCHANGED <<up, nextID, followVars, held, twsVars, ghostVars>>

\* TWS has said all it has to say of the barriers that have not ended, and the
\* program noted nothing of it: "gone" ends nobody's wait.
NothingToCome ==
    \A id \in call.waits : ~Ended(id) => ~Lives(id) /\ <<"settle", id>> \notin timers

\* An answer is missing after ibCancelTimeout: the exit is not sent.
CancelTimeout ==
    /\ call # None /\ call.stage = "wait" /\ Elapsed
    /\ Silent \/ ~up \/ NothingToCome
    /\ \E id \in call.waits : ~Ended(id)
    /\ CallReturns(FALSE)
    /\ UNCHANGED <<up, nextID, followVars, held, twsVars, ghostVars>>

\* placeSimple: an order at the market, alone.
PlaceSimple(role) ==
    /\ IF up
       THEN /\ nextID' = nextID + 1
            /\ orders' = [orders EXCEPT ![nextID] = Track(role, call.side, call.qty)]
            /\ book' = [book EXCEPT ![nextID] = Order(role, call.side, call.qty, "working")]
       ELSE UNCHANGED <<nextID, orders, book>>
    /\ CallReturns(up)
    /\ UNCHANGED <<up, bracket, timers, queue, held, net, wire, posDue, ghostVars>>

SendExit == call # None /\ call.stage = "exit" /\ PlaceSimple("exit")

\* An order without barriers that closes nothing, any more: it leaves as an entry.
SendNaked == call # None /\ call.stage = "naked" /\ Left(1) /\ PlaceSimple("naked")

\* deliverLoop hands a report to HandleExecution, which frees the symbol.
Deliver ==
    LET report == Head(queue) IN
    /\ call = None /\ queue # <<>>
    /\ queue' = Tail(queue)
    /\ inFlight' = FALSE
    /\ told' = IF report[2] = "FILLED" THEN [told EXCEPT ![report[1]] = @ + 1] ELSE told
    /\ UNCHANGED <<up, nextID, orders, bracket, timers, held, call, twsVars, missed, spent>>

-----------------------------------------------------------------------------
(* Connections *)

Breaks ==
    /\ up /\ spent.breaks < MaxBreaks
    /\ up' = FALSE
    /\ spent' = [spent EXCEPT !.breaks = @ + 1]
    /\ wire' = <<>>
    /\ UNCHANGED <<nextID, bracket, held, book, net, posDue, told, missed>>

\* connectionLost: the gateway goes on with what it has received.
ConnectionLost == Breaks /\ UNCHANGED <<orders, timers, queue, callVars>>

\* The process stops: what is not saved is lost.
Crash ==
    /\ Breaks
    /\ orders' = [id \in Ids |-> None]
    /\ timers' = {} /\ queue' = <<>>
    /\ call' = None /\ inFlight' = FALSE

\* Runtime.connect: the old gateway has delivered its reports (drain), a new
\* one loads the brackets and the positions, and a new engine starts.  The
\* timers of the old gateway are its own.
Reconnect ==
    /\ ~up /\ call = None /\ queue = <<>>
    /\ up' = TRUE
    /\ orders' = Loaded(bracket)
    /\ timers' = {} /\ inFlight' = FALSE
    /\ held' = net /\ posDue' = FALSE
    /\ missed' = {id \in Ids : Knows(id) /\ book[id].state = "filled" /\ told[id] = 0}
    /\ UNCHANGED <<nextID, bracket, queue, call, book, net, wire, told, spent>>

Gateway ==
    \/ OnExecution \/ OnCommission \/ OnFilled \/ OnCancelled \/ OnRefused
    \/ OnGone \/ OnPosition
    \/ \E id \in Ids : SettleTimer(id) \/ CheckProtection(id)

Caller ==
    \/ PlaceOrder \/ PlaceBracket \/ SendBracket \/ SendNaked
    \/ PlaceExit \/ SendCancels \/ CancelsDone \/ CancelTimeout \/ SendExit
    \/ Deliver

Engine == Exit \/ \E side \in EntrySides : Enter(side)

TWS == SendPosition \/ \E id \in Ids : Execute(id) \/ Reject(id) \/ ConfirmCancel(id) \/ Lose(id)

Next == Gateway \/ Caller \/ Engine \/ TWS \/ ConnectionLost \/ Crash \/ Reconnect

Spec == Init /\ [][Next]_vars

\* The goroutines run, TWS executes or refuses an order at the market and says
\* the position; it owes no answer to a cancellation, and nobody owes an entry
\* or an exit.
Fairness ==
    /\ WF_vars(Gateway) /\ WF_vars(Caller) /\ WF_vars(SendPosition)
    /\ \A id \in Ids :
          WF_vars(Knows(id) /\ book[id].role \notin Barriers /\ (Execute(id) \/ Reject(id)))

FairSpec == Spec /\ Fairness

-----------------------------------------------------------------------------
(* Properties *)

\* The gateway's variables have their types, and an identifier to come belongs
\* to no order yet.
TypeOK ==
    /\ {up, posDue, inFlight} \subseteq BOOLEAN
    /\ nextID \in 1..(MaxOrders + 1) /\ held \in Int /\ net \in Int
    /\ orders \in [Ids -> Tracks \cup {None}] /\ book \in [Ids -> Books \cup {None}]
    /\ bracket \in Brackets \cup {None} /\ call \in Calls \cup {None}
    /\ timers \subseteq {"settle", "protect"} \X Ids
    /\ queue \in Seq(Ids \X {"FILLED", "CANCELLED", "REJECTED"})
    /\ wire \in Seq(Kinds \X Int)
    /\ told \in [Ids -> Nat]
    /\ \A id \in Ids : id >= nextID => orders[id] = None /\ book[id] = None

\* placeExit's comments: an order left behind would open a position again, and so
\* would an order at the market once a barrier has closed.  The position at the
\* broker is never more, nor the opposite, of one entry.
NeverReversed ==
    LET entries == {id \in Ids : Knows(id) /\ book[id].role = "entry"
                                 /\ book[id].state = "filled"}
    IN net = 0 \/ \E id \in entries : /\ net = book[id].side
                                      /\ \A other \in entries : other <= id

\* An exit was decided on a position that a barrier closed before PlaceOrder
\* looked; with neither position nor bracket left it was taken for an entry.
Overtaken == \E id \in Ids : Knows(id) /\ book[id].role = "naked"

\* An exit is new to TWS only if no barrier is alive there.
FollowsCancels ==
    \A id \in Ids :
        (~Knows(id) /\ Knows(id)' /\ book'[id].role = "exit")
        => \A b \in Ids : Lives(b) => book[b].role \notin Barriers

\* PlaceOrder's comment: the barriers are cancelled AND the cancellation is
\* confirmed before the exit leaves.  No barrier is alive when an exit is sent.
ExitsFollowCancels == [][FollowsCancels]_vars

\* Nothing is left to handle, to deliver or to time out, and TWS has no order
\* at the market.
Settled ==
    /\ up /\ wire = <<>> /\ queue = <<>> /\ call = None /\ timers = {} /\ ~posDue
    /\ \A id \in Ids : Lives(id) => /\ book[id].role \in Barriers
                                    /\ book[id].state \in {"attached", "working"}

\* SupportsBracket's promise: an open position has both barriers at work.  It
\* holds until an exit is overtaken.
Protected ==
    Settled /\ net # 0 /\ ~Overtaken =>
        \E id \in Ids : /\ Lives(id) /\ book[id].role = "limit"
                        /\ Twins(id) # {} /\ book[id].side = -Sign(net)

\* docs/brokers.md: an execution is reported when the whole quantity is done,
\* with or without its commission; and it is reported once.
ReportedOnce ==
    /\ \A id \in Ids : told[id] <= 1
    /\ Settled => \A id \in Ids :
          Knows(id) /\ book[id].state = "filled" /\ id \notin missed => told[id] = 1

\* Engine.inFlight: the identifier of the order in flight.  When it is empty,
\* no order the engine sent is still to be reported.
OneOrderInFlight ==
    Ready => \A id \in Ids :
        Followed(id) /\ orders[id].role \notin Barriers => Ended(id)

\* Nothing is done twice at the broker: no second exit or surviving barrier
\* reverses the position, and no order is sent while another is to be reported
\* (placeExit; Engine.inFlight).  It holds until an exit is overtaken: see
\* NeverReversed, which says it without the exception.
NeverDoubled == Overtaken \/ (NeverReversed /\ OneOrderInFlight)

\* onOrderError's comment on 10147 to 10149: an order that did not execute exists
\* no more once TWS has said so of its cancellation.
GoneIsOver ==
    [][\A id \in Ids :
          (/\ wire # <<>> /\ Head(wire) = <<"gone", id>> /\ OnGone
           /\ Followed(id) /\ orders[id].cancel /\ ~orders[id].exec) => Ended(id)']_vars

\* A report frees the symbol whatever became of the order.
OrderSettles == inFlight ~> ~inFlight

\* PlaceOrder returns, though TWS may never confirm a cancellation.
CallEnds == call # None ~> call = None

\* The position is open under a bracket in force.
UnderBracket ==
    bracket # None /\ bracket.entered /\ ~bracket.closing /\ net = bracket.side

\* docs/brokers.md, a lost barrier: one that IB cancels under an open position
\* is acted upon, provided the entry is settled when the news arrives.
LostBarrierActedOn ==
    UnderBracket /\ (\E id \in BarriersOf(bracket) :
                       ~Ended(id) /\ Knows(id) /\ book[id].state = "cancelled")
        ~> ~UnderBracket
=============================================================================

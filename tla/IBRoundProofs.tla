----------------------------- MODULE IBRoundProofs -----------------------------
(***************************************************************************)
(* What IBGateway guarantees when TWS keeps its order: it sends the        *)
(* position before the execution, it loses no barrier, the connection      *)
(* lasts and an entry waits for the last reports (Orderly).  It may still  *)
(* repeat or omit an execution, omit a commission, refuse an order, leave  *)
(* a cancellation unanswered and answer in any order.                      *)
(*                                                                         *)
(* As long as no exit is overtaken (Overtaken) the life of the gateway is  *)
(* a sequence of rounds: an entry, its two barriers, its exits.  The       *)
(* inductive invariant, added to Always and Sound of IBGatewayProofs, is   *)
(* Overtaken or Rounds: nothing was ever sent, or InRound describes the    *)
(* last entry.  Its parts say where the round stands at TWS (Ground, Net,  *)
(* Barred), what the gateway knows of it (Recent, Opening, Bracketed,      *)
(* Positions, First) and what the engine and PlaceOrder may be doing       *)
(* meanwhile (InTurn, Leaving, Strict, Shielded).  Each action has its     *)
(* lemma; most keep the round, PlaceBracket alone begins the next one.     *)
(***************************************************************************)
EXTENDS IBGatewayProofs

-----------------------------------------------------------------------------
(* The invariant *)

\* What the theorems assume of TWS and of the engine.
Orderly == MaxBreaks = 0 /\ MaxLosses = 0 /\ ~LatePositions /\ ~Hasty

\* The orders of an entry: itself, its barriers, its exits.
Round(r) == r..(nextID - 1)
Side(r) == orders[r].side
RoleOf(r, id) == IF id = r THEN "entry" ELSE IF id = r + 1 THEN "limit"
                 ELSE IF id = r + 2 THEN "stop" ELSE "exit"

Closed(r) == \E id \in Round(r) : id # r /\ Executed(id)
NothingLives == \A id \in Ids : ~Lives(id)
Position(i) == wire[i][1] = "position"
NoPosition == \A i \in 1..Len(wire) : ~Position(i)
Over == net = 0 /\ held = 0 /\ NoPosition /\ NothingLives
Cancelling == call # None /\ call.stage \in {"cancel", "wait"}
Exiting == call # None /\ call.stage = "exit"

\* An exit, or an entry, that is decided and of which nothing is placed.
Closing == call # None /\ (call.stage = "exiting" \/ (call.stage = "place" /\ ~call.barriers))
Starting == call # None /\ (call.stage = "entering" \/ (call.stage = "place" /\ call.barriers))

Ground(r) ==
    /\ r + 2 < nextID /\ ~posDue
    /\ \A id \in Ids : id < r => ~Lives(id)
    /\ \A id \in Round(r) :
          /\ orders[id].role = RoleOf(r, id) /\ orders[id].qty = 1
          /\ orders[id].side = IF id = r THEN Side(r) ELSE -Side(r)
          /\ Knows(id) /\ id \notin {r + 1, r + 2} =>
                book[id].state \in {"working", "filled", "cancelled"} /\ ~orders[id].cancel

\* What is said and timed is about the orders of this entry.
Recent(r) ==
    /\ \A i \in 1..Len(wire) : ~Position(i) => wire[i][2] \in Round(r)
    /\ \A t \in timers : t[2] \in Round(r)

\* The position, as TWS knows it.
Net(r) ==
    /\ net = IF Executed(r) /\ ~Closed(r) THEN Side(r) ELSE 0
    /\ Closed(r) => Executed(r) /\ NothingLives
    /\ Cancelled(r) => NothingLives

\* Until the entry executes nothing else happens.
Opening(r) ==
    Bracketing \/ Lives(r) =>
       /\ nextID = r + 3 /\ wire = <<>> /\ queue = <<>> /\ timers = {} /\ held = 0
       /\ \A id \in Round(r) : ~orders[id].cancel /\ ~Ended(id)
       /\ bracket # None
       /\ IF Bracketing THEN call.parent = r /\ call.side = Side(r)
          ELSE call = None /\ inFlight /\ \A id \in {r + 1, r + 2} : book[id].state = "attached"

\* The bracket is that of the entry, and goes when nothing of it is left.
Bracketed(r) ==
    /\ bracket # None => /\ bracket.side = Side(r) /\ bracket.parent = r
                         /\ Ended(r) => orders[r].end = "filled"
    /\ bracket = None => Over \/ (Ended(r + 1) /\ Ended(r + 2))

\* A barrier is cancelled because the gateway asks for it, or with the position.
Barred(r) ==
    \A id \in {r + 1, r + 2} :
       /\ Knows(id) /\ book[id].state \in {"withdrawing", "cancelling"} => orders[id].cancel
       /\ Cancelled(id) => orders[id].cancel \/ Closed(r) \/ Cancelled(r)

\* The position the gateway knows, and those on their way.
Positions(r) ==
    /\ held \in {0, Side(r)}
    /\ \A i \in 1..Len(wire) : Position(i) => wire[i][2] \in {0, Side(r)}
    /\ \A i, j \in 1..Len(wire) :
          Position(i) /\ Position(j) /\ i < j => wire[i][2] = Side(r) /\ wire[j][2] = 0
    /\ held # 0 => Executed(r) /\ ~Says(<<"position", Side(r)>>)
    /\ Says(<<"position", Side(r)>>) => Executed(r)
    /\ Says(<<"position", 0>>) => Closed(r)
    /\ Closed(r) /\ (held # 0 \/ Says(<<"position", Side(r)>>)) => Says(<<"position", 0>>)
    /\ Executed(r) /\ ~Closed(r) /\ held = 0 => Says(<<"position", Side(r)>>)

\* The position comes before the execution that closes it is known.
First(r) ==
    \A id \in Round(r) : id # r /\ Executed(id) =>
        /\ \A i, j \in 1..Len(wire) :
              wire[i] \in {"execution", "filled"} \X {id} /\ Position(j) => j < i
        /\ orders[id].exec \/ orders[id].status \/ Ended(id) => held = 0 /\ NoPosition

\* One order of the engine's at a time.
InTurn(r) ==
    /\ queue # <<>> => inFlight \/ Over
    /\ Len(queue) >= 2 => Over
    /\ call # None => ~inFlight
    /\ ~Ended(r) => Bracketing \/ (inFlight /\ queue = <<>> /\ call = None) \/ (Terse /\ Over)
    /\ \A id \in Round(r) : id > r + 2 /\ ~Ended(id) =>
          /\ inFlight /\ queue = <<>> /\ call = None
          /\ \A other \in Round(r) : other # id => Ended(other)
    /\ \A t \in timers : t[1] = "protect" => net = 0 /\ NothingLives

\* An exit is decided on an open position, and leaves when the rest has ended;
\* an entry is decided when the last one is over.
Leaving(r) ==
    /\ Starting => Delivered /\ held = 0 /\ call.qty = 1
    /\ Closing \/ Cancelling =>
         /\ call.side = -Side(r) /\ call.qty = 1
         /\ Executed(r) /\ Ended(r) /\ ~Says(<<"position", Side(r)>>)
    /\ Cancelling =>
         /\ call.waits \subseteq {r + 1, r + 2}
         /\ \A id \in {r + 1, r + 2} :
               IF id \in call.waits THEN orders[id].cancel ELSE Ended(id) \/ Over
    /\ Exiting =>
         /\ call.side = -Side(r) /\ call.qty = 1 /\ net = Side(r)
         /\ \A id \in Round(r) : Ended(id)

\* The commission of the entry comes before anything else about its round.
Promised(r) ==
    \E i \in 1..Len(wire) :
       /\ wire[i] = <<"commission", r>>
       /\ \A j \in 1..(i - 1) : Position(j) \/ wire[j] = <<"execution", r>>
       /\ orders[r].exec \/ \E j \in 1..(i - 1) : wire[j] = <<"execution", r>>

\* Each order of the engine's is settled before the next, when each execution
\* comes with its commission.
Strict(r) ==
    ~Terse =>
       /\ \A id \in Ids : id < r /\ Followed(id) /\ orders[id].role \notin Barriers => Ended(id)
       /\ Executed(r) /\ ~Ended(r) => Promised(r)

\* A barrier is given up for an exit only.
Shielded(r) ==
    ~Silent /\ "exit" \notin Rejectable =>
       \A id \in {r + 1, r + 2} : orders[id].cancel =>
           call # None \/ Closed(r) \/ \E x \in Round(r) : x > r + 2 /\ Lives(x)

InRound(r) ==
    /\ Ground(r) /\ Recent(r) /\ Net(r) /\ Opening(r) /\ Bracketed(r) /\ Barred(r) /\ Positions(r)
    /\ First(r) /\ InTurn(r) /\ Leaving(r) /\ Strict(r) /\ Shielded(r)

Blank ==
    /\ nextID = 1 /\ held = 0 /\ bracket = None /\ timers = {} /\ queue = <<>>
    /\ call = None \/ Starting
    /\ inFlight = FALSE /\ net = 0 /\ wire = <<>> /\ posDue = FALSE

Rounds == Blank \/ \E r \in Ids : InRound(r)

-----------------------------------------------------------------------------
(* What a round is *)

LEMMA RoundIds ==
    ASSUME Always, Sound, NEW r \in Ids, Ground(r)
    PROVE  /\ nextID \in Int /\ r \in Int /\ r + 2 < nextID /\ r \notin {r + 1, r + 2}
           /\ Round(r) \subseteq Ids /\ {r, r + 1, r + 2} \subseteq Round(r)
           /\ \A id \in Round(r) : id \in Int /\ Followed(id) /\ orders[id] \in Tracks
           /\ \A id \in Ids : Knows(id) => id < nextID /\ book[id] \in Books
           /\ \A id \in Ids : Lives(id) => id \in Round(r)
           /\ \A id \in Ids : Ended(id) => ~Lives(id)
           /\ Side(r) \in {1, -1}
<1>1. nextID \in Int /\ nextID <= MaxOrders + 1 /\ r \in Int /\ r >= 1 /\ MaxOrders \in Int
  BY IBAssumption DEF Always, TypeOK, Ids
<1>2. Round(r) \subseteq Ids /\ {r, r + 1, r + 2} \subseteq Round(r) /\ r + 2 < nextID
  BY <1>1 DEF Round, Ids, Ground
<1>3. \A id \in Round(r) : id \in Int /\ id < nextID /\ id \in Ids
  BY <1>1, <1>2 DEF Round
<1>4. \A id \in Round(r) : Followed(id) /\ orders[id] \in Tracks
  <2>1. \A id \in Round(r) : Followed(id)
    BY <1>3 DEF Sound, Followers
  <2> QED BY <1>3, <2>1 DEF Always, TypeOK, Followed
<1>5. \A id \in Ids : Knows(id) => id < nextID /\ book[id] \in Books
  BY KnownIsSent DEF Always
<1>6. \A id \in Ids : Lives(id) => id \in Round(r)
  <2>1. SUFFICES ASSUME NEW id \in Ids, Lives(id) PROVE id \in Round(r)
    OBVIOUS
  <2>2. id < nextID /\ ~(id < r) /\ id \in Int
    BY <1>5, <2>1 DEF Lives, Ground, Ids
  <2> QED BY <1>1, <2>2 DEF Round
<1>7. \A id \in Ids : Ended(id) => ~Lives(id)
  BY DEF Sound, Noted, Ended, Executed, Cancelled, Lives, Alive, Waiting
<1>8. Side(r) \in {1, -1}
  BY <1>2, <1>4 DEF Side, Tracks
<1> QED BY <1>1, <1>2, <1>3, <1>4, <1>5, <1>6, <1>7, <1>8

LEMMA RoundRoles ==
    ASSUME Always, Sound, NEW r \in Ids, Ground(r)
    PROVE  \A id \in Round(r) :
              /\ orders[id].role = "entry" <=> id = r
              /\ orders[id].role \in Barriers <=> id \in {r + 1, r + 2}
              /\ orders[id].role = "exit" <=> id > r + 2
              /\ id > r + 2 => id # r /\ id \notin {r + 1, r + 2}
              /\ id = r \/ id \in {r + 1, r + 2} \/ id > r + 2
<1> SUFFICES ASSUME NEW id \in Round(r)
             PROVE  /\ orders[id].role = "entry" <=> id = r
                    /\ orders[id].role \in Barriers <=> id \in {r + 1, r + 2}
                    /\ orders[id].role = "exit" <=> id > r + 2
                    /\ id > r + 2 => id # r /\ id \notin {r + 1, r + 2}
                    /\ id = r \/ id \in {r + 1, r + 2} \/ id > r + 2
  OBVIOUS
<1>1. id \in Int /\ r \in Int /\ nextID \in Int
  BY RoundIds
<1>2. id >= r
  BY <1>1 DEF Round
<1>3. orders[id].role = RoleOf(r, id)
  BY DEF Ground
<1> QED BY <1>1, <1>2, <1>3 DEF RoleOf, Barriers

\* Either the entry is to be sent, or alive, or it has executed or been refused.
LEMMA Phases ==
    ASSUME Always, Sound, NEW r \in Ids, InRound(r)
    PROVE  /\ Bracketing \/ Lives(r) \/ Executed(r) \/ Cancelled(r)
           /\ Lives(r) => ~Executed(r) /\ ~Cancelled(r)
           /\ Executed(r) => ~Cancelled(r)
           /\ Bracketing => /\ \A id \in Round(r) : ~Knows(id)
                            /\ NothingLives
<1> USE DEF InRound
<1>0. /\ nextID \in Int /\ r \in Int /\ r + 2 < nextID /\ r \in Round(r)
      /\ \A id \in Round(r) : id \in Int /\ id \in Ids
      /\ \A id \in Ids : Lives(id) => id \in Round(r)
  BY RoundIds
<1>1. ASSUME Bracketing
      PROVE  \A id \in Round(r) : ~Knows(id)
  <2>1. nextID = r + 3 /\ call.parent = r
    BY <1>1 DEF Opening
  <2>2. \A id \in Round(r) : Ahead(id)
    BY <1>0, <1>1, <2>1 DEF Ahead, Round, StopOf
  <2> QED BY <1>0, <2>2 DEF Always, Heard, Knows
<1>2. ~Bracketing => Knows(r)
  BY <1>0 DEF Sound, Followers, Ahead
<1>3. Knows(r) => book[r].state \in Alive \cup {"filled", "cancelled"}
  BY <1>0, RoundIds DEF Books
<1>4. Knows(r) => Lives(r) \/ Executed(r) \/ Cancelled(r)
  BY <1>3 DEF Lives, Executed, Cancelled
<1> QED BY <1>0, <1>1, <1>2, <1>4 DEF Lives, Executed, Cancelled, Alive, Waiting, NothingLives

\* An order other than the entry executes or is worked once the entry has
\* executed, and closes what it opened.
LEMMA Opened ==
    ASSUME Always, Sound, NEW r \in Ids, InRound(r)
    PROVE  /\ \A id \in Round(r) : id # r /\ Executed(id) =>
                Closed(r) /\ Executed(r) /\ net = 0 /\ NothingLives
           /\ \A id \in Ids : Lives(id) /\ id # r /\ ~(Bracketing \/ Lives(r)) =>
                Executed(r) /\ ~Closed(r) /\ net = Side(r)
           /\ \A id \in Ids : Lives(id) /\ id # r /\ book[id].state \notin Waiting =>
                /\ ~Bracketing /\ ~Lives(r)
                /\ Executed(r) /\ ~Closed(r) /\ net = Side(r)
           /\ Cancelled(r) => Over
<1> USE DEF InRound
<1>0. /\ nextID \in Int /\ r \in Int /\ r + 2 < nextID /\ r \in Round(r)
      /\ \A id \in Round(r) : id \in Int /\ id \in Ids
      /\ \A id \in Ids : Lives(id) => id \in Round(r)
      /\ Side(r) \in {1, -1}
  BY RoundIds
<1>1. \A id \in Round(r) : id # r /\ Executed(id) =>
         Closed(r) /\ Executed(r) /\ net = 0 /\ NothingLives
  BY DEF Closed, Net
<1>2. \A id \in Ids : Lives(id) /\ id # r /\ ~(Bracketing \/ Lives(r)) =>
         Executed(r) /\ ~Closed(r) /\ net = Side(r)
  BY Phases DEF Net, NothingLives
<1>3. \A id \in Ids : Lives(id) /\ id # r /\ book[id].state \notin Waiting =>
         ~Bracketing /\ ~Lives(r)
  <2> SUFFICES ASSUME NEW id \in Ids, Lives(id), id # r, book[id].state \notin Waiting,
                      Bracketing \/ Lives(r)
               PROVE  FALSE
    OBVIOUS
  <2>1. id \in Round(r)
    BY <1>0
  <2>2. ~Bracketing
    BY Phases, <2>1 DEF Lives
  <2>3. id \in {r + 1, r + 2}
    BY <1>0, <2>1 DEF Opening, Round
  <2> QED BY <2>2, <2>3 DEF Opening, Waiting
<1>4. ASSUME Cancelled(r) PROVE Over
  <2>1. ~Executed(r) /\ ~Closed(r) /\ NothingLives /\ net = 0
    BY <1>4, Phases DEF Net
  <2>2. held = 0
    BY <2>1 DEF Positions
  <2>3. NoPosition
    <3>1. ASSUME NEW i \in 1..Len(wire), Position(i) PROVE FALSE
      <4>1. wire[i] \in Messages
        BY DEF Always, TypeOK, Messages
      <4>2. wire[i] = <<"position", wire[i][2]>> /\ wire[i][2] \in {0, Side(r)}
        BY <3>1, <4>1 DEF Positions, Position, Messages
      <4>3. Says(<<"position", 0>>) \/ Says(<<"position", Side(r)>>)
        BY <4>2 DEF Says
      <4> QED BY <2>1, <4>3 DEF Positions
    <3> QED BY <3>1 DEF NoPosition
  <2> QED BY <2>1, <2>2, <2>3 DEF Over
<1> QED BY <1>1, <1>2, <1>3, <1>4

\* An execution that is noted is of a round that is over, but the entry's.
LEMMA NotedIsOver ==
    ASSUME Always, Sound, NEW r \in Ids, InRound(r), NEW id \in Round(r), id # r, Executed(id),
           orders[id].exec \/ orders[id].status \/ Ended(id)
    PROVE  Over /\ Closed(r)
  BY Opened DEF InRound, First, Over

LEMMA ClosedIsOver ==
    ASSUME Always, Sound, NEW r \in Ids, InRound(r), Closed(r), NoPosition
    PROVE  Over
<1>1. ~Says(<<"position", 0>>)
  BY DEF Says, NoPosition, Position
<1>2. held = 0
  BY <1>1 DEF InRound, Positions
<1> QED BY <1>2 DEF Over, InRound, Net

\* Nothing of the last entry is left when the next one is decided.
LEMMA BeforeEntry ==
    ASSUME Always, Sound, NEW r \in Ids, InRound(r), held = 0, Delivered, ~inFlight, ~Bracketing
    PROVE  /\ net = 0 /\ NothingLives
           /\ \A id \in Round(r) : orders[id].role \notin Barriers => Ended(id)
<1> USE DEF InRound
<1>1. wire = <<>> /\ timers = {}
  BY DEF Delivered
<1>2. \A m : ~Says(m)
  BY <1>1 DEF Says
<1>3. ~Lives(r)
  BY DEF Opening
<1>4. Executed(r) => Closed(r)
  BY <1>2 DEF Positions
<1>5. NothingLives /\ net = 0
  BY <1>3, <1>4, Phases DEF Net
<1>6. Ended(r)
  <2> SUFFICES ASSUME ~Ended(r) PROVE FALSE
    OBVIOUS
  <2>1. Answered(r)
    BY RoundIds DEF Sound, Owed
  <2>2. <<"settle", r>> \notin timers
    BY <1>1
  <2>3. ~Executed(r) /\ ~Cancelled(r)
    BY <1>2, <2>1, <2>2 DEF Answered
  <2> QED BY <1>3, <2>3, Phases
<1>7. ASSUME NEW id \in Round(r), orders[id].role \notin Barriers
      PROVE  Ended(id)
  <2>1. id = r \/ id > r + 2
    BY <1>7, RoundRoles
  <2> QED BY <1>6, <2>1 DEF InTurn
<1> QED BY <1>5, <1>7

\* An entry to place finds nothing at work, so that nobody but the caller moves.
LEMMA StartingIsIdle ==
    ASSUME Always, Sound, NEW r \in Ids, InRound(r), Starting
    PROVE  /\ wire = <<>> /\ timers = {} /\ queue = <<>> /\ ~posDue /\ ~inFlight /\ ~Bracketing
           /\ held = 0 /\ net = 0 /\ NothingLives /\ call.qty = 1
           /\ \A id \in Round(r) : orders[id].role \notin Barriers => Ended(id)
<1>1. Delivered /\ held = 0 /\ call.qty = 1 /\ ~inFlight
  BY DEF InRound, Leaving, InTurn, Starting
<1>2. ~Bracketing
  BY DEF Starting, Bracketing
<1> QED BY <1>1, <1>2, BeforeEntry DEF Delivered

-----------------------------------------------------------------------------
(* A message about an order, or its timer *)

LEMMA Shortened ==
    ASSUME TypeOK, Shorter, wire' # wire => ~Position(1)
    PROVE  /\ wire' \in Seq(Messages) /\ wire \in Seq(Messages)
           /\ \A i \in 1..Len(wire') : \E k \in 1..Len(wire) : wire'[i] = wire[k]
           /\ \A i, j \in 1..Len(wire') : i < j =>
                 \E k, l \in 1..Len(wire) : k < l /\ wire'[i] = wire[k] /\ wire'[j] = wire[l]
           /\ NoPosition => NoPosition'
           /\ \A n : Says(<<"position", n>>)' <=> Says(<<"position", n>>)
<1>0. wire \in Seq(Messages)
  BY DEF TypeOK, Messages
<1>1. CASE wire' = wire
  BY <1>0, <1>1 DEF NoPosition, Position, Says
<1>2. CASE wire # <<>> /\ wire' = Tail(wire) /\ ~Position(1)
  <2>1. /\ wire' \in Seq(Messages) /\ Len(wire') = Len(wire) - 1 /\ Len(wire) \in Nat \ {0}
        /\ \A i \in 1..(Len(wire) - 1) : wire'[i] = wire[i + 1]
    BY <1>0, <1>2, Popping
  <2>2. \A i \in 1..Len(wire') : i + 1 \in 1..Len(wire) /\ wire'[i] = wire[i + 1]
    BY <2>1
  <2>3. \A i, j \in 1..Len(wire') : i < j => i + 1 < j + 1
    BY <2>1
  <2>4. NoPosition => NoPosition'
    BY <2>2 DEF NoPosition, Position
  <2>5. \A n : Says(<<"position", n>>)' => Says(<<"position", n>>)
    BY <2>2 DEF Says
  <2>6. ASSUME NEW n, NEW i \in 1..Len(wire), wire[i] = <<"position", n>>
        PROVE  Says(<<"position", n>>)'
    <3>1. i # 1
      BY <1>2, <2>6 DEF Position
    <3>2. i - 1 \in 1..Len(wire') /\ wire'[i - 1] = wire[i]
      BY <2>1, <3>1
    <3> QED BY <2>6, <3>2 DEF Says
  <2> QED BY <1>0, <2>1, <2>2, <2>3, <2>4, <2>5, <2>6 DEF Says
<1> QED BY <1>1, <1>2 DEF Shorter

\* What a message or a timer about an order of the round does.
Handled(r, id) ==
    /\ KeepsOrders(id) /\ Shorter /\ (wire' # wire => ~Position(1))
    /\ wire # <<>> \/ timers # {}
    /\ UNCHANGED <<up, nextID, held, callVars, book, net, posDue>>
    /\ id # r /\ Executed(id) /\ (orders'[id].exec \/ orders'[id].status \/ orders'[id].end # "")
          => held = 0 /\ NoPosition'
    /\ bracket' = None /\ bracket # None => Over
    /\ Ended(r)' => orders'[r].end = "filled" \/ bracket' = None
    /\ \/ queue' = queue
       \/ /\ \E report : queue' = Append(queue, report)
          /\ orders[id].end = "" /\ orders'[id].end # ""
          /\ Over \/ (inFlight /\ queue = <<>>)
          /\ Ended(r)' \/ (Terse /\ Over)
    /\ \A t \in timers' : t \in timers \/ (t[2] = id /\ (t[1] = "protect" => net = 0 /\ NothingLives))
    /\ ~Terse /\ Executed(r) /\ ~Ended(r)' => Promised(r)'

LEMMA HandledKept ==
    ASSUME Always, Sound, NEW r \in Ids, InRound(r), NEW id \in Round(r), Handled(r, id)
    PROVE  InRound(r)'
<1> USE DEF InRound
<1>0. /\ nextID \in Int /\ r \in Int /\ r + 2 < nextID /\ {r, r + 1, r + 2} \subseteq Round(r)
      /\ \A o \in Round(r) : o \in Int /\ o \in Ids /\ Followed(o)
      /\ \A o \in Ids : Lives(o) => o \in Round(r)
      /\ Side(r) \in {1, -1}
  BY RoundIds
<1>1. /\ UNCHANGED <<up, nextID, held, call, inFlight, book, net, posDue>>
      /\ Round(r)' = Round(r) /\ Bracketing' = Bracketing
      /\ \A o \in Ids : /\ Executed(o)' = Executed(o) /\ Cancelled(o)' = Cancelled(o)
                        /\ Knows(o)' = Knows(o) /\ Lives(o)' = Lives(o)
  BY DEF Handled, callVars, Round, Bracketing, Executed, Cancelled, Knows, Lives
<1>2. /\ \A o \in Round(r) : /\ Followed(o)'
           /\ orders'[o].role = orders[o].role /\ orders'[o].side = orders[o].side
           /\ orders'[o].qty = orders[o].qty /\ orders'[o].cancel = orders[o].cancel
           /\ (Ended(o) => Ended(o)' /\ orders'[o].end = orders[o].end)
      /\ \A o \in Ids : Followed(o) <=> Followed(o)'
      /\ \A o \in Ids : o # id => orders'[o] = orders[o]
      /\ Side(r)' = Side(r)
  BY <1>0 DEF Handled, KeepsOrders, Ended, Side
<1>3. Closed(r)' = Closed(r) /\ NothingLives' = NothingLives
  BY <1>0, <1>1 DEF Closed, NothingLives
<1>4. /\ wire' \in Seq(Messages) /\ wire \in Seq(Messages)
      /\ \A i \in 1..Len(wire') : \E k \in 1..Len(wire) : wire'[i] = wire[k]
      /\ \A i, j \in 1..Len(wire') : i < j =>
                 \E k, l \in 1..Len(wire) : k < l /\ wire'[i] = wire[k] /\ wire'[j] = wire[l]
      /\ NoPosition => NoPosition'
      /\ \A n : Says(<<"position", n>>)' <=> Says(<<"position", n>>)
  BY Shortened DEF Handled, Always
<1>5. Over => Over'
  BY <1>1, <1>3, <1>4 DEF Over
<1>6. ~Bracketing /\ ~Lives(r)
  BY DEF Opening, Handled
<1>g. Ground(r)'
  BY <1>0, <1>1, <1>2 DEF Ground, RoleOf
<1>r. Recent(r)'
  <2>1. \A i \in 1..Len(wire') : ~Position(i)' => wire'[i][2] \in Round(r)
    BY <1>4 DEF Recent, Position
  <2>2. \A t \in timers' : t[2] \in Round(r)
    BY DEF Recent, Handled
  <2> QED BY <1>1, <2>1, <2>2 DEF Recent
<1>n. Net(r)'
  BY <1>0, <1>1, <1>2, <1>3 DEF Net
<1>o. Opening(r)'
  BY <1>0, <1>1, <1>6 DEF Opening
<1>b. Bracketed(r)'
  <2>1. bracket' # None => /\ bracket # None /\ bracket'.parent = bracket.parent
                           /\ bracket'.side = bracket.side
    BY DEF Handled, KeepsOrders
  <2>2. bracket' # None => bracket'.side = Side(r)' /\ bracket'.parent = r
                           /\ (Ended(r)' => orders'[r].end = "filled")
    BY <1>2, <2>1 DEF Bracketed, Handled
  <2>3. bracket' = None => Over' \/ (Ended(r + 1)' /\ Ended(r + 2)')
    BY <1>0, <1>2, <1>5 DEF Bracketed, Handled
  <2> QED BY <2>2, <2>3 DEF Bracketed
<1>c. Barred(r)'
  BY <1>0, <1>1, <1>2, <1>3 DEF Barred
<1>p. Positions(r)'
  <2>1. ASSUME NEW i \in 1..Len(wire'), Position(i)' PROVE wire'[i][2] \in {0, Side(r)}
    <3>1. PICK k \in 1..Len(wire) : wire'[i] = wire[k]
      BY <1>4
    <3>2. Position(k)
      BY <2>1, <3>1 DEF Position
    <3> QED BY <3>1, <3>2 DEF Positions
  <2>2. ASSUME NEW i \in 1..Len(wire'), NEW j \in 1..Len(wire'), Position(i)', Position(j)', i < j
        PROVE  wire'[i][2] = Side(r) /\ wire'[j][2] = 0
    <3>1. PICK k \in 1..Len(wire), l \in 1..Len(wire) :
              k < l /\ wire'[i] = wire[k] /\ wire'[j] = wire[l]
      BY <1>4, <2>2
    <3>2. Position(k) /\ Position(l)
      BY <2>2, <3>1 DEF Position
    <3> QED BY <3>1, <3>2 DEF Positions
  <2> QED BY <1>0, <1>1, <1>2, <1>3, <1>4, <2>1, <2>2 DEF Positions
<1>f. First(r)'
  <2>1. ASSUME NEW o \in Round(r), o # r, Executed(o),
               NEW i \in 1..Len(wire'), NEW j \in 1..Len(wire'),
               wire'[i] \in {"execution", "filled"} \X {o}, Position(j)'
        PROVE  j < i
    <3>1. i # j
      BY <2>1 DEF Position
    <3>2. CASE i < j
      <4>1. PICK k \in 1..Len(wire), l \in 1..Len(wire) :
                k < l /\ wire'[i] = wire[k] /\ wire'[j] = wire[l]
        BY <1>4, <3>2
      <4>2. wire[k] \in {"execution", "filled"} \X {o} /\ Position(l)
        BY <2>1, <4>1 DEF Position
      <4>3. l < k
        BY <2>1, <4>2 DEF First
      <4> QED BY <4>1, <4>3
    <3> QED BY <3>1, <3>2
  <2>2. ASSUME NEW o \in Round(r), o # r, Executed(o)',
               orders'[o].exec \/ orders'[o].status \/ Ended(o)'
        PROVE  held' = 0 /\ NoPosition'
    <3>1. CASE o = id
      BY <1>0, <1>1, <2>2, <3>1 DEF Handled, Ended
    <3>2. CASE o # id
      <4>1. orders'[o] = orders[o] /\ Executed(o)
        BY <1>0, <1>1, <1>2, <2>2, <3>2
      <4>2. held = 0 /\ NoPosition
        BY <2>2, <4>1 DEF First, Ended, Followed
      <4> QED BY <1>1, <1>4, <4>2
    <3> QED BY <3>1, <3>2
  <2> QED BY <1>0, <1>1, <2>1, <2>2 DEF First
<1>t. InTurn(r)'
  <2>0. \A o \in Round(r) : Ended(o)' => Ended(o) \/ o = id
    BY <1>0, <1>2 DEF Ended, Followed
  <2>1. CASE queue' = queue
    <3>1. (queue' # <<>> => inFlight \/ Over') /\ (Len(queue') >= 2 => Over')
      BY <1>5, <2>1 DEF InTurn
    <3>2. ~Ended(r)' => (inFlight /\ queue' = <<>> /\ call = None) \/ (Terse /\ Over')
      BY <1>0, <1>2, <1>5, <1>6, <2>1 DEF InTurn
    <3>3. \A o \in Round(r) : o > r + 2 /\ ~Ended(o)' =>
            /\ inFlight /\ queue' = <<>> /\ call = None
            /\ \A other \in Round(r) : other # o => Ended(other)'
      BY <1>2, <2>1 DEF InTurn
    <3>4. \A t \in timers' : t[1] = "protect" => net = 0 /\ NothingLives
      BY DEF InTurn, Handled
    <3>5. call # None => ~inFlight
      BY DEF InTurn
    <3> QED BY <1>1, <1>3, <3>1, <3>2, <3>3, <3>4, <3>5 DEF InTurn
  <2>2. CASE queue' # queue
    <3>0. PICK report : queue' = Append(queue, report)
      BY <2>2 DEF Handled
    <3>a. queue \in Seq(Reports)
      BY DEF Always, TypeOK, Reports
    <3>b. Len(queue') = Len(queue) + 1 /\ Len(queue) \in Nat /\ (queue = <<>> => Len(queue) = 0)
      BY <3>0, <3>a
    <3>1. (queue' # <<>> => inFlight \/ Over') /\ (Len(queue') >= 2 => Over')
      <4>1. Over \/ (inFlight /\ queue = <<>>)
        BY <2>2 DEF Handled
      <4>2. queue = <<>> => ~(Len(queue') >= 2)
        BY <3>b
      <4> QED BY <1>5, <4>1, <4>2
    <3>2. ~Ended(r)' => Terse /\ Over'
      BY <1>5, <2>2 DEF Handled
    <3>3. \A o \in Round(r) : ~(o > r + 2 /\ ~Ended(o)')
      <4> SUFFICES ASSUME NEW o \in Round(r), o > r + 2, ~Ended(o)' PROVE FALSE
        OBVIOUS
      <4>1. ~Ended(o)
        BY <1>2
      <4>2. ~Ended(id) /\ Ended(id)'
        BY <1>0, <1>2, <2>2 DEF Handled, Ended
      <4>3. o # id
        BY <4>2
      <4> QED BY <4>1, <4>2, <4>3 DEF InTurn
    <3>4. \A t \in timers' : t[1] = "protect" => net = 0 /\ NothingLives
      BY DEF InTurn, Handled
    <3>5. call # None => ~inFlight
      BY DEF InTurn
    <3> QED BY <1>1, <1>3, <3>1, <3>2, <3>3, <3>4, <3>5 DEF InTurn
  <2> QED BY <2>1, <2>2
<1>l. Leaving(r)'
  <2>1. Cancelling' = Cancelling /\ Exiting' = Exiting /\ Closing' = Closing
    BY <1>1 DEF Cancelling, Exiting, Closing
  <2>2. ~Starting /\ ~Starting'
    BY <1>1, StartingIsIdle DEF Starting, Handled
  <2> QED BY <1>0, <1>1, <1>2, <1>4, <1>5, <2>1, <2>2 DEF Leaving
<1>s. Strict(r)'
  <2>1. ~Terse => \A o \in Ids : o < r /\ Followed(o)' /\ orders'[o].role \notin Barriers => Ended(o)'
    <3> SUFFICES ASSUME ~Terse, NEW o \in Ids, o < r, Followed(o)', orders'[o].role \notin Barriers
                 PROVE  Ended(o)'
      OBVIOUS
    <3>1. orders'[o] = orders[o] /\ Followed(o)
      BY <1>0, <1>2 DEF Round, Ids
    <3> QED BY <3>1 DEF Strict, Ended, Followed
  <2>2. ~Terse /\ Executed(r)' /\ ~Ended(r)' => Promised(r)'
    BY <1>1 DEF Handled
  <2> QED BY <2>1, <2>2 DEF Strict
<1>h. Shielded(r)'
  BY <1>0, <1>1, <1>2, <1>3 DEF Shielded
<1> QED BY <1>g, <1>r, <1>n, <1>o, <1>b, <1>c, <1>p, <1>f, <1>t, <1>l, <1>s, <1>h

\* Following an order of the round, when what is noted of it is not news of a
\* position still to be told, and it is given up as cancelled with a reason.
LEMMA FollowingHandled ==
    ASSUME Always, Sound, Sound', NEW r \in Ids, InRound(r), NEW id \in Round(r),
           Following(id), Shorter, wire' # wire => ~Position(1),
           wire # <<>> \/ timers # {},
           UNCHANGED <<up, nextID, held, callVars, book, net, posDue>>,
           id # r /\ Executed(id) /\ (orders'[id].exec \/ orders'[id].status \/ orders'[id].end # "")
              => Over,
           orders[id].end = "" /\ orders'[id].end = "dead" => Cancelled(id),
           ~Terse /\ Executed(r) /\ ~Ended(r)' => Promised(r)',
           ~Terse /\ Executed(r) /\ ~Ended(r) => id = r
    PROVE  Handled(r, id)
<1> USE DEF InRound
<1>0. /\ nextID \in Int /\ r \in Int /\ r + 2 < nextID /\ {r, r + 1, r + 2} \subseteq Round(r)
      /\ \A o \in Round(r) : o \in Int /\ o \in Ids /\ Followed(o)
  BY RoundIds
<1>1. KeepsOrders(id)
  BY FollowingKeepsOrders DEF Always
<1>2. id \in Ids /\ Followed(id) /\ Followed(id)'
  BY <1>0, <1>1 DEF KeepsOrders
<1>3. /\ \/ UNCHANGED followVars
         \/ Noting(id) /\ orders'[id].end = orders[id].end
         \/ Settling(id) /\ orders[id].end = "" /\ orders'[id].end = "filled"
            /\ (orders'[id].exec \/ orders'[id].status)
         \/ Finishing(id) /\ orders[id].end = "" /\ orders'[id].end = "dead"
  <2>1. TypeOK
    BY DEF Always
  <2>2. orders \in [Ids -> Tracks \cup {None}] /\ orders[id] \in Tracks
    BY <1>2, <2>1 DEF TypeOK, Followed
  <2>3. CASE Noting(id)
    BY <1>2, <2>2, <2>3 DEF Noting, Flags
  <2>4. CASE Settling(id)
    <3>1. PICK t \in Tracks :
            /\ Flags(id, t) /\ t.end = "" /\ (t.exec \/ t.status)
            /\ orders' = [orders EXCEPT ![id] = [t EXCEPT !.end = "filled"]]
      BY <2>4 DEF Settling
    <3>2. /\ orders'[id].end = "filled" /\ orders'[id].exec = t.exec
          /\ orders'[id].status = t.status
      BY <1>2, <2>2, <3>1 DEF Tracks
    <3> QED BY <2>4, <3>1, <3>2 DEF Flags
  <2>5. CASE Finishing(id)
    BY <1>2, <2>2, <2>5 DEF Finishing, Tracks
  <2> QED BY <2>3, <2>4, <2>5 DEF Following
<1>4. wire \in Seq(Messages) /\ (NoPosition => NoPosition')
  BY Shortened DEF Always
<1>5. ~Bracketing /\ ~Lives(r)
  BY DEF Opening
<1>6. Settling(id) /\ orders'[id].end = "filled" => Executed(id)
  <2>1. Followed(id)' /\ orders'[id].end = "filled" => Executed(id)'
    BY <1>2 DEF Sound, Noted
  <2> QED BY <1>2, <2>1 DEF Executed, Knows
<1>7. \A o \in Ids : o # id => orders'[o] = orders[o]
  BY <1>1 DEF KeepsOrders
<1>k. id # r /\ Executed(id) /\ (orders'[id].exec \/ orders'[id].status \/ orders'[id].end # "")
          => held = 0 /\ NoPosition'
  BY <1>4 DEF Over
<1>b. bracket' = None /\ bracket # None => Over
  <2> SUFFICES ASSUME bracket' = None, bracket # None PROVE Over
    OBVIOUS
  <2>0. bracket \in Brackets /\ bracket.parent = r
    BY DEF Bracketed, Always, TypeOK
  <2>1. ~UNCHANGED followVars /\ ~Noting(id)
    <3>1. [bracket EXCEPT !.closing = TRUE] \in Brackets
      BY <2>0 DEF Brackets
    <3> QED BY <3>1, IBAssumption DEF followVars, Noting
  <2>2. CASE Settling(id) /\ orders'[id].end = "filled" /\ (orders'[id].exec \/ orders'[id].status)
    <3>1. Executed(id)
      BY <1>6, <2>2
    <3>2. id # r
      <4>1. orders[r].role = "entry"
        BY <1>0 DEF Ground, RoleOf
      <4>2. orders[id].role # "entry"
        <5>1. [bracket EXCEPT !.entered = TRUE] \in Brackets
          BY <2>0 DEF Brackets
        <5>2. PICK t \in Tracks :
            /\ Flags(id, t)
            /\ IF t.role \in Barriers \cup {"exit"} THEN bracket' = None
               ELSE bracket' = bracket \/ bracket' = [bracket EXCEPT !.entered = TRUE]
          BY <2>2 DEF Settling
        <5>3. t.role \in Barriers \cup {"exit"}
          BY <5>1, <5>2, IBAssumption
        <5> QED BY <5>2, <5>3 DEF Flags, Barriers
      <4> QED BY <4>1, <4>2
    <3> QED BY <2>2, <3>1, <3>2
  <2>3. CASE Finishing(id) /\ orders[id].end = "" /\ orders'[id].end = "dead"
    <3>1. id = r
      BY <2>0, <2>3 DEF Finishing
    <3>2. Cancelled(r)
      BY <2>3, <3>1
    <3> QED BY <3>2, Opened
  <2> QED BY <1>3, <2>1, <2>2, <2>3
<1>e. Ended(r)' => orders'[r].end = "filled" \/ bracket' = None
  <2>1. bracket' # None => bracket # None
    BY <1>1 DEF KeepsOrders
  <2>2. CASE Ended(r)
    BY <1>0, <1>1, <2>1, <2>2 DEF Bracketed, KeepsOrders, Ended
  <2>3. CASE ~Ended(r)
    <3>1. Ended(r)' => id = r
      BY <1>0, <1>7, <2>3 DEF Ended, Followed
    <3>2. CASE Finishing(id) /\ id = r
      BY <2>1, <3>2 DEF Finishing, Bracketed
    <3> QED BY <1>0, <1>3, <2>3, <3>1, <3>2 DEF Ended, followVars
  <2> QED BY <2>2, <2>3
<1>q. \/ queue' = queue
      \/ /\ \E report : queue' = Append(queue, report)
         /\ orders[id].end = "" /\ orders'[id].end # ""
         /\ Over \/ (inFlight /\ queue = <<>>)
         /\ Ended(r)' \/ (Terse /\ Over)
  <2>1. CASE UNCHANGED followVars \/ Noting(id)
    BY <2>1 DEF followVars, Noting
  <2>2. CASE Settling(id) /\ orders[id].end = "" /\ orders'[id].end = "filled"
             /\ (orders'[id].exec \/ orders'[id].status)
    <3>1. (\E report : queue' = Append(queue, report)) /\ Executed(id) /\ ~Ended(id) /\ Ended(id)'
      BY <1>2, <1>6, <2>2 DEF Settling, Ended
    <3>2. CASE id = r
      <4>1. (inFlight /\ queue = <<>>) \/ Over
        BY <1>5, <3>1, <3>2 DEF InTurn
      <4> QED BY <2>2, <3>1, <3>2, <4>1
    <3>3. CASE id # r
      <4>1. Over
        BY <2>2, <3>1, <3>3
      <4>2. Executed(r)
        BY <3>1, <3>3, Opened
      <4>3. Ended(r)' \/ Terse
        <5>1. Ended(r) => Ended(r)'
          BY <1>0, <1>1 DEF KeepsOrders, Ended
        <5> QED BY <3>3, <4>2, <5>1
      <4> QED BY <2>2, <3>1, <4>1, <4>3
    <3> QED BY <3>2, <3>3
  <2>3. CASE Finishing(id) /\ orders[id].end = "" /\ orders'[id].end = "dead"
    <3>1. ~Ended(id) /\ Ended(id)'
      BY <1>2, <2>3 DEF Ended
    <3>2. CASE id = r
      <4>1. Over
        BY <2>3, <3>2, Opened
      <4> QED BY <2>3, <3>1, <3>2, <4>1 DEF Finishing
    <3>3. CASE id \in {r + 1, r + 2}
      <4>1. orders[id].role \in Barriers
        BY <3>3, RoundRoles
      <4> QED BY <2>3, <4>1 DEF Finishing
    <3>4. CASE id > r + 2
      <4>0. r # id /\ r \in Round(r)
        BY <1>0, <3>4, RoundRoles
      <4>1. inFlight /\ queue = <<>> /\ Ended(r)
        BY <3>1, <3>4, <4>0 DEF InTurn
      <4>2. Ended(r)'
        BY <1>0, <1>1, <4>1 DEF KeepsOrders, Ended
      <4>3. queue' = queue \/ \E report : queue' = Append(queue, report)
        BY <2>3 DEF Finishing
      <4> QED BY <2>3, <4>1, <4>2, <4>3
    <3> QED BY <3>2, <3>3, <3>4, RoundRoles
  <2> QED BY <1>3, <2>1, <2>2, <2>3
<1>t. \A t \in timers' : t \in timers \/ (t[2] = id /\ (t[1] = "protect" => net = 0 /\ NothingLives))
  <2>1. CASE UNCHANGED followVars \/ Noting(id) \/ Settling(id)
    <3>1. timers' \subseteq timers \cup {<<"settle", id>>}
      BY <2>1 DEF followVars, Noting, Settling
    <3>2. <<"settle", id>>[1] # "protect" /\ <<"settle", id>>[2] = id
      OBVIOUS
    <3> QED BY <3>1, <3>2
  <2>2. CASE Finishing(id) /\ orders[id].end = "" /\ orders'[id].end = "dead"
    <3>1. CASE Unexpected(orders[id])
      <4>1. orders[id].role \in Barriers /\ ~orders[id].cancel
        BY <3>1 DEF Unexpected
      <4>2. id \in {r + 1, r + 2}
        BY <4>1, RoundRoles
      <4>3. Cancelled(id)
        BY <2>2, <4>1
      <4>4. Closed(r) \/ Cancelled(r)
        BY <4>1, <4>2, <4>3 DEF Barred
      <4>5. net = 0 /\ NothingLives
        BY <4>4, Opened DEF Net, Over
      <4>6. timers' \subseteq timers \cup {<<"protect", id>>}
        BY <2>2 DEF Finishing
      <4>7. <<"protect", id>>[2] = id
        OBVIOUS
      <4> QED BY <4>5, <4>6, <4>7
    <3>2. CASE ~Unexpected(orders[id])
      BY <2>2, <3>2 DEF Finishing
    <3> QED BY <3>1, <3>2
  <2> QED BY <1>3, <2>1, <2>2
<1> QED BY <1>1, <1>k, <1>b, <1>e, <1>q, <1>t DEF Handled

\* The promise of a commission is kept, until it comes.
LEMMA PromiseKept ==
    ASSUME Always, NEW r \in Ids, Followed(r), ~Ended(r), OrderMessage, Promised(r)
    PROVE  /\ wire[1] \in {"commission", "execution"} \X {r}
           /\ ~Ended(r)' => Promised(r)'
<1>0. TypeOK /\ Heard /\ wire \in Seq(Messages)
  BY DEF Always, TypeOK, Messages
<1>1. /\ wire # <<>> /\ wire' = Tail(wire) /\ ~Position(1) /\ Following(wire[1][2])
  BY <1>0, MessagesFollow DEF Taking, Position
<1>2. /\ wire' \in Seq(Messages) /\ Len(wire') = Len(wire) - 1 /\ Len(wire) \in Nat \ {0}
      /\ \A i \in 1..(Len(wire) - 1) : wire'[i] = wire[i + 1]
  BY <1>0, <1>1, Popping
<1>3. PICK i \in 1..Len(wire) :
       /\ wire[i] = <<"commission", r>>
       /\ \A j \in 1..(i - 1) : Position(j) \/ wire[j] = <<"execution", r>>
       /\ orders[r].exec \/ \E j \in 1..(i - 1) : wire[j] = <<"execution", r>>
  BY DEF Promised
<1>4. wire[1] \in {"commission", "execution"} \X {r}
  <2>1. CASE i = 1
    BY <1>3, <2>1
  <2>2. CASE i # 1
    <3>1. 1 \in 1..(i - 1)
      BY <2>2
    <3>2. wire[1] = <<"execution", r>>
      BY <1>1, <1>3, <3>1
    <3> QED BY <3>2
  <2> QED BY <2>1, <2>2
<1>5. PICK kind \in {"commission", "execution"} : wire[1] = <<kind, r>>
  BY <1>4
<1>6. /\ kind = "execution" => orders'[r].exec
      /\ kind = "commission" /\ orders[r].exec => orders'[r].end = "filled"
  BY <1>0, <1>5, MessageSays
<1>7. orders[r].exec => orders'[r].exec
  <2>1. Following(r)
    BY <1>1, <1>5
  <2> QED BY <1>0, <2>1, FollowingMarks
<1>8. ASSUME ~Ended(r)' PROVE Promised(r)'
  <2>1. Followed(r)'
    <3>1. Following(r)
      BY <1>1, <1>5
    <3> QED BY <1>0, <3>1, FollowingKeepsOrders DEF KeepsOrders
  <2>2. i # 1
    <3> SUFFICES ASSUME i = 1 PROVE FALSE
      OBVIOUS
    <3>1. kind = "commission" /\ orders[r].exec
      BY <1>3, <1>5
    <3> QED BY <1>6, <1>8, <2>1, <3>1 DEF Ended
  <2>3. i - 1 \in 1..Len(wire') /\ wire'[i - 1] = <<"commission", r>>
    BY <1>2, <1>3, <2>2
  <2>4. \A j \in 1..(i - 2) : Position(j)' \/ wire'[j] = <<"execution", r>>
    <3>1. \A j \in 1..(i - 2) : j + 1 \in 1..(i - 1) /\ wire'[j] = wire[j + 1]
      BY <1>2, <2>2
    <3> QED BY <1>3, <3>1 DEF Position
  <2>5. orders'[r].exec
    <3>1. CASE orders[r].exec
      BY <1>7, <3>1
    <3>2. CASE ~orders[r].exec
      <4>1. kind = "execution" \/ kind = "commission"
        OBVIOUS
      <4>2. wire[1] = <<"execution", r>>
        BY <1>1, <1>2, <1>3, <2>2 DEF Position
      <4>3. kind = "execution"
        BY <1>5, <4>2
      <4> QED BY <1>6, <4>3
    <3> QED BY <3>1, <3>2
  <2> QED BY <1>2, <2>3, <2>4, <2>5 DEF Promised
<1> QED BY <1>4, <1>8

LEMMA MessageKept ==
    ASSUME Always, Sound, Sound', NEW r \in Ids, InRound(r), OrderMessage
    PROVE  InRound(r)'
<1> USE DEF InRound
<1>0. TypeOK /\ Heard /\ wire \in Seq(Messages)
  BY DEF Always, TypeOK, Messages
<1>1. /\ wire # <<>> /\ wire' = Tail(wire) /\ ~Position(1) /\ Following(wire[1][2])
      /\ UNCHANGED <<up, nextID, held, callVars, book, net, posDue>>
  BY <1>0, MessagesFollow DEF Taking, Position
<1>2. 1 \in 1..Len(wire) /\ wire[1] \in Messages /\ \A j \in 1..Len(wire) : ~(j < 1)
  BY <1>0, <1>1, Popping
<1>3. PICK kind, id : wire[1] = <<kind, id>>
  BY <1>2 DEF Messages
<1>4. /\ id \in Round(r) /\ Following(id)
      /\ id \in Ids /\ Followed(id) /\ r \in Ids /\ Followed(r)
  <2>1. wire[1][2] \in Round(r)
    BY <1>1, <1>2 DEF Recent
  <2> QED BY <1>1, <1>3, <2>1, RoundIds
<1>5. /\ orders'[id].exec => orders[id].exec \/ kind = "execution"
      /\ orders'[id].status => orders[id].status \/ kind = "filled"
      /\ orders[id].end # "dead" /\ orders'[id].end = "dead" =>
           kind \in {"cancelled", "refused"}
  BY <1>0, <1>3, <1>4, MessageSays
<1>6. orders'[id].end # "" => \/ Ended(id) \/ orders'[id].exec \/ orders'[id].status
                              \/ kind \in {"cancelled", "refused"}
  <2>1. \/ UNCHANGED followVars
        \/ orders'[id].end = orders[id].end
        \/ orders'[id].exec \/ orders'[id].status
        \/ orders[id].end = "" /\ orders'[id].end = "dead"
    BY <1>0, <1>4, FollowingMarks
  <2> QED BY <1>4, <1>5, <2>1 DEF Ended, followVars
<1>7. kind \in {"cancelled", "refused"} => Cancelled(id)
  BY <1>2, <1>3 DEF Sound, Truthful
<1>9. id # r /\ Executed(id) /\ (orders'[id].exec \/ orders'[id].status \/ orders'[id].end # "")
         => Over
  <2> SUFFICES ASSUME id # r, Executed(id),
                      orders'[id].exec \/ orders'[id].status \/ orders'[id].end # ""
               PROVE  Over
    OBVIOUS
  <2>1. ~Cancelled(id)
    BY DEF Executed, Cancelled
  <2>2. \/ orders[id].exec \/ orders[id].status \/ Ended(id)
        \/ kind \in {"execution", "filled"}
    BY <1>5, <1>6, <1>7, <2>1
  <2>3. CASE orders[id].exec \/ orders[id].status \/ Ended(id)
    BY <1>4, <2>3, NotedIsOver
  <2>4. CASE kind \in {"execution", "filled"}
    <3>0. <<kind, id>> \in {"execution", "filled"} \X {id}
      BY <2>4
    <3>1. wire[1] \in {"execution", "filled"} \X {id}
      BY <1>3, <3>0
    <3>2. \A j \in 1..Len(wire) : Position(j) => j < 1
      BY <1>2, <1>4, <3>1 DEF First
    <3>3. NoPosition
      BY <1>2, <3>2 DEF NoPosition
    <3>4. Closed(r)
      BY <1>4, Opened
    <3> QED BY <3>3, <3>4, ClosedIsOver
  <2> QED BY <2>2, <2>3, <2>4
<1>10. orders[id].end = "" /\ orders'[id].end = "dead" => Cancelled(id)
  BY <1>5, <1>7
<1>11. ~Terse /\ Executed(r) /\ ~Ended(r) => id = r /\ (~Ended(r)' => Promised(r)')
  <2> SUFFICES ASSUME ~Terse, Executed(r), ~Ended(r)
               PROVE  id = r /\ (~Ended(r)' => Promised(r)')
    OBVIOUS
  <2>1. Promised(r)
    BY DEF Strict
  <2>2. wire[1] \in {"commission", "execution"} \X {r} /\ (~Ended(r)' => Promised(r)')
    BY <1>4, <2>1, PromiseKept
  <2> QED BY <1>3, <2>2
<1>12. Ended(r) => Ended(r)'
  BY <1>0, <1>4, FollowingKeepsOrders DEF KeepsOrders, Ended
<1>13. Handled(r, id)
  BY <1>1, <1>4, <1>9, <1>10, <1>11, <1>12, FollowingHandled DEF Shorter
<1> QED BY <1>4, <1>13, HandledKept

\* The position that comes is the entry's, then none.
LEMMA PositionKept ==
    ASSUME Always, Sound, NEW r \in Ids, InRound(r), OnPosition
    PROVE  InRound(r)'
<1> USE DEF InRound
<1>0. TypeOK /\ wire \in Seq(Messages)
  BY DEF Always, TypeOK, Messages
<1>1. /\ wire # <<>> /\ wire' = Tail(wire) /\ wire[1][1] = "position" /\ held' = wire[1][2]
      /\ UNCHANGED <<up, nextID, callVars, book, net, posDue, followVars>>
  <2>1. Head(wire) = wire[1]
    BY <1>0, Popping DEF OnPosition, Incoming
  <2> QED BY <2>1 DEF OnPosition, Incoming, About
<1>2. /\ wire' \in Seq(Messages) /\ Len(wire') = Len(wire) - 1 /\ Len(wire) \in Nat \ {0}
      /\ \A i \in 1..Len(wire') : i + 1 \in 1..Len(wire) /\ wire'[i] = wire[i + 1]
      /\ \A i \in 2..Len(wire) : i - 1 \in 1..Len(wire') /\ wire'[i - 1] = wire[i]
  <2>1. /\ wire' \in Seq(Messages) /\ Len(wire') = Len(wire) - 1 /\ Len(wire) \in Nat \ {0}
        /\ \A i \in 1..(Len(wire) - 1) : wire'[i] = wire[i + 1]
    BY <1>0, <1>1, Popping
  <2> PICK n : n = Len(wire)
    OBVIOUS
  <2>2. n \in Nat \ {0} /\ Len(wire') = n - 1
    BY <2>1
  <2>3. \A i \in 1..(n - 1) : i + 1 \in 1..n /\ wire'[i] = wire[i + 1]
    <3>1. \A i \in 1..(n - 1) : i + 1 \in 1..n
      BY <2>2
    <3> QED BY <2>1, <3>1
  <2>4. \A i \in 2..n : i - 1 \in 1..(n - 1) /\ (i - 1) + 1 = i
    BY <2>2
  <2>5. \A i \in 2..n : wire'[i - 1] = wire[i]
    BY <2>3, <2>4
  <2> QED BY <2>1, <2>2, <2>3, <2>4, <2>5
<1>3. /\ nextID \in Int /\ r \in Int /\ r + 2 < nextID /\ {r, r + 1, r + 2} \subseteq Round(r)
      /\ \A o \in Round(r) : o \in Int /\ o \in Ids /\ Followed(o)
      /\ \A o \in Ids : Lives(o) => o \in Round(r)
      /\ Side(r) \in {1, -1}
  BY RoundIds
<1>4. /\ UNCHANGED <<up, nextID, call, inFlight, book, net, posDue, orders, bracket, timers, queue>>
      /\ Round(r)' = Round(r) /\ Bracketing' = Bracketing /\ Side(r)' = Side(r)
      /\ Cancelling' = Cancelling /\ Exiting' = Exiting /\ Closing' = Closing
      /\ \A o \in Ids : /\ Executed(o)' = Executed(o) /\ Cancelled(o)' = Cancelled(o)
                        /\ Knows(o)' = Knows(o) /\ Lives(o)' = Lives(o)
                        /\ Followed(o)' = Followed(o) /\ Ended(o)' = Ended(o)
  BY <1>1 DEF callVars, followVars, Round, Bracketing, Executed, Cancelled, Knows, Lives, Side,
              Cancelling, Exiting, Closing, Followed, Ended
<1>5. Closed(r)' = Closed(r) /\ NothingLives' = NothingLives
  BY <1>3, <1>4 DEF Closed, NothingLives
<1>6. ~Bracketing /\ ~Lives(r)
  BY <1>1 DEF Opening
<1>7. ~NoPosition /\ ~Over
  BY <1>1, <1>2 DEF NoPosition, Position, Over
<1>8. /\ held' \in {0, Side(r)} /\ wire[1] = <<"position", held'>> /\ Says(<<"position", held'>>)
  <2>1. wire[1] \in Messages /\ 1 \in 1..Len(wire)
    BY <1>0, <1>1, <1>2
  <2>2. wire[1] = <<"position", held'>>
    BY <1>1, <2>1 DEF Messages
  <2> QED BY <1>1, <2>1, <2>2 DEF Positions, Position, Says
<1>9. /\ \A n : Says(<<"position", n>>)' => Says(<<"position", n>>)
      /\ \A n : Says(<<"position", n>>) => n = held' \/ Says(<<"position", n>>)'
  <2>1. \A n : Says(<<"position", n>>)' => Says(<<"position", n>>)
    BY <1>2 DEF Says
  <2>2. ASSUME NEW n, NEW i \in 1..Len(wire), wire[i] = <<"position", n>>
        PROVE  n = held' \/ Says(<<"position", n>>)'
    <3>1. CASE i = 1
      BY <1>8, <2>2, <3>1
    <3>2. CASE i # 1
      <4>1. i \in 2..Len(wire)
        BY <1>2, <3>2
      <4> QED BY <1>2, <2>2, <4>1 DEF Says
    <3> QED BY <3>1, <3>2
  <2> QED BY <2>1, <2>2 DEF Says
<1>10. /\ ~Says(<<"position", Side(r)>>)'
       /\ held' = 0 => NoPosition'
  <2>1. ASSUME NEW i \in 1..Len(wire'), Position(i)'
        PROVE  held' = Side(r) /\ wire'[i][2] = 0
    <3>1. /\ 1 \in 1..Len(wire) /\ i + 1 \in 1..Len(wire) /\ 1 < i + 1
          /\ wire'[i] = wire[i + 1]
      BY <1>2
    <3>2. Position(1) /\ Position(i + 1)
      BY <1>1, <2>1, <3>1 DEF Position
    <3> QED BY <1>1, <3>1, <3>2 DEF Positions
  <2>2. ~Says(<<"position", Side(r)>>)'
    <3> SUFFICES ASSUME NEW i \in 1..Len(wire'), wire'[i] = <<"position", Side(r)'>> PROVE FALSE
      BY DEF Says
    <3>1. Position(i)' /\ wire'[i][2] = Side(r)
      BY <1>4 DEF Position
    <3> QED BY <1>3, <2>1, <3>1
  <2> QED BY <1>3, <2>1, <2>2 DEF NoPosition
<1>g. Ground(r)'
  BY <1>3, <1>4 DEF Ground, RoleOf
<1>r. Recent(r)'
  BY <1>2, <1>4 DEF Recent, Position
<1>n. Net(r)'
  BY <1>3, <1>4, <1>5 DEF Net
<1>o. Opening(r)'
  BY <1>3, <1>4, <1>6 DEF Opening
<1>b. Bracketed(r)'
  BY <1>3, <1>4, <1>7 DEF Bracketed
<1>c. Barred(r)'
  BY <1>3, <1>4, <1>5 DEF Barred
<1>p. Positions(r)'
  <2>1. \A i \in 1..Len(wire') : Position(i)' => wire'[i][2] \in {0, Side(r)}
    BY <1>2 DEF Positions, Position
  <2>2. ASSUME NEW i \in 1..Len(wire'), NEW j \in 1..Len(wire'), Position(i)', Position(j)', i < j
        PROVE  wire'[i][2] = Side(r) /\ wire'[j][2] = 0
    <3>1. /\ i + 1 \in 1..Len(wire) /\ j + 1 \in 1..Len(wire) /\ i + 1 < j + 1
          /\ wire'[i] = wire[i + 1] /\ wire'[j] = wire[j + 1]
      BY <1>2, <2>2
    <3>2. Position(i + 1) /\ Position(j + 1)
      BY <2>2, <3>1 DEF Position
    <3>3. wire[i + 1][2] = Side(r) /\ wire[j + 1][2] = 0
      BY <3>1, <3>2 DEF Positions
    <3> QED BY <3>1, <3>3
  <2>3. /\ held' # 0 => Executed(r) /\ ~Says(<<"position", Side(r)>>)'
        /\ Says(<<"position", Side(r)>>)' => Executed(r)
        /\ Says(<<"position", 0>>)' => Closed(r)
    BY <1>3, <1>8, <1>9, <1>10 DEF Positions
  <2>4. Closed(r) /\ (held' # 0 \/ Says(<<"position", Side(r)>>)') => Says(<<"position", 0>>)'
    BY <1>3, <1>8, <1>9, <1>10 DEF Positions
  <2>5. Executed(r) /\ ~Closed(r) /\ held' = 0 => Says(<<"position", Side(r)>>)'
    BY <1>3, <1>8, <1>9, <1>10 DEF Positions
  <2> QED BY <1>3, <1>4, <1>5, <1>8, <2>1, <2>2, <2>3, <2>4, <2>5 DEF Positions
<1>f. First(r)'
  <2>1. ASSUME NEW o \in Round(r), o # r, Executed(o)
        PROVE  /\ \A i, j \in 1..Len(wire') :
                    wire'[i] \in {"execution", "filled"} \X {o} /\ Position(j)' => j < i
               /\ ~(orders[o].exec \/ orders[o].status \/ Ended(o))
    <3>1. ASSUME NEW i \in 1..Len(wire'), NEW j \in 1..Len(wire'),
                 wire'[i] \in {"execution", "filled"} \X {o}, Position(j)'
          PROVE  j < i
      <4>1. wire[i + 1] \in {"execution", "filled"} \X {o} /\ Position(j + 1)
        BY <1>2, <3>1 DEF Position
      <4>2. i + 1 \in 1..Len(wire) /\ j + 1 \in 1..Len(wire)
        BY <1>2
      <4>3. j + 1 < i + 1
        BY <2>1, <4>1, <4>2 DEF First
      <4> QED BY <4>3
    <3> QED BY <1>7, <2>1, <3>1 DEF First
  <2> QED BY <1>3, <1>4, <2>1 DEF First
<1>t. InTurn(r)'
  <2>1. /\ queue # <<>> => inFlight
        /\ ~(Len(queue) >= 2)
        /\ call # None => ~inFlight
        /\ ~Ended(r) => inFlight /\ queue = <<>> /\ call = None
    BY <1>6, <1>7 DEF InTurn
  <2> QED BY <1>3, <1>4, <1>5, <2>1 DEF InTurn
<1>l. Leaving(r)'
  <2>1. ~Starting /\ ~Starting'
    BY <1>1, <1>4, StartingIsIdle DEF Starting
  <2> QED BY <1>3, <1>4, <1>7, <1>9, <2>1 DEF Leaving
<1>s. Strict(r)'
  <2>1. ~Terse => \A o \in Ids : o < r /\ Followed(o)' /\ orders'[o].role \notin Barriers => Ended(o)'
    BY <1>4 DEF Strict
  <2>2. ASSUME Promised(r)
        PROVE  Promised(r)'
    <3>1. PICK i \in 1..Len(wire) :
           /\ wire[i] = <<"commission", r>>
           /\ \A j \in 1..(i - 1) : Position(j) \/ wire[j] = <<"execution", r>>
           /\ orders[r].exec \/ \E j \in 1..(i - 1) : wire[j] = <<"execution", r>>
      BY <2>2 DEF Promised
    <3>2. i \in 2..Len(wire)
      BY <1>1, <1>2, <3>1
    <3>3. i - 1 \in 1..Len(wire') /\ wire'[i - 1] = <<"commission", r>>
      BY <1>2, <3>1, <3>2
    <3>4. ASSUME NEW j \in 1..(i - 2)
          PROVE  j + 1 \in 1..(i - 1) /\ wire'[j] = wire[j + 1]
      <4>1. Len(wire) \in Nat
        BY <1>2
      <4>2. j \in 1..(Len(wire) - 1) /\ j + 1 \in 1..(i - 1)
        BY <3>2, <4>1
      <4> QED BY <1>2, <4>2
    <3>5. \A j \in 1..((i - 1) - 1) : Position(j)' \/ wire'[j] = <<"execution", r>>
      BY <3>1, <3>4 DEF Position
    <3>6. orders'[r].exec \/ \E j \in 1..((i - 1) - 1) : wire'[j] = <<"execution", r>>
      <4>1. ASSUME NEW j \in 1..(i - 1), wire[j] = <<"execution", r>>
            PROVE  j - 1 \in 1..((i - 1) - 1) /\ wire'[j - 1] = <<"execution", r>>
        <5>1. j # 1
          BY <1>1, <4>1
        <5>2. j \in 2..Len(wire) /\ j - 1 \in 1..((i - 1) - 1)
          BY <1>2, <3>2, <5>1
        <5> QED BY <1>2, <4>1, <5>2
      <4> QED BY <1>4, <3>1, <4>1
    <3> QED BY <3>3, <3>5, <3>6 DEF Promised
  <2> QED BY <1>3, <1>4, <2>1, <2>2 DEF Strict
<1>h. Shielded(r)'
  BY <1>3, <1>4, <1>5 DEF Shielded
<1> QED BY <1>g, <1>r, <1>n, <1>o, <1>b, <1>c, <1>p, <1>f, <1>t, <1>l, <1>s, <1>h

\* A timer finds the socket empty.
LEMMA NothingPromised ==
    ASSUME TypeOK, wire = <<>>, NEW r
    PROVE  ~Promised(r) /\ NoPosition
  BY DEF Promised, NoPosition

LEMMA SettleTimerKept ==
    ASSUME Always, Sound, Sound', NEW r \in Ids, InRound(r), NEW id \in Ids, SettleTimer(id)
    PROVE  InRound(r)'
<1>0. TypeOK /\ Heard
  BY DEF Always
<1>1. /\ <<"settle", id>> \in timers /\ wire = <<>>
      /\ TrySettle(id, orders[id], bracket, TRUE)
      /\ UNCHANGED <<up, nextID, held, callVars, book, net, posDue, wire>>
  BY DEF SettleTimer, Elapsed, twsVars
<1>2. id \in Round(r) /\ r \in Round(r) /\ Followed(id) /\ orders[id] \in Tracks
  <2>1. <<"settle", id>>[2] \in Round(r)
    BY <1>1 DEF InRound, Recent
  <2> QED BY <2>1, RoundIds DEF InRound
<1>3. Flags(id, orders[id])
  BY <1>2 DEF Flags
<1>4. Noting(id) \/ Settling(id)
  BY <1>0, <1>1, <1>2, <1>3, TrySettles
<1>5. Following(id)
  BY <1>2, <1>4 DEF Following
<1>6. /\ orders'[id].exec = orders[id].exec /\ orders'[id].status = orders[id].status
      /\ orders'[id].end # "" => orders[id].end # "" \/ orders[id].exec \/ orders[id].status
      /\ orders[id].end = "" => orders'[id].end # "dead"
  <2>1. orders \in [Ids -> Tracks \cup {None}]
    BY <1>0 DEF TypeOK
  <2>2. \/ /\ orders' = [orders EXCEPT ![id] = [orders[id] EXCEPT !.end = "filled"]]
           /\ orders[id].exec \/ orders[id].status
        \/ orders' = [orders EXCEPT ![id] = orders[id]]
    BY <1>1 DEF TrySettle, Settle
  <2> QED BY <1>2, <2>1, <2>2 DEF Tracks
<1>7. ~Promised(r) /\ ~(~Terse /\ Executed(r) /\ ~Ended(r))
  BY <1>0, <1>1, NothingPromised DEF InRound, Strict
<1>8. Ended(r) => Ended(r)'
  BY <1>0, <1>5, FollowingKeepsOrders DEF KeepsOrders, Ended
<1>9. id # r /\ Executed(id) /\ (orders'[id].exec \/ orders'[id].status \/ orders'[id].end # "")
         => Over
  BY <1>2, <1>6, NotedIsOver DEF Ended
<1>10. Handled(r, id)
  BY <1>1, <1>2, <1>5, <1>6, <1>7, <1>8, <1>9, FollowingHandled DEF Shorter
<1> QED BY <1>2, <1>10, HandledKept

\* The barrier that is checked for went with its position.
LEMMA ProtectionIsIdle ==
    ASSUME Always, Sound, NEW r \in Ids, InRound(r), NEW id \in Ids, CheckProtection(id)
    PROVE  /\ id \in Round(r) /\ wire = <<>> /\ <<"protect", id>> \in timers
           /\ timers' = timers \ {<<"protect", id>>}
           /\ UNCHANGED <<up, nextID, held, queue, callVars, net, posDue, orders, bracket, book, wire>>
<1>1. <<"protect", id>> \in timers /\ wire = <<>>
  BY DEF CheckProtection, Elapsed
<1>2. <<"protect", id>>[1] = "protect" /\ <<"protect", id>>[2] = id
  OBVIOUS
<1>3. id \in Round(r) /\ net = 0 /\ NothingLives
  BY <1>1, <1>2 DEF InRound, Recent, InTurn
<1>4. held = 0
  <2>1. NoPosition
    BY <1>1, NothingPromised DEF Always
  <2>2. CASE Closed(r)
    BY <2>1, <2>2, ClosedIsOver DEF Over
  <2>3. CASE ~Closed(r)
    <3>1. Side(r) # 0
      BY RoundIds DEF InRound
    <3>2. ~Executed(r)
      BY <1>3, <2>3, <3>1 DEF InRound, Net
    <3> QED BY <3>2 DEF InRound, Positions
  <2> QED BY <2>2, <2>3
<1> QED BY <1>1, <1>3, <1>4 DEF CheckProtection

LEMMA CheckProtectionKept ==
    ASSUME Always, Sound, NEW r \in Ids, InRound(r), NEW id \in Ids, CheckProtection(id)
    PROVE  InRound(r)'
<1>1. /\ id \in Round(r) /\ wire = <<>> /\ <<"protect", id>> \in timers
      /\ timers' = timers \ {<<"protect", id>>}
      /\ UNCHANGED <<up, nextID, held, queue, callVars, net, posDue, orders, bracket, book, wire>>
  BY ProtectionIsIdle
<1>2. KeepsOrders(id)
  BY <1>1 DEF KeepsOrders, Followed
<1>3. id # r /\ Executed(id) /\ (orders[id].exec \/ orders[id].status \/ orders[id].end # "")
         => held = 0 /\ NoPosition
  <2>1. Followed(id)
    BY <1>1, RoundIds DEF InRound
  <2> QED BY <1>1, <2>1, NotedIsOver DEF Ended, Over
<1>4. NoPosition => NoPosition'
  BY <1>1 DEF NoPosition, Position
<1>5. Ended(r)' => orders'[r].end = "filled" \/ bracket' = None
  BY <1>1 DEF Ended, Followed, InRound, Bracketed
<1>6. ~(~Terse /\ Executed(r) /\ ~Ended(r))
  BY <1>1, NothingPromised DEF InRound, Strict, Always
<1>7. ~(~Terse /\ Executed(r) /\ ~Ended(r)')
  BY <1>1, <1>6 DEF Ended, Followed
<1>8. Handled(r, id)
  BY <1>1, <1>2, <1>3, <1>4, <1>5, <1>7 DEF Handled, Shorter
<1> QED BY <1>1, <1>8, HandledKept

-----------------------------------------------------------------------------
(* PlaceOrder and the reports *)

\* What neither TWS nor the orders followed have a part in.
LEMMA Framed ==
    ASSUME Always, Sound, NEW r \in Ids, InRound(r),
           UNCHANGED <<nextID, posDue, orders, book, net, wire, held, timers>>
    PROVE  /\ Ground(r)' /\ Recent(r)' /\ Net(r)' /\ Barred(r)' /\ Positions(r)' /\ First(r)'
           /\ Strict(r)'
           /\ Over' = Over /\ Closed(r)' = Closed(r) /\ Round(r)' = Round(r) /\ Side(r)' = Side(r)
           /\ NothingLives' = NothingLives
           /\ \A o : /\ Lives(o)' = Lives(o) /\ Ended(o)' = Ended(o)
                     /\ Executed(o)' = Executed(o) /\ Knows(o)' = Knows(o)
<1> USE DEF InRound
<1>1. /\ Over' = Over /\ Closed(r)' = Closed(r) /\ Round(r)' = Round(r) /\ Side(r)' = Side(r)
      /\ NothingLives' = NothingLives
  BY DEF Over, NoPosition, Position, NothingLives, Lives, Knows, Closed, Round, Executed, Side
<1>2. \A o : /\ Lives(o)' = Lives(o) /\ Ended(o)' = Ended(o) /\ Followed(o)' = Followed(o)
             /\ Executed(o)' = Executed(o) /\ Cancelled(o)' = Cancelled(o) /\ Knows(o)' = Knows(o)
  BY DEF Lives, Knows, Ended, Followed, Executed, Cancelled
<1>3. /\ \A i : Position(i)' = Position(i)
      /\ NoPosition' = NoPosition /\ Promised(r)' = Promised(r)
      /\ \A x : Says(x)' = Says(x)
  BY DEF Position, NoPosition, Promised, Says
<1>g. Ground(r)'
  BY <1>1, <1>2 DEF Ground, RoleOf
<1>r. Recent(r)'
  BY <1>1, <1>3 DEF Recent
<1>n. Net(r)'
  BY <1>1, <1>2 DEF Net
<1>c. Barred(r)'
  BY <1>1, <1>2 DEF Barred
<1>p. Positions(r)'
  BY <1>1, <1>2, <1>3 DEF Positions
<1>f. First(r)'
  BY <1>1, <1>2, <1>3 DEF First
<1>s. Strict(r)'
  BY <1>1, <1>2, <1>3 DEF Strict
<1> QED BY <1>1, <1>2, <1>g, <1>r, <1>n, <1>c, <1>p, <1>f, <1>s

LEMMA DeliverKept ==
    ASSUME Always, Sound, NEW r \in Ids, InRound(r), Deliver
    PROVE  InRound(r)'
<1> USE DEF InRound
<1>1. /\ call = None /\ queue # <<>> /\ queue' = Tail(queue) /\ inFlight' = FALSE
      /\ UNCHANGED <<nextID, posDue, orders, book, net, wire, held, timers, bracket, call>>
  BY DEF Deliver, twsVars
<1>2. /\ Ground(r)' /\ Recent(r)' /\ Net(r)' /\ Barred(r)' /\ Positions(r)' /\ First(r)'
      /\ Strict(r)'
      /\ Over' = Over /\ Closed(r)' = Closed(r) /\ Round(r)' = Round(r) /\ Side(r)' = Side(r)
      /\ NothingLives' = NothingLives
      /\ \A o : /\ Lives(o)' = Lives(o) /\ Ended(o)' = Ended(o)
                /\ Executed(o)' = Executed(o) /\ Knows(o)' = Knows(o)
  BY <1>1, Framed
<1>3. ~Bracketing /\ ~Bracketing' /\ ~Lives(r)
  BY <1>1 DEF Opening, Bracketing
<1>4. queue \in Seq(Reports) /\ Len(queue') = Len(queue) - 1 /\ Len(queue) \in Nat
      /\ (queue' # <<>> => Len(queue') >= 1)
  <2>1. queue \in Seq(Reports)
    BY DEF Always, TypeOK, Reports
  <2>2. queue' \in Seq(Reports) /\ Len(queue') = Len(queue) - 1 /\ Len(queue) \in Nat \ {0}
    BY <1>1, <2>1, Popping
  <2> QED BY <2>1, <2>2
<1>o. Opening(r)'
  BY <1>2, <1>3 DEF Opening
<1>b. Bracketed(r)'
  BY <1>1, <1>2 DEF Bracketed
<1>t. InTurn(r)'
  <2>1. (queue' # <<>> => Over) /\ (Len(queue') >= 2 => Over)
    BY <1>4 DEF InTurn
  <2>2. ~Ended(r) => Terse /\ Over
    BY <1>1, <1>3 DEF InTurn
  <2>3. \A o \in Round(r) : ~(o > r + 2 /\ ~Ended(o))
    BY <1>1 DEF InTurn
  <2>4. \A t \in timers : t[1] = "protect" => net = 0 /\ NothingLives
    BY DEF InTurn
  <2> QED BY <1>1, <1>2, <2>1, <2>2, <2>3, <2>4 DEF InTurn
<1>l. Leaving(r)'
  BY <1>1 DEF Leaving, Cancelling, Exiting, Closing, Starting
<1>h. Shielded(r)'
  BY <1>1, <1>2 DEF Shielded
<1> QED BY <1>2, <1>o, <1>b, <1>t, <1>l, <1>h

\* The cancellations have been answered.
LEMMA AllEnded ==
    ASSUME Always, Sound, NEW r \in Ids, InRound(r), Cancelling, \A id \in call.waits : Ended(id)
    PROVE  /\ \A id \in Round(r) : Ended(id) \/ (Over /\ id \in {r + 1, r + 2})
           /\ Executed(r) /\ Ended(r) /\ ~Lives(r) /\ ~inFlight
           /\ queue # <<>> => Over
           /\ held = 0 => Closed(r)
           /\ held # 0 => ~Closed(r) /\ net = Side(r) /\ \A id \in Round(r) : Ended(id)
<1> USE DEF InRound
<1>1. Executed(r) /\ Ended(r) /\ ~Says(<<"position", Side(r)>>)
  BY DEF Leaving
<1>2. ~inFlight /\ (queue # <<>> => Over)
  BY DEF InTurn, Cancelling
<1>3. \A id \in Round(r) : Ended(id) \/ (Over /\ id \in {r + 1, r + 2})
  <2> SUFFICES ASSUME NEW id \in Round(r) PROVE Ended(id) \/ (Over /\ id \in {r + 1, r + 2})
    OBVIOUS
  <2>1. CASE id \in {r + 1, r + 2}
    BY <2>1 DEF Leaving
  <2>2. CASE id = r \/ id > r + 2
    BY <1>1, <1>2, <2>2 DEF InTurn
  <2> QED BY <2>1, <2>2, RoundRoles
<1>4. held = 0 => Closed(r)
  BY <1>1 DEF Positions
<1>5. ASSUME held # 0 PROVE ~Closed(r) /\ \A id \in Round(r) : Ended(id)
  <2>1. \A id \in Round(r) : Ended(id)
    BY <1>3, <1>5 DEF Over
  <2>2. \A id \in Round(r) : id # r => ~Executed(id)
    BY <1>5, <2>1, NotedIsOver DEF Over
  <2> QED BY <2>1, <2>2 DEF Closed
<1>6. ~Lives(r)
  BY <1>1 DEF Lives, Executed, Alive, Waiting
<1> QED BY <1>1, <1>2, <1>3, <1>4, <1>5, <1>6 DEF Net

LEMMA CancelsDoneKept ==
    ASSUME Always, Sound, NEW r \in Ids, InRound(r), CancelsDone
    PROVE  InRound(r)'
<1> USE DEF InRound
<1>1. /\ Cancelling /\ call.stage = "wait" /\ \A id \in call.waits : Ended(id)
      /\ UNCHANGED <<nextID, posDue, orders, book, net, wire, held, timers, queue>>
  BY DEF CancelsDone, twsVars, Cancelling
<1>2. /\ Ground(r)' /\ Recent(r)' /\ Net(r)' /\ Barred(r)' /\ Positions(r)' /\ First(r)'
      /\ Strict(r)'
      /\ Over' = Over /\ Closed(r)' = Closed(r) /\ Round(r)' = Round(r) /\ Side(r)' = Side(r)
      /\ NothingLives' = NothingLives
      /\ \A o : /\ Lives(o)' = Lives(o) /\ Ended(o)' = Ended(o)
                /\ Executed(o)' = Executed(o) /\ Knows(o)' = Knows(o)
  BY <1>1, Framed
<1>3. /\ \A id \in Round(r) : Ended(id) \/ (Over /\ id \in {r + 1, r + 2})
      /\ Executed(r) /\ Ended(r) /\ ~Lives(r) /\ ~inFlight
      /\ queue # <<>> => Over
      /\ held = 0 => Closed(r)
      /\ held # 0 => ~Closed(r) /\ net = Side(r) /\ \A id \in Round(r) : Ended(id)
  BY <1>1, AllEnded
<1>4. {r, r + 1, r + 2} \subseteq Round(r) /\ Round(r) \subseteq Ids /\ call.waits \subseteq {r + 1, r + 2}
  BY <1>1, RoundIds DEF Leaving
<1>5. (\E id \in call.waits : orders[id].end = "filled") => Closed(r)
  <2> SUFFICES ASSUME NEW id \in call.waits, orders[id].end = "filled" PROVE Closed(r)
    OBVIOUS
  <2>1. id \in Round(r) /\ id \in Ids /\ Followed(id) /\ id # r
    BY <1>4, RoundIds
  <2>2. Executed(id)
    BY <2>1 DEF Sound, Noted
  <2> QED BY <2>1, <2>2 DEF Closed
<1>6. \/ /\ call' = None /\ bracket' = bracket /\ Closed(r)
      \/ /\ call' = None /\ bracket' = None /\ inFlight' = FALSE /\ Closed(r)
      \/ /\ call' = [call EXCEPT !.stage = "exit"] /\ bracket' = bracket /\ inFlight' = inFlight
         /\ held # 0
  BY <1>3, <1>5 DEF CancelsDone, CallReturns
<1>7. call \in [stage : {"cancel", "wait", "exit"}, side : {1, -1}, qty : Nat, waits : SUBSET Ids]
  BY <1>1 DEF Always, TypeOK, Calls, Cancelling
<1>8. [call EXCEPT !.stage = "exit"] \in Calls
  BY <1>7 DEF Calls
<1>9. ~Bracketing'
  BY <1>6, <1>7 DEF Bracketing
<1>o. Opening(r)'
  BY <1>2, <1>3, <1>9 DEF Opening
<1>b. Bracketed(r)'
  <2>1. bracket' = bracket \/ bracket' = None
    BY <1>6
  <2>2. Over \/ (Ended(r + 1) /\ Ended(r + 2))
    BY <1>3, <1>4
  <2> QED BY <1>1, <1>2, <2>1, <2>2 DEF Bracketed
<1>t. InTurn(r)'
  <2>1. (queue' # <<>> => Over) /\ (Len(queue') >= 2 => Over)
    BY <1>1, <1>3 DEF InTurn
  <2>2. call' # None => ~inFlight'
    BY <1>3, <1>6
  <2>3. \A t \in timers : t[1] = "protect" => net = 0 /\ NothingLives
    BY DEF InTurn
  <2>4. Ended(r)' /\ \A o \in Round(r) : o > r + 2 => Ended(o)'
    BY <1>2, <1>3, RoundRoles
  <2> QED BY <1>1, <1>2, <1>4, <2>1, <2>2, <2>3, <2>4 DEF InTurn
<1>l. Leaving(r)'
  <2>1. ~Cancelling' /\ ~Closing' /\ ~Starting'
    BY <1>6, <1>7 DEF Cancelling, Closing, Starting
  <2>2. ASSUME Exiting'
        PROVE  /\ call'.side = -Side(r) /\ call'.qty = 1 /\ net = Side(r)
               /\ \A id \in Round(r) : Ended(id)
    <3>1. call' = [call EXCEPT !.stage = "exit"] /\ held # 0
      BY <1>6, <2>2 DEF Exiting
    <3>2. call.side = -Side(r) /\ call.qty = 1
      BY <1>1 DEF Leaving
    <3> QED BY <1>3, <1>7, <3>1, <3>2
  <2> QED BY <1>1, <1>2, <1>3, <2>1, <2>2 DEF Leaving
<1>h. Shielded(r)'
  <2>1. call' # None \/ Closed(r)
    BY <1>6, <1>8, IBAssumption
  <2> QED BY <1>2, <2>1 DEF Shielded
<1> QED BY <1>2, <1>o, <1>b, <1>t, <1>l, <1>h

\* A step of PlaceOrder that places nothing yet.
LEMMA CallMoves ==
    ASSUME Always, Sound, NEW r \in Ids, InRound(r), ~inFlight, ~inFlight', ~Bracketing, ~Bracketing',
           UNCHANGED <<nextID, posDue, orders, book, net, wire, held, timers, queue, bracket>>,
           Leaving(r)', call' # None \/ Closed(r) \/ Silent
    PROVE  InRound(r)'
<1> USE DEF InRound
<1>1. /\ Ground(r)' /\ Recent(r)' /\ Net(r)' /\ Barred(r)' /\ Positions(r)' /\ First(r)'
      /\ Strict(r)'
      /\ Over' = Over /\ Closed(r)' = Closed(r) /\ Round(r)' = Round(r) /\ Side(r)' = Side(r)
      /\ NothingLives' = NothingLives
      /\ \A o : /\ Lives(o)' = Lives(o) /\ Ended(o)' = Ended(o)
                /\ Executed(o)' = Executed(o) /\ Knows(o)' = Knows(o)
  BY Framed
<1>2. ~Lives(r)
  BY DEF Opening
<1>o. Opening(r)'
  BY <1>1, <1>2 DEF Opening
<1>b. Bracketed(r)'
  BY <1>1 DEF Bracketed
<1>t. InTurn(r)'
  <2>1. (queue # <<>> => Over) /\ (Len(queue) >= 2 => Over)
    BY DEF InTurn
  <2>2. \A o \in Round(r) : ~(o > r + 2 /\ ~Ended(o))
    BY DEF InTurn
  <2>3. \A t \in timers : t[1] = "protect" => net = 0 /\ NothingLives
    BY DEF InTurn
  <2>4. ~Ended(r) => Terse /\ Over
    BY DEF InTurn
  <2> QED BY <1>1, <2>1, <2>2, <2>3, <2>4 DEF InTurn
<1>h. Shielded(r)'
  BY <1>1 DEF Shielded
<1> QED BY <1>1, <1>o, <1>b, <1>t, <1>h

\* TWS answers each cancellation in a round, so that only its silence lasts.
LEMMA CancelTimeoutKept ==
    ASSUME Always, Sound, NEW r \in Ids, InRound(r), CancelTimeout
    PROVE  InRound(r)'
<1> USE DEF InRound
<1>1. /\ Cancelling /\ call' = None /\ inFlight' = FALSE /\ wire = <<>>
      /\ UNCHANGED <<nextID, posDue, orders, book, net, wire, held, timers, queue, bracket>>
  BY DEF CancelTimeout, CallReturns, twsVars, followVars, Cancelling, Elapsed
<1>2. ~inFlight /\ ~Bracketing /\ ~Bracketing'
  BY <1>1 DEF InTurn, Cancelling, Bracketing
<1>3. Silent
  <2> SUFFICES ASSUME ~Silent PROVE FALSE
    OBVIOUS
  <2>1. NothingToCome
    BY DEF CancelTimeout, Sound, Followers
  <2>2. PICK id \in call.waits : ~Ended(id)
    BY DEF CancelTimeout
  <2>3. id \in Ids /\ Followed(id)
    <3>1. id \in {r + 1, r + 2} /\ {r, r + 1, r + 2} \subseteq Round(r)
      BY <1>1, RoundIds DEF Leaving
    <3> QED BY <3>1, RoundIds
  <2>4. ~Lives(id) /\ <<"settle", id>> \notin timers
    BY <2>1, <2>2 DEF NothingToCome
  <2>5. Knows(id)
    <3>1. id < nextID
      BY <2>3, Unused DEF Always, TypeOK, Ids
    <3> QED BY <1>2, <2>3, <3>1 DEF Sound, Followers, Ahead
  <2>6. Executed(id) \/ Cancelled(id)
    <3>1. book[id] \in Books
      BY <2>3, <2>5, KnownIsSent DEF Always
    <3> QED BY <2>4, <2>5, <3>1 DEF Books, Lives, Executed, Cancelled
  <2>7. \A m : ~Says(m)
    BY <1>1 DEF Says
  <2>8. Answered(id)
    BY <2>3 DEF Sound, Owed
  <2> QED BY <2>2, <2>4, <2>6, <2>7, <2>8 DEF Answered
<1>4. Leaving(r)'
  BY <1>1 DEF Leaving, Cancelling, Exiting, Closing, Starting
<1> QED BY <1>1, <1>2, <1>3, <1>4, CallMoves

-----------------------------------------------------------------------------
(* TWS answers *)

LEMMA Longer ==
    ASSUME TypeOK, NEW m \in Seq(Messages), wire' = wire \o m
    PROVE  /\ wire' \in Seq(Messages)
           /\ \A i \in 1..Len(wire) : i \in 1..Len(wire') /\ wire'[i] = wire[i]
           /\ \A i \in 1..Len(wire') :
                \/ i \in 1..Len(wire) /\ wire'[i] = wire[i]
                \/ /\ i - Len(wire) \in 1..Len(m) /\ wire'[i] = m[i - Len(wire)]
                   /\ \A j \in 1..Len(wire) : j < i
           /\ \A i, j \in 1..Len(wire') : i < j /\ j \in 1..Len(wire) => i \in 1..Len(wire)
           /\ \A x : Says(x)' <=> Says(x) \/ Has(m, x)
<1>0. wire \in Seq(Messages)
  BY DEF TypeOK, Messages
<1>1. /\ wire \o m \in Seq(Messages)
      /\ Len(wire \o m) = Len(wire) + Len(m) /\ Len(wire) \in Nat /\ Len(m) \in Nat
      /\ \A i \in 1..Len(wire) : (wire \o m)[i] = wire[i]
      /\ \A i \in 1..Len(m) : (wire \o m)[Len(wire) + i] = m[i]
      /\ \A i \in 1..Len(wire \o m) :
           i \in 1..Len(wire) \/ (i - Len(wire) \in 1..Len(m) /\ (wire \o m)[i] = m[i - Len(wire)])
  BY <1>0, Joining
<1>2. \A i \in 1..Len(wire) : i \in 1..Len(wire') /\ wire'[i] = wire[i]
  BY <1>1
<1>3. \A i \in 1..Len(wire') :
         \/ i \in 1..Len(wire) /\ wire'[i] = wire[i]
         \/ /\ i - Len(wire) \in 1..Len(m) /\ wire'[i] = m[i - Len(wire)]
            /\ \A j \in 1..Len(wire) : j < i
  BY <1>1
<1>4. \A i, j \in 1..Len(wire') : i < j /\ j \in 1..Len(wire) => i \in 1..Len(wire)
  BY <1>1
<1>5. \A x : Has(m, x) => Says(x)'
  <2> SUFFICES ASSUME NEW x, NEW i \in 1..Len(m), m[i] = x PROVE Says(x)'
    BY DEF Has
  <2>1. Len(wire) + i \in 1..Len(wire') /\ wire'[Len(wire) + i] = x
    BY <1>1
  <2> QED BY <2>1 DEF Says
<1>6. \A x : Says(x) => Says(x)'
  BY <1>2 DEF Says
<1>7. \A x : Says(x)' => Says(x) \/ Has(m, x)
  BY <1>3 DEF Says, Has
<1> QED BY <1>1, <1>2, <1>3, <1>4, <1>5, <1>6, <1>7

LEMMA PromiseStands ==
    ASSUME TypeOK, NEW m \in Seq(Messages), wire' = wire \o m, NEW r,
           orders'[r].exec = orders[r].exec, Promised(r)
    PROVE  Promised(r)'
<1>1. \A i \in 1..Len(wire) : i \in 1..Len(wire') /\ wire'[i] = wire[i]
  BY Longer
<1>2. PICK i \in 1..Len(wire) :
       /\ wire[i] = <<"commission", r>>
       /\ \A j \in 1..(i - 1) : Position(j) \/ wire[j] = <<"execution", r>>
       /\ orders[r].exec \/ \E j \in 1..(i - 1) : wire[j] = <<"execution", r>>
  BY DEF Promised
<1>3. \A j \in 1..(i - 1) : j \in 1..Len(wire)
  OBVIOUS
<1>4. i \in 1..Len(wire') /\ wire'[i] = <<"commission", r>>
  BY <1>1, <1>2
<1>5. \A j \in 1..(i - 1) : wire'[j] = wire[j]
  BY <1>1, <1>3
<1>6. \A j \in 1..(i - 1) : Position(j)' \/ wire'[j] = <<"execution", r>>
  BY <1>2, <1>5 DEF Position
<1>7. orders'[r].exec \/ \E j \in 1..(i - 1) : wire'[j] = <<"execution", r>>
  BY <1>2, <1>5
<1> QED BY <1>4, <1>6, <1>7 DEF Promised

\* An order that ends without executing, a cancellation that comes in, and
\* what TWS says of it.
LEMMA ToldKept ==
    ASSUME Always, Sound, NEW r \in Ids, InRound(r), ~Bracketing, ~Bracketing', ~Lives(r)',
           ~Starting,
           UNCHANGED <<up, nextID, held, orders, bracket, timers, queue, inFlight, net, posDue>>,
           \/ call' = call
           \/ /\ Cancelling /\ Cancelling' /\ call'.side = call.side /\ call'.qty = call.qty
              /\ call'.waits = call.waits,
           \A id \in Ids : book'[id] = book[id] \/ Moved(id),
           \A id \in Ids : Executed(id)' <=> Executed(id),
           \A id \in Ids : id \notin {r + 1, r + 2} =>
              book'[id] = book[id] \/ book'[id].state = "cancelled",
           NEW m \in Seq(Messages), wire' = wire \o m,
           \A i \in 1..Len(m) : m[i][1] # "position" /\ m[i][2] \in Round(r),
           Cancelled(r)' => NothingLives', Barred(r)',
           \A x \in Round(r) : x > r + 2 /\ Lives(x) => Lives(x)' \/ "exit" \in Rejectable
    PROVE  InRound(r)'
<1> USE DEF InRound
<1>0. TypeOK /\ Heard
  BY DEF Always
<1>1. /\ nextID \in Int /\ r \in Int /\ r + 2 < nextID /\ {r, r + 1, r + 2} \subseteq Round(r)
      /\ \A o \in Round(r) : o \in Int /\ o \in Ids /\ Followed(o)
      /\ \A o \in Ids : Lives(o) => o \in Round(r)
      /\ Side(r) \in {1, -1}
      /\ r \notin {r + 1, r + 2}
  BY RoundIds
<1>2. /\ wire' \in Seq(Messages)
      /\ \A i \in 1..Len(wire) : i \in 1..Len(wire') /\ wire'[i] = wire[i]
      /\ \A i \in 1..Len(wire') :
           \/ i \in 1..Len(wire) /\ wire'[i] = wire[i]
           \/ /\ i - Len(wire) \in 1..Len(m) /\ wire'[i] = m[i - Len(wire)]
              /\ \A j \in 1..Len(wire) : j < i
      /\ \A x : Says(x)' <=> Says(x) \/ Has(m, x)
  BY <1>0, Longer
<1>3. \A i \in 1..Len(wire') : Position(i)' => i \in 1..Len(wire) /\ wire'[i] = wire[i] /\ Position(i)
  BY <1>2 DEF Position
<1>4. /\ NoPosition => NoPosition'
      /\ \A n : Says(<<"position", n>>)' <=> Says(<<"position", n>>)
  <2>1. NoPosition => NoPosition'
    BY <1>3 DEF NoPosition
  <2>2. \A n : ~Has(m, <<"position", n>>)
    <3> SUFFICES ASSUME NEW n, NEW i \in 1..Len(m), m[i] = <<"position", n>> PROVE FALSE
      BY DEF Has
    <3>1. m[i][1] = "position"
      OBVIOUS
    <3> QED BY <3>1
  <2> QED BY <1>2, <2>1, <2>2
<1>5. \A o \in Ids : /\ Knows(o)' <=> Knows(o)
                     /\ Cancelled(o) => Cancelled(o)'
                     /\ Followed(o)' = Followed(o) /\ Ended(o)' = Ended(o)
  <2>1. \A o \in Ids : /\ Knows(o)' <=> Knows(o)
                       /\ Cancelled(o) => Cancelled(o)'
    BY <1>0, BookMoves
  <2> QED BY <2>1 DEF Followed, Ended
<1>6. \A o \in Ids : Lives(o)' => Lives(o)
  BY DEF Moved, Lives, Knows
<1>7. /\ NothingLives => NothingLives'
      /\ Round(r)' = Round(r) /\ Side(r)' = Side(r)
      /\ Closed(r)' = Closed(r)
  BY <1>1, <1>6 DEF NothingLives, Round, Side, Closed
<1>8. Over => Over'
  BY <1>4, <1>7 DEF Over
<1>g. Ground(r)'
  <2>1. \A id \in Ids : id < r => ~Lives(id)'
    BY <1>6 DEF Ground
  <2>2. \A id \in Round(r) : Knows(id)' /\ id \notin {r + 1, r + 2} =>
           book'[id].state \in {"working", "filled", "cancelled"} /\ ~orders'[id].cancel
    BY <1>1, <1>5 DEF Ground
  <2> QED BY <1>1, <1>7, <2>1, <2>2 DEF Ground, RoleOf
<1>r. Recent(r)'
  <2>1. \A i \in 1..Len(wire') : ~Position(i)' => wire'[i][2] \in Round(r)
    BY <1>2 DEF Recent, Position
  <2> QED BY <1>7, <2>1 DEF Recent
<1>n. Net(r)'
  BY <1>1, <1>7 DEF Net
<1>o. Opening(r)'
  BY DEF Opening
<1>b. Bracketed(r)'
  BY <1>1, <1>5, <1>7, <1>8 DEF Bracketed
<1>p. Positions(r)'
  <2>1. \A i \in 1..Len(wire') : Position(i)' => wire'[i][2] \in {0, Side(r)}
    BY <1>3 DEF Positions
  <2>2. ASSUME NEW i \in 1..Len(wire'), NEW j \in 1..Len(wire'), Position(i)', Position(j)', i < j
        PROVE  wire'[i][2] = Side(r) /\ wire'[j][2] = 0
    <3>1. /\ i \in 1..Len(wire) /\ wire'[i] = wire[i] /\ Position(i)
          /\ j \in 1..Len(wire) /\ wire'[j] = wire[j] /\ Position(j)
      BY <1>3, <2>2
    <3> QED BY <2>2, <3>1 DEF Positions
  <2> QED BY <1>1, <1>4, <1>7, <2>1, <2>2 DEF Positions
<1>f. First(r)'
  <2>1. ASSUME NEW o \in Round(r), o # r, Executed(o),
               NEW i \in 1..Len(wire'), NEW j \in 1..Len(wire'),
               wire'[i] \in {"execution", "filled"} \X {o}, Position(j)'
        PROVE  j < i
    <3>1. j \in 1..Len(wire) /\ Position(j)
      BY <1>3, <2>1
    <3>2. CASE i \in 1..Len(wire)
      <4>1. wire'[i] = wire[i]
        BY <1>2, <3>2
      <4>2. wire[i] \in {"execution", "filled"} \X {o}
        BY <2>1, <4>1
      <4> QED BY <2>1, <3>1, <3>2, <4>2 DEF First
    <3>3. CASE i \notin 1..Len(wire)
      BY <1>2, <3>1, <3>3
    <3> QED BY <3>2, <3>3
  <2>2. ASSUME NEW o \in Round(r), o # r, Executed(o),
               orders[o].exec \/ orders[o].status \/ Ended(o)
        PROVE  held = 0 /\ NoPosition'
    BY <1>4, <2>2 DEF First
  <2> QED BY <1>1, <1>5, <1>7, <2>1, <2>2 DEF First
<1>t. InTurn(r)'
  <2>1. call' # None <=> call # None
    BY DEF Cancelling
  <2>2. ~Ended(r)' => (inFlight' /\ queue' = <<>> /\ call' = None) \/ (Terse /\ Over')
    BY <1>1, <1>5, <1>8, <2>1 DEF InTurn
  <2>3. (queue' # <<>> => inFlight' \/ Over') /\ (Len(queue') >= 2 => Over') /\ (call' # None => ~inFlight')
    BY <1>8, <2>1 DEF InTurn
  <2>4. \A o \in Round(r) : o > r + 2 /\ ~Ended(o)' =>
            /\ inFlight' /\ queue' = <<>> /\ call' = None
            /\ \A other \in Round(r) : other # o => Ended(other)'
    BY <1>1, <1>5, <2>1 DEF InTurn
  <2>5. \A t \in timers' : t[1] = "protect" => net' = 0 /\ NothingLives'
    BY <1>7 DEF InTurn
  <2> QED BY <1>7, <2>2, <2>3, <2>4, <2>5 DEF InTurn
<1>l. Leaving(r)'
  <2>1. /\ Cancelling' => Cancelling
        /\ Exiting' => Exiting /\ call' = call
        /\ Closing' => Closing /\ call' = call
        /\ ~Starting'
    BY DEF Cancelling, Exiting, Closing, Starting
  <2>2. call'.side = call.side /\ call'.qty = call.qty /\ (Cancelling => call'.waits = call.waits)
    OBVIOUS
  <2> QED BY <1>1, <1>4, <1>5, <1>7, <1>8, <2>1, <2>2 DEF Leaving
<1>s. Strict(r)'
  <2>1. Promised(r) => Promised(r)'
    BY <1>0, PromiseStands
  <2> QED BY <1>1, <1>5, <2>1 DEF Strict
<1>h. Shielded(r)'
  <2>1. call # None => call' # None
    BY DEF Cancelling
  <2> QED BY <1>1, <1>7, <2>1 DEF Shielded
<1> QED BY <1>g, <1>r, <1>n, <1>o, <1>b, <1>p, <1>f, <1>t, <1>l, <1>s, <1>h

LEMMA ConfirmCancelKept ==
    ASSUME Always, Sound, NEW r \in Ids, InRound(r), NEW id \in Ids, ConfirmCancel(id)
    PROVE  InRound(r)'
<1> USE DEF InRound
<1>0. TypeOK /\ Heard /\ up
  BY DEF Always, Sound, Followers
<1>1. /\ Knows(id) /\ book[id].state \in {"withdrawing", "cancelling"} /\ Lives(id)
      /\ book' = [book EXCEPT ![id].state = "cancelled"]
      /\ wire' = wire \o << <<"cancelled", id>> >>
      /\ UNCHANGED <<up, nextID, held, orders, bracket, timers, queue, call, inFlight, net, posDue>>
  BY <1>0 DEF ConfirmCancel, Lives, Alive, Waiting, Sends, followVars, callVars
<1>2. id \in Round(r) /\ id \in {r + 1, r + 2} /\ r \notin {r + 1, r + 2}
  <2>1. id \in Round(r) /\ r \notin {r + 1, r + 2}
    BY <1>1, RoundIds
  <2> QED BY <1>1, <2>1 DEF Ground
<1>3. ~Bracketing /\ ~Lives(r)
  <2>1. ~Bracketing
    BY <1>1, <1>2, Phases
  <2> QED BY <1>1, <1>2, <2>1 DEF Opening
<1>4. ASSUME NEW other \in Ids
      PROVE  /\ book'[other] = book[other] \/ Moved(other)
             /\ other # id => book'[other] = book[other]
             /\ Executed(other)' <=> Executed(other)
             /\ other = id => ~Lives(other)' /\ Cancelled(other)'
                              /\ book'[other].state = "cancelled"
  <2>1. CASE other = id
    <3>1. book'[other] = [book[other] EXCEPT !.state = "cancelled"]
      BY <1>0, <1>1, <2>1 DEF TypeOK
    <3>0. TypeOK /\ Heard /\ Knows(other)
      BY <1>0, <1>1, <2>1
    <3>2. [book[other] EXCEPT !.state = "cancelled"] \in Books /\ book'[other].state = "cancelled"
      BY <3>0, <3>1, StateMoves DEF Books
    <3>3. Knows(other)'
      BY <3>1, <3>2, IBAssumption DEF Knows
    <3> QED BY <1>1, <2>1, <3>1, <3>2, <3>3 DEF Moved, Executed, Cancelled, Lives, Alive, Waiting
  <2>2. CASE other # id
    <3>1. book'[other] = book[other]
      BY <1>0, <1>1, <2>2 DEF TypeOK
    <3> QED BY <2>2, <3>1 DEF Executed, Knows
  <2> QED BY <2>1, <2>2
<1>5. book'[r] = book[r] /\ r # id /\ ~Bracketing'
  BY <1>1, <1>2, <1>3, <1>4 DEF Bracketing
<1>6. ~Lives(r)' /\ (Cancelled(r)' <=> Cancelled(r)) /\ Round(r)' = Round(r)
  BY <1>1, <1>3, <1>5 DEF Lives, Knows, Cancelled, Round
<1>7. \A o \in Ids : Lives(o)' => Lives(o)
  BY <1>4 DEF Moved, Lives, Knows
<1>8. Cancelled(r)' => NothingLives'
  BY <1>6, <1>7 DEF Net, NothingLives
<1>9. Barred(r)'
  <2>1. Closed(r)' = Closed(r)
    BY <1>4, <1>6, RoundIds DEF Closed
  <2>2. orders[id].cancel
    BY <1>1, <1>2 DEF Barred
  <2>3. {r + 1, r + 2} \subseteq Ids
    BY RoundIds
  <2>4. ASSUME NEW x \in {r + 1, r + 2}
        PROVE  /\ Knows(x)' /\ book'[x].state \in {"withdrawing", "cancelling"} => orders'[x].cancel
               /\ Cancelled(x)' => orders'[x].cancel \/ Closed(r)' \/ Cancelled(r)'
    <3>1. CASE x = id
      BY <1>1, <2>2, <3>1
    <3>2. CASE x # id
      <4>1. book'[x] = book[x]
        BY <1>4, <2>3, <3>2
      <4> QED BY <1>1, <1>6, <2>1, <4>1 DEF Barred, Cancelled, Knows
    <3> QED BY <3>1, <3>2
  <2> QED BY <2>4 DEF Barred
<1>10. \A x \in Round(r) : x > r + 2 /\ Lives(x) => Lives(x)'
  <2> SUFFICES ASSUME NEW x \in Round(r), x > r + 2, Lives(x) PROVE Lives(x)'
    OBVIOUS
  <2>1. x # id /\ x \in Ids
    BY <1>2, RoundIds, RoundRoles
  <2>2. book'[x] = book[x]
    BY <1>4, <2>1
  <2> QED BY <2>2 DEF Lives, Knows
<1> DEFINE m == << <<"cancelled", id>> >>
<1>11. m \in Seq(Messages) /\ \A i \in 1..Len(m) : m[i][1] # "position" /\ m[i][2] \in Round(r)
  <2>1. <<"cancelled", id>> \in Messages
    BY DEF Messages, Kinds, Ids
  <2>2. Len(m) = 1 /\ m[1] = <<"cancelled", id>>
    OBVIOUS
  <2> QED BY <1>2, <2>1, <2>2
<1>12. wire' = wire \o m
  BY <1>1
<1> HIDE DEF m
<1>13. \A o \in Ids : o \notin {r + 1, r + 2} => book'[o] = book[o]
  BY <1>2, <1>4
<1>14. ~Starting
  BY <1>1, StartingIsIdle DEF NothingLives
<1> QED BY <1>1, <1>3, <1>4, <1>5, <1>6, <1>8, <1>9, <1>10, <1>11, <1>12, <1>13, <1>14, ToldKept

LEMMA StruckOut ==
    ASSUME TypeOK, Heard, NEW id \in Ids, Lives(id),
           book'[id] = [book[id] EXCEPT !.state = "cancelled"]
    PROVE  /\ Moved(id) /\ Cancelled(id)' /\ ~Lives(id)' /\ book'[id].state = "cancelled"
           /\ ~Executed(id) /\ ~Executed(id)' /\ ~Cancelled(id)
<1>1. Knows(id) /\ book[id].state \in Alive
  BY DEF Lives
<1>2. book'[id] \in Books /\ book'[id].state = "cancelled"
  <2>1. [book[id] EXCEPT !.state = "cancelled"] \in Books
    BY <1>1, StateMoves
  <2> QED BY <1>1, <2>1, KnownIsSent DEF Books
<1>3. Knows(id)'
  BY <1>2, IBAssumption DEF Knows
<1> QED BY <1>1, <1>2, <1>3 DEF Moved, Executed, Cancelled, Lives, Alive, Waiting

LEMMA RejectKept ==
    ASSUME Always, Sound, NEW r \in Ids, InRound(r), NEW id \in Ids, Reject(id)
    PROVE  InRound(r)'
<1> USE DEF InRound
<1>0. TypeOK /\ Heard /\ up
  BY DEF Always, Sound, Followers
<1> DEFINE with == {c \in {LimitOf(id), StopOf(id)} :
                      book[id].role = "entry" /\ c \in Ids /\ Lives(c)}
           dead == with \cup {id}
<1>1. /\ Lives(id) /\ book[id].role \in Rejectable
      /\ book' = [other \in Ids |->
           IF other = id \/ other \in with
           THEN [book[other] EXCEPT !.state = "cancelled"] ELSE book[other]]
      /\ \E gone \in OfEach("cancelled", with) : Sends(<< <<"refused", id>> >> \o gone)
      /\ UNCHANGED <<up, nextID, held, orders, bracket, timers, queue, call, inFlight, net, posDue>>
  BY DEF Reject, followVars, callVars
<1>2. /\ \A x \in dead : x \in Ids /\ Lives(x)
      /\ with \in SUBSET Ids
      /\ \A x : x = id \/ x \in with <=> x \in dead
  BY <1>1
<1>3. with \subseteq {id + 1, id + 2} /\ (with # {} => book[id].role = "entry")
  BY DEF LimitOf, StopOf
<1>4. \A x \in {id + 1, id + 2} : book[id].role = "entry" /\ x \in Ids /\ Lives(x) => x \in dead
  BY DEF LimitOf, StopOf
<1> PICK gone \in OfEach("cancelled", with) : Sends(<< <<"refused", id>> >> \o gone)
  BY <1>1
<1> HIDE DEF with, dead
<1>5. \A x \in Round(r) : x \in Int /\ x \in Ids
  BY RoundIds
<1>6. /\ nextID \in Int /\ r \in Int /\ r + 2 < nextID /\ {r, r + 1, r + 2} \subseteq Round(r)
      /\ \A x \in dead : x \in Round(r)
      /\ id \in Round(r) /\ id \in Int
  BY <1>1, <1>2, RoundIds
<1>7. /\ book[id].role = orders[id].role
      /\ orders[id].role \notin Barriers
  BY <1>1, IBAssumption DEF Sound, Followers, Lives
<1>8. ASSUME NEW other \in Ids
      PROVE  /\ other \in dead =>
                  /\ Moved(other) /\ Cancelled(other)' /\ ~Lives(other)'
                  /\ book'[other].state = "cancelled"
                  /\ ~Executed(other) /\ ~Executed(other)'
             /\ other \notin dead =>
                  /\ book'[other] = book[other]
                  /\ Executed(other)' <=> Executed(other)
                  /\ Lives(other)' <=> Lives(other)
                  /\ Cancelled(other)' <=> Cancelled(other)
                  /\ Knows(other)' <=> Knows(other)
  <2>1. CASE other \in dead
    <3>1. book'[other] = [book[other] EXCEPT !.state = "cancelled"] /\ Lives(other)
      BY <1>1, <1>2, <2>1
    <3> QED BY <1>0, <2>1, <3>1, StruckOut
  <2>2. CASE other \notin dead
    <3>1. book'[other] = book[other]
      BY <1>1, <1>2, <2>2
    <3> QED BY <2>2, <3>1 DEF Executed, Knows, Lives, Cancelled
  <2> QED BY <2>1, <2>2
<1>9. ~Bracketing /\ ~Bracketing'
  BY <1>1, <1>6, Phases DEF Lives, Bracketing
<1>10. \/ /\ id = r /\ \A x \in Ids : ~Lives(x)'
          /\ \A x \in Round(r) : ~(x > r + 2)
       \/ /\ id # r /\ id > r + 2 /\ "exit" \in Rejectable /\ with = {} /\ ~Lives(r)
  <2>1. CASE id = r
    <3>1. nextID = r + 3
      BY <1>1, <2>1 DEF Opening
    <3>2. book[id].role = "entry"
      BY <1>6, <1>7, <2>1, RoundRoles
    <3>3. \A x \in Round(r) : x = r \/ x \in {r + 1, r + 2}
      BY <1>5, <1>6, <3>1 DEF Round
    <3>4. \A x \in Ids : Lives(x) => x \in dead
      BY <1>2, <1>4, <2>1, <3>2, <3>3, RoundIds
    <3> QED BY <1>5, <1>6, <1>8, <2>1, <3>3, <3>4
  <2>2. CASE id # r
    <3>1. orders[id].role = "exit" /\ id > r + 2
      BY <1>6, <1>7, <2>2, RoundRoles
    <3>2. ~Ended(id)
      BY <1>1, RoundIds
    <3>3. Ended(r)
      BY <1>6, <2>2, <3>1, <3>2 DEF InTurn
    <3>4. ~Lives(r)
      BY <3>3, RoundIds
    <3> QED BY <1>1, <1>3, <1>7, <2>2, <3>1, <3>4
  <2> QED BY <2>1, <2>2
<1>11. ~Lives(r)'
  BY <1>8, <1>10
<1>12. \A x \in Ids : x \notin {r + 1, r + 2} => book'[x] = book[x] \/ book'[x].state = "cancelled"
  BY <1>8
<1>13. Cancelled(r)' => NothingLives'
  <2>1. CASE id = r
    BY <1>10, <2>1 DEF NothingLives
  <2>2. CASE id # r
    <3>1. r \notin dead
      BY <1>2, <1>10, <2>2
    <3>2. Cancelled(r)' => NothingLives
      BY <1>8, <3>1 DEF Net
    <3>3. \A x \in Ids : Lives(x)' => Lives(x)
      BY <1>8
    <3> QED BY <3>2, <3>3 DEF NothingLives
  <2> QED BY <2>1, <2>2
<1>14. Barred(r)'
  <2>1. CASE id = r
    <3>1. Cancelled(r)'
      BY <1>2, <1>8, <2>1
    <3>2. \A x \in {r + 1, r + 2} : ~Lives(x)'
      BY <1>5, <1>6, <1>10, <2>1
    <3> QED BY <3>1, <3>2 DEF Barred, Lives, Alive, Waiting
  <2>2. CASE id # r
    <3>1. r \notin dead /\ r + 1 \notin dead /\ r + 2 \notin dead
      BY <1>2, <1>6, <1>10, <2>2
    <3>2. Closed(r) => Closed(r)'
      BY <1>1, <1>5, <1>8 DEF Closed, Round
    <3>3. Cancelled(r) => Cancelled(r)'
      BY <1>8, <3>1
    <3>4. \A x \in {r + 1, r + 2} : book'[x] = book[x] /\ orders'[x] = orders[x]
      BY <1>1, <1>5, <1>6, <1>8, <3>1
    <3> QED BY <3>2, <3>3, <3>4 DEF Barred, Knows, Cancelled
  <2> QED BY <2>1, <2>2
<1>15. \A x \in Round(r) : x > r + 2 /\ Lives(x) => Lives(x)' \/ "exit" \in Rejectable
  BY <1>10
<1> DEFINE m == << <<"refused", id>> >> \o gone
<1>16. m \in Seq(Messages) /\ \A i \in 1..Len(m) : m[i][1] # "position" /\ m[i][2] \in Round(r)
  <2> DEFINE first == << <<"refused", id>> >>
             says == {x \in Messages : x[1] # "position" /\ x[2] \in Round(r)}
  <2>1. <<"refused", id>> \in Messages /\ <<"refused", id>> \in says
    BY <1>6 DEF Messages, Kinds, Ids
  <2>2. first \in Seq(Messages) /\ Said(first, says)
    BY <2>1 DEF Said
  <2>3. "cancelled" \in Kinds
    BY DEF Kinds
  <2>4. gone \in Seq(Messages) /\ \A i \in 1..Len(gone) : \E x \in with : gone[i] = <<"cancelled", x>>
    BY <1>2, <2>3, EachHas
  <2>5. \A x \in with : <<"cancelled", x>> \in says
    BY <1>2, <1>6 DEF Messages, Kinds, Ids
  <2>6. Said(gone, says)
    BY <2>4, <2>5 DEF Said
  <2> HIDE DEF first
  <2>7. first \o gone \in Seq(Messages) /\ Said(first \o gone, says)
    BY <2>2, <2>4, <2>6, SaidBoth
  <2> QED BY <2>7 DEF Said, first
<1>17. wire' = wire \o m
  BY <1>0 DEF Sends
<1> HIDE DEF m
<1>18. \A o \in Ids : /\ book'[o] = book[o] \/ Moved(o)
                      /\ Executed(o)' <=> Executed(o)
  BY <1>8
<1>19. ~Starting
  BY <1>1, StartingIsIdle DEF NothingLives
<1> QED BY <1>1, <1>9, <1>11, <1>12, <1>13, <1>14, <1>15, <1>16, <1>17, <1>18, <1>19, ToldKept

LEMMA SendCancelsKept ==
    ASSUME Always, Sound, NEW r \in Ids, InRound(r), SendCancels
    PROVE  InRound(r)'
<1> USE DEF InRound
<1>0. TypeOK /\ Heard /\ up
  BY DEF Always, Sound, Followers
<1> DEFINE ids == call.waits
<1>1. /\ Cancelling /\ call.stage = "cancel" /\ book' = CancelledIn(book, ids)
      /\ call' = [call EXCEPT !.stage = "wait"]
      /\ \E answers \in GoneAnswers(ids) : Sends(answers)
      /\ UNCHANGED <<up, nextID, held, orders, bracket, timers, queue, inFlight, net, posDue>>
  BY <1>0 DEF SendCancels, Cancelling, followVars
<1>2. call \in [stage : {"cancel", "wait", "exit"}, side : {1, -1}, qty : Nat, waits : SUBSET Ids]
  BY <1>0, <1>1 DEF TypeOK, Calls, Cancelling
<1>3. call' \in Calls
  BY <1>1, <1>2 DEF Calls
<1>4. /\ call'.stage = "wait" /\ call'.side = call.side /\ call'.qty = call.qty
      /\ call'.waits = call.waits /\ Cancelling'
      /\ ~Bracketing /\ ~Bracketing'
  BY <1>1, <1>2, <1>3, IBAssumption DEF Cancelling, Bracketing
<1>5. /\ nextID \in Int /\ r \in Int /\ {r, r + 1, r + 2} \subseteq Round(r)
      /\ r \notin {r + 1, r + 2}
      /\ \A x \in Round(r) : x \in Int /\ x \in Ids
  BY RoundIds
<1>6. /\ Executed(r) /\ ids \subseteq {r + 1, r + 2} /\ \A x \in ids : orders[x].cancel
      /\ ids \in SUBSET Ids /\ \A x \in ids : x \in Round(r)
  <2>1. Executed(r) /\ ids \subseteq {r + 1, r + 2}
    BY <1>1 DEF Leaving
  <2>2. \A x \in ids : x \in Round(r)
    BY <1>5, <2>1
  <2> QED BY <1>1, <1>2, <2>1, <2>2 DEF Leaving
<1> PICK m \in GoneAnswers(ids) : Sends(m)
  BY <1>1
<1> HIDE DEF ids
<1>7. \A x \in Ids :
        /\ book'[x] = book[x] \/ Moved(x)
        /\ Executed(x)' <=> Executed(x)
        /\ Cancelled(x)' <=> Cancelled(x)
        /\ x \notin ids => book'[x] = book[x]
  <2>1. \A x \in Ids :
          /\ book'[x] = book[x] \/ Moved(x)
          /\ Executed(x)' <=> Executed(x)
          /\ Cancelled(x)' <=> Cancelled(x)
    BY <1>0, <1>1, StillThere
  <2>2. \A x \in Ids : x \notin ids => book'[x] = book[x]
    BY <1>1 DEF CancelledIn
  <2> QED BY <2>1, <2>2
<1>8. ~Lives(r)' /\ (\A x \in Ids : Lives(x)' => Lives(x)) /\ r \notin ids
  <2>1. r \notin ids
    BY <1>5, <1>6
  <2>2. ~Lives(r)
    BY <1>6 DEF Executed, Lives, Alive, Waiting
  <2> QED BY <1>7, <2>1, <2>2 DEF Lives, Moved, Knows
<1>9. Cancelled(r)' => NothingLives'
  BY <1>7, <1>8 DEF Net, NothingLives
<1>10. Barred(r)'
  <2>1. Closed(r) => Closed(r)'
    BY <1>1, <1>5, <1>7 DEF Closed, Round
  <2>2. ASSUME NEW x \in {r + 1, r + 2}
        PROVE  /\ Knows(x)' /\ book'[x].state \in {"withdrawing", "cancelling"} => orders'[x].cancel
               /\ Cancelled(x)' => orders'[x].cancel \/ Closed(r)' \/ Cancelled(r)'
    <3>1. CASE x \in ids
      BY <1>1, <1>6, <3>1
    <3>2. CASE x \notin ids
      <4>1. book'[x] = book[x] /\ orders'[x] = orders[x] /\ (Cancelled(r) => Cancelled(r)')
        BY <1>1, <1>5, <1>7, <3>2
      <4> QED BY <2>1, <4>1 DEF Barred, Knows, Cancelled
    <3> QED BY <3>1, <3>2
  <2> QED BY <2>2 DEF Barred
<1>11. \A x \in Round(r) : x > r + 2 /\ Lives(x) => Lives(x)'
  <2> SUFFICES ASSUME NEW x \in Round(r), x > r + 2, Lives(x) PROVE Lives(x)'
    OBVIOUS
  <2>1. x \in Ids /\ x \notin ids
    BY <1>5, <1>6, RoundRoles
  <2> QED BY <1>7, <2>1 DEF Lives, Knows
<1>12. m \in Seq(Messages) /\ \A i \in 1..Len(m) : m[i][1] # "position" /\ m[i][2] \in Round(r)
  <2> DEFINE gone == {x \in ids : ~Lives(x)}
  <2>1. "gone" \in Kinds /\ gone \in SUBSET Ids /\ m \in OfEach("gone", gone)
        /\ \A x \in gone : x \in Round(r)
    BY <1>6 DEF Kinds, GoneAnswers
  <2> HIDE DEF gone
  <2>2. m \in Seq(Messages) /\ \A i \in 1..Len(m) : \E x \in gone : m[i] = <<"gone", x>>
    BY <2>1, EachHas
  <2>3. ASSUME NEW i \in 1..Len(m) PROVE m[i][1] # "position" /\ m[i][2] \in Round(r)
    <3>1. PICK x \in gone : m[i] = <<"gone", x>>
      BY <2>2
    <3>2. m[i][1] = "gone" /\ m[i][2] = x
      BY <3>1
    <3> QED BY <2>1, <3>2
  <2> QED BY <2>2, <2>3
<1>13. wire' = wire \o m
  BY <1>0 DEF Sends
<1>14. \A o \in Ids : o \notin {r + 1, r + 2} => book'[o] = book[o]
  BY <1>6, <1>7
<1>15. ~Starting
  BY <1>1 DEF Cancelling, Starting
<1> QED BY <1>1, <1>4, <1>7, <1>8, <1>9, <1>10, <1>11, <1>12, <1>13, <1>14, <1>15, ToldKept

-----------------------------------------------------------------------------
(* Orders leave *)

LEMMA NewOrder ==
    ASSUME NEW role \in Roles, NEW side \in {1, -1}, NEW state \in Alive,
           NEW o, o = Order(role, side, 1, state)
    PROVE  o \in Books /\ o # None /\ o.role = role /\ o.side = side /\ o.qty = 1 /\ o.state = state
<1>1. /\ Order(role, side, 1, state) \in Books
      /\ Order(role, side, 1, state).role = role /\ Order(role, side, 1, state).side = side
      /\ Order(role, side, 1, state).qty = 1 /\ Order(role, side, 1, state).state = state
  BY DEF Order, Books
<1> QED BY <1>1, IBAssumption

LEMMA NewExit ==
    ASSUME NEW n, NEW side \in {1, -1}, orders'[n] = Track("exit", side, 1),
           book'[n] = Order("exit", side, 1, "working")
    PROVE  /\ Followed(n)' /\ Knows(n)' /\ ~Ended(n)' /\ ~Executed(n)' /\ ~Cancelled(n)' /\ Lives(n)'
           /\ orders'[n].role = "exit" /\ orders'[n].side = side /\ orders'[n].qty = 1
           /\ ~orders'[n].cancel /\ book'[n].state = "working"
<1>1. /\ Track("exit", side, 1) # None /\ Track("exit", side, 1).role = "exit"
      /\ Track("exit", side, 1).side = side /\ Track("exit", side, 1).qty = 1
      /\ Track("exit", side, 1).end = "" /\ ~Track("exit", side, 1).cancel
  <2>1. Track("exit", side, 1) \in Tracks
    BY DEF Track, Tracks, Roles
  <2> QED BY <2>1, IBAssumption DEF Track
<1>2. "exit" \in Roles /\ "working" \in Alive
  BY DEF Roles, Alive
<1>3. book'[n] # None /\ book'[n].state = "working"
  BY <1>2, NewOrder
<1> QED BY <1>1, <1>2, <1>3 DEF Followed, Knows, Ended, Executed, Cancelled, Lives

LEMMA SendBracketKept ==
    ASSUME Always, Sound, NEW r \in Ids, InRound(r), SendBracket
    PROVE  InRound(r)'
<1> USE DEF InRound
<1>0. TypeOK /\ Heard /\ up
  BY DEF Always, Sound, Followers
<1>1. /\ Bracketing /\ call' = None /\ inFlight' = TRUE
      /\ UNCHANGED <<up, nextID, held, orders, bracket, timers, queue, net, wire, posDue>>
  BY <1>0 DEF SendBracket, CallReturns, Bracketing
<1>2. /\ nextID = r + 3 /\ wire = <<>> /\ queue = <<>> /\ timers = {} /\ held = 0
      /\ \A id \in Round(r) : ~orders[id].cancel /\ ~Ended(id)
      /\ bracket # None /\ call.parent = r /\ call.side = Side(r)
  BY <1>1 DEF Opening
<1>3. /\ book' = [book EXCEPT ![r] = Order("entry", Side(r), 1, "working"),
                              ![r + 1] = Order("limit", -Side(r), 1, "attached"),
                              ![r + 2] = Order("stop", -Side(r), 1, "attached")]
  BY <1>0, <1>2 DEF SendBracket, LimitOf, StopOf
<1>4. /\ nextID \in Int /\ r \in Int /\ {r, r + 1, r + 2} \subseteq Round(r)
      /\ r \in Ids /\ r + 1 \in Ids /\ r + 2 \in Ids
      /\ \A x \in Round(r) : x \in Int /\ x \in Ids
      /\ r # r + 1 /\ r + 1 # r + 2 /\ r # r + 2
      /\ Side(r) \in {1, -1} /\ -Side(r) \in {1, -1}
      /\ \A x \in Ids : x \in Int
  BY RoundIds DEF Ids
<1>5. /\ \A x \in Round(r) : x = r \/ x = r + 1 \/ x = r + 2
      /\ \A x \in Ids : x < r => x # r /\ x # r + 1 /\ x # r + 2
  BY <1>2, <1>4 DEF Round
<1>6. /\ book'[r] = Order("entry", Side(r), 1, "working")
      /\ book'[r + 1] = Order("limit", -Side(r), 1, "attached")
      /\ book'[r + 2] = Order("stop", -Side(r), 1, "attached")
      /\ \A x \in Ids : x # r /\ x # r + 1 /\ x # r + 2 => book'[x] = book[x]
  BY <1>0, <1>3, <1>4 DEF TypeOK
<1>7. /\ Knows(r)' /\ Knows(r + 1)' /\ Knows(r + 2)'
      /\ book'[r].state = "working"
      /\ book'[r + 1].state = "attached" /\ book'[r + 2].state = "attached"
  <2>1. {book'[r], book'[r + 1], book'[r + 2]} \subseteq Books
    BY <1>4, <1>6 DEF Order, Books, Roles, Barriers, Alive, Waiting
  <2> QED BY <1>6, <2>1, IBAssumption DEF Knows, Order
<1>8. /\ Round(r)' = Round(r) /\ Side(r)' = Side(r) /\ ~Bracketing'
      /\ \A x \in Round(r) : ~Executed(x)' /\ ~Cancelled(x)'
      /\ \A x : Ended(x)' = Ended(x) /\ Followed(x)' = Followed(x)
  BY <1>1, <1>5, <1>7 DEF Round, Side, Bracketing, Executed, Cancelled, Ended, Followed
<1>9. net = 0
  <2>1. ~Executed(r)
    BY <1>1, <1>4, Phases DEF Executed
  <2> QED BY <2>1 DEF Net
<1>10. ~Closed(r)' /\ ~Executed(r)' /\ ~Cancelled(r)'
  BY <1>4, <1>8 DEF Closed
<1>g. Ground(r)'
  <2>1. \A x \in Ids : x < r => ~Lives(x)'
    BY <1>5, <1>6 DEF Ground, Lives, Knows
  <2>2. \A x \in Round(r) : Knows(x)' /\ x \notin {r + 1, r + 2} =>
           book'[x].state \in {"working", "filled", "cancelled"} /\ ~orders'[x].cancel
    BY <1>1, <1>2, <1>4, <1>5, <1>7
  <2> QED BY <1>1, <1>8, <2>1, <2>2 DEF Ground, RoleOf
<1>r. Recent(r)'
  BY <1>1, <1>2 DEF Recent
<1>n. Net(r)'
  BY <1>1, <1>9, <1>10 DEF Net
<1>o. Opening(r)'
  BY <1>1, <1>2, <1>7, <1>8 DEF Opening
<1>b. Bracketed(r)'
  BY <1>1, <1>2, <1>8 DEF Bracketed
<1>c. Barred(r)'
  BY <1>4, <1>7, <1>8 DEF Barred
<1>p. Positions(r)'
  BY <1>1, <1>2, <1>10 DEF Positions, Says
<1>f. First(r)'
  BY <1>8 DEF First
<1>t. InTurn(r)'
  <2>1. \A x \in Round(r) : ~(x > r + 2)
    BY <1>2, <1>4, <1>5
  <2> QED BY <1>1, <1>2, <1>8, <2>1 DEF InTurn
<1>l. Leaving(r)'
  BY <1>1 DEF Leaving, Cancelling, Exiting, Closing, Starting
<1>s. Strict(r)'
  BY <1>1, <1>8, <1>10 DEF Strict
<1>h. Shielded(r)'
  BY <1>1, <1>2, <1>4 DEF Shielded
<1> QED BY <1>g, <1>r, <1>n, <1>o, <1>b, <1>c, <1>p, <1>f, <1>t, <1>l, <1>s, <1>h

\* When the exit is to leave nothing lives, and nothing is to be delivered.
LEMMA BeforeExit ==
    ASSUME Always, Sound, NEW r \in Ids, InRound(r), Exiting
    PROVE  /\ nextID \in Ids /\ net = Side(r) /\ net # 0
           /\ Executed(r) /\ ~Closed(r) /\ ~Cancelled(r) /\ NothingLives
           /\ queue = <<>> /\ \A t \in timers : t[1] # "protect"
           /\ call.side = -Side(r) /\ call.qty = 1
           /\ \A id \in Round(r) : Ended(id)
<1> USE DEF InRound
<1>1. call # None /\ call.stage = "exit" /\ nextID \in Ids
  BY DEF Exiting, Always, Placed
<1>2. /\ net = Side(r) /\ net # 0 /\ \A id \in Round(r) : Ended(id)
      /\ call.side = -Side(r) /\ call.qty = 1
  BY RoundIds DEF Leaving
<1>3. Executed(r) /\ ~Closed(r)
  BY <1>2 DEF Net
<1>4. NothingLives
  BY <1>2, RoundIds DEF NothingLives
<1>5. ~inFlight /\ ~Over
  BY <1>1, <1>2 DEF InTurn, Over
<1>6. queue = <<>> /\ \A t \in timers : t[1] # "protect"
  BY <1>2, <1>5 DEF InTurn
<1>7. ~Cancelled(r)
  BY <1>3 DEF Executed, Cancelled
<1> QED BY <1>1, <1>2, <1>3, <1>4, <1>6, <1>7

LEMMA SendExitKept ==
    ASSUME Always, Sound, NEW r \in Ids, InRound(r), SendExit
    PROVE  InRound(r)'
<1> USE DEF InRound
<1>0. TypeOK /\ Heard /\ up
  BY DEF Always, Sound, Followers
<1> PICK n : n = nextID
  OBVIOUS
<1>1. /\ Exiting /\ call' = None /\ inFlight' = TRUE /\ nextID' = n + 1
      /\ orders' = [orders EXCEPT ![n] = Track("exit", call.side, call.qty)]
      /\ book' = [book EXCEPT ![n] = Order("exit", call.side, call.qty, "working")]
      /\ UNCHANGED <<up, held, bracket, timers, queue, net, wire, posDue>>
  BY <1>0 DEF SendExit, PlaceSimple, CallReturns, Exiting
<1>2. /\ n \in Ids /\ net = Side(r) /\ net # 0
      /\ Executed(r) /\ ~Closed(r) /\ ~Cancelled(r) /\ NothingLives
      /\ queue = <<>> /\ \A t \in timers : t[1] # "protect"
      /\ \A id \in Round(r) : Ended(id)
      /\ call.side = -Side(r) /\ call.qty = 1
  BY <1>1, BeforeExit DEF Leaving
<1>3. /\ n \in Int /\ r \in Int /\ r + 2 < n /\ {r, r + 1, r + 2} \subseteq Round(r)
      /\ \A x \in Round(r) : x \in Int /\ x \in Ids
      /\ Side(r) \in {1, -1} /\ -Side(r) \in {1, -1}
      /\ \A x \in Ids : x \in Int
  BY RoundIds DEF Ids
<1>4. /\ Round(r)' = Round(r) \cup {n} /\ n \notin Round(r)
      /\ n # r /\ n \notin {r + 1, r + 2} /\ n > r + 2 /\ ~(n < r)
      /\ \A x \in Round(r) : x # n
  BY <1>1, <1>3 DEF Round
<1>5. /\ orders'[n] = Track("exit", -Side(r), 1) /\ book'[n] = Order("exit", -Side(r), 1, "working")
      /\ \A x \in Ids : x # n => orders'[x] = orders[x] /\ book'[x] = book[x]
  BY <1>0, <1>1, <1>2 DEF TypeOK
<1>6. /\ Followed(n)' /\ Knows(n)' /\ ~Ended(n)' /\ ~Executed(n)' /\ ~Cancelled(n)' /\ Lives(n)'
      /\ orders'[n].role = "exit" /\ orders'[n].side = -Side(r) /\ orders'[n].qty = 1
      /\ ~orders'[n].cancel /\ book'[n].state = "working"
  <2>1. -Side(r) \in {1, -1}
    BY <1>3
  <2> QED BY <1>2, <1>5, <2>1, NewExit
<1>7. \A x \in Ids : x # n =>
        /\ Followed(x)' = Followed(x) /\ Ended(x)' = Ended(x) /\ Knows(x)' = Knows(x)
        /\ Executed(x)' = Executed(x) /\ Cancelled(x)' = Cancelled(x) /\ Lives(x)' = Lives(x)
  BY <1>5 DEF Followed, Ended, Knows, Executed, Cancelled, Lives
<1>8. /\ Side(r)' = Side(r) /\ ~Bracketing' /\ ~Lives(r)'
      /\ ~Closed(r)' /\ Executed(r)' /\ ~Cancelled(r)'
  <2>1. Side(r)' = Side(r) /\ ~Bracketing' /\ r \in Ids /\ r # n
    BY <1>1, <1>3, <1>4, <1>5 DEF Side, Bracketing
  <2>2. ~Lives(r)' /\ Executed(r)' /\ ~Cancelled(r)'
    BY <1>2, <1>7, <2>1 DEF NothingLives
  <2>3. \A x \in Round(r)' : x # r => ~Executed(x)'
    BY <1>2, <1>3, <1>4, <1>6, <1>7 DEF Closed
  <2> QED BY <2>1, <2>2, <2>3 DEF Closed
<1>g. Ground(r)'
  <2>1. \A x \in Ids : x < r => ~Lives(x)'
    BY <1>2, <1>4, <1>7 DEF NothingLives
  <2>2. ASSUME NEW x \in Round(r)
        PROVE  /\ orders'[x].role = RoleOf(r, x) /\ orders'[x].qty = 1
               /\ orders'[x].side = IF x = r THEN Side(r) ELSE -Side(r)
               /\ Knows(x)' /\ x \notin {r + 1, r + 2} =>
                     book'[x].state \in {"working", "filled", "cancelled"} /\ ~orders'[x].cancel
    BY <1>3, <1>4, <1>5, <1>7 DEF Ground
  <2>3. orders'[n].role = RoleOf(r, n)
    BY <1>3, <1>4, <1>6 DEF RoleOf
  <2> QED BY <1>1, <1>3, <1>4, <1>6, <1>8, <2>1, <2>2, <2>3 DEF Ground, RoleOf
<1>r. Recent(r)'
  BY <1>1, <1>4 DEF Recent, Position
<1>n. Net(r)'
  BY <1>1, <1>2, <1>8 DEF Net
<1>o. Opening(r)'
  BY <1>8 DEF Opening
<1>b. Bracketed(r)'
  <2>1. Ended(r + 1)' /\ Ended(r + 2)' /\ orders'[r] = orders[r] /\ Ended(r)
    BY <1>2, <1>3, <1>4, <1>5, <1>7
  <2> QED BY <1>1, <1>8, <2>1 DEF Bracketed
<1>c. Barred(r)'
  <2>1. \A x \in {r + 1, r + 2} : /\ book'[x] = book[x] /\ orders'[x] = orders[x]
                                  /\ Knows(x)' = Knows(x) /\ Cancelled(x)' = Cancelled(x)
    BY <1>3, <1>4, <1>5, <1>7
  <2> QED BY <1>2, <2>1 DEF Barred
<1>p. Positions(r)'
  BY <1>1, <1>2, <1>8 DEF Positions, Position, Says
<1>f. First(r)'
  BY <1>4, <1>6, <1>8 DEF First, Closed
<1>t. InTurn(r)'
  <2>1. \A x \in Round(r) : Ended(x)'
    BY <1>2, <1>3, <1>4, <1>7
  <2>2. queue' = <<>> /\ call' = None /\ inFlight' = TRUE
    BY <1>1, <1>2
  <2>3. \A t \in timers' : t[1] # "protect"
    BY <1>1, <1>2
  <2>4. \A x \in Round(r)' : x # n => Ended(x)'
    BY <1>4, <2>1
  <2>5. Ended(r)'
    BY <1>3, <2>1
  <2> QED BY <2>2, <2>3, <2>4, <2>5 DEF InTurn
<1>l. Leaving(r)'
  BY <1>1 DEF Leaving, Cancelling, Exiting, Closing, Starting
<1>s. Strict(r)'
  <2>1. Ended(r)'
    BY <1>2, <1>3, <1>4, <1>7
  <2>2. \A x \in Ids : x < r => x # n /\ orders'[x] = orders[x] /\ Followed(x)' = Followed(x)
                                /\ Ended(x)' = Ended(x)
    BY <1>4, <1>5, <1>7
  <2> QED BY <2>1, <2>2 DEF Strict
<1>h. Shielded(r)'
  <2>1. n \in Round(r)' /\ n > r + 2 /\ Lives(n)'
    BY <1>4, <1>6
  <2>2. (\E x \in Round(r) : x > r + 2 /\ Lives(x))'
    BY <2>1
  <2> QED BY <2>2 DEF Shielded
<1> QED BY <1>g, <1>r, <1>n, <1>o, <1>b, <1>c, <1>p, <1>f, <1>t, <1>l, <1>s, <1>h

-----------------------------------------------------------------------------
(* PlaceOrder decides *)

\* What is decided is to be placed.
LEMMA Decided ==
    ASSUME NEW side \in {1, -1}, NEW qty \in Nat, NEW barriers \in BOOLEAN,
           Decide(side, qty, barriers)
    PROVE  /\ call' # None /\ call'.stage = "place"
           /\ call'.side = side /\ call'.qty = qty /\ call'.barriers = barriers
           /\ Starting' = barriers /\ Closing' = ~barriers
           /\ ~Bracketing' /\ ~Cancelling' /\ ~Exiting' /\ inFlight' = inFlight
           /\ UNCHANGED <<nextID, posDue, orders, book, net, wire, held, timers, queue, bracket>>
<1> DEFINE c == [stage |-> "place", side |-> side, qty |-> qty, barriers |-> barriers]
<1>1. c \in Calls
  BY DEF Calls
<1>2. c # None /\ c.stage = "place" /\ c.side = side /\ c.qty = qty /\ c.barriers = barriers
  BY <1>1, IBAssumption
<1>3. call' = c
  BY DEF Decide
<1> HIDE DEF c
<1>4. UNCHANGED <<inFlight, nextID, posDue, orders, book, net, wire, held, timers, queue, bracket>>
  BY DEF Decide, followVars, twsVars
<1> QED BY <1>2, <1>3, <1>4 DEF Starting, Closing, Bracketing, Cancelling, Exiting

\* What is to be placed keeps its side and its size.
LEMMA Staged ==
    ASSUME TypeOK, call # None, call.stage = "place",
           NEW stage \in {"entering", "exiting", "naked"}, call' = [call EXCEPT !.stage = stage]
    PROVE  /\ call' # None /\ call'.stage = stage /\ call'.side = call.side /\ call'.qty = call.qty
           /\ Starting' <=> stage = "entering"
           /\ Closing' <=> stage = "exiting"
           /\ ~Bracketing' /\ ~Cancelling' /\ ~Exiting'
<1>1. call \in [stage : {"place", "entering", "exiting", "naked"}, side : {1, -1}, qty : Nat,
                barriers : BOOLEAN]
  BY DEF TypeOK, Calls
<1>2. call' \in Calls /\ call'.stage = stage /\ call'.side = call.side /\ call'.qty = call.qty
  BY <1>1 DEF Calls
<1>3. call' # None
  BY <1>2, IBAssumption
<1> QED BY <1>2, <1>3 DEF Starting, Closing, Bracketing, Cancelling, Exiting

LEMMA PlaceExitKept ==
    ASSUME Always, Sound, NEW r \in Ids, InRound(r), PlaceExit
    PROVE  InRound(r)'
<1> USE DEF InRound
<1>0. TypeOK /\ Heard
  BY DEF Always
<1>1. /\ nextID \in Int /\ r \in Int /\ {r, r + 1, r + 2} \subseteq Round(r)
      /\ r \notin {r + 1, r + 2}
      /\ \A x \in Round(r) : x \in Int /\ x \in Ids /\ Followed(x) /\ orders[x] \in Tracks
      /\ Side(r) \in {1, -1}
  BY RoundIds
<1>x. /\ Closing /\ ~inFlight /\ call.side = -Side(r) /\ call.qty = 1
      /\ Executed(r) /\ Ended(r) /\ ~Says(<<"position", Side(r)>>) /\ ~Bracketing
  <2>1. Closing /\ ~Bracketing
    BY DEF PlaceExit, Closing, Bracketing
  <2>2. ~inFlight
    BY <2>1 DEF InTurn, Closing
  <2> QED BY <2>1, <2>2 DEF Leaving
<1> DEFINE waits == IF bracket = None THEN {} ELSE {id \in BarriersOf(bracket) : ~Ended(id)}
<1>2. /\ waits \subseteq {r + 1, r + 2}
      /\ \A x \in {r + 1, r + 2} : x \notin waits => Ended(x) \/ Over
  <2>1. CASE bracket = None
    BY <1>1, <2>1 DEF Bracketed
  <2>2. CASE bracket # None
    <3>1. BarriersOf(bracket) = {r + 1, r + 2}
      BY <2>2 DEF Bracketed, BarriersOf, LimitOf, StopOf
    <3> QED BY <2>2, <3>1
  <2> QED BY <2>1, <2>2
<1>3. /\ bracket' = IF bracket = None THEN None ELSE [bracket EXCEPT !.closing = TRUE]
      /\ call' = [stage |-> "cancel", side |-> -Side(r), qty |-> 1, waits |-> waits]
      /\ nextID' = nextID
      /\ UNCHANGED <<up, held, timers, queue, inFlight, book, net, wire, posDue>>
  BY <1>x DEF PlaceExit, CancelCalled, twsVars
<1>4. \A x \in Ids : orders'[x] = IF x \in waits THEN [orders[x] EXCEPT !.cancel = TRUE] ELSE orders[x]
  <2>1. \A x \in waits : Followed(x)
    BY <1>1, <1>2
  <2> QED BY <2>1 DEF PlaceExit
<1> HIDE DEF waits
<1>5. /\ call'.stage = "cancel" /\ call'.side = -Side(r) /\ call'.qty = 1 /\ call'.waits = waits
      /\ call' # None
  <2>1. call'.stage = "cancel" /\ call'.side = -Side(r) /\ call'.qty = 1 /\ call'.waits = waits
    BY <1>3
  <2>2. call' \in Calls
    <3>1. waits \in SUBSET Ids /\ -Side(r) \in {1, -1}
      BY <1>1, <1>2
    <3>2. \A s \in {1, -1} : [stage |-> "cancel", side |-> s, qty |-> 1, waits |-> waits] \in Calls
      BY <3>1 DEF Calls
    <3> QED BY <1>3, <3>1, <3>2
  <2> QED BY <2>1, <2>2, IBAssumption
<1>6. \A x \in Ids :
        /\ Followed(x)' <=> Followed(x)
        /\ Ended(x)' <=> Ended(x)
        /\ Followed(x) => /\ orders'[x].role = orders[x].role /\ orders'[x].side = orders[x].side
                          /\ orders'[x].qty = orders[x].qty /\ orders'[x].exec = orders[x].exec
                          /\ orders'[x].status = orders[x].status /\ orders'[x].end = orders[x].end
                          /\ orders'[x].cancel = IF x \in waits THEN TRUE ELSE orders[x].cancel
  <2> SUFFICES ASSUME NEW x \in Ids
               PROVE  /\ Followed(x)' <=> Followed(x)
                      /\ Ended(x)' <=> Ended(x)
                      /\ Followed(x) =>
                          /\ orders'[x].role = orders[x].role /\ orders'[x].side = orders[x].side
                          /\ orders'[x].qty = orders[x].qty /\ orders'[x].exec = orders[x].exec
                          /\ orders'[x].status = orders[x].status /\ orders'[x].end = orders[x].end
                          /\ orders'[x].cancel = IF x \in waits THEN TRUE ELSE orders[x].cancel
    OBVIOUS
  <2>1. CASE x \in waits
    <3>1. orders[x] \in Tracks /\ Followed(x) /\ orders'[x] = [orders[x] EXCEPT !.cancel = TRUE]
      BY <1>1, <1>2, <1>4, <2>1
    <3>2. orders'[x] \in Tracks
      BY <3>1 DEF Tracks
    <3>3. Followed(x)'
      BY <3>2, IBAssumption DEF Followed
    <3>4. /\ orders'[x].role = orders[x].role /\ orders'[x].side = orders[x].side
          /\ orders'[x].qty = orders[x].qty /\ orders'[x].exec = orders[x].exec
          /\ orders'[x].status = orders[x].status /\ orders'[x].end = orders[x].end
          /\ orders'[x].cancel = TRUE
      BY <3>1 DEF Tracks
    <3> QED BY <2>1, <3>1, <3>3, <3>4 DEF Ended
  <2>2. CASE x \notin waits
    <3>1. orders'[x] = orders[x]
      BY <1>4, <2>2
    <3> QED BY <2>2, <3>1 DEF Followed, Ended
  <2> QED BY <2>1, <2>2
<1>7. /\ \A x : /\ Executed(x)' = Executed(x) /\ Cancelled(x)' = Cancelled(x)
                /\ Knows(x)' = Knows(x) /\ Lives(x)' = Lives(x) /\ Says(x)' = Says(x)
      /\ \A i : Position(i)' = Position(i)
      /\ NoPosition' = NoPosition /\ NothingLives' = NothingLives
      /\ Round(r)' = Round(r) /\ ~Bracketing' /\ ~Lives(r)
  BY <1>x, <1>3, <1>5 DEF Executed, Cancelled, Knows, Lives, Says, Position, NoPosition, NothingLives,
                    Round, Bracketing, Alive, Waiting
<1>8. Side(r)' = Side(r) /\ Closed(r)' = Closed(r) /\ Over' = Over
  BY <1>1, <1>3, <1>6, <1>7 DEF Side, Closed, Over
<1>9. \A x \in Round(r) : x \notin {r + 1, r + 2} => x \notin waits /\ Ended(x)
  <2> SUFFICES ASSUME NEW x \in Round(r), x \notin {r + 1, r + 2} PROVE x \notin waits /\ Ended(x)
    OBVIOUS
  <2>1. x = r \/ x > r + 2
    BY RoundRoles
  <2>2. Ended(x)
    BY <1>x, <2>1 DEF InTurn
  <2> QED BY <1>2, <2>1, <2>2
<1>g. Ground(r)'
  <2>1. ASSUME NEW x \in Round(r)
        PROVE  /\ orders'[x].role = RoleOf(r, x) /\ orders'[x].qty = 1
               /\ orders'[x].side = IF x = r THEN Side(r) ELSE -Side(r)
               /\ Knows(x)' /\ x \notin {r + 1, r + 2} =>
                     book'[x].state \in {"working", "filled", "cancelled"} /\ ~orders'[x].cancel
    <3>1. /\ x \in Ids /\ Followed(x)
          /\ Knows(x)' = Knows(x) /\ book' = book
      BY <1>1, <1>3, <1>7
    <3>2. /\ orders'[x].role = orders[x].role /\ orders'[x].side = orders[x].side
          /\ orders'[x].qty = orders[x].qty
          /\ x \notin {r + 1, r + 2} => orders'[x].cancel = orders[x].cancel
      BY <1>6, <1>9, <3>1
    <3> QED BY <3>1, <3>2 DEF Ground
  <2>2. \A x \in Ids : x < r => ~Lives(x)'
    BY <1>7 DEF Ground
  <2>3. r + 2 < nextID' /\ ~posDue'
    BY <1>3 DEF Ground
  <2> QED BY <1>7, <1>8, <2>1, <2>2, <2>3 DEF Ground, RoleOf
<1>r. Recent(r)'
  BY <1>3, <1>7 DEF Recent
<1>n. Net(r)'
  BY <1>3, <1>7, <1>8 DEF Net
<1>o. Opening(r)'
  BY <1>7 DEF Opening
<1>b. Bracketed(r)'
  <2>1. bracket' # None => /\ bracket # None /\ bracket'.side = bracket.side
                           /\ bracket'.parent = bracket.parent
    BY <1>0, <1>3 DEF TypeOK, Brackets
  <2>2. bracket' = None => bracket = None
    <3>1. bracket \in Brackets => [bracket EXCEPT !.closing = TRUE] \in Brackets
      BY DEF Brackets
    <3> QED BY <1>0, <1>3, <3>1, IBAssumption DEF TypeOK
  <2> QED BY <1>1, <1>6, <1>8, <2>1, <2>2 DEF Bracketed
<1>c. Barred(r)'
  <2>1. \A x \in {r + 1, r + 2} : orders[x].cancel => orders'[x].cancel
    BY <1>1, <1>6
  <2> QED BY <1>3, <1>7, <1>8, <2>1 DEF Barred
<1>p. Positions(r)'
  BY <1>3, <1>7, <1>8 DEF Positions
<1>f. First(r)'
  BY <1>1, <1>3, <1>6, <1>7 DEF First
<1>t. InTurn(r)'
  <2>1. (queue # <<>> => Over) /\ (Len(queue) >= 2 => Over)
    BY <1>x DEF InTurn
  <2>2. \A x \in Round(r) : x > r + 2 => Ended(x)'
    BY <1>1, <1>6, <1>9, RoundRoles
  <2>3. Ended(r)'
    BY <1>x, <1>6
  <2>4. \A t \in timers : t[1] = "protect" => net = 0 /\ NothingLives
    BY DEF InTurn
  <2> QED BY <1>x, <1>3, <1>7, <1>8, <2>1, <2>2, <2>3, <2>4 DEF InTurn
<1>l. Leaving(r)'
  <2>1. ~Exiting' /\ ~Starting'
    BY <1>5 DEF Exiting, Starting
  <2>2. \A x \in {r + 1, r + 2} : IF x \in waits THEN orders'[x].cancel ELSE Ended(x)' \/ Over'
    BY <1>1, <1>2, <1>6, <1>8
  <2>3. ~Says(<<"position", Side(r)>>)' /\ Executed(r)' /\ Ended(r)'
    BY <1>x, <1>6, <1>7, <1>8
  <2> QED BY <1>2, <1>5, <1>7, <1>8, <2>1, <2>2, <2>3 DEF Leaving
<1>s. Strict(r)'
  <2>1. Ended(r)'
    BY <1>x, <1>6
  <2>2. \A x \in Ids : Followed(x)' /\ x < r /\ orders'[x].role \notin Barriers =>
           /\ Followed(x) /\ orders[x].role \notin Barriers
           /\ Ended(x) => Ended(x)'
    BY <1>6, <1>8, RoundIds
  <2> QED BY <2>1, <2>2 DEF Strict
<1>h. Shielded(r)'
  BY <1>5 DEF Shielded
<1> QED BY <1>g, <1>r, <1>n, <1>o, <1>b, <1>c, <1>p, <1>f, <1>t, <1>l, <1>s, <1>h

LEMMA ExitKept ==
    ASSUME Always, Sound, NEW r \in Ids, InRound(r), Exit
    PROVE  InRound(r)'
<1> USE DEF InRound
<1>1. call = None /\ ~inFlight /\ held # 0 /\ Decide(-Sign(held), Abs(held), FALSE)
  BY DEF Exit, Ready
<1>2. /\ held = Side(r) /\ Side(r) \in {1, -1}
      /\ Executed(r) /\ ~Says(<<"position", Side(r)>>)
  BY <1>1, RoundIds DEF Positions
<1>3. ~Over /\ ~Bracketing
  BY <1>1 DEF Over, Bracketing
<1>4. Ended(r)
  BY <1>1, <1>3 DEF InTurn
<1>5. -Sign(held) = -Side(r) /\ Abs(held) = 1 /\ -Side(r) \in {1, -1} /\ 1 \in Nat
  BY <1>2 DEF Sign, Abs
<1>6. Decide(-Side(r), 1, FALSE)
  BY <1>1, <1>5
<1>7. /\ call' # None /\ call'.side = -Side(r) /\ call'.qty = 1 /\ ~Starting' /\ ~Bracketing'
      /\ ~Cancelling' /\ ~Exiting' /\ inFlight' = inFlight
      /\ UNCHANGED <<nextID, posDue, orders, book, net, wire, held, timers, queue, bracket>>
  BY <1>5, <1>6, Decided
<1>8. Leaving(r)'
  <2>1. Executed(r)' /\ Ended(r)' /\ Side(r)' = Side(r) /\ ~Says(<<"position", Side(r)>>)'
    BY <1>2, <1>4, <1>7 DEF Executed, Knows, Ended, Followed, Side, Says
  <2> QED BY <1>7, <2>1 DEF Leaving
<1> QED BY <1>1, <1>3, <1>7, <1>8, CallMoves

\* A new order, as it is followed.
JustTracked(t, role, side) ==
    /\ t # None /\ t.role = role /\ t.side = side /\ t.qty = 1
    /\ ~t.exec /\ ~t.status /\ ~t.cancel /\ t.end = ""

LEMMA NewTrack ==
    ASSUME NEW role \in Roles, NEW side \in {1, -1}
    PROVE  JustTracked(Track(role, side, 1), role, side)
<1>1. Track(role, side, 1) \in Tracks
  BY DEF Track, Tracks
<1>2. /\ Track(role, side, 1).role = role /\ Track(role, side, 1).side = side
      /\ Track(role, side, 1).qty = 1
      /\ ~Track(role, side, 1).exec /\ ~Track(role, side, 1).status
      /\ ~Track(role, side, 1).cancel /\ Track(role, side, 1).end = ""
  BY DEF Track
<1> QED BY <1>1, <1>2, IBAssumption DEF JustTracked

\* A round begins.
LEMMA RoundBegins ==
    ASSUME Always, NEW n, n = nextID, NEW side \in {1, -1}, side = call.side, PlaceBracket,
           Delivered, held = 0, net = 0, NothingLives, ~inFlight,
           ~Terse => \A id \in Ids :
              id < n /\ Followed(id) /\ orders[id].role \notin Barriers => Ended(id)
    PROVE  n \in Ids /\ InRound(n)'
<1>0. TypeOK
  BY DEF Always
<1>1. /\ n \in Ids /\ n + 1 \in Ids /\ n + 2 \in Ids /\ nextID' = n + 3 /\ n \in Int
      /\ LimitOf(n) = n + 1 /\ StopOf(n) = n + 2 /\ -side \in {1, -1}
      /\ n # n + 1 /\ n # n + 2 /\ n + 1 # n + 2
      /\ \A id \in Ids : id \in Int
  <2>1. n \in 1..(MaxOrders + 1) /\ MaxOrders \in Int
    BY <1>0, IBAssumption DEF TypeOK
  <2>2. n + 3 - 1 \in Ids /\ nextID' = n + 3
    BY DEF PlaceBracket, Left
  <2>3. n \in Ids /\ n + 1 \in Ids /\ n + 2 \in Ids /\ n \in Int
    BY <2>1, <2>2 DEF Ids
  <2>4. LimitOf(n) = n + 1 /\ StopOf(n) = n + 2 /\ -side \in {1, -1}
    BY DEF LimitOf, StopOf
  <2>5. \A id \in Ids : id \in Int
    BY DEF Ids
  <2> QED BY <2>2, <2>3, <2>4, <2>5
<1>2. /\ orders' = [orders EXCEPT ![n] = Track("entry", side, 1),
                                  ![n + 1] = Track("limit", -side, 1),
                                  ![n + 2] = Track("stop", -side, 1)]
      /\ call' = [stage |-> "bracket", side |-> side, parent |-> n]
      /\ bracket' = [side |-> side, parent |-> n, entered |-> FALSE, closing |-> FALSE]
      /\ wire' = <<>> /\ queue' = <<>> /\ timers' = {} /\ held' = 0 /\ net' = 0
      /\ ~inFlight' /\ ~posDue' /\ book' = book
  BY <1>1 DEF PlaceBracket, twsVars, Delivered
<1>3. /\ orders'[n] = Track("entry", side, 1) /\ orders'[n + 1] = Track("limit", -side, 1)
      /\ orders'[n + 2] = Track("stop", -side, 1)
      /\ \A id \in Ids : id \notin {n, n + 1, n + 2} => orders'[id] = orders[id]
  BY <1>0, <1>1, <1>2 DEF TypeOK
<1>4. /\ "entry" \in Roles /\ "limit" \in Roles /\ "stop" \in Roles
  BY DEF Roles, Barriers
<1>5. \A id \in {n, n + 1, n + 2} :
        JustTracked(orders'[id], RoleOf(n, id), IF id = n THEN side ELSE -side)
  <2>1. /\ JustTracked(orders'[n], "entry", side) /\ JustTracked(orders'[n + 1], "limit", -side)
        /\ JustTracked(orders'[n + 2], "stop", -side)
    BY <1>1, <1>3, <1>4, NewTrack
  <2>2. RoleOf(n, n) = "entry" /\ RoleOf(n, n + 1) = "limit" /\ RoleOf(n, n + 2) = "stop"
    BY <1>1 DEF RoleOf
  <2> QED BY <1>1, <2>1, <2>2
<1>6. \A id \in {n, n + 1, n + 2} :
        /\ id \in Ids /\ ~Knows(id) /\ ~Knows(id)' /\ ~Executed(id)' /\ ~Cancelled(id)'
        /\ ~Lives(id)' /\ ~Ended(id)'
  <2>1. \A id \in {n, n + 1, n + 2} : id \in Ids /\ ~Knows(id)
    BY <1>1, Unused
  <2>2. \A id \in {n, n + 1, n + 2} : ~Knows(id)'
    BY <1>2, <2>1 DEF Knows
  <2> QED BY <1>5, <2>1, <2>2 DEF Executed, Cancelled, Lives, Ended, JustTracked
<1>7. /\ call' # None /\ call'.stage = "bracket" /\ call'.parent = n /\ call'.side = side
      /\ bracket' # None /\ bracket'.side = side /\ bracket'.parent = n
  <2>1. call' \in Calls
    BY <1>1, <1>2 DEF Calls
  <2>2. bracket' \in Brackets
    BY <1>1, <1>2 DEF Brackets
  <2> QED BY <1>2, <2>1, <2>2, IBAssumption
<1>8. /\ Round(n)' = {n, n + 1, n + 2} /\ Side(n)' = side
      /\ NothingLives' /\ ~Closed(n)' /\ ~Executed(n)' /\ ~Cancelled(n)' /\ ~Ended(n)'
      /\ Bracketing' /\ ~Cancelling' /\ ~Exiting' /\ ~Closing' /\ ~Starting'
  <2>1. Round(n)' = {n, n + 1, n + 2}
    <3>1. Round(n)' = n..((n + 3) - 1)
      BY <1>1 DEF Round
    <3> QED BY <1>1, <3>1
  <2>2. Side(n)' = side
    BY <1>5 DEF Side, JustTracked
  <2>3. NothingLives'
    BY <1>2 DEF NothingLives, Lives, Knows
  <2>4. ~Closed(n)'
    BY <1>6, <2>1 DEF Closed
  <2> QED BY <1>6, <1>7, <2>1, <2>2, <2>3, <2>4
          DEF Bracketing, Cancelling, Exiting, Closing, Starting
<1>9. /\ \A x : ~Says(x)' /\ NoPosition'
  BY <1>2 DEF Says, NoPosition
<1>g. Ground(n)'
  <2>1. n + 2 < nextID'
    BY <1>1
  <2>2. \A id \in Ids : id < n => ~Lives(id)'
    BY <1>8 DEF NothingLives
  <2> QED BY <1>2, <1>5, <1>6, <1>8, <2>1, <2>2 DEF Ground, RoleOf, JustTracked
<1>r. Recent(n)'
  BY <1>2 DEF Recent
<1>n. Net(n)'
  BY <1>2, <1>8 DEF Net
<1>o. Opening(n)'
  BY <1>1, <1>2, <1>5, <1>6, <1>7, <1>8 DEF Opening, JustTracked
<1>b. Bracketed(n)'
  BY <1>7, <1>8 DEF Bracketed
<1>c. Barred(n)'
  BY <1>6 DEF Barred
<1>p. Positions(n)'
  <2>1. held' \in {0, Side(n)'} /\ Len(wire') = 0
    BY <1>2
  <2>2. 1..Len(wire') = {}
    BY <2>1
  <2> QED BY <1>2, <1>8, <1>9, <2>1, <2>2 DEF Positions
<1>f. First(n)'
  BY <1>6, <1>8 DEF First
<1>t. InTurn(n)'
  <2>1. \A id \in Round(n)' : ~(id > n + 2)
    BY <1>1, <1>8
  <2> QED BY <1>2, <1>8, <2>1 DEF InTurn
<1>l. Leaving(n)'
  BY <1>8 DEF Leaving
<1>s. Strict(n)'
  <2>1. \A id \in Ids : id < n => id \notin {n, n + 1, n + 2}
    BY <1>1
  <2>2. \A id \in Ids : id < n => Followed(id)' = Followed(id) /\ Ended(id)' = Ended(id) /\ orders'[id] = orders[id]
    BY <1>3, <2>1 DEF Followed, Ended
  <2> QED BY <1>8, <2>2 DEF Strict
<1>h. Shielded(n)'
  BY <1>5 DEF Shielded, JustTracked
<1> QED BY <1>1, <1>g, <1>r, <1>n, <1>o, <1>b, <1>c, <1>p, <1>f, <1>t, <1>l, <1>s, <1>h DEF InRound

LEMMA EnterKept ==
    ASSUME Always, Sound, Rounds, ~Hasty, NEW side \in EntrySides, Enter(side)
    PROVE  Rounds'
<1>1. /\ side \in {1, -1} /\ Ready /\ held = 0 /\ Delivered /\ Decide(side, 1, TRUE)
      /\ call = None /\ ~inFlight
  BY IBAssumption DEF Enter, Ready
<1>2. /\ call' # None /\ call'.qty = 1 /\ Starting' /\ ~Closing' /\ ~Bracketing'
      /\ ~Cancelling' /\ ~Exiting' /\ inFlight' = inFlight
      /\ UNCHANGED <<nextID, posDue, orders, book, net, wire, held, timers, queue, bracket>>
  BY <1>1, Decided
<1>3. CASE Blank
  BY <1>1, <1>2, <1>3 DEF Blank, Rounds
<1>4. ASSUME NEW r \in Ids, InRound(r)
      PROVE  Rounds'
  <2>1. Delivered'
    BY <1>1, <1>2 DEF Delivered
  <2>2. Leaving(r)'
    BY <1>1, <1>2, <2>1 DEF Leaving
  <2>3. ~Bracketing
    BY <1>1 DEF Bracketing
  <2>4. InRound(r)'
    BY <1>1, <1>2, <1>4, <2>2, <2>3, CallMoves
  <2> QED BY <2>4 DEF Rounds
<1> QED BY <1>3, <1>4 DEF Rounds

\* What PlaceOrder makes of what was decided.
Becomes(stage) == call' = [call EXCEPT !.stage = stage] /\ inFlight' = inFlight

LEMMA OrderTaken ==
    ASSUME up, PlaceOrder
    PROVE  \/ Becomes("exiting") /\ ((bracket # None /\ call.side = -bracket.side) \/ held # 0)
           \/ Becomes("entering") /\ call.barriers
           \/ Becomes("naked") /\ ~call.barriers
           \/ call' = None /\ inFlight' = FALSE /\ bracket # None /\ call.side # -bracket.side
  BY DEF PlaceOrder, CallReturns, Becomes

\* PlaceOrder takes the order for what it was decided as, unless the position
\* and the bracket of an exit are gone: it is then placed without barriers.
LEMMA PlaceOrderKept ==
    ASSUME Always, Sound, NEW r \in Ids, InRound(r), PlaceOrder
    PROVE  InRound(r)'
<1> USE DEF InRound
<1>0. TypeOK /\ up
  BY DEF Always, Sound, Followers
<1>1. /\ call # None /\ call.stage = "place" /\ ~inFlight /\ ~Bracketing
      /\ Closing \/ Starting
      /\ UNCHANGED <<nextID, posDue, orders, book, net, wire, held, timers, queue, bracket>>
  BY DEF PlaceOrder, followVars, twsVars, InTurn, Bracketing, Closing, Starting
<1>2. Side(r) \in {1, -1} /\ Side(r) # -Side(r) /\ -(-Side(r)) = Side(r)
  BY RoundIds
<1>3. bracket # None => bracket.side = Side(r) /\ (Ended(r) => orders[r].end = "filled")
  BY DEF Bracketed
<1>4. /\ Executed(r)' = Executed(r) /\ Ended(r)' = Ended(r) /\ Side(r)' = Side(r)
      /\ Says(<<"position", Side(r)>>)' = Says(<<"position", Side(r)>>)
      /\ Delivered' = Delivered
  BY <1>1 DEF Executed, Knows, Ended, Followed, Side, Says, Delivered
<1>5. ASSUME Starting, bracket # None
      PROVE  Executed(r) /\ Ended(r) /\ Closed(r) /\ ~Says(<<"position", Side(r)>>)
  <2>1. r \in Round(r) /\ orders[r].role = "entry" /\ Followed(r)
    BY RoundIds, RoundRoles
  <2>2. wire = <<>> /\ held = 0 /\ Ended(r)
    BY <1>5, <2>1, StartingIsIdle DEF Barriers
  <2>3. Executed(r)
    BY <1>3, <1>5, <2>1, <2>2 DEF Sound, Noted
  <2>4. ~Says(<<"position", Side(r)>>)
    BY <2>2 DEF Says
  <2> QED BY <2>2, <2>3, <2>4 DEF Positions
<1>6. ASSUME NEW stage \in {"entering", "exiting", "naked"}, Becomes(stage),
             stage = "exiting" => (bracket # None /\ call.side = -bracket.side) \/ held # 0,
             stage = "entering" => call.barriers
      PROVE  InRound(r)'
  <2>1. call' = [call EXCEPT !.stage = stage] /\ inFlight' = inFlight
    BY <1>6 DEF Becomes
  <2>2. /\ call' # None /\ call'.side = call.side /\ call'.qty = call.qty
        /\ Starting' <=> stage = "entering"
        /\ Closing' <=> stage = "exiting"
        /\ ~Bracketing' /\ ~Cancelling' /\ ~Exiting'
    BY <1>0, <1>1, <2>1, Staged
  <2>3. ASSUME Starting'
        PROVE  Delivered' /\ held' = 0 /\ call'.qty = 1
    <3>1. Starting
      BY <1>1, <1>6, <2>2, <2>3 DEF Starting
    <3> QED BY <1>1, <1>4, <2>2, <3>1 DEF Leaving
  <2>4. ASSUME Closing'
        PROVE  /\ call'.side = -Side(r) /\ call'.qty = 1
               /\ Executed(r) /\ Ended(r) /\ ~Says(<<"position", Side(r)>>)
    <3>1. CASE Closing
      BY <2>2, <3>1 DEF Leaving
    <3>2. CASE Starting
      <4>1. held = 0 /\ call.qty = 1
        BY <3>2, StartingIsIdle
      <4>2. bracket # None /\ call.side = -bracket.side
        BY <1>6, <2>2, <2>4, <4>1
      <4> QED BY <1>3, <1>5, <2>2, <3>2, <4>1, <4>2
    <3> QED BY <1>1, <3>1, <3>2
  <2>5. Leaving(r)'
    BY <1>4, <2>2, <2>3, <2>4 DEF Leaving
  <2> QED BY <1>1, <2>1, <2>2, <2>5, CallMoves
<1>7. CASE call' = None /\ inFlight' = FALSE /\ bracket # None /\ call.side # -bracket.side
  <2>1. ~Closing
    BY <1>3, <1>7 DEF Leaving
  <2>2. Closed(r)
    BY <1>1, <1>5, <1>7, <2>1
  <2>3. ~Bracketing' /\ Leaving(r)'
    BY <1>7 DEF Bracketing, Leaving, Cancelling, Exiting, Closing, Starting
  <2> QED BY <1>1, <1>7, <2>2, <2>3, CallMoves
<1> QED BY <1>0, <1>6, <1>7, OrderTaken

\* A round begins where the last one is over.
LEMMA PlaceBracketKept ==
    ASSUME Always, Sound, Rounds, PlaceBracket
    PROVE  Rounds'
<1> PICK n : n = nextID
  OBVIOUS
<1>1. call # None /\ Starting /\ ~Bracketing /\ call.side \in {1, -1}
  BY DEF PlaceBracket, Starting, Bracketing, Always, TypeOK, Calls
<1>2. CASE Blank
  <2>1. NothingLives
    <3>1. \A id \in Ids : id >= 1
      BY DEF Ids
    <3>2. \A id \in Ids : ~Knows(id)
      BY <1>2, <3>1, Unused DEF Blank
    <3> QED BY <3>2 DEF NothingLives, Lives
  <2>2. \A id \in Ids : ~(id < n)
    BY <1>2 DEF Blank, Ids
  <2>3. Delivered
    BY <1>2 DEF Blank, Delivered
  <2>4. n \in Ids /\ InRound(n)'
    BY <1>1, <1>2, <2>1, <2>2, <2>3, RoundBegins DEF Blank
  <2> QED BY <2>4 DEF Rounds
<1>3. ASSUME NEW r \in Ids, InRound(r)
      PROVE  Rounds'
  <2>1. /\ r \in Int /\ nextID \in Int /\ \A id \in Ids : id \in Int
    BY <1>3, RoundIds DEF InRound, Ids
  <2>2. /\ Delivered /\ held = 0 /\ net = 0 /\ NothingLives /\ ~inFlight
        /\ \A id \in Round(r) : orders[id].role \notin Barriers => Ended(id)
    BY <1>1, <1>3, StartingIsIdle DEF Delivered
  <2>3. ASSUME ~Terse, NEW id \in Ids, id < n, Followed(id), orders[id].role \notin Barriers
        PROVE  Ended(id)
    <3>1. CASE id < r
      BY <1>3, <2>3, <3>1 DEF InRound, Strict
    <3>2. CASE ~(id < r)
      <4>1. id \in Round(r)
        BY <2>1, <2>3, <3>2 DEF Round
      <4> QED BY <2>2, <2>3, <4>1
    <3> QED BY <3>1, <3>2
  <2>4. n \in Ids /\ InRound(n)'
    BY <1>1, <2>2, <2>3, RoundBegins
  <2> QED BY <2>4 DEF Rounds
<1> QED BY <1>2, <1>3 DEF Rounds

-----------------------------------------------------------------------------
(* An order executes *)

\* What becomes of the orders at TWS.
LEMMA ExecutedBook ==
    ASSUME TypeOK, Heard, NEW id \in Ids, Execute(id)
    PROVE  /\ Lives(id) /\ Knows(id) /\ book[id] \in Books /\ book[id].state \notin Waiting
           /\ ~Executed(id) /\ ~Cancelled(id) /\ Executed(id)' /\ ~Cancelled(id)' /\ ~Lives(id)'
           /\ Knows(id)' /\ book'[id].state = "filled"
           /\ \A t \in Twins(id) : t \in Ids /\ t # id /\ Cancelled(t)' /\ ~Lives(t)'
           /\ \A x \in Ids : /\ book'[x] = book[x] \/ Moved(x)
                             /\ Executed(x)' <=> Executed(x) \/ x = id
                             /\ Cancelled(x)' <=> Cancelled(x) \/ x \in Twins(id)
           /\ \A x \in Ids :
                \/ x = id \/ x \in Twins(id) \/ book'[x] = book[x]
                \/ /\ book[id].role = "entry" /\ x \in {LimitOf(id), StopOf(id)}
                   /\ Knows(x) /\ book[x].state \in Waiting
           /\ book[id].role = "entry" => Twins(id) = {}
           /\ \A x \in Ids :
                /\ book[id].role = "entry" /\ x \in {LimitOf(id), StopOf(id)} /\ x # id
                /\ Knows(x) /\ book[x].state = "attached"
                => Knows(x)' /\ book'[x].state = "working"
<1> DEFINE o == book[id]
<1>1. Knows(id) /\ o \in Books /\ Lives(id) /\ o.state \notin Waiting
  BY KnownIsSent DEF Execute, Lives
<1>2. book' = [other \in Ids |->
         CASE other = id          -> [o EXCEPT !.state = "filled"]
           [] other \in Twins(id) -> [book[other] EXCEPT !.state = "cancelled"]
           [] /\ o.role = "entry" /\ other \in {LimitOf(id), StopOf(id)}
              /\ Knows(other) /\ book[other].state \in Waiting
                                  -> [book[other] EXCEPT !.state =
                                        IF @ = "attached" THEN "working" ELSE "cancelling"]
           [] OTHER               -> book[other]]
  BY DEF Execute
<1>3. \A other \in Twins(id) : other \in Ids /\ Lives(other) /\ other # id
          /\ {book[id].role, book[other].role} = Barriers
  BY <1>1 DEF Twins, Abs, Ids
<1>4. o.role = "entry" => Twins(id) = {}
  BY <1>3 DEF Barriers
<1>5. id # LimitOf(id) /\ id # StopOf(id)
  BY DEF LimitOf, StopOf, Ids
<1>6. ~Executed(id) /\ ~Cancelled(id)
  BY <1>1 DEF Lives, Executed, Cancelled, Alive, Waiting
<1>7. ASSUME NEW x \in Ids
      PROVE  /\ book'[x] = book[x] \/ Moved(x)
             /\ Executed(x)' <=> Executed(x) \/ x = id
             /\ Cancelled(x)' <=> Cancelled(x) \/ x \in Twins(id)
             /\ x = id => Knows(x)' /\ book'[x].state = "filled"
             /\ x \in Twins(id) => Knows(x)' /\ book'[x].state = "cancelled"
             /\ \/ x = id \/ x \in Twins(id) \/ book'[x] = book[x]
                \/ /\ book[id].role = "entry" /\ x \in {LimitOf(id), StopOf(id)}
                   /\ Knows(x) /\ book[x].state \in Waiting
             /\ /\ book[id].role = "entry" /\ x \in {LimitOf(id), StopOf(id)} /\ x # id
                /\ Knows(x) /\ book[x].state = "attached"
                => Knows(x)' /\ book'[x].state = "working"
  <2>1. CASE x = id
    <3>1. book'[x] = [book[x] EXCEPT !.state = "filled"]
      BY <1>2, <1>3, <1>5, <2>1
    <3>2. [book[x] EXCEPT !.state = "filled"] \in Books /\ book'[x].state = "filled"
      BY <1>1, <2>1, <3>1, StateMoves DEF Books
    <3>3. Knows(x)' /\ x \notin Twins(id)
      BY <1>3, <2>1, <3>1, <3>2, IBAssumption DEF Knows
    <3> QED BY <1>1, <1>6, <2>1, <3>1, <3>2, <3>3 DEF Moved, Executed, Cancelled
  <2>2. CASE x \in Twins(id)
    <3>1. o.role # "entry" /\ x # id /\ Lives(x) /\ Knows(x)
      BY <1>3, <2>2 DEF Barriers, Lives
    <3>2. book'[x] = [book[x] EXCEPT !.state = "cancelled"]
      BY <1>2, <2>2, <3>1
    <3>3. [book[x] EXCEPT !.state = "cancelled"] \in Books /\ book'[x].state = "cancelled"
      BY <3>1, <3>2, StateMoves DEF Books
    <3>4. Knows(x)' /\ ~Executed(x)
      BY <3>1, <3>2, <3>3, IBAssumption DEF Knows, Lives, Executed, Alive, Waiting
    <3> QED BY <2>2, <3>1, <3>2, <3>3, <3>4 DEF Moved, Executed, Cancelled
  <2>3. CASE /\ x # id /\ x \notin Twins(id)
             /\ o.role = "entry" /\ x \in {LimitOf(id), StopOf(id)}
             /\ Knows(x) /\ book[x].state \in Waiting
    <3>1. PICK s \in {"working", "cancelling"} :
             /\ book'[x] = [book[x] EXCEPT !.state = s]
             /\ book[x].state = "attached" => s = "working"
      BY <1>2, <2>3
    <3>2. Lives(x) /\ ~Executed(x) /\ ~Cancelled(x)
      BY <2>3 DEF Lives, Executed, Cancelled, Alive, Waiting
    <3>3. [book[x] EXCEPT !.state = s] \in Books /\ book'[x].state = s
      BY <2>3, <3>1, StateMoves DEF Alive, Books
    <3>4. Knows(x)'
      BY <3>1, <3>3, IBAssumption DEF Knows
    <3> QED BY <2>3, <3>1, <3>2, <3>3, <3>4 DEF Moved, Alive, Executed, Cancelled
  <2>4. CASE /\ x # id /\ x \notin Twins(id)
             /\ ~(/\ o.role = "entry" /\ x \in {LimitOf(id), StopOf(id)}
                  /\ Knows(x) /\ book[x].state \in Waiting)
    <3>1. book'[x] = book[x]
      BY <1>2, <2>4
    <3> QED BY <2>4, <3>1 DEF Executed, Cancelled, Knows, Waiting
  <2> QED BY <2>1, <2>2, <2>3, <2>4
<1>8. ~Lives(id)' /\ ~Cancelled(id)' /\ Executed(id)'
  BY <1>7 DEF Lives, Cancelled, Executed, Alive, Waiting
<1>9. \A t \in Twins(id) : t \in Ids /\ t # id /\ Cancelled(t)' /\ ~Lives(t)'
  BY <1>3, <1>7 DEF Lives, Cancelled, Alive, Waiting
<1> QED BY <1>1, <1>4, <1>6, <1>7, <1>8, <1>9

LEMMA Headed ==
    ASSUME NEW p \in Messages, NEW a \in Seq(Messages), NEW b \in Seq(Messages), NEW S,
           Said(a, S), Said(b, S)
    PROVE  /\ (<<p>> \o a) \o b \in Seq(Messages)
           /\ 1 \in 1..Len((<<p>> \o a) \o b) /\ ((<<p>> \o a) \o b)[1] = p
           /\ \A i \in 1..Len((<<p>> \o a) \o b) : i # 1 => ((<<p>> \o a) \o b)[i] \in S
<1> PICK first : first = <<p>> \o a
  OBVIOUS
<1>1. /\ <<p>> \in Seq(Messages) /\ Len(<<p>>) = 1 /\ <<p>>[1] = p
      /\ Len(a) \in Nat /\ Len(b) \in Nat
  OBVIOUS
<1>2. /\ first \in Seq(Messages) /\ Len(first) = 1 + Len(a)
      /\ \A i \in 1..1 : first[i] = <<p>>[i]
      /\ \A i \in 1..Len(a) : first[1 + i] = a[i]
      /\ \A i \in 1..Len(first) : i \in 1..1 \/ (i - 1 \in 1..Len(a) /\ first[i] = a[i - 1])
  BY <1>1, Joining
<1>3. first[1] = p /\ 1 \in 1..Len(first)
  BY <1>1, <1>2
<1>4. \A i \in 1..Len(first) : i # 1 => first[i] \in S
  BY <1>2 DEF Said
<1> PICK m : m = first \o b
  OBVIOUS
<1>5. /\ m \in Seq(Messages) /\ Len(m) = Len(first) + Len(b)
      /\ \A i \in 1..Len(first) : m[i] = first[i]
      /\ \A i \in 1..Len(m) : i \in 1..Len(first) \/ (i - Len(first) \in 1..Len(b) /\ m[i] = b[i - Len(first)])
  BY <1>2, Joining
<1>6. 1 \in 1..Len(m) /\ m[1] = p
  BY <1>1, <1>2, <1>3, <1>5
<1>7. ASSUME NEW i \in 1..Len(m), i # 1 PROVE m[i] \in S
  <2>1. CASE i \in 1..Len(first)
    BY <1>4, <1>5, <1>7, <2>1
  <2>2. CASE i - Len(first) \in 1..Len(b) /\ m[i] = b[i - Len(first)]
    BY <2>2 DEF Said
  <2> QED BY <1>5, <2>1, <2>2
<1> QED BY <1>5, <1>6, <1>7

\* What TWS says of it: the position first.
LEMMA ExecutedSays ==
    ASSUME Always, up, ~LatePositions, NEW id \in Ids, Execute(id)
    PROVE  \E m \in Seq(Messages) :
              /\ wire' = wire \o m /\ 1 \in 1..Len(m) /\ m[1] = <<"position", net'>>
              /\ \A i \in 1..Len(m) : i # 1 =>
                   /\ m[i][1] # "position" /\ m[i][2] \in {id} \cup Twins(id)
                   /\ Twins(id) = {} /\ ~Terse =>
                        m[i] \in {<<"execution", id>>, <<"commission", id>>}
              /\ ~Terse => DueIn(m, id)
<1>0. TypeOK /\ Heard
  BY DEF Always
<1> DEFINE p == <<"position", net'>>
           S == {x \in Messages :
                   /\ x[1] # "position" /\ x[2] \in {id} \cup Twins(id)
                   /\ Twins(id) = {} /\ ~Terse =>
                        x \in {<<"execution", id>>, <<"commission", id>>}}
<1>1. net' \in Int /\ net' = net + book[id].side * book[id].qty
  <2>1. net \in Int /\ book[id].side \in {1, -1} /\ book[id].qty \in Nat
    BY <1>0, ExecutedBook DEF TypeOK, Books
  <2>2. book[id].side * book[id].qty \in Int
    BY <2>1
  <2> QED BY <2>1, <2>2 DEF Execute
<1>2. p \in Messages
  BY <1>1 DEF Messages, Kinds
<1>3. \E news \in News(id), twins \in OfEach("cancelled", Twins(id)) :
          Sends(<<p>> \o news \o twins) \/ Sends(<<p>> \o twins \o news)
  BY <1>1 DEF Execute
<1> PICK news \in News(id), twins \in OfEach("cancelled", Twins(id)) :
          Sends(<<p>> \o news \o twins) \/ Sends(<<p>> \o twins \o news)
  BY <1>3
<1>4. "cancelled" \in Kinds /\ Twins(id) \in SUBSET Ids
  BY DEF Kinds, Twins
<1>5. /\ twins \in Seq(Messages)
      /\ \A i \in 1..Len(twins) : \E t \in Twins(id) : twins[i] = <<"cancelled", t>>
  BY <1>4, EachHas
<1>6. \A t \in Twins(id) : <<"cancelled", t>> \in S
  BY <1>4 DEF Messages, Ids
<1>7. Said(twins, S) /\ ~Has(twins, <<"commission", id>>)
  <2>1. Said(twins, S)
    BY <1>5, <1>6 DEF Said
  <2> QED BY <1>5, <2>1 DEF Has
<1>8. news \in Seq(Messages) /\ (~Terse => DueIn(news, id))
  BY NewsTold
<1>9. Said(news, S)
  <2>1. <<"execution", id>> \in S /\ <<"commission", id>> \in S /\ (Terse => <<"filled", id>> \in S)
    BY DEF Messages, Kinds, Ids
  <2> HIDE DEF S
  <2>2. CASE news = << <<"execution", id>>, <<"commission", id>> >>
    BY <2>1, <2>2 DEF Said
  <2>3. CASE Terse /\ news = << <<"execution", id>>, <<"execution", id>>, <<"commission", id>> >>
    BY <2>1, <2>3 DEF Said
  <2>4. CASE Terse /\ news = << <<"execution", id>> >>
    BY <2>1, <2>4 DEF Said
  <2>5. CASE Terse /\ news = << <<"filled", id>> >>
    BY <2>1, <2>5 DEF Said
  <2> QED BY <2>2, <2>3, <2>4, <2>5 DEF News
<1>10. /\ <<p>> \in Seq(Messages)
       /\ ~Has(<<p>>, <<"commission", id>>)
  BY <1>2 DEF Has
<1> HIDE DEF S, p
<1>11. ASSUME NEW m \in Seq(Messages), Sends(m), 1 \in 1..Len(m), m[1] = p,
              \A i \in 1..Len(m) : i # 1 => m[i] \in S, ~Terse => DueIn(m, id)
       PROVE  \E n \in Seq(Messages) :
                /\ wire' = wire \o n /\ 1 \in 1..Len(n) /\ n[1] = <<"position", net'>>
                /\ \A i \in 1..Len(n) : i # 1 =>
                     /\ n[i][1] # "position" /\ n[i][2] \in {id} \cup Twins(id)
                     /\ Twins(id) = {} /\ ~Terse =>
                          n[i] \in {<<"execution", id>>, <<"commission", id>>}
                /\ ~Terse => DueIn(n, id)
  <2>1. wire' = wire \o m
    BY <1>11 DEF Sends
  <2>2. \A x \in S : /\ x[1] # "position" /\ x[2] \in {id} \cup Twins(id)
                     /\ Twins(id) = {} /\ ~Terse =>
                          x \in {<<"execution", id>>, <<"commission", id>>}
    BY DEF S
  <2> WITNESS m \in Seq(Messages)
  <2> QED BY <1>11, <2>1, <2>2 DEF p
<1>12. CASE Sends(<<p>> \o news \o twins)
  <2> DEFINE first == <<p>> \o news
             m == first \o twins
  <2>1. m \in Seq(Messages) /\ 1 \in 1..Len(m) /\ m[1] = p /\ \A i \in 1..Len(m) : i # 1 => m[i] \in S
    BY <1>2, <1>5, <1>7, <1>8, <1>9, Headed
  <2>2. first \in Seq(Messages) /\ (~Terse => DueIn(first, id))
    BY <1>8, <1>10, Joining, JoinedDue
  <2>3. Sends(m)
    BY <1>12
  <2> HIDE DEF first
  <2>4. ~Terse => DueIn(m, id)
    BY <1>5, <2>2, JoinedDue
  <2> HIDE DEF m
  <2> QED BY <1>11, <2>1, <2>3, <2>4
<1>13. CASE Sends(<<p>> \o twins \o news)
  <2> DEFINE first == <<p>> \o twins
             m == first \o news
  <2>1. m \in Seq(Messages) /\ 1 \in 1..Len(m) /\ m[1] = p /\ \A i \in 1..Len(m) : i # 1 => m[i] \in S
    BY <1>2, <1>5, <1>7, <1>8, <1>9, Headed
  <2>2. first \in Seq(Messages)
    BY <1>5, <1>10, Joining
  <2>3. ~Has(first, <<"commission", id>>)
    <3>1. \A i \in 1..Len(first) :
            (i \in 1..Len(<<p>>) /\ first[i] = <<p>>[i])
            \/ (i - Len(<<p>>) \in 1..Len(twins) /\ first[i] = twins[i - Len(<<p>>)])
      BY <1>5, <1>10, Joining
    <3> HIDE DEF first
    <3> QED BY <1>7, <1>10, <3>1 DEF Has
  <2>4. Sends(m)
    BY <1>13
  <2> HIDE DEF first
  <2>5. ~Terse => DueIn(m, id)
    BY <1>8, <2>2, <2>3, JoinedDue
  <2> HIDE DEF m
  <2> QED BY <1>11, <2>1, <2>4, <2>5
<1> QED BY <1>12, <1>13

\* The entry executes, and its barriers are at work.
LEMMA EntryExecuted ==
    ASSUME Always, Sound, NEW r \in Ids, InRound(r), ~LatePositions, Execute(r)
    PROVE  InRound(r)'
<1> USE DEF InRound
<1>0. TypeOK /\ Heard /\ up
  BY DEF Always, Sound, Followers
<1>1. /\ UNCHANGED <<up, nextID, held, orders, bracket, timers, queue, call, inFlight>>
      /\ ~posDue' /\ net' = net + book[r].side * book[r].qty
  BY DEF Execute, followVars, callVars
<1>2. /\ Lives(r) /\ Knows(r) /\ ~Executed(r) /\ Executed(r)' /\ ~Cancelled(r)' /\ ~Lives(r)'
      /\ Knows(r)' /\ book'[r].state = "filled"
      /\ \A x \in Ids : /\ book'[x] = book[x] \/ Moved(x)
                        /\ Executed(x)' <=> Executed(x) \/ x = r
                        /\ Cancelled(x)' <=> Cancelled(x) \/ x \in Twins(r)
      /\ \A x \in Ids :
           \/ x = r \/ x \in Twins(r) \/ book'[x] = book[x]
           \/ /\ book[r].role = "entry" /\ x \in {LimitOf(r), StopOf(r)}
              /\ Knows(x) /\ book[x].state \in Waiting
      /\ book[r].role = "entry" => Twins(r) = {}
      /\ \A x \in Ids :
           /\ book[r].role = "entry" /\ x \in {LimitOf(r), StopOf(r)} /\ x # r
           /\ Knows(x) /\ book[x].state = "attached"
           => Knows(x)' /\ book'[x].state = "working"
  BY <1>0, ExecutedBook
<1>3. /\ nextID \in Int /\ r \in Int /\ {r, r + 1, r + 2} \subseteq Round(r)
      /\ \A x \in Round(r) : x \in Int /\ x \in Ids
      /\ Side(r) \in {1, -1} /\ r \notin {r + 1, r + 2}
      /\ \A x \in Ids : x \in Int
      /\ \A x \in Ids : Lives(x) => x \in Round(r)
      /\ \A x \in Ids : Ended(x) => ~Lives(x)
  BY RoundIds DEF Ids
<1>4. /\ nextID = r + 3 /\ wire = <<>> /\ queue = <<>> /\ timers = {} /\ held = 0
      /\ \A x \in Round(r) : ~orders[x].cancel /\ ~Ended(x)
      /\ bracket # None /\ ~Bracketing /\ call = None /\ inFlight
      /\ \A x \in {r + 1, r + 2} : book[x].state = "attached"
  <2>1. ~Bracketing
    BY <1>2, <1>3, Phases
  <2> QED BY <1>2, <2>1 DEF Opening
<1>5. \A x \in Round(r) : x = r \/ x = r + 1 \/ x = r + 2
  BY <1>3, <1>4 DEF Round
<1>6. book[r].role = "entry" /\ book[r].side = Side(r) /\ book[r].qty = 1
  <2>1. orders[r].role = "entry" /\ orders[r].qty = 1
    BY <1>3, RoundRoles DEF Ground
  <2> QED BY <1>2, <2>1 DEF Sound, Followers, Side
<1>7. \A x \in {r + 1, r + 2} : Knows(x)
  <2>1. \A x \in {r + 1, r + 2} : x \in Ids /\ x < nextID /\ ~Ahead(x)
    BY <1>3, <1>4 DEF Ahead
  <2> QED BY <2>1 DEF Sound, Followers
<1>8. /\ \A x \in {r + 1, r + 2} : Knows(x)' /\ book'[x].state = "working"
      /\ Twins(r) = {}
      /\ \A x \in Ids : x \notin {r, r + 1, r + 2} => book'[x] = book[x]
  <2>1. LimitOf(r) = r + 1 /\ StopOf(r) = r + 2
    BY DEF LimitOf, StopOf
  <2>2. \A x \in {r + 1, r + 2} : x \in Ids /\ x # r
    BY <1>3
  <2> QED BY <1>2, <1>4, <1>6, <1>7, <2>1, <2>2
<1>9. net' = Side(r) /\ Side(r) # 0
  <2>1. net = 0
    BY <1>2 DEF Net
  <2>2. book[r].side * book[r].qty = Side(r)
    BY <1>3, <1>6
  <2> QED BY <1>1, <1>3, <2>1, <2>2
<1>10. \A x \in Round(r) : x # r => ~Executed(x)' /\ ~Cancelled(x)'
  BY <1>5, <1>8 DEF Executed, Cancelled
<1>11. /\ Round(r)' = Round(r) /\ Side(r)' = Side(r) /\ ~Bracketing'
       /\ ~Closed(r)'
       /\ \A x : Ended(x)' = Ended(x) /\ Followed(x)' = Followed(x)
  BY <1>1, <1>4, <1>10 DEF Round, Side, Bracketing, Closed, Ended, Followed
<1> PICK m \in Seq(Messages) :
      /\ wire' = wire \o m /\ 1 \in 1..Len(m) /\ m[1] = <<"position", net'>>
      /\ \A i \in 1..Len(m) : i # 1 =>
           /\ m[i][1] # "position" /\ m[i][2] \in {r} \cup Twins(r)
           /\ Twins(r) = {} /\ ~Terse =>
                m[i] \in {<<"execution", r>>, <<"commission", r>>}
      /\ ~Terse => DueIn(m, r)
  BY <1>0, ExecutedSays
<1>12. /\ wire' = m /\ 1 \in 1..Len(wire') /\ wire'[1] = <<"position", Side(r)>>
       /\ \A i \in 1..Len(wire') : i # 1 =>
            /\ ~Position(i)' /\ wire'[i][2] = r
            /\ ~Terse => wire'[i] \in {<<"execution", r>>, <<"commission", r>>}
       /\ ~Terse => DueIn(wire', r)
  <2>1. wire' = m
    BY <1>4
  <2> QED BY <1>8, <1>9, <2>1 DEF Position
<1>13. /\ Says(<<"position", Side(r)>>)' /\ ~Says(<<"position", 0>>)'
       /\ \A i \in 1..Len(wire') : Position(i)' => i = 1
       /\ wire'[1][2] = Side(r) /\ Position(1)'
  <2>1. Says(<<"position", Side(r)>>)'
    BY <1>11, <1>12 DEF Says
  <2>2. \A i \in 1..Len(wire') : Position(i)' => i = 1
    BY <1>12
  <2>3. wire'[1][2] = Side(r) /\ Position(1)'
    BY <1>12 DEF Position
  <2>4. ASSUME NEW i \in 1..Len(wire'), wire'[i] = <<"position", 0>> PROVE FALSE
    <3>1. Position(i)' /\ wire'[i][2] = 0
      BY <2>4 DEF Position
    <3> QED BY <1>9, <2>2, <2>3, <3>1
  <2> QED BY <2>1, <2>2, <2>3, <2>4 DEF Says
<1>g. Ground(r)'
  <2>1. \A x \in Ids : x < r => ~Lives(x)'
    <3>1. \A x \in Ids : x < r => x \notin {r, r + 1, r + 2}
      BY <1>3
    <3> QED BY <1>8, <3>1 DEF Ground, Lives, Knows
  <2>2. \A x \in Round(r) : Knows(x)' /\ x \notin {r + 1, r + 2} =>
           book'[x].state \in {"working", "filled", "cancelled"} /\ ~orders'[x].cancel
    BY <1>1, <1>2, <1>4, <1>5
  <2> QED BY <1>1, <1>11, <2>1, <2>2 DEF Ground, RoleOf
<1>r. Recent(r)'
  <2>1. \A i \in 1..Len(wire') : ~Position(i)' => wire'[i][2] \in Round(r)
    BY <1>3, <1>12, <1>13
  <2> QED BY <1>1, <1>4, <1>11, <2>1 DEF Recent
<1>n. Net(r)'
  BY <1>2, <1>9, <1>11 DEF Net
<1>o. Opening(r)'
  BY <1>2, <1>11 DEF Opening
<1>b. Bracketed(r)'
  BY <1>1, <1>4, <1>11 DEF Bracketed
<1>c. Barred(r)'
  BY <1>8 DEF Barred, Cancelled
<1>p. Positions(r)'
  <2>1. \A i, j \in 1..Len(wire') : ~(Position(i)' /\ Position(j)' /\ i < j)
    BY <1>13
  <2> QED BY <1>1, <1>2, <1>4, <1>11, <1>13, <2>1 DEF Positions
<1>f. First(r)'
  BY <1>10, <1>11 DEF First
<1>t. InTurn(r)'
  <2>1. r \in Int
    BY <1>3
  <2>2. \A x \in Round(r) : ~(x > r + 2)
    BY <1>5, <2>1
  <2> QED BY <1>1, <1>4, <1>11, <2>2 DEF InTurn
<1>l. Leaving(r)'
  BY <1>1, <1>4 DEF Leaving, Cancelling, Exiting, Closing, Starting
<1>s. Strict(r)'
  <2>1. ASSUME ~Terse PROVE Promised(r)'
    <3>1. PICK j \in 1..Len(wire'), k \in 1..Len(wire') :
        /\ k < j /\ wire'[k] = <<"execution", r>> /\ wire'[j] = <<"commission", r>>
        /\ \A i \in 1..(j - 1) : wire'[i] # <<"commission", r>>
      BY <1>12, <2>1 DEF DueIn
    <3>2. k \in 1..(j - 1) /\ \A i \in 1..(j - 1) : i \in 1..Len(wire')
      BY <3>1
    <3>3. \A i \in 1..(j - 1) : Position(i)' \/ wire'[i] = <<"execution", r>>
      BY <1>12, <1>13, <2>1, <3>1, <3>2
    <3> QED BY <3>1, <3>2, <3>3 DEF Promised
  <2> QED BY <1>1, <1>11, <2>1 DEF Strict
<1>h. Shielded(r)'
  BY <1>1, <1>3, <1>4 DEF Shielded
<1> QED BY <1>g, <1>r, <1>n, <1>o, <1>b, <1>c, <1>p, <1>f, <1>t, <1>l, <1>s, <1>h

\* What closes the position executes, and nothing is left alive.
LEMMA ClosingExecuted ==
    ASSUME Always, Sound, NEW r \in Ids, InRound(r), ~LatePositions,
           NEW id \in Ids, id # r, Execute(id)
    PROVE  InRound(r)'
<1> USE DEF InRound
<1>0. TypeOK /\ Heard /\ up
  BY DEF Always, Sound, Followers
<1>1. /\ UNCHANGED <<up, nextID, held, orders, bracket, timers, queue, call, inFlight>>
      /\ ~posDue' /\ net' = net + book[id].side * book[id].qty
  BY DEF Execute, followVars, callVars
<1>2. /\ Lives(id) /\ Knows(id) /\ book[id].state \notin Waiting
      /\ ~Executed(id) /\ ~Cancelled(id) /\ Executed(id)' /\ ~Lives(id)'
      /\ Knows(id)' /\ book'[id].state = "filled"
      /\ \A t \in Twins(id) : t \in Ids /\ t # id /\ Cancelled(t)' /\ ~Lives(t)'
      /\ \A x \in Ids : /\ book'[x] = book[x] \/ Moved(x)
                        /\ Executed(x)' <=> Executed(x) \/ x = id
                        /\ Cancelled(x)' <=> Cancelled(x) \/ x \in Twins(id)
      /\ \A x \in Ids :
           \/ x = id \/ x \in Twins(id) \/ book'[x] = book[x]
           \/ /\ book[id].role = "entry" /\ x \in {LimitOf(id), StopOf(id)}
              /\ Knows(x) /\ book[x].state \in Waiting
  BY <1>0, ExecutedBook
<1>3. /\ nextID \in Int /\ r \in Int /\ r + 2 < nextID /\ {r, r + 1, r + 2} \subseteq Round(r)
      /\ \A x \in Round(r) : x \in Int /\ x \in Ids /\ Followed(x)
      /\ Side(r) \in {1, -1} /\ r \notin {r + 1, r + 2}
      /\ \A x \in Ids : x \in Int
      /\ \A x \in Ids : Lives(x) => x \in Round(r)
      /\ \A x \in Ids : Ended(x) => ~Lives(x)
  BY RoundIds DEF Ids
<1>4. /\ id \in Round(r) /\ ~Ended(id)
      /\ ~Bracketing /\ ~Lives(r) /\ Executed(r) /\ ~Closed(r) /\ net = Side(r)
      /\ Side(r) # 0 /\ ~Over
  BY <1>2, <1>3, Opened DEF Over
<1>5. /\ book[id].role = orders[id].role /\ book[id].side = -Side(r) /\ book[id].qty = 1
      /\ book[id].role # "entry"
      /\ id \in {r + 1, r + 2} \/ id > r + 2
  <2>1. orders[id].side = -Side(r) /\ orders[id].qty = 1
    BY <1>4 DEF Ground
  <2>2. orders[id].role # "entry" /\ (id \in {r + 1, r + 2} \/ id > r + 2)
    BY <1>4, RoundRoles
  <2> QED BY <1>2, <2>1, <2>2 DEF Sound, Followers
<1>6. net' = 0
  <2>1. book[id].side * book[id].qty = -Side(r)
    BY <1>3, <1>5
  <2> QED BY <1>1, <1>3, <1>4, <2>1
<1>7. \A x \in Ids : x = id \/ x \in Twins(id) \/ book'[x] = book[x]
  BY <1>2, <1>5
<1>8. /\ Round(r)' = Round(r) /\ Side(r)' = Side(r) /\ ~Bracketing'
      /\ \A x : Ended(x)' = Ended(x) /\ Followed(x)' = Followed(x)
      /\ Closed(r)' /\ Executed(r)'
  <2>1. Round(r)' = Round(r) /\ Side(r)' = Side(r) /\ ~Bracketing'
        /\ \A x : Ended(x)' = Ended(x) /\ Followed(x)' = Followed(x)
    BY <1>1, <1>4 DEF Round, Side, Bracketing, Ended, Followed
  <2>2. Closed(r)'
    BY <1>2, <1>4, <2>1 DEF Closed
  <2> QED BY <1>2, <1>4, <2>1, <2>2
<1>9. NothingLives'
  <2> SUFFICES ASSUME NEW x \in Ids, Lives(x)' PROVE FALSE
    BY DEF NothingLives
  <2>1. x # id /\ x \notin Twins(id)
    BY <1>2
  <2>2. Lives(x)
    BY <1>7, <2>1 DEF Lives, Knows
  <2>3. x \in Round(r) /\ x # r /\ ~Ended(x)
    BY <1>3, <1>4, <2>2
  <2>4. ~(id > r + 2)
    BY <1>4, <2>1, <2>3 DEF InTurn
  <2>5. ~(x > r + 2)
    BY <1>4, <2>1, <2>3 DEF InTurn
  <2>6. id \in {r + 1, r + 2} /\ x \in {r + 1, r + 2}
    BY <1>5, <2>3, <2>4, <2>5, RoundRoles
  <2>7. Abs(x - id) = 1
    BY <1>3, <2>1, <2>6 DEF Abs
  <2>8. {book[id].role, book[x].role} = Barriers
    <3>1. book[x].role = orders[x].role
      BY <2>2 DEF Sound, Followers, Lives
    <3>2. orders[x].role = RoleOf(r, x) /\ orders[id].role = RoleOf(r, id)
      BY <1>4, <2>3 DEF Ground
    <3>3. RoleOf(r, r + 1) = "limit" /\ RoleOf(r, r + 2) = "stop"
      BY <1>3 DEF RoleOf
    <3>4. \/ id = r + 1 /\ x = r + 2
          \/ id = r + 2 /\ x = r + 1
      BY <2>1, <2>6
    <3> QED BY <1>5, <3>1, <3>2, <3>3, <3>4 DEF Barriers
  <2>9. x \in Twins(id)
    BY <2>2, <2>7, <2>8 DEF Twins
  <2> QED BY <2>1, <2>9
<1>10. \A x \in Round(r) : x # r /\ Executed(x)' => x = id
  BY <1>2, <1>3, <1>4 DEF Closed
<1>11. Twins(id) \subseteq {r + 1, r + 2}
  <2> SUFFICES ASSUME NEW t \in Twins(id) PROVE t \in {r + 1, r + 2}
    OBVIOUS
  <2>1. t \in Ids /\ Lives(t) /\ {book[id].role, book[t].role} = Barriers
    BY DEF Twins
  <2>2. book[t].role \in Barriers /\ t \in Round(r)
    BY <1>3, <2>1
  <2>3. orders[t].role \in Barriers
    BY <2>1, <2>2 DEF Sound, Followers, Lives
  <2> QED BY <2>2, <2>3, RoundRoles
<1> PICK m \in Seq(Messages) :
      /\ wire' = wire \o m /\ 1 \in 1..Len(m) /\ m[1] = <<"position", net'>>
      /\ \A i \in 1..Len(m) : i # 1 => m[i][1] # "position" /\ m[i][2] \in {id} \cup Twins(id)
  BY <1>0, ExecutedSays
<1>12. /\ wire' \in Seq(Messages)
       /\ \A i \in 1..Len(wire) : i \in 1..Len(wire') /\ wire'[i] = wire[i]
       /\ \A i \in 1..Len(wire') :
            \/ i \in 1..Len(wire) /\ wire'[i] = wire[i]
            \/ /\ i - Len(wire) \in 1..Len(m) /\ wire'[i] = m[i - Len(wire)]
               /\ \A j \in 1..Len(wire) : j < i
       /\ \A x : Says(x)' <=> Says(x) \/ Has(m, x)
       /\ wire \in Seq(Messages)
  BY <1>0, Longer DEF TypeOK, Messages
<1>13. /\ m[1] = <<"position", 0>>
       /\ \A x : Has(m, <<"position", x>>) <=> x = 0
  <2>1. m[1] = <<"position", 0>>
    BY <1>6
  <2>2. \A x : Has(m, <<"position", x>>) => x = 0
    <3> SUFFICES ASSUME NEW x, NEW i \in 1..Len(m), m[i] = <<"position", x>> PROVE x = 0
      BY DEF Has
    <3>1. m[i][1] = "position"
      OBVIOUS
    <3>2. i = 1
      BY <3>1
    <3> QED BY <2>1, <3>2
  <2>3. Has(m, <<"position", 0>>)
    BY <2>1 DEF Has
  <2> QED BY <2>1, <2>2, <2>3
<1>14. /\ Says(<<"position", 0>>)' /\ ~Says(<<"position", 0>>)
       /\ Says(<<"position", Side(r)>>)' <=> Says(<<"position", Side(r)>>)
  <2>1. ~Says(<<"position", 0>>)
    BY <1>4 DEF Positions
  <2>2. Says(<<"position", Side(r)>>)' <=> Says(<<"position", Side(r)>>)
    BY <1>4, <1>8, <1>12, <1>13
  <2> QED BY <1>12, <1>13, <2>1, <2>2
<1>15. ASSUME NEW i \in 1..Len(wire'), Position(i)'
       PROVE  \/ i \in 1..Len(wire) /\ wire'[i] = wire[i] /\ Position(i) /\ wire'[i][2] = Side(r)
              \/ i = Len(wire) + 1 /\ wire'[i][2] = 0
  <2>1. CASE i \in 1..Len(wire) /\ wire'[i] = wire[i]
    <3>1. Position(i) /\ wire[i] \in Messages
      BY <1>12, <1>15, <2>1 DEF Position
    <3>2. wire[i] = <<"position", wire[i][2]>> /\ wire[i][2] \in {0, Side(r)}
      BY <2>1, <3>1 DEF Positions, Position, Messages
    <3>3. wire[i][2] # 0
      BY <1>14, <2>1, <3>2 DEF Says
    <3> QED BY <2>1, <3>1, <3>2, <3>3
  <2>2. CASE i - Len(wire) \in 1..Len(m) /\ wire'[i] = m[i - Len(wire)]
    <3>1. m[i - Len(wire)][1] = "position"
      BY <1>15, <2>2 DEF Position
    <3>2. i - Len(wire) = 1
      BY <2>2, <3>1
    <3>3. i = Len(wire) + 1
      BY <1>12, <3>2
    <3> QED BY <1>13, <2>2, <3>2, <3>3
  <2> QED BY <1>12, <2>1, <2>2
<1>g. Ground(r)'
  <2>1. \A x \in Ids : x < r => ~Lives(x)'
    BY <1>9 DEF NothingLives
  <2>2. ASSUME NEW x \in Round(r), Knows(x)', x \notin {r + 1, r + 2}
        PROVE  book'[x].state \in {"working", "filled", "cancelled"} /\ ~orders'[x].cancel
    <3>1. x \in Ids /\ x \notin Twins(id)
      BY <1>3, <1>11, <2>2
    <3>2. x = id \/ book'[x] = book[x]
      BY <1>7, <3>1
    <3>3. Knows(x)
      BY <1>2, <2>2, <3>2 DEF Knows
    <3>4. book[x].state \in {"working", "filled", "cancelled"} /\ ~orders[x].cancel
      BY <2>2, <3>3 DEF Ground
    <3> QED BY <1>1, <1>2, <3>2, <3>4
  <2> QED BY <1>1, <1>8, <2>1, <2>2 DEF Ground, RoleOf
<1>r. Recent(r)'
  <2>1. ASSUME NEW i \in 1..Len(wire'), ~Position(i)' PROVE wire'[i][2] \in Round(r)
    <3>1. CASE i \in 1..Len(wire) /\ wire'[i] = wire[i]
      BY <2>1, <3>1 DEF Recent, Position
    <3>2. CASE i - Len(wire) \in 1..Len(m) /\ wire'[i] = m[i - Len(wire)]
      <4>1. i - Len(wire) # 1
        BY <1>13, <2>1, <3>2 DEF Position
      <4>2. wire'[i][2] \in {id} \cup Twins(id)
        BY <3>2, <4>1
      <4> QED BY <1>3, <1>4, <1>11, <4>2
    <3> QED BY <1>12, <3>1, <3>2
  <2> QED BY <1>1, <1>8, <2>1 DEF Recent
<1>n. Net(r)'
  BY <1>6, <1>8, <1>9 DEF Net
<1>o. Opening(r)'
  BY <1>8, <1>9 DEF Opening, NothingLives
<1>b. Bracketed(r)'
  BY <1>1, <1>4, <1>8 DEF Bracketed
<1>c. Barred(r)'
  <2>1. \A x \in {r + 1, r + 2} : ~Lives(x)'
    BY <1>3, <1>9 DEF NothingLives
  <2> QED BY <1>8, <2>1 DEF Barred, Lives, Alive, Waiting
<1>p. Positions(r)'
  <2>1. \A i \in 1..Len(wire') : Position(i)' => wire'[i][2] \in {0, Side(r)}
    BY <1>15
  <2>2. ASSUME NEW i \in 1..Len(wire'), NEW j \in 1..Len(wire'), Position(i)', Position(j)', i < j
        PROVE  wire'[i][2] = Side(r) /\ wire'[j][2] = 0
    <3>1. CASE j \in 1..Len(wire) /\ wire'[j] = wire[j] /\ Position(j)
      <4>1. i \in 1..Len(wire)
        BY <2>2, <3>1
      <4>2. wire'[i] = wire[i] /\ Position(i)
        BY <1>12, <2>2, <4>1 DEF Position
      <4> QED BY <2>2, <3>1, <4>1, <4>2 DEF Positions
    <3>2. CASE j = Len(wire) + 1 /\ wire'[j][2] = 0
      <4>1. i # Len(wire) + 1
        BY <1>12, <2>2, <3>2
      <4> QED BY <1>15, <2>2, <3>2, <4>1
    <3> QED BY <1>15, <2>2, <3>1, <3>2
  <2> QED BY <1>1, <1>4, <1>8, <1>14, <2>1, <2>2 DEF Positions
<1>f. First(r)'
  <2>1. \A x \in Round(r) : x # r /\ Executed(x)' =>
            ~(orders'[x].exec \/ orders'[x].status \/ Ended(x)')
    <3>1. ~orders[id].exec /\ ~orders[id].status
      BY <1>2, <1>3, <1>4 DEF Sound, Noted
    <3> QED BY <1>1, <1>4, <1>8, <1>10, <3>1
  <2>2. ASSUME NEW i \in 1..Len(wire'), NEW j \in 1..Len(wire'),
               wire'[i] \in {"execution", "filled"} \X {id}, Position(j)'
        PROVE  j < i
    <3>1. wire'[i][1] \in {"execution", "filled"} /\ wire'[i][2] = id
      BY <2>2
    <3>2. ~(i \in 1..Len(wire) /\ wire'[i] = wire[i])
      BY <1>2, <3>1 DEF Sound, Truthful
    <3>3. i - Len(wire) \in 1..Len(m) /\ wire'[i] = m[i - Len(wire)]
      BY <1>12, <3>2
    <3>4. i - Len(wire) # 1
      BY <1>13, <3>1, <3>3
    <3>5. j \in 1..Len(wire) \/ j = Len(wire) + 1
      BY <1>15, <2>2
    <3> QED BY <1>12, <3>3, <3>4, <3>5
  <2> QED BY <1>8, <1>10, <2>1, <2>2 DEF First
<1>t. InTurn(r)'
  <2>1. \A t \in timers : t[1] # "protect"
    BY <1>4 DEF InTurn
  <2> QED BY <1>1, <1>4, <1>8, <2>1 DEF InTurn
<1>l. Leaving(r)'
  <2>1. ~Exiting
    BY <1>3, <1>4 DEF Leaving
  <2>2. (Cancelling' <=> Cancelling) /\ (Exiting' <=> Exiting) /\ (Closing' <=> Closing)
    BY <1>1 DEF Cancelling, Exiting, Closing
  <2>3. ~Starting /\ ~Starting'
    BY <1>1, <1>2, StartingIsIdle DEF Starting, NothingLives
  <2> QED BY <1>1, <1>3, <1>4, <1>8, <1>14, <2>1, <2>2, <2>3 DEF Leaving
<1>s. Strict(r)'
  <2>1. Promised(r) => Promised(r)'
    BY <1>0, <1>1, PromiseStands
  <2> QED BY <1>1, <1>4, <1>8, <2>1 DEF Strict
<1>h. Shielded(r)'
  BY <1>8 DEF Shielded
<1> QED BY <1>g, <1>r, <1>n, <1>o, <1>b, <1>c, <1>p, <1>f, <1>t, <1>l, <1>s, <1>h

-----------------------------------------------------------------------------
(* Round after round *)

LEMMA RoundStays ==
    ASSUME Always, Sound, NEW r \in Ids, InRound(r), UNCHANGED vars
    PROVE  InRound(r)'
<1> USE DEF InRound
<1>0. UNCHANGED <<nextID, posDue, orders, book, net, wire, held, timers, bracket, queue, call, inFlight>>
  BY DEF vars, followVars, callVars, twsVars
<1>1. /\ Ground(r)' /\ Recent(r)' /\ Net(r)' /\ Barred(r)' /\ Positions(r)' /\ First(r)'
      /\ Strict(r)'
      /\ Over' = Over /\ Closed(r)' = Closed(r) /\ Round(r)' = Round(r) /\ Side(r)' = Side(r)
      /\ NothingLives' = NothingLives
      /\ \A o : /\ Lives(o)' = Lives(o) /\ Ended(o)' = Ended(o)
                /\ Executed(o)' = Executed(o) /\ Knows(o)' = Knows(o)
  BY <1>0, Framed
<1>2. /\ Bracketing' = Bracketing /\ Cancelling' = Cancelling /\ Exiting' = Exiting
      /\ Closing' = Closing /\ Starting' = Starting /\ Delivered' = Delivered
      /\ \A x : Says(x)' = Says(x)
  BY <1>0 DEF Bracketing, Cancelling, Exiting, Closing, Starting, Delivered, Says
<1>3. Opening(r)'
  BY <1>0, <1>1, <1>2 DEF Opening
<1>4. Bracketed(r)' /\ InTurn(r)' /\ Shielded(r)'
  BY <1>0, <1>1, <1>2 DEF Bracketed, InTurn, Shielded
<1>5. Leaving(r)'
  BY <1>0, <1>1, <1>2 DEF Leaving
<1> QED BY <1>1, <1>3, <1>4, <1>5

LEMMA RoundKept ==
    ASSUME Orderly, Always, Counted, Sound, Sound', NEW r \in Ids, InRound(r), [Next]_vars, ~SendNaked
    PROVE  Rounds'
<1>0. Rounds
  BY DEF Rounds
<1>1. ~Breaks /\ up
  BY DEF Orderly, Breaks, Counted, Sound, Followers
<1>2. CASE Engine
  BY <1>0, <1>2, EnterKept, ExitKept DEF Engine, Rounds, Orderly
<1>3. CASE PlaceBracket
  BY <1>0, <1>3, PlaceBracketKept
<1>4. CASE ~Engine /\ ~PlaceBracket
  <2> SUFFICES InRound(r)'
    BY DEF Rounds
  <2>1. CASE Gateway
    BY <2>1, MessageKept, PositionKept, SettleTimerKept, CheckProtectionKept
       DEF Gateway, OrderMessage
  <2>2. CASE Caller
    BY <1>4, <2>2, PlaceOrderKept, PlaceExitKept, SendBracketKept, SendCancelsKept, CancelsDoneKept,
       CancelTimeoutKept, SendExitKept, DeliverKept DEF Caller
  <2>3. CASE TWS
    <3>1. ~SendPosition
      BY DEF SendPosition, InRound, Ground
    <3>2. \A id \in Ids : ~Lose(id)
      BY DEF Lose, Orderly, Counted
    <3>3. ASSUME NEW id \in Ids, Execute(id) PROVE InRound(r)'
      BY <3>3, EntryExecuted, ClosingExecuted DEF Orderly
    <3> QED BY <2>3, <3>1, <3>2, <3>3, RejectKept, ConfirmCancelKept DEF TWS
  <2>4. CASE ConnectionLost \/ Crash \/ Reconnect
    BY <1>1, <2>4 DEF ConnectionLost, Crash, Reconnect
  <2>5. CASE UNCHANGED vars
    BY <2>5, RoundStays
  <2> QED BY <1>4, <2>1, <2>2, <2>3, <2>4, <2>5 DEF Next
<1> QED BY <1>2, <1>3, <1>4

\* Before the first entry nothing happens but an entry.
LEMMA BlankKept ==
    ASSUME Orderly, Always, Counted, Sound, Blank, [Next]_vars
    PROVE  Rounds'
<1>1. ~Breaks /\ up
  BY DEF Orderly, Breaks, Counted, Sound, Followers
<1>2. CASE Engine
  <2>1. ~Exit
    BY DEF Exit, Blank
  <2> QED BY <1>2, <2>1, EnterKept DEF Engine, Rounds, Orderly
<1>3. CASE Gateway
  <2>1. ~OrderMessage
    BY MessagesFollow DEF Blank, Taking, Always
  <2>2. ~OnPosition
    BY DEF OnPosition, Incoming, Blank
  <2>3. \A id \in Ids : ~SettleTimer(id) /\ ~CheckProtection(id)
    BY DEF SettleTimer, CheckProtection, Blank
  <2> QED BY <1>3, <2>1, <2>2, <2>3 DEF Gateway, OrderMessage
<1>4. CASE Caller
  <2>1. CASE PlaceOrder
    <3>1. call # None /\ call.stage = "place" /\ call.barriers
      BY <2>1 DEF PlaceOrder, Blank, Starting
    <3>2. Becomes("entering")
      BY <1>1, <2>1, <3>1, OrderTaken DEF Blank
    <3>3. Starting'
      BY <3>1, <3>2, Staged DEF Becomes, Always
    <3>4. UNCHANGED <<nextID, held, bracket, timers, queue, inFlight, net, wire, posDue>>
      BY <2>1, <3>2 DEF PlaceOrder, Becomes, followVars, twsVars
    <3> QED BY <3>3, <3>4 DEF Blank, Rounds
  <2>2. CASE PlaceBracket
    BY <2>2, PlaceBracketKept DEF Rounds
  <2>3. CASE ~PlaceOrder /\ ~PlaceBracket
    BY <1>4, <2>3 DEF Caller, SendBracket, PlaceExit, SendCancels, CancelsDone, CancelTimeout,
       SendExit, SendNaked, Deliver, Blank, Starting
  <2> QED BY <2>1, <2>2, <2>3
<1>5. CASE TWS
  <2>1. \A id \in Ids : ~Knows(id)
    <3>1. \A id \in Ids : id >= nextID
      BY DEF Blank, Ids
    <3> QED BY <3>1, Unused
  <2> QED BY <1>5, <2>1 DEF TWS, SendPosition, Execute, Reject, ConfirmCancel, Lose, Lives, Blank
<1>6. CASE ConnectionLost \/ Crash \/ Reconnect
  BY <1>1, <1>6 DEF ConnectionLost, Crash, Reconnect
<1>7. CASE UNCHANGED vars
  BY <1>7 DEF vars, followVars, callVars, twsVars, Blank, Starting, Rounds
<1> QED BY <1>2, <1>3, <1>4, <1>5, <1>6, <1>7 DEF Next

\* An order that TWS knows stays what it is.
LEMMA KnownStays ==
    ASSUME Always, Sound, Counted, MaxBreaks = 0, [Next]_vars, NEW id \in Ids, Knows(id)
    PROVE  Knows(id)' /\ book'[id].role = book[id].role
<1>0. TypeOK /\ Heard /\ ~Breaks /\ up
  BY DEF Always, Breaks, Counted, Sound, Followers
<1>1. id # nextID /\ ~Ahead(id) /\ book[id] \in Books
  <2>1. id < nextID /\ ~Ahead(id) /\ book[id] \in Books
    BY <1>0, KnownIsSent
  <2> QED BY <1>0, <2>1 DEF TypeOK, Ids
<1>2. SUFFICES book'[id] = book[id] \/ Moved(id)
  BY <1>0, BookMoves
<1>3. CASE Gateway
  <2>1. CASE \E o \in Ids : CheckProtection(o)
    <3>1. PICK ids : book'[id] = book[id] \/ book'[id] = CancelledIn(book, ids)[id]
      BY <1>1, <2>1 DEF CheckProtection, CancelledIn
    <3> QED BY <1>0, <3>1, StillThere
  <2>2. CASE ~\E o \in Ids : CheckProtection(o)
    BY <1>3, <2>2 DEF Gateway, OnExecution, OnCommission, OnFilled, OnCancelled, OnRefused, OnGone,
       OnPosition, Incoming, SettleTimer, twsVars
  <2> QED BY <2>1, <2>2
<1>4. CASE Caller
  <2>1. CASE SendBracket
    <3>1. Bracketing /\ id \notin call.parent..StopOf(call.parent)
      BY <1>1, <2>1 DEF SendBracket, Bracketing, Ahead
    <3>2. call.parent \in Int /\ LimitOf(call.parent) = call.parent + 1
          /\ StopOf(call.parent) = call.parent + 2
      BY <1>0, <3>1 DEF Bracketing, TypeOK, Calls, LimitOf, StopOf, Ids
    <3>3. id \notin {call.parent, LimitOf(call.parent), StopOf(call.parent)}
      BY <3>1, <3>2
    <3>4. CASE up
      <4>1. \E a, b, c : book' = [book EXCEPT ![call.parent] = a, ![LimitOf(call.parent)] = b,
                                            ![StopOf(call.parent)] = c]
        BY <2>1, <3>4 DEF SendBracket
      <4> QED BY <1>0, <3>3, <4>1 DEF TypeOK
    <3> QED BY <1>0, <3>4
  <2>2. CASE SendExit \/ SendNaked
    <3>1. \E a : book' = [book EXCEPT ![nextID] = a]
      BY <1>0, <2>2 DEF SendExit, SendNaked, PlaceSimple
    <3> QED BY <1>0, <1>1, <3>1 DEF TypeOK
  <2>3. CASE SendCancels
    <3>1. book'[id] = book[id] \/ book'[id] = CancelledIn(book, call.waits)[id]
      BY <2>3 DEF SendCancels
    <3> QED BY <1>0, <3>1, StillThere
  <2>4. CASE PlaceOrder \/ PlaceBracket \/ PlaceExit \/ CancelsDone \/ CancelTimeout \/ Deliver
    BY <2>4 DEF PlaceOrder, PlaceBracket, PlaceExit, CancelsDone, CancelTimeout, Deliver, twsVars
  <2> QED BY <1>4, <2>1, <2>2, <2>3, <2>4 DEF Caller
<1>5. CASE Engine
  BY <1>5 DEF Engine, Exit, Enter, Decide, twsVars
<1>6. CASE TWS
  <2>1. ASSUME NEW o \in Ids, Execute(o) PROVE book'[id] = book[id] \/ Moved(id)
    BY <1>0, <2>1, ExecutedBook
  <2>2. ASSUME NEW o \in Ids, Reject(o) PROVE book'[id] = book[id] \/ Moved(id)
    <3>1. \/ book'[id] = book[id]
          \/ Lives(id) /\ book'[id] = [book[id] EXCEPT !.state = "cancelled"]
      BY <2>2 DEF Reject
    <3> QED BY <3>1 DEF Moved
  <2>3. ASSUME NEW o \in Ids, ConfirmCancel(o) \/ Lose(o) PROVE book'[id] = book[id] \/ Moved(id)
    <3>1. /\ Knows(o) /\ book[o].state \in {"withdrawing", "cancelling", "working"}
          /\ book' = [book EXCEPT ![o].state = "cancelled"]
      BY <2>3 DEF ConfirmCancel, Lose
    <3>2. Lives(o)
      BY <3>1 DEF Lives, Alive, Waiting
    <3>3. book'[id] = IF id = o THEN [book[id] EXCEPT !.state = "cancelled"] ELSE book[id]
      BY <1>0, <3>1 DEF TypeOK
    <3> QED BY <3>2, <3>3 DEF Moved
  <2> QED BY <1>6, <2>1, <2>2, <2>3 DEF TWS, SendPosition
<1>7. CASE ConnectionLost \/ Crash \/ Reconnect
  BY <1>0, <1>7 DEF ConnectionLost, Crash, Reconnect
<1>8. CASE UNCHANGED vars
  BY <1>8 DEF vars, twsVars
<1> QED BY <1>3, <1>4, <1>5, <1>6, <1>7, <1>8 DEF Next

\* An exit that leaves as an entry stays one.
LEMMA NakedOvertakes ==
    ASSUME Always, Sound, SendNaked
    PROVE  Overtaken'
<1>1. /\ TypeOK /\ nextID \in Ids /\ call.side \in {1, -1} /\ call.qty \in Nat
      /\ book' = [book EXCEPT ![nextID] = Order("naked", call.side, call.qty, "working")]
  <2>1. TypeOK /\ nextID \in Ids /\ up
    BY LeftOne DEF Always, SendNaked, Sound, Followers
  <2>2. call \in Calls /\ call.stage = "naked"
    BY <2>1 DEF SendNaked, TypeOK
  <2> QED BY <2>1, <2>2 DEF SendNaked, PlaceSimple, Calls
<1>2. book'[nextID] = Order("naked", call.side, call.qty, "working")
  BY <1>1 DEF TypeOK
<1>3. Order("naked", call.side, call.qty, "working") \in Books
  BY <1>1 DEF Order, Books, Roles, Alive
<1>4. book'[nextID] # None /\ book'[nextID].role = "naked"
  <2>1. book'[nextID] # None
    BY <1>2, <1>3, IBAssumption
  <2>2. book'[nextID].role = "naked"
    BY <1>2 DEF Order
  <2> QED BY <2>1, <2>2
<1> QED BY <1>1, <1>4 DEF Overtaken, Knows

LEMMA RoundsInitially == Init => Rounds
  BY DEF Init, Rounds, Blank

LEMMA RoundsKept ==
    ASSUME Orderly
    PROVE  Always /\ Counted /\ Sound /\ (Overtaken \/ Rounds) /\ [Next]_vars => (Overtaken \/ Rounds)'
<1> SUFFICES ASSUME Always, Counted, Sound, Overtaken \/ Rounds, [Next]_vars
             PROVE  (Overtaken \/ Rounds)'
  OBVIOUS
<1>1. Sound'
  BY SoundKept DEF Orderly
<1>2. CASE Overtaken
  <2>1. PICK id \in Ids : Knows(id) /\ book[id].role = "naked"
    BY <1>2 DEF Overtaken
  <2>2. Knows(id)' /\ book'[id].role = "naked"
    BY <2>1, KnownStays DEF Orderly
  <2> QED BY <2>2 DEF Overtaken
<1>3. CASE Rounds
  <2>1. CASE SendNaked
    BY <2>1, NakedOvertakes
  <2>2. CASE ~SendNaked
    BY <1>1, <1>3, <2>2, RoundKept, BlankKept DEF Rounds
  <2> QED BY <2>1, <2>2
<1> QED BY <1>2, <1>3

LEMMA RoundsHold ==
    ASSUME Orderly
    PROVE  Spec => [](Always /\ Sound /\ (Overtaken \/ Rounds))
<1>1. Init => Always /\ Counted /\ Sound /\ (Overtaken \/ Rounds)
  BY AlwaysInitially, SoundInitially, RoundsInitially DEF Init, Counted
<1>2. Always /\ Counted /\ Sound /\ (Overtaken \/ Rounds) /\ [Next]_vars
         => (Always /\ Counted /\ Sound /\ (Overtaken \/ Rounds))'
  BY AlwaysKept, CountedKept, SoundKept, RoundsKept DEF Orderly
<1> QED BY <1>1, <1>2, PTL DEF Spec

-----------------------------------------------------------------------------
(* What the rounds show *)

\* Between two entries the position is theirs or none, and the last entry is
\* the one it comes from.
LEMMA RoundNotReversed ==
    ASSUME Always, Sound, Rounds
    PROVE  NeverReversed
<1> DEFINE entries == {id \in Ids : Knows(id) /\ book[id].role = "entry"
                                    /\ book[id].state = "filled"}
<1>1. SUFFICES ASSUME net # 0
               PROVE  \E id \in entries : /\ net = book[id].side
                                          /\ \A other \in entries : other <= id
  BY DEF NeverReversed
<1>2. PICK r \in Ids : InRound(r)
  BY <1>1 DEF Rounds, Blank
<1>3. /\ r \in Int /\ nextID \in Int /\ r \in Round(r)
      /\ \A id \in Ids : Knows(id) => id < nextID
      /\ \A id \in Ids : id \in Int
  BY <1>2, RoundIds DEF InRound, Ids
<1>4. Executed(r) /\ net = Side(r)
  BY <1>1, <1>2 DEF InRound, Net
<1>5. orders[r].role = "entry"
  BY <1>2, <1>3, RoundRoles DEF InRound
<1>6. r \in entries /\ net = book[r].side
  BY <1>4, <1>5 DEF Executed, Sound, Followers, Side
<1>7. ASSUME NEW other \in entries PROVE other <= r
  <2>1. other \in Ids /\ Knows(other) /\ book[other].role = "entry"
    OBVIOUS
  <2>2. CASE other \in Round(r)
    <3>1. orders[other].role = "entry"
      BY <2>1 DEF Sound, Followers
    <3>2. other = r
      BY <1>2, <2>2, <3>1, RoundRoles DEF InRound
    <3> QED BY <1>3, <3>2
  <2>3. CASE other \notin Round(r)
    <3>1. other < nextID /\ other \in Int
      BY <1>3, <2>1
    <3> QED BY <1>3, <2>3, <3>1 DEF Round
  <2> QED BY <2>2, <2>3
<1> QED BY <1>6, <1>7

\* placeExit's comment: an order left behind would open a position again.  As
\* long as TWS keeps its order, whatever it repeats, omits, refuses or leaves
\* unanswered, the position is never more than one entry, nor its opposite, until
\* an exit is overtaken: until a barrier closes the position between the engine's
\* look at it and PlaceOrder's (PlaceOrder, placeExit, awaitCancels,
\* checkProtection).
THEOREM PositionNeverReversed ==
    ASSUME Orderly
    PROVE  Spec => [](Overtaken \/ NeverReversed)
<1>1. Always /\ Sound /\ (Overtaken \/ Rounds) => Overtaken \/ NeverReversed
  BY RoundNotReversed
<1> QED BY <1>1, RoundsHold, PTL

\* What is new to TWS is a bracket, an exit or what is left of one.
LEMMA NewInTWS ==
    ASSUME Always, Sound, MaxBreaks = 0, Counted, [Next]_vars,
           NEW id \in Ids, ~Knows(id), Knows(id)'
    PROVE  \/ book'[id].role = "exit" /\ (SendExit \/ \E o \in Ids : <<"protect", o>> \in timers)
           \/ book'[id].role \notin {"exit", "naked"} /\ SendBracket
           \/ book'[id].role = "naked" /\ SendNaked
<1>0. TypeOK /\ Heard /\ ~Breaks /\ up /\ book \in [Ids -> Books \cup {None}]
  BY DEF Always, Breaks, Counted, Sound, Followers, TypeOK
<1>1. book'[id] # book[id] /\ ~Lives(id)
  BY DEF Knows, Lives
<1>2. CASE Gateway
  <2>1. PICK o \in Ids : CheckProtection(o)
    BY <1>1, <1>2 DEF Gateway, OnExecution, OnCommission, OnFilled, OnCancelled, OnRefused, OnGone,
       OnPosition, Incoming, SettleTimer, twsVars
  <2>2. <<"protect", o>> \in timers
    BY <2>1 DEF CheckProtection
  <2>3. PICK ids, side, qty :
           book' = [CancelledIn(book, ids) EXCEPT ![nextID] = Order("exit", side, qty, "working")]
    BY <1>0, <1>1, <2>1 DEF CheckProtection
  <2>4. id # nextID => book'[id] = book[id]
    BY <1>1, <2>3 DEF CancelledIn
  <2>5. book'[id] = Order("exit", side, qty, "working")
    BY <1>1, <2>3, <2>4 DEF CancelledIn
  <2> QED BY <2>2, <2>5 DEF Order
<1>3. CASE Caller
  <2>1. CASE SendBracket
    <3> DEFINE entry == Order("entry", call.side, 1, "working")
               limit == Order("limit", -call.side, 1, "attached")
               stop  == Order("stop", -call.side, 1, "attached")
    <3>1. book' = [book EXCEPT ![call.parent] = entry, ![LimitOf(call.parent)] = limit,
                               ![StopOf(call.parent)] = stop]
      BY <1>0, <2>1 DEF SendBracket
    <3>2. book'[id] \in {entry, limit, stop}
      <4> HIDE DEF entry, limit, stop
      <4> QED BY <1>0, <1>1, <3>1
    <3> QED BY <2>1, <3>2 DEF Order
  <2>2. ASSUME NEW role, PlaceSimple(role) PROVE book'[id].role = role
    <3>1. PICK side, qty : book' = [book EXCEPT ![nextID] = Order(role, side, qty, "working")]
      BY <1>0, <2>2 DEF PlaceSimple
    <3>2. book'[id] = Order(role, side, qty, "working")
      BY <1>0, <1>1, <3>1
    <3> QED BY <3>2 DEF Order
  <2>3. CASE SendExit \/ SendNaked
    BY <2>2, <2>3 DEF SendExit, SendNaked
  <2>4. CASE SendCancels
    <3>1. book' = CancelledIn(book, call.waits)
      BY <1>0, <2>4 DEF SendCancels
    <3> QED BY <1>1, <3>1 DEF CancelledIn
  <2>5. CASE PlaceOrder \/ PlaceBracket \/ PlaceExit \/ CancelsDone \/ CancelTimeout \/ Deliver
    BY <1>1, <2>5 DEF PlaceOrder, PlaceBracket, PlaceExit, CancelsDone, CancelTimeout, Deliver,
       twsVars
  <2> QED BY <1>3, <2>1, <2>3, <2>4, <2>5 DEF Caller
<1>4. CASE Engine
  BY <1>1, <1>4 DEF Engine, Exit, Enter, Decide, twsVars
<1>5. CASE TWS
  <2>1. ASSUME NEW o \in Ids, Execute(o) PROVE FALSE
    <3>1. book'[id] = book[id] \/ Moved(id)
      BY <1>0, <2>1, ExecutedBook
    <3> QED BY <1>1, <3>1 DEF Moved
  <2>2. ASSUME NEW o \in Ids, Reject(o) PROVE FALSE
    BY <1>1, <2>2 DEF Reject, Lives
  <2>3. ASSUME NEW o \in Ids, ConfirmCancel(o) \/ Lose(o) PROVE FALSE
    <3>1. Knows(o) /\ book' = [book EXCEPT ![o].state = "cancelled"]
      BY <2>3 DEF ConfirmCancel, Lose
    <3>2. id # o
      BY <3>1
    <3> QED BY <1>0, <1>1, <3>1, <3>2 DEF TypeOK
  <2> QED BY <1>1, <1>5, <2>1, <2>2, <2>3 DEF TWS, SendPosition
<1>6. CASE ConnectionLost \/ Crash \/ Reconnect
  BY <1>0, <1>6 DEF ConnectionLost, Crash, Reconnect
<1>7. CASE UNCHANGED vars
  BY <1>1, <1>7 DEF vars, twsVars
<1> QED BY <1>2, <1>3, <1>4, <1>5, <1>6, <1>7 DEF Next

\* An exit is new to TWS once nothing lives there.
LEMMA NewToTWS ==
    ASSUME Always, Sound, Rounds, MaxBreaks = 0, Counted, [Next]_vars,
           NEW id \in Ids, ~Knows(id), Knows(id)', book'[id].role = "exit"
    PROVE  NothingLives
<1>1. CASE SendExit
  <2>1. Exiting
    BY <1>1 DEF SendExit, Exiting
  <2>2. PICK r \in Ids : InRound(r)
    BY <2>1 DEF Exiting, Rounds, Blank, Starting
  <2> QED BY <2>1, <2>2, BeforeExit
<1>2. CASE \E o \in Ids : <<"protect", o>> \in timers
  <2>1. PICK o \in Ids : <<"protect", o>> \in timers
    BY <1>2
  <2>2. PICK r \in Ids : InRound(r)
    BY <2>1 DEF Rounds, Blank
  <2>3. <<"protect", o>>[1] = "protect"
    OBVIOUS
  <2> QED BY <2>1, <2>2, <2>3 DEF InRound, InTurn
<1> QED BY <1>1, <1>2, NewInTWS

\* An engine that leaves its positions to their barriers asks PlaceOrder for
\* nothing but entries with barriers.
Unhurried ==
    /\ ~Overtaken
    /\ call # None => /\ call.stage = "place" => call.barriers
                      /\ call.stage # "naked"

\* The reversal comes of an exit alone: when the engine closes nothing itself,
\* and the barriers and the protection do, the position is never more than one
\* entry nor its opposite, without exception (settleFilled, checkProtection).
THEOREM BarriersNeverReverse ==
    ASSUME Orderly, ~Exits
    PROVE  Spec => []NeverReversed
<1> DEFINE I == Always /\ Counted /\ Sound /\ (Overtaken \/ Rounds) /\ Unhurried
<1>1. Init => I
  <2>1. Init => Unhurried
    BY DEF Init, Unhurried, Overtaken, Knows
  <2> QED BY <2>1, AlwaysInitially, SoundInitially, RoundsInitially DEF Init, Counted
<1>2. I /\ [Next]_vars => I'
  <2> SUFFICES ASSUME I, [Next]_vars PROVE I'
    OBVIOUS
  <2>1. (Always /\ Counted /\ Sound /\ (Overtaken \/ Rounds))'
    BY AlwaysKept, CountedKept, SoundKept, RoundsKept DEF Orderly
  <2>2. Unhurried'
    <3>1. ~Overtaken'
      <4>1. SUFFICES ASSUME NEW id \in Ids, Knows(id)', book'[id].role = "naked" PROVE FALSE
        BY DEF Overtaken, Knows
      <4>2. ~Knows(id)
        BY <4>1, KnownStays DEF Unhurried, Overtaken, Orderly
      <4>3. SendNaked
        BY <4>1, <4>2, NewInTWS DEF Orderly
      <4> QED BY <4>3 DEF Unhurried, SendNaked
    <3>2. call' # None => /\ call'.stage = "place" => call'.barriers
                          /\ call'.stage # "naked"
      <4>0. TypeOK /\ up /\ ~Breaks
        BY DEF Always, Sound, Followers, Orderly, Counted, Breaks
      <4>1. CASE call' = call \/ call' = None
        BY <4>1 DEF Unhurried
      <4>2. CASE Engine
        <5>1. PICK side \in EntrySides : Enter(side)
          BY <4>2 DEF Engine, Exit
        <5>2. Decide(side, 1, TRUE) /\ side \in {1, -1}
          BY <5>1, IBAssumption DEF Enter
        <5> QED BY <5>2, Decided
      <4>3. CASE PlaceOrder
        <5>1. call # None /\ call.stage = "place" /\ call.barriers
          BY <4>3 DEF PlaceOrder, Unhurried
        <5>2. CASE \E stage \in {"entering", "exiting"} : Becomes(stage)
          BY <4>0, <5>1, <5>2, Staged DEF Becomes
        <5>3. CASE call' = None
          BY <5>3
        <5> QED BY <4>0, <4>3, <5>1, <5>2, <5>3, OrderTaken
      <4>4. CASE PlaceBracket \/ PlaceExit
        BY <4>4 DEF PlaceBracket, PlaceExit, CancelCalled
      <4>5. CASE SendCancels \/ CancelsDone
        <5>1. call # None /\ call.stage \in {"cancel", "wait"} /\ call \in Calls
          BY <4>0, <4>5 DEF SendCancels, CancelsDone, TypeOK
        <5>2. call' = None \/ \E stage \in {"wait", "exit"} : call' = [call EXCEPT !.stage = stage]
          BY <4>5 DEF SendCancels, CancelsDone, CallReturns
        <5> QED BY <5>1, <5>2 DEF Calls
      <4>6. CASE SendBracket \/ SendNaked \/ CancelTimeout \/ SendExit \/ Deliver
        <5>1. call' = None \/ call' = call
          BY <4>6 DEF SendBracket, SendNaked, CancelTimeout, SendExit, PlaceSimple, CallReturns, Deliver
        <5> QED BY <4>1, <5>1
      <4>7. CASE Gateway \/ TWS \/ UNCHANGED vars
        <5>1. call' = call
          BY <4>7 DEF Gateway, OnExecution, OnCommission, OnFilled, OnCancelled, OnRefused, OnGone,
             OnPosition, Incoming, SettleTimer, CheckProtection, TWS, SendPosition, Execute, Reject,
             ConfirmCancel, Lose, callVars, vars
        <5> QED BY <4>1, <5>1
      <4>8. CASE ConnectionLost \/ Crash \/ Reconnect
        BY <4>0, <4>8 DEF ConnectionLost, Crash, Reconnect
      <4> QED BY <4>2, <4>3, <4>4, <4>5, <4>6, <4>7, <4>8 DEF Next, Caller
    <3> QED BY <3>1, <3>2 DEF Unhurried
  <2> QED BY <2>1, <2>2
<1>3. I => NeverReversed
  BY RoundNotReversed DEF Unhurried
<1> QED BY <1>1, <1>2, <1>3, PTL DEF Spec

\* PlaceOrder's comment: the barriers are cancelled AND the cancellation is
\* confirmed before the exit leaves.  No step sends an exit while a barrier is
\* alive, until an exit is overtaken: from then on a position may be open without
\* a bracket (placeExit, awaitCancels, checkProtection).
THEOREM ExitsWait ==
    ASSUME Orderly
    PROVE  Spec => [][~Overtaken => FollowsCancels]_vars
<1> DEFINE A == ~Overtaken => FollowsCancels
           I == Always /\ Counted /\ Sound /\ (Overtaken \/ Rounds)
<1>1. I /\ [Next]_vars => [A]_vars
  BY NewToTWS DEF Orderly, NothingLives, FollowsCancels
<1>2. Init => I
  BY AlwaysInitially, SoundInitially, RoundsInitially DEF Init, Counted
<1>3. I /\ [Next]_vars => I'
  BY AlwaysKept, CountedKept, SoundKept, RoundsKept DEF Orderly
<1>4. Spec => [][A]_vars
  <2> HIDE DEF A, I
  <2> QED BY <1>1, <1>2, <1>3, PTL DEF Spec
<1> QED BY <1>4

\* Engine.inFlight and placeExit: until an exit is overtaken nothing is done
\* twice at the broker.  When, besides, each execution comes with its commission,
\* the engine is free to send an order only once each of those it sent has ended.
THEOREM NothingTwice ==
    ASSUME Orderly, ~Terse
    PROVE  Spec => []NeverDoubled
<1>1. ASSUME Always, Sound, Rounds, Ready,
             NEW id \in Ids, Followed(id), orders[id].role \notin Barriers
      PROVE  Ended(id)
  <2>1. id < nextID /\ id \in Int
    BY <1>1, Unused DEF Always, TypeOK, Ids
  <2>2. ~Blank
    BY <2>1 DEF Blank, Ids
  <2>3. PICK r \in Ids : InRound(r)
    BY <1>1, <2>2 DEF Rounds
  <2>4. r \in Int /\ nextID \in Int
    BY <1>1, <2>3, RoundIds DEF InRound
  <2>5. CASE id < r
    BY <1>1, <2>3, <2>5 DEF InRound, Strict
  <2>6. CASE ~(id < r)
    <3>1. id \in Round(r)
      BY <2>1, <2>4, <2>6 DEF Round
    <3>2. id = r \/ id > r + 2
      BY <1>1, <2>3, <3>1, RoundRoles DEF InRound
    <3> QED BY <1>1, <2>3, <3>1, <3>2 DEF InRound, InTurn, Ready, Bracketing
  <2> QED BY <2>5, <2>6
<1>2. Always /\ Sound /\ (Overtaken \/ Rounds) => NeverDoubled
  BY <1>1, RoundNotReversed DEF NeverDoubled, OneOrderInFlight
<1> QED BY <1>2, RoundsHold, PTL

\* SupportsBracket's promise: when nothing is left to do an open position has
\* both barriers at work, provided TWS answers each cancellation and refuses no
\* exit (after a timeout or a refusal the barriers are gone and the position is
\* the engine's to close), until an exit is overtaken and opens one without.
THEOREM PositionProtected ==
    ASSUME Orderly, ~Silent, "exit" \notin Rejectable
    PROVE  Spec => []Protected
<1>1. ASSUME Always, Sound, Rounds, Settled, net # 0
      PROVE  \E id \in Ids : /\ Lives(id) /\ book[id].role = "limit"
                             /\ Twins(id) # {} /\ book[id].side = -Sign(net)
  <2>1. PICK r \in Ids : InRound(r)
    BY <1>1 DEF Rounds, Blank
  <2>2. Executed(r) /\ ~Closed(r) /\ ~Cancelled(r) /\ net = Side(r) /\ call = None
    BY <1>1, <2>1 DEF InRound, Net, Executed, Cancelled, Settled
  <2>3. /\ {r, r + 1, r + 2} \subseteq Round(r) /\ r \in Int /\ r + 2 < nextID /\ nextID \in Int
        /\ r + 1 \in Ids /\ r + 2 \in Ids /\ r \notin {r + 1, r + 2}
        /\ \A x \in Round(r) : x \in Ids
        /\ \A x \in Ids : Knows(x) => book[x] \in Books
        /\ Side(r) \in {1, -1}
    BY <1>1, <2>1, RoundIds DEF InRound
  <2>4. \A id \in {r + 1, r + 2} : Knows(id)
    BY <1>1, <2>2, <2>3 DEF Sound, Followers, Ahead, Bracketing
  <2>5. \A id \in {r + 1, r + 2} : ~Executed(id)
    BY <2>2, <2>3 DEF Closed
  <2>6. \A x \in Round(r) : ~(x > r + 2 /\ Lives(x))
    <3> SUFFICES ASSUME NEW x \in Round(r), x > r + 2, Lives(x) PROVE FALSE
      OBVIOUS
    <3>1. book[x].role \in Barriers
      BY <1>1, <2>3 DEF Settled
    <3>2. orders[x].role \in Barriers
      BY <1>1, <2>3, <3>1 DEF Sound, Followers, Lives
    <3> QED BY <1>1, <2>1, <3>2, RoundRoles DEF InRound
  <2>7. \A id \in {r + 1, r + 2} : ~orders[id].cancel
    BY <2>1, <2>2, <2>6 DEF InRound, Shielded
  <2>8. \A id \in {r + 1, r + 2} : ~Cancelled(id)
    BY <2>1, <2>2, <2>7 DEF InRound, Barred
  <2>9. \A id \in {r + 1, r + 2} : Lives(id)
    <3>1. \A id \in {r + 1, r + 2} : book[id].state \in Alive \cup {"filled", "cancelled"}
      BY <2>3, <2>4 DEF Books
    <3> QED BY <2>4, <2>5, <2>8, <3>1 DEF Lives, Executed, Cancelled
  <2>10. /\ book[r + 1].role = "limit" /\ book[r + 2].role = "stop" /\ book[r + 1].side = -Side(r)
    <3>1. /\ orders[r + 1].role = RoleOf(r, r + 1) /\ orders[r + 2].role = RoleOf(r, r + 2)
          /\ orders[r + 1].side = -Side(r)
      BY <2>1, <2>3 DEF InRound, Ground
    <3>2. RoleOf(r, r + 1) = "limit" /\ RoleOf(r, r + 2) = "stop"
      BY <2>3 DEF RoleOf
    <3> QED BY <1>1, <2>3, <2>4, <3>1, <3>2 DEF Sound, Followers
  <2>11. r + 2 \in Twins(r + 1)
    <3>1. Abs((r + 2) - (r + 1)) = 1
      BY <2>3 DEF Abs
    <3> QED BY <2>3, <2>9, <2>10, <3>1 DEF Twins, Barriers
  <2>12. -Side(r) = -Sign(net)
    BY <2>2, <2>3 DEF Sign
  <2> QED BY <2>3, <2>9, <2>10, <2>11, <2>12
<1>2. Always /\ Sound /\ (Overtaken \/ Rounds) => Protected
  BY <1>1 DEF Protected
<1> QED BY <1>2, RoundsHold, PTL
=============================================================================

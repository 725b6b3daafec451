---------------------------- MODULE IBGatewayProofs ---------------------------
(***************************************************************************)
(* Theorems about IBGateway, for every number of entries, orders, losses   *)
(* and broken connections the constants allow.                             *)
(*                                                                         *)
(* Whatever TWS does, a report is delivered once.  The inductive invariant *)
(* is Always: nothing is said of an order before it is sent (Heard), a     *)
(* bracket has its three identifiers (Placed), and an execution reported   *)
(* is of an order that no later step follows afresh (Once).                *)
(*                                                                         *)
(* While the connection lasts, what is reported is true, and what executed *)
(* is reported.  Sound is added to Always: every order is followed         *)
(* (Followers), what TWS says and the gateway notes is what became of an   *)
(* order (Truthful, Noted), and the end of an order not settled yet is on  *)
(* its way, with its commission (Owed).                                    *)
(***************************************************************************)
EXTENDS IBGateway, FiniteSetTheorems, TLAPS

Reports == Ids \X {"FILLED", "CANCELLED", "REJECTED"}
Messages == Kinds \X Int

-----------------------------------------------------------------------------
(* What holds whatever TWS does *)

Bracketing == call # None /\ call.stage = "bracket"

\* An order asked for, of which nothing is placed yet.
Placing == {"place", "entering", "exiting", "naked"}

\* The identifiers of a bracket not sent yet.
Ahead(id) == Bracketing /\ id \in call.parent..StopOf(call.parent)

\* Nothing is said of an order before it is sent.
Heard ==
    /\ \A i \in 1..Len(wire) : wire[i][1] # "position" =>
          wire[i][2] \in 1..(nextID - 1) /\ ~Ahead(wire[i][2])
    /\ \A t \in timers : /\ t[2] < nextID /\ ~Ahead(t[2])
                         /\ t[1] = "settle" => Followed(t[2])
    /\ \A id \in Ids : Ahead(id) => book[id] = None

\* A bracket has its three identifiers; the one being sent has not executed.
Placed ==
    /\ bracket # None => StopOf(bracket.parent) < nextID
    /\ Bracketing => /\ StopOf(call.parent) < nextID
                     /\ bracket # None => bracket.parent = call.parent /\ ~bracket.entered
    /\ call # None /\ call.stage \in {"entering", "naked"} => bracket = None
    /\ call # None /\ call.stage \in {"cancel", "wait", "exit"} =>
          /\ call.waits \subseteq 1..(nextID - 1) /\ nextID \in Ids
          /\ bracket # None => bracket.closing

\* An execution on its way to the engine, or there.
Waits(id) == \E i \in 1..Len(queue) : queue[i] = <<id, "FILLED">>
Reported(id) == told[id] > 0 \/ Waits(id)

\* Told once, and never followed afresh.
Once ==
    /\ \A id \in Ids : told[id] <= 1 /\ (Waits(id) => told[id] = 0)
    /\ \A i, j \in 1..Len(queue) :
          queue[i][2] = "FILLED" /\ queue[i] = queue[j] => i = j
    /\ \A id \in Ids : Reported(id) =>
          id < nextID /\ (Followed(id) => orders[id].end = "filled")
    /\ bracket # None =>
          \A b \in BarriersOf(bracket) :
              ~Reported(b) /\ (Followed(b) => orders[b].role \in Barriers /\ orders[b].end # "filled")

Always == TypeOK /\ Heard /\ Placed /\ Once

-----------------------------------------------------------------------------
(* Helpers on sequences *)

LEMMA Appending ==
    ASSUME NEW S, NEW s \in Seq(S), NEW e \in S
    PROVE  /\ Append(s, e) \in Seq(S)
           /\ Len(Append(s, e)) = Len(s) + 1
           /\ \A i \in 1..Len(s) : Append(s, e)[i] = s[i]
           /\ Append(s, e)[Len(s) + 1] = e
  OBVIOUS

LEMMA Popping ==
    ASSUME NEW S, NEW s \in Seq(S), s # <<>>
    PROVE  /\ Tail(s) \in Seq(S)
           /\ Len(Tail(s)) = Len(s) - 1 /\ Len(s) \in Nat \ {0}
           /\ \A i \in 1..(Len(s) - 1) : Tail(s)[i] = s[i + 1]
           /\ Head(s) = s[1] /\ s[1] \in S
  OBVIOUS

LEMMA Joining ==
    ASSUME NEW S, NEW s \in Seq(S), NEW t \in Seq(S)
    PROVE  /\ s \o t \in Seq(S)
           /\ Len(s \o t) = Len(s) + Len(t)
           /\ \A i \in 1..Len(s) : (s \o t)[i] = s[i]
           /\ \A i \in 1..Len(t) : (s \o t)[Len(s) + i] = t[i]
           /\ \A i \in 1..Len(s \o t) :
                i \in 1..Len(s) \/ (i - Len(s) \in 1..Len(t) /\ (s \o t)[i] = t[i - Len(s)])
  OBVIOUS

-----------------------------------------------------------------------------
(* What a message or a timer does to an order that is followed *)

Flags(id, t) ==
    /\ t \in Tracks
    /\ t.role = orders[id].role /\ t.side = orders[id].side /\ t.qty = orders[id].qty
    /\ t.cancel = orders[id].cancel /\ t.end = orders[id].end
    /\ orders[id].exec => t.exec
    /\ orders[id].status => t.status

\* A flag is noted, and a timer may be armed.
Noting(id) ==
    \E t \in Tracks :
        /\ Flags(id, t)
        /\ orders' = [orders EXCEPT ![id] = t]
        /\ \/ bracket' = bracket
           \/ bracket # None /\ bracket' = [bracket EXCEPT !.closing = TRUE]
        /\ timers' \subseteq timers \cup {<<"settle", id>>} /\ timers \subseteq timers'
        /\ t.end = "" /\ (t.exec \/ t.status) => <<"settle", id>> \in timers'
        /\ queue' = queue

\* An execution is settled and reported.
Settling(id) ==
    \E t \in Tracks :
        /\ Flags(id, t) /\ t.end = "" /\ (t.exec \/ t.status)
        /\ orders' = [orders EXCEPT ![id] = [t EXCEPT !.end = "filled"]]
        /\ IF t.role \in Barriers \cup {"exit"} THEN bracket' = None
           ELSE \/ bracket' = bracket
                \/ /\ bracket # None /\ bracket.parent = id
                   /\ bracket' = [bracket EXCEPT !.entered = TRUE]
        /\ timers' = timers \ {<<"settle", id>>}
        /\ queue' = Append(queue, <<id, "FILLED">>)

\* An order that did not execute is over.
Finishing(id) ==
    /\ orders[id].end = ""
    /\ orders' = [orders EXCEPT ![id].end = "dead"]
    /\ bracket' = IF bracket # None /\ bracket.parent = id THEN None ELSE bracket
    /\ timers' \subseteq timers \cup {<<"protect", id>>}
    /\ timers \ {<<"settle", id>>} \subseteq timers'
    /\ ~Unexpected(orders[id]) => timers' \subseteq timers
    /\ IF orders[id].role \in Barriers THEN queue' = queue
       ELSE \E status \in {"CANCELLED", "REJECTED"} : queue' = Append(queue, <<id, status>>)

LEMMA TrySettles ==
    ASSUME TypeOK, NEW id \in Ids, Followed(id), NEW t, Flags(id, t), NEW b, NEW force,
           \/ b = bracket
           \/ bracket # None /\ t.role \in Barriers /\ b = [bracket EXCEPT !.closing = TRUE],
           TrySettle(id, t, b, force)
    PROVE  Noting(id) \/ Settling(id)
<1>1. CASE t.end = "" /\ ((t.exec /\ t.paid) \/ (force /\ (t.exec \/ t.status)))
  <2>1. Settle(id, t, b)
    BY <1>1 DEF TrySettle
  <2>2. CASE t.role \in Barriers \cup {"exit"}
    BY <1>1, <2>1, <2>2 DEF Settle, Settling, Flags
  <2>3. CASE t.role \notin Barriers \cup {"exit"}
    <3>1. b = bracket
      BY <2>3
    <3> QED BY <1>1, <2>1, <2>3, <3>1 DEF Settle, Settling, Flags
  <2> QED BY <2>2, <2>3
<1>2. CASE ~(t.end = "" /\ ((t.exec /\ t.paid) \/ (force /\ (t.exec \/ t.status))))
  <2>1. /\ orders' = [orders EXCEPT ![id] = t] /\ bracket' = b /\ queue' = queue
        /\ timers' \subseteq timers \cup {<<"settle", id>>} /\ timers \subseteq timers'
        /\ t.end = "" /\ (t.exec \/ t.status) => <<"settle", id>> \in timers'
    BY <1>2 DEF TrySettle
  <2> QED BY <2>1 DEF Noting, Flags
<1> QED BY <1>1, <1>2

LEMMA Finishes ==
    ASSUME TypeOK, NEW id \in Ids, Followed(id), orders[id].end = "",
           NEW status \in {"CANCELLED", "REJECTED"}, Finish(id, status)
    PROVE  Finishing(id)
  BY DEF Finish, Finishing

Following(id) ==
    \/ UNCHANGED followVars
    \/ id \in Ids /\ Followed(id) /\ (Noting(id) \/ Settling(id) \/ Finishing(id))

\* The messages about an order.
OrderMessage ==
    OnExecution \/ OnCommission \/ OnFilled \/ OnCancelled \/ OnRefused \/ OnGone

\* What they leave alone, and the message they take.
Taking ==
    /\ up /\ wire # <<>> /\ wire' = Tail(wire)
    /\ UNCHANGED <<up, nextID, callVars, book, net, posDue, ghostVars>>

LEMMA MessagesFollow ==
    ASSUME TypeOK, Heard, OrderMessage
    PROVE  /\ Taking /\ UNCHANGED held /\ wire[1][1] # "position"
           /\ Following(wire[1][2])
<1> DEFINE id == wire[1][2]
<1>1. ASSUME NEW kind, Incoming(kind), kind # "position"
      PROVE  /\ Taking /\ About = id /\ wire[1][1] = kind /\ id \in Ids
  <2>1. wire # <<>> /\ Head(wire)[1] = kind /\ wire \in Seq(Messages)
    BY <1>1 DEF Incoming, TypeOK, Messages
  <2>2. Head(wire) = wire[1] /\ 1 \in 1..Len(wire)
    BY <2>1, Popping
  <2>3. id \in 1..(nextID - 1)
    BY <1>1, <2>1, <2>2 DEF Heard
  <2>4. id \in Ids
    BY <2>3, IBAssumption DEF TypeOK, Ids
  <2> QED BY <1>1, <2>1, <2>2, <2>4 DEF Incoming, Taking, About
<1>2. ASSUME Followed(id), id \in Ids PROVE orders[id] \in Tracks
  BY <1>2 DEF TypeOK, Followed
<1>3. CASE OnExecution
  <2>1. Taking /\ About = id /\ wire[1][1] # "position" /\ id \in Ids
    BY <1>1, <1>3 DEF OnExecution
  <2>2. CASE Followed(id) /\ ~orders[id].exec
    <3> DEFINE t == [orders[id] EXCEPT !.exec = TRUE]
    <3>1. Flags(id, t)
      BY <1>2, <2>1, <2>2 DEF Flags, Tracks
    <3>2. TrySettle(id, t, ClosedBy(orders[id]), FALSE)
      BY <1>3, <2>1, <2>2 DEF OnExecution
    <3>3. \/ ClosedBy(orders[id]) = bracket
          \/ /\ bracket # None /\ t.role \in Barriers
             /\ ClosedBy(orders[id]) = [bracket EXCEPT !.closing = TRUE]
      BY <3>1 DEF ClosedBy, Flags
    <3>4. Noting(id) \/ Settling(id)
      <4> HIDE DEF t, id
      <4> QED BY <2>1, <2>2, <3>1, <3>2, <3>3, TrySettles
    <3> QED BY <1>3, <2>1, <2>2, <3>4 DEF OnExecution, Following
  <2> QED BY <1>3, <2>1, <2>2 DEF OnExecution, Following
<1>4. CASE OnCommission
  <2>1. Taking /\ About = id /\ wire[1][1] # "position" /\ id \in Ids
    BY <1>1, <1>4 DEF OnCommission
  <2>2. CASE Followed(id)
    <3> DEFINE t == [orders[id] EXCEPT !.paid = TRUE]
    <3>1. Flags(id, t)
      BY <1>2, <2>1, <2>2 DEF Flags, Tracks
    <3>2. TrySettle(id, t, bracket, FALSE)
      BY <1>4, <2>1, <2>2 DEF OnCommission
    <3>3. Noting(id) \/ Settling(id)
      <4> HIDE DEF t, id
      <4> QED BY <2>1, <2>2, <3>1, <3>2, TrySettles
    <3> QED BY <1>4, <2>1, <2>2, <3>3 DEF OnCommission, Following
  <2> QED BY <1>4, <2>1, <2>2 DEF OnCommission, Following
<1>5. CASE OnFilled
  <2>1. Taking /\ About = id /\ wire[1][1] # "position" /\ id \in Ids
    BY <1>1, <1>5 DEF OnFilled
  <2>2. CASE Followed(id)
    <3> DEFINE t == [orders[id] EXCEPT !.status = TRUE]
    <3>1. Flags(id, t)
      BY <1>2, <2>1, <2>2 DEF Flags, Tracks
    <3>2. TrySettle(id, t, ClosedBy(orders[id]), FALSE)
      BY <1>5, <2>1, <2>2 DEF OnFilled
    <3>3. \/ ClosedBy(orders[id]) = bracket
          \/ /\ bracket # None /\ t.role \in Barriers
             /\ ClosedBy(orders[id]) = [bracket EXCEPT !.closing = TRUE]
      BY <3>1 DEF ClosedBy, Flags
    <3>4. Noting(id) \/ Settling(id)
      <4> HIDE DEF t, id
      <4> QED BY <2>1, <2>2, <3>1, <3>2, <3>3, TrySettles
    <3> QED BY <1>5, <2>1, <2>2, <3>4 DEF OnFilled, Following
  <2> QED BY <1>5, <2>1, <2>2 DEF OnFilled, Following
<1>6. CASE OnCancelled
  <2>1. Taking /\ About = id /\ wire[1][1] # "position" /\ id \in Ids
    BY <1>1, <1>6 DEF OnCancelled
  <2>2. CASE Followed(id) /\ orders[id].exec
    <3>1. Flags(id, orders[id])
      BY <1>2, <2>1, <2>2 DEF Flags, Tracks
    <3>2. TrySettle(id, orders[id], bracket, FALSE)
      BY <1>6, <2>1, <2>2 DEF OnCancelled
    <3>3. Noting(id) \/ Settling(id)
      <4> HIDE DEF id
      <4> QED BY <2>1, <2>2, <3>1, <3>2, TrySettles
    <3> QED BY <1>6, <2>1, <2>2, <3>3 DEF OnCancelled, Following
  <2>3. CASE Followed(id) /\ ~orders[id].exec /\ ~Ended(id)
    <3>1. Finish(id, "CANCELLED") /\ UNCHANGED held
      BY <1>6, <2>1, <2>3 DEF OnCancelled
    <3>2. Finishing(id)
      <4> HIDE DEF id
      <4> QED BY <2>1, <2>3, <3>1, Finishes DEF Ended
    <3> QED BY <2>1, <2>3, <3>1, <3>2 DEF Following
  <2>4. CASE ~Followed(id) \/ (~orders[id].exec /\ Ended(id))
    <3>1. UNCHANGED followVars /\ UNCHANGED held
      BY <1>6, <2>1, <2>4 DEF OnCancelled, Ended
    <3> QED BY <2>1, <3>1 DEF Following
  <2> QED BY <2>2, <2>3, <2>4
<1>7. CASE OnRefused
  <2>1. Taking /\ About = id /\ wire[1][1] # "position" /\ id \in Ids
    BY <1>1, <1>7 DEF OnRefused
  <2>2. CASE Followed(id) /\ ~Ended(id) /\ ~orders[id].exec
    <3>1. Finish(id, "REJECTED") /\ UNCHANGED held
      BY <1>7, <2>1, <2>2 DEF OnRefused
    <3>2. Finishing(id)
      <4> HIDE DEF id
      <4> QED BY <2>1, <2>2, <3>1, Finishes DEF Ended
    <3> QED BY <2>1, <2>2, <3>1, <3>2 DEF Following
  <2> QED BY <1>7, <2>1, <2>2 DEF OnRefused, Following
<1>8. CASE OnGone
  <2>1. Taking /\ About = id /\ wire[1][1] # "position" /\ id \in Ids
    BY <1>1, <1>8 DEF OnGone
  <2> QED BY <1>8, <2>1 DEF OnGone, Following
<1> QED BY <1>3, <1>4, <1>5, <1>6, <1>7, <1>8 DEF OrderMessage

-----------------------------------------------------------------------------
(* The general invariant, step by step *)

\* The socket: a message is taken or nothing happens to it.
Shorter == wire' = wire \/ (wire # <<>> /\ wire' = Tail(wire))

LEMMA ShorterWire ==
    ASSUME wire \in Seq(Messages), Shorter
    PROVE  /\ wire' \in Seq(Messages)
           /\ \A i \in 1..Len(wire') : \E j \in 1..Len(wire) : wire'[i] = wire[j]
<1>1. CASE wire' = wire
  BY <1>1
<1>2. CASE wire # <<>> /\ wire' = Tail(wire)
  <2>1. /\ wire' \in Seq(Messages) /\ Len(wire') = Len(wire) - 1 /\ Len(wire) \in Nat \ {0}
        /\ \A i \in 1..(Len(wire) - 1) : wire'[i] = wire[i + 1]
    BY <1>2, Popping
  <2> QED BY <2>1
<1> QED BY <1>1, <1>2 DEF Shorter

LEMMA FollowingKeepsTypes ==
    ASSUME TypeOK, NEW id, Following(id), Shorter, held' \in Int,
           UNCHANGED <<up, nextID, callVars, book, net, posDue, ghostVars>>
    PROVE  TypeOK'
<1> USE DEF TypeOK, callVars, ghostVars
<1>1. wire' \in Seq(Kinds \X Int)
  BY ShorterWire DEF Messages
<1>2. CASE UNCHANGED followVars
  BY <1>1, <1>2 DEF followVars
<1>3. CASE id \in Ids /\ Followed(id) /\ Noting(id)
  <2> PICK t \in Tracks :
        /\ Flags(id, t)
        /\ orders' = [orders EXCEPT ![id] = t]
        /\ \/ bracket' = bracket
           \/ bracket # None /\ bracket' = [bracket EXCEPT !.closing = TRUE]
        /\ timers' \subseteq timers \cup {<<"settle", id>>} /\ timers \subseteq timers'
        /\ queue' = queue
    BY <1>3 DEF Noting
  <2>1. orders' \in [Ids -> Tracks \cup {None}]
    OBVIOUS
  <2>2. bracket' \in Brackets \cup {None}
    BY DEF Brackets
  <2>3. timers' \subseteq {"settle", "protect"} \X Ids
    BY <1>3
  <2>4. \A o \in Ids : o >= nextID => orders'[o] = None
    BY <1>3 DEF Followed
  <2> QED BY <1>1, <2>1, <2>2, <2>3, <2>4
<1>4. CASE id \in Ids /\ Followed(id) /\ Settling(id)
  <2> PICK t \in Tracks :
        /\ Flags(id, t) /\ t.end = ""
        /\ orders' = [orders EXCEPT ![id] = [t EXCEPT !.end = "filled"]]
        /\ IF t.role \in Barriers \cup {"exit"} THEN bracket' = None
           ELSE \/ bracket' = bracket
                \/ /\ bracket # None /\ bracket.parent = id
                   /\ bracket' = [bracket EXCEPT !.entered = TRUE]
        /\ timers' = timers \ {<<"settle", id>>}
        /\ queue' = Append(queue, <<id, "FILLED">>)
    BY <1>4 DEF Settling
  <2>0. [t EXCEPT !.end = "filled"] \in Tracks
    BY DEF Tracks
  <2>1. orders' \in [Ids -> Tracks \cup {None}]
    BY <2>0
  <2>2. bracket' \in Brackets \cup {None}
    BY DEF Brackets
  <2>3. queue' \in Seq(Ids \X {"FILLED", "CANCELLED", "REJECTED"})
    BY <1>4, Appending
  <2>4. \A o \in Ids : o >= nextID => orders'[o] = None
    BY <1>4 DEF Followed
  <2> QED BY <1>1, <2>1, <2>2, <2>3, <2>4
<1>5. CASE id \in Ids /\ Followed(id) /\ Finishing(id)
  <2>0. orders[id] \in Tracks /\ [orders[id] EXCEPT !.end = "dead"] \in Tracks
    BY <1>5 DEF Tracks, Followed
  <2>1. orders' \in [Ids -> Tracks \cup {None}]
    BY <1>5, <2>0 DEF Finishing
  <2>2. bracket' \in Brackets \cup {None}
    BY <1>5 DEF Finishing
  <2>5. timers' \subseteq {"settle", "protect"} \X Ids
    <3>1. timers' \subseteq timers \cup {<<"protect", id>>}
      BY <1>5 DEF Finishing
    <3>2. <<"protect", id>> \in {"settle", "protect"} \X Ids
      BY <1>5
    <3> QED BY <3>1, <3>2
  <2>3. queue' \in Seq(Ids \X {"FILLED", "CANCELLED", "REJECTED"})
    <3>1. CASE queue' = queue
      BY <3>1
    <3>2. ASSUME NEW status \in {"CANCELLED", "REJECTED"}, queue' = Append(queue, <<id, status>>)
          PROVE  queue' \in Seq(Ids \X {"FILLED", "CANCELLED", "REJECTED"})
      BY <1>5, <3>2, Appending
    <3> QED BY <1>5, <3>1, <3>2 DEF Finishing
  <2>4. \A o \in Ids : o >= nextID => orders'[o] = None
    BY <1>5 DEF Followed, Finishing
  <2> QED BY <1>1, <2>1, <2>2, <2>3, <2>4, <2>5
<1> QED BY <1>2, <1>3, <1>4, <1>5 DEF Following

\* The orders followed stay the same ones, with their roles.
KeepsOrders(id) ==
    /\ \A o \in Ids : Followed(o) <=> Followed(o)'
    /\ \A o \in Ids : Followed(o) =>
          /\ orders'[o].role = orders[o].role /\ orders'[o].side = orders[o].side
          /\ orders'[o].qty = orders[o].qty /\ orders'[o].cancel = orders[o].cancel
          /\ orders[o].end # "" => orders'[o].end = orders[o].end
    /\ \A o \in Ids : o # id => orders'[o] = orders[o]
    /\ bracket' # None => /\ bracket # None /\ bracket'.parent = bracket.parent
                          /\ bracket'.side = bracket.side
                          /\ bracket'.entered = bracket.entered \/ bracket.parent = id
                          /\ bracket.closing => bracket'.closing
    /\ timers' \subseteq timers \cup {<<"settle", id>>, <<"protect", id>>}

LEMMA FollowingKeepsOrders ==
    ASSUME TypeOK, NEW id, Following(id)
    PROVE  KeepsOrders(id)
<1> USE IBAssumption DEF TypeOK, Followed, KeepsOrders
<1>1. CASE UNCHANGED followVars
  BY <1>1 DEF followVars
<1>2. CASE id \in Ids /\ Followed(id) /\ Noting(id)
  <2> PICK t \in Tracks :
        /\ Flags(id, t)
        /\ orders' = [orders EXCEPT ![id] = t]
        /\ \/ bracket' = bracket
           \/ bracket # None /\ bracket' = [bracket EXCEPT !.closing = TRUE]
        /\ timers' \subseteq timers \cup {<<"settle", id>>}
    BY <1>2 DEF Noting
  <2>1. orders'[id] = t /\ \A o \in Ids : o # id => orders'[o] = orders[o]
    BY <1>2
  <2>2. \A o \in Ids : Followed(o) <=> Followed(o)'
    BY <1>2, <2>1
  <2>3. bracket' # None => /\ bracket # None /\ bracket'.parent = bracket.parent
                           /\ bracket'.side = bracket.side
                           /\ bracket'.entered = bracket.entered \/ bracket.parent = id
                           /\ bracket.closing => bracket'.closing
    BY DEF Brackets
  <2> QED BY <1>2, <2>1, <2>2, <2>3 DEF Flags
<1>3. CASE id \in Ids /\ Followed(id) /\ Settling(id)
  <2> PICK t \in Tracks :
        /\ Flags(id, t) /\ t.end = ""
        /\ orders' = [orders EXCEPT ![id] = [t EXCEPT !.end = "filled"]]
        /\ IF t.role \in Barriers \cup {"exit"} THEN bracket' = None
           ELSE \/ bracket' = bracket
                \/ /\ bracket # None /\ bracket.parent = id
                   /\ bracket' = [bracket EXCEPT !.entered = TRUE]
        /\ timers' = timers \ {<<"settle", id>>}
        /\ queue' = Append(queue, <<id, "FILLED">>)
    BY <1>3 DEF Settling
  <2> DEFINE u == [t EXCEPT !.end = "filled"]
  <2>1. /\ u \in Tracks /\ u.role = t.role /\ u.side = t.side /\ u.qty = t.qty
        /\ u.cancel = t.cancel
    BY DEF Tracks
  <2>2. orders'[id] = u /\ \A o \in Ids : o # id => orders'[o] = orders[o]
    BY <1>3
  <2>3. orders[id].end = ""
    BY DEF Flags
  <2> HIDE DEF u
  <2>4. \A o \in Ids : Followed(o) <=> Followed(o)'
    BY <1>3, <2>1, <2>2
  <2>5. bracket' # None => /\ bracket # None /\ bracket'.parent = bracket.parent
                           /\ bracket'.side = bracket.side
                           /\ bracket'.entered = bracket.entered \/ bracket.parent = id
                           /\ bracket.closing => bracket'.closing
    BY DEF Brackets
  <2> QED BY <1>3, <2>1, <2>2, <2>3, <2>4, <2>5 DEF Flags
<1>4. CASE id \in Ids /\ Followed(id) /\ Finishing(id)
  <2> DEFINE u == [orders[id] EXCEPT !.end = "dead"]
  <2>0. orders[id] \in Tracks /\ orders[id].end = ""
    BY <1>4 DEF Finishing
  <2>1. /\ u \in Tracks /\ u.role = orders[id].role /\ u.side = orders[id].side
        /\ u.qty = orders[id].qty /\ u.cancel = orders[id].cancel
    BY <2>0 DEF Tracks
  <2>2. orders'[id] = u /\ \A o \in Ids : o # id => orders'[o] = orders[o]
    BY <1>4 DEF Finishing
  <2> HIDE DEF u
  <2>4. \A o \in Ids : Followed(o) <=> Followed(o)'
    BY <1>4, <2>1, <2>2
  <2>5. /\ bracket' # None => bracket' = bracket
        /\ timers' \subseteq timers \cup {<<"protect", id>>}
    BY <1>4 DEF Finishing
  <2> QED BY <1>4, <2>0, <2>1, <2>2, <2>4, <2>5
<1> QED BY <1>1, <1>2, <1>3, <1>4 DEF Following

\* Only a settlement adds an execution to report.
LEMMA FollowingReports ==
    ASSUME TypeOK, NEW id, Following(id)
    PROVE  /\ Settling(id) /\ id \in Ids /\ Followed(id) =>
                /\ \A o \in Ids : Waits(o)' <=> Waits(o) \/ o = id
                /\ ~Waits(id) /\ (\A i, j \in 1..Len(queue) :
                      queue[i][2] = "FILLED" /\ queue[i] = queue[j] => i = j)
                   => \A i, j \in 1..Len(queue') :
                        queue'[i][2] = "FILLED" /\ queue'[i] = queue'[j] => i = j
           /\ ~(Settling(id) /\ id \in Ids /\ Followed(id)) =>
                /\ \A o \in Ids : Waits(o)' <=> Waits(o)
                /\ (\A i, j \in 1..Len(queue) :
                      queue[i][2] = "FILLED" /\ queue[i] = queue[j] => i = j)
                   => \A i, j \in 1..Len(queue') :
                        queue'[i][2] = "FILLED" /\ queue'[i] = queue'[j] => i = j
<1>1. queue \in Seq(Reports)
  BY DEF TypeOK, Reports
<1>2. CASE queue' = queue /\ ~Settling(id)
  BY <1>2 DEF Waits
<1>3. CASE id \in Ids /\ Followed(id) /\ Settling(id)
  <2>1. queue' = Append(queue, <<id, "FILLED">>) /\ <<id, "FILLED">> \in Reports
    BY <1>3 DEF Settling, Reports
  <2>2. /\ Len(queue') = Len(queue) + 1 /\ Len(queue) \in Nat
        /\ \A i \in 1..Len(queue) : queue'[i] = queue[i]
        /\ queue'[Len(queue) + 1] = <<id, "FILLED">>
    BY <1>1, <2>1, Appending
  <2>3. \A o \in Ids : Waits(o)' <=> Waits(o) \/ o = id
    <3> TAKE o \in Ids
    <3>1. Waits(o) => Waits(o)'
      BY <2>2 DEF Waits
    <3>2. o = id => Waits(o)'
      BY <2>2 DEF Waits
    <3>3. Waits(o)' => Waits(o) \/ o = id
      BY <2>2 DEF Waits
    <3> QED BY <3>1, <3>2, <3>3
  <2>4. ASSUME ~Waits(id), NEW i \in 1..Len(queue'), NEW j \in 1..Len(queue'),
               \A k, l \in 1..Len(queue) :
                  queue[k][2] = "FILLED" /\ queue[k] = queue[l] => k = l,
               queue'[i][2] = "FILLED" /\ queue'[i] = queue'[j]
        PROVE  i = j
    <3>1. i \in 1..Len(queue) => queue'[i] # <<id, "FILLED">>
      BY <2>2, <2>4 DEF Waits
    <3>2. j \in 1..Len(queue) => queue'[j] # <<id, "FILLED">>
      BY <2>2, <2>4 DEF Waits
    <3>3. CASE i \in 1..Len(queue) /\ j \in 1..Len(queue)
      BY <2>2, <2>4, <3>3
    <3>4. CASE ~(i \in 1..Len(queue) /\ j \in 1..Len(queue))
      BY <2>2, <2>4, <3>1, <3>2, <3>4
    <3> QED BY <3>3, <3>4
  <2> QED BY <1>3, <2>3, <2>4
<1>4. ASSUME id \in Ids, NEW status \in {"CANCELLED", "REJECTED"},
             queue' = Append(queue, <<id, status>>)
      PROVE  /\ \A o \in Ids : Waits(o)' <=> Waits(o)
             /\ (\A i, j \in 1..Len(queue) :
                      queue[i][2] = "FILLED" /\ queue[i] = queue[j] => i = j)
                   => \A i, j \in 1..Len(queue') :
                        queue'[i][2] = "FILLED" /\ queue'[i] = queue'[j] => i = j
  <2>1. <<id, status>> \in Reports /\ <<id, status>>[2] # "FILLED"
    BY <1>4 DEF Reports
  <2>2. /\ Len(queue') = Len(queue) + 1 /\ Len(queue) \in Nat
        /\ \A i \in 1..Len(queue) : queue'[i] = queue[i]
        /\ queue'[Len(queue) + 1] = <<id, status>>
    BY <1>1, <1>4, <2>1, Appending
  <2>3. \A o \in Ids : Waits(o)' <=> Waits(o)
    <3> TAKE o \in Ids
    <3>1. Waits(o) => Waits(o)'
      BY <2>2 DEF Waits
    <3>3. Waits(o)' => Waits(o)
      BY <2>1, <2>2 DEF Waits
    <3> QED BY <3>1, <3>3
  <2>4. ASSUME NEW i \in 1..Len(queue'), NEW j \in 1..Len(queue'),
               \A k, l \in 1..Len(queue) :
                  queue[k][2] = "FILLED" /\ queue[k] = queue[l] => k = l,
               queue'[i][2] = "FILLED" /\ queue'[i] = queue'[j]
        PROVE  i = j
    <3>1. i \in 1..Len(queue) /\ j \in 1..Len(queue)
      BY <2>1, <2>2, <2>4
    <3> QED BY <2>2, <2>4, <3>1
  <2> QED BY <2>3, <2>4
<1>5. CASE id \in Ids /\ Followed(id) /\ Finishing(id) /\ ~Settling(id)
  <2>1. CASE queue' = queue
    BY <1>5, <1>2, <2>1
  <2>2. ASSUME NEW status \in {"CANCELLED", "REJECTED"}, queue' = Append(queue, <<id, status>>)
        PROVE  /\ \A o \in Ids : Waits(o)' <=> Waits(o)
               /\ (\A i, j \in 1..Len(queue) :
                      queue[i][2] = "FILLED" /\ queue[i] = queue[j] => i = j)
                   => \A i, j \in 1..Len(queue') :
                        queue'[i][2] = "FILLED" /\ queue'[i] = queue'[j] => i = j
    BY <1>5, <2>2, <1>4
  <2> QED BY <1>5, <2>1, <2>2 DEF Finishing
<1>6. CASE id \in Ids /\ Noting(id) /\ ~Settling(id)
  BY <1>2, <1>6 DEF Noting
<1>7. CASE UNCHANGED followVars /\ ~(Settling(id) /\ id \in Ids /\ Followed(id))
  BY <1>7 DEF followVars, Waits
<1> QED BY <1>3, <1>5, <1>6, <1>7 DEF Following

LEMMA BracketIds ==
    ASSUME TypeOK, Placed, bracket # None
    PROVE  /\ bracket.parent \in Ids /\ BarriersOf(bracket) \subseteq Ids
           /\ \A b \in BarriersOf(bracket) : b < nextID /\ b # bracket.parent
<1>1. bracket.parent \in 1..MaxOrders /\ bracket.parent + 2 < nextID
  BY DEF TypeOK, Placed, Brackets, StopOf, Ids
<1>2. nextID \in 1..(MaxOrders + 1) /\ MaxOrders \in Nat
  BY IBAssumption DEF TypeOK
<1> DEFINE p == bracket.parent
<1>3. p \in 1..MaxOrders /\ p + 1 \in 1..MaxOrders /\ p + 2 \in 1..MaxOrders
      /\ p + 1 < nextID /\ p + 2 < nextID /\ p + 1 # p /\ p + 2 # p
  BY <1>1, <1>2
<1> QED BY <1>3 DEF BarriersOf, LimitOf, StopOf, Ids

LEMMA FollowingKeeps ==
    ASSUME Always, NEW id, Following(id), id < nextID, ~Ahead(id), Shorter, held' \in Int,
           UNCHANGED <<up, nextID, callVars, book, net, posDue, ghostVars>>
    PROVE  Always'
<1>0. TypeOK /\ Heard /\ Placed /\ Once
  BY DEF Always
<1>1. TypeOK'
  BY <1>0, FollowingKeepsTypes
<1>2. KeepsOrders(id)
  BY <1>0, FollowingKeepsOrders
<1>3. \A o : Ahead(o)' <=> Ahead(o)
  BY DEF Ahead, Bracketing, callVars
<1>4. Heard'
  <2>1. \A i \in 1..Len(wire') : \E j \in 1..Len(wire) : wire'[i] = wire[j]
    BY <1>0, ShorterWire DEF TypeOK, Messages
  <2>2. (\A i \in 1..Len(wire) : wire[i][1] # "position" =>
           wire[i][2] \in 1..(nextID - 1) /\ ~Ahead(wire[i][2]))'
    BY <1>0, <1>3, <2>1 DEF Heard
  <2>3. ASSUME NEW t \in timers'
        PROVE  t[2] < nextID' /\ ~Ahead(t[2])' /\ (t[1] = "settle" => Followed(t[2])')
    <3>1. CASE t \in timers
      <4>1. t[2] \in Ids
        BY <1>0, <3>1 DEF TypeOK
      <4> QED BY <1>0, <1>2, <1>3, <3>1, <4>1 DEF Heard, KeepsOrders
    <3>2. CASE t \in {<<"settle", id>>, <<"protect", id>>} /\ t \notin timers
      <4>1. id \in Ids /\ Followed(id)
        <5>1. CASE UNCHANGED followVars
          BY <3>2, <5>1 DEF followVars
        <5> QED BY <5>1 DEF Following
      <4>2. t[2] = id
        BY <3>2
      <4> QED BY <1>2, <1>3, <4>1, <4>2 DEF KeepsOrders, Followed, Ahead, Bracketing
    <3> QED BY <1>2, <2>3, <3>1, <3>2 DEF KeepsOrders
  <2>4. \A o \in Ids : Ahead(o)' => book'[o] = None
    BY <1>0, <1>3 DEF Heard
  <2> QED BY <2>2, <2>3, <2>4 DEF Heard
<1>5. Placed'
  <2>1. Bracketing' = Bracketing /\ call' = call
    BY DEF Bracketing, callVars
  <2>2. Bracketing /\ bracket' # None => bracket'.parent = call.parent /\ ~bracket'.entered
    <3> HAVE Bracketing /\ bracket' # None
    <3>1. bracket # None /\ bracket.parent = call.parent /\ ~bracket.entered
      BY <1>0, <1>2 DEF Placed, KeepsOrders
    <3>2. id # call.parent
      BY <1>0 DEF Ahead, TypeOK, Calls, Bracketing, StopOf, Ids
    <3> QED BY <1>2, <3>1, <3>2 DEF KeepsOrders
  <2> QED BY <1>0, <1>2, <2>1, <2>2 DEF Placed, KeepsOrders
<1>6. Once'
  <2>0. told' = told
    BY DEF ghostVars
  <2>1. CASE Settling(id) /\ id \in Ids /\ Followed(id)
    <3>1. /\ \A o \in Ids : Waits(o)' <=> Waits(o) \/ o = id
          /\ ~Waits(id) /\ (\A i, j \in 1..Len(queue) :
                      queue[i][2] = "FILLED" /\ queue[i] = queue[j] => i = j)
                   => \A i, j \in 1..Len(queue') :
                        queue'[i][2] = "FILLED" /\ queue'[i] = queue'[j] => i = j
      BY <1>0, <2>1, FollowingReports
    <3>2. /\ orders[id].end = "" /\ orders'[id].end = "filled"
          /\ orders'[id].role = orders[id].role
          /\ orders[id].role \in Barriers \cup {"exit"} => bracket' = None
      <4> PICK t \in Tracks :
            /\ Flags(id, t) /\ t.end = ""
            /\ orders' = [orders EXCEPT ![id] = [t EXCEPT !.end = "filled"]]
            /\ t.role \in Barriers \cup {"exit"} => bracket' = None
        BY <2>1 DEF Settling
      <4>1. orders'[id] = [t EXCEPT !.end = "filled"]
        BY <1>0, <2>1 DEF TypeOK
      <4>2. [t EXCEPT !.end = "filled"].end = "filled" /\ [t EXCEPT !.end = "filled"].role = t.role
        BY DEF Tracks
      <4> QED BY <4>1, <4>2 DEF Flags
    <3>3. ~Reported(id) /\ told[id] = 0
      <4>1. ~Reported(id)
        BY <1>0, <2>1, <3>2 DEF Once
      <4>2. told[id] \in Nat
        BY <1>0, <2>1 DEF TypeOK
      <4> QED BY <4>1, <4>2 DEF Reported
    <3>4. \A o \in Ids : Reported(o)' <=> Reported(o) \/ o = id
      BY <2>0, <3>1 DEF Reported
    <3>5. \A o \in Ids : Reported(o)' => (Followed(o)' => orders'[o].end = "filled")
      <4> SUFFICES ASSUME NEW o \in Ids, Reported(o), o # id
                   PROVE  Followed(o)' => orders'[o].end = "filled"
        BY <3>2, <3>4
      <4>1. Followed(o) => orders[o].end = "filled"
        BY <1>0 DEF Once
      <4> QED BY <1>2, <4>1 DEF KeepsOrders
    <3>6. ASSUME bracket' # None, NEW b \in BarriersOf(bracket')
          PROVE  ~Reported(b)' /\ (Followed(b)' => orders'[b].role \in Barriers
                                                   /\ orders'[b].end # "filled")
      <4>1. b \in BarriersOf(bracket) /\ bracket # None
        BY <1>2, <3>6 DEF BarriersOf, KeepsOrders
      <4>2. b \in Ids
        BY <1>0, <4>1, BracketIds
      <4>3. b # id
        BY <1>0, <2>1, <3>2, <3>6, <4>1 DEF Once, Barriers
      <4> QED BY <1>0, <1>2, <3>4, <4>1, <4>2, <4>3 DEF Once, KeepsOrders
    <3> QED BY <1>0, <2>0, <2>1, <3>1, <3>3, <3>4, <3>5, <3>6 DEF Once, Reported
  <2>2. CASE ~(Settling(id) /\ id \in Ids /\ Followed(id))
    <3>1. /\ \A o \in Ids : Waits(o)' <=> Waits(o)
          /\ (\A i, j \in 1..Len(queue) :
                      queue[i][2] = "FILLED" /\ queue[i] = queue[j] => i = j)
                   => \A i, j \in 1..Len(queue') :
                        queue'[i][2] = "FILLED" /\ queue'[i] = queue'[j] => i = j
      BY <1>0, <2>2, FollowingReports
    <3>4. \A o \in Ids : Reported(o)' <=> Reported(o)
      BY <2>0, <3>1 DEF Reported
    <3>5. \A o \in Ids : Reported(o)' => (Followed(o)' => orders'[o].end = "filled")
      BY <1>0, <1>2, <3>4 DEF Once, KeepsOrders
    <3>6. ASSUME bracket' # None, NEW b \in BarriersOf(bracket')
          PROVE  ~Reported(b)' /\ (Followed(b)' => orders'[b].role \in Barriers
                                                   /\ orders'[b].end # "filled")
      <4>1. b \in BarriersOf(bracket) /\ bracket # None
        BY <1>2, <3>6 DEF BarriersOf, KeepsOrders
      <4>2. b \in Ids
        BY <1>0, <4>1, BracketIds
      <4>3. Followed(b) => orders'[b].end # "filled"
        <5>1. orders[b].end # "filled" \/ ~Followed(b)
          BY <1>0, <4>1 DEF Once
        <5>2. CASE UNCHANGED followVars
          BY <5>1, <5>2 DEF followVars
        <5>3. CASE id \in Ids /\ Noting(id)
          BY <1>0, <5>1, <5>3, <4>2 DEF Noting, Flags, TypeOK
        <5>4. CASE id \in Ids /\ Followed(id) /\ Finishing(id)
          BY <1>0, <5>1, <5>4, <4>2 DEF Finishing, TypeOK, Tracks, Followed
        <5> QED BY <2>2, <5>2, <5>3, <5>4 DEF Following
      <4> QED BY <1>0, <1>2, <3>4, <4>1, <4>2, <4>3 DEF Once, KeepsOrders
    <3> QED BY <1>0, <2>0, <3>1, <3>4, <3>5, <3>6 DEF Once
  <2> QED BY <2>1, <2>2
<1> QED BY <1>1, <1>4, <1>5, <1>6 DEF Always

-----------------------------------------------------------------------------
(* The messages of one step of TWS *)

LEMMA AboutEach ==
    ASSUME NEW kind \in Kinds, NEW ids \in SUBSET Ids, NEW m \in OfEach(kind, ids)
    PROVE  /\ m \in Seq(Messages)
           /\ \A i \in 1..Len(m) : \E id \in ids : m[i] = <<kind, id>>
<1>1. Cardinality(ids) \in Nat
  <2>1. IsFiniteSet(Ids)
    BY FS_Interval, IBAssumption DEF Ids
  <2>2. IsFiniteSet(ids)
    BY <2>1, FS_Subset
  <2> QED BY <2>2, FS_CardinalityType
<1>2. m \in [1..Cardinality(ids) -> {kind} \X ids]
  BY DEF OfEach
<1>3. m \in Seq({kind} \X ids) /\ Len(m) = Cardinality(ids)
  BY <1>1, <1>2
<1>4. {kind} \X ids \subseteq Messages
  <2>1. \A id \in ids : id \in Int
    BY DEF Ids
  <2> QED BY <2>1 DEF Messages
<1>5. m \in Seq(Messages)
  BY <1>3, <1>4
<1>6. \A i \in 1..Len(m) : m[i] \in {kind} \X ids
  BY <1>2, <1>3
<1> QED BY <1>5, <1>6

\* What one says, and then the other.
Said(m, says) == \A i \in 1..Len(m) : m[i] \in says

LEMMA SaidBoth ==
    ASSUME NEW says, NEW m \in Seq(Messages), NEW n \in Seq(Messages),
           Said(m, says), Said(n, says)
    PROVE  m \o n \in Seq(Messages) /\ Said(m \o n, says)
<1>1. /\ m \o n \in Seq(Messages)
      /\ \A i \in 1..Len(m) : (m \o n)[i] = m[i]
      /\ \A i \in 1..Len(m \o n) :
           i \in 1..Len(m) \/ (i - Len(m) \in 1..Len(n) /\ (m \o n)[i] = n[i - Len(m)])
  BY Joining
<1> QED BY <1>1 DEF Said

LEMMA Growing ==
    ASSUME TypeOK, NEW says, NEW m \in Seq(Messages), Said(m, says), Sends(m)
    PROVE  /\ wire' \in Seq(Messages)
           /\ \A i \in 1..Len(wire') :
                (\E j \in 1..Len(wire) : wire'[i] = wire[j]) \/ (up /\ wire'[i] \in says)
<1>1. wire \in Seq(Messages)
  BY DEF TypeOK, Messages
<1>2. CASE ~up
  BY <1>1, <1>2 DEF Sends, TypeOK
<1>3. CASE up
  <2>1. /\ wire \o m \in Seq(Messages)
        /\ \A i \in 1..Len(wire) : (wire \o m)[i] = wire[i]
        /\ \A i \in 1..Len(wire \o m) :
             i \in 1..Len(wire) \/ (i - Len(wire) \in 1..Len(m) /\ (wire \o m)[i] = m[i - Len(wire)])
    BY <1>1, Joining
  <2>2. wire' = wire \o m
    BY <1>3 DEF Sends
  <2> QED BY <1>3, <2>1, <2>2 DEF Said
<1> QED BY <1>2, <1>3

\* What TWS may say of the orders in a set, with a position.
Of(ids) == {m \in Messages : m[1] = "position" \/ m[2] \in ids}

LEMMA EachIsSaid ==
    ASSUME NEW kind \in Kinds, NEW ids \in SUBSET Ids, NEW m \in OfEach(kind, ids)
    PROVE  m \in Seq(Messages) /\ Said(m, Of(ids))
<1>1. m \in Seq(Messages) /\ \A i \in 1..Len(m) : \E id \in ids : m[i] = <<kind, id>>
  BY AboutEach
<1>2. \A id \in ids : <<kind, id>> \in Of(ids)
  BY IBAssumption DEF Of, Messages, Ids
<1> QED BY <1>1, <1>2 DEF Said

\* A step of TWS, or the sending of a cancellation, and what it says.
LEMMA TellingKeeps ==
    ASSUME Always, NEW ids \in SUBSET Ids, NEW m \in Seq(Messages), Said(m, Of(ids)), Sends(m),
           \A id \in ids : id < nextID /\ ~Ahead(id),
           book' \in [Ids -> Books \cup {None}], \A id \in Ids : Knows(id)' => Knows(id),
           net' \in Int, posDue' \in BOOLEAN, \A o : Ahead(o)' => Ahead(o), Placed',
           call' \in Calls \cup {None}, inFlight' \in BOOLEAN,
           UNCHANGED <<up, nextID, held, orders, bracket, timers, queue, told>>
    PROVE  Always'
<1>0. TypeOK /\ Heard /\ Placed /\ Once
  BY DEF Always
<1>1. /\ wire' \in Seq(Messages)
      /\ \A i \in 1..Len(wire') :
           (\E j \in 1..Len(wire) : wire'[i] = wire[j]) \/ (up /\ wire'[i] \in Of(ids))
  BY <1>0, Growing
<1>2. TypeOK'
  BY <1>0, <1>1 DEF TypeOK, Messages, Knows
<1>3. Heard'
  <2>1. (\A i \in 1..Len(wire) : wire[i][1] # "position" =>
           wire[i][2] \in 1..(nextID - 1) /\ ~Ahead(wire[i][2]))'
    <3> SUFFICES ASSUME NEW i \in 1..Len(wire'), wire'[i][1] # "position"
                 PROVE  (wire[i][2] \in 1..(nextID - 1) /\ ~Ahead(wire[i][2]))'
      OBVIOUS
    <3>1. CASE \E j \in 1..Len(wire) : wire'[i] = wire[j]
      <4> PICK j \in 1..Len(wire) : wire'[i] = wire[j]
        BY <3>1
      <4>1. wire[j][2] \in 1..(nextID - 1) /\ ~Ahead(wire[j][2])
        BY <1>0 DEF Heard
      <4> QED BY <4>1 DEF Ahead
    <3>2. CASE wire'[i] \in Of(ids)
      <4>1. wire'[i][2] \in ids
        BY <3>2 DEF Of
      <4>2. wire'[i][2] \in 1..(nextID - 1)
        <5>1. \A id \in ids : id \in 1..(nextID - 1)
          BY <1>0 DEF Ids, TypeOK
        <5> QED BY <4>1, <5>1
      <4> QED BY <4>1, <4>2 DEF Ahead
    <3> QED BY <1>1, <3>1, <3>2
  <2>2. \A t \in timers' : t[2] < nextID' /\ ~Ahead(t[2])' /\ (t[1] = "settle" => Followed(t[2])')
    BY <1>0 DEF Heard, Followed
  <2>3. \A id \in Ids : Ahead(id)' => book'[id] = None
    BY <1>0 DEF Heard, Knows
  <2> QED BY <2>1, <2>2, <2>3 DEF Heard
<1>4. Once'
  BY <1>0 DEF Once, Waits, Reported, Followed
<1> QED BY <1>2, <1>3, <1>4 DEF Always

LEMMA KnownIsSent ==
    ASSUME TypeOK, Heard, NEW id \in Ids, Knows(id)
    PROVE  id < nextID /\ ~Ahead(id) /\ book[id] \in Books
<1>1. nextID \in 1..(MaxOrders + 1) /\ MaxOrders \in Nat /\ id \in 1..MaxOrders
  BY IBAssumption DEF TypeOK, Ids
<1> QED BY <1>1 DEF TypeOK, Heard, Knows

\* Of the several things TWS says of an execution, each is about that order.
LEMMA NewsIsSaid ==
    ASSUME NEW id \in Ids, NEW news \in News(id), NEW ids \in SUBSET Ids, id \in ids
    PROVE  news \in Seq(Messages) /\ Said(news, Of(ids))
<1>1. /\ <<"execution", id>> \in Of(ids) /\ <<"commission", id>> \in Of(ids)
      /\ <<"filled", id>> \in Of(ids)
  BY DEF Of, Messages, Kinds, Ids
<1>2. Of(ids) \subseteq Messages
  BY DEF Of
<1>3. news \in Seq(Of(ids))
  <2>1. CASE news = << <<"execution", id>>, <<"commission", id>> >>
    BY <1>1, <2>1
  <2>2. CASE news = << <<"execution", id>>, <<"execution", id>>, <<"commission", id>> >>
    BY <1>1, <2>2
  <2>3. CASE news = << <<"execution", id>> >>
    BY <1>1, <2>3
  <2>4. CASE news = << <<"filled", id>> >>
    BY <1>1, <2>4
  <2> QED BY <2>1, <2>2, <2>3, <2>4 DEF News
<1> QED BY <1>2, <1>3 DEF Said

LEMMA PositionIsSaid ==
    ASSUME NEW n \in Int, NEW ids
    PROVE  /\ << <<"position", n>> >> \in Seq(Messages) /\ Said(<< <<"position", n>> >>, Of(ids))
           /\ <<>> \in Seq(Messages) /\ Said(<<>>, Of(ids))
<1>1. <<"position", n>> \in Messages
  BY DEF Messages, Kinds
<1> QED BY <1>1 DEF Of, Said

LEMMA OneIsSaid ==
    ASSUME NEW kind \in Kinds, NEW ids \in SUBSET Ids, NEW id \in ids
    PROVE  << <<kind, id>> >> \in Seq(Messages) /\ Said(<< <<kind, id>> >>, Of(ids))
<1>1. <<kind, id>> \in Messages
  BY DEF Messages, Ids
<1> QED BY <1>1 DEF Of, Said

\* What no step of TWS changes.
Quietly == UNCHANGED <<up, nextID, held, followVars, callVars, told>>

LEMMA QuietlyPlaced ==
    ASSUME Always, Quietly
    PROVE  /\ Placed' /\ (\A o : Ahead(o)' => Ahead(o))
           /\ call' \in Calls \cup {None} /\ inFlight' \in BOOLEAN
           /\ UNCHANGED <<up, nextID, held, orders, bracket, timers, queue, told>>
  BY DEF Always, TypeOK, Quietly, Placed, Ahead, Bracketing, followVars, callVars

LEMMA StateMoves ==
    ASSUME TypeOK, Heard, NEW id \in Ids, Knows(id), NEW x \in Alive \cup {"filled", "cancelled"}
    PROVE  [book[id] EXCEPT !.state = x] \in Books
<1>1. book[id] \in Books
  BY KnownIsSent
<1> QED BY <1>1 DEF Books

LEMMA ExecuteKeeps ==
    ASSUME Always, NEW id \in Ids, Execute(id)
    PROVE  Always'
<1>0. TypeOK /\ Heard /\ Placed /\ Once
  BY DEF Always
<1> DEFINE o == book[id]
           filled == net + o.side * o.qty
           position == IF LatePositions THEN <<>> ELSE << <<"position", filled>> >>
           ids == Twins(id) \cup {id}
<1>1. Knows(id) /\ o \in Books
  BY <1>0, KnownIsSent DEF Execute, Lives
<1>2. filled \in Int
  <2>1. net \in Int /\ o.side \in {1, -1} /\ o.qty \in Nat
    BY <1>0, <1>1 DEF TypeOK, Books
  <2>2. o.side * o.qty \in Int
    BY <2>1
  <2> QED BY <2>1, <2>2
<1>3. ids \in SUBSET Ids /\ \A t \in ids : Knows(t)
  BY <1>1 DEF Twins, Lives
<1>4. \A t \in ids : t < nextID /\ ~Ahead(t)
  BY <1>0, <1>3, KnownIsSent
<1>5. position \in Seq(Messages) /\ Said(position, Of(ids))
  BY <1>2, PositionIsSaid
<1>6. ASSUME NEW other \in Ids, Knows(other), NEW x \in Alive \cup {"filled", "cancelled"}
      PROVE  [book[other] EXCEPT !.state = x] \in Books
  BY <1>0, <1>6, StateMoves
<1>7. book' \in [Ids -> Books \cup {None}] /\ \A other \in Ids : Knows(other)' => Knows(other)
  <2>1. book' = [other \in Ids |->
         CASE other = id          -> [o EXCEPT !.state = "filled"]
           [] other \in Twins(id) -> [book[other] EXCEPT !.state = "cancelled"]
           [] /\ o.role = "entry" /\ other \in {LimitOf(id), StopOf(id)}
              /\ Knows(other) /\ book[other].state \in Waiting
                                  -> [book[other] EXCEPT !.state =
                                        IF @ = "attached" THEN "working" ELSE "cancelling"]
           [] OTHER               -> book[other]]
    BY DEF Execute
  <2>2. \A other \in Twins(id) : Knows(other) /\ other # id
            /\ {book[id].role, book[other].role} = Barriers
    BY <1>1 DEF Twins, Lives, Abs, Ids
  <2>3. ASSUME NEW other \in Ids
        PROVE  book'[other] \in Books \cup {None} /\ (book'[other] # None => Knows(other))
    <3>1. CASE other = id
      <4>1. book'[other] = [book[id] EXCEPT !.state = "filled"]
        BY <2>1, <2>2, <3>1 DEF LimitOf, StopOf, Ids
      <4> QED BY <1>1, <1>6, <3>1, <4>1
    <3>2. CASE other \in Twins(id)
      <4>1. o.role # "entry" /\ other # id
        BY <2>2, <3>2 DEF Barriers
      <4>2. book'[other] = [book[other] EXCEPT !.state = "cancelled"]
        BY <2>1, <3>2, <4>1
      <4> QED BY <1>6, <2>2, <3>2, <4>2
    <3>3. CASE /\ other # id /\ other \notin Twins(id)
               /\ o.role = "entry" /\ other \in {LimitOf(id), StopOf(id)}
               /\ Knows(other) /\ book[other].state \in Waiting
      <4>1. \/ book'[other] = [book[other] EXCEPT !.state = "working"]
            \/ book'[other] = [book[other] EXCEPT !.state = "cancelling"]
        BY <2>1, <3>3
      <4> QED BY <1>6, <3>3, <4>1 DEF Alive
    <3>4. CASE /\ other # id /\ other \notin Twins(id)
               /\ ~(/\ o.role = "entry" /\ other \in {LimitOf(id), StopOf(id)}
                    /\ Knows(other) /\ book[other].state \in Waiting)
      <4>1. book'[other] = book[other]
        BY <2>1, <3>4
      <4> QED BY <1>0, <4>1 DEF TypeOK, Knows
    <3> QED BY <3>1, <3>2, <3>3, <3>4
  <2> QED BY <2>1, <2>3 DEF Knows
<1>8. /\ Quietly /\ net' \in Int /\ posDue' \in BOOLEAN
      /\ \E news \in News(id), twins \in OfEach("cancelled", Twins(id)) :
           Sends(position \o news \o twins) \/ Sends(position \o twins \o news)
  BY <1>0, <1>2, IBAssumption DEF Execute, Quietly, ghostVars, TypeOK
<1> HIDE DEF o, filled, position, ids
<1>9. \E m \in Seq(Messages) : Said(m, Of(ids)) /\ Sends(m)
  <2> PICK news \in News(id), twins \in OfEach("cancelled", Twins(id)) :
           Sends(position \o news \o twins) \/ Sends(position \o twins \o news)
    BY <1>8
  <2>1. news \in Seq(Messages) /\ Said(news, Of(ids))
    BY <1>3, NewsIsSaid DEF ids
  <2>2. twins \in Seq(Messages) /\ Said(twins, Of(ids))
    <3>1. "cancelled" \in Kinds /\ Twins(id) \in SUBSET Ids
      BY DEF Kinds, Twins
    <3>2. twins \in Seq(Messages) /\ Said(twins, Of(Twins(id)))
      BY <3>1, EachIsSaid
    <3>3. Of(Twins(id)) \subseteq Of(ids)
      BY DEF ids, Of
    <3> QED BY <3>2, <3>3 DEF Said
  <2>3. /\ position \o news \in Seq(Messages) /\ Said(position \o news, Of(ids))
        /\ position \o twins \in Seq(Messages) /\ Said(position \o twins, Of(ids))
    BY <1>5, <2>1, <2>2, SaidBoth
  <2>4. /\ position \o news \o twins \in Seq(Messages) /\ Said(position \o news \o twins, Of(ids))
        /\ position \o twins \o news \in Seq(Messages) /\ Said(position \o twins \o news, Of(ids))
    BY <2>1, <2>2, <2>3, SaidBoth
  <2> QED BY <2>4
<1>10. PICK m \in Seq(Messages) : Said(m, Of(ids)) /\ Sends(m)
  BY <1>9
<1> QED BY <1>3, <1>4, <1>7, <1>8, <1>10, QuietlyPlaced, TellingKeeps

LEMMA RejectKeeps ==
    ASSUME Always, NEW id \in Ids, Reject(id)
    PROVE  Always'
<1>0. TypeOK /\ Heard /\ Placed /\ Once
  BY DEF Always
<1> DEFINE with == {c \in {LimitOf(id), StopOf(id)} :
                      book[id].role = "entry" /\ c \in Ids /\ Lives(c)}
           ids == with \cup {id}
<1>1. Knows(id) /\ ids \in SUBSET Ids /\ \A t \in ids : Knows(t)
  BY DEF Reject, Lives
<1>2. \A t \in ids : t < nextID /\ ~Ahead(t)
  BY <1>0, <1>1, KnownIsSent
<1>3. book' \in [Ids -> Books \cup {None}] /\ \A other \in Ids : Knows(other)' => Knows(other)
  <2>1. book' = [other \in Ids |->
         IF other = id \/ other \in with
         THEN [book[other] EXCEPT !.state = "cancelled"] ELSE book[other]]
    BY DEF Reject
  <2>2. \A t \in ids : [book[t] EXCEPT !.state = "cancelled"] \in Books
    BY <1>0, <1>1, StateMoves
  <2>3. \A other \in Ids : book[other] \in Books \cup {None}
    BY <1>0 DEF TypeOK
  <2> HIDE DEF with
  <2> QED BY <1>1, <2>1, <2>2, <2>3 DEF Knows
<1>4. /\ Quietly /\ net' = net /\ posDue' = posDue
      /\ \E gone \in OfEach("cancelled", with) : Sends(<< <<"refused", id>> >> \o gone)
  BY DEF Reject, Quietly, ghostVars
<1> HIDE DEF with, ids
<1>5. PICK gone \in OfEach("cancelled", with) : Sends(<< <<"refused", id>> >> \o gone)
  BY <1>4
<1>6. gone \in Seq(Messages) /\ Said(gone, Of(ids))
  <2>1. "cancelled" \in Kinds /\ with \in SUBSET Ids
    BY <1>1 DEF Kinds, ids
  <2>2. gone \in Seq(Messages) /\ Said(gone, Of(with))
    BY <2>1, EachIsSaid
  <2>3. Of(with) \subseteq Of(ids)
    BY DEF ids, Of
  <2> QED BY <2>2, <2>3 DEF Said
<1>7. << <<"refused", id>> >> \in Seq(Messages) /\ Said(<< <<"refused", id>> >>, Of(ids))
  <2>1. "refused" \in Kinds /\ id \in ids
    BY DEF Kinds, ids
  <2> QED BY <1>1, <2>1, OneIsSaid
<1>8. /\ << <<"refused", id>> >> \o gone \in Seq(Messages)
      /\ Said(<< <<"refused", id>> >> \o gone, Of(ids))
  BY <1>6, <1>7, SaidBoth
<1>9. net' \in Int /\ posDue' \in BOOLEAN
  BY <1>0, <1>4 DEF TypeOK
<1> QED BY <1>1, <1>2, <1>3, <1>4, <1>5, <1>8, <1>9, QuietlyPlaced, TellingKeeps

\* An order cancelled at TWS, asked or not.
LEMMA CancelledKeeps ==
    ASSUME Always, NEW id \in Ids, Knows(id),
           book' = [book EXCEPT ![id].state = "cancelled"],
           Sends(<< <<"cancelled", id>> >>), Quietly, UNCHANGED <<net, posDue>>
    PROVE  Always'
<1>0. TypeOK /\ Heard /\ Placed /\ Once
  BY DEF Always
<1> DEFINE ids == {id}
<1>1. ids \in SUBSET Ids /\ \A t \in ids : t < nextID /\ ~Ahead(t)
  BY <1>0, KnownIsSent
<1>2. [book[id] EXCEPT !.state = "cancelled"] \in Books
  BY <1>0, StateMoves
<1>3. book' \in [Ids -> Books \cup {None}] /\ \A other \in Ids : Knows(other)' => Knows(other)
  BY <1>0, <1>2 DEF TypeOK, Knows
<1>4. "cancelled" \in Kinds /\ id \in ids
  BY DEF Kinds
<1>5. << <<"cancelled", id>> >> \in Seq(Messages) /\ Said(<< <<"cancelled", id>> >>, Of(ids))
  <2> HIDE DEF ids
  <2> QED BY <1>1, <1>4, OneIsSaid
<1>6. net' \in Int /\ posDue' \in BOOLEAN
  BY <1>0 DEF TypeOK
<1> HIDE DEF ids
<1> QED BY <1>1, <1>3, <1>5, <1>6, QuietlyPlaced, TellingKeeps

LEMMA ConfirmCancelKeeps ==
    ASSUME Always, NEW id \in Ids, ConfirmCancel(id)
    PROVE  Always'
  BY CancelledKeeps DEF ConfirmCancel, Quietly, ghostVars

LEMMA LoseKeeps ==
    ASSUME Always, NEW id \in Ids, Lose(id)
    PROVE  Always'
  BY CancelledKeeps DEF Lose, Quietly

LEMMA SendPositionKeeps ==
    ASSUME Always, SendPosition
    PROVE  Always'
<1>0. TypeOK /\ Heard /\ Placed /\ Once
  BY DEF Always
<1> DEFINE m == << <<"position", net>> >>
<1>1. net \in Int
  BY <1>0 DEF TypeOK
<1>2. m \in Seq(Messages) /\ Said(m, Of({}))
  BY <1>1, PositionIsSaid
<1>3. /\ Quietly /\ Sends(m) /\ net' = net /\ book' = book /\ posDue' = FALSE
  BY DEF SendPosition, Quietly, ghostVars
<1>4. book' \in [Ids -> Books \cup {None}] /\ \A other \in Ids : Knows(other)' => Knows(other)
  BY <1>0, <1>3 DEF TypeOK, Knows
<1>5. {} \in SUBSET Ids /\ \A t \in {} : t < nextID /\ ~Ahead(t)
  OBVIOUS
<1>6. Sends(m) /\ net' \in Int /\ posDue' \in BOOLEAN /\ Quietly
  BY <1>1, <1>3
<1> HIDE DEF m
<1> QED BY <1>2, <1>4, <1>5, <1>6, QuietlyPlaced, TellingKeeps

\* The book after cancellations have been sent.
LEMMA CancelledBook ==
    ASSUME TypeOK, Heard, NEW ids
    PROVE  /\ CancelledIn(book, ids) \in [Ids -> Books \cup {None}]
           /\ \A other \in Ids : CancelledIn(book, ids)[other] # None => Knows(other)
<1>1. \A other \in Ids : Knows(other) =>
         /\ [book[other] EXCEPT !.state = "withdrawing"] \in Books
         /\ [book[other] EXCEPT !.state = "cancelling"] \in Books
  BY StateMoves DEF Alive, Waiting
<1>2. ASSUME NEW other \in Ids
      PROVE  /\ CancelledIn(book, ids)[other] \in Books \cup {None}
             /\ CancelledIn(book, ids)[other] # None => Knows(other)
  <2>1. CASE other \in ids /\ Lives(other)
    <3>1. \/ CancelledIn(book, ids)[other] = [book[other] EXCEPT !.state = "withdrawing"]
          \/ CancelledIn(book, ids)[other] = [book[other] EXCEPT !.state = "cancelling"]
      BY <2>1 DEF CancelledIn
    <3> QED BY <1>1, <2>1, <3>1 DEF Lives
  <2>2. CASE ~(other \in ids /\ Lives(other))
    <3>1. CancelledIn(book, ids)[other] = book[other]
      BY <2>2 DEF CancelledIn
    <3> QED BY <3>1 DEF TypeOK, Knows
  <2> QED BY <2>1, <2>2
<1>3. CancelledIn(book, ids) = [other \in Ids |-> CancelledIn(book, ids)[other]]
  BY DEF CancelledIn
<1> QED BY <1>2, <1>3

LEMMA GoneIsSaid ==
    ASSUME NEW ids \in SUBSET Ids, NEW m \in GoneAnswers(ids)
    PROVE  m \in Seq(Messages) /\ Said(m, Of(ids))
<1> DEFINE gone == {id \in ids : ~Lives(id)}
<1>1. "gone" \in Kinds /\ gone \in SUBSET Ids /\ m \in OfEach("gone", gone)
  BY DEF Kinds, GoneAnswers
<1>2. Of(gone) \subseteq Of(ids)
  BY DEF Of
<1> HIDE DEF gone
<1>3. m \in Seq(Messages) /\ Said(m, Of(gone))
  BY <1>1, EachIsSaid
<1> QED BY <1>2, <1>3 DEF Said

LEMMA SendCancelsKeeps ==
    ASSUME Always, SendCancels
    PROVE  Always'
<1>0. TypeOK /\ Heard /\ Placed /\ Once
  BY DEF Always
<1>1. /\ call # None /\ call.stage = "cancel" /\ call \in Calls /\ ~Bracketing
      /\ call.waits \in SUBSET Ids /\ call.waits \subseteq 1..(nextID - 1)
  BY <1>0 DEF SendCancels, TypeOK, Calls, Bracketing, Placed
<1>2. CASE up
  <2> DEFINE ids == call.waits
  <2>1. /\ book' = CancelledIn(book, ids) /\ call' = [call EXCEPT !.stage = "wait"]
        /\ inFlight' = inFlight
        /\ \E answers \in GoneAnswers(ids) : Sends(answers)
        /\ UNCHANGED <<up, nextID, followVars, held, net, posDue, ghostVars>>
    BY <1>2 DEF SendCancels
  <2>2. PICK m \in GoneAnswers(ids) : Sends(m)
    BY <2>1
  <2>3. m \in Seq(Messages) /\ Said(m, Of(ids))
    BY <1>1, GoneIsSaid
  <2>4. \A t \in ids : t < nextID /\ ~Ahead(t)
    BY <1>1, <1>0 DEF Ahead, TypeOK
  <2>5. /\ book' \in [Ids -> Books \cup {None}] /\ \A other \in Ids : Knows(other)' => Knows(other)
    BY <1>0, <2>1, CancelledBook DEF Knows
  <2>6. call' \in Calls /\ call'.stage = "wait" /\ call'.waits = call.waits
    BY <1>1, <2>1 DEF Calls
  <2>7. Placed' /\ \A o : Ahead(o)' => Ahead(o)
    BY <1>0, <1>1, <2>1, <2>6 DEF Placed, Ahead, Bracketing, followVars
  <2>8. /\ net' \in Int /\ posDue' \in BOOLEAN /\ inFlight' \in BOOLEAN
        /\ UNCHANGED <<up, nextID, held, orders, bracket, timers, queue, told>>
    BY <1>0, <2>1 DEF TypeOK, followVars, ghostVars
  <2> HIDE DEF ids
  <2>9. ids \in SUBSET Ids
    BY <1>1 DEF ids
  <2> QED BY <2>2, <2>3, <2>4, <2>5, <2>6, <2>7, <2>8, <2>9, TellingKeeps
<1>3. CASE ~up
  <2>1. /\ call' = None /\ inFlight' = FALSE
        /\ UNCHANGED <<book, wire, up, nextID, followVars, held, net, posDue, ghostVars>>
    BY <1>3 DEF SendCancels, CallReturns
  <2>2. TypeOK'
    BY <1>0, <2>1 DEF TypeOK, followVars, ghostVars
  <2>3. Heard' /\ Placed'
    BY <1>0, <2>1 DEF Heard, Placed, Ahead, Bracketing, followVars, Followed
  <2>4. Once'
    BY <1>0, <2>1 DEF Once, Waits, Reported, Followed, followVars, ghostVars
  <2> QED BY <2>2, <2>3, <2>4 DEF Always
<1> QED BY <1>2, <1>3

LEMMA OrderMessageKeeps ==
    ASSUME Always, OrderMessage
    PROVE  Always'
<1>0. TypeOK /\ Heard
  BY DEF Always
<1>1. Taking /\ UNCHANGED held /\ wire[1][1] # "position" /\ Following(wire[1][2])
  BY <1>0, MessagesFollow
<1> DEFINE id == wire[1][2]
<1>2. 1 \in 1..Len(wire)
  BY <1>0, <1>1, Popping DEF Taking, TypeOK
<1>3. id < nextID /\ ~Ahead(id)
  BY <1>0, <1>1, <1>2 DEF Heard, TypeOK
<1>4. Shorter /\ held' \in Int /\ UNCHANGED <<up, nextID, callVars, book, net, posDue, ghostVars>>
  BY <1>0, <1>1 DEF Taking, Shorter, TypeOK
<1>5. Following(id)
  BY <1>1
<1> HIDE DEF id
<1> QED BY <1>3, <1>4, <1>5, FollowingKeeps

LEMMA OnPositionKeeps ==
    ASSUME Always, OnPosition
    PROVE  Always'
<1>0. TypeOK /\ Heard /\ nextID \in Nat
  BY DEF Always, TypeOK
<1>1. /\ Shorter /\ UNCHANGED <<up, nextID, callVars, book, net, posDue, ghostVars>>
      /\ held' = Head(wire)[2] /\ wire # <<>> /\ Following(0)
  BY DEF OnPosition, Incoming, Shorter, About, Following
<1>2. Head(wire) \in Messages
  BY <1>0, <1>1, Popping DEF TypeOK, Messages
<1>3. held' \in Int
  BY <1>1, <1>2 DEF Messages
<1>4. 0 < nextID /\ ~Ahead(0)
  BY DEF Always, TypeOK, Ahead, Bracketing, Calls, Ids, StopOf
<1> QED BY <1>1, <1>3, <1>4, FollowingKeeps

LEMMA SettleTimerKeeps ==
    ASSUME Always, NEW id \in Ids, SettleTimer(id)
    PROVE  Always'
<1>0. TypeOK /\ Heard
  BY DEF Always
<1>1. Followed(id) /\ id < nextID /\ ~Ahead(id)
  BY <1>0 DEF SettleTimer, Heard
<1>2. orders[id] \in Tracks /\ Flags(id, orders[id])
  BY <1>0, <1>1 DEF TypeOK, Followed, Flags
<1>3. TrySettle(id, orders[id], bracket, TRUE)
  BY DEF SettleTimer
<1>4. Following(id)
  BY <1>0, <1>1, <1>2, <1>3, TrySettles DEF Following
<1>5. /\ Shorter /\ held' \in Int
      /\ UNCHANGED <<up, nextID, callVars, book, net, posDue, ghostVars>>
  BY <1>0 DEF SettleTimer, Shorter, twsVars, TypeOK
<1> QED BY <1>1, <1>4, <1>5, FollowingKeeps

\* A step that leaves the orders, the bracket and the socket alone and may begin
\* a call, take it further or end it.
LEMMA CallKeeps ==
    ASSUME Always, UNCHANGED <<up, nextID, orders, held, book, net, wire, posDue, told, queue>>,
           timers' \subseteq timers,
           bracket' = bracket \/ (bracket' = None),
           \/ call' = call
           \/ call' = None
           \/ /\ call # None /\ call.stage \in {"cancel", "wait", "exit"}
              /\ call' \in Calls /\ call'.stage \in {"cancel", "wait", "exit"}
              /\ call'.waits = call.waits
           \/ /\ call' \in Calls /\ call'.stage \in Placing
              /\ call'.stage \in {"entering", "naked"} => bracket = None,
           inFlight' \in BOOLEAN
    PROVE  Always'
<1>0. TypeOK /\ Heard /\ Placed /\ Once
  BY DEF Always
<1>1. TypeOK'
  BY <1>0 DEF TypeOK
<1>2. \A o : Ahead(o)' => Ahead(o)
  BY DEF Ahead, Bracketing, Placing
<1>3. Heard'
  BY <1>0, <1>2 DEF Heard, Followed, Ahead, Bracketing
<1>4. Placed'
  BY <1>0 DEF Placed, Bracketing, Placing
<1>5. Once'
  BY <1>0 DEF Once, Waits, Reported, Followed
<1> QED BY <1>1, <1>3, <1>4, <1>5 DEF Always

LEMMA CancelsDoneKeeps ==
    ASSUME Always, CancelsDone
    PROVE  Always'
<1>1. call \in Calls /\ call # None /\ call.stage = "wait" /\ inFlight \in BOOLEAN
  BY DEF CancelsDone, Always, TypeOK
<1>2. /\ [call EXCEPT !.stage = "exit"] \in Calls
      /\ [call EXCEPT !.stage = "exit"].stage = "exit"
      /\ [call EXCEPT !.stage = "exit"].waits = call.waits
  BY <1>1 DEF Calls
<1>3. /\ UNCHANGED <<up, nextID, orders, held, book, net, wire, posDue, told, queue>>
      /\ timers' = timers
  BY DEF CancelsDone, twsVars, ghostVars
<1>4. /\ bracket' = bracket \/ bracket' = None
      /\ call' = None \/ call' = [call EXCEPT !.stage = "exit"]
      /\ inFlight' \in BOOLEAN
  BY <1>1 DEF CancelsDone, CallReturns
<1> QED BY <1>1, <1>2, <1>3, <1>4, CallKeeps

LEMMA CancelTimeoutKeeps ==
    ASSUME Always, CancelTimeout
    PROVE  Always'
<1>1. /\ UNCHANGED <<up, nextID, orders, held, book, net, wire, posDue, told, queue>>
      /\ timers' = timers /\ bracket' = bracket /\ call' = None /\ inFlight' \in BOOLEAN
  BY DEF CancelTimeout, CallReturns, followVars, twsVars, ghostVars
<1> QED BY <1>1, CallKeeps

LEMMA DeliverKeeps ==
    ASSUME Always, Deliver
    PROVE  Always'
<1>0. TypeOK /\ Heard /\ Placed /\ Once
  BY DEF Always
<1> DEFINE report == Head(queue)
<1>1. queue \in Seq(Reports) /\ queue # <<>> /\ queue' = Tail(queue)
  BY <1>0 DEF Deliver, TypeOK, Reports
<1>2. /\ queue' \in Seq(Reports)
      /\ Len(queue') = Len(queue) - 1 /\ Len(queue) \in Nat \ {0}
      /\ \A i \in 1..(Len(queue) - 1) : queue'[i] = queue[i + 1]
      /\ report = queue[1] /\ report \in Reports
  BY <1>1, Popping
<1>3. told \in [Ids -> Nat]
  BY <1>0 DEF TypeOK
<1>4. /\ UNCHANGED <<up, nextID, orders, bracket, timers, held, call, twsVars>>
      /\ inFlight' = FALSE
      /\ told' = IF report[2] = "FILLED" THEN [told EXCEPT ![report[1]] = @ + 1] ELSE told
  BY DEF Deliver
<1>5. TypeOK'
  <2>1. told' \in [Ids -> Nat]
    BY <1>2, <1>3, <1>4 DEF Reports
  <2> QED BY <1>0, <1>2, <1>4, <2>1 DEF TypeOK, Reports, twsVars
<1>6. Heard' /\ Placed'
  BY <1>0, <1>4 DEF Heard, Placed, Ahead, Bracketing, twsVars, Followed
<1> HIDE DEF report
<1>7. \A id \in Ids : Waits(id)' => Waits(id)
  BY <1>2 DEF Waits
<1>8. \A id \in Ids : told'[id] # told[id] =>
         report = <<id, "FILLED">> /\ told'[id] = told[id] + 1
  BY <1>2, <1>3, <1>4 DEF Reports
<1>9. \A id \in Ids : report = <<id, "FILLED">> => Waits(id) /\ ~Waits(id)'
  <2> SUFFICES ASSUME NEW id \in Ids, report = <<id, "FILLED">>
               PROVE  Waits(id) /\ ~Waits(id)'
    OBVIOUS
  <2>1. queue[1] = <<id, "FILLED">> /\ 1 \in 1..Len(queue)
    BY <1>2
  <2>2. \A i \in 1..Len(queue) : queue[i] = <<id, "FILLED">> => i = 1
    BY <1>0, <2>1 DEF Once
  <2>3. \A i \in 1..Len(queue') : queue'[i] # <<id, "FILLED">>
    BY <1>2, <2>2
  <2> QED BY <2>1, <2>3 DEF Waits
<1>10. \A id \in Ids : Reported(id)' => Reported(id)
  BY <1>7, <1>8, <1>9 DEF Reported
<1>11. Once'
  <2>1. \A id \in Ids : told'[id] <= 1 /\ (Waits(id)' => told'[id] = 0)
    <3> SUFFICES ASSUME NEW id \in Ids
                 PROVE  told'[id] <= 1 /\ (Waits(id)' => told'[id] = 0)
      OBVIOUS
    <3>1. CASE told'[id] = told[id]
      BY <1>0, <1>7, <3>1 DEF Once
    <3>2. CASE told'[id] # told[id]
      <4>1. /\ Waits(id) /\ ~Waits(id)' /\ told'[id] = told[id] + 1
        BY <1>8, <1>9, <3>2
      <4>2. told[id] = 0
        BY <1>0, <4>1 DEF Once
      <4> QED BY <4>1, <4>2
    <3> QED BY <3>1, <3>2
  <2>2. (\A i, j \in 1..Len(queue) :
          queue[i][2] = "FILLED" /\ queue[i] = queue[j] => i = j)'
    <3> SUFFICES ASSUME NEW i \in 1..Len(queue'), NEW j \in 1..Len(queue'),
                        queue'[i][2] = "FILLED", queue'[i] = queue'[j]
                 PROVE  i = j
      OBVIOUS
    <3>1. i + 1 \in 1..Len(queue) /\ j + 1 \in 1..Len(queue)
          /\ queue'[i] = queue[i + 1] /\ queue'[j] = queue[j + 1]
      BY <1>2
    <3>2. i + 1 = j + 1
      BY <1>0, <3>1 DEF Once
    <3> QED BY <3>2
  <2>3. \A id \in Ids : Reported(id)' =>
          id < nextID' /\ (Followed(id)' => orders'[id].end = "filled")
    BY <1>0, <1>4, <1>10 DEF Once, Followed
  <2>4. bracket' # None => BarriersOf(bracket') \subseteq Ids
    BY <1>0, <1>4, BracketIds
  <2>5. bracket' # None =>
          \A b \in BarriersOf(bracket') :
              ~Reported(b)' /\ (Followed(b)' => orders'[b].role \in Barriers /\ orders'[b].end # "filled")
    BY <1>0, <1>4, <1>10, <2>4 DEF Once, Followed
  <2> QED BY <2>1, <2>2, <2>3, <2>5 DEF Once
<1> QED BY <1>5, <1>6, <1>11 DEF Always

LEMMA LeftOne ==
    ASSUME TypeOK, Left(1)
    PROVE  nextID \in Ids
  BY DEF TypeOK, Left

\* The orders of the reports are all followed, or were, and so are those of the
\* messages and of the timers: an identifier to come is in none of them.
LEMMA Unused ==
    ASSUME Always, NEW id \in Ids, id >= nextID
    PROVE  /\ ~Reported(id) /\ ~Followed(id) /\ ~Knows(id)
<1>1. id \in Nat /\ nextID \in Nat
  BY DEF Always, TypeOK, Ids
<1>2. ~Reported(id)
  BY <1>1 DEF Always, Once
<1>3. orders[id] = None /\ book[id] = None
  BY DEF Always, TypeOK
<1> QED BY <1>2, <1>3 DEF Followed, Knows

LEMMA PlaceBracketKeeps ==
    ASSUME Always, PlaceBracket
    PROVE  Always'
<1>0. TypeOK /\ Heard /\ Placed /\ Once
  BY DEF Always
<1> DEFINE n == nextID
           side == call.side
<1>00. /\ side \in {1, -1} /\ bracket = None /\ ~Bracketing
       /\ UNCHANGED <<up, held, timers, queue, inFlight, twsVars, told>>
  BY <1>0 DEF PlaceBracket, TypeOK, Calls, Placed, Bracketing
<1>1. /\ n \in Ids /\ n + 1 \in Ids /\ n + 2 \in Ids /\ nextID' = n + 3
      /\ n + 3 \in 1..(MaxOrders + 1) /\ n \in Nat /\ -side \in {1, -1}
  <2>1. /\ n + 3 - 1 \in Ids /\ nextID' = n + 3 /\ n \in 1..(MaxOrders + 1) /\ MaxOrders \in Nat
    BY <1>0, IBAssumption DEF PlaceBracket, TypeOK, Left
  <2>2. side \in {1, -1} => -side \in {1, -1}
    OBVIOUS
  <2> HIDE DEF n
  <2> QED BY <1>00, <2>1, <2>2 DEF Ids
<1>2. /\ LimitOf(n) = n + 1 /\ StopOf(n) = n + 2
  BY DEF LimitOf, StopOf
<1>3. /\ bracket' = [side |-> side, parent |-> n, entered |-> FALSE, closing |-> FALSE]
      /\ bracket' \in Brackets /\ bracket' # None /\ bracket'.parent = n /\ ~bracket'.entered
      /\ call' = [stage |-> "bracket", side |-> side, parent |-> n]
      /\ call' \in Calls /\ call' # None /\ call'.stage = "bracket" /\ call'.parent = n
  <2>1. /\ bracket' = [side |-> side, parent |-> n, entered |-> FALSE, closing |-> FALSE]
        /\ call' = [stage |-> "bracket", side |-> side, parent |-> n]
    BY DEF PlaceBracket
  <2>2. bracket' \in Brackets
    BY <1>00, <1>1, <2>1 DEF Brackets
  <2>3. call' \in Calls
    BY <1>00, <1>1, <2>1 DEF Calls
  <2> QED BY <2>1, <2>2, <2>3, IBAssumption
<1>4. /\ Track("entry", side, 1) \in Tracks /\ Track("limit", -side, 1) \in Tracks
      /\ Track("stop", -side, 1) \in Tracks
      /\ Track("limit", -side, 1).role = "limit" /\ Track("stop", -side, 1).role = "stop"
      /\ Track("limit", -side, 1).end = "" /\ Track("stop", -side, 1).end = ""
      /\ "limit" \in Barriers /\ "stop" \in Barriers
  <2>1. "entry" \in Roles /\ "limit" \in Roles /\ "stop" \in Roles /\ 1 \in Nat
    BY DEF Roles, Barriers
  <2>2. PICK other \in {1, -1} : other = -side
    BY <1>1
  <2>3. /\ Track("entry", side, 1) \in Tracks /\ Track("limit", other, 1) \in Tracks
        /\ Track("stop", other, 1) \in Tracks
        /\ Track("limit", other, 1).role = "limit" /\ Track("stop", other, 1).role = "stop"
        /\ Track("limit", other, 1).end = "" /\ Track("stop", other, 1).end = ""
    BY <1>00, <2>1 DEF Track, Tracks
  <2> QED BY <2>2, <2>3 DEF Barriers
<1>5. /\ orders' \in [Ids -> Tracks \cup {None}]
      /\ \A id \in Ids : id \notin {n, n + 1, n + 2} => orders'[id] = orders[id]
      /\ orders'[n + 1] = Track("limit", -side, 1) /\ orders'[n + 2] = Track("stop", -side, 1)
  <2>1. orders' = [orders EXCEPT ![n] = Track("entry", side, 1),
                                 ![n + 1] = Track("limit", -side, 1),
                                 ![n + 2] = Track("stop", -side, 1)]
    BY <1>2 DEF PlaceBracket
  <2>2. orders \in [Ids -> Tracks \cup {None}] /\ n # n + 1 /\ n # n + 2 /\ n + 1 # n + 2
    BY <1>0, <1>1 DEF TypeOK
  <2> HIDE DEF n
  <2> QED BY <1>1, <1>4, <2>1, <2>2
<1>6. TypeOK'
  <2>1. \A id \in Ids : id >= n + 3 => orders'[id] = None /\ book'[id] = None
    <3>1. \A id \in Ids : id >= n + 3 => id >= nextID /\ id \notin {n, n + 1, n + 2}
      BY <1>1 DEF Ids
    <3>2. book' = book
      BY <1>00 DEF twsVars
    <3> HIDE DEF n
    <3> QED BY <1>0, <1>5, <3>1, <3>2 DEF TypeOK
  <2> QED BY <1>0, <1>00, <1>1, <1>3, <1>5, <2>1 DEF TypeOK, twsVars
<1>7. \A id \in Ids : id \in {n, n + 1, n + 2} => ~Reported(id) /\ ~Followed(id) /\ ~Knows(id)
  BY <1>1, Unused
<1>8. \A id : Ahead(id)' <=> id \in n..(n + 2)
  BY <1>1, <1>2, <1>3 DEF Ahead, Bracketing, StopOf
<1>9. Heard'
  <2>1. (\A i \in 1..Len(wire) : wire[i][1] # "position" =>
           wire[i][2] \in 1..(nextID - 1) /\ ~Ahead(wire[i][2]))'
    <3> SUFFICES ASSUME NEW i \in 1..Len(wire'), wire'[i][1] # "position"
                 PROVE  (wire[i][2] \in 1..(nextID - 1) /\ ~Ahead(wire[i][2]))'
      OBVIOUS
    <3>1. wire'[i][2] \in 1..(n - 1)
      BY <1>0, <1>00 DEF Heard, twsVars
    <3> QED BY <1>1, <1>2, <1>3, <3>1 DEF Ahead, StopOf
  <2>2. ASSUME NEW t \in timers'
        PROVE  t[2] < nextID' /\ ~Ahead(t[2])' /\ (t[1] = "settle" => Followed(t[2])')
    <3>1. t[2] < n /\ t[2] \in Ids /\ (t[1] = "settle" => Followed(t[2]))
      BY <1>0, <1>00 DEF Heard, TypeOK
    <3>2. t[2] \notin {n, n + 1, n + 2} /\ t[2] \notin n..(n + 2)
      BY <1>1, <3>1 DEF Ids
    <3>3. orders'[t[2]] = orders[t[2]]
      BY <1>5, <3>1, <3>2
    <3>4. t[2] < nextID'
      BY <1>1, <3>1 DEF Ids
    <3>5. ~Ahead(t[2])'
      BY <1>2, <1>3, <3>2 DEF Ahead
    <3> QED BY <3>1, <3>3, <3>4, <3>5 DEF Followed
  <2>3. \A id \in Ids : Ahead(id)' => book'[id] = None
    BY <1>0, <1>00, <1>1, <1>8 DEF TypeOK, twsVars, Ids
  <2> QED BY <2>1, <2>2, <2>3 DEF Heard
<1>10. Placed'
  BY <1>1, <1>2, <1>3 DEF Placed, Bracketing, StopOf
<1>11. Once'
  <2>1. \A id \in Ids : Reported(id)' <=> Reported(id)
    BY <1>00 DEF Reported, Waits
  <2>2. \A id \in Ids : Reported(id)' =>
          id < nextID' /\ (Followed(id)' => orders'[id].end = "filled")
    BY <1>0, <1>1, <1>5, <1>7, <2>1 DEF Once, Followed, Ids
  <2>3. BarriersOf(bracket') = {n + 1, n + 2}
    BY <1>2, <1>3 DEF BarriersOf
  <2>4. \A b \in BarriersOf(bracket') :
              ~Reported(b)' /\ (Followed(b)' => orders'[b].role \in Barriers /\ orders'[b].end # "filled")
    BY <1>1, <1>4, <1>5, <1>7, <2>1, <2>3 DEF Followed
  <2>5. \A id \in Ids : told'[id] <= 1 /\ (Waits(id)' => told'[id] = 0)
    BY <1>0, <1>00 DEF Once, Waits
  <2>6. (\A i, j \in 1..Len(queue) :
          queue[i][2] = "FILLED" /\ queue[i] = queue[j] => i = j)'
    BY <1>0, <1>00 DEF Once
  <2> QED BY <2>2, <2>4, <2>5, <2>6 DEF Once
<1> QED BY <1>6, <1>9, <1>10, <1>11 DEF Always

LEMMA PlaceExitKeeps ==
    ASSUME Always, PlaceExit
    PROVE  Always'
<1>0. TypeOK /\ Heard /\ Placed /\ Once
  BY DEF Always
<1>00. /\ call.side \in {1, -1} /\ call.qty \in Nat /\ ~Bracketing
       /\ UNCHANGED <<up, held, timers, queue, inFlight, twsVars, told>>
  BY <1>0 DEF PlaceExit, TypeOK, Calls, Bracketing, ghostVars
<1> DEFINE b == bracket
           side == call.side
           qty == call.qty
           Child(id) == IF Followed(id) THEN orders[id]
                     ELSE Track(IF id = LimitOf(b.parent) THEN "limit" ELSE "stop", -b.side, 1)
           waits == IF b = None THEN {} ELSE {id \in BarriersOf(b) : ~Ended(id)}
           After(id) == [Child(id) EXCEPT !.cancel = TRUE]
<1>1. /\ nextID' = nextID
      /\ bracket' = IF b = None THEN None ELSE [b EXCEPT !.closing = TRUE]
      /\ orders' = [id \in Ids |-> IF id \in waits THEN After(id) ELSE orders[id]]
      /\ call' = [stage |-> "cancel", side |-> side, qty |-> qty, waits |-> waits]
  BY DEF PlaceExit, CancelCalled
<1>2. waits \subseteq Ids /\ (\A id \in waits : id < nextID /\ b # None /\ id \in BarriersOf(b))
  BY <1>0, BracketIds
<1>3. \A id \in waits : After(id) \in Tracks /\ After(id).role \in Barriers /\ After(id).end # "filled"
  <2> SUFFICES ASSUME NEW id \in waits
               PROVE  After(id) \in Tracks /\ After(id).role \in Barriers /\ After(id).end # "filled"
    OBVIOUS
  <2>1. id \in Ids /\ b # None /\ b \in Brackets /\ id \in BarriersOf(b)
    BY <1>0, <1>2 DEF TypeOK
  <2>2. CASE Followed(id)
    <3>1. orders[id] \in Tracks
      BY <1>0, <2>1, <2>2 DEF TypeOK, Followed
    <3>2. orders[id].role \in Barriers /\ orders[id].end # "filled"
      BY <1>0, <2>1, <2>2 DEF Once
    <3>3. After(id) = [orders[id] EXCEPT !.cancel = TRUE]
      BY <2>2
    <3> HIDE DEF After
    <3> QED BY <3>1, <3>2, <3>3 DEF Tracks
  <2>3. CASE ~Followed(id)
    <3>1. -b.side \in {1, -1}
      BY <2>1 DEF Brackets
    <3>2. PICK role \in {"limit", "stop"} : Child(id) = Track(role, -b.side, 1)
      BY <2>3
    <3>3. role \in Roles /\ role \in Barriers
      BY DEF Roles, Barriers
    <3>4. Track(role, -b.side, 1) \in Tracks /\ Track(role, -b.side, 1).role = role
          /\ Track(role, -b.side, 1).end = ""
      <4> DEFINE other == -b.side
      <4>1. other \in {1, -1} /\ 1 \in Nat
        BY <3>1
      <4> HIDE DEF other
      <4>2. Track(role, other, 1) \in Tracks /\ Track(role, other, 1).role = role
            /\ Track(role, other, 1).end = ""
        BY <3>3, <4>1 DEF Track, Tracks
      <4> QED BY <4>2 DEF other
    <3> DEFINE t == Track(role, -b.side, 1)
    <3>5. After(id) = [t EXCEPT !.cancel = TRUE]
      BY <3>2
    <3> HIDE DEF t, After, Child
    <3>6. t \in Tracks /\ t.role = role /\ t.end = ""
      BY <3>4 DEF t
    <3> QED BY <3>3, <3>5, <3>6 DEF Tracks
  <2> QED BY <2>2, <2>3
<1> HIDE DEF After, Child
<1>4. /\ orders' \in [Ids -> Tracks \cup {None}]
      /\ \A id \in Ids : id \notin waits => orders'[id] = orders[id]
      /\ \A id \in waits : orders'[id] = After(id)
  <2>1. \A id \in Ids : orders[id] \in Tracks \cup {None}
    BY <1>0 DEF TypeOK
  <2> HIDE DEF waits
  <2> QED BY <1>1, <1>2, <1>3, <2>1
<1>5. /\ bracket' \in Brackets \cup {None} /\ (bracket' # None <=> b # None)
      /\ b # None => /\ bracket'.parent = b.parent /\ bracket'.entered = b.entered
                     /\ BarriersOf(bracket') = BarriersOf(b) /\ bracket'.closing
  <2>1. b \in Brackets \cup {None} /\ None \notin Brackets
    BY <1>0, IBAssumption DEF TypeOK
  <2>2. CASE b = None
    BY <1>1, <2>2
  <2>3. CASE b # None
    <3>1. bracket' = [b EXCEPT !.closing = TRUE] /\ b \in Brackets
      BY <1>1, <2>1, <2>3
    <3>2. /\ bracket' \in Brackets /\ bracket'.parent = b.parent
          /\ bracket'.entered = b.entered /\ bracket'.closing
      BY <3>1 DEF Brackets
    <3> QED BY <2>1, <2>3, <3>2 DEF BarriersOf
  <2> QED BY <2>2, <2>3
<1>6. call' \in Calls /\ call'.stage = "cancel" /\ call'.waits = waits
  <2> HIDE DEF waits
  <2> QED BY <1>00, <1>1, <1>2 DEF Calls
<1>7. \A id \in Ids : Followed(id) => Followed(id)'
  <2>1. \A id \in waits : After(id) # None
    BY <1>3, IBAssumption
  <2> HIDE DEF waits
  <2> QED BY <1>4, <2>1 DEF Followed
<1>8. TypeOK'
  <2>1. \A id \in Ids : id >= nextID => id \notin waits
    BY <1>0, <1>2 DEF TypeOK, Ids
  <2> HIDE DEF waits
  <2>2. \A id \in Ids : id >= nextID' => orders'[id] = None /\ book'[id] = None
    BY <1>0, <1>00, <1>1, <1>4, <2>1 DEF TypeOK, twsVars
  <2> QED BY <1>0, <1>00, <1>1, <1>4, <1>5, <1>6, <2>2 DEF TypeOK, twsVars
<1>9. \A id : ~Ahead(id)'
  BY <1>6 DEF Ahead, Bracketing
<1>10. Heard'
  <2>1. (\A i \in 1..Len(wire) : wire[i][1] # "position" =>
           wire[i][2] \in 1..(nextID - 1) /\ ~Ahead(wire[i][2]))'
    BY <1>0, <1>00, <1>1, <1>6 DEF Heard, twsVars, Ahead, Bracketing
  <2>2. \A t \in timers' : t[2] < nextID' /\ ~Ahead(t[2])' /\ (t[1] = "settle" => Followed(t[2])')
    <3> SUFFICES ASSUME NEW t \in timers'
                 PROVE  t[2] < nextID' /\ ~Ahead(t[2])' /\ (t[1] = "settle" => Followed(t[2])')
      OBVIOUS
    <3>1. t[2] < nextID /\ t[2] \in Ids /\ (t[1] = "settle" => Followed(t[2]))
      BY <1>0, <1>00 DEF Heard, TypeOK
    <3> QED BY <1>1, <1>6, <1>7, <3>1 DEF Ahead, Bracketing, Followed
  <2>3. \A id \in Ids : Ahead(id)' => book'[id] = None
    BY <1>9
  <2> QED BY <2>1, <2>2, <2>3 DEF Heard
<1>11. Placed'
  <2>1. waits \subseteq 1..(nextID - 1)
    <3>1. \A id \in waits : id \in 1..MaxOrders /\ id < nextID
      BY <1>2 DEF Ids
    <3>2. nextID \in Nat
      BY <1>0 DEF TypeOK
    <3> QED BY <3>1, <3>2
  <2>2. bracket' # None => StopOf(bracket'.parent) < nextID'
    BY <1>0, <1>1, <1>5 DEF Placed
  <2>3. nextID \in Ids
    BY <1>0 DEF PlaceExit, Left, TypeOK
  <2> HIDE DEF waits
  <2> QED BY <1>1, <1>5, <1>6, <2>1, <2>2, <2>3 DEF Placed, Bracketing
<1>12. Once'
  <2>1. \A id \in Ids : Reported(id)' <=> Reported(id)
    BY <1>00 DEF Reported, Waits
  <2>2. \A id \in waits : ~Reported(id)
    BY <1>0, <1>2 DEF Once
  <2>3. \A id \in Ids : Reported(id)' =>
          id < nextID' /\ (Followed(id)' => orders'[id].end = "filled")
    BY <1>0, <1>1, <1>4, <2>1, <2>2 DEF Once, Followed
  <2>4. bracket' # None =>
          \A c \in BarriersOf(bracket') :
              ~Reported(c)' /\ (Followed(c)' => orders'[c].role \in Barriers /\ orders'[c].end # "filled")
    <3> SUFFICES ASSUME bracket' # None, NEW c \in BarriersOf(bracket')
                 PROVE  ~Reported(c)' /\ (Followed(c)' => orders'[c].role \in Barriers
                                                          /\ orders'[c].end # "filled")
      OBVIOUS
    <3>1. b # None /\ c \in BarriersOf(b) /\ c \in Ids
      BY <1>0, <1>5, BracketIds
    <3>2. ~Reported(c) /\ (Followed(c) => orders[c].role \in Barriers /\ orders[c].end # "filled")
      BY <1>0, <3>1 DEF Once
    <3>3. CASE c \in waits
      BY <1>3, <1>4, <2>1, <3>1, <3>2, <3>3
    <3>4. CASE c \notin waits
      BY <1>4, <2>1, <3>1, <3>2, <3>4 DEF Followed
    <3> QED BY <3>3, <3>4
  <2>5. \A id \in Ids : told'[id] <= 1 /\ (Waits(id)' => told'[id] = 0)
    BY <1>0, <1>00 DEF Once, Waits
  <2>6. (\A i, j \in 1..Len(queue) :
          queue[i][2] = "FILLED" /\ queue[i] = queue[j] => i = j)'
    BY <1>0, <1>00 DEF Once
  <2> QED BY <2>3, <2>4, <2>5, <2>6 DEF Once
<1> QED BY <1>8, <1>10, <1>11, <1>12 DEF Always

LEMMA EngineKeeps ==
    ASSUME Always, Engine
    PROVE  Always'
<1>0. held \in Int /\ inFlight \in BOOLEAN
  BY DEF Always, TypeOK
<1>1. ASSUME NEW side \in {1, -1}, NEW qty \in Nat, NEW barriers \in BOOLEAN,
             Decide(side, qty, barriers)
      PROVE  Always'
  <2>1. call' \in Calls /\ call'.stage = "place"
    BY <1>1 DEF Decide, Calls
  <2>2. /\ UNCHANGED <<up, nextID, orders, held, book, net, wire, posDue, told, queue>>
        /\ timers' = timers /\ bracket' = bracket /\ inFlight' \in BOOLEAN
    BY <1>0, <1>1 DEF Decide, followVars, twsVars, ghostVars
  <2> QED BY <2>1, <2>2, CallKeeps DEF Placing
<1>2. CASE Exit
  <2>1. Sign(held) \in {1, -1}
    BY <1>0 DEF Sign
  <2>2. Abs(held) \in Nat
    BY <1>0 DEF Abs
  <2>3. -Sign(held) \in {1, -1}
    BY <2>1
  <2> QED BY <1>1, <1>2, <2>2, <2>3 DEF Exit
<1>3. ASSUME NEW side \in EntrySides, Enter(side)
      PROVE  Always'
  BY <1>1, <1>3, IBAssumption DEF Enter
<1> QED BY <1>2, <1>3 DEF Engine

LEMMA PlaceOrderKeeps ==
    ASSUME Always, PlaceOrder
    PROVE  Always'
<1>1. call \in Calls /\ call # None /\ call.stage = "place" /\ inFlight \in BOOLEAN
  BY DEF PlaceOrder, Always, TypeOK
<1>2. \A stage \in Placing : /\ [call EXCEPT !.stage = stage] \in Calls
                            /\ [call EXCEPT !.stage = stage].stage = stage
  BY <1>1 DEF Calls, Placing
<1>3. /\ UNCHANGED <<up, nextID, orders, held, book, net, wire, posDue, told, queue>>
      /\ timers' = timers /\ bracket' = bracket
  BY DEF PlaceOrder, followVars, twsVars, ghostVars
<1>4. /\ inFlight' \in BOOLEAN
      /\ \/ call' = None
         \/ call' = [call EXCEPT !.stage = "exiting"]
         \/ /\ bracket = None
            /\ \/ call' = [call EXCEPT !.stage = "entering"]
               \/ call' = [call EXCEPT !.stage = "naked"]
  BY <1>1 DEF PlaceOrder, CallReturns
<1>5. \/ call' = None
      \/ /\ call' \in Calls /\ call'.stage \in Placing
         /\ call'.stage \in {"entering", "naked"} => bracket = None
  <2>1. {"entering", "exiting", "naked"} \subseteq Placing
    BY DEF Placing
  <2> QED BY <1>2, <1>4, <2>1
<1> QED BY <1>3, <1>4, <1>5, CallKeeps

LEMMA SendBracketKeeps ==
    ASSUME Always, SendBracket
    PROVE  Always'
<1>0. TypeOK /\ Heard /\ Placed /\ Once
  BY DEF Always
<1> DEFINE p == call.parent
<1>1. /\ Bracketing /\ call \in Calls /\ call.side \in {1, -1} /\ p \in Ids /\ p + 2 < nextID
      /\ (bracket # None => bracket.parent = p)
      /\ LimitOf(p) = p + 1 /\ StopOf(p) = p + 2
  BY <1>0 DEF SendBracket, Bracketing, TypeOK, Calls, Placed, StopOf, LimitOf
<1>2. /\ UNCHANGED <<up, nextID, timers, queue, held, net, wire, posDue, ghostVars>>
      /\ call' = None /\ inFlight' = up
  BY DEF SendBracket, CallReturns
<1>3. \A id : (Ahead(id) <=> id \in p..(p + 2)) /\ ~Ahead(id)'
  BY <1>1, <1>2 DEF Ahead, Bracketing
<1> HIDE DEF p
<1>4. p \in Nat /\ nextID \in 1..(MaxOrders + 1) /\ p..(p + 2) \subseteq Ids
      /\ p + 1 \in Ids /\ p + 2 \in Ids
  <2>1. MaxOrders \in Nat /\ nextID \in 1..(MaxOrders + 1) /\ p \in 1..MaxOrders /\ p + 2 < nextID
    BY <1>0, <1>1, IBAssumption DEF TypeOK, Ids
  <2> QED BY <2>1 DEF Ids
<1>5. CASE up
  <2>1. /\ book' = [book EXCEPT
                  ![p] = Order("entry", call.side, 1, "working"),
                  ![p + 1] = Order("limit", -call.side, 1, "attached"),
                  ![p + 2] = Order("stop", -call.side, 1, "attached")]
        /\ UNCHANGED <<orders, bracket>>
    BY <1>1, <1>5 DEF SendBracket, p
  <2>2. /\ Order("entry", call.side, 1, "working") \in Books
        /\ Order("limit", -call.side, 1, "attached") \in Books
        /\ Order("stop", -call.side, 1, "attached") \in Books
    BY <1>1 DEF Order, Books, Roles, Barriers, Alive, Waiting
  <2>3. book' \in [Ids -> Books \cup {None}] /\ \A id \in Ids : id \notin {p, p + 1, p + 2} => book'[id] = book[id]
    BY <1>0, <1>1, <1>4, <2>1, <2>2 DEF TypeOK
  <2>4. \A id \in Ids : id >= nextID => book'[id] = None
    BY <1>0, <1>1, <1>4, <2>3 DEF TypeOK, Ids
  <2>5. TypeOK'
    BY <1>0, <1>2, <2>1, <2>3, <2>4 DEF TypeOK, ghostVars
  <2>6. Heard'
    BY <1>0, <1>2, <1>3, <2>1 DEF Heard, Followed, Ahead, Bracketing
  <2>7. Placed'
    BY <1>0, <1>2, <2>1 DEF Placed, Bracketing
  <2>8. Once'
    BY <1>0, <1>2, <2>1 DEF Once, Waits, Reported, Followed, ghostVars
  <2> QED BY <2>5, <2>6, <2>7, <2>8 DEF Always
<1>6. CASE ~up
  <2>1. /\ bracket' = None /\ book' = book
        /\ orders' = [id \in Ids |-> IF id \in p..(p + 2) THEN None ELSE orders[id]]
    BY <1>1, <1>6 DEF SendBracket, p
  <2>2. TypeOK'
    BY <1>0, <1>2, <2>1 DEF TypeOK, ghostVars
  <2>3. Heard'
    <3>1. (\A i \in 1..Len(wire) : wire[i][1] # "position" =>
           wire[i][2] \in 1..(nextID - 1) /\ ~Ahead(wire[i][2]))'
      BY <1>0, <1>2, <1>3 DEF Heard, Ahead, Bracketing
    <3>2. \A t \in timers' : t[2] < nextID' /\ ~Ahead(t[2])' /\ (t[1] = "settle" => Followed(t[2])')
      <4> SUFFICES ASSUME NEW t \in timers'
                   PROVE  t[2] < nextID' /\ ~Ahead(t[2])' /\ (t[1] = "settle" => Followed(t[2])')
        OBVIOUS
      <4>1. t[2] < nextID /\ t[2] \in Ids /\ (t[1] = "settle" => Followed(t[2])) /\ ~Ahead(t[2])
        BY <1>0, <1>2 DEF Heard, TypeOK
      <4>2. t[2] \notin p..(p + 2)
        BY <1>3, <4>1
      <4> QED BY <1>2, <2>1, <4>1, <4>2 DEF Followed, Ahead, Bracketing
    <3>3. \A id \in Ids : Ahead(id)' => book'[id] = None
      BY <1>3
    <3> QED BY <3>1, <3>2, <3>3 DEF Heard
  <2>4. Placed'
    BY <1>2, <2>1 DEF Placed, Bracketing
  <2>5. Once'
    BY <1>0, <1>2, <2>1 DEF Once, Waits, Reported, Followed, ghostVars
  <2> QED BY <2>2, <2>3, <2>4, <2>5 DEF Always
<1> QED BY <1>5, <1>6

\* A new order, alone, with the next identifier, while no bracket is on its way
\* or its bracket stays.
LEMMA SimpleKeeps ==
    ASSUME Always, nextID \in Ids, nextID' = nextID + 1, NEW role \in {"exit", "naked"},
           NEW side \in {1, -1}, NEW qty \in Nat,
           orders' = [orders EXCEPT ![nextID] = Track(role, side, qty)],
           book' = [book EXCEPT ![nextID] = Order(role, side, qty, "working")],
           call' = None, inFlight' \in BOOLEAN,
           UNCHANGED <<up, bracket, timers, queue, held, net, wire, posDue, told>>
    PROVE  Always'
<1>0. TypeOK /\ Heard /\ Placed /\ Once
  BY DEF Always
<1>1. /\ Track(role, side, qty) \in Tracks /\ Order(role, side, qty, "working") \in Books
      /\ Track(role, side, qty).end = ""
  BY DEF Track, Tracks, Order, Books, Roles, Alive, Waiting
<1>2. nextID \in Nat /\ nextID + 1 \in 1..(MaxOrders + 1) /\ ~Reported(nextID) /\ ~Followed(nextID)
  BY <1>0, Unused, IBAssumption DEF Ids
<1>3. /\ orders' \in [Ids -> Tracks \cup {None}] /\ book' \in [Ids -> Books \cup {None}]
      /\ \A id \in Ids : id # nextID => orders'[id] = orders[id] /\ book'[id] = book[id]
  BY <1>0, <1>1 DEF TypeOK
<1>4. TypeOK'
  <2>1. \A id \in Ids : id >= nextID' => orders'[id] = None /\ book'[id] = None
    BY <1>0, <1>2, <1>3 DEF TypeOK, Ids
  <2> QED BY <1>0, <1>2, <1>3, <2>1 DEF TypeOK
<1>5. \A id \in Ids : Followed(id) => Followed(id)'
  BY <1>2, <1>3 DEF Followed
<1>6. Heard'
  <2>1. (\A i \in 1..Len(wire) : wire[i][1] # "position" =>
           wire[i][2] \in 1..(nextID - 1) /\ ~Ahead(wire[i][2]))'
    <3>1. \A i \in 1..Len(wire) : wire[i][1] # "position" => wire[i][2] \in 1..(nextID - 1)
      BY <1>0 DEF Heard
    <3>2. 1..(nextID - 1) \subseteq 1..(nextID' - 1)
      BY <1>2
    <3> QED BY <3>1, <3>2 DEF Ahead, Bracketing
  <2>2. \A t \in timers' : t[2] < nextID' /\ ~Ahead(t[2])' /\ (t[1] = "settle" => Followed(t[2])')
    <3> SUFFICES ASSUME NEW t \in timers'
                 PROVE  t[2] < nextID' /\ ~Ahead(t[2])' /\ (t[1] = "settle" => Followed(t[2])')
      OBVIOUS
    <3>1. t[2] < nextID /\ t[2] \in Ids /\ (t[1] = "settle" => Followed(t[2]))
      BY <1>0 DEF Heard, TypeOK
    <3>2. t[2] < nextID'
      BY <1>2, <3>1 DEF Ids
    <3> QED BY <1>5, <3>1, <3>2 DEF Followed, Ahead, Bracketing
  <2>3. \A id \in Ids : Ahead(id)' => book'[id] = None
    BY DEF Ahead, Bracketing
  <2> QED BY <2>1, <2>2, <2>3 DEF Heard
<1>7. Placed'
  <2>1. bracket # None => StopOf(bracket.parent) < nextID + 1
    <3>1. bracket # None => StopOf(bracket.parent) < nextID /\ StopOf(bracket.parent) \in Nat
      BY <1>0 DEF Placed, TypeOK, Brackets, StopOf, Ids
    <3> QED BY <1>2, <3>1
  <2> QED BY <2>1 DEF Placed, Bracketing
<1>8. Once'
  <2>1. \A id \in Ids : Reported(id)' <=> Reported(id)
    BY DEF Reported, Waits
  <2>2. \A id \in Ids : Reported(id)' =>
          id < nextID' /\ (Followed(id)' => orders'[id].end = "filled")
    BY <1>0, <1>2, <1>3, <2>1 DEF Once, Followed, Ids
  <2>3. bracket' # None =>
          \A b \in BarriersOf(bracket') :
              ~Reported(b)' /\ (Followed(b)' => orders'[b].role \in Barriers /\ orders'[b].end # "filled")
    <3> SUFFICES ASSUME bracket # None, NEW b \in BarriersOf(bracket)
                 PROVE  ~Reported(b)' /\ (Followed(b)' => orders'[b].role \in Barriers
                                                          /\ orders'[b].end # "filled")
      OBVIOUS
    <3>1. b \in Ids /\ b # nextID
      BY <1>0, <1>2, BracketIds DEF Ids
    <3> QED BY <1>0, <1>3, <2>1, <3>1 DEF Once, Followed
  <2>4. \A id \in Ids : told'[id] <= 1 /\ (Waits(id)' => told'[id] = 0)
    BY <1>0 DEF Once, Waits
  <2>5. (\A i, j \in 1..Len(queue) :
          queue[i][2] = "FILLED" /\ queue[i] = queue[j] => i = j)'
    BY <1>0 DEF Once
  <2> QED BY <2>2, <2>3, <2>4, <2>5 DEF Once
<1> QED BY <1>4, <1>6, <1>7, <1>8 DEF Always

LEMMA PlaceSimpleKeeps ==
    ASSUME Always, NEW role \in {"exit", "naked"}, PlaceSimple(role),
           call.side \in {1, -1}, call.qty \in Nat, nextID \in Ids
    PROVE  Always'
<1>2. /\ UNCHANGED <<up, bracket, timers, queue, held, net, wire, posDue, told>>
      /\ call' = None /\ inFlight' \in BOOLEAN
  BY DEF PlaceSimple, CallReturns, ghostVars, Always, TypeOK
<1>3. CASE up
  <2>1. /\ nextID' = nextID + 1
        /\ orders' = [orders EXCEPT ![nextID] = Track(role, call.side, call.qty)]
        /\ book' = [book EXCEPT ![nextID] = Order(role, call.side, call.qty, "working")]
    BY <1>3 DEF PlaceSimple
  <2> QED BY <1>2, <2>1, SimpleKeeps
<1>4. CASE ~up
  <2>1. UNCHANGED <<nextID, orders, book>>
    BY <1>4 DEF PlaceSimple
  <2> QED BY <1>2, <2>1, CallKeeps
<1> QED BY <1>3, <1>4

LEMMA SendExitKeeps ==
    ASSUME Always, SendExit
    PROVE  Always'
<1>1. call.side \in {1, -1} /\ call.qty \in Nat /\ nextID \in Ids
  BY DEF SendExit, Always, TypeOK, Calls, Placed
<1> QED BY <1>1, PlaceSimpleKeeps DEF SendExit

LEMMA SendNakedKeeps ==
    ASSUME Always, SendNaked
    PROVE  Always'
<1>1. call.side \in {1, -1} /\ call.qty \in Nat /\ nextID \in Ids
  BY DEF SendNaked, Always, TypeOK, Calls, Left
<1> QED BY <1>1, PlaceSimpleKeeps DEF SendNaked

\* The timer of a lost barrier: nothing is left to protect, or the other
\* barrier is cancelled and an exit sent.
LEMMA CheckProtectionKeeps ==
    ASSUME Always, NEW id \in Ids, CheckProtection(id)
    PROVE  Always'
<1>0. TypeOK /\ Heard /\ Placed /\ Once
  BY DEF Always
<1> DEFINE b == bracket
           others == {o \in BarriersOf(b) \ {id} : Followed(o) /\ ~Ended(o)}
           exit == Track("exit", -b.side, Abs(held))
<1>1. timers' = timers \ {<<"protect", id>>} /\ UNCHANGED <<up, held, queue, callVars, net, posDue, ghostVars>>
  BY DEF CheckProtection
<1>2. CASE b = None \/ ~b.entered \/ b.closing \/ held = 0 \/ id \notin BarriersOf(b)
  <2>1. UNCHANGED <<nextID, orders, bracket, book, wire>>
    BY <1>2 DEF CheckProtection
  <2>2. /\ UNCHANGED <<up, nextID, orders, held, book, net, wire, posDue, told, queue>>
        /\ timers' \subseteq timers /\ bracket' = bracket /\ call' = call /\ inFlight' \in BOOLEAN
    BY <1>0, <1>1, <2>1 DEF callVars, ghostVars, TypeOK
  <2> QED BY <2>2, CallKeeps
<1>3. CASE ~(b = None \/ ~b.entered \/ b.closing \/ held = 0 \/ id \notin BarriersOf(b))
  <2>1. /\ nextID \in Ids /\ nextID' = nextID + 1
        /\ bracket' = [b EXCEPT !.closing = TRUE]
        /\ orders' = [o \in Ids |->
                 CASE o \in others -> [orders[o] EXCEPT !.cancel = TRUE]
                   [] o = nextID   -> exit
                   [] OTHER        -> orders[o]]
        /\ book' = IF up
                       THEN [CancelledIn(book, others) EXCEPT ![nextID] =
                              Order("exit", exit.side, exit.qty, "working")]
                       ELSE book
        /\ \E answers \in GoneAnswers(others) : Sends(answers)
    BY <1>0, <1>3, LeftOne DEF CheckProtection
  <2>2. /\ b \in Brackets /\ b # None /\ b.entered /\ ~b.closing
        /\ call = None \/ call.stage \in {"place", "exiting"}
        /\ -b.side \in {1, -1} /\ Abs(held) \in Nat
    <3>1. b \in Brackets /\ b # None /\ b.entered /\ ~b.closing
      BY <1>0, <1>3 DEF TypeOK
    <3>2. -b.side \in {1, -1} /\ Abs(held) \in Nat
      BY <1>0, <3>1 DEF TypeOK, Brackets, Abs
    <3>3. ASSUME call # None PROVE call.stage \in {"place", "exiting"}
      <4>1. call.stage \in {"place", "entering", "exiting", "naked", "bracket", "cancel", "wait", "exit"}
        BY <1>0, <3>3 DEF TypeOK, Calls
      <4>2. call.stage \notin {"entering", "naked", "bracket", "cancel", "wait", "exit"}
        BY <1>0, <3>1, <3>3 DEF Placed, Bracketing
      <4> QED BY <4>1, <4>2
    <3> QED BY <3>1, <3>2, <3>3
  <2>3. /\ others \in SUBSET Ids
        /\ \A o \in others : /\ o < nextID /\ o \in BarriersOf(b)
                             /\ Followed(o) /\ ~Ended(o)
    BY <1>0, <2>2, BracketIds
  <2>4. nextID \in Nat /\ nextID + 1 \in 1..(MaxOrders + 1) /\ ~Reported(nextID) /\ ~Followed(nextID)
        /\ ~Knows(nextID)
    BY <1>0, <2>1, Unused, IBAssumption DEF Ids
  <2>5. /\ exit \in Tracks /\ exit.end = "" /\ exit.side = -b.side /\ exit.qty = Abs(held)
        /\ Order("exit", exit.side, exit.qty, "working") \in Books
    <3> DEFINE side == -b.side
               qty == Abs(held)
    <3>1. side \in {1, -1} /\ qty \in Nat
      BY <2>2
    <3> HIDE DEF side, qty
    <3>2. /\ Track("exit", side, qty) \in Tracks /\ Track("exit", side, qty).end = ""
          /\ Track("exit", side, qty).side = side /\ Track("exit", side, qty).qty = qty
          /\ Order("exit", side, qty, "working") \in Books
      BY <3>1 DEF Track, Tracks, Order, Books, Roles, Alive, Waiting
    <3> QED BY <3>2 DEF side, qty
  <2>6. \A o \in others : /\ orders[o] \in Tracks /\ [orders[o] EXCEPT !.cancel = TRUE] \in Tracks
                          /\ [orders[o] EXCEPT !.cancel = TRUE].role = orders[o].role
                          /\ [orders[o] EXCEPT !.cancel = TRUE].end = orders[o].end
    BY <1>0, <2>3 DEF TypeOK, Followed, Tracks
  <2> HIDE DEF exit, others
  <2>7. /\ orders' \in [Ids -> Tracks \cup {None}]
        /\ \A o \in Ids : o # nextID =>
              /\ (Followed(o) <=> Followed(o)')
              /\ Followed(o) => orders'[o].role = orders[o].role /\ orders'[o].end = orders[o].end
        /\ \A o \in Ids : o > nextID => orders'[o] = orders[o]
    <3>1. \A o \in others : o # nextID /\ o < nextID
      BY <2>3, <2>4 DEF Ids
    <3>2. \A o \in Ids : orders[o] \in Tracks \cup {None}
      BY <1>0 DEF TypeOK
    <3>3. \A o \in Ids : orders'[o] = IF o \in others THEN [orders[o] EXCEPT !.cancel = TRUE]
                                      ELSE IF o = nextID THEN exit ELSE orders[o]
      BY <2>1, <3>1
    <3>4. \A o \in others : orders'[o] = [orders[o] EXCEPT !.cancel = TRUE]
      BY <2>3, <3>3
    <3>5. \A o \in Ids : o \notin others /\ o # nextID => orders'[o] = orders[o]
      BY <3>3
    <3>6. orders'[nextID] = exit
      BY <2>1, <3>1, <3>3
    <3>7. \A o \in Ids : orders'[o] \in Tracks \cup {None}
      BY <2>5, <2>6, <3>2, <3>4, <3>5, <3>6
    <3>8. \A o \in Ids : o > nextID => o \notin others /\ o # nextID
      BY <2>3, <2>4 DEF Ids
    <3>9. ASSUME NEW o \in Ids, o # nextID
          PROVE  /\ (Followed(o) <=> Followed(o)')
                 /\ Followed(o) => orders'[o].role = orders[o].role /\ orders'[o].end = orders[o].end
      <4>1. CASE o \in others
        <5>1. orders'[o] \in Tracks
          BY <2>6, <3>4, <4>1
        <5>2. Followed(o) /\ Followed(o)'
          BY <2>3, <4>1, <5>1, IBAssumption DEF Followed
        <5> QED BY <2>6, <3>4, <4>1, <5>2
      <4>2. CASE o \notin others
        BY <3>5, <3>9, <4>2 DEF Followed
      <4> QED BY <4>1, <4>2
    <3>10. orders' = [o \in Ids |-> orders'[o]]
      BY <2>1
    <3> QED BY <3>5, <3>7, <3>8, <3>9, <3>10
  <2>8. /\ book' \in [Ids -> Books \cup {None}]
        /\ \A o \in Ids : o # nextID /\ Knows(o)' => Knows(o)
    <3>1. /\ CancelledIn(book, others) \in [Ids -> Books \cup {None}]
          /\ \A o \in Ids : CancelledIn(book, others)[o] # None => Knows(o)
      BY <1>0, CancelledBook
    <3>2. book \in [Ids -> Books \cup {None}]
      BY <1>0 DEF TypeOK
    <3>3. CASE up
      BY <2>1, <2>5, <3>1, <3>3 DEF Knows
    <3>4. CASE ~up
      BY <2>1, <3>2, <3>4 DEF Knows
    <3> QED BY <3>3, <3>4
  <2>9. PICK m \in GoneAnswers(others) : Sends(m)
    BY <2>1
  <2>10. m \in Seq(Messages) /\ Said(m, Of(others))
    BY <2>3, GoneIsSaid
  <2>11. /\ wire' \in Seq(Messages)
         /\ \A i \in 1..Len(wire') :
              (\E j \in 1..Len(wire) : wire'[i] = wire[j]) \/ (up /\ wire'[i] \in Of(others))
    BY <1>0, <2>9, <2>10, Growing
  <2>12. call' = call /\ told' = told /\ queue' = queue /\ nextID' = nextID + 1
    BY <1>1, <2>1 DEF callVars, ghostVars
  <2>13. \A o : ~Ahead(o)'
    BY <2>2, <2>12 DEF Ahead, Bracketing
  <2>14. /\ bracket' \in Brackets /\ bracket' # None /\ bracket'.parent = b.parent
         /\ BarriersOf(bracket') = BarriersOf(b)
    <3>1. bracket' \in Brackets /\ bracket'.parent = b.parent
      BY <2>1, <2>2 DEF Brackets
    <3> QED BY <3>1, IBAssumption DEF BarriersOf
  <2>15. TypeOK'
    <3>1. \A o \in Ids : o >= nextID' => o # nextID /\ o > nextID
      BY <2>4, <2>12 DEF Ids
    <3>2. \A o \in Ids : o >= nextID' => orders'[o] = None /\ book'[o] = None
      <4> SUFFICES ASSUME NEW o \in Ids, o >= nextID'
                   PROVE  orders'[o] = None /\ book'[o] = None
        OBVIOUS
      <4>1. o # nextID /\ o > nextID /\ o >= nextID
        BY <2>4, <3>1 DEF Ids
      <4>2. orders[o] = None /\ book[o] = None
        BY <1>0, <4>1 DEF TypeOK
      <4> QED BY <2>7, <2>8, <4>1, <4>2 DEF Knows
    <3>3. nextID' \in 1..(MaxOrders + 1)
      BY <2>4, <2>12
    <3> QED BY <1>0, <1>1, <2>7, <2>8, <2>11, <2>12, <2>14, <3>2, <3>3
          DEF TypeOK, callVars, ghostVars, Messages
  <2>16. Heard'
    <3>1. (\A i \in 1..Len(wire) : wire[i][1] # "position" =>
           wire[i][2] \in 1..(nextID - 1) /\ ~Ahead(wire[i][2]))'
      <4> SUFFICES ASSUME NEW i \in 1..Len(wire'), wire'[i][1] # "position"
                   PROVE  (wire[i][2] \in 1..(nextID - 1))'
        BY <2>13
      <4>1. CASE \E j \in 1..Len(wire) : wire'[i] = wire[j]
        <5> PICK j \in 1..Len(wire) : wire'[i] = wire[j]
          BY <4>1
        <5>1. wire[j][2] \in 1..(nextID - 1)
          BY <1>0 DEF Heard
        <5> QED BY <2>4, <2>12, <5>1
      <4>2. CASE wire'[i] \in Of(others)
        <5>1. wire'[i][2] \in others
          BY <4>2 DEF Of
        <5>2. \A o \in others : o \in 1..nextID
          <6>1. \A o \in others : o \in 1..MaxOrders /\ o < nextID
            BY <2>3 DEF Ids
          <6> QED BY <2>4, <6>1
        <5> QED BY <2>4, <2>12, <5>1, <5>2
      <4> QED BY <2>11, <4>1, <4>2
    <3>2. \A t \in timers' : t[2] < nextID' /\ ~Ahead(t[2])' /\ (t[1] = "settle" => Followed(t[2])')
      <4> SUFFICES ASSUME NEW t \in timers'
                   PROVE  t[2] < nextID' /\ (t[1] = "settle" => Followed(t[2])')
        BY <2>13
      <4>1. t[2] < nextID /\ t[2] \in Ids /\ (t[1] = "settle" => Followed(t[2]))
        BY <1>0, <1>1 DEF Heard, TypeOK
      <4>2. t[2] # nextID /\ t[2] < nextID'
        BY <2>4, <2>12, <4>1 DEF Ids
      <4> QED BY <2>7, <4>1, <4>2 DEF Followed
    <3>3. \A o \in Ids : Ahead(o)' => book'[o] = None
      BY <2>13
    <3> QED BY <3>1, <3>2, <3>3 DEF Heard
  <2>17. Placed'
    <3>1. StopOf(b.parent) < nextID /\ StopOf(b.parent) \in Nat
      BY <1>0, <2>2 DEF Placed, Brackets, StopOf, Ids
    <3>2. StopOf(bracket'.parent) < nextID'
      BY <2>4, <2>12, <2>14, <3>1
    <3> QED BY <2>2, <2>12, <3>2 DEF Placed, Bracketing
  <2>18. Once'
    <3>1. \A o \in Ids : Reported(o)' <=> Reported(o)
      BY <2>12 DEF Reported, Waits
    <3>2. \A o \in Ids : Reported(o)' =>
            o < nextID' /\ (Followed(o)' => orders'[o].end = "filled")
      <4> SUFFICES ASSUME NEW o \in Ids, Reported(o)
                   PROVE  o < nextID' /\ (Followed(o)' => orders'[o].end = "filled")
        BY <3>1
      <4>1. o < nextID /\ o # nextID /\ (Followed(o) => orders[o].end = "filled")
        BY <1>0, <2>4 DEF Once
      <4> QED BY <2>4, <2>7, <2>12, <4>1 DEF Ids
    <3>3. \A c \in BarriersOf(bracket') :
              ~Reported(c)' /\ (Followed(c)' => orders'[c].role \in Barriers /\ orders'[c].end # "filled")
      <4> SUFFICES ASSUME NEW c \in BarriersOf(b)
                   PROVE  ~Reported(c)' /\ (Followed(c)' => orders'[c].role \in Barriers
                                                            /\ orders'[c].end # "filled")
        BY <2>14
      <4>1. c \in Ids /\ c # nextID
        BY <1>0, <2>2, <2>4, BracketIds DEF Ids
      <4> QED BY <1>0, <2>2, <2>7, <3>1, <4>1 DEF Once
    <3>4. \A o \in Ids : told'[o] <= 1 /\ (Waits(o)' => told'[o] = 0)
      BY <1>0, <2>12 DEF Once, Waits
    <3>5. (\A i, j \in 1..Len(queue) :
            queue[i][2] = "FILLED" /\ queue[i] = queue[j] => i = j)'
      BY <1>0, <2>12 DEF Once
    <3> QED BY <3>2, <3>3, <3>4, <3>5 DEF Once
  <2> QED BY <2>15, <2>16, <2>17, <2>18 DEF Always
<1> QED BY <1>2, <1>3

LEMMA ConnectionLostKeeps ==
    ASSUME Always, ConnectionLost
    PROVE  Always'
<1>0. TypeOK /\ Heard /\ Placed /\ Once
  BY DEF Always
<1>1. /\ UNCHANGED <<nextID, orders, bracket, timers, queue, call, inFlight, held, book, net, posDue, told>>
      /\ up' = FALSE /\ wire' = <<>>
  BY DEF ConnectionLost, Breaks, callVars
<1>2. TypeOK' /\ Placed'
  <2>1. wire' \in Seq(Kinds \X Int)
    BY <1>1
  <2>2. TypeOK'
    BY <1>0, <1>1, <2>1 DEF TypeOK
  <2> QED BY <1>0, <1>1, <2>2 DEF Placed, Bracketing
<1>3. Heard'
  BY <1>0, <1>1 DEF Heard, Ahead, Bracketing, Followed
<1>4. Once'
  BY <1>0, <1>1 DEF Once, Waits, Reported, Followed
<1> QED BY <1>2, <1>3, <1>4 DEF Always

LEMMA CrashKeeps ==
    ASSUME Always, Crash
    PROVE  Always'
<1>0. TypeOK /\ Heard /\ Placed /\ Once
  BY DEF Always
<1>1. /\ UNCHANGED <<nextID, bracket, held, book, net, posDue, told>>
      /\ up' = FALSE /\ wire' = <<>> /\ timers' = {} /\ queue' = <<>>
      /\ orders' = [id \in Ids |-> None] /\ call' = None /\ inFlight' = FALSE
  BY DEF Crash, Breaks
<1>2. TypeOK' /\ Placed'
  <2>1. /\ wire' \in Seq(Kinds \X Int) /\ queue' \in Seq(Ids \X {"FILLED", "CANCELLED", "REJECTED"})
        /\ orders' \in [Ids -> Tracks \cup {None}]
    BY <1>1
  <2>2. TypeOK'
    BY <1>0, <1>1, <2>1 DEF TypeOK
  <2> QED BY <1>0, <1>1, <2>2 DEF Placed, Bracketing
<1>3. Heard'
  BY <1>0, <1>1 DEF Heard, Ahead, Bracketing
<1>4. Once'
  <2>1. \A id \in Ids : ~Waits(id)' /\ ~Followed(id)'
    BY <1>1 DEF Waits, Followed
  <2>2. \A id \in Ids : Reported(id)' => Reported(id)
    BY <1>1, <2>1 DEF Reported
  <2>3. bracket' # None => BarriersOf(bracket') \subseteq Ids
    BY <1>0, <1>1, BracketIds
  <2>4. bracket' # None => \A b \in BarriersOf(bracket') : ~Reported(b)' /\ ~Followed(b)'
    BY <1>0, <1>1, <2>1, <2>2, <2>3 DEF Once
  <2> QED BY <1>0, <1>1, <2>1, <2>2, <2>4 DEF Once
<1> QED BY <1>2, <1>3, <1>4 DEF Always

LEMMA ReconnectKeeps ==
    ASSUME Always, Reconnect
    PROVE  Always'
<1>0. TypeOK /\ Heard /\ Placed /\ Once
  BY DEF Always
<1>1. /\ UNCHANGED <<nextID, bracket, queue, call, book, net, wire, told>>
      /\ up' = TRUE /\ timers' = {} /\ inFlight' = FALSE /\ held' = net /\ posDue' = FALSE
      /\ orders' = Loaded(bracket) /\ call = None
  BY DEF Reconnect
<1>2. ASSUME NEW id \in Ids
      PROVE  \/ orders'[id] = None
             \/ /\ bracket # None /\ id \in BarriersOf(bracket)
                /\ orders'[id] \in Tracks /\ orders'[id].role \in Barriers /\ orders'[id].end = ""
  <2>1. CASE bracket = None \/ ~bracket.entered
    BY <1>1, <2>1 DEF Loaded
  <2>2. CASE bracket # None /\ bracket.entered
    <3>1. bracket \in Brackets /\ -bracket.side \in {1, -1} /\ bracket.parent \in Nat
      BY <1>0, <2>2 DEF TypeOK, Brackets, Ids
    <3>2. LimitOf(bracket.parent) # StopOf(bracket.parent)
      BY <3>1 DEF LimitOf, StopOf
    <3> DEFINE side == -bracket.side
    <3>3. orders'[id] = IF id = LimitOf(bracket.parent) THEN Track("limit", side, 1)
                        ELSE IF id = StopOf(bracket.parent) THEN Track("stop", side, 1) ELSE None
      BY <1>1, <2>2, <3>2 DEF Loaded
    <3>4. side \in {1, -1}
      BY <3>1
    <3> HIDE DEF side
    <3>5. \A role \in Barriers : /\ Track(role, side, 1) \in Tracks
                                 /\ Track(role, side, 1).role = role /\ Track(role, side, 1).end = ""
      BY <3>4 DEF Track, Tracks, Roles
    <3> QED BY <2>2, <3>3, <3>5 DEF Barriers, BarriersOf
  <2> QED BY <2>1, <2>2
<1>3. bracket # None => BarriersOf(bracket) \subseteq Ids /\ \A b \in BarriersOf(bracket) : b < nextID
  BY <1>0, BracketIds
<1>4. TypeOK'
  <2>1. orders' \in [Ids -> Tracks \cup {None}]
    <3>1. orders' = [id \in Ids |-> orders'[id]]
      BY <1>1 DEF Loaded
    <3> QED BY <1>2, <3>1
  <2>2. \A id \in Ids : id >= nextID => ~(id < nextID)
    BY <1>0 DEF TypeOK, Ids
  <2>3. \A id \in Ids : id >= nextID' => orders'[id] = None /\ book'[id] = None
    BY <1>0, <1>1, <1>2, <1>3, <2>2 DEF TypeOK
  <2> QED BY <1>0, <1>1, <2>1, <2>3 DEF TypeOK
<1>5. Heard' /\ Placed'
  BY <1>0, <1>1 DEF Heard, Placed, Ahead, Bracketing
<1>6. Once'
  <2>1. \A id \in Ids : Reported(id)' <=> Reported(id)
    BY <1>1 DEF Reported, Waits
  <2>2. \A id \in Ids : Reported(id) => orders'[id] = None
    BY <1>0, <1>2 DEF Once
  <2>3. \A id \in Ids : Reported(id)' =>
            id < nextID' /\ (Followed(id)' => orders'[id].end = "filled")
    BY <1>0, <1>1, <2>1, <2>2 DEF Once, Followed
  <2>4. bracket' # None =>
          \A b \in BarriersOf(bracket') :
              ~Reported(b)' /\ (Followed(b)' => orders'[b].role \in Barriers /\ orders'[b].end # "filled")
    BY <1>0, <1>1, <1>2, <1>3, <2>1 DEF Once, Followed
  <2> QED BY <1>0, <1>1, <2>1, <2>3, <2>4 DEF Once, Waits
<1> QED BY <1>4, <1>5, <1>6 DEF Always

LEMMA AlwaysInitially == Init => Always
<1> SUFFICES ASSUME Init PROVE Always
  OBVIOUS
<1>1. TypeOK
  <2>1. 1 \in 1..(MaxOrders + 1) /\ 0 \in Nat
    BY IBAssumption
  <2>2. /\ wire \in Seq(Kinds \X Int) /\ queue \in Seq(Ids \X {"FILLED", "CANCELLED", "REJECTED"})
        /\ orders \in [Ids -> Tracks \cup {None}] /\ book \in [Ids -> Books \cup {None}]
        /\ told \in [Ids -> Nat]
    BY <2>1 DEF Init
  <2>3. \A id \in Ids : id >= nextID => orders[id] = None /\ book[id] = None
    BY DEF Init
  <2>4. /\ up = TRUE /\ posDue = FALSE /\ inFlight = FALSE /\ nextID = 1 /\ held = 0 /\ net = 0
        /\ bracket = None /\ call = None /\ timers = {}
    BY DEF Init
  <2>5. /\ {up, posDue, inFlight} \subseteq BOOLEAN
        /\ bracket \in Brackets \cup {None} /\ call \in Calls \cup {None}
        /\ timers \subseteq {"settle", "protect"} \X Ids
    BY <2>4
  <2>6. nextID \in 1..(MaxOrders + 1) /\ held \in Int /\ net \in Int
    BY <2>1, <2>4
  <2> QED BY <2>2, <2>3, <2>5, <2>6 DEF TypeOK
<1>2. Heard /\ Placed
  BY DEF Init, Heard, Placed, Ahead, Bracketing
<1>3. Once
  BY DEF Init, Once, Waits, Reported
<1> QED BY <1>1, <1>2, <1>3 DEF Always

LEMMA AlwaysKept == Always /\ [Next]_vars => Always'
<1> SUFFICES ASSUME Always, [Next]_vars PROVE Always'
  OBVIOUS
<1>1. CASE Gateway
  <2>1. ASSUME NEW id \in Ids, SettleTimer(id) PROVE Always'
    BY <2>1, SettleTimerKeeps
  <2>2. ASSUME NEW id \in Ids, CheckProtection(id) PROVE Always'
    BY <2>2, CheckProtectionKeeps
  <2> QED BY <1>1, <2>1, <2>2, OrderMessageKeeps, OnPositionKeeps DEF Gateway, OrderMessage
<1>2. CASE Caller
  BY <1>2, PlaceOrderKeeps, PlaceBracketKeeps, SendBracketKeeps, SendNakedKeeps, PlaceExitKeeps,
     SendCancelsKeeps, CancelsDoneKeeps, CancelTimeoutKeeps, SendExitKeeps, DeliverKeeps DEF Caller
<1>3. CASE Engine
  BY <1>3, EngineKeeps
<1>4. CASE TWS
  BY <1>4, SendPositionKeeps, ExecuteKeeps, RejectKeeps, ConfirmCancelKeeps, LoseKeeps DEF TWS
<1>5. CASE ConnectionLost \/ Crash \/ Reconnect
  BY <1>5, ConnectionLostKeeps, CrashKeeps, ReconnectKeeps
<1>6. CASE UNCHANGED vars
  <2>1. UNCHANGED <<up, nextID, held, orders, bracket, timers, queue, call, inFlight, book, net,
                    wire, posDue, told>>
    BY <1>6 DEF vars, followVars, callVars, twsVars, ghostVars
  <2>2. inFlight' \in BOOLEAN
    BY <2>1 DEF Always, TypeOK
  <2> QED BY <2>1, <2>2, CallKeeps
<1> QED BY <1>1, <1>2, <1>3, <1>4, <1>5, <1>6 DEF Next

LEMMA AlwaysHolds == Spec => []Always
<1> QED BY AlwaysInitially, AlwaysKept, PTL DEF Spec

\* The gateway's variables keep their types.
THEOREM GatewayTypes == Spec => []TypeOK
<1>1. Always => TypeOK
  BY DEF Always
<1> QED BY <1>1, AlwaysHolds, PTL

\* Whatever TWS repeats or omits, however often the connection or the process is
\* lost, an execution reaches the engine at most once (trySettle, settleFilled).
THEOREM ToldAtMostOnce == Spec => [](\A id \in Ids : told[id] <= 1)
<1>1. Always => \A id \in Ids : told[id] <= 1
  BY DEF Always, Once
<1> QED BY <1>1, AlwaysHolds, PTL

-----------------------------------------------------------------------------
(* What holds as long as the connection does *)

Executed(id) == Knows(id) /\ book[id].state = "filled"
Cancelled(id) == Knows(id) /\ book[id].state = "cancelled"
Says(m) == \E i \in 1..Len(wire) : wire[i] = m

\* Every order is followed, and TWS knows it unless it is still to be sent.
Followers ==
    /\ up
    /\ \A id \in Ids : id < nextID => Followed(id) /\ (Knows(id) <=> ~Ahead(id))
    /\ \A id \in Ids : Knows(id) =>
          /\ book[id].role = orders[id].role /\ book[id].side = orders[id].side
          /\ book[id].qty = orders[id].qty

\* The bracket to be sent is the one followed.
Planned ==
    \A id \in Ids : Ahead(id) =>
        /\ orders[id].role = IF id = call.parent THEN "entry"
                             ELSE IF id = LimitOf(call.parent) THEN "limit" ELSE "stop"
        /\ orders[id].side = IF id = call.parent THEN call.side ELSE -call.side
        /\ orders[id].qty = 1

\* What TWS says of an order is what became of it.
Truthful ==
    \A i \in 1..Len(wire) :
        /\ wire[i][1] \in {"execution", "commission", "filled"} => Executed(wire[i][2])
        /\ wire[i][1] \in {"cancelled", "refused"} => Cancelled(wire[i][2])
        /\ wire[i][1] = "gone" => Executed(wire[i][2]) \/ Cancelled(wire[i][2])

\* So is what the gateway has noted.
Noted ==
    \A id \in Ids : Followed(id) =>
        /\ orders[id].exec \/ orders[id].status \/ orders[id].end = "filled" => Executed(id)
        /\ Ended(id) => Executed(id) \/ Cancelled(id)
        /\ orders[id].end = "filled" => Reported(id)

\* An execution and its commission are on their way.
Due(id) ==
    \E j \in 1..Len(wire) :
        /\ wire[j] = <<"commission", id>>
        /\ orders[id].exec \/ \E k \in 1..(j - 1) : wire[k] = <<"execution", id>>
        /\ \A i \in 1..(j - 1) : wire[i] # <<"commission", id>>

\* The end of an order is known, or on its way.
Answered(id) ==
    IF Ended(id) THEN Executed(id) /\ ~Terse => orders[id].end = "filled"
    ELSE /\ Executed(id) => \/ orders[id].exec \/ orders[id].status
                            \/ Says(<<"execution", id>>) \/ Says(<<"filled", id>>)
         /\ orders[id].exec \/ orders[id].status => <<"settle", id>> \in timers
         /\ Cancelled(id) => Says(<<"cancelled", id>>) \/ Says(<<"refused", id>>)
         /\ ~Terse /\ Executed(id) => Due(id)

Owed == \A id \in Ids : Followed(id) => Answered(id)

Sound == Followers /\ Planned /\ Truthful /\ Noted /\ Owed

-----------------------------------------------------------------------------
(* While connected, step by step *)

Counted == spent \in [entries : Nat, losses : Nat, breaks : Nat]

LEMMA CountedKept == Counted /\ [Next]_vars => Counted'
<1> SUFFICES ASSUME Counted, [Next]_vars PROVE Counted'
  OBVIOUS
<1>1. CASE spent' = spent
  BY <1>1 DEF Counted
<1>2. CASE \/ spent' = [spent EXCEPT !.entries = @ + 1]
           \/ spent' = [spent EXCEPT !.losses = @ + 1]
           \/ spent' = [spent EXCEPT !.breaks = @ + 1]
  BY <1>2 DEF Counted
<1>3. CASE Gateway
  BY <1>1, <1>3 DEF Gateway, OnExecution, OnCommission, OnFilled, OnCancelled, OnRefused, OnGone,
     OnPosition, Incoming, SettleTimer, CheckProtection, ghostVars
<1>4. CASE Caller
  BY <1>1, <1>2, <1>4 DEF Caller, PlaceOrder, PlaceBracket, SendBracket, SendNaked, PlaceExit,
     SendCancels, CancelsDone, CancelTimeout, SendExit, PlaceSimple, Deliver, ghostVars
<1>5. CASE Engine
  BY <1>1, <1>5 DEF Engine, Exit, Enter, Decide, ghostVars
<1>6. CASE TWS
  BY <1>1, <1>2, <1>6 DEF TWS, SendPosition, Execute, Reject, ConfirmCancel, Lose, ghostVars
<1>7. CASE ConnectionLost \/ Crash \/ Reconnect
  BY <1>1, <1>2, <1>7 DEF ConnectionLost, Crash, Reconnect, Breaks
<1>8. CASE UNCHANGED vars
  BY <1>1, <1>8 DEF vars, ghostVars
<1> QED BY <1>3, <1>4, <1>5, <1>6, <1>7, <1>8 DEF Next

LEMMA PlannedStays ==
    ASSUME Always, Followers, Planned, ~Bracketing' \/ call' = call,
           \A id \in Ids : Followed(id) =>
              /\ orders'[id].role = orders[id].role /\ orders'[id].side = orders[id].side
              /\ orders'[id].qty = orders[id].qty
    PROVE  Planned'
<1>1. CASE ~Bracketing'
  BY <1>1 DEF Planned, Ahead
<1>2. CASE Bracketing' /\ call' = call
  <2>1. ASSUME NEW id \in Ids, Ahead(id) PROVE Followed(id)
    <3>1. id < nextID
      BY <2>1 DEF Always, TypeOK, Placed, Ahead, StopOf, Ids, Bracketing, Calls
    <3> QED BY <3>1 DEF Followers
  <2>2. \A id : Ahead(id)' <=> Ahead(id)
    BY <1>2 DEF Ahead, Bracketing
  <2> QED BY <1>2, <2>1, <2>2 DEF Planned
<1> QED BY <1>1, <1>2

\* What a message leaves in the order it is about.
LEMMA MessageSays ==
    ASSUME TypeOK, Heard, OrderMessage, NEW id, NEW kind, wire[1] = <<kind, id>>
    PROVE  Followed(id) =>
             /\ orders'[id].exec => orders[id].exec \/ kind = "execution"
             /\ orders'[id].status => orders[id].status \/ kind = "filled"
             /\ kind = "execution" => orders'[id].exec
             /\ kind = "filled" => orders'[id].status
             /\ kind = "commission" /\ orders[id].exec /\ ~Ended(id) => orders'[id].end = "filled"
             /\ kind \in {"cancelled", "refused"} /\ ~orders[id].exec => Ended(id)'
             /\ orders[id].end # "dead" /\ orders'[id].end = "dead" =>
                  kind \in {"cancelled", "refused"} /\ ~orders[id].exec
<1> SUFFICES ASSUME Followed(id)
             PROVE  /\ orders'[id].exec => orders[id].exec \/ kind = "execution"
                    /\ orders'[id].status => orders[id].status \/ kind = "filled"
                    /\ kind = "execution" => orders'[id].exec
                    /\ kind = "filled" => orders'[id].status
                    /\ kind = "commission" /\ orders[id].exec /\ ~Ended(id)
                         => orders'[id].end = "filled"
                    /\ kind \in {"cancelled", "refused"} /\ ~orders[id].exec => Ended(id)'
                    /\ orders[id].end # "dead" /\ orders'[id].end = "dead" =>
                         kind \in {"cancelled", "refused"} /\ ~orders[id].exec
  OBVIOUS
<1>0. wire \in Seq(Messages) /\ wire # <<>> /\ Head(wire) = wire[1]
  <2>1. wire \in Seq(Messages) /\ wire # <<>>
    BY DEF TypeOK, Messages, OrderMessage, OnExecution, OnCommission, OnFilled, OnCancelled,
           OnRefused, OnGone, Incoming
  <2> QED BY <2>1, Popping
<1>1. Taking /\ wire[1][1] # "position" /\ Following(id)
  BY MessagesFollow
<1>2. id \in Ids /\ orders[id] \in Tracks
  <2>1. 1 \in 1..Len(wire)
    BY <1>0, Popping
  <2>2. id \in 1..(nextID - 1)
    BY <1>1, <2>1 DEF Heard
  <2>3. id \in Ids
    BY <2>2, IBAssumption DEF TypeOK, Ids
  <2> QED BY <2>3 DEF TypeOK, Followed
<1>3. ASSUME NEW k, Incoming(k) PROVE k = kind /\ About = id
  BY <1>0, <1>3 DEF Incoming, About
<1>4. ASSUME NEW t \in Tracks, NEW b, NEW force, TrySettle(id, t, b, force)
      PROVE  /\ orders'[id].exec = t.exec /\ orders'[id].status = t.status
             /\ orders'[id].end = t.end \/ orders'[id].end = "filled"
             /\ t.end = "" /\ t.exec /\ t.paid => orders'[id].end = "filled"
  <2>1. \/ orders' = [orders EXCEPT ![id] = t] /\ ~(t.end = "" /\ t.exec /\ t.paid)
        \/ orders' = [orders EXCEPT ![id] = [t EXCEPT !.end = "filled"]]
    BY <1>4 DEF TrySettle, Settle
  <2>2. \/ orders'[id] = t /\ ~(t.end = "" /\ t.exec /\ t.paid)
        \/ orders'[id] = [t EXCEPT !.end = "filled"]
    BY <1>2, <2>1 DEF TypeOK
  <2> QED BY <2>2 DEF Tracks
<1>5. ASSUME NEW status, Finish(id, status)
      PROVE  /\ orders'[id].exec = orders[id].exec /\ orders'[id].status = orders[id].status
             /\ orders'[id].end = "dead" /\ Ended(id)'
  <2>1. orders'[id] = [orders[id] EXCEPT !.end = "dead"]
    BY <1>2, <1>5 DEF Finish, TypeOK
  <2>2. [orders[id] EXCEPT !.end = "dead"] \in Tracks
    BY <1>2 DEF Tracks
  <2>3. orders'[id] # None
    BY <2>1, <2>2, IBAssumption
  <2> QED BY <1>2, <2>1, <2>3 DEF Tracks, Ended, Followed
<1>6. CASE OnExecution
  <2>1. kind = "execution" /\ About = id
    BY <1>3, <1>6 DEF OnExecution
  <2>2. CASE orders[id].exec
    BY <1>6, <2>1, <2>2 DEF OnExecution, followVars
  <2>3. CASE ~orders[id].exec
    <3> DEFINE t == [orders[id] EXCEPT !.exec = TRUE]
    <3>1. t \in Tracks /\ t.exec /\ t.status = orders[id].status /\ t.end = orders[id].end
      BY <1>2 DEF Tracks
    <3>2. TrySettle(id, t, ClosedBy(orders[id]), FALSE)
      BY <1>6, <2>1, <2>3 DEF OnExecution
    <3> HIDE DEF t
    <3> QED BY <1>4, <2>1, <3>1, <3>2
  <2> QED BY <2>2, <2>3
<1>7. CASE OnCommission
  <2>1. kind = "commission" /\ About = id
    BY <1>3, <1>7 DEF OnCommission
  <2> DEFINE t == [orders[id] EXCEPT !.paid = TRUE]
  <2>2. t \in Tracks /\ t.paid /\ t.exec = orders[id].exec /\ t.status = orders[id].status
        /\ t.end = orders[id].end
    BY <1>2 DEF Tracks
  <2>3. TrySettle(id, t, bracket, FALSE)
    BY <1>7, <2>1 DEF OnCommission
  <2> HIDE DEF t
  <2> QED BY <1>4, <2>1, <2>2, <2>3 DEF Ended
<1>8. CASE OnFilled
  <2>1. kind = "filled" /\ About = id
    BY <1>3, <1>8 DEF OnFilled
  <2> DEFINE t == [orders[id] EXCEPT !.status = TRUE]
  <2>2. t \in Tracks /\ t.status /\ t.exec = orders[id].exec /\ t.end = orders[id].end
    BY <1>2 DEF Tracks
  <2>3. TrySettle(id, t, ClosedBy(orders[id]), FALSE)
    BY <1>8, <2>1 DEF OnFilled
  <2> HIDE DEF t
  <2> QED BY <1>4, <2>1, <2>2, <2>3
<1>9. CASE OnCancelled
  <2>1. kind = "cancelled" /\ About = id
    BY <1>3, <1>9 DEF OnCancelled
  <2>2. CASE orders[id].exec
    <3>1. TrySettle(id, orders[id], bracket, FALSE)
      BY <1>9, <2>1, <2>2 DEF OnCancelled
    <3> QED BY <1>2, <1>4, <2>1, <2>2, <3>1
  <2>3. CASE ~orders[id].exec /\ ~Ended(id)
    <3>1. Finish(id, "CANCELLED")
      BY <1>9, <2>1, <2>3 DEF OnCancelled
    <3> QED BY <1>5, <2>1, <2>3, <3>1
  <2>4. CASE ~orders[id].exec /\ Ended(id)
    <3>1. UNCHANGED followVars
      BY <1>9, <2>1, <2>4 DEF OnCancelled
    <3> QED BY <2>1, <2>4, <3>1 DEF followVars, Ended, Followed
  <2> QED BY <2>2, <2>3, <2>4
<1>10. CASE OnRefused
  <2>1. kind = "refused" /\ About = id
    BY <1>3, <1>10 DEF OnRefused
  <2>2. CASE ~orders[id].exec /\ ~Ended(id)
    <3>1. Finish(id, "REJECTED")
      BY <1>10, <2>1, <2>2 DEF OnRefused
    <3> QED BY <1>5, <2>1, <2>2, <3>1
  <2>3. CASE ~(~orders[id].exec /\ ~Ended(id))
    <3>1. UNCHANGED followVars
      BY <1>10, <2>1, <2>3 DEF OnRefused
    <3> QED BY <2>1, <2>3, <3>1 DEF followVars, Ended, Followed
  <2> QED BY <2>2, <2>3
<1>11. CASE OnGone
  <2>1. kind = "gone" /\ UNCHANGED followVars
    BY <1>3, <1>11 DEF OnGone
  <2> QED BY <2>1 DEF followVars
<1> QED BY <1>6, <1>7, <1>8, <1>9, <1>10, <1>11 DEF OrderMessage

LEMMA FollowingMarks ==
    ASSUME TypeOK, NEW id \in Ids, Followed(id), Following(id)
    PROVE  /\ timers \ {<<"settle", id>>} \subseteq timers'
           /\ orders[id].exec => orders'[id].exec
           /\ orders[id].status => orders'[id].status
           /\ \/ UNCHANGED followVars
              \/ /\ orders'[id].end = orders[id].end
                 /\ orders'[id].end = "" /\ (orders'[id].exec \/ orders'[id].status)
                      => <<"settle", id>> \in timers'
              \/ /\ orders[id].end = "" /\ orders'[id].end = "filled"
                 /\ orders'[id].exec \/ orders'[id].status
                 /\ Settling(id)
              \/ orders[id].end = "" /\ orders'[id].end = "dead" /\ Finishing(id)
<1>1. CASE UNCHANGED followVars
  BY <1>1 DEF followVars
<1>2. CASE Noting(id)
  <2> PICK t \in Tracks :
        /\ Flags(id, t)
        /\ orders' = [orders EXCEPT ![id] = t]
        /\ timers \subseteq timers'
        /\ t.end = "" /\ (t.exec \/ t.status) => <<"settle", id>> \in timers'
    BY <1>2 DEF Noting
  <2>1. orders'[id] = t
    BY DEF TypeOK
  <2> QED BY <2>1 DEF Flags
<1>3. CASE Settling(id)
  <2> PICK t \in Tracks :
        /\ Flags(id, t) /\ t.end = "" /\ (t.exec \/ t.status)
        /\ orders' = [orders EXCEPT ![id] = [t EXCEPT !.end = "filled"]]
        /\ timers' = timers \ {<<"settle", id>>}
    BY <1>3 DEF Settling
  <2> DEFINE u == [t EXCEPT !.end = "filled"]
  <2>1. orders'[id] = u
    BY DEF TypeOK
  <2>2. u.end = "filled" /\ u.exec = t.exec /\ u.status = t.status
    BY DEF Tracks
  <2> HIDE DEF u
  <2> QED BY <1>3, <2>1, <2>2 DEF Flags
<1>4. CASE Finishing(id)
  <2> DEFINE u == [orders[id] EXCEPT !.end = "dead"]
  <2>0. orders[id] \in Tracks
    BY DEF TypeOK, Followed
  <2>1. orders'[id] = u
    BY <1>4 DEF TypeOK, Finishing
  <2>2. u.end = "dead" /\ u.exec = orders[id].exec /\ u.status = orders[id].status
    BY <2>0 DEF Tracks
  <2> HIDE DEF u
  <2> QED BY <1>4, <2>1, <2>2 DEF Finishing
<1> QED BY <1>1, <1>2, <1>3, <1>4 DEF Following

LEMMA SaidStill ==
    ASSUME wire \in Seq(Messages), wire # <<>>, wire' = Tail(wire), NEW x, Says(x), wire[1] # x
    PROVE  Says(x)'
<1>1. /\ wire' \in Seq(Messages)
      /\ Len(wire') = Len(wire) - 1 /\ Len(wire) \in Nat \ {0}
      /\ \A i \in 1..(Len(wire) - 1) : wire'[i] = wire[i + 1]
  BY Popping
<1>2. PICK i \in 1..Len(wire) : wire[i] = x
  BY DEF Says
<1>3. i - 1 \in 1..Len(wire') /\ wire'[i - 1] = x
  BY <1>1, <1>2
<1> QED BY <1>3 DEF Says

LEMMA DuePops ==
    ASSUME wire \in Seq(Messages), wire # <<>>, wire' = Tail(wire), NEW id, Due(id),
           wire[1] # <<"commission", id>>, wire[1] = <<"execution", id>> => orders'[id].exec,
           orders[id].exec => orders'[id].exec
    PROVE  Due(id)'
<1>1. /\ wire' \in Seq(Messages)
      /\ Len(wire') = Len(wire) - 1 /\ Len(wire) \in Nat \ {0}
      /\ \A i \in 1..(Len(wire) - 1) : wire'[i] = wire[i + 1]
  BY Popping
<1>2. PICK j \in 1..Len(wire) :
        /\ wire[j] = <<"commission", id>>
        /\ orders[id].exec \/ \E k \in 1..(j - 1) : wire[k] = <<"execution", id>>
        /\ \A i \in 1..(j - 1) : wire[i] # <<"commission", id>>
  BY DEF Due
<1>3. j # 1 /\ j - 1 \in 1..Len(wire') /\ wire'[j - 1] = wire[j]
  BY <1>1, <1>2
<1>4. orders'[id].exec \/ \E k \in 1..(j - 2) : wire'[k] = <<"execution", id>>
  <2>1. ASSUME NEW k \in 1..(j - 1), wire[k] = <<"execution", id>>, k # 1
        PROVE  k - 1 \in 1..(j - 2) /\ wire'[k - 1] = <<"execution", id>>
    BY <1>1, <1>2, <2>1
  <2> QED BY <1>2, <2>1
<1>5. \A i \in 1..(j - 2) : wire'[i] # <<"commission", id>>
  BY <1>1, <1>2
<1>6. (j - 1) - 1 = j - 2
  BY <1>2
<1> QED BY <1>2, <1>3, <1>4, <1>5, <1>6 DEF Due

LEMMA MessageSound ==
    ASSUME Always, Sound, OrderMessage, NEW id, NEW kind, wire[1] = <<kind, id>>
    PROVE  Sound'
<1>0. TypeOK /\ Heard /\ Followers /\ Planned /\ Truthful /\ Noted /\ Owed
  BY DEF Always, Sound
<1>1. Taking /\ kind # "position" /\ Following(id)
  BY <1>0, MessagesFollow
<1>2. /\ wire \in Seq(Messages) /\ wire # <<>> /\ 1 \in 1..Len(wire) /\ wire[1] = <<kind, id>>
      /\ id \in Ids /\ id < nextID /\ ~Ahead(id)
  <2>1. wire \in Seq(Messages) /\ wire # <<>>
    BY <1>0, <1>1 DEF TypeOK, Messages, Taking
  <2>2. 1 \in 1..Len(wire) /\ wire[1] \in Messages
    BY <2>1, Popping
  <2>4. id \in 1..(nextID - 1) /\ ~Ahead(id)
    BY <1>0, <1>1, <2>2 DEF Heard
  <2>5. nextID \in 1..(MaxOrders + 1) /\ MaxOrders \in Nat
    BY <1>0, IBAssumption DEF TypeOK
  <2> QED BY <2>1, <2>2, <2>4, <2>5 DEF Ids
<1>3. Followed(id) /\ Knows(id)
  BY <1>0, <1>2 DEF Followers
<1>4. KeepsOrders(id)
  BY <1>0, <1>1, FollowingKeepsOrders
<1>5. /\ orders'[id].exec => orders[id].exec \/ kind = "execution"
      /\ orders'[id].status => orders[id].status \/ kind = "filled"
      /\ kind = "execution" => orders'[id].exec
      /\ kind = "filled" => orders'[id].status
      /\ kind = "commission" /\ orders[id].exec /\ ~Ended(id) => orders'[id].end = "filled"
      /\ kind \in {"cancelled", "refused"} /\ ~orders[id].exec => Ended(id)'
      /\ orders[id].end # "dead" /\ orders'[id].end = "dead" =>
           kind \in {"cancelled", "refused"} /\ ~orders[id].exec
  BY <1>0, <1>2, <1>3, MessageSays
<1>6. /\ timers \ {<<"settle", id>>} \subseteq timers'
      /\ orders[id].exec => orders'[id].exec
      /\ orders[id].status => orders'[id].status
      /\ \/ UNCHANGED followVars
         \/ /\ orders'[id].end = orders[id].end
            /\ orders'[id].end = "" /\ (orders'[id].exec \/ orders'[id].status)
                 => <<"settle", id>> \in timers'
         \/ /\ orders[id].end = "" /\ orders'[id].end = "filled"
            /\ orders'[id].exec \/ orders'[id].status
            /\ Settling(id)
         \/ orders[id].end = "" /\ orders'[id].end = "dead" /\ Finishing(id)
  BY <1>0, <1>1, <1>2, <1>3, FollowingMarks
<1>7. /\ book' = book /\ nextID' = nextID /\ up' = up /\ wire' = Tail(wire) /\ told' = told
      /\ \A o : Executed(o)' <=> Executed(o)
      /\ \A o : Cancelled(o)' <=> Cancelled(o)
      /\ \A o : Ahead(o)' <=> Ahead(o)
      /\ \A o : Knows(o)' <=> Knows(o)
  BY <1>1 DEF Taking, Executed, Cancelled, Knows, Ahead, Bracketing, callVars, ghostVars
<1>8. /\ \A o \in Ids : Reported(o) => Reported(o)'
      /\ Settling(id) => Reported(id)'
  <2>1. CASE Settling(id)
    <3>1. \A o \in Ids : Waits(o)' <=> Waits(o) \/ o = id
      BY <1>0, <1>1, <1>2, <1>3, <2>1, FollowingReports
    <3> QED BY <1>2, <1>7, <3>1 DEF Reported
  <2>2. CASE ~Settling(id)
    <3>1. \A o \in Ids : Waits(o)' <=> Waits(o)
      BY <1>0, <1>1, <2>2, FollowingReports
    <3> QED BY <1>7, <2>2, <3>1 DEF Reported
  <2> QED BY <2>1, <2>2
<1>9. /\ \A o \in Ids : (Followed(o)' <=> Followed(o)) /\ (o # id => orders'[o] = orders[o])
      /\ \A o \in Ids : o # id => (Ended(o)' <=> Ended(o))
      /\ Ended(id) => Ended(id)' /\ orders'[id].end = orders[id].end
      /\ Ended(id)' <=> orders'[id].end # ""
      /\ Ended(id) <=> orders[id].end # ""
  BY <1>2, <1>3, <1>4 DEF KeepsOrders, Ended, Followed
<1>10. Followers'
  <2>1. up' /\ nextID' = nextID
    BY <1>0, <1>1, <1>7 DEF Followers, Taking
  <2>2. ASSUME NEW o \in Ids, o < nextID
        PROVE  Followed(o)' /\ (Knows(o)' <=> ~Ahead(o)')
    BY <1>0, <1>7, <1>9, <2>2 DEF Followers
  <2>3. ASSUME NEW o \in Ids, Knows(o)
        PROVE  /\ book'[o].role = orders'[o].role /\ book'[o].side = orders'[o].side
               /\ book'[o].qty = orders'[o].qty
    <3>1. /\ book[o].role = orders[o].role /\ book[o].side = orders[o].side
          /\ book[o].qty = orders[o].qty
      BY <1>0, <2>3 DEF Followers
    <3>2. o < nextID
      BY <1>0, <2>3, KnownIsSent
    <3>3. Followed(o)
      BY <1>0, <3>2 DEF Followers
    <3> QED BY <1>4, <1>7, <3>1, <3>3 DEF KeepsOrders
  <2>4. \A o \in Ids : Knows(o)' <=> Knows(o)
    BY <1>7
  <2>5. \A o \in Ids : o < nextID' => Followed(o)' /\ (Knows(o)' <=> ~Ahead(o)')
    BY <2>1, <2>2
  <2>6. \A o \in Ids : Knows(o)' =>
          /\ book'[o].role = orders'[o].role /\ book'[o].side = orders'[o].side
          /\ book'[o].qty = orders'[o].qty
    BY <2>3, <2>4
  <2> QED BY <2>1, <2>5, <2>6 DEF Followers
<1>11. Truthful'
  <2>1. \A i \in 1..Len(wire') : \E j \in 1..Len(wire) : wire'[i] = wire[j]
    BY <1>2, <1>7, ShorterWire DEF Shorter
  <2> SUFFICES ASSUME NEW i \in 1..Len(wire')
               PROVE  (/\ wire[i][1] \in {"execution", "commission", "filled"} => Executed(wire[i][2])
                       /\ wire[i][1] \in {"cancelled", "refused"} => Cancelled(wire[i][2])
                       /\ wire[i][1] = "gone" => Executed(wire[i][2]) \/ Cancelled(wire[i][2]))'
    BY DEF Truthful
  <2>2. PICK j \in 1..Len(wire) : wire'[i] = wire[j]
    BY <2>1
  <2> QED BY <1>0, <1>7, <2>2 DEF Truthful, Executed, Cancelled, Knows
<1>12. /\ kind \in {"execution", "commission", "filled"} => Executed(id)
       /\ kind \in {"cancelled", "refused"} => Cancelled(id)
       /\ kind = "gone" => Executed(id) \/ Cancelled(id)
  BY <1>0, <1>2 DEF Truthful
<1>13. ~(Executed(id) /\ Cancelled(id))
  BY DEF Executed, Cancelled
<1>14. Noted'
  <2>1. ASSUME NEW o \in Ids, Followed(o)', o # id
        PROVE  /\ orders'[o].exec \/ orders'[o].status \/ orders'[o].end = "filled" => Executed(o)'
               /\ Ended(o)' => Executed(o)' \/ Cancelled(o)'
               /\ orders'[o].end = "filled" => Reported(o)'
    BY <1>0, <1>7, <1>8, <1>9, <2>1 DEF Noted
  <2>2. /\ orders'[id].exec \/ orders'[id].status => Executed(id)
    BY <1>0, <1>2, <1>3, <1>5, <1>12 DEF Noted
  <2>3. orders'[id].end = "filled" => Executed(id) /\ Reported(id)'
    <3>1. CASE orders'[id].end = orders[id].end
      BY <1>0, <1>2, <1>3, <1>8, <3>1 DEF Noted
    <3>2. CASE orders'[id].end # orders[id].end
      BY <1>6, <1>8, <2>2, <3>2 DEF followVars
    <3> QED BY <3>1, <3>2
  <2>4. Ended(id)' => Executed(id) \/ Cancelled(id)
    <3>1. CASE Ended(id)
      BY <1>0, <1>2, <1>3, <3>1 DEF Noted
    <3>2. CASE ~Ended(id) /\ Ended(id)'
      <4>1. orders'[id].end = "filled" \/ orders'[id].end = "dead"
        BY <1>6, <1>9, <3>2 DEF followVars
      <4> QED BY <1>5, <1>9, <1>12, <2>3, <3>2, <4>1
    <3> QED BY <3>1, <3>2
  <2> QED BY <1>7, <2>1, <2>2, <2>3, <2>4 DEF Noted
<1>15. Owed'
  <2>1. ASSUME NEW o \in Ids, Followed(o), o # id
        PROVE  Answered(o)'
    <3>1. Answered(o)
      BY <1>0, <2>1 DEF Owed
    <3>2. \A k : wire[1] # <<k, o>>
      BY <1>2, <2>1
    <3>3. \A k : Says(<<k, o>>) => Says(<<k, o>>)'
      BY <1>2, <1>7, <3>2, SaidStill
    <3>4. orders'[o] = orders[o] /\ (Ended(o)' <=> Ended(o))
          /\ (Executed(o)' <=> Executed(o)) /\ (Cancelled(o)' <=> Cancelled(o))
      BY <1>7, <1>9, <2>1
    <3>5. Due(o) => Due(o)'
      BY <1>2, <1>7, <3>2, <3>4, DuePops
    <3>6. <<"settle", o>> \in timers => <<"settle", o>> \in timers'
      BY <1>6, <2>1
    <3>7. CASE Ended(o)
      BY <3>1, <3>4, <3>7 DEF Answered
    <3>8. CASE ~Ended(o)
      <4>1. /\ Executed(o) => \/ orders[o].exec \/ orders[o].status
                            \/ Says(<<"execution", o>>) \/ Says(<<"filled", o>>)
            /\ orders[o].exec \/ orders[o].status => <<"settle", o>> \in timers
            /\ Cancelled(o) => Says(<<"cancelled", o>>) \/ Says(<<"refused", o>>)
            /\ ~Terse /\ Executed(o) => Due(o)
        BY <3>1, <3>8 DEF Answered
      <4>2. /\ Executed(o)' => \/ orders'[o].exec \/ orders'[o].status
                            \/ Says(<<"execution", o>>)' \/ Says(<<"filled", o>>)'
            /\ orders'[o].exec \/ orders'[o].status => <<"settle", o>> \in timers'
            /\ Cancelled(o)' => Says(<<"cancelled", o>>)' \/ Says(<<"refused", o>>)'
            /\ ~Terse /\ Executed(o)' => Due(o)'
        BY <3>3, <3>4, <3>5, <3>6, <4>1
      <4> QED BY <3>4, <3>8, <4>2 DEF Answered
    <3> QED BY <3>7, <3>8
  <2>2. Answered(id) /\ (Executed(id)' <=> Executed(id)) /\ (Cancelled(id)' <=> Cancelled(id))
    BY <1>0, <1>2, <1>3, <1>7 DEF Owed
  <2>3. ASSUME Ended(id)', Executed(id), ~Terse PROVE orders'[id].end = "filled"
    <3>2. CASE Ended(id)
      BY <1>9, <2>2, <2>3, <3>2 DEF Answered
    <3>3. CASE ~Ended(id)
      <4>1. SUFFICES ASSUME orders'[id].end = "dead" PROVE FALSE
        BY <1>6, <1>9, <2>3, <3>3 DEF followVars
      <4> QED BY <1>5, <1>9, <1>12, <1>13, <2>3, <3>3, <4>1
    <3> QED BY <3>2, <3>3
  <2>4. ASSUME ~Ended(id)'
        PROVE  /\ Executed(id) => \/ orders'[id].exec \/ orders'[id].status
                                  \/ Says(<<"execution", id>>)' \/ Says(<<"filled", id>>)'
               /\ orders'[id].exec \/ orders'[id].status => <<"settle", id>> \in timers'
               /\ Cancelled(id) => Says(<<"cancelled", id>>)' \/ Says(<<"refused", id>>)'
               /\ ~Terse /\ Executed(id) => Due(id)'
    <3>0. ~Ended(id)
      BY <1>9, <2>4
    <3>9. /\ Executed(id) => \/ orders[id].exec \/ orders[id].status
                             \/ Says(<<"execution", id>>) \/ Says(<<"filled", id>>)
          /\ orders[id].exec \/ orders[id].status => <<"settle", id>> \in timers
          /\ Cancelled(id) => Says(<<"cancelled", id>>) \/ Says(<<"refused", id>>)
          /\ ~Terse /\ Executed(id) => Due(id)
      BY <2>2, <3>0 DEF Answered
    <3>10. \A k : k # kind /\ Says(<<k, id>>) => Says(<<k, id>>)'
      BY <1>2, <1>7, SaidStill
    <3>1. Executed(id) => \/ orders'[id].exec \/ orders'[id].status
                          \/ Says(<<"execution", id>>)' \/ Says(<<"filled", id>>)'
      BY <1>5, <1>6, <3>9, <3>10
    <3>2. orders'[id].exec \/ orders'[id].status => <<"settle", id>> \in timers'
      <4>1. CASE UNCHANGED followVars
        BY <3>9, <4>1 DEF followVars
      <4> QED BY <1>6, <1>9, <2>4, <4>1
    <3>3. Cancelled(id) => Says(<<"cancelled", id>>)' \/ Says(<<"refused", id>>)'
      <4>1. SUFFICES ASSUME Cancelled(id) PROVE kind \notin {"cancelled", "refused"}
        BY <3>9, <3>10
      <4>2. ~orders[id].exec
        BY <1>0, <1>2, <1>3, <1>13, <4>1 DEF Noted
      <4> QED BY <1>5, <2>4, <4>2
    <3>4. ~Terse /\ Executed(id) => Due(id)'
      <4>1. SUFFICES ASSUME ~Terse, Executed(id) PROVE Due(id)'
        OBVIOUS
      <4>2. Due(id)
        BY <3>9, <4>1
      <4>3. wire[1] # <<"commission", id>>
        <5>1. SUFFICES ASSUME kind = "commission" PROVE FALSE
          BY <1>2
        <5>2. ~orders[id].exec
          BY <1>5, <1>9, <2>4, <3>0, <5>1
        <5>3. PICK j \in 1..Len(wire) :
                /\ \E k \in 1..(j - 1) : wire[k] = <<"execution", id>>
                /\ \A i \in 1..(j - 1) : wire[i] # <<"commission", id>>
          BY <4>2, <5>2 DEF Due
        <5>4. j = 1
          BY <1>2, <5>1, <5>3
        <5> QED BY <5>3, <5>4
      <4>4. wire[1] = <<"execution", id>> => orders'[id].exec
        BY <1>2, <1>5
      <4> QED BY <1>2, <1>6, <1>7, <4>2, <4>3, <4>4, DuePops
    <3> QED BY <3>1, <3>2, <3>3, <3>4
  <2>5. Answered(id)'
    <3>1. CASE Ended(id)'
      BY <2>2, <2>3, <3>1 DEF Answered
    <3>2. CASE ~Ended(id)'
      BY <2>2, <2>4, <3>2 DEF Answered
    <3> QED BY <3>1, <3>2
  <2>6. ASSUME NEW o \in Ids, Followed(o)' PROVE Answered(o)'
    BY <1>9, <2>1, <2>5, <2>6
  <2> QED BY <2>6 DEF Owed
<1>16. Planned'
  BY <1>0, <1>1, <1>4, PlannedStays DEF KeepsOrders, Taking, callVars
<1> QED BY <1>10, <1>11, <1>14, <1>15, <1>16 DEF Sound

LEMMA OrderMessageSound ==
    ASSUME Always, Sound, OrderMessage
    PROVE  Sound'
<1>1. wire \in Seq(Messages) /\ wire # <<>>
  BY DEF Always, TypeOK, Messages, OrderMessage, OnExecution, OnCommission, OnFilled, OnCancelled,
         OnRefused, OnGone, Incoming
<1>2. wire[1] \in Messages
  BY <1>1, Popping
<1>3. PICK kind \in Kinds, id \in Int : wire[1] = <<kind, id>>
  BY <1>2 DEF Messages
<1> QED BY <1>3, MessageSound

-----------------------------------------------------------------------------
(* The other steps add messages to the socket, perhaps none *)

DueIn(m, id) ==
    \E j, k \in 1..Len(m) :
        /\ k < j /\ m[k] = <<"execution", id>> /\ m[j] = <<"commission", id>>
        /\ \A i \in 1..(j - 1) : m[i] # <<"commission", id>>

\* An order keeps what is noted of it, or is new, or is settled.
Same(id) ==
    /\ Followed(id) /\ Followed(id)'
    /\ orders'[id].exec = orders[id].exec /\ orders'[id].status = orders[id].status
    /\ orders'[id].end = orders[id].end
    /\ <<"settle", id>> \in timers => <<"settle", id>> \in timers'

Fresh(id) ==
    /\ ~orders'[id].exec /\ ~orders'[id].status /\ orders'[id].end = ""
    /\ ~Executed(id)' /\ ~Cancelled(id)'

Paid(id) ==
    /\ Followed(id) /\ (orders[id].exec \/ orders[id].status)
    /\ orders'[id].end = "filled" /\ Reported(id)'

\* Each order that executes or ends is told of, and what is told is true.
Tells(m) ==
    /\ \A id \in Ids : Executed(id) => Executed(id)'
    /\ \A id \in Ids : Cancelled(id) => Cancelled(id)'
    /\ \A id \in Ids : Executed(id)' /\ ~Executed(id) =>
          /\ \E i \in 1..Len(m) : m[i] \in {<<"execution", id>>, <<"filled", id>>}
          /\ ~Terse => DueIn(m, id)
    /\ \A id \in Ids : Cancelled(id)' /\ ~Cancelled(id) =>
          \E i \in 1..Len(m) : m[i] \in {<<"cancelled", id>>, <<"refused", id>>}
    /\ \A i \in 1..Len(m) :
          /\ m[i][1] # "position" => m[i][2] \in Ids
          /\ m[i][1] \in {"execution", "commission", "filled"} => Executed(m[i][2])'
          /\ m[i][1] \in {"cancelled", "refused"} => Cancelled(m[i][2])'
          /\ m[i][1] = "gone" => Executed(m[i][2])' \/ Cancelled(m[i][2])'

\* What a step that sends m does to the orders.
Answering(m) ==
    /\ wire' = wire \o m
    /\ \A id \in Ids : Followed(id)' => Same(id) \/ Fresh(id) \/ Paid(id)
    /\ \A id \in Ids : Reported(id) => Reported(id)'
    /\ Tells(m)

LEMMA SaidMore ==
    ASSUME wire \in Seq(Messages), NEW m \in Seq(Messages), wire' = wire \o m
    PROVE  /\ \A x : Says(x) => Says(x)'
           /\ \A i \in 1..Len(m) : Says(m[i])'
<1>1. /\ Len(wire') = Len(wire) + Len(m) /\ Len(wire) \in Nat /\ Len(m) \in Nat
      /\ \A i \in 1..Len(wire) : wire'[i] = wire[i]
      /\ \A i \in 1..Len(m) : wire'[Len(wire) + i] = m[i]
  BY Joining
<1>2. ASSUME NEW x, Says(x) PROVE Says(x)'
  <2>1. PICK i \in 1..Len(wire) : wire[i] = x
    BY <1>2 DEF Says
  <2>2. i \in 1..Len(wire') /\ wire'[i] = x
    BY <1>1, <2>1
  <2> QED BY <2>2 DEF Says
<1>3. ASSUME NEW i \in 1..Len(m) PROVE Says(m[i])'
  <2>1. Len(wire) + i \in 1..Len(wire') /\ wire'[Len(wire) + i] = m[i]
    BY <1>1
  <2> QED BY <2>1 DEF Says
<1> QED BY <1>2, <1>3

LEMMA DueMore ==
    ASSUME wire \in Seq(Messages), NEW m \in Seq(Messages), wire' = wire \o m,
           NEW id, Due(id), orders'[id].exec = orders[id].exec
    PROVE  Due(id)'
<1>1. /\ Len(wire') = Len(wire) + Len(m) /\ Len(wire) \in Nat /\ Len(m) \in Nat
      /\ \A i \in 1..Len(wire) : wire'[i] = wire[i]
  BY Joining
<1>2. PICK j \in 1..Len(wire) :
        /\ wire[j] = <<"commission", id>>
        /\ orders[id].exec \/ \E k \in 1..(j - 1) : wire[k] = <<"execution", id>>
        /\ \A i \in 1..(j - 1) : wire[i] # <<"commission", id>>
  BY DEF Due
<1>3. /\ j \in 1..Len(wire') /\ wire'[j] = <<"commission", id>>
      /\ \A i \in 1..(j - 1) : wire'[i] = wire[i]
  BY <1>1, <1>2
<1>4. /\ orders'[id].exec \/ \E k \in 1..(j - 1) : wire'[k] = <<"execution", id>>
      /\ \A i \in 1..(j - 1) : wire'[i] # <<"commission", id>>
  BY <1>2, <1>3
<1> QED BY <1>3, <1>4 DEF Due

LEMMA DueNew ==
    ASSUME wire \in Seq(Messages), NEW m \in Seq(Messages), wire' = wire \o m,
           NEW id, DueIn(m, id),
           \A i \in 1..Len(wire) : wire[i] # <<"commission", id>>
    PROVE  Due(id)'
<1>1. /\ Len(wire') = Len(wire) + Len(m) /\ Len(wire) \in Nat /\ Len(m) \in Nat
      /\ \A i \in 1..Len(wire) : wire'[i] = wire[i]
      /\ \A i \in 1..Len(m) : wire'[Len(wire) + i] = m[i]
      /\ \A i \in 1..Len(wire') :
           i \in 1..Len(wire) \/ (i - Len(wire) \in 1..Len(m) /\ wire'[i] = m[i - Len(wire)])
  BY Joining
<1>2. PICK j \in 1..Len(m), k \in 1..Len(m) :
        /\ k < j /\ m[k] = <<"execution", id>> /\ m[j] = <<"commission", id>>
        /\ \A i \in 1..(j - 1) : m[i] # <<"commission", id>>
  BY DEF DueIn
<1> DEFINE at == Len(wire) + j
<1>3. at \in 1..Len(wire') /\ wire'[at] = <<"commission", id>>
  BY <1>1, <1>2
<1>4. Len(wire) + k \in 1..(at - 1) /\ wire'[Len(wire) + k] = <<"execution", id>>
  BY <1>1, <1>2
<1>5. ASSUME NEW i \in 1..(at - 1) PROVE wire'[i] # <<"commission", id>>
  <2>1. CASE i \in 1..Len(wire)
    BY <1>1, <2>1
  <2>2. CASE i \notin 1..Len(wire)
    <3>1. i - Len(wire) \in 1..(j - 1) /\ wire'[i] = m[i - Len(wire)]
      BY <1>1, <1>2, <2>2
    <3> QED BY <1>2, <3>1
  <2> QED BY <2>1, <2>2
<1> HIDE DEF at
<1> QED BY <1>3, <1>4, <1>5 DEF Due

LEMMA AnsweringSound ==
    ASSUME Always, Sound, Followers', Planned', NEW m \in Seq(Messages), Answering(m)
    PROVE  Sound'
<1>0. TypeOK /\ Heard /\ Followers /\ Truthful /\ Noted /\ Owed /\ wire \in Seq(Messages)
  BY DEF Always, Sound, TypeOK, Messages
<1>1. /\ wire' = wire \o m
      /\ \A id \in Ids : Followed(id)' => Same(id) \/ Fresh(id) \/ Paid(id)
      /\ \A id \in Ids : Executed(id) => Executed(id)'
      /\ \A id \in Ids : Cancelled(id) => Cancelled(id)'
      /\ \A id \in Ids : Reported(id) => Reported(id)'
  BY DEF Answering, Tells
<1>2. \A i \in 1..Len(wire) : wire[i][1] # "position" => wire[i][2] \in Ids
  <2>1. nextID \in 1..(MaxOrders + 1) /\ MaxOrders \in Nat
    BY <1>0, IBAssumption DEF TypeOK
  <2>2. \A i \in 1..Len(wire) : wire[i][1] # "position" => wire[i][2] \in 1..(nextID - 1)
    BY <1>0 DEF Heard
  <2> QED BY <2>1, <2>2 DEF Ids
<1>3. \A id : ~(Executed(id) /\ Cancelled(id)) /\ ~(Executed(id)' /\ Cancelled(id)')
  BY DEF Executed, Cancelled
<1>4. Truthful'
  <2>1. /\ \A i \in 1..Len(wire) : wire'[i] = wire[i]
        /\ \A i \in 1..Len(wire') :
             i \in 1..Len(wire) \/ (i - Len(wire) \in 1..Len(m) /\ wire'[i] = m[i - Len(wire)])
    BY <1>0, <1>1, Joining
  <2>2. ASSUME NEW i \in 1..Len(wire'), NEW x, wire'[i] = x
        PROVE  /\ x[1] \in {"execution", "commission", "filled"} => Executed(x[2])'
               /\ x[1] \in {"cancelled", "refused"} => Cancelled(x[2])'
               /\ x[1] = "gone" => Executed(x[2])' \/ Cancelled(x[2])'
    <3>1. CASE i \in 1..Len(wire)
      <4>1. wire[i] = x /\ (x[1] # "position" => x[2] \in Ids)
        BY <1>2, <2>1, <2>2, <3>1
      <4>2. /\ x[1] \in {"execution", "commission", "filled"} => Executed(x[2])
            /\ x[1] \in {"cancelled", "refused"} => Cancelled(x[2])
            /\ x[1] = "gone" => Executed(x[2]) \/ Cancelled(x[2])
        BY <1>0, <3>1, <4>1 DEF Truthful
      <4>3. x[2] \in Ids => (Executed(x[2]) => Executed(x[2])')
                             /\ (Cancelled(x[2]) => Cancelled(x[2])')
        BY <1>1
      <4> QED BY <4>1, <4>2, <4>3
    <3>2. CASE i \notin 1..Len(wire)
      <4>1. i - Len(wire) \in 1..Len(m) /\ x = m[i - Len(wire)]
        BY <2>1, <2>2, <3>2
      <4>2. PICK k \in 1..Len(m) : x = m[k]
        BY <4>1
      <4>3. /\ m[k][1] \in {"execution", "commission", "filled"} => Executed(m[k][2])'
            /\ m[k][1] \in {"cancelled", "refused"} => Cancelled(m[k][2])'
            /\ m[k][1] = "gone" => Executed(m[k][2])' \/ Cancelled(m[k][2])'
        BY <4>2 DEF Answering, Tells
      <4> QED BY <4>2, <4>3
    <3> QED BY <3>1, <3>2
  <2>3. (\A i \in 1..Len(wire) : \A x : wire[i] = x =>
            /\ x[1] \in {"execution", "commission", "filled"} => Executed(x[2])
            /\ x[1] \in {"cancelled", "refused"} => Cancelled(x[2])
            /\ x[1] = "gone" => Executed(x[2]) \/ Cancelled(x[2]))'
    BY <2>2
  <2> QED BY <2>3 DEF Truthful
<1>5. ASSUME NEW id \in Ids, Followed(id)'
      PROVE  /\ orders'[id].exec \/ orders'[id].status \/ orders'[id].end = "filled" => Executed(id)'
             /\ Ended(id)' => Executed(id)' \/ Cancelled(id)'
             /\ orders'[id].end = "filled" => Reported(id)'
  <2>1. CASE Same(id)
    <3>1. (Ended(id)' <=> Ended(id)) /\ Followed(id)
      BY <2>1 DEF Same, Ended
    <3>2. /\ orders[id].exec \/ orders[id].status \/ orders[id].end = "filled" => Executed(id)
          /\ Ended(id) => Executed(id) \/ Cancelled(id)
          /\ orders[id].end = "filled" => Reported(id)
      BY <1>0, <3>1 DEF Noted
    <3> QED BY <1>1, <2>1, <3>1, <3>2 DEF Same
  <2>2. CASE Fresh(id)
    BY <2>2 DEF Fresh, Ended
  <2>3. CASE Paid(id)
    <3>1. Executed(id)
      BY <1>0, <2>3 DEF Noted, Paid
    <3> QED BY <1>1, <2>3, <3>1 DEF Paid
  <2> QED BY <1>1, <1>5, <2>1, <2>2, <2>3
<1>6. ASSUME NEW id \in Ids, Followed(id)'
      PROVE  Answered(id)'
  <2>1. CASE Same(id)
    <3>1. /\ (Ended(id)' <=> Ended(id)) /\ Followed(id) /\ Answered(id)
          /\ orders'[id].exec = orders[id].exec /\ orders'[id].status = orders[id].status
          /\ orders'[id].end = orders[id].end
          /\ <<"settle", id>> \in timers => <<"settle", id>> \in timers'
      BY <1>0, <2>1 DEF Same, Ended, Owed
    <3>2. /\ Executed(id) => Executed(id)'
          /\ Cancelled(id) => Cancelled(id)'
          /\ ~(Executed(id) /\ Cancelled(id)) /\ ~(Executed(id)' /\ Cancelled(id)')
      BY <1>1, <1>3
    <3>3. CASE Ended(id)
      <4>1. Executed(id) \/ Cancelled(id)
        BY <1>0, <3>1, <3>3 DEF Noted
      <4>2. Executed(id) /\ ~Terse => orders[id].end = "filled"
        BY <3>1, <3>3 DEF Answered
      <4> QED BY <3>1, <3>2, <3>3, <4>1, <4>2 DEF Answered
    <3>4. CASE ~Ended(id)
      <4>1. /\ Executed(id) => \/ orders[id].exec \/ orders[id].status
                            \/ Says(<<"execution", id>>) \/ Says(<<"filled", id>>)
            /\ orders[id].exec \/ orders[id].status => <<"settle", id>> \in timers
            /\ Cancelled(id) => Says(<<"cancelled", id>>) \/ Says(<<"refused", id>>)
            /\ ~Terse /\ Executed(id) => Due(id)
        BY <3>1, <3>4 DEF Answered
      <4>2. (\A x : Says(x) => Says(x)') /\ (\A i \in 1..Len(m) : Says(m[i])')
        BY <1>0, <1>1, SaidMore
      <4>3. Executed(id)' => \/ orders'[id].exec \/ orders'[id].status
                             \/ Says(<<"execution", id>>)' \/ Says(<<"filled", id>>)'
        <5>1. CASE Executed(id)
          BY <3>1, <4>1, <4>2, <5>1
        <5>2. CASE Executed(id)' /\ ~Executed(id)
          <6>1. PICK i \in 1..Len(m) : m[i] \in {<<"execution", id>>, <<"filled", id>>}
            BY <5>2 DEF Answering, Tells
          <6> QED BY <4>2, <6>1
        <5> QED BY <5>1, <5>2
      <4>4. Cancelled(id)' => Says(<<"cancelled", id>>)' \/ Says(<<"refused", id>>)'
        <5>1. CASE Cancelled(id)
          BY <3>1, <4>1, <4>2, <5>1
        <5>2. CASE Cancelled(id)' /\ ~Cancelled(id)
          <6>1. PICK i \in 1..Len(m) : m[i] \in {<<"cancelled", id>>, <<"refused", id>>}
            BY <5>2 DEF Answering, Tells
          <6> QED BY <4>2, <6>1
        <5> QED BY <5>1, <5>2
      <4>5. ~Terse /\ Executed(id)' => Due(id)'
        <5>1. CASE Executed(id)
          BY <1>0, <1>1, <3>1, <4>1, <5>1, DueMore
        <5>2. CASE Executed(id)' /\ ~Executed(id) /\ ~Terse
          <6>1. DueIn(m, id)
            BY <5>2 DEF Answering, Tells
          <6>2. ~Cancelled(id)
            BY <3>2, <5>2
          <6>3. \A i \in 1..Len(wire) : wire[i] # <<"commission", id>>
            BY <1>0, <5>2, <6>2 DEF Truthful
          <6> QED BY <1>0, <1>1, <6>1, <6>3, DueNew
        <5> QED BY <5>1, <5>2
      <4> QED BY <3>1, <3>4, <4>1, <4>3, <4>4, <4>5 DEF Answered
    <3> QED BY <3>3, <3>4
  <2>2. CASE Fresh(id)
    BY <2>2 DEF Fresh, Ended, Answered
  <2>3. CASE Paid(id)
    BY <1>6, <2>3 DEF Paid, Answered, Ended
  <2> QED BY <1>1, <1>6, <2>1, <2>2, <2>3
<1>7. Noted'
  BY <1>5 DEF Noted
<1>8. Owed'
  BY <1>6 DEF Owed
<1> QED BY <1>4, <1>7, <1>8 DEF Sound

-----------------------------------------------------------------------------
(* What TWS says when an order executes, ends or is cancelled *)

Has(m, x) == \E i \in 1..Len(m) : m[i] = x

Honest(done, dead) ==
    {x \in Messages : \/ x[1] = "position"
                      \/ x[1] \in {"execution", "commission", "filled"} /\ x[2] \in done
                      \/ x[1] \in {"cancelled", "refused"} /\ x[2] \in dead
                      \/ x[1] = "gone" /\ x[2] \in done \cup dead}

LEMMA JoinedHas ==
    ASSUME NEW m \in Seq(Messages), NEW n \in Seq(Messages), NEW x, Has(m, x) \/ Has(n, x)
    PROVE  Has(m \o n, x)
<1>1. /\ Len(m \o n) = Len(m) + Len(n) /\ Len(m) \in Nat /\ Len(n) \in Nat
      /\ \A i \in 1..Len(m) : (m \o n)[i] = m[i]
      /\ \A i \in 1..Len(n) : (m \o n)[Len(m) + i] = n[i]
  BY Joining
<1>2. CASE Has(m, x)
  <2>1. PICK i \in 1..Len(m) : m[i] = x
    BY <1>2 DEF Has
  <2>2. i \in 1..Len(m \o n) /\ (m \o n)[i] = x
    BY <1>1, <2>1
  <2> QED BY <2>2 DEF Has
<1>3. CASE Has(n, x)
  <2>1. PICK i \in 1..Len(n) : n[i] = x
    BY <1>3 DEF Has
  <2>2. Len(m) + i \in 1..Len(m \o n) /\ (m \o n)[Len(m) + i] = x
    BY <1>1, <2>1
  <2> QED BY <2>2 DEF Has
<1> QED BY <1>2, <1>3

LEMMA JoinedDue ==
    ASSUME NEW m \in Seq(Messages), NEW n \in Seq(Messages), NEW id,
           \/ DueIn(m, id)
           \/ DueIn(n, id) /\ ~Has(m, <<"commission", id>>)
    PROVE  DueIn(m \o n, id)
<1>1. /\ Len(m \o n) = Len(m) + Len(n) /\ Len(m) \in Nat /\ Len(n) \in Nat
      /\ \A i \in 1..Len(m) : (m \o n)[i] = m[i]
      /\ \A i \in 1..Len(n) : (m \o n)[Len(m) + i] = n[i]
      /\ \A i \in 1..Len(m \o n) :
           i \in 1..Len(m) \/ (i - Len(m) \in 1..Len(n) /\ (m \o n)[i] = n[i - Len(m)])
  BY Joining
<1>2. CASE DueIn(m, id)
  <2>1. PICK j \in 1..Len(m), k \in 1..Len(m) :
          /\ k < j /\ m[k] = <<"execution", id>> /\ m[j] = <<"commission", id>>
          /\ \A i \in 1..(j - 1) : m[i] # <<"commission", id>>
    BY <1>2 DEF DueIn
  <2>2. /\ j \in 1..Len(m \o n) /\ k \in 1..Len(m \o n)
        /\ (m \o n)[j] = m[j] /\ (m \o n)[k] = m[k]
        /\ \A i \in 1..(j - 1) : (m \o n)[i] = m[i]
    BY <1>1, <2>1
  <2>3. \A i \in 1..(j - 1) : (m \o n)[i] # <<"commission", id>>
    BY <2>1, <2>2
  <2> QED BY <2>1, <2>2, <2>3 DEF DueIn
<1>3. CASE DueIn(n, id) /\ ~Has(m, <<"commission", id>>)
  <2>1. PICK j \in 1..Len(n), k \in 1..Len(n) :
          /\ k < j /\ n[k] = <<"execution", id>> /\ n[j] = <<"commission", id>>
          /\ \A i \in 1..(j - 1) : n[i] # <<"commission", id>>
    BY <1>3 DEF DueIn
  <2> DEFINE at == Len(m) + j
             before == Len(m) + k
  <2>2. /\ at \in 1..Len(m \o n) /\ before \in 1..Len(m \o n) /\ before < at
        /\ (m \o n)[at] = <<"commission", id>> /\ (m \o n)[before] = <<"execution", id>>
    BY <1>1, <2>1
  <2>3. ASSUME NEW i \in 1..(at - 1)
        PROVE  (m \o n)[i] # <<"commission", id>>
    <3>1. CASE i \in 1..Len(m)
      BY <1>1, <1>3, <3>1 DEF Has
    <3>2. CASE i \notin 1..Len(m)
      <4>1. i - Len(m) \in 1..(j - 1) /\ (m \o n)[i] = n[i - Len(m)]
        BY <1>1, <2>1, <2>2, <3>2
      <4> QED BY <2>1, <4>1
    <3> QED BY <3>1, <3>2
  <2> HIDE DEF at, before
  <2> QED BY <2>2, <2>3 DEF DueIn
<1> QED BY <1>2, <1>3

\* One message of each order.
LEMMA EachHas ==
    ASSUME NEW kind \in Kinds, NEW ids \in SUBSET Ids, NEW m \in OfEach(kind, ids)
    PROVE  /\ m \in Seq(Messages)
           /\ \A i \in 1..Len(m) : \E id \in ids : m[i] = <<kind, id>>
           /\ \A id \in ids : Has(m, <<kind, id>>)
<1>1. m \in Seq(Messages) /\ \A i \in 1..Len(m) : \E id \in ids : m[i] = <<kind, id>>
  BY AboutEach
<1>2. m \in [1..Cardinality(ids) -> {kind} \X ids] /\ Cardinality(ids) \in Nat
  <2>1. IsFiniteSet(Ids)
    BY FS_Interval, IBAssumption DEF Ids
  <2>2. IsFiniteSet(ids)
    BY <2>1, FS_Subset
  <2> QED BY <2>2, FS_CardinalityType DEF OfEach
<1>3. Len(m) = Cardinality(ids)
  BY <1>2
<1>4. \A id \in ids : \E i \in 1..Cardinality(ids) : m[i] = <<kind, id>>
  BY DEF OfEach
<1> QED BY <1>1, <1>3, <1>4 DEF Has

\* The orders of TWS keep what they are; one that executed or ended stays so.
Moved(id) ==
    Lives(id) /\ \E x \in Alive \cup {"filled", "cancelled"} :
                    book'[id] = [book[id] EXCEPT !.state = x]

LEMMA BookMoves ==
    ASSUME TypeOK, Heard, NEW id \in Ids, book'[id] = book[id] \/ Moved(id)
    PROVE  /\ Knows(id)' <=> Knows(id)
           /\ Knows(id) => /\ book'[id].role = book[id].role /\ book'[id].side = book[id].side
                           /\ book'[id].qty = book[id].qty
           /\ Executed(id) => Executed(id)'
           /\ Cancelled(id) => Cancelled(id)'
<1>1. CASE book'[id] = book[id]
  BY <1>1 DEF Knows, Executed, Cancelled
<1>2. CASE Moved(id)
  <2>1. PICK x \in Alive \cup {"filled", "cancelled"} : book'[id] = [book[id] EXCEPT !.state = x]
    BY <1>2 DEF Moved
  <2>2. Knows(id) /\ book[id].state \in Alive
    BY <1>2 DEF Moved, Lives
  <2>3. book'[id] \in Books /\ book[id] \in Books
    BY <2>1, <2>2, StateMoves, KnownIsSent
  <2>4. Knows(id)'
    BY <2>3, IBAssumption DEF Knows
  <2>5. ~Executed(id) /\ ~Cancelled(id)
    BY <2>2 DEF Executed, Cancelled, Alive, Waiting
  <2> QED BY <2>1, <2>2, <2>3, <2>4, <2>5 DEF Books
<1> QED BY <1>1, <1>2

\* A step of the caller that is about no bracket.
Asking == UNCHANGED <<up, nextID, orders, timers, queue, told>> /\ ~Bracketing /\ ~Bracketing'

LEMMA TellingSound ==
    ASSUME Always, Sound, Quietly \/ Asking, \A id \in Ids : book'[id] = book[id] \/ Moved(id),
           NEW done \in SUBSET Ids, NEW dead \in SUBSET Ids,
           \A id \in done : Executed(id)', \A id \in dead : Cancelled(id)',
           NEW m \in Seq(Messages), Said(m, Honest(done, dead)), Sends(m),
           \A id \in Ids : Executed(id)' /\ ~Executed(id) =>
              /\ Has(m, <<"execution", id>>) \/ Has(m, <<"filled", id>>)
              /\ ~Terse => DueIn(m, id),
           \A id \in Ids : Cancelled(id)' /\ ~Cancelled(id) =>
              Has(m, <<"cancelled", id>>) \/ Has(m, <<"refused", id>>)
    PROVE  Sound'
<1>0. TypeOK /\ Heard /\ Followers
  BY DEF Always, Sound
<1>1. /\ wire' = wire \o m
      /\ UNCHANGED <<up, nextID, orders, timers, queue, told>>
      /\ call' = call \/ (~Bracketing /\ ~Bracketing')
  BY <1>0 DEF Sends, Followers, Quietly, Asking, followVars, callVars
<1>2. \A id \in Ids :
        /\ Knows(id)' <=> Knows(id)
        /\ Knows(id) => /\ book'[id].role = book[id].role /\ book'[id].side = book[id].side
                        /\ book'[id].qty = book[id].qty
        /\ Executed(id) => Executed(id)'
        /\ Cancelled(id) => Cancelled(id)'
  BY <1>0, BookMoves
<1>3. Followers'
  BY <1>0, <1>1, <1>2 DEF Followers, Followed, Ahead, Bracketing
<1>4. Tells(m)
  <2>1. ASSUME NEW i \in 1..Len(m)
        PROVE  /\ m[i][1] # "position" => m[i][2] \in Ids
               /\ m[i][1] \in {"execution", "commission", "filled"} => Executed(m[i][2])'
               /\ m[i][1] \in {"cancelled", "refused"} => Cancelled(m[i][2])'
               /\ m[i][1] = "gone" => Executed(m[i][2])' \/ Cancelled(m[i][2])'
    <3>1. /\ m[i][1] # "position" => m[i][2] \in done \cup dead
          /\ m[i][1] \in {"execution", "commission", "filled"} => m[i][2] \in done
          /\ m[i][1] \in {"cancelled", "refused"} => m[i][2] \in dead
      BY DEF Said, Honest
    <3>2. /\ m[i][2] \in done => Executed(m[i][2])'
          /\ m[i][2] \in dead => Cancelled(m[i][2])'
      OBVIOUS
    <3> QED BY <3>1, <3>2
  <2> QED BY <1>2, <2>1 DEF Tells, Has
<1>5. \A id \in Ids : Followed(id)' => Same(id)
  BY <1>1 DEF Same, Followed
<1>6. \A id \in Ids : Reported(id) => Reported(id)'
  BY <1>1 DEF Reported, Waits
<1>7. Answering(m)
  BY <1>1, <1>4, <1>5, <1>6 DEF Answering
<1>8. Planned'
  BY <1>1, PlannedStays DEF Sound
<1> QED BY <1>3, <1>7, <1>8, AnsweringSound

LEMMA NewsTold ==
    ASSUME NEW id \in Ids, NEW news \in News(id), NEW dead
    PROVE  /\ news \in Seq(Messages) /\ Said(news, Honest({id}, dead))
           /\ Has(news, <<"execution", id>>) \/ Has(news, <<"filled", id>>)
           /\ ~Terse => DueIn(news, id)
<1>1. /\ <<"execution", id>> \in Honest({id}, dead) /\ <<"commission", id>> \in Honest({id}, dead)
      /\ <<"filled", id>> \in Honest({id}, dead)
  BY DEF Honest, Messages, Kinds, Ids
<1>2. Honest({id}, dead) \subseteq Messages
  BY DEF Honest
<1>3. CASE news = << <<"execution", id>>, <<"commission", id>> >>
  <2>1. news \in Seq(Honest({id}, dead)) /\ Len(news) = 2
        /\ news[1] = <<"execution", id>> /\ news[2] = <<"commission", id>>
    BY <1>1, <1>3
  <2>2. DueIn(news, id) /\ Has(news, <<"execution", id>>)
    <3>1. 1 \in 1..Len(news) /\ 2 \in 1..Len(news) /\ 1 < 2
      BY <2>1
    <3>2. \A i \in 1..(2 - 1) : news[i] # <<"commission", id>>
      BY <2>1
    <3> QED BY <2>1, <3>1, <3>2 DEF DueIn, Has
  <2>3. ASSUME NEW S \in SUBSET Messages, news \in Seq(S)
        PROVE  news \in Seq(Messages) /\ Said(news, S)
    BY <2>3 DEF Said
  <2> QED BY <1>2, <2>1, <2>2, <2>3
<1>4. CASE Terse /\ news = << <<"execution", id>>, <<"execution", id>>, <<"commission", id>> >>
  <2>1. news \in Seq(Honest({id}, dead)) /\ Len(news) = 3 /\ news[1] = <<"execution", id>>
    BY <1>1, <1>4
  <2> QED BY <1>2, <1>4, <2>1 DEF Said, Has
<1>5. CASE Terse /\ news = << <<"execution", id>> >>
  <2>1. news \in Seq(Honest({id}, dead)) /\ Len(news) = 1 /\ news[1] = <<"execution", id>>
    BY <1>1, <1>5
  <2> QED BY <1>2, <1>5, <2>1 DEF Said, Has
<1>6. CASE Terse /\ news = << <<"filled", id>> >>
  <2>1. news \in Seq(Honest({id}, dead)) /\ Len(news) = 1 /\ news[1] = <<"filled", id>>
    BY <1>1, <1>6
  <2> QED BY <1>2, <1>6, <2>1 DEF Said, Has
<1> QED BY <1>3, <1>4, <1>5, <1>6 DEF News

LEMMA CancelledTold ==
    ASSUME NEW dead \in SUBSET Ids, NEW done, NEW ids \in SUBSET dead,
           NEW m \in OfEach("cancelled", ids)
    PROVE  /\ m \in Seq(Messages) /\ Said(m, Honest(done, dead))
           /\ \A id \in ids : Has(m, <<"cancelled", id>>)
           /\ \A id : ~Has(m, <<"commission", id>>)
<1>1. "cancelled" \in Kinds /\ ids \in SUBSET Ids
  BY DEF Kinds
<1>2. /\ m \in Seq(Messages)
      /\ \A i \in 1..Len(m) : \E id \in ids : m[i] = <<"cancelled", id>>
      /\ \A id \in ids : Has(m, <<"cancelled", id>>)
  BY <1>1, EachHas
<1>3. \A id \in ids : <<"cancelled", id>> \in Honest(done, dead)
  BY <1>1 DEF Honest, Messages, Ids
<1>4. Said(m, Honest(done, dead))
  BY <1>2, <1>3 DEF Said
<1>5. \A id : ~Has(m, <<"commission", id>>)
  BY <1>2 DEF Has
<1> QED BY <1>2, <1>4, <1>5

LEMMA PositionTold ==
    ASSUME NEW n \in Int, NEW done, NEW dead
    PROVE  /\ << <<"position", n>> >> \in Seq(Messages)
           /\ Said(<< <<"position", n>> >>, Honest(done, dead))
           /\ \A id : ~Has(<< <<"position", n>> >>, <<"commission", id>>)
           /\ <<>> \in Seq(Messages) /\ Said(<<>>, Honest(done, dead))
           /\ \A x : ~Has(<<>>, x)
<1>1. <<"position", n>> \in Messages
  BY DEF Messages, Kinds
<1> QED BY <1>1 DEF Honest, Said, Has

LEMMA ExecuteSound ==
    ASSUME Always, Sound, NEW id \in Ids, Execute(id)
    PROVE  Sound'
<1>0. TypeOK /\ Heard
  BY DEF Always
<1> DEFINE o == book[id]
           filled == net + o.side * o.qty
           position == IF LatePositions THEN <<>> ELSE << <<"position", filled>> >>
           done == {id}
           dead == Twins(id)
<1>1. Knows(id) /\ o \in Books /\ Lives(id)
  BY <1>0, KnownIsSent DEF Execute, Lives
<1>2. filled \in Int
  <2>1. net \in Int /\ o.side \in {1, -1} /\ o.qty \in Nat
    BY <1>0, <1>1 DEF TypeOK, Books
  <2>2. o.side * o.qty \in Int
    BY <2>1
  <2> QED BY <2>1, <2>2
<1>3. done \in SUBSET Ids /\ dead \in SUBSET Ids
  BY DEF Twins
<1>4. /\ position \in Seq(Messages) /\ Said(position, Honest(done, dead))
      /\ ~Has(position, <<"commission", id>>)
  BY <1>2, PositionTold
<1>5. /\ \A other \in Ids : book'[other] = book[other] \/ Moved(other)
      /\ Executed(id)' /\ (\A t \in dead : Cancelled(t)')
      /\ \A other \in Ids : Executed(other)' => Executed(other) \/ other = id
      /\ \A other \in Ids : Cancelled(other)' => Cancelled(other) \/ other \in dead
  <2>1. book' = [other \in Ids |->
         CASE other = id          -> [o EXCEPT !.state = "filled"]
           [] other \in Twins(id) -> [book[other] EXCEPT !.state = "cancelled"]
           [] /\ o.role = "entry" /\ other \in {LimitOf(id), StopOf(id)}
              /\ Knows(other) /\ book[other].state \in Waiting
                                  -> [book[other] EXCEPT !.state =
                                        IF @ = "attached" THEN "working" ELSE "cancelling"]
           [] OTHER               -> book[other]]
    BY DEF Execute
  <2>2. \A other \in Twins(id) : Lives(other) /\ other # id
            /\ {book[id].role, book[other].role} = Barriers
    BY <1>1 DEF Twins, Abs, Ids
  <2>3. ASSUME NEW other \in Ids
        PROVE  /\ book'[other] = book[other] \/ Moved(other)
               /\ Executed(other)' => Executed(other) \/ other = id
               /\ Cancelled(other)' => Cancelled(other) \/ other \in dead
               /\ other = id => Executed(other)'
               /\ other \in dead => Cancelled(other)'
    <3>1. CASE other = id
      <4>1. book'[other] = [book[other] EXCEPT !.state = "filled"]
        BY <2>1, <2>2, <3>1 DEF LimitOf, StopOf, Ids
      <4>2. [book[other] EXCEPT !.state = "filled"] \in Books /\ book'[other].state = "filled"
        BY <1>0, <1>1, <3>1, <4>1, StateMoves DEF Books
      <4>3. Knows(other)'
        BY <4>1, <4>2, IBAssumption DEF Knows
      <4> QED BY <1>1, <2>2, <3>1, <4>1, <4>2, <4>3 DEF Moved, Executed, Cancelled
    <3>2. CASE other \in Twins(id)
      <4>1. o.role # "entry" /\ other # id /\ Lives(other) /\ Knows(other)
        BY <2>2, <3>2 DEF Barriers, Lives
      <4>2. book'[other] = [book[other] EXCEPT !.state = "cancelled"]
        BY <2>1, <3>2, <4>1
      <4>3. [book[other] EXCEPT !.state = "cancelled"] \in Books /\ book'[other].state = "cancelled"
        BY <1>0, <4>1, <4>2, StateMoves DEF Books
      <4>4. Knows(other)'
        BY <4>2, <4>3, IBAssumption DEF Knows
      <4> QED BY <3>2, <4>1, <4>2, <4>3, <4>4 DEF Moved, Executed, Cancelled
    <3>3. CASE /\ other # id /\ other \notin Twins(id)
               /\ o.role = "entry" /\ other \in {LimitOf(id), StopOf(id)}
               /\ Knows(other) /\ book[other].state \in Waiting
      <4>1. PICK x \in {"working", "cancelling"} : book'[other] = [book[other] EXCEPT !.state = x]
        BY <2>1, <3>3
      <4>2. Lives(other)
        BY <3>3 DEF Lives, Alive
      <4>3. [book[other] EXCEPT !.state = x] \in Books /\ book'[other].state = x
        BY <1>0, <3>3, <4>1, StateMoves DEF Alive, Books
      <4> QED BY <3>3, <4>1, <4>2, <4>3 DEF Moved, Alive, Executed, Cancelled
    <3>4. CASE /\ other # id /\ other \notin Twins(id)
               /\ ~(/\ o.role = "entry" /\ other \in {LimitOf(id), StopOf(id)}
                    /\ Knows(other) /\ book[other].state \in Waiting)
      <4>1. book'[other] = book[other]
        BY <2>1, <3>4
      <4> QED BY <3>4, <4>1 DEF Executed, Cancelled, Knows
    <3> QED BY <3>1, <3>2, <3>3, <3>4
  <2> QED BY <1>3, <2>3
<1>6. /\ Quietly
      /\ \E news \in News(id), twins \in OfEach("cancelled", Twins(id)) :
           Sends(position \o news \o twins) \/ Sends(position \o twins \o news)
  BY DEF Execute, Quietly, ghostVars
<1> PICK news \in News(id), twins \in OfEach("cancelled", dead) :
           Sends(position \o news \o twins) \/ Sends(position \o twins \o news)
  BY <1>6
<1> HIDE DEF o, filled, position, done, dead
<1>7. /\ news \in Seq(Messages) /\ Said(news, Honest(done, dead))
      /\ Has(news, <<"execution", id>>) \/ Has(news, <<"filled", id>>)
      /\ ~Terse => DueIn(news, id)
  BY NewsTold DEF done
<1>8. /\ twins \in Seq(Messages) /\ Said(twins, Honest(done, dead))
      /\ \A t \in dead : Has(twins, <<"cancelled", t>>)
      /\ ~Has(twins, <<"commission", id>>)
  BY <1>3, CancelledTold
<1>9. \E m \in Seq(Messages) :
        /\ Said(m, Honest(done, dead)) /\ Sends(m)
        /\ Has(m, <<"execution", id>>) \/ Has(m, <<"filled", id>>)
        /\ ~Terse => DueIn(m, id)
        /\ \A t \in dead : Has(m, <<"cancelled", t>>)
  <2>1. CASE Sends(position \o news \o twins)
    <3> DEFINE first == position \o news
    <3>1. /\ first \in Seq(Messages) /\ Said(first, Honest(done, dead))
          /\ Has(first, <<"execution", id>>) \/ Has(first, <<"filled", id>>)
          /\ ~Terse => DueIn(first, id)
      BY <1>4, <1>7, SaidBoth, JoinedHas, JoinedDue
    <3>2. Sends(first \o twins)
      BY <2>1
    <3> HIDE DEF first
    <3>3. /\ first \o twins \in Seq(Messages) /\ Said(first \o twins, Honest(done, dead))
          /\ Has(first \o twins, <<"execution", id>>) \/ Has(first \o twins, <<"filled", id>>)
          /\ ~Terse => DueIn(first \o twins, id)
          /\ \A t \in dead : Has(first \o twins, <<"cancelled", t>>)
      BY <1>8, <3>1, SaidBoth, JoinedHas, JoinedDue
    <3> QED BY <3>2, <3>3
  <2>2. CASE Sends(position \o twins \o news)
    <3> DEFINE first == position \o twins
    <3>1. /\ first \in Seq(Messages) /\ Said(first, Honest(done, dead))
          /\ \A t \in dead : Has(first, <<"cancelled", t>>)
          /\ ~Has(first, <<"commission", id>>)
      <4>1. /\ first \in Seq(Messages) /\ Said(first, Honest(done, dead))
            /\ \A t \in dead : Has(first, <<"cancelled", t>>)
        BY <1>4, <1>8, SaidBoth, JoinedHas
      <4>2. \A i \in 1..Len(first) :
              (i \in 1..Len(position) /\ first[i] = position[i])
              \/ (i - Len(position) \in 1..Len(twins) /\ first[i] = twins[i - Len(position)])
        BY <1>4, <1>8, Joining
      <4> QED BY <1>4, <1>8, <4>1, <4>2 DEF Has
    <3>2. Sends(first \o news)
      BY <2>2
    <3> HIDE DEF first
    <3>3. /\ first \o news \in Seq(Messages) /\ Said(first \o news, Honest(done, dead))
          /\ Has(first \o news, <<"execution", id>>) \/ Has(first \o news, <<"filled", id>>)
          /\ ~Terse => DueIn(first \o news, id)
          /\ \A t \in dead : Has(first \o news, <<"cancelled", t>>)
      BY <1>7, <3>1, SaidBoth, JoinedHas, JoinedDue
    <3> QED BY <3>2, <3>3
  <2> QED BY <2>1, <2>2
<1>10. PICK m \in Seq(Messages) :
        /\ Said(m, Honest(done, dead)) /\ Sends(m)
        /\ Has(m, <<"execution", id>>) \/ Has(m, <<"filled", id>>)
        /\ ~Terse => DueIn(m, id)
        /\ \A t \in dead : Has(m, <<"cancelled", t>>)
  BY <1>9
<1>11. \A d \in done : Executed(d)'
  BY <1>5 DEF done
<1>12. \A other \in Ids : Executed(other)' /\ ~Executed(other) =>
          /\ Has(m, <<"execution", other>>) \/ Has(m, <<"filled", other>>)
          /\ ~Terse => DueIn(m, other)
  BY <1>5, <1>10
<1>13. \A other \in Ids : Cancelled(other)' /\ ~Cancelled(other) =>
          Has(m, <<"cancelled", other>>) \/ Has(m, <<"refused", other>>)
  BY <1>5, <1>10
<1> QED BY <1>3, <1>5, <1>6, <1>10, <1>11, <1>12, <1>13, TellingSound

LEMMA RejectSound ==
    ASSUME Always, Sound, NEW id \in Ids, Reject(id)
    PROVE  Sound'
<1>0. TypeOK /\ Heard
  BY DEF Always
<1> DEFINE with == {c \in {LimitOf(id), StopOf(id)} :
                      book[id].role = "entry" /\ c \in Ids /\ Lives(c)}
           dead == with \cup {id}
<1>1. dead \in SUBSET Ids /\ \A t \in dead : Lives(t) /\ Knows(t)
  BY DEF Reject, Lives
<1>2. book' = [other \in Ids |->
         IF other = id \/ other \in with
         THEN [book[other] EXCEPT !.state = "cancelled"] ELSE book[other]]
  BY DEF Reject
<1>3. /\ Quietly
      /\ \E gone \in OfEach("cancelled", with) : Sends(<< <<"refused", id>> >> \o gone)
  BY DEF Reject, Quietly, ghostVars
<1>4. \A t : t = id \/ t \in with <=> t \in dead
  OBVIOUS
<1>5. with \in SUBSET dead /\ id \in dead
  OBVIOUS
<1> HIDE DEF with, dead
<1>6. ASSUME NEW other \in Ids
      PROVE  /\ book'[other] = book[other] \/ Moved(other)
             /\ Executed(other)' => Executed(other)
             /\ Cancelled(other)' => Cancelled(other) \/ other \in dead
             /\ other \in dead => Cancelled(other)'
  <2>1. CASE other \in dead
    <3>1. book'[other] = [book[other] EXCEPT !.state = "cancelled"]
      BY <1>2, <1>4, <2>1
    <3>2. [book[other] EXCEPT !.state = "cancelled"] \in Books /\ book'[other].state = "cancelled"
      BY <1>0, <1>1, <2>1, <3>1, StateMoves DEF Books
    <3>3. Knows(other)'
      BY <3>1, <3>2, IBAssumption DEF Knows
    <3> QED BY <1>1, <2>1, <3>1, <3>2, <3>3 DEF Moved, Executed, Cancelled
  <2>2. CASE other \notin dead
    <3>1. book'[other] = book[other]
      BY <1>2, <1>4, <2>2
    <3> QED BY <2>2, <3>1 DEF Executed, Cancelled, Knows
  <2> QED BY <2>1, <2>2
<1> PICK gone \in OfEach("cancelled", with) : Sends(<< <<"refused", id>> >> \o gone)
  BY <1>3
<1>7. /\ gone \in Seq(Messages) /\ Said(gone, Honest({}, dead))
      /\ \A t \in with : Has(gone, <<"cancelled", t>>)
  BY <1>1, <1>5, CancelledTold
<1> DEFINE first == << <<"refused", id>> >>
<1>8. first \in Seq(Messages) /\ Said(first, Honest({}, dead)) /\ Has(first, <<"refused", id>>)
  <2>1. <<"refused", id>> \in Messages
    BY DEF Messages, Kinds, Ids
  <2>2. <<"refused", id>> \in Honest({}, dead)
    BY <1>5, <2>1 DEF Honest
  <2> QED BY <2>1, <2>2 DEF Said, Has
<1>9. Sends(first \o gone)
  OBVIOUS
<1> HIDE DEF first
<1>10. /\ first \o gone \in Seq(Messages) /\ Said(first \o gone, Honest({}, dead))
       /\ Has(first \o gone, <<"refused", id>>)
       /\ \A t \in with : Has(first \o gone, <<"cancelled", t>>)
  BY <1>7, <1>8, SaidBoth, JoinedHas
<1>11. /\ {} \in SUBSET Ids /\ \A t \in {} : Executed(t)'
       /\ \A other \in Ids : Cancelled(other)' /\ ~Cancelled(other) =>
            Has(first \o gone, <<"cancelled", other>>) \/ Has(first \o gone, <<"refused", other>>)
  BY <1>4, <1>6, <1>10
<1> QED BY <1>1, <1>3, <1>6, <1>9, <1>10, <1>11, TellingSound

LEMMA CancelledSound ==
    ASSUME Always, Sound, NEW id \in Ids, Lives(id),
           book' = [book EXCEPT ![id].state = "cancelled"],
           Sends(<< <<"cancelled", id>> >>), Quietly
    PROVE  Sound'
<1>0. TypeOK /\ Heard /\ Knows(id)
  BY DEF Always, Lives
<1> DEFINE m == << <<"cancelled", id>> >>
           dead == {id}
<1>1. m \in Seq(Messages) /\ Said(m, Honest({}, dead)) /\ Has(m, <<"cancelled", id>>)
  <2>1. <<"cancelled", id>> \in Messages
    BY DEF Messages, Kinds, Ids
  <2>2. <<"cancelled", id>> \in Honest({}, dead)
    BY <2>1 DEF Honest
  <2> QED BY <2>1, <2>2 DEF Said, Has
<1>2. ASSUME NEW other \in Ids
      PROVE  /\ book'[other] = book[other] \/ Moved(other)
             /\ Executed(other)' => Executed(other)
             /\ Cancelled(other)' => Cancelled(other) \/ other = id
             /\ other = id => Cancelled(other)'
  <2>1. CASE other = id
    <3>1. book'[other] = [book[other] EXCEPT !.state = "cancelled"]
      BY <1>0, <2>1 DEF TypeOK
    <3>2. [book[other] EXCEPT !.state = "cancelled"] \in Books /\ book'[other].state = "cancelled"
      BY <1>0, <2>1, <3>1, StateMoves DEF Books
    <3>3. Knows(other)'
      BY <3>1, <3>2, IBAssumption DEF Knows
    <3> QED BY <2>1, <3>1, <3>2, <3>3 DEF Moved, Executed, Cancelled
  <2>2. CASE other # id
    <3>1. book'[other] = book[other]
      BY <1>0, <2>2 DEF TypeOK
    <3> QED BY <2>2, <3>1 DEF Executed, Cancelled, Knows
  <2> QED BY <2>1, <2>2
<1>3. /\ {} \in SUBSET Ids /\ \A t \in {} : Executed(t)'
      /\ dead \in SUBSET Ids /\ \A t \in dead : Cancelled(t)'
      /\ Sends(m)
  BY <1>2
<1> HIDE DEF m, dead
<1> QED BY <1>1, <1>2, <1>3, TellingSound

LEMMA ConfirmCancelSound ==
    ASSUME Always, Sound, NEW id \in Ids, ConfirmCancel(id)
    PROVE  Sound'
<1>1. Lives(id)
  BY DEF ConfirmCancel, Lives, Alive, Waiting
<1> QED BY <1>1, CancelledSound DEF ConfirmCancel, Quietly, ghostVars

LEMMA LoseSound ==
    ASSUME Always, Sound, NEW id \in Ids, Lose(id)
    PROVE  Sound'
<1>1. Lives(id)
  BY DEF Lose, Lives, Alive
<1> QED BY <1>1, CancelledSound DEF Lose, Quietly

LEMMA SendPositionSound ==
    ASSUME Always, Sound, SendPosition
    PROVE  Sound'
<1> DEFINE m == << <<"position", net>> >>
<1>1. net \in Int
  BY DEF Always, TypeOK
<1>2. m \in Seq(Messages) /\ Said(m, Honest({}, {}))
  BY <1>1, PositionTold
<1>3. Quietly /\ Sends(m) /\ book' = book
  BY DEF SendPosition, Quietly, ghostVars
<1>4. \A id \in Ids : (Executed(id)' <=> Executed(id)) /\ (Cancelled(id)' <=> Cancelled(id))
  BY <1>3 DEF Executed, Cancelled, Knows
<1>5. {} \in SUBSET Ids /\ (\A t \in {} : Executed(t)') /\ (\A t \in {} : Cancelled(t)')
  OBVIOUS
<1> HIDE DEF m
<1> QED BY <1>2, <1>3, <1>4, <1>5, TellingSound

\* A step that says nothing and leaves TWS alone.
LEMMA QuietSound ==
    ASSUME Always, Sound, Followers', Planned', wire' = wire,
           \A id \in Ids : Followed(id)' => Same(id) \/ Fresh(id) \/ Paid(id),
           \A id \in Ids : Executed(id)' <=> Executed(id),
           \A id \in Ids : Cancelled(id)' <=> Cancelled(id),
           \A id \in Ids : Reported(id) => Reported(id)'
    PROVE  Sound'
<1>1. wire \in Seq(Messages)
  BY DEF Always, TypeOK, Messages
<1> DEFINE m == <<>>
<1>2. m \in Seq(Messages) /\ wire' = wire \o m /\ Len(m) = 0
  BY <1>1
<1> HIDE DEF m
<1>3. Tells(m)
  BY <1>2 DEF Tells
<1>4. Answering(m)
  BY <1>2, <1>3 DEF Answering
<1> QED BY <1>2, <1>4, AnsweringSound

\* A step that leaves the orders and TWS alone.
LEMMA StandingSound ==
    ASSUME Always, Sound, UNCHANGED <<up, nextID, orders, timers, book, wire>>,
           \A id \in Ids : Ahead(id)' <=> Ahead(id), ~Bracketing' \/ call' = call,
           \A id \in Ids : Reported(id) => Reported(id)'
    PROVE  Sound'
<1>1. Followers'
  BY DEF Sound, Followers, Followed, Knows
<1>2. \A id \in Ids : Followed(id)' => Same(id)
  BY DEF Same, Followed
<1>3. \A id \in Ids : (Executed(id)' <=> Executed(id)) /\ (Cancelled(id)' <=> Cancelled(id))
  BY DEF Executed, Cancelled, Knows
<1>4. Planned'
  BY PlannedStays DEF Sound
<1> QED BY <1>1, <1>2, <1>3, <1>4, QuietSound

LEMMA CancelsDoneSound ==
    ASSUME Always, Sound, CancelsDone
    PROVE  Sound'
<1>1. /\ UNCHANGED <<up, nextID, orders, timers, book, wire, queue, told>>
      /\ call # None /\ call.stage = "wait" /\ call \in Calls
      /\ call' = None \/ call' = [call EXCEPT !.stage = "exit"]
  BY DEF CancelsDone, CallReturns, twsVars, ghostVars, Always, TypeOK
<1>2. [call EXCEPT !.stage = "exit"].stage = "exit"
  BY <1>1 DEF Calls
<1>3. ~Bracketing /\ ~Bracketing'
  BY <1>1, <1>2 DEF Bracketing
<1> QED BY <1>1, <1>3, StandingSound DEF Ahead, Reported, Waits

LEMMA CancelTimeoutSound ==
    ASSUME Always, Sound, CancelTimeout
    PROVE  Sound'
<1>1. /\ UNCHANGED <<up, nextID, orders, timers, book, wire, queue, told>>
      /\ ~Bracketing /\ ~Bracketing'
  BY DEF CancelTimeout, CallReturns, followVars, twsVars, ghostVars, Bracketing
<1> QED BY <1>1, StandingSound DEF Ahead, Reported, Waits

LEMMA DeliverSound ==
    ASSUME Always, Sound, Deliver
    PROVE  Sound'
<1>0. TypeOK
  BY DEF Always
<1> DEFINE report == Head(queue)
<1>1. /\ UNCHANGED <<up, nextID, orders, timers, book, wire, call>>
      /\ queue # <<>> /\ queue' = Tail(queue)
      /\ told' = IF report[2] = "FILLED" THEN [told EXCEPT ![report[1]] = @ + 1] ELSE told
  BY DEF Deliver, twsVars
<1>2. queue \in Seq(Reports) /\ told \in [Ids -> Nat]
  BY <1>0 DEF TypeOK, Reports
<1>3. /\ Len(queue') = Len(queue) - 1 /\ Len(queue) \in Nat \ {0}
      /\ \A i \in 1..(Len(queue) - 1) : queue'[i] = queue[i + 1]
      /\ report = queue[1] /\ report \in Reports
  BY <1>1, <1>2, Popping
<1> HIDE DEF report
<1>4. \A id \in Ids : told'[id] >= told[id] /\ told'[id] \in Nat /\ told[id] \in Nat
  BY <1>1, <1>2, <1>3 DEF Reports
<1>5. ASSUME NEW id \in Ids, Waits(id) PROVE Waits(id)' \/ told'[id] > 0
  <2>1. PICK i \in 1..Len(queue) : queue[i] = <<id, "FILLED">>
    BY <1>5 DEF Waits
  <2>2. CASE i = 1
    <3>1. report = <<id, "FILLED">>
      BY <1>3, <2>1, <2>2
    <3>2. told' = [told EXCEPT ![id] = @ + 1]
      BY <1>1, <3>1
    <3>3. told'[id] = told[id] + 1
      BY <1>2, <3>2
    <3> QED BY <1>4, <3>3
  <2>3. CASE i # 1
    <3>1. i - 1 \in 1..Len(queue') /\ queue'[i - 1] = <<id, "FILLED">>
      BY <1>3, <2>1, <2>3
    <3> QED BY <3>1 DEF Waits
  <2> QED BY <2>2, <2>3
<1>6. \A id \in Ids : Reported(id) => Reported(id)'
  BY <1>4, <1>5 DEF Reported
<1>7. \A id \in Ids : Ahead(id)' <=> Ahead(id)
  BY <1>1 DEF Ahead, Bracketing
<1> QED BY <1>1, <1>6, <1>7, StandingSound

LEMMA StutterSound ==
    ASSUME Always, Sound, UNCHANGED vars
    PROVE  Sound'
<1>1. UNCHANGED <<up, nextID, orders, timers, book, wire, queue, told, call>>
  BY DEF vars, followVars, callVars, twsVars, ghostVars
<1> QED BY <1>1, StandingSound DEF Ahead, Bracketing, Reported, Waits

LEMMA SettleTimerSound ==
    ASSUME Always, Sound, NEW id \in Ids, SettleTimer(id)
    PROVE  Sound'
<1>0. TypeOK /\ Heard /\ Followers /\ Noted
  BY DEF Always, Sound
<1>1. Followed(id) /\ orders[id] \in Tracks /\ orders \in [Ids -> Tracks \cup {None}]
  BY <1>0 DEF SettleTimer, Heard, TypeOK, Followed
<1>2. /\ TrySettle(id, orders[id], bracket, TRUE)
      /\ UNCHANGED <<up, nextID, call, book, wire, told>>
  BY DEF SettleTimer, twsVars, ghostVars, callVars
<1>3. Following(id)
  BY <1>0, <1>1, <1>2, TrySettles DEF Following, Flags
<1>4. \A o \in Ids : Reported(o) => Reported(o)'
  <2>1. \A o \in Ids : Waits(o) => Waits(o)'
    BY <1>0, <1>3, FollowingReports
  <2> QED BY <1>2, <2>1 DEF Reported
<1>5. /\ \A o \in Ids : Ahead(o)' <=> Ahead(o)
      /\ \A o \in Ids : (Executed(o)' <=> Executed(o)) /\ (Cancelled(o)' <=> Cancelled(o))
      /\ \A o \in Ids : Knows(o)' <=> Knows(o)
  BY <1>2 DEF Ahead, Bracketing, Executed, Cancelled, Knows
<1>6. KeepsOrders(id)
  BY <1>0, <1>3, FollowingKeepsOrders
<1>7. Followers'
  <2>1. \A o \in Ids : Knows(o) => o < nextID
    BY <1>0, KnownIsSent
  <2>2. ASSUME NEW o \in Ids, Knows(o)
        PROVE  /\ book'[o].role = orders'[o].role /\ book'[o].side = orders'[o].side
               /\ book'[o].qty = orders'[o].qty
    <3>1. Followed(o) /\ book'[o] = book[o]
      BY <1>0, <1>2, <2>1, <2>2 DEF Followers
    <3>2. /\ book[o].role = orders[o].role /\ book[o].side = orders[o].side
          /\ book[o].qty = orders[o].qty
      BY <1>0, <2>2 DEF Followers
    <3> QED BY <1>6, <3>1, <3>2 DEF KeepsOrders
  <2>3. \A o \in Ids : o < nextID => Followed(o)' /\ (Knows(o)' <=> ~Ahead(o)')
    BY <1>0, <1>5, <1>6 DEF Followers, KeepsOrders
  <2>4. \A o \in Ids : Knows(o)' =>
          /\ book'[o].role = orders'[o].role /\ book'[o].side = orders'[o].side
          /\ book'[o].qty = orders'[o].qty
    BY <1>5, <2>2
  <2> QED BY <1>0, <1>2, <2>3, <2>4 DEF Followers
<1>8. Planned'
  BY <1>2, <1>6, PlannedStays DEF Sound, KeepsOrders
<1>9. CASE orders[id].end = "" /\ (orders[id].exec \/ orders[id].status)
  <2>1. Settle(id, orders[id], bracket)
    BY <1>2, <1>9 DEF TrySettle
  <2>2. orders' = [orders EXCEPT ![id] = [orders[id] EXCEPT !.end = "filled"]]
        /\ timers' = timers \ {<<"settle", id>>} /\ queue' = Append(queue, <<id, "FILLED">>)
    BY <2>1 DEF Settle
  <2>3. Waits(id)'
    <3>1. queue \in Seq(Reports) /\ <<id, "FILLED">> \in Reports
      BY <1>0 DEF TypeOK, Reports
    <3>2. Len(queue') = Len(queue) + 1 /\ queue'[Len(queue) + 1] = <<id, "FILLED">>
          /\ Len(queue) \in Nat
      BY <2>2, <3>1, Appending
    <3>3. Len(queue) + 1 \in 1..Len(queue')
      BY <3>2
    <3> QED BY <3>2, <3>3 DEF Waits
  <2>4. Paid(id)
    <3>1. orders'[id] = [orders[id] EXCEPT !.end = "filled"]
      BY <1>1, <2>2
    <3>2. orders'[id].end = "filled"
      BY <1>1, <3>1 DEF Tracks
    <3> QED BY <1>1, <1>9, <2>3, <3>2 DEF Paid, Reported
  <2>5. ASSUME NEW o \in Ids, Followed(o)', o # id PROVE Same(o)
    <3>1. orders'[o] = orders[o] /\ (<<"settle", o>> \in timers => <<"settle", o>> \in timers')
      BY <1>1, <2>2, <2>5
    <3> QED BY <2>5, <3>1 DEF Same, Followed
  <2> QED BY <1>2, <1>4, <1>5, <1>7, <1>8, <2>4, <2>5, QuietSound
<1>10. CASE ~(orders[id].end = "" /\ (orders[id].exec \/ orders[id].status))
  <2>1. orders' = [orders EXCEPT ![id] = orders[id]] /\ timers \subseteq timers'
    BY <1>2, <1>10 DEF TrySettle
  <2>2. orders' = orders
    BY <1>1, <2>1
  <2>3. \A o \in Ids : Followed(o)' => Same(o)
    BY <2>1, <2>2 DEF Same, Followed
  <2> QED BY <1>2, <1>4, <1>5, <1>7, <1>8, <2>3, QuietSound
<1> QED BY <1>9, <1>10

LEMMA OnPositionSound ==
    ASSUME Always, Sound, OnPosition
    PROVE  Sound'
<1>0. TypeOK /\ Followers /\ Truthful /\ Noted /\ Owed
  BY DEF Always, Sound
<1>1. /\ UNCHANGED <<up, nextID, orders, timers, queue, call, book, told>>
      /\ wire # <<>> /\ wire' = Tail(wire) /\ Head(wire)[1] = "position"
  BY DEF OnPosition, Incoming, followVars, callVars, ghostVars
<1>2. /\ wire \in Seq(Messages) /\ wire[1][1] = "position"
      /\ \A i \in 1..Len(wire') : \E j \in 1..Len(wire) : wire'[i] = wire[j]
  <2>1. wire \in Seq(Messages)
    BY <1>0 DEF TypeOK, Messages
  <2> QED BY <1>1, <2>1, Popping, ShorterWire DEF Shorter
<1>3. Followers'
  BY <1>0, <1>1 DEF Followers, Followed, Knows, Ahead, Bracketing
<1>4. Truthful'
  <2> SUFFICES ASSUME NEW i \in 1..Len(wire')
               PROVE  (/\ wire[i][1] \in {"execution", "commission", "filled"} => Executed(wire[i][2])
                       /\ wire[i][1] \in {"cancelled", "refused"} => Cancelled(wire[i][2])
                       /\ wire[i][1] = "gone" => Executed(wire[i][2]) \/ Cancelled(wire[i][2]))'
    BY DEF Truthful
  <2>2. PICK j \in 1..Len(wire) : wire'[i] = wire[j]
    BY <1>2
  <2> QED BY <1>0, <1>1, <2>2 DEF Truthful, Executed, Cancelled, Knows
<1>5. Noted'
  BY <1>0, <1>1 DEF Noted, Followed, Ended, Executed, Cancelled, Knows, Reported, Waits
<1>6. ASSUME NEW id \in Ids, Followed(id) PROVE Answered(id)'
  <2>1. Answered(id)
    BY <1>0, <1>6 DEF Owed
  <2>2. \A k : k # "position" /\ Says(<<k, id>>) => Says(<<k, id>>)'
    BY <1>1, <1>2, SaidStill
  <2>3. Due(id) => Due(id)'
    BY <1>1, <1>2, DuePops
  <2> QED BY <1>1, <2>1, <2>2, <2>3 DEF Answered, Ended, Followed, Executed, Cancelled, Knows
<1>7. Owed'
  BY <1>1, <1>6 DEF Owed, Followed
<1>8. Planned'
  BY <1>1, PlannedStays DEF Sound
<1> QED BY <1>3, <1>4, <1>5, <1>7, <1>8 DEF Sound

LEMMA PlaceBracketSound ==
    ASSUME Always, Sound, PlaceBracket
    PROVE  Sound'
<1>0. TypeOK /\ Followers
  BY DEF Always, Sound
<1> DEFINE n == nextID
           side == call.side
<1>00. side \in {1, -1} /\ ~Bracketing /\ UNCHANGED <<up, timers, queue, twsVars, told>>
  BY <1>0 DEF PlaceBracket, TypeOK, Calls, Bracketing
<1>1. n \in Ids /\ n + 1 \in Ids /\ n + 2 \in Ids /\ nextID' = n + 3 /\ n \in Nat
      /\ LimitOf(n) = n + 1 /\ StopOf(n) = n + 2
  <2>1. /\ n + 3 - 1 \in Ids /\ nextID' = n + 3 /\ n \in 1..(MaxOrders + 1) /\ MaxOrders \in Nat
    BY <1>0, IBAssumption DEF PlaceBracket, TypeOK, Left
  <2> HIDE DEF n
  <2> QED BY <2>1 DEF Ids, LimitOf, StopOf
<1>2. /\ orders' = [orders EXCEPT ![n] = Track("entry", side, 1),
                                  ![n + 1] = Track("limit", -side, 1),
                                  ![n + 2] = Track("stop", -side, 1)]
      /\ call' = [stage |-> "bracket", side |-> side, parent |-> n]
      /\ UNCHANGED <<wire, book>>
  BY <1>00, <1>1 DEF PlaceBracket, twsVars
<1>3. ASSUME NEW role \in Roles, NEW s \in {1, -1}
      PROVE  /\ Track(role, s, 1) \in Tracks /\ Track(role, s, 1) # None
             /\ ~Track(role, s, 1).exec /\ ~Track(role, s, 1).status /\ Track(role, s, 1).end = ""
  <2>1. Track(role, s, 1) \in Tracks
    BY DEF Track, Tracks
  <2> QED BY <2>1, IBAssumption DEF Track
<1>4. \A id \in Ids : id \in {n, n + 1, n + 2} => ~Knows(id) /\ ~Followed(id)
  BY <1>1, Unused
<1>5. call' \in Calls /\ call' # None
  <2>1. call' \in Calls
    BY <1>00, <1>1, <1>2 DEF Calls
  <2> QED BY <2>1, IBAssumption
<1> HIDE DEF n
<1>6. /\ \A id \in Ids : id \notin {n, n + 1, n + 2} => orders'[id] = orders[id]
      /\ \A id \in {n, n + 1, n + 2} : Followed(id)' /\ Fresh(id)
  <2>1. orders \in [Ids -> Tracks \cup {None}] /\ n # n + 1 /\ n # n + 2 /\ n + 1 # n + 2
    BY <1>0, <1>1 DEF TypeOK
  <2>2. orders'[n] = Track("entry", side, 1) /\ orders'[n + 1] = Track("limit", -side, 1)
        /\ orders'[n + 2] = Track("stop", -side, 1)
        /\ \A id \in Ids : id \notin {n, n + 1, n + 2} => orders'[id] = orders[id]
    BY <1>1, <1>2, <2>1
  <2>3. "entry" \in Roles /\ "limit" \in Roles /\ "stop" \in Roles /\ -side \in {1, -1}
    BY <1>00 DEF Roles, Barriers
  <2>4. ASSUME NEW id \in {n, n + 1, n + 2} PROVE ~Executed(id)' /\ ~Cancelled(id)'
    BY <1>1, <1>2, <1>4 DEF Executed, Cancelled, Knows
  <2>5. ASSUME NEW id \in {n, n + 1, n + 2}
        PROVE  orders'[id] # None /\ ~orders'[id].exec /\ ~orders'[id].status /\ orders'[id].end = ""
    <3>1. CASE id = n
      BY <1>00, <1>3, <2>2, <2>3, <3>1
    <3>2. CASE id = n + 1
      BY <1>3, <2>2, <2>3, <3>2
    <3>3. CASE id = n + 2
      BY <1>00, <1>3, <2>2, <2>3, <3>3
    <3> QED BY <3>1, <3>2, <3>3
  <2> QED BY <2>2, <2>4, <2>5 DEF Followed, Fresh
<1>7. \A id : Ahead(id)' <=> id \in n..(n + 2)
  BY <1>1, <1>2, <1>5 DEF Ahead, Bracketing, StopOf
<1>8. Followers'
  <2>1. ASSUME NEW id \in Ids, id < n + 3 PROVE Followed(id)' /\ (Knows(id)' <=> ~Ahead(id)')
    <3>1. CASE id < n
      <4>1. Followed(id) /\ (Knows(id) <=> ~Ahead(id))
        BY <1>0, <3>1 DEF Followers, n
      <4>2. ~Ahead(id) /\ ~Ahead(id)' /\ orders'[id] = orders[id]
        BY <1>00, <1>1, <1>6, <1>7, <3>1 DEF Ahead, Bracketing, Ids
      <4> QED BY <1>2, <4>1, <4>2 DEF Followed, Knows
    <3>2. CASE id \in {n, n + 1, n + 2}
      BY <1>1, <1>2, <1>4, <1>6, <1>7, <3>2 DEF Knows
    <3> QED BY <1>1, <2>1, <3>1, <3>2 DEF Ids
  <2>2. ASSUME NEW id \in Ids, Knows(id)'
        PROVE  /\ book'[id].role = orders'[id].role /\ book'[id].side = orders'[id].side
               /\ book'[id].qty = orders'[id].qty
    <3>1. Knows(id)
      BY <1>2, <2>2 DEF Knows
    <3>2. id \notin {n, n + 1, n + 2}
      BY <1>4, <3>1
    <3> QED BY <1>0, <1>2, <1>6, <3>1, <3>2 DEF Followers
  <2> QED BY <1>0, <1>00, <1>1, <2>1, <2>2 DEF Followers
<1>9. \A id \in Ids : Followed(id)' => Same(id) \/ Fresh(id)
  BY <1>00, <1>6 DEF Same, Followed
<1>10. \A id \in Ids : (Executed(id)' <=> Executed(id)) /\ (Cancelled(id)' <=> Cancelled(id))
  BY <1>2 DEF Executed, Cancelled, Knows
<1>11. \A id \in Ids : Reported(id) => Reported(id)'
  BY <1>00 DEF Reported, Waits
<1>12. Planned'
  <2>1. ASSUME NEW id \in n..(n + 2) PROVE id = n \/ id = n + 1 \/ id = n + 2
    BY <1>1
  <2>2. call'.parent = n /\ call'.side = side /\ LimitOf(n) = n + 1
    BY <1>1, <1>2
  <2>3. orders \in [Ids -> Tracks \cup {None}] /\ n # n + 1 /\ n # n + 2 /\ n + 1 # n + 2
    BY <1>0, <1>1 DEF TypeOK
  <2>4. orders'[n] = Track("entry", side, 1) /\ orders'[n + 1] = Track("limit", -side, 1)
        /\ orders'[n + 2] = Track("stop", -side, 1)
    BY <1>1, <1>2, <2>3
  <2>5. \A role \in Roles : \A x \in {1, -1} :
          Track(role, x, 1).role = role /\ Track(role, x, 1).side = x /\ Track(role, x, 1).qty = 1
    BY DEF Track
  <2>6. -side \in {1, -1} /\ {"entry", "limit", "stop"} \subseteq Roles
    BY <1>00 DEF Roles, Barriers
  <2>7. ASSUME NEW id \in n..(n + 2)
        PROVE  /\ orders'[id].role = IF id = n THEN "entry" ELSE IF id = n + 1 THEN "limit" ELSE "stop"
               /\ orders'[id].side = IF id = n THEN side ELSE -side
               /\ orders'[id].qty = 1
    BY <1>00, <2>1, <2>3, <2>4, <2>5, <2>6
  <2>8. LimitOf(call'.parent) = n + 1
    BY <2>2
  <2> QED BY <1>7, <2>2, <2>7, <2>8 DEF Planned
<1> QED BY <1>00, <1>2, <1>8, <1>9, <1>10, <1>11, <1>12, QuietSound

\* The orders whose cancellation is asked for.
Asked(waits) ==
    \A id \in Ids : IF id \in waits
                    THEN Followed(id) /\ orders'[id] = [orders[id] EXCEPT !.cancel = TRUE]
                    ELSE orders'[id] = orders[id]

LEMMA AskedKeeps ==
    ASSUME TypeOK, NEW waits \in SUBSET Ids, Asked(waits), NEW id \in Ids
    PROVE  /\ Followed(id)' <=> Followed(id)
           /\ Followed(id) =>
                /\ orders'[id].role = orders[id].role /\ orders'[id].side = orders[id].side
                /\ orders'[id].qty = orders[id].qty /\ orders'[id].exec = orders[id].exec
                /\ orders'[id].paid = orders[id].paid
                /\ orders'[id].status = orders[id].status /\ orders'[id].end = orders[id].end
                /\ orders'[id].cancel = (orders[id].cancel \/ id \in waits)
<1>1. CASE id \in waits
  <2>1. Followed(id) /\ orders'[id] = [orders[id] EXCEPT !.cancel = TRUE]
    BY <1>1 DEF Asked
  <2>2. orders[id] \in Tracks
    BY <2>1 DEF TypeOK, Followed
  <2>3. orders'[id] \in Tracks
    BY <2>1, <2>2 DEF Tracks
  <2>4. orders'[id] # None
    BY <2>3, IBAssumption
  <2> QED BY <1>1, <2>1, <2>2, <2>4 DEF Followed, Tracks
<1>2. CASE id \notin waits
  <2>1. orders'[id] = orders[id] /\ (Followed(id) => orders[id] \in Tracks)
    BY <1>2 DEF Asked, TypeOK, Followed
  <2> QED BY <1>2, <2>1 DEF Followed, Tracks
<1> QED BY <1>1, <1>2

LEMMA PlaceExitSound ==
    ASSUME Always, Sound, PlaceExit
    PROVE  Sound'
<1>0. TypeOK /\ Placed /\ Followers
  BY DEF Always, Sound
<1>00. ~Bracketing /\ UNCHANGED <<up, timers, queue, twsVars, told>>
  BY DEF PlaceExit, Bracketing, ghostVars
<1> DEFINE b == bracket
           Child(id) == IF Followed(id) THEN orders[id]
                     ELSE Track(IF id = LimitOf(b.parent) THEN "limit" ELSE "stop", -b.side, 1)
           waits == IF b = None THEN {} ELSE {id \in BarriersOf(b) : ~Ended(id)}
<1>1. /\ orders' = [id \in Ids |-> IF id \in waits
                                  THEN [Child(id) EXCEPT !.cancel = TRUE] ELSE orders[id]]
      /\ CancelCalled(waits) /\ UNCHANGED nextID
  BY DEF PlaceExit
<1>2. waits \in SUBSET Ids /\ \A id \in waits : Followed(id)
  <2>1. b # None => BarriersOf(b) \subseteq Ids /\ \A id \in BarriersOf(b) : id < nextID
    BY <1>0, BracketIds
  <2> QED BY <1>0, <2>1 DEF Followers
<1>3. Asked(waits)
  BY <1>1, <1>2 DEF Asked
<1>4. call'.stage # "bracket"
  BY <1>1 DEF CancelCalled
<1> HIDE DEF waits
<1>5. \A id : ~Ahead(id) /\ ~Ahead(id)'
  BY <1>00, <1>4 DEF Ahead, Bracketing
<1>6. \A id \in Ids :
        /\ Followed(id)' <=> Followed(id)
        /\ Followed(id) =>
             /\ orders'[id].role = orders[id].role /\ orders'[id].side = orders[id].side
             /\ orders'[id].qty = orders[id].qty /\ orders'[id].exec = orders[id].exec
             /\ orders'[id].status = orders[id].status /\ orders'[id].end = orders[id].end
  BY <1>0, <1>2, <1>3, AskedKeeps
<1>7. UNCHANGED <<up, nextID, book, wire, timers, queue, told>>
  BY <1>00, <1>1 DEF twsVars
<1>8. Followers'
  <2>1. \A id \in Ids : Knows(id)' => Followed(id)
    <3>1. \A id \in Ids : Knows(id) => id < nextID
      BY KnownIsSent DEF Always
    <3> QED BY <1>0, <1>7, <3>1 DEF Followers, Knows
  <2>2. \A id \in Ids : Knows(id)' <=> Knows(id)
    BY <1>7 DEF Knows
  <2>3. \A id \in Ids : id < nextID' => Followed(id)' /\ (Knows(id)' <=> ~Ahead(id)')
    BY <1>0, <1>5, <1>6, <1>7, <2>2 DEF Followers
  <2>4. \A id \in Ids : Knows(id)' =>
          /\ book'[id].role = orders'[id].role /\ book'[id].side = orders'[id].side
          /\ book'[id].qty = orders'[id].qty
    BY <1>0, <1>6, <1>7, <2>1, <2>2 DEF Followers
  <2> QED BY <1>0, <1>7, <2>3, <2>4 DEF Followers
<1>9. \A id \in Ids : Followed(id)' => Same(id)
  BY <1>6, <1>7 DEF Same
<1>10. \A id \in Ids : (Executed(id)' <=> Executed(id)) /\ (Cancelled(id)' <=> Cancelled(id))
  BY <1>7 DEF Executed, Cancelled, Knows
<1>11. \A id \in Ids : Reported(id) => Reported(id)'
  BY <1>7 DEF Reported, Waits
<1>12. Planned'
  BY <1>5 DEF Planned
<1> QED BY <1>7, <1>8, <1>9, <1>10, <1>11, <1>12, QuietSound

\* The engine decides, and PlaceOrder looks: nothing is placed yet.
LEMMA DecidingSound ==
    ASSUME Always, Sound, Engine \/ PlaceOrder
    PROVE  Sound'
<1>1. UNCHANGED <<up, nextID, orders, timers, book, wire, queue, told>>
  BY DEF Engine, Exit, Enter, Decide, PlaceOrder, followVars, twsVars, ghostVars
<1>2. ~Bracketing
  BY DEF Engine, Exit, Enter, Ready, PlaceOrder, Bracketing
<1>3. CASE Engine
  <2>1. call'.stage = "place"
    BY <1>3 DEF Engine, Exit, Enter, Decide
  <2> QED BY <1>1, <1>2, <2>1, StandingSound DEF Ahead, Bracketing, Reported, Waits
<1>4. CASE PlaceOrder
  <2>1. call \in Calls /\ call.stage = "place"
    BY <1>4 DEF PlaceOrder, Always, TypeOK
  <2>2. \A stage \in Placing : [call EXCEPT !.stage = stage].stage = stage
    BY <2>1 DEF Calls, Placing
  <2>3. call' = None \/ \E stage \in Placing : call' = [call EXCEPT !.stage = stage]
    BY <1>4 DEF PlaceOrder, CallReturns, Placing
  <2>4. ~Bracketing'
    BY <2>2, <2>3 DEF Bracketing, Placing
  <2> QED BY <1>1, <1>2, <2>4, StandingSound DEF Ahead, Reported, Waits
<1> QED BY <1>3, <1>4

\* An order that TWS comes to know is the one followed under that identifier,
\* and is at work.
LEMMA SendingSound ==
    ASSUME Always, Sound, UNCHANGED <<up, nextID, orders, timers, wire, queue, told>>,
           ~Bracketing',
           \A id \in Ids : IF Ahead(id)
              THEN /\ book'[id] \in Books /\ book'[id].state \in Alive
                   /\ book'[id].role = orders[id].role /\ book'[id].side = orders[id].side
                   /\ book'[id].qty = orders[id].qty
              ELSE book'[id] = book[id]
    PROVE  Sound'
<1>0. TypeOK /\ Heard /\ Followers
  BY DEF Always, Sound
<1>1. \A id : ~Ahead(id)'
  BY DEF Ahead
<1>2. \A id \in Ids : IF Ahead(id) THEN Knows(id)' /\ ~Knows(id) ELSE Knows(id)' <=> Knows(id)
  BY <1>0, IBAssumption DEF Knows, Heard
<1>3. Followers'
  BY <1>0, <1>1, <1>2 DEF Followers, Followed
<1>4. \A id \in Ids : (Executed(id)' <=> Executed(id)) /\ (Cancelled(id)' <=> Cancelled(id))
  BY <1>2 DEF Executed, Cancelled, Knows, Alive, Waiting
<1>5. \A id \in Ids : Followed(id)' => Same(id)
  BY DEF Same, Followed
<1>6. \A id \in Ids : Reported(id) => Reported(id)'
  BY DEF Reported, Waits
<1>7. Planned'
  BY <1>1 DEF Planned
<1> QED BY <1>3, <1>4, <1>5, <1>6, <1>7, QuietSound

LEMMA SendBracketSound ==
    ASSUME Always, Sound, SendBracket
    PROVE  Sound'
<1>0. TypeOK /\ Placed /\ Followers /\ Planned
  BY DEF Always, Sound
<1> DEFINE p == call.parent
           side == call.side
<1>1. /\ Bracketing /\ side \in {1, -1} /\ p \in Ids /\ p + 2 < nextID
      /\ LimitOf(p) = p + 1 /\ StopOf(p) = p + 2 /\ up
  BY <1>0 DEF SendBracket, Bracketing, TypeOK, Calls, Placed, StopOf, LimitOf, Followers
<1>2. /\ UNCHANGED <<up, nextID, orders, timers, wire, queue, told>> /\ call' = None
      /\ book' = [book EXCEPT ![p] = Order("entry", side, 1, "working"),
                              ![p + 1] = Order("limit", -side, 1, "attached"),
                              ![p + 2] = Order("stop", -side, 1, "attached")]
  BY <1>1 DEF SendBracket, CallReturns, ghostVars
<1>3. /\ \A id : Ahead(id) <=> id \in p..(p + 2)
      /\ \A id \in Ids : Ahead(id) =>
           /\ orders[id].role = IF id = p THEN "entry" ELSE IF id = p + 1 THEN "limit" ELSE "stop"
           /\ orders[id].side = IF id = p THEN side ELSE -side
           /\ orders[id].qty = 1
      /\ ~Bracketing'
  BY <1>0, <1>1, <1>2 DEF Ahead, Bracketing, Planned
<1>4. PICK other \in {1, -1} : other = -side
  BY <1>1
<1> HIDE DEF p, side
<1>5. p \in Nat /\ p + 1 \in Ids /\ p + 2 \in Ids
  <2>1. MaxOrders \in Nat /\ nextID \in 1..(MaxOrders + 1) /\ p \in 1..MaxOrders /\ p + 2 < nextID
    BY <1>0, <1>1, IBAssumption DEF TypeOK, Ids
  <2> QED BY <2>1 DEF Ids
<1>6. ASSUME NEW role \in Roles, NEW x \in {1, -1}, NEW state \in Alive
      PROVE  /\ Order(role, x, 1, state) \in Books /\ Order(role, x, 1, state).state = state
             /\ Order(role, x, 1, state).role = role /\ Order(role, x, 1, state).side = x
             /\ Order(role, x, 1, state).qty = 1
  BY DEF Order, Books
<1>7. {"entry", "limit", "stop"} \subseteq Roles /\ {"working", "attached"} \subseteq Alive
  BY DEF Roles, Barriers, Alive, Waiting
<1>8. /\ book'[p] = Order("entry", side, 1, "working")
      /\ book'[p + 1] = Order("limit", other, 1, "attached")
      /\ book'[p + 2] = Order("stop", other, 1, "attached")
      /\ \A id \in Ids : id \notin {p, p + 1, p + 2} => book'[id] = book[id]
  <2> DEFINE entry == Order("entry", side, 1, "working")
             limit == Order("limit", other, 1, "attached")
             stop  == Order("stop", other, 1, "attached")
  <2>1. book' = [book EXCEPT ![p] = entry, ![p + 1] = limit, ![p + 2] = stop]
    BY <1>2, <1>4
  <2>2. p # p + 1 /\ p # p + 2 /\ p + 1 # p + 2
    BY <1>5
  <2>3. book \in [Ids -> Books \cup {None}]
    BY <1>0 DEF TypeOK
  <2> HIDE DEF entry, limit, stop
  <2>4. /\ book'[p] = entry /\ book'[p + 1] = limit /\ book'[p + 2] = stop
        /\ \A id \in Ids : id \notin {p, p + 1, p + 2} => book'[id] = book[id]
    BY <1>1, <1>5, <2>1, <2>2, <2>3
  <2> QED BY <2>4 DEF entry, limit, stop
<1>9. ASSUME NEW id \in Ids, Ahead(id)
      PROVE  /\ book'[id] \in Books /\ book'[id].state \in Alive
             /\ book'[id].role = orders[id].role /\ book'[id].side = orders[id].side
             /\ book'[id].qty = orders[id].qty
  <2>1. id = p \/ id = p + 1 \/ id = p + 2
    BY <1>3, <1>5, <1>9
  <2>2. /\ orders[id].role = IF id = p THEN "entry" ELSE IF id = p + 1 THEN "limit" ELSE "stop"
        /\ orders[id].side = IF id = p THEN side ELSE other
        /\ orders[id].qty = 1
    BY <1>3, <1>4, <1>9
  <2>3. p # p + 1 /\ p # p + 2 /\ p + 1 # p + 2
    BY <1>5
  <2>4. CASE id = p
    BY <1>1, <1>6, <1>7, <1>8, <2>2, <2>4
  <2>5. CASE id = p + 1
    BY <1>6, <1>7, <1>8, <2>2, <2>3, <2>5
  <2>6. CASE id = p + 2
    BY <1>6, <1>7, <1>8, <2>2, <2>3, <2>6
  <2> QED BY <2>1, <2>4, <2>5, <2>6
<1>10. \A id \in Ids : ~Ahead(id) => book'[id] = book[id]
  <2>1. \A id \in Ids : id \in {p, p + 1, p + 2} => id \in p..(p + 2)
    BY <1>5
  <2> QED BY <1>3, <1>8, <2>1
<1> QED BY <1>2, <1>3, <1>9, <1>10, SendingSound

\* An order is placed alone, under the next identifier; the others stay as they were.
Simply(n, role, side, qty, m) ==
    /\ n = nextID /\ nextID' = n + 1 /\ ~Bracketing /\ ~Bracketing'
    /\ orders'[n] = Track(role, side, qty)
    /\ book'[n] = Order(role, side, qty, "working")
    /\ \A id \in Ids \ {n} :
          /\ Followed(id)' <=> Followed(id)
          /\ Followed(id) =>
               /\ orders'[id].role = orders[id].role /\ orders'[id].side = orders[id].side
               /\ orders'[id].qty = orders[id].qty /\ orders'[id].exec = orders[id].exec
               /\ orders'[id].status = orders[id].status /\ orders'[id].end = orders[id].end
          /\ book'[id] = book[id] \/ Moved(id)
    /\ wire' = wire \o m /\ Tells(m)
    /\ UNCHANGED <<up, queue, told>>
    /\ \A id \in Ids : <<"settle", id>> \in timers => <<"settle", id>> \in timers'

LEMMA SimpleSound ==
    ASSUME Always, Sound, NEW n \in Ids, NEW role \in {"exit", "naked"},
           NEW side \in {1, -1}, NEW qty \in Nat, NEW m \in Seq(Messages),
           Simply(n, role, side, qty, m)
    PROVE  Sound'
<1> USE DEF Simply
<1>0. TypeOK /\ Heard /\ Followers /\ n \in Nat
  BY DEF Always, Sound, TypeOK
<1>1. /\ Track(role, side, qty) \in Tracks /\ Track(role, side, qty) # None
      /\ ~Track(role, side, qty).exec /\ ~Track(role, side, qty).status
      /\ Track(role, side, qty).end = "" /\ Track(role, side, qty).role = role
      /\ Track(role, side, qty).side = side /\ Track(role, side, qty).qty = qty
  <2>1. Track(role, side, qty) \in Tracks
    BY DEF Track, Tracks, Roles
  <2> QED BY <2>1, IBAssumption DEF Track
<1>2. /\ Order(role, side, qty, "working") \in Books /\ Order(role, side, qty, "working") # None
      /\ Order(role, side, qty, "working").state = "working"
      /\ Order(role, side, qty, "working").role = role
      /\ Order(role, side, qty, "working").side = side
      /\ Order(role, side, qty, "working").qty = qty
  <2>1. Order(role, side, qty, "working") \in Books
    BY DEF Order, Books, Roles, Alive
  <2> QED BY <2>1, IBAssumption DEF Order
<1>3. ASSUME NEW id \in Ids, id # n
      PROVE  /\ Knows(id)' <=> Knows(id)
             /\ Knows(id) => /\ book'[id].role = book[id].role /\ book'[id].side = book[id].side
                             /\ book'[id].qty = book[id].qty
  BY <1>0, <1>3, BookMoves
<1>4. /\ Followed(n)' /\ Knows(n)'
      /\ book'[n].role = orders'[n].role /\ book'[n].side = orders'[n].side
      /\ book'[n].qty = orders'[n].qty /\ book'[n].state = "working"
      /\ ~orders'[n].exec /\ ~orders'[n].status /\ orders'[n].end = ""
  BY <1>1, <1>2 DEF Followed, Knows
<1>5. \A id : ~Ahead(id) /\ ~Ahead(id)'
  BY DEF Ahead
<1>6. Followers'
  <2>1. ASSUME NEW id \in Ids, id < nextID' PROVE Followed(id)' /\ Knows(id)'
    <3>1. CASE id = n
      BY <1>4, <3>1 DEF Followed, Knows
    <3>2. CASE id # n
      <4>1. id < n
        BY <1>0, <2>1, <3>2 DEF Ids
      <4> QED BY <1>0, <1>3, <1>5, <3>2, <4>1 DEF Followers
    <3> QED BY <3>1, <3>2
  <2>2. ASSUME NEW id \in Ids, Knows(id)'
        PROVE  /\ book'[id].role = orders'[id].role /\ book'[id].side = orders'[id].side
               /\ book'[id].qty = orders'[id].qty
    <3>1. CASE id = n
      BY <1>4, <3>1
    <3>2. CASE id # n
      <4>1. Knows(id)
        BY <1>3, <2>2, <3>2
      <4>2. Followed(id)
        BY <1>0, <4>1, KnownIsSent DEF Followers
      <4> QED BY <1>0, <1>3, <3>2, <4>1, <4>2 DEF Followers
    <3> QED BY <3>1, <3>2
  <2> QED BY <1>0, <1>5, <2>1, <2>2 DEF Followers
<1>7. Planned'
  BY <1>5 DEF Planned
<1>8. \A id \in Ids : Followed(id)' => Same(id) \/ Fresh(id)
  <2> SUFFICES ASSUME NEW id \in Ids, Followed(id)' PROVE Same(id) \/ Fresh(id)
    OBVIOUS
  <2>1. CASE id = n
    BY <1>4, <2>1 DEF Fresh, Executed, Cancelled
  <2>2. CASE id # n
    BY <2>2 DEF Same
  <2> QED BY <2>1, <2>2
<1>9. \A id \in Ids : Reported(id) => Reported(id)'
  BY DEF Reported, Waits
<1>10. Answering(m)
  BY <1>8, <1>9 DEF Answering
<1> QED BY <1>6, <1>7, <1>10, AnsweringSound

LEMMA PlaceSimpleSound ==
    ASSUME Always, Sound, NEW role \in {"exit", "naked"}, PlaceSimple(role), ~Bracketing,
           call.side \in {1, -1}, call.qty \in Nat, nextID \in Ids
    PROVE  Sound'
<1>0. TypeOK /\ Placed /\ up /\ wire \in Seq(Messages)
  BY DEF Always, Sound, Followers, TypeOK, Messages
<1>2. /\ UNCHANGED <<up, timers, queue, wire, told>> /\ call' = None /\ nextID' = nextID + 1
      /\ orders' = [orders EXCEPT ![nextID] = Track(role, call.side, call.qty)]
      /\ book' = [book EXCEPT ![nextID] = Order(role, call.side, call.qty, "working")]
  BY <1>0 DEF PlaceSimple, CallReturns, ghostVars
<1>3. ~Bracketing /\ ~Bracketing'
  BY <1>2 DEF Bracketing
<1>4. /\ orders'[nextID] = Track(role, call.side, call.qty)
      /\ book'[nextID] = Order(role, call.side, call.qty, "working")
      /\ \A id \in Ids \ {nextID} : orders'[id] = orders[id] /\ book'[id] = book[id]
  BY <1>0, <1>2 DEF TypeOK
<1>5. \A id \in Ids \ {nextID} : Followed(id)' <=> Followed(id)
  BY <1>4 DEF Followed
<1> DEFINE m == <<>>
<1>6. m \in Seq(Messages) /\ wire' = wire \o m /\ Len(m) = 0
  BY <1>0, <1>2
<1> HIDE DEF m
<1>7. \A id \in Ids : (Executed(id)' <=> Executed(id)) /\ (Cancelled(id)' <=> Cancelled(id))
  <2> SUFFICES ASSUME NEW id \in Ids
               PROVE  (Executed(id)' <=> Executed(id)) /\ (Cancelled(id)' <=> Cancelled(id))
    OBVIOUS
  <2>1. CASE id = nextID
    <3>1. ~Knows(id)
      BY <1>0, <2>1, Unused DEF TypeOK
    <3>2. book'[id].state = "working"
      BY <1>4, <2>1 DEF Order
    <3> QED BY <3>1, <3>2 DEF Executed, Cancelled
  <2>2. CASE id # nextID
    BY <1>4, <2>2 DEF Executed, Cancelled, Knows
  <2> QED BY <2>1, <2>2
<1>8. Tells(m)
  BY <1>6, <1>7 DEF Tells
<1>9. UNCHANGED <<up, queue, told>> /\ \A id \in Ids : <<"settle", id>> \in timers => <<"settle", id>> \in timers'
  BY <1>2
<1>10. PICK n \in Ids, side \in {1, -1}, qty \in Nat :
          n = nextID /\ side = call.side /\ qty = call.qty
  OBVIOUS
<1>11. /\ nextID' = n + 1 /\ orders'[n] = Track(role, side, qty)
       /\ book'[n] = Order(role, side, qty, "working")
       /\ \A id \in Ids \ {n} : orders'[id] = orders[id] /\ book'[id] = book[id]
                                /\ (Followed(id)' <=> Followed(id))
  BY <1>2, <1>4, <1>5, <1>10
<1>12. Simply(n, role, side, qty, m)
  BY <1>3, <1>6, <1>8, <1>9, <1>10, <1>11 DEF Simply
<1> HIDE DEF m
<1> QED BY <1>6, <1>12, SimpleSound

LEMMA SendExitSound ==
    ASSUME Always, Sound, SendExit
    PROVE  Sound'
<1>1. call.side \in {1, -1} /\ call.qty \in Nat /\ nextID \in Ids /\ ~Bracketing
  BY DEF SendExit, Always, TypeOK, Calls, Placed, Bracketing
<1> QED BY <1>1, PlaceSimpleSound DEF SendExit

LEMMA SendNakedSound ==
    ASSUME Always, Sound, SendNaked
    PROVE  Sound'
<1>1. call.side \in {1, -1} /\ call.qty \in Nat /\ nextID \in Ids /\ ~Bracketing
  BY DEF SendNaked, Always, TypeOK, Calls, Left, Bracketing
<1> QED BY <1>1, PlaceSimpleSound DEF SendNaked

LEMMA GoneTold ==
    ASSUME TypeOK, Heard, NEW ids \in SUBSET Ids, NEW m \in GoneAnswers(ids),
           \A id \in ids : Knows(id),
           \A id \in Ids : (Executed(id)' <=> Executed(id)) /\ (Cancelled(id)' <=> Cancelled(id))
    PROVE  m \in Seq(Messages) /\ Tells(m)
<1> DEFINE gone == {id \in ids : ~Lives(id)}
<1>1. "gone" \in Kinds /\ gone \in SUBSET Ids /\ m \in OfEach("gone", gone)
  BY DEF Kinds, GoneAnswers
<1>2. \A id \in gone : Executed(id) \/ Cancelled(id)
  <2>1. \A id \in gone : Knows(id) /\ ~Lives(id) /\ book[id] \in Books
    BY KnownIsSent
  <2> QED BY <2>1 DEF Lives, Executed, Cancelled, Books
<1> HIDE DEF gone
<1>3. m \in Seq(Messages) /\ \A i \in 1..Len(m) : \E id \in gone : m[i] = <<"gone", id>>
  BY <1>1, EachHas
<1>4. ASSUME NEW i \in 1..Len(m)
      PROVE  /\ m[i][1] # "position" => m[i][2] \in Ids
             /\ m[i][1] \in {"execution", "commission", "filled"} => Executed(m[i][2])'
             /\ m[i][1] \in {"cancelled", "refused"} => Cancelled(m[i][2])'
             /\ m[i][1] = "gone" => Executed(m[i][2])' \/ Cancelled(m[i][2])'
  <2>1. PICK id \in gone : m[i] = <<"gone", id>>
    BY <1>3
  <2>2. id \in Ids /\ (Executed(id)' \/ Cancelled(id)')
    BY <1>1, <1>2
  <2>3. m[i][2] = id /\ m[i][1] = "gone"
    BY <2>1
  <2> QED BY <2>2, <2>3
<1> QED BY <1>3, <1>4 DEF Tells

LEMMA CancelledMoves ==
    ASSUME NEW ids, NEW id \in Ids
    PROVE  \/ CancelledIn(book, ids)[id] = book[id]
           \/ /\ id \in ids /\ Lives(id)
              /\ \E x \in {"withdrawing", "cancelling"} :
                    CancelledIn(book, ids)[id] = [book[id] EXCEPT !.state = x]
<1>1. CASE id \in ids /\ Lives(id)
  BY <1>1 DEF CancelledIn
<1>2. CASE ~(id \in ids /\ Lives(id))
  BY <1>2 DEF CancelledIn
<1> QED BY <1>1, <1>2

\* An order cancelled is neither executed nor over yet.
LEMMA StillThere ==
    ASSUME TypeOK, Heard, NEW ids, NEW id \in Ids, book'[id] = CancelledIn(book, ids)[id]
    PROVE  /\ book'[id] = book[id] \/ Moved(id)
           /\ (Executed(id)' <=> Executed(id)) /\ (Cancelled(id)' <=> Cancelled(id))
<1>1. CASE CancelledIn(book, ids)[id] = book[id]
  BY <1>1 DEF Executed, Cancelled, Knows
<1>2. CASE /\ id \in ids /\ Lives(id)
           /\ \E x \in {"withdrawing", "cancelling"} :
                 CancelledIn(book, ids)[id] = [book[id] EXCEPT !.state = x]
  <2>1. PICK x \in {"withdrawing", "cancelling"} : book'[id] = [book[id] EXCEPT !.state = x]
    BY <1>2
  <2>2. x \in Alive /\ Knows(id)
    BY <1>2 DEF Alive, Waiting, Lives
  <2>3. book'[id] \in Books /\ book[id] \in Books /\ book'[id].state = x
    BY <2>1, <2>2, StateMoves, KnownIsSent DEF Books
  <2> QED BY <1>2, <2>1, <2>2, <2>3 DEF Moved, Executed, Cancelled, Lives, Alive, Waiting
<1> QED BY <1>1, <1>2, CancelledMoves

LEMMA SendCancelsSound ==
    ASSUME Always, Sound, SendCancels
    PROVE  Sound'
<1>0. TypeOK /\ Heard /\ Placed /\ Followers /\ up
  BY DEF Always, Sound, Followers
<1>1. /\ call # None /\ call.stage = "cancel" /\ call \in Calls
      /\ call.waits \in SUBSET Ids /\ call.waits \subseteq 1..(nextID - 1)
  BY <1>0 DEF SendCancels, TypeOK, Calls, Placed
<1> DEFINE ids == call.waits
<1>2. /\ book' = CancelledIn(book, ids) /\ call' = [call EXCEPT !.stage = "wait"]
      /\ \E answers \in GoneAnswers(ids) : Sends(answers)
      /\ UNCHANGED <<up, nextID, orders, timers, queue, told>>
  BY <1>0 DEF SendCancels, followVars, ghostVars
<1>3. PICK m \in GoneAnswers(ids) : Sends(m)
  BY <1>2
<1>4. ~Bracketing /\ ~Bracketing'
  BY <1>1, <1>2 DEF Bracketing, Calls
<1>5. \A id \in ids : Knows(id)
  <2>1. \A id \in ids : id \in Ids /\ id < nextID
    BY <1>0, <1>1 DEF TypeOK
  <2> QED BY <1>0, <1>4, <2>1 DEF Followers, Ahead
<1>6. ids \in SUBSET Ids
  BY <1>1
<1> HIDE DEF ids
<1>7. \A id \in Ids :
        /\ book'[id] = book[id] \/ Moved(id)
        /\ (Executed(id)' <=> Executed(id)) /\ (Cancelled(id)' <=> Cancelled(id))
  BY <1>0, <1>2, StillThere
<1>8. m \in Seq(Messages) /\ Tells(m)
  BY <1>0, <1>3, <1>5, <1>6, <1>7, GoneTold
<1>9. wire' = wire \o m
  BY <1>0, <1>3 DEF Sends
<1>10. Followers'
  <2>1. \A id \in Ids :
          /\ Knows(id)' <=> Knows(id)
          /\ Knows(id) => /\ book'[id].role = book[id].role /\ book'[id].side = book[id].side
                          /\ book'[id].qty = book[id].qty
    BY <1>0, <1>7, BookMoves
  <2> QED BY <1>0, <1>2, <1>4, <2>1 DEF Followers, Followed, Ahead
<1>11. Planned'
  BY <1>4 DEF Planned, Ahead
<1>12. \A id \in Ids : Followed(id)' => Same(id)
  BY <1>2 DEF Same, Followed
<1>13. \A id \in Ids : Reported(id) => Reported(id)'
  BY <1>2 DEF Reported, Waits
<1>14. Answering(m)
  BY <1>8, <1>9, <1>12, <1>13 DEF Answering
<1> QED BY <1>8, <1>10, <1>11, <1>14, AnsweringSound

LEMMA CheckProtectionSound ==
    ASSUME Always, Sound, NEW id \in Ids, CheckProtection(id)
    PROVE  Sound'
<1>0. TypeOK /\ Heard /\ Placed /\ Followers /\ up
  BY DEF Always, Sound, Followers
<1> DEFINE b == bracket
           others == {o \in BarriersOf(b) \ {id} : Followed(o) /\ ~Ended(o)}
           exit == Track("exit", -b.side, Abs(held))
           n == nextID
<1>1. /\ timers' = timers \ {<<"protect", id>>}
      /\ UNCHANGED <<up, queue, call, told>>
  BY DEF CheckProtection, callVars, ghostVars
<1>2. CASE b = None \/ ~b.entered \/ b.closing \/ held = 0 \/ id \notin BarriersOf(b)
  <2>1. UNCHANGED <<nextID, orders, book, wire>>
    BY <1>2 DEF CheckProtection
  <2>2. /\ Followers' /\ Planned'
    BY <1>0, <1>1, <2>1, PlannedStays DEF Sound, Followers, Followed, Knows, Ahead, Bracketing
  <2>3. \A o \in Ids : Followed(o)' => Same(o)
    BY <1>1, <2>1 DEF Same, Followed
  <2>4. \A o \in Ids : (Executed(o)' <=> Executed(o)) /\ (Cancelled(o)' <=> Cancelled(o))
    BY <2>1 DEF Executed, Cancelled, Knows
  <2>5. \A o \in Ids : Reported(o) => Reported(o)'
    BY <1>1 DEF Reported, Waits
  <2> QED BY <2>1, <2>2, <2>3, <2>4, <2>5, QuietSound
<1>3. CASE ~(b = None \/ ~b.entered \/ b.closing \/ held = 0 \/ id \notin BarriersOf(b))
  <2>1. /\ n \in Ids /\ nextID' = n + 1
        /\ orders' = [o \in Ids |->
                 CASE o \in others -> [orders[o] EXCEPT !.cancel = TRUE]
                   [] o = n        -> exit
                   [] OTHER        -> orders[o]]
        /\ book' = [CancelledIn(book, others) EXCEPT ![n] =
                              Order("exit", exit.side, exit.qty, "working")]
        /\ \E answers \in GoneAnswers(others) : Sends(answers)
    BY <1>0, <1>3, LeftOne DEF CheckProtection
  <2>2. /\ b \in Brackets /\ ~Bracketing /\ ~Bracketing'
    BY <1>0, <1>1, <1>3 DEF TypeOK, Placed, Bracketing
  <2>3. \E side \in {1, -1}, qty \in Nat : exit = Track("exit", side, qty)
    <3>1. -b.side \in {1, -1} /\ Abs(held) \in Nat
      BY <1>0, <2>2 DEF TypeOK, Brackets, Abs
    <3> QED BY <3>1
  <2>4. others \in SUBSET Ids /\ \A o \in others : o < n /\ o # n /\ Followed(o)
    <3>1. BarriersOf(b) \subseteq Ids /\ \A o \in BarriersOf(b) : o < n
      BY <1>0, <1>3, BracketIds
    <3>2. n \in Nat
      BY <1>0 DEF TypeOK
    <3> QED BY <3>1, <3>2 DEF Ids
  <2>5. \A o \in others : Knows(o)
    BY <1>0, <2>2, <2>4 DEF Followers, Ahead
  <2> HIDE DEF others, exit
  <2>6. PICK side \in {1, -1}, qty \in Nat : exit = Track("exit", side, qty)
    BY <2>3
  <2>7. exit.side = side /\ exit.qty = qty
    BY <2>6 DEF Track
  <2>8. PICK m \in GoneAnswers(others) : Sends(m)
    BY <2>1
  <2>9. PICK k \in Ids : k = n
    BY <2>1
  <2> HIDE DEF n
  <2>10. /\ orders'[k] = Track("exit", side, qty)
         /\ book'[k] = Order("exit", side, qty, "working")
         /\ \A o \in Ids \ {k} : book'[o] = CancelledIn(book, others)[o]
    <3>1. orders'[k] = exit
      BY <2>1, <2>4, <2>9
    <3>2. CancelledIn(book, others) \in [Ids -> Books \cup {None}]
      BY <1>0, CancelledBook
    <3>3. book' = [CancelledIn(book, others) EXCEPT ![k] = Order("exit", side, qty, "working")]
      BY <2>1, <2>7, <2>9
    <3> QED BY <2>6, <3>1, <3>2, <3>3
  <2>11. ASSUME NEW o \in Ids \ {k}
         PROVE  /\ Followed(o)' <=> Followed(o)
                /\ Followed(o) =>
                   /\ orders'[o].role = orders[o].role /\ orders'[o].side = orders[o].side
                   /\ orders'[o].qty = orders[o].qty /\ orders'[o].exec = orders[o].exec
                   /\ orders'[o].status = orders[o].status /\ orders'[o].end = orders[o].end
    <3>1. CASE o \in others
      <4>1. orders'[o] = [orders[o] EXCEPT !.cancel = TRUE]
        BY <2>1, <2>4, <3>1
      <4>2. orders[o] \in Tracks /\ Followed(o)
        BY <1>0, <2>4, <3>1 DEF TypeOK, Followed
      <4>3. orders'[o] \in Tracks
        BY <4>1, <4>2 DEF Tracks
      <4>4. orders'[o] # None
        BY <4>3, IBAssumption
      <4> QED BY <4>1, <4>2, <4>4 DEF Followed, Tracks
    <3>2. CASE o \notin others
      BY <2>1, <2>9, <2>11, <3>2 DEF Followed
    <3> QED BY <3>1, <3>2
  <2>12. \A o \in Ids \ {k} :
           /\ book'[o] = book[o] \/ Moved(o)
           /\ (Executed(o)' <=> Executed(o)) /\ (Cancelled(o)' <=> Cancelled(o))
    BY <1>0, <2>10, StillThere
  <2>13. (Executed(k)' <=> Executed(k)) /\ (Cancelled(k)' <=> Cancelled(k))
    <3>1. ~Knows(k)
      BY <1>0, <2>9, Unused DEF TypeOK, n
    <3>2. book'[k].state = "working"
      BY <2>10 DEF Order
    <3> QED BY <3>1, <3>2 DEF Executed, Cancelled
  <2>14. \A o \in Ids : (Executed(o)' <=> Executed(o)) /\ (Cancelled(o)' <=> Cancelled(o))
    BY <2>12, <2>13
  <2>15. m \in Seq(Messages) /\ Tells(m)
    BY <1>0, <2>4, <2>5, <2>8, <2>14, GoneTold
  <2>16. wire' = wire \o m
    BY <1>0, <2>8 DEF Sends
  <2>17. UNCHANGED <<up, queue, told>>
         /\ \A o \in Ids : <<"settle", o>> \in timers => <<"settle", o>> \in timers'
    BY <1>1
  <2>18. k = nextID /\ nextID' = k + 1
    BY <2>1, <2>9 DEF n
  <2>19. Simply(k, "exit", side, qty, m)
    BY <2>2, <2>10, <2>11, <2>12, <2>15, <2>16, <2>17, <2>18 DEF Simply
  <2> QED BY <2>15, <2>19, SimpleSound
<1> QED BY <1>2, <1>3

LEMMA SoundInitially == Init => Sound
<1> SUFFICES ASSUME Init PROVE Sound
  OBVIOUS
<1>1. /\ up /\ wire = <<>> /\ nextID = 1 /\ call = None
      /\ \A id \in Ids : orders[id] = None /\ book[id] = None
  BY DEF Init
<1>2. Followers /\ Planned
  BY <1>1 DEF Followers, Planned, Ahead, Bracketing, Knows, Ids
<1>3. Truthful
  BY <1>1 DEF Truthful
<1>4. Noted /\ Owed
  BY <1>1 DEF Noted, Owed, Followed
<1> QED BY <1>2, <1>3, <1>4 DEF Sound

\* While the connection lasts.
LEMMA SoundKept ==
    ASSUME MaxBreaks = 0
    PROVE  Always /\ Counted /\ Sound /\ [Next]_vars => Sound'
<1> SUFFICES ASSUME Always, Counted, Sound, [Next]_vars PROVE Sound'
  OBVIOUS
<1>1. ~Breaks /\ up
  BY DEF Breaks, Counted, Sound, Followers
<1>2. CASE Gateway
  BY <1>2, OrderMessageSound, OnPositionSound, SettleTimerSound, CheckProtectionSound
     DEF Gateway, OrderMessage
<1>3. CASE Caller
  BY <1>3, DecidingSound, PlaceBracketSound, SendBracketSound, PlaceExitSound,
     SendCancelsSound, CancelsDoneSound, CancelTimeoutSound, SendExitSound, SendNakedSound,
     DeliverSound DEF Caller
<1>4. CASE Engine
  BY <1>4, DecidingSound
<1>5. CASE TWS
  BY <1>5, SendPositionSound, ExecuteSound, RejectSound, ConfirmCancelSound, LoseSound DEF TWS
<1>6. CASE ConnectionLost \/ Crash \/ Reconnect
  BY <1>1, <1>6 DEF ConnectionLost, Crash, Reconnect
<1>7. CASE UNCHANGED vars
  BY <1>7, StutterSound
<1> QED BY <1>2, <1>3, <1>4, <1>5, <1>6, <1>7 DEF Next

LEMMA SoundHolds ==
    ASSUME MaxBreaks = 0
    PROVE  Spec => [](Always /\ Sound)
<1>1. Init => Always /\ Counted /\ Sound
  BY AlwaysInitially, SoundInitially DEF Init, Counted
<1>2. Always /\ Counted /\ Sound /\ [Next]_vars => (Always /\ Counted /\ Sound)'
  BY AlwaysKept, CountedKept, SoundKept
<1> QED BY <1>1, <1>2, PTL DEF Spec

\* docs/brokers.md: while the connection lasts, whatever is lost, late or
\* unanswered, an execution is reported once its commission has come: when
\* nothing is left to read or to time out, each order that executed has been
\* reported, once (onExecDetails, onCommission, trySettle, finish).
THEOREM ExecutionsAreReported ==
    ASSUME MaxBreaks = 0, ~Terse
    PROVE  Spec => []ReportedOnce
<1>1. ASSUME Always, Sound, Settled, NEW id \in Ids, Knows(id), book[id].state = "filled"
      PROVE  told[id] = 1
  <2>1. Followed(id) /\ Executed(id) /\ Answered(id) /\ (orders[id].end = "filled" => Reported(id))
    <3>1. id < nextID
      BY <1>1, KnownIsSent DEF Always
    <3> QED BY <1>1, <3>1 DEF Sound, Followers, Owed, Noted, Executed
  <2>2. wire = <<>> /\ queue = <<>>
    BY <1>1 DEF Settled
  <2>3. ~Due(id) /\ ~Waits(id)
    BY <2>2 DEF Due, Waits
  <2>4. Reported(id)
    BY <2>1, <2>3 DEF Answered
  <2>5. told[id] \in Nat /\ told[id] > 0 /\ told[id] <= 1
    BY <1>1, <2>3, <2>4 DEF Reported, Always, TypeOK, Once
  <2> QED BY <2>5
<1>2. Always /\ Sound => ReportedOnce
  BY <1>1 DEF ReportedOnce, Always, Once
<1> QED BY <1>2, SoundHolds, PTL

\* What the engine is told of is true, even when TWS repeats or omits an
\* execution: an order reported as executed did execute.
THEOREM ReportsAreTrue ==
    ASSUME MaxBreaks = 0
    PROVE  Spec => [](\A id \in Ids : told[id] > 0 => Knows(id) /\ book[id].state = "filled")
<1>1. ASSUME Always, Sound, NEW id \in Ids, told[id] > 0
      PROVE  Executed(id)
  <2>1. Reported(id)
    BY <1>1 DEF Reported
  <2>2. id < nextID /\ (Followed(id) => orders[id].end = "filled")
    BY <1>1, <2>1 DEF Always, Once
  <2> QED BY <1>1, <2>2 DEF Sound, Followers, Noted
<1>2. Always /\ Sound => \A id \in Ids : told[id] > 0 => Knows(id) /\ book[id].state = "filled"
  BY <1>1 DEF Executed
<1> QED BY <1>2, SoundHolds, PTL
=============================================================================

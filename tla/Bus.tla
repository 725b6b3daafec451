---------------------------------- MODULE Bus ----------------------------------
(***************************************************************************)
(* The event bus (internal/core/bus.go) on one topic: publishers that      *)
(* nobody may stop, subscriptions with a buffer, subscribers that take and *)
(* leave while events are on their way.                                    *)
(*                                                                         *)
(* An event is numbered by its Publish.  A step is what another goroutine  *)
(* may come between: the lock of the bus is held for a whole step, the one *)
(* of a subscription from the lock to the unlock of deliver and Close.     *)
(***************************************************************************)
EXTENDS Naturals, Sequences, FiniteSets

CONSTANTS
    Publishers,
    Subs,
    Closers,   \* goroutines that close a subscription, the same one maybe
    Buffer,    \* Subscribe takes 1 at least
    MaxEvents, \* bound on the events published
    Nobody

\* A subscription has room for an event (bus.go:67).
ASSUME BusAssumption ==
    /\ Buffer \in Nat \ {0}
    /\ Nobody \notin Publishers /\ Nobody \notin Subs

VARIABLES
    subscribed, \* the topic's subscriptions, in the bus
    sub,        \* per subscription, its channel, its flag, its lock, its counter
    pub,        \* per publisher, its event, whom it still has to deliver to
    closer,     \* per closer, how far Close is, and of what
    events,     \* events published
    got,        \* ghost: per subscription, what its subscriber has received
    sent,       \* ghost: what deliver has handled while the subscription was open
    panicked    \* ghost: a closed channel was sent to, or closed again

busVars == <<subscribed, sub, pub, closer, events, got, sent, panicked>>

Idle == [pc |-> "idle", event |-> 0, left |-> {}, to |-> Nobody]
Fresh == [chan |-> <<>>, shut |-> FALSE, closed |-> FALSE, mu |-> Nobody, dropped |-> 0]

BusInit ==
    /\ subscribed = {} /\ events = 0
    /\ sub = [s \in Subs |-> Fresh]
    /\ pub = [p \in Publishers |-> Idle]
    /\ closer = [c \in Closers |-> [pc |-> "idle", of |-> Nobody]]
    /\ got = [s \in Subs |-> {}] /\ sent = [s \in Subs |-> {}]
    /\ panicked = FALSE

Known(s) == s \in subscribed \/ sub[s].closed \/ \E p \in Publishers : s \in pub[p].left

Subscribe(s) ==
    /\ ~Known(s) /\ sub[s] = Fresh
    /\ subscribed' = subscribed \cup {s}
    /\ UNCHANGED <<sub, pub, closer, events, got, sent, panicked>>

\* Publish takes the subscriptions there are, and leaves the lock.
Publish(p) ==
    /\ pub[p].pc = "idle" /\ events < MaxEvents
    /\ events' = events + 1
    /\ IF subscribed = {} THEN UNCHANGED pub
       ELSE pub' = [pub EXCEPT ![p] = [pc |-> "next", event |-> events', left |-> subscribed,
                                       to |-> Nobody]]
    /\ UNCHANGED <<subscribed, sub, closer, got, sent, panicked>>

Locked(s, who) == sub[s].mu = who

\* The mutant: the lock is left once the flag has been read.
DeliverUnlocked(p) ==
    /\ pub[p].pc = "next"
    /\ IF pub[p].left = {} THEN pub' = [pub EXCEPT ![p] = Idle]
       ELSE \E s \in pub[p].left :
              IF sub[s].closed THEN pub' = [pub EXCEPT ![p].left = @ \ {s}]
              ELSE pub' = [pub EXCEPT ![p].pc = "send", ![p].to = s, ![p].left = @ \ {s}]
    /\ UNCHANGED <<subscribed, sub, closer, events, got, sent, panicked>>

\* deliver: the lock, and nothing more if the subscription is closed.
Deliver(p) ==
    /\ pub[p].pc = "next"
    /\ IF pub[p].left = {} THEN pub' = [pub EXCEPT ![p] = Idle] /\ UNCHANGED sub
       ELSE \E s \in pub[p].left :
              /\ Locked(s, Nobody)
              /\ IF sub[s].closed
                 THEN pub' = [pub EXCEPT ![p].left = @ \ {s}] /\ UNCHANGED sub
                 ELSE /\ pub' = [pub EXCEPT ![p].pc = "send", ![p].to = s, ![p].left = @ \ {s}]
                      /\ sub' = [sub EXCEPT ![s].mu = p]
    /\ UNCHANGED <<subscribed, closer, events, got, sent, panicked>>

Room(s) == Len(sub[s].chan) < Buffer

\* The end of deliver, with the channel it leaves and what it counts.
Sent(p, s, chan, dropped) ==
    /\ sub' = [sub EXCEPT ![s].chan = chan, ![s].dropped = dropped, ![s].mu = Nobody]
    /\ sent' = [sent EXCEPT ![s] = @ \cup {pub[p].event}]
    /\ pub' = [pub EXCEPT ![p].pc = "next", ![p].to = Nobody]

\* Without a wait: a full buffer loses its oldest event first.
Send(p) ==
    LET s == pub[p].to IN
    /\ pub[p].pc = "send"
    /\ panicked' = (panicked \/ sub[s].shut)
    /\ IF Room(s) THEN Sent(p, s, Append(sub[s].chan, pub[p].event), sub[s].dropped)
       ELSE /\ sub' = [sub EXCEPT ![s].chan = Tail(@)]
            /\ pub' = [pub EXCEPT ![p].pc = "resend"]
            /\ UNCHANGED sent
    /\ UNCHANGED <<subscribed, closer, events, got>>

\* The room made, the event goes in, and one is counted as lost even if the
\* subscriber has just taken it.
Resend(p) ==
    LET s == pub[p].to IN
    /\ pub[p].pc = "resend"
    /\ panicked' = (panicked \/ sub[s].shut)
    /\ Sent(p, s, IF Room(s) THEN Append(sub[s].chan, pub[p].event) ELSE sub[s].chan,
            sub[s].dropped + 1)
    /\ UNCHANGED <<subscribed, closer, events, got>>

\* The subscriber takes the oldest event, closed channel or not.
Receive(s) ==
    /\ sub[s].chan # <<>>
    /\ got' = [got EXCEPT ![s] = @ \cup {Head(sub[s].chan)}]
    /\ sub' = [sub EXCEPT ![s].chan = Tail(@)]
    /\ UNCHANGED <<subscribed, pub, closer, events, sent, panicked>>

\* Close: the flag under the lock, the withdrawal from the bus, the channel.
Flag(c, s) ==
    /\ closer[c].pc = "idle" /\ s \in subscribed
    /\ Locked(s, Nobody) /\ ~sub[s].closed
    /\ sub' = [sub EXCEPT ![s].closed = TRUE]
    /\ closer' = [closer EXCEPT ![c] = [pc |-> "withdraw", of |-> s]]
    /\ UNCHANGED <<subscribed, pub, events, got, sent, panicked>>

Withdraw(c) ==
    /\ closer[c].pc = "withdraw"
    /\ subscribed' = subscribed \ {closer[c].of}
    /\ closer' = [closer EXCEPT ![c].pc = "shut"]
    /\ UNCHANGED <<sub, pub, events, got, sent, panicked>>

Shut(c) ==
    LET s == closer[c].of IN
    /\ closer[c].pc = "shut" /\ Locked(s, Nobody)
    /\ panicked' = (panicked \/ sub[s].shut)
    /\ sub' = [sub EXCEPT ![s].shut = TRUE]
    /\ closer' = [closer EXCEPT ![c] = [pc |-> "idle", of |-> Nobody]]
    /\ UNCHANGED <<subscribed, pub, events, got, sent>>

BusNext ==
    \/ \E s \in Subs : Subscribe(s) \/ Receive(s) \/ \E c \in Closers : Flag(c, s)
    \/ \E p \in Publishers : Publish(p) \/ Deliver(p) \/ Send(p) \/ Resend(p)
    \/ \E c \in Closers : Withdraw(c) \/ Shut(c)

BusSpec == BusInit /\ [][BusNext]_busVars

-----------------------------------------------------------------------------
(* Properties *)

\* A subscription that closes while an event is on its way to it kills nobody:
\* no closed channel is sent to, or closed again (bus.go:146).
NoPanic == ~panicked

\* What a subscriber has missed of the events sent to it while it was open is
\* counted, whatever it takes while deliver makes room (bus.go:109).
LossIsCounted ==
    \A s \in Subs :
        LET kept == got[s] \cup {sub[s].chan[i] : i \in DOMAIN sub[s].chan}
            \* What a deliver under way has taken out and not yet counted.
            taken == IF \E p \in Publishers : pub[p].pc = "resend" /\ pub[p].to = s THEN 1 ELSE 0
        IN  Cardinality(sent[s] \ kept) <= sub[s].dropped + taken

\* Closing a subscription during a delivery kills nobody, and every event that a
\* subscriber has missed is counted (core/bus.go, deliver and Close).
BusHolds == NoPanic /\ LossIsCounted
=============================================================================

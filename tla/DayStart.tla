-------------------------------- MODULE DayStart -------------------------------
(***************************************************************************)
(* The day's starting equity and the daily loss limit: the store keeps one *)
(* figure a day (internal/storage, SetDayStartEquity), set by whichever    *)
(* poller (Runtime.dayStart) or engine (Engine.dayStartEquity) reads the   *)
(* account first, and every entry is measured against it.                  *)
(*                                                                         *)
(* Sizing by risk is on: without the equity no entry is decided.           *)
(***************************************************************************)
EXTENDS Naturals

CONSTANTS
    Pollers,     \* goroutines that only show the account
    Engines,     \* goroutines that decide entries
    Accounts,    \* the accounts a session may be of
    Levels,      \* the equities an account may have
    MaxLossPct,  \* risk.max_daily_loss_pct
    MaxDays,     \* bound on the days
    Unset

ASSUME DayAssumption ==
    /\ MaxDays \in Nat \ {0}
    /\ Unset \notin Levels

Readers == Pollers \cup Engines

Days == 1..MaxDays

VARIABLES
    day,      \* the current day, in UTC
    session,  \* the account of the session
    equity,   \* per account, at the broker
    base,     \* per day, the starting equity in the store, or Unset
    reader,   \* per reader: where it stands, what it has read, of which account
    entry,    \* the last entry accepted
    opening   \* per day and account, the first equity the day knows it by

dayVars == <<day, session, equity, base, reader, entry, opening>>

Resting == [stage |-> "idle", account |-> Unset, equity |-> Unset, day |-> 1]

DayInit ==
    /\ day = 1
    /\ session \in Accounts
    /\ equity \in [Accounts -> Levels]
    /\ base = [d \in Days |-> Unset]
    /\ reader = [r \in Readers |-> Resting]
    /\ entry = Unset
    /\ opening = [d \in Days |-> [a \in Accounts |-> Unset]]

-----------------------------------------------------------------------------
\* The reading is the first the day knows the account by, unless there is one.
Opens(d, r) ==
    LET a == reader[r].account IN
    opening' = IF opening[d][a] = Unset
               THEN [opening EXCEPT ![d][a] = reader[r].equity] ELSE opening

\* SetDayStartEquity: set once a day, in one transaction; the write may fail.
SetDayStartEquity(r) ==
    LET d == reader[r].day IN
    \/ /\ base[d] = Unset
       /\ base' = [base EXCEPT ![d] = reader[r].equity]
       /\ Opens(d, r)
    \/ UNCHANGED <<base, opening>>

\* DayLossPct against the limit (dailyLossReached).
LossReached(start, value) == (start - value) * 100 >= MaxLossPct * start

\* An entry is accepted, on the loss seen from `start`.
Decides(r, d, start) ==
    IF r \in Engines /\ ~LossReached(start, reader[r].equity)
    THEN entry' = [account |-> reader[r].account, day |-> d,
                   equity |-> reader[r].equity,
                   first |-> reader[r].stage = "set"]
    ELSE UNCHANGED entry

Rests(r) == reader' = [reader EXCEPT ![r] = Resting]

-----------------------------------------------------------------------------
\* gateway.Account.
ReadAccount(r) ==
    /\ reader[r].stage = "idle"
    /\ reader' = [reader EXCEPT ![r] = [stage |-> "found?", account |-> session,
                                        equity |-> equity[session], day |-> day]]
    /\ UNCHANGED <<day, session, equity, base, entry, opening>>

\* DayStartEquity, on today's date.
LookUp(r) ==
    /\ reader[r].stage = "found?"
    /\ \/ /\ base[day] # Unset
          /\ Opens(day, r) /\ Decides(r, day, base[day]) /\ Rests(r)
       \/ /\ base[day] = Unset
          /\ reader' = [reader EXCEPT ![r].stage = "set", ![r].day = day]
          /\ UNCHANGED <<entry, opening>>
    /\ UNCHANGED <<day, session, equity, base>>

\* There was none: the reading becomes the day's start, and shows no loss.
SetStart(r) ==
    /\ reader[r].stage = "set"
    /\ SetDayStartEquity(r)
    /\ Decides(r, reader[r].day, reader[r].equity)
    /\ Rests(r)
    /\ UNCHANGED <<day, session, equity>>

-----------------------------------------------------------------------------
\* The broker moves the account.
Move(a) ==
    /\ \E value \in Levels : equity' = [equity EXCEPT ![a] = value]
    /\ UNCHANGED <<day, session, base, reader, entry, opening>>

Midnight ==
    /\ day < MaxDays
    /\ day' = day + 1
    /\ UNCHANGED <<session, equity, base, reader, entry, opening>>

\* A connection to another account, or with another gateway.
ConnectTo(a) ==
    /\ session' = a
    /\ UNCHANGED <<day, equity, base, reader, entry, opening>>

\* A start kept in memory only.
RestartForgets ==
    /\ reader' = [r \in Readers |-> Resting]
    /\ base' = [d \in Days |-> Unset]
    /\ UNCHANGED <<day, session, equity, entry, opening>>

\* The process is killed and started again: the store remains.
RestartProcess ==
    /\ reader' = [r \in Readers |-> Resting]
    /\ UNCHANGED <<day, session, equity, base, entry, opening>>

DayNext ==
    \/ \E r \in Readers : ReadAccount(r) \/ LookUp(r) \/ SetStart(r)
    \/ \E a \in Accounts : Move(a) \/ ConnectTo(a)
    \/ Midnight
    \/ RestartProcess

DaySpec == DayInit /\ [][DayNext]_dayVars

-----------------------------------------------------------------------------
(* Properties *)

\* The variables have their types.
DayTypeOK ==
    /\ day \in Days /\ session \in Accounts
    /\ equity \in [Accounts -> Levels]
    /\ base \in [Days -> Levels \cup {Unset}]
    /\ reader \in [Readers ->
          {Resting} \cup [stage : {"found?", "set"}, account : Accounts,
                          equity : Levels, day : Days]]
    /\ entry \in {Unset} \cup
          [account : Accounts, day : Days, equity : Levels, first : BOOLEAN]
    /\ opening \in [Days -> [Accounts -> Levels \cup {Unset}]]

\* Past the daily loss limit nobody enters, restarts included: a decision that
\* finds a start for the day accepts no entry once the equity has lost the limit of
\* what its account had when the day first knew it.
LossLimitHolds ==
    (entry # Unset /\ ~entry.first) =>
        ~LossReached(opening[entry.day][entry.account], entry.equity)
===============================================================================

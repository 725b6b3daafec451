------------------------------ MODULE InputsProofs ------------------------------
(***************************************************************************)
(* Theorems about what a decision to trade rests on: the day's starting    *)
(* equity (DayStart), the economic news on disk (News), the settings       *)
(* (Config), the event bus (Bus), the models of a session (Colibri), the   *)
(* trees they are made of (Trees) and the bars made of ticks (Bars).  They *)
(* share no state.                                                         *)
(***************************************************************************)
EXTENDS DayStart, News, Config, Bus, Colibri, Bars, Trees, FiniteSetTheorems, SequenceTheorems,
        WellFoundedInduction, TLAPS

-----------------------------------------------------------------------------
(* Induction on the natural numbers *)

\* A set of numbers has a least one, since nothing descends for ever.
LEMMA Smallest ==
  ASSUME NEW T, T \subseteq Nat, T # {}
  PROVE \E x \in T : \A y \in T : x <= y
<1> DEFINE R == OpToRel(<, Nat)
<1>1. IsWellFoundedOn(R, Nat)
  BY NatLessThanWellFounded
<1>2. \A x, y \in Nat : <<x, y>> \in R <=> x < y
  BY DEF OpToRel
<1> HIDE DEF R
<1>3. PICK x \in T : \A y \in T : ~(<<y, x>> \in R)
  BY <1>1, WFMin
<1>4. ASSUME NEW y \in T PROVE x <= y
  <2>1. x \in Nat /\ y \in Nat
    OBVIOUS
  <2>2. ~(y < x)
    BY <1>2, <1>3, <2>1
  <2> QED BY <2>1, <2>2
<1> QED BY <1>4

\* Induction, on a set of numbers.
LEMMA SetInduction ==
  ASSUME NEW S, 0 \in S, \A n \in Nat : n \in S => n + 1 \in S
  PROVE Nat \subseteq S
<1> SUFFICES ASSUME Nat \ S # {} PROVE FALSE
  OBVIOUS
<1>1. PICK x \in Nat \ S : \A y \in Nat \ S : x <= y
  BY Smallest
<1>2. x - 1 \in Nat /\ x - 1 \in S
  BY <1>1
<1> QED BY <1>1, <1>2

\* The least number of a set.
LEMMA MinOfNaturals ==
    ASSUME NEW S \in SUBSET Nat, S # {}
    PROVE  Min(S) \in S /\ \A y \in S : Min(S) <= y
  <1>1. \E x \in S : \A y \in S : x <= y
    BY Smallest
  <1> QED BY <1>1 DEF Min

-----------------------------------------------------------------------------
(* DayStart: the daily loss limit, for every number of readers, every set of
   equities and every limit, as long as a day sees one account.

   The argument is that the store and the day agree: the first equity that a
   day knows an account by is the one the store has (OpensOnBase), so a
   decision measured against the store is measured against the day's start;
   and a start that is kept is never replaced (EntryWithinLimit) *)

\* One account a day: the sessions of one gateway.
OneAccount == \A a, b \in Accounts : a = b

\* The day knows its account by the figure in the store.
OpensOnBase ==
    \A d \in Days, a \in Accounts : opening[d][a] = base[d]

\* The last entry was within the limit of a start that has been kept.
EntryWithinLimit ==
    (entry # Unset /\ ~entry.first) =>
        /\ opening[entry.day][entry.account] # Unset
        /\ ~LossReached(opening[entry.day][entry.account], entry.equity)

DayInv == DayTypeOK /\ OpensOnBase /\ EntryWithinLimit

Readings ==
    [stage : {"found?", "set"}, account : Accounts, equity : Levels, day : Days]

\* What a reader holds past its reading of the account.
LEMMA ReaderHolds ==
    ASSUME DayTypeOK, NEW r \in Readers, reader[r].stage # "idle"
    PROVE  reader[r] \in Readings
  BY DEF DayTypeOK, Resting, Readings

\* An entry decided on a reading is one.
LEMMA DecidesType ==
    ASSUME DayTypeOK, NEW r \in Readers, reader[r] \in Readings,
           NEW d \in Days, NEW start \in Levels, Decides(r, d, start)
    PROVE  \/ entry' = entry
           \/ /\ entry' = [account |-> reader[r].account, day |-> d,
                           equity |-> reader[r].equity, first |-> reader[r].stage = "set"]
              /\ ~LossReached(start, reader[r].equity)
  BY DEF Decides

\* A figure that the store has is the one the account is known by already.
LEMMA OpensNothingNew ==
    ASSUME DayInv, OneAccount, NEW r \in Readers, reader[r] \in Readings,
           NEW d \in Days, base[d] # Unset, Opens(d, r)
    PROVE  opening' = opening
  <1>1. reader[r].account \in Accounts
    BY DEF Readings
  <1>2. opening[d][reader[r].account] = base[d]
    BY <1>1 DEF DayInv, OpensOnBase
  <1> QED BY <1>2 DEF Opens

LEMMA DayInitHolds ==
    DayInit => DayInv
  <1> SUFFICES ASSUME DayInit PROVE DayInv
    OBVIOUS
  <1>1. DayTypeOK
    BY DayAssumption DEF DayInit, DayTypeOK, Days
  <1>2. OpensOnBase /\ EntryWithinLimit
    BY DEF DayInit, OpensOnBase, EntryWithinLimit
  <1> QED BY <1>1, <1>2 DEF DayInv

\* A step of the environment leaves the store, the decisions and what the days know.
LEMMA DayElsewhere ==
    ASSUME DayInv, UNCHANGED <<base, entry, opening>>
    PROVE  (OpensOnBase /\ EntryWithinLimit)'
  BY DEF DayInv, OpensOnBase, EntryWithinLimit

LEMMA ReadAccountSafe ==
    ASSUME DayInv, NEW r \in Readers, ReadAccount(r)
    PROVE  DayInv'
  <1> USE DEF DayInv
  <1>1. [stage |-> "found?", account |-> session, equity |-> equity[session], day |-> day]
            \in Readings
    BY DEF DayTypeOK, Readings
  <1>2. reader' \in [Readers -> {Resting} \cup Readings]
    BY <1>1 DEF ReadAccount, DayTypeOK, Readings
  <1>3. DayTypeOK'
    BY <1>2 DEF ReadAccount, DayTypeOK, Readings
  <1> QED BY <1>3, DayElsewhere DEF ReadAccount

LEMMA LookUpSafe ==
    ASSUME OneAccount, DayInv, NEW r \in Readers, LookUp(r)
    PROVE  DayInv'
  <1> USE DEF DayInv
  <1>1. reader[r] \in Readings
    BY ReaderHolds DEF LookUp
  <1>2. day \in Days
    BY DEF DayTypeOK
  <1>3. CASE base[day] # Unset /\ Opens(day, r) /\ Decides(r, day, base[day]) /\ Rests(r)
    <2>1. opening' = opening
      BY <1>1, <1>2, <1>3, OpensNothingNew
    <2>2. UNCHANGED <<day, session, equity, base>>
      BY DEF LookUp
    <2>3. base[day] \in Levels
      BY <1>2, <1>3 DEF DayTypeOK
    <2>4. reader' \in [Readers -> {Resting} \cup Readings]
      BY <1>3 DEF Rests, DayTypeOK, Readings
    <2>5. \/ entry' = entry
          \/ /\ entry' = [account |-> reader[r].account, day |-> day,
                          equity |-> reader[r].equity, first |-> FALSE]
             /\ ~LossReached(base[day], reader[r].equity)
      BY <1>1, <1>2, <1>3, <2>3, DecidesType DEF LookUp
    <2>6. CASE entry' = entry
      <3>1. DayTypeOK'
        BY <2>1, <2>2, <2>4, <2>6 DEF DayTypeOK, Readings
      <3> QED BY <2>1, <2>2, <2>6, <3>1, DayElsewhere
    <2>7. CASE /\ entry' = [account |-> reader[r].account, day |-> day,
                            equity |-> reader[r].equity, first |-> FALSE]
               /\ ~LossReached(base[day], reader[r].equity)
      <3>1. reader[r].account \in Accounts /\ reader[r].equity \in Levels
        BY <1>1 DEF Readings
      <3>2. entry' \in [account : Accounts, day : Days, equity : Levels, first : BOOLEAN]
        BY <1>2, <2>7, <3>1
      <3>3. DayTypeOK'
        BY <2>1, <2>2, <2>4, <3>2 DEF DayTypeOK, Readings
      <3>4. OpensOnBase'
        BY <2>1, <2>2 DEF OpensOnBase
      <3>5. opening[day][reader[r].account] = base[day]
        BY <1>2, <3>1 DEF OpensOnBase
      <3>6. EntryWithinLimit'
        BY <1>2, <1>3, <2>1, <2>7, <3>1, <3>5 DEF EntryWithinLimit
      <3> QED BY <3>3, <3>4, <3>6
    <2> QED BY <2>5, <2>6, <2>7
  <1>4. CASE UNCHANGED <<entry, opening>> /\ reader' = [reader EXCEPT ![r].stage = "set", ![r].day = day]
    <2>1. [reader[r] EXCEPT !.stage = "set", !.day = day] \in Readings
      BY <1>1, <1>2 DEF Readings
    <2>2. reader' = [reader EXCEPT ![r] = [reader[r] EXCEPT !.stage = "set", !.day = day]]
      BY <1>4 DEF DayTypeOK
    <2>3. reader' \in [Readers -> {Resting} \cup Readings]
      BY <2>1, <2>2 DEF DayTypeOK, Readings
    <2>4. DayTypeOK'
      BY <1>4, <2>3 DEF LookUp, DayTypeOK, Readings
    <2> QED BY <1>4, <2>4, DayElsewhere DEF LookUp
  <1> QED BY <1>3, <1>4 DEF LookUp

LEMMA SetStartSafe ==
    ASSUME OneAccount, DayInv, NEW r \in Readers, SetStart(r)
    PROVE  DayInv'
  <1> USE DEF DayInv
  <1>1. reader[r] \in Readings /\ reader[r].stage = "set"
    BY ReaderHolds DEF SetStart
  <1>2. PICK d \in Days : d = reader[r].day
    BY <1>1 DEF Readings
  <1>3. PICK a \in Accounts : a = reader[r].account
    BY <1>1 DEF Readings
  <1>4. PICK level \in Levels : level = reader[r].equity
    BY <1>1 DEF Readings
  <1>5. \/ base[d] = Unset /\ base' = [base EXCEPT ![d] = level]
           /\ opening' = [opening EXCEPT ![d][a] = level]
        \/ UNCHANGED <<base, opening>>
    <2>1. base[d] = Unset => opening[d][a] = Unset
      BY DEF OpensOnBase
    <2> QED BY <1>2, <1>3, <1>4, <2>1 DEF SetStart, SetDayStartEquity, Opens
  <1>6. opening' \in [Days -> [Accounts -> Levels \cup {Unset}]] /\ base' \in [Days -> Levels \cup {Unset}]
    <2>1. CASE base' = [base EXCEPT ![d] = level] /\ opening' = [opening EXCEPT ![d][a] = level]
      <3>1. [opening[d] EXCEPT ![a] = level] \in [Accounts -> Levels \cup {Unset}]
        BY DEF DayTypeOK
      <3>2. opening' = [opening EXCEPT ![d] = [opening[d] EXCEPT ![a] = level]]
        BY <2>1 DEF DayTypeOK
      <3> QED BY <2>1, <3>1, <3>2 DEF DayTypeOK
    <2>2. CASE UNCHANGED <<base, opening>>
      BY <2>2 DEF DayTypeOK
    <2> QED BY <1>5, <2>1, <2>2
  <1>7. OpensOnBase'
    BY <1>5 DEF OpensOnBase, OneAccount, DayTypeOK
  <1>8. \A e \in Days, b \in Accounts :
            opening[e][b] # Unset => opening'[e][b] = opening[e][b]
    BY <1>5, <1>3 DEF OpensOnBase, OneAccount, DayTypeOK
  <1>9. \/ entry' = entry
        \/ entry' = [account |-> a, day |-> d, equity |-> level, first |-> TRUE]
    BY <1>1, <1>2, <1>3, <1>4 DEF SetStart, Decides
  <1>10. EntryWithinLimit'
    <2>1. CASE entry' = entry
      BY <1>8, <2>1 DEF EntryWithinLimit, DayTypeOK
    <2>2. CASE entry' = [account |-> a, day |-> d, equity |-> level, first |-> TRUE]
      BY <2>2 DEF EntryWithinLimit
    <2> QED BY <1>9, <2>1, <2>2
  <1>11. reader' \in [Readers -> {Resting} \cup Readings]
    BY DEF SetStart, Rests, DayTypeOK, Readings
  <1>12. DayTypeOK'
    <2>1. entry' \in {Unset} \cup
            [account : Accounts, day : Days, equity : Levels, first : BOOLEAN]
      <3>1. [account |-> a, day |-> d, equity |-> level, first |-> TRUE]
                \in [account : Accounts, day : Days, equity : Levels, first : BOOLEAN]
        OBVIOUS
      <3>2. CASE entry' = entry
        BY <3>2 DEF DayTypeOK
      <3> QED BY <1>9, <3>1, <3>2
    <2> QED BY <1>6, <1>11, <2>1 DEF SetStart, DayTypeOK, Readings
  <1> QED BY <1>7, <1>10, <1>12

\* Every step keeps the invariant.
LEMMA DayStep ==
    ASSUME OneAccount, DayInv, [DayNext]_dayVars
    PROVE  DayInv'
  <1>1. CASE \E r \in Readers : ReadAccount(r) \/ LookUp(r) \/ SetStart(r)
    BY <1>1, ReadAccountSafe, LookUpSafe, SetStartSafe
  <1>2. CASE \E a \in Accounts : Move(a) \/ ConnectTo(a)
    <2>1. DayTypeOK' /\ UNCHANGED <<base, entry, opening>>
      BY <1>2 DEF DayInv, DayTypeOK, Move, ConnectTo
    <2> QED BY <2>1, DayElsewhere DEF DayInv
  <1>3. CASE Midnight
    <2>1. DayTypeOK' /\ UNCHANGED <<base, entry, opening>>
      BY <1>3, DayAssumption DEF DayInv, DayTypeOK, Midnight, Days
    <2> QED BY <2>1, DayElsewhere DEF DayInv
  <1>4. CASE RestartProcess
    <2>1. DayTypeOK' /\ UNCHANGED <<base, entry, opening>>
      BY <1>4 DEF DayInv, DayTypeOK, RestartProcess
    <2> QED BY <2>1, DayElsewhere DEF DayInv
  <1>5. CASE UNCHANGED dayVars
    <2>1. DayTypeOK' /\ UNCHANGED <<base, entry, opening>>
      BY <1>5 DEF DayInv, DayTypeOK, dayVars, Resting
    <2> QED BY <2>1, DayElsewhere DEF DayInv
  <1> QED BY <1>1, <1>2, <1>3, <1>4, <1>5 DEF DayNext

\* Past the daily loss limit nobody enters, restarts, midnights and readers that found
\* no start included, as long as a day sees one account (engine.go, dayStartEquity;
\* store.go, SetDayStartEquity): what `day_start_accounts` shows fails with two.
THEOREM LossLimitKept == OneAccount => (DaySpec => []LossLimitHolds)
  <1> SUFFICES ASSUME OneAccount PROVE DaySpec => []LossLimitHolds
    OBVIOUS
  <1>1. DayInit => DayInv
    BY DayAssumption, DayInitHolds
  <1>2. DayInv /\ [DayNext]_dayVars => DayInv'
    BY DayAssumption, DayStep
  <1>3. DayInv => LossLimitHolds
    BY DEF DayInv, EntryWithinLimit, LossLimitHolds
  <1> QED BY <1>1, <1>2, <1>3, PTL DEF DaySpec

-----------------------------------------------------------------------------
(* News: the weeks the filters cover, for every set of weeks and of writers.

   The argument is which inode is whose.  Two writers of one week share the
   temporary name, so one may rename the file that the other has open; but
   never do two weeks have one inode (OneWeekEach), and what an inode holds
   was said of its week (FilesTell, WriterTells) *)

\* What a writer may be.
WriterStates ==
    [pc : {"idle", "save", "write", "rename", "reload"},
     batch : UNION {[told -> Nat] : told \in SUBSET Weeks},
     at : Nat, file : Inodes \cup {NoNews}]

NewsTypeOK ==
    /\ week \in Weeks
    /\ content \in [Inodes -> Int]
    /\ named \in [Weeks -> Inodes \cup {NoNews}]
    /\ tmp \in [Weeks -> Inodes \cup {NoNews}]
    /\ writer \in [DOMAIN Writers -> WriterStates]
    /\ gate \in [Processes -> [Weeks -> Int \cup {NoNews}]]
    /\ batches \in Nat
    /\ said \in [Weeks -> SUBSET Nat]

\* A writer is at a week of its batch, which says only what was said, and has a
\* file open exactly while it writes.
WriterTells(x) ==
    /\ writer[x].pc \in {"save", "write", "rename"} => writer[x].at \in DOMAIN writer[x].batch
    /\ \A w \in DOMAIN writer[x].batch : writer[x].batch[w] \in said[w]
    /\ writer[x].file # NoNews <=> writer[x].pc = "write"

\* The week has the file: by its name, its temporary name, or open in a writer.
Holds(w, i) ==
    \/ named[w] = i
    \/ tmp[w] = i
    \/ \E x \in DOMAIN Writers : writer[x].file = i /\ writer[x].at = w

\* No two weeks ever have one file, even after a rename under a writer's feet.
OneWeekEach ==
    \A i \in Inodes : \A v, w \in Weeks : Holds(v, i) /\ Holds(w, i) => v = w

\* A file under a name is torn, or holds what was said of that week.
FilesTell ==
    \A w \in Weeks, i \in Inodes :
        named[w] = i \/ tmp[w] = i => content[i] \in said[w] \cup {Torn}

NewsInv ==
    /\ NewsTypeOK
    /\ \A x \in DOMAIN Writers : WriterTells(x)
    /\ OneWeekEach
    /\ FilesTell
    /\ CoveredIsKnown

\* A function has no more values than arguments.
LEMMA Values ==
    ASSUME NEW S, IsFiniteSet(S), NEW f, S \subseteq DOMAIN f
    PROVE  /\ IsFiniteSet({f[s] : s \in S})
           /\ Cardinality({f[s] : s \in S}) <= Cardinality(S)
  <1> DEFINE T == {f[s] : s \in S}
             g == [s \in S |-> f[s]]
  <1>1. g \in Surjection(S, T)
    BY DEF Surjection
  <1> QED BY <1>1, FS_Surjection

LEMMA UnionBound ==
    ASSUME NEW S, NEW T, IsFiniteSet(S), IsFiniteSet(T)
    PROVE  /\ IsFiniteSet(S \cup T)
           /\ Cardinality(S \cup T) <= Cardinality(S) + Cardinality(T)
           /\ Cardinality(S) \in Nat /\ Cardinality(T) \in Nat
           /\ Cardinality(S \cup T) \in Nat
  <1>1. IsFiniteSet(S \cap T) /\ Cardinality(S \cap T) \in Nat
    BY FS_Subset, FS_CardinalityType
  <1>2. /\ IsFiniteSet(S \cup T)
        /\ Cardinality(S \cup T) = Cardinality(S) + Cardinality(T) - Cardinality(S \cap T)
    BY FS_Union
  <1>3. Cardinality(S) \in Nat /\ Cardinality(T) \in Nat /\ Cardinality(S \cup T) \in Nat
    BY <1>2, FS_CardinalityType
  <1> QED BY <1>1, <1>2, <1>3

\* Weeks and writers have more files than they can hold.
LEMMA MoreFiles ==
    ASSUME NEW W \in Nat, NEW X \in Nat, W # 0, X # 0
    PROVE  /\ W * (X + 1) \in Nat
           /\ W * (X + 1) > W + (W - 1) + (X - 1)
  <1>1. PICK a \in Nat, b \in Nat : W = a + 1 /\ X = b + 1
    BY W - 1 \in Nat, X - 1 \in Nat
  <1>2. a * b \in Nat
    OBVIOUS
  <1>3. (a + 1) * (b + 2) = a * b + 2 * a + b + 2
    OBVIOUS
  <1> QED BY <1>1, <1>2, <1>3

\* A writer that opens a temporary file nobody has finds one that is free.
LEMMA FileIsFree ==
    ASSUME NewsTypeOK, NEW x \in DOMAIN Writers, NEW w \in Weeks,
           tmp[w] = NoNews, writer[x].file = NoNews
    PROVE  Min(Inodes \ Linked) \in Inodes \ Linked
  <1> DEFINE W == Cardinality(Weeks)
             X == Cardinality(DOMAIN Writers)
             A == {named[v] : v \in Weeks}
             B == {tmp[v] : v \in Weeks \ {w}}
             files == [y \in DOMAIN Writers |-> writer[y].file]
             C == {files[y] : y \in DOMAIN Writers \ {x}}
  <1>1. W \in Nat /\ X \in Nat /\ W # 0 /\ X # 0
    BY FS_CardinalityType, FS_EmptySet, NewsAssumption
  <1>2. IsFiniteSet(A) /\ Cardinality(A) <= W
    BY Values, NewsAssumption DEF NewsTypeOK
  <1>3. /\ IsFiniteSet(Weeks \ {w}) /\ Cardinality(Weeks \ {w}) = W - 1
        /\ IsFiniteSet(DOMAIN Writers \ {x}) /\ Cardinality(DOMAIN Writers \ {x}) = X - 1
    BY FS_RemoveElement, NewsAssumption
  <1>4. IsFiniteSet(B) /\ Cardinality(B) <= W - 1
    <2>1. Weeks \ {w} \subseteq DOMAIN tmp
      BY DEF NewsTypeOK
    <2> QED BY <1>3, <2>1, Values
  <1>5. IsFiniteSet(C) /\ Cardinality(C) <= X - 1
    <2>1. DOMAIN Writers \ {x} \subseteq DOMAIN files
      OBVIOUS
    <2> HIDE DEF files
    <2> QED BY <1>3, <2>1, Values
  <1>6. Inodes \cap Linked \subseteq A \cup B \cup C
    <2>1. NoNews \notin Inodes
      BY <1>1, MoreFiles, NewsAssumption DEF Inodes
    <2> QED BY <2>1 DEF Linked, NewsTypeOK
  <1>7. IsFiniteSet(A \cup B) /\ Cardinality(A \cup B) <= W + (W - 1)
    <2> HIDE DEF A, B, W
    <2>1. /\ IsFiniteSet(A \cup B)
          /\ Cardinality(A \cup B) <= Cardinality(A) + Cardinality(B)
          /\ Cardinality(A) \in Nat /\ Cardinality(B) \in Nat /\ Cardinality(A \cup B) \in Nat
      BY <1>2, <1>4, UnionBound
    <2> QED BY <1>1, <1>2, <1>4, <2>1
  <1>8. IsFiniteSet(A \cup B \cup C) /\ Cardinality(A \cup B \cup C) <= W + (W - 1) + (X - 1)
    <2> HIDE DEF A, B, C, W, X
    <2>1. /\ IsFiniteSet((A \cup B) \cup C)
          /\ Cardinality((A \cup B) \cup C) <= Cardinality(A \cup B) + Cardinality(C)
          /\ Cardinality(A \cup B) \in Nat /\ Cardinality(C) \in Nat
          /\ Cardinality((A \cup B) \cup C) \in Nat
      BY <1>5, <1>7, UnionBound
    <2> QED BY <1>1, <1>5, <1>7, <2>1
  <1> HIDE DEF A, B, C, W, X, files
  <1>9. Cardinality(Inodes) = W * (X + 1)
    <2>1. PICK n \in Nat : n = W * (X + 1)
      BY <1>1, MoreFiles
    <2>2. Inodes = 1..n
      BY <2>1 DEF Inodes, W, X
    <2>3. Cardinality(1..n) = n
      BY FS_Interval
    <2> QED BY <2>1, <2>2, <2>3
  <1>10. ~(Inodes \subseteq A \cup B \cup C)
    <2>1. W * (X + 1) \in Nat /\ W * (X + 1) > W + (W - 1) + (X - 1)
      BY <1>1, MoreFiles
    <2>2. Inodes \subseteq A \cup B \cup C => Cardinality(Inodes) <= Cardinality(A \cup B \cup C)
      BY <1>8, FS_Subset
    <2>3. Cardinality(A \cup B \cup C) \in Nat
      BY <1>8, FS_CardinalityType
    <2> QED BY <1>1, <1>8, <1>9, <2>1, <2>2, <2>3
  <1>11. Inodes \ Linked # {}
    BY <1>6, <1>10
  <1>12. Inodes \ Linked \in SUBSET Nat
    BY <1>1, MoreFiles DEF Inodes
  <1> QED BY <1>11, <1>12, MinOfNaturals

LEMMA NewsInitHolds ==
    ASSUME NewsInit
    PROVE  NewsInv
  <1>1. IdleWriter \in WriterStates
    <2>1. <<>> \in [{} -> Nat]
      OBVIOUS
    <2> QED BY <2>1 DEF IdleWriter, WriterStates
  <1>2. NewsTypeOK
    BY <1>1 DEF NewsInit, NewsTypeOK, NoWeeks, Torn
  <1>3. \A x \in DOMAIN Writers : WriterTells(x)
    BY DEF NewsInit, WriterTells, IdleWriter
  <1>4. NoNews \notin Inodes
    BY NewsAssumption DEF Inodes
  <1>5. OneWeekEach /\ FilesTell
    BY <1>4 DEF NewsInit, OneWeekEach, FilesTell, Holds, NoWeeks, IdleWriter
  <1>6. CoveredIsKnown
    BY DEF NewsInit, CoveredIsKnown, NoWeeks
  <1> QED BY <1>2, <1>3, <1>5, <1>6 DEF NewsInv

\* No file is absence.
LEMMA NoFile ==
    NoNews \notin Inodes /\ \A w \in Weeks : w \in Nat
  BY NewsAssumption DEF Inodes

\* A filter keeps what it holds while what was said only grows.
LEMMA FiltersKept ==
    ASSUME NewsInv, gate' = gate, \A w \in Weeks : said[w] \subseteq said'[w]
    PROVE  CoveredIsKnown'
  BY DEF NewsInv, CoveredIsKnown

\* A writer that is not at work tells nothing.
LEMMA IdleTells ==
    ASSUME NEW x \in DOMAIN Writers, NEW pc \in {"idle", "reload"},
           writer'[x] = [IdleWriter EXCEPT !.pc = pc]
    PROVE  /\ WriterTells(x)'
           /\ writer'[x] \in WriterStates
           /\ writer'[x].file = NoNews
  <1>1. <<>> \in [{} -> Nat]
    OBVIOUS
  <1>2. [IdleWriter EXCEPT !.pc = pc] = [pc |-> pc, batch |-> <<>>, at |-> 0, file |-> NoNews]
    BY DEF IdleWriter
  <1>3. writer'[x].pc = pc /\ writer'[x].file = NoNews /\ DOMAIN writer'[x].batch = {}
    BY <1>2
  <1>4. writer'[x] \in WriterStates
    <2>1. {} \in SUBSET Weeks
      OBVIOUS
    <2>2. <<>> \in UNION {[told -> Nat] : told \in SUBSET Weeks}
      BY <1>1, <2>1
    <2> DEFINE B == UNION {[told -> Nat] : told \in SUBSET Weeks}
    <2>3. <<>> \in B
      BY <2>2
    <2> HIDE DEF B
    <2>4. [pc |-> pc, batch |-> <<>>, at |-> 0, file |-> NoNews]
             \in [pc : {"idle", "save", "write", "rename", "reload"}, batch : B,
                  at : Nat, file : Inodes \cup {NoNews}]
      BY <2>3
    <2> QED BY <1>2, <2>4 DEF WriterStates, B
  <1>5. WriterTells(x)'
    BY <1>3 DEF WriterTells
  <1> QED BY <1>3, <1>4, <1>5

LEMMA FetchSafe ==
    ASSUME NewsInv, NEW x \in DOMAIN Writers, Fetch(x)
    PROVE  NewsInv'
  <1> USE DEF NewsInv
  <1>1. PICK chosen \in IF Writers[x].importer THEN (SUBSET Weeks) \ {{}} ELSE {{week}} :
           /\ Turn(x, [pc |-> "save", at |-> Min(chosen), file |-> NoNews,
                       batch |-> [w \in WeeksOf(chosen) |-> IF w \in chosen THEN batches' ELSE 0]])
           /\ said' = [w \in Weeks |-> IF w \in chosen THEN said[w] \cup {batches'} ELSE said[w]]
    BY DEF Fetch
  <1>2. chosen \in SUBSET Weeks /\ chosen # {}
    <2>1. week \in Weeks
      BY DEF NewsTypeOK
    <2>2. CASE Writers[x].importer
      <3>1. chosen \in (SUBSET Weeks) \ {{}}
        BY <1>1, <2>2, Zenon
      <3> QED BY <3>1
    <2>3. CASE ~Writers[x].importer
      <3>1. chosen \in {{week}}
        BY <1>1, <2>3, Zenon
      <3> QED BY <2>1, <3>1
    <2> QED BY <2>2, <2>3
  <1>3. batches' \in Nat
    BY DEF Fetch, NewsTypeOK
  <1>4. Min(chosen) \in chosen /\ Min(chosen) \in Nat
    BY <1>2, MinOfNaturals, NewsAssumption
  <1> DEFINE r == [pc |-> "save", batch |-> [w \in chosen |-> batches'],
                   at |-> Min(chosen), file |-> NoNews]
  <1>5. [w \in WeeksOf(chosen) |-> IF w \in chosen THEN batches' ELSE 0] = [w \in chosen |-> batches']
    BY DEF WeeksOf
  <1>6. writer' = [writer EXCEPT ![x] = r]
    BY <1>1, <1>5 DEF Turn
  <1>7. r \in WriterStates
    BY <1>2, <1>3, <1>4 DEF WriterStates
  <1>8. /\ r.pc = "save" /\ r.file = NoNews /\ r.at \in DOMAIN r.batch
        /\ \A w \in DOMAIN r.batch : w \in chosen /\ r.batch[w] = batches'
    BY <1>4
  <1> HIDE DEF r
  <1>9. /\ \A w \in Weeks : said[w] \subseteq said'[w]
        /\ \A w \in chosen : batches' \in said'[w]
        /\ said' \in [Weeks -> SUBSET Nat]
    BY <1>1, <1>2, <1>3 DEF NewsTypeOK
  <1>10. NewsTypeOK'
    BY <1>3, <1>6, <1>7, <1>9 DEF Fetch, NewsTypeOK
  <1>11. ASSUME NEW y \in DOMAIN Writers PROVE WriterTells(y)'
    <2>1. CASE y = x
      <3>1. writer'[y] = r
        BY <1>6, <2>1 DEF NewsTypeOK
      <3> QED BY <1>8, <1>9, <3>1 DEF WriterTells
    <2>2. CASE y # x
      <3>1. writer'[y] = writer[y]
        BY <1>6, <2>2 DEF NewsTypeOK
      <3>2. writer[y].batch \in UNION {[told -> Nat] : told \in SUBSET Weeks}
        BY DEF NewsTypeOK, WriterStates
      <3>3. DOMAIN writer[y].batch \subseteq Weeks
        BY <3>2
      <3> QED BY <1>9, <3>1, <3>3 DEF WriterTells
    <2> QED BY <2>1, <2>2
  <1>12. \A w \in Weeks, i \in Inodes : Holds(w, i)' => Holds(w, i)
    BY <1>6, <1>8, NoFile DEF Holds, Fetch, NewsTypeOK
  <1>13. OneWeekEach'
    BY <1>12 DEF OneWeekEach
  <1>14. FilesTell'
    BY <1>9 DEF FilesTell, Fetch
  <1>15. CoveredIsKnown'
    BY <1>9, FiltersKept DEF Fetch
  <1> QED BY <1>10, <1>11, <1>13, <1>14, <1>15

\* A step that only ends the work of writers, or moves them on.
LEMMA WriterRests ==
    ASSUME NewsInv, UNCHANGED <<content, named, tmp, batches, said>>,
           week' \in Weeks, gate' \in [Processes -> [Weeks -> Int \cup {NoNews}]],
           NEW S \in SUBSET DOMAIN Writers,
           writer' = [y \in DOMAIN Writers |-> IF y \in S THEN IdleWriter ELSE writer[y]],
           CoveredIsKnown'
    PROVE  NewsInv'
  <1> USE DEF NewsInv
  <1>0. IdleWriter = [IdleWriter EXCEPT !.pc = "idle"]
    BY DEF IdleWriter
  <1>1. ASSUME NEW y \in DOMAIN Writers
        PROVE  /\ WriterTells(y)' /\ writer'[y] \in WriterStates
               /\ writer'[y].file # NoNews => writer'[y] = writer[y]
    <2>1. CASE y \in S
      <3>1. writer'[y] = [IdleWriter EXCEPT !.pc = "idle"]
        BY <1>0, <2>1
      <3> QED BY <3>1, IdleTells
    <2>2. CASE y \notin S
      <3>1. writer'[y] = writer[y]
        BY <2>2
      <3> QED BY <3>1 DEF WriterTells, NewsTypeOK
    <2> QED BY <2>1, <2>2
  <1>2. NewsTypeOK'
    BY <1>1 DEF NewsTypeOK
  <1>3. \A w \in Weeks, i \in Inodes : Holds(w, i)' => Holds(w, i)
    BY <1>1, NoFile DEF Holds
  <1>4. OneWeekEach'
    BY <1>3 DEF OneWeekEach
  <1>5. FilesTell'
    BY DEF FilesTell
  <1> QED BY <1>1, <1>2, <1>4, <1>5

LEMMA NextWeekSafe ==
    ASSUME NewsInv, NextWeek
    PROVE  NewsInv'
  <1> DEFINE S == {}
  <1>1. writer' = [y \in DOMAIN Writers |-> IF y \in S THEN IdleWriter ELSE writer[y]]
    BY DEF NextWeek, NewsInv, NewsTypeOK
  <1>2. CoveredIsKnown'
    BY FiltersKept DEF NextWeek
  <1>3. week' \in Weeks /\ gate' \in [Processes -> [Weeks -> Int \cup {NoNews}]]
    BY DEF NextWeek, NewsInv, NewsTypeOK
  <1>9. S \in SUBSET DOMAIN Writers
    OBVIOUS
  <1> HIDE DEF S
  <1> QED BY <1>9, <1>1, <1>2, <1>3, WriterRests DEF NextWeek

LEMMA FailSafe ==
    ASSUME NewsInv, NEW x \in DOMAIN Writers, Fail(x)
    PROVE  NewsInv'
  <1> DEFINE S == {x}
  <1>1. writer' = [y \in DOMAIN Writers |-> IF y \in S THEN IdleWriter ELSE writer[y]]
    BY DEF Fail, Turn, NewsInv, NewsTypeOK
  <1>2. CoveredIsKnown'
    BY FiltersKept DEF Fail
  <1>3. week' \in Weeks /\ gate' \in [Processes -> [Weeks -> Int \cup {NoNews}]]
    BY DEF Fail, NewsInv, NewsTypeOK
  <1>9. S \in SUBSET DOMAIN Writers
    OBVIOUS
  <1> HIDE DEF S
  <1> QED BY <1>9, <1>1, <1>2, <1>3, WriterRests DEF Fail

\* What an archive that can be read says was said.
LEMMA LoadTells ==
    ASSUME NewsInv
    PROVE  /\ LoadArchive \in [Weeks -> Int \cup {NoNews}]
           /\ \A w \in Weeks : LoadArchive[w] # NoNews => LoadArchive[w] \in said[w]
  <1> USE DEF NewsInv
  <1>1. CASE Unreadable
    BY <1>1 DEF LoadArchive, NoWeeks
  <1>2. CASE ~Unreadable
    <2>1. ASSUME NEW w \in Weeks
          PROVE  /\ Archived(w) \in Int \cup {NoNews}
                 /\ Archived(w) # NoNews => Archived(w) \in said[w]
      <3>1. CASE named[w] = NoNews
        BY <3>1 DEF Archived
      <3>2. CASE named[w] # NoNews
        <4>1. PICK i \in Inodes : named[w] = i
          BY <3>2 DEF NewsTypeOK
        <4>2. Archived(w) = content[i] /\ content[i] # Torn
          BY <1>2, <3>2, <4>1 DEF Archived, Unreadable
        <4>3. content[i] \in said[w] \cup {Torn}
          BY <4>1 DEF FilesTell
        <4> QED BY <4>1, <4>2, <4>3 DEF NewsTypeOK
      <3> QED BY <3>1, <3>2
    <2> QED BY <1>2, <2>1 DEF LoadArchive
  <1> QED BY <1>1, <1>2

\* A filter published from the archive covers what was said.
LEMMA PublishedTells ==
    ASSUME NewsInv, NEW p \in Processes,
           gate' = [gate EXCEPT ![p] = LoadArchive], said' = said
    PROVE  /\ gate' \in [Processes -> [Weeks -> Int \cup {NoNews}]]
           /\ CoveredIsKnown'
  <1>1. gate \in [Processes -> [Weeks -> Int \cup {NoNews}]]
    BY DEF NewsInv, NewsTypeOK
  <1>2. gate' \in [Processes -> [Weeks -> Int \cup {NoNews}]]
    BY <1>1, LoadTells
  <1>3. ASSUME NEW q \in Processes, NEW w \in Weeks, gate'[q][w] # NoNews
        PROVE  gate'[q][w] \in said'[w]
    <2>1. CASE q = p
      <3>1. gate'[q] = LoadArchive
        BY <1>1, <2>1
      <3> QED BY <1>3, <3>1, LoadTells
    <2>2. CASE q # p
      <3>1. gate'[q] = gate[q]
        BY <1>1, <2>2
      <3> QED BY <1>3, <3>1 DEF NewsInv, CoveredIsKnown
    <2> QED BY <2>1, <2>2
  <1> QED BY <1>2, <1>3 DEF CoveredIsKnown

LEMMA ReloadFilterSafe ==
    ASSUME NewsInv, NEW x \in DOMAIN Writers, ReloadFilter(x)
    PROVE  NewsInv'
  <1> DEFINE S == {x}
  <1>1. writer' = [y \in DOMAIN Writers |-> IF y \in S THEN IdleWriter ELSE writer[y]]
    BY DEF ReloadFilter, Turn, NewsInv, NewsTypeOK
  <1>2. PICK p \in Processes : p = Writers[x].process
    BY DEF Processes
  <1>3. /\ gate' \in [Processes -> [Weeks -> Int \cup {NoNews}]]
        /\ CoveredIsKnown'
    BY <1>2, PublishedTells DEF ReloadFilter
  <1>4. week' \in Weeks
    BY DEF ReloadFilter, NewsInv, NewsTypeOK
  <1>9. S \in SUBSET DOMAIN Writers
    OBVIOUS
  <1> HIDE DEF S
  <1> QED BY <1>9, <1>1, <1>3, <1>4, WriterRests DEF ReloadFilter

LEMMA RestartSafe ==
    ASSUME NewsInv, NEW p \in Processes, Restart(p)
    PROVE  NewsInv'
  <1> DEFINE S == {y \in DOMAIN Writers : Writers[y].process = p}
  <1>1. writer' = [y \in DOMAIN Writers |-> IF y \in S THEN IdleWriter ELSE writer[y]]
    BY DEF Restart
  <1>2. /\ gate' \in [Processes -> [Weeks -> Int \cup {NoNews}]]
        /\ CoveredIsKnown'
    BY PublishedTells DEF Restart
  <1>3. week' \in Weeks /\ S \in SUBSET DOMAIN Writers
    BY DEF Restart, NewsInv, NewsTypeOK
  <1> HIDE DEF S
  <1> QED BY <1>1, <1>2, <1>3, WriterRests DEF Restart

\* Where a writer at work stands.
LEMMA WriterStands ==
    ASSUME NewsInv, NEW x \in DOMAIN Writers,
           writer[x].pc \in {"save", "write", "rename"}
    PROVE  /\ writer[x] \in WriterStates
           /\ DOMAIN writer[x].batch \subseteq Weeks
           /\ writer[x].at \in Weeks /\ writer[x].at \in DOMAIN writer[x].batch
           /\ writer[x].batch[writer[x].at] \in said[writer[x].at]
           /\ WriterTells(x)
  <1>1. writer[x] \in WriterStates /\ WriterTells(x)
    BY DEF NewsInv, NewsTypeOK
  <1>2. writer[x].batch \in UNION {[told -> Nat] : told \in SUBSET Weeks}
    BY <1>1 DEF WriterStates
  <1>3. DOMAIN writer[x].batch \subseteq Weeks
    BY <1>2
  <1> QED BY <1>1, <1>3 DEF WriterTells

\* What one writer's step leaves of the others.
LEMMA OthersTell ==
    ASSUME NewsInv, NEW x \in DOMAIN Writers, NEW r,
           writer' = [writer EXCEPT ![x] = r], said' = said
    PROVE  /\ writer'[x] = r
           /\ \A y \in DOMAIN Writers \ {x} : writer'[y] = writer[y] /\ WriterTells(y)'
  <1>1. ASSUME NEW y \in DOMAIN Writers \ {x}
        PROVE  writer'[y] = writer[y] /\ WriterTells(y)'
    <2>1. writer'[y] = writer[y]
      BY DEF NewsInv, NewsTypeOK
    <2> QED BY <2>1 DEF NewsInv, WriterTells
  <1> QED BY <1>1 DEF NewsInv, NewsTypeOK

\* The weeks stay apart when one of them takes a file that no other has.
LEMMA WeeksApart ==
    ASSUME OneWeekEach, NEW w \in Weeks, NEW i \in Inodes,
           \A v \in Weeks : Holds(v, i) => v = w,
           \A v \in Weeks, j \in Inodes : Holds(v, j)' => Holds(v, j) \/ (j = i /\ v = w)
    PROVE  OneWeekEach'
  BY DEF OneWeekEach

LEMMA OpenTempSafe ==
    ASSUME NewsInv, NEW x \in DOMAIN Writers, OpenTemp(x)
    PROVE  NewsInv'
  <1>1. PICK w \in Weeks : w = writer[x].at
    BY WriterStands DEF OpenTemp
  <1>2. PICK i \in IF tmp[w] # NoNews THEN {tmp[w]} ELSE {Min(Inodes \ Linked)} :
         /\ tmp' = [tmp EXCEPT ![w] = i]
         /\ content' = [content EXCEPT ![i] = Torn]
         /\ writer' = [writer EXCEPT ![x] = [writer[x] EXCEPT !.pc = "write", !.file = i]]
    BY <1>1 DEF OpenTemp, Turn
  <1>3. /\ writer[x].pc = "save" /\ writer[x].file = NoNews
        /\ UNCHANGED <<week, named, gate, batches, said>>
    BY WriterStands DEF OpenTemp, WriterTells
  <1>4. i \in Inodes /\ \A v \in Weeks : Holds(v, i) => v = w
    <2>1. CASE tmp[w] # NoNews
      <3>1. i = tmp[w]
        BY <1>2, <2>1
      <3>2. i \in Inodes /\ Holds(w, i)
        BY <2>1, <3>1 DEF NewsInv, NewsTypeOK, Holds
      <3> QED BY <3>2 DEF NewsInv, OneWeekEach
    <2>2. CASE tmp[w] = NoNews
      <3>1. i = Min(Inodes \ Linked)
        BY <1>2, <2>2
      <3>2. i \in Inodes \ Linked
        BY <1>3, <2>2, <3>1, FileIsFree DEF NewsInv
      <3> QED BY <3>2 DEF Holds, Linked
    <2> QED BY <2>1, <2>2
  <1> DEFINE r == [writer[x] EXCEPT !.pc = "write", !.file = i]
  <1>5. /\ r \in WriterStates
        /\ r.pc = "write" /\ r.file = i /\ r.at = w /\ r.batch = writer[x].batch
    BY <1>1, <1>3, <1>4, WriterStands DEF WriterStates
  <1> HIDE DEF r
  <1>6. /\ writer' = [writer EXCEPT ![x] = r] /\ writer'[x] = r
        /\ \A y \in DOMAIN Writers \ {x} : writer'[y] = writer[y] /\ WriterTells(y)'
    BY <1>2, <1>3, OthersTell DEF r
  <1>7. NewsTypeOK'
    BY <1>2, <1>3, <1>4, <1>5, <1>6 DEF NewsInv, NewsTypeOK, Torn
  <1>8. WriterTells(x)'
    <2>1. w \in DOMAIN r.batch /\ \A v \in DOMAIN r.batch : r.batch[v] \in said[v]
      BY <1>1, <1>3, <1>5, WriterStands DEF WriterTells
    <2> QED BY <1>3, <1>4, <1>5, <1>6, <2>1, NoFile DEF WriterTells
  <1>9. \A v \in Weeks, j \in Inodes : Holds(v, j)' => Holds(v, j) \/ (j = i /\ v = w)
    <2>1. ASSUME NEW v \in Weeks, NEW j \in Inodes, Holds(v, j)'
          PROVE  Holds(v, j) \/ (j = i /\ v = w)
      <3>1. CASE named'[v] = j
        BY <1>3, <3>1 DEF Holds
      <3>2. CASE tmp'[v] = j
        BY <1>2, <3>2 DEF Holds, NewsInv, NewsTypeOK
      <3>3. CASE \E y \in DOMAIN Writers : writer'[y].file = j /\ writer'[y].at = v
        BY <1>5, <1>6, <3>3 DEF Holds
      <3> QED BY <2>1, <3>1, <3>2, <3>3 DEF Holds
    <2> QED BY <2>1
  <1>10. OneWeekEach'
    BY <1>4, <1>9, WeeksApart DEF NewsInv
  <1>11. FilesTell'
    <2>1. ASSUME NEW v \in Weeks, NEW j \in Inodes, named'[v] = j \/ tmp'[v] = j
          PROVE  content'[j] \in said'[v] \cup {Torn}
      <3>1. CASE j = i
        BY <1>2, <3>1 DEF NewsInv, NewsTypeOK
      <3>2. CASE j # i
        <4>1. content'[j] = content[j]
          BY <1>2, <3>2 DEF NewsInv, NewsTypeOK
        <4>2. named[v] = j \/ tmp[v] = j
          BY <1>2, <1>3, <2>1, <3>2 DEF NewsInv, NewsTypeOK
        <4> QED BY <1>3, <4>1, <4>2 DEF NewsInv, FilesTell
      <3> QED BY <3>1, <3>2
    <2> QED BY <2>1 DEF FilesTell
  <1>12. CoveredIsKnown'
    BY <1>3, FiltersKept
  <1> QED BY <1>6, <1>7, <1>8, <1>10, <1>11, <1>12 DEF NewsInv

LEMMA WriteSafe ==
    ASSUME NewsInv, NEW x \in DOMAIN Writers, Write(x)
    PROVE  NewsInv'
  <1>1. PICK w \in Weeks : w = writer[x].at
    BY WriterStands DEF Write
  <1>2. PICK i \in Inodes : i = writer[x].file
    BY WriterStands DEF Write, WriterTells, WriterStates
  <1>3. PICK wrote : /\ wrote \in {writer[x].batch[w], Torn}
                     /\ content' = [content EXCEPT ![i] = wrote]
    <2>1. \E wrote \in {writer[x].batch[w]} \cup (IF content[i] # Torn THEN {Torn} ELSE {}) :
             content' = [content EXCEPT ![i] = wrote]
      BY <1>1, <1>2 DEF Write
    <2> QED BY <2>1
  <1>4. /\ writer[x].pc = "write"
        /\ UNCHANGED <<week, named, tmp, gate, batches, said>>
    BY DEF Write
  <1>5. wrote \in said[w] \cup {Torn} /\ wrote \in Int
    BY <1>1, <1>3, <1>4, WriterStands DEF NewsInv, NewsTypeOK, Torn
  <1> DEFINE r == [writer[x] EXCEPT !.pc = "rename", !.file = NoNews]
  <1>6. /\ r \in WriterStates
        /\ r.pc = "rename" /\ r.file = NoNews /\ r.at = w /\ r.batch = writer[x].batch
    BY <1>1, <1>4, WriterStands DEF WriterStates
  <1>7. writer' = [writer EXCEPT ![x] = r]
    BY DEF Write, Turn
  <1> HIDE DEF r
  <1>8. /\ writer'[x] = r
        /\ \A y \in DOMAIN Writers \ {x} : writer'[y] = writer[y] /\ WriterTells(y)'
    BY <1>4, <1>7, OthersTell
  <1>9. NewsTypeOK'
    BY <1>3, <1>4, <1>5, <1>6, <1>7 DEF NewsInv, NewsTypeOK
  <1>10. WriterTells(x)'
    <2>1. w \in DOMAIN r.batch /\ \A v \in DOMAIN r.batch : r.batch[v] \in said[v]
      BY <1>1, <1>4, <1>6, WriterStands DEF WriterTells
    <2> QED BY <1>4, <1>6, <1>8, <2>1 DEF WriterTells
  <1>11. \A v \in Weeks, j \in Inodes : Holds(v, j)' => Holds(v, j)
    BY <1>4, <1>6, <1>8, NoFile DEF Holds
  <1>12. OneWeekEach'
    BY <1>11 DEF NewsInv, OneWeekEach
  <1>13. FilesTell'
    <2>1. ASSUME NEW v \in Weeks, NEW j \in Inodes, named'[v] = j \/ tmp'[v] = j
          PROVE  content'[j] \in said'[v] \cup {Torn}
      <3>1. CASE j = i
        <4>1. Holds(v, i) /\ Holds(w, i)
          BY <1>1, <1>2, <1>4, <2>1, <3>1 DEF Holds
        <4>2. v = w
          BY <4>1 DEF NewsInv, OneWeekEach
        <4>3. content'[j] = wrote
          BY <1>3, <3>1 DEF NewsInv, NewsTypeOK
        <4> QED BY <1>4, <1>5, <4>2, <4>3
      <3>2. CASE j # i
        <4>1. content'[j] = content[j]
          BY <1>3, <3>2 DEF NewsInv, NewsTypeOK
        <4> QED BY <1>4, <2>1, <4>1 DEF NewsInv, FilesTell
      <3> QED BY <3>1, <3>2
    <2> QED BY <2>1 DEF FilesTell
  <1>14. CoveredIsKnown'
    BY <1>4, FiltersKept
  <1> QED BY <1>8, <1>9, <1>10, <1>12, <1>13, <1>14 DEF NewsInv

LEMMA RenameSafe ==
    ASSUME NewsInv, NEW x \in DOMAIN Writers, Rename(x)
    PROVE  NewsInv'
  <1>1. PICK w \in Weeks : w = writer[x].at
    BY WriterStands DEF Rename
  <1>2. /\ writer[x].pc = "rename" /\ writer[x].file = NoNews
        /\ UNCHANGED <<week, content, gate, batches, said>>
    BY WriterStands DEF Rename, WriterTells
  <1>3. CASE tmp[w] = NoNews
    <2> DEFINE S == {x}
    <2>1. writer' = [y \in DOMAIN Writers |-> IF y \in S THEN IdleWriter ELSE writer[y]]
      BY <1>1, <1>3 DEF Rename, Turn, NewsInv, NewsTypeOK
    <2>2. CoveredIsKnown' /\ UNCHANGED <<named, tmp>>
      BY <1>1, <1>2, <1>3, FiltersKept DEF Rename
    <2>3. week' \in Weeks /\ gate' \in [Processes -> [Weeks -> Int \cup {NoNews}]]
      BY <1>2 DEF NewsInv, NewsTypeOK
    <2>4. S \in SUBSET DOMAIN Writers
      OBVIOUS
    <2> HIDE DEF S
    <2> QED BY <1>2, <2>1, <2>2, <2>3, <2>4, WriterRests
  <1>4. CASE tmp[w] # NoNews
    <2>1. PICK i \in Inodes : i = tmp[w]
      BY <1>4 DEF NewsInv, NewsTypeOK
    <2> DEFINE later == {v \in DOMAIN writer[x].batch : v > w}
               r == IF later = {} THEN [IdleWriter EXCEPT !.pc = "reload"]
                    ELSE [writer[x] EXCEPT !.pc = "save", !.at = Min(later)]
    <2>2. /\ named' = [named EXCEPT ![w] = i] /\ tmp' = [tmp EXCEPT ![w] = NoNews]
          /\ writer' = [writer EXCEPT ![x] = r]
      BY <1>1, <1>4, <2>1 DEF Rename, Turn
    <2>3. later \in SUBSET Weeks /\ later \in SUBSET Nat
      BY <1>2, WriterStands, NewsAssumption
    <2>4. ASSUME writer'[x] = r
          PROVE  r \in WriterStates /\ WriterTells(x)' /\ r.file = NoNews
      <3>1. CASE later = {}
        BY <2>4, <3>1, IdleTells
      <3>2. CASE later # {}
        <4>1. Min(later) \in later /\ Min(later) \in Nat
          BY <2>3, <3>2, MinOfNaturals
        <4> DEFINE m == Min(later)
        <4>2. m \in DOMAIN writer[x].batch /\ m \in Nat
          BY <4>1
        <4>3. r = [writer[x] EXCEPT !.pc = "save", !.at = m]
          BY <3>2
        <4> HIDE DEF m, r, later
        <4>4. /\ r \in WriterStates /\ r.pc = "save" /\ r.at = m
              /\ r.file = NoNews /\ r.batch = writer[x].batch
          BY <1>2, <4>2, <4>3, WriterStands DEF WriterStates
        <4>5. \A v \in DOMAIN r.batch : r.batch[v] \in said[v]
          BY <1>2, <4>4, WriterStands DEF WriterTells
        <4> QED BY <1>2, <2>4, <4>2, <4>4, <4>5 DEF WriterTells
      <3> QED BY <3>1, <3>2
    <2> HIDE DEF r, later
    <2>5. /\ writer'[x] = r
          /\ \A y \in DOMAIN Writers \ {x} : writer'[y] = writer[y] /\ WriterTells(y)'
      BY <1>2, <2>2, OthersTell
    <2>6. NewsTypeOK'
      BY <1>2, <2>2, <2>4, <2>5 DEF NewsInv, NewsTypeOK
    <2>7. \A v \in Weeks, j \in Inodes :
             /\ named'[v] = j \/ tmp'[v] = j => named[v] = j \/ tmp[v] = j
             /\ Holds(v, j)' => Holds(v, j)
      <3>1. ASSUME NEW v \in Weeks, NEW j \in Inodes, named'[v] = j \/ tmp'[v] = j
            PROVE  named[v] = j \/ tmp[v] = j
        BY <2>1, <2>2, <3>1, NoFile DEF NewsInv, NewsTypeOK
      <3>2. ASSUME NEW v \in Weeks, NEW j \in Inodes, NEW y \in DOMAIN Writers,
                   writer'[y].file = j, writer'[y].at = v
            PROVE  writer[y].file = j /\ writer[y].at = v
        BY <2>4, <2>5, <3>2, NoFile
      <3>3. ASSUME NEW v \in Weeks, NEW j \in Inodes, Holds(v, j)'
            PROVE  Holds(v, j)
        <4>1. CASE \E y \in DOMAIN Writers : writer'[y].file = j /\ writer'[y].at = v
          BY <3>2, <4>1 DEF Holds
        <4>2. CASE named'[v] = j \/ tmp'[v] = j
          BY <3>1, <4>2 DEF Holds
        <4> QED BY <3>3, <4>1, <4>2 DEF Holds
      <3> QED BY <3>1, <3>3
    <2>8. OneWeekEach'
      BY <2>7 DEF NewsInv, OneWeekEach
    <2>9. FilesTell'
      BY <1>2, <2>7 DEF NewsInv, FilesTell
    <2>10. CoveredIsKnown'
      BY <1>2, FiltersKept
    <2> QED BY <2>4, <2>5, <2>6, <2>8, <2>9, <2>10 DEF NewsInv
  <1> QED BY <1>3, <1>4

LEMMA NewsStep ==
    ASSUME NewsInv, [NewsNext]_newsVars
    PROVE  NewsInv'
  <1>1. CASE NextWeek
    BY <1>1, NextWeekSafe
  <1>2. CASE \E x \in DOMAIN Writers :
               Fetch(x) \/ OpenTemp(x) \/ Write(x) \/ Rename(x) \/ Fail(x) \/ ReloadFilter(x)
    BY <1>2, FetchSafe, OpenTempSafe, WriteSafe, RenameSafe, FailSafe, ReloadFilterSafe
  <1>3. CASE \E p \in Processes : Restart(p)
    BY <1>3, RestartSafe
  <1>4. CASE UNCHANGED newsVars
    <2> USE <1>4 DEF NewsInv, newsVars
    <2>1. NewsTypeOK' /\ OneWeekEach' /\ FilesTell' /\ CoveredIsKnown'
      BY DEF NewsTypeOK, OneWeekEach, FilesTell, CoveredIsKnown, Holds
    <2>2. \A x \in DOMAIN Writers : WriterTells(x)'
      BY DEF WriterTells
    <2> QED BY <2>1, <2>2
  <1> QED BY <1>1, <1>2, <1>3, <1>4 DEF NewsNext

\* A week that the news filter covers holds what a source has said of it, whole, even
\* when two processes write the archive at once (archive.go, Save and Load).
THEOREM FiltersTellWhatWasSaid == NewsSpec => []CoveredIsKnown
  <1>1. NewsInit => NewsInv
    BY NewsAssumption, NewsInitHolds
  <1>2. NewsInv /\ [NewsNext]_newsVars => NewsInv'
    BY NewsAssumption, NewsStep
  <1>3. NewsInv => CoveredIsKnown
    BY DEF NewsInv
  <1> QED BY <1>1, <1>2, <1>3, PTL DEF NewsSpec

-----------------------------------------------------------------------------
(* Config: the settings, for every file and every set of variables.

   The argument is a load.  What was not announced is as it was asked for
   (LoadsAsked), what was reset has its default or an ignored variable
   (Resets), and a pass that resets nothing new has met a refusal of what was
   reset already: only a variable and a file that are both refused leave one
   (BothRefused).  Beside it, all that a process may write, now or later, the
   user has asked for (WritesAsked) *)

Settings == [Keys -> Int]
Contents ==
    [kind : Kinds, key : Settings, stray : BOOLEAN]

ProcStates ==
    [pc : {"off", "build", "registries", "running", "writing", "refused"},
     reload : BOOLEAN, env : [EnvKeys -> Int],
     raw : Contents, tree : Settings, changed : BOOLEAN,
     ignored : SUBSET EnvKeys, reset : SUBSET Keys, repairs : SUBSET Keys, passes : Nat,
     next : Contents, then : {"off", "registries", "running"},
     cfg : Settings, asked : Settings, draft : Settings, confirm : BOOLEAN]

\* The user has asked for the value, or nobody has.
Asked(k, v) ==
    \/ v \in typed[k] \cup {Absent, Default[k]}
    \/ k = "name" /\ v = Successor /\ Retired \in typed[k]

AskedAll(s) == \A k \in Keys : Asked(k, s[k])

\* What a process may write, now or later, the user has asked for.
WritesAsked(r) ==
    /\ AskedAll(r.tree)
    /\ r.pc = "writing" => AskedAll(r.next.key)
    /\ \A k \in Keys \ Forced(r.env) : Asked(k, r.cfg[k]) /\ Asked(k, r.draft[k])

\* During the load, what was not announced is as it was asked for.
LoadsAsked(r) ==
    \A k \in Keys \ r.repairs :
        IF k \in Forced(r.env) THEN k \notin r.ignored /\ r.asked[k] = r.env[k]
        ELSE r.tree[k] = r.asked[k] /\ r.asked[k] # Garbled

\* A setting that was reset has its default, or its variable was refused.
Resets(r) ==
    /\ \A k \in Keys : r.tree[k] \in {Prune(r.raw.key)[k], Default[k]}
    /\ \A k \in r.reset :
         /\ k \in Forced(r.env) => k \in r.ignored
         /\ r.tree[k] = Default[k] \/ (k \in Forced(r.env) /\ r.env[k] = Refused)

\* The settings a process runs on, when it has announced its repairs.
Sound(r) ==
    /\ Valid(r.cfg)
    /\ \A k \in Keys \ r.repairs :
         r.cfg[k] = IF r.asked[k] = Absent THEN Default[k] ELSE r.asked[k]

Registered(r) == KnownName(r.cfg["name"]) = r.cfg["name"]

\* The stages of a load, and what stops it.
Stages(r) ==
    /\ r.pc = "build" => Resets(r) /\ r.passes <= Cardinality(r.reset) /\ LoadsAsked(r)
    /\ r.pc = "registries" => ~r.reload
    /\ (r.pc = "writing" /\ r.then = "registries") => ~r.reload
    /\ r.pc = "writing" => r.then \in {"registries", "running"}
    /\ ~r.reload /\ (r.pc \in {"registries", "running", "writing"}) => Sound(r)
    /\ ~r.reload /\ (r.pc = "running" \/ (r.pc = "writing" /\ r.then = "running")) => Registered(r)
    /\ (r.pc = "refused" /\ r.raw.kind \notin {"none", "broken"}) =>
          \E k \in EnvKeys : r.env[k] = Refused /\ r.raw.key[k] = Refused

Process(r) == r \in ProcStates /\ WritesAsked(r) /\ Stages(r)

ConfigInv ==
    /\ file \in Contents
    /\ typed \in [Keys -> SUBSET Int]
    /\ proc \in [Procs -> ProcStates]
    /\ EnvNeverSaved
    /\ \A p \in Procs : Process(proc[p])

-----------------------------------------------------------------------------
(* Settings *)

LEMMA SettingsType ==
    /\ Keys = {"mode", "port", "name", "fixed", "max"}
    /\ EnvKeys \subseteq Keys
    /\ Default \in Settings
    /\ \A k \in Keys : Default[k] \in {1, 2}
    /\ Default["fixed"] = 2 /\ Default["max"] = 2 /\ Default["name"] = 1
  BY DEF Keys, EnvKeys, Default, Settings

LEMMA CitedIs ==
    ASSUME NEW i \in 1..5
    PROVE  /\ DOMAIN Cited[i] \in SUBSET Nat
           /\ 1 \in DOMAIN Cited[i]
           /\ \A j \in DOMAIN Cited[i] : Cited[i][j] \in Keys
           /\ i # 5 => DOMAIN Cited[i] = {1}
           /\ i = 5 => DOMAIN Cited[i] = {1, 2} /\ Cited[i][1] = "fixed" /\ Cited[i][2] = "max"
  <1>1. CASE i = 1
    BY <1>1 DEF Cited, Keys
  <1>2. CASE i = 2
    BY <1>2 DEF Cited, Keys
  <1>3. CASE i = 3
    BY <1>3 DEF Cited, Keys
  <1>4. CASE i = 4
    BY <1>4 DEF Cited, Keys
  <1>5. CASE i = 5
    BY <1>5 DEF Cited, Keys
  <1> QED BY <1>1, <1>2, <1>3, <1>4, <1>5

\* What the repair of a load leaves as it was.
SameLoad(r, s) ==
    /\ s.pc = r.pc /\ s.reload = r.reload /\ s.env = r.env /\ s.raw = r.raw
    /\ s.next = r.next /\ s.then = r.then /\ s.passes = r.passes
    /\ s.cfg = r.cfg /\ s.asked = r.asked /\ s.draft = r.draft
    /\ r.reset \subseteq s.reset /\ r.ignored \subseteq s.ignored

\* A load that may be repaired against the refusals of c.
Repairable(r, c) ==
    /\ AskedAll(r.tree)
    /\ LoadsAsked(r)
    /\ Resets(r)
    /\ \A k \in Forced(r.env) \ r.ignored : c[k] = r.env[k]

\* One refusal is repaired, unless all that it cites was reset before.
LEMMA MendOne ==
    ASSUME NEW r \in ProcStates, NEW c \in Settings, NEW i \in 1..5, Refuses(c, i),
           Repairable(r, c), NEW s, s = Mend(r, Cited[i])
    PROVE  /\ s \in ProcStates /\ SameLoad(r, s) /\ Repairable(s, c)
           /\ s.reset = r.reset => \A j \in DOMAIN Cited[i] : Cited[i][j] \in r.reset
  <1> DEFINE open == {j \in DOMAIN Cited[i] : Cited[i][j] \notin r.reset}
  <1>1. CASE open = {}
    <2>1. s = r
      BY <1>1 DEF Mend
    <2> QED BY <1>1, <2>1 DEF SameLoad
  <1>2. CASE open # {}
    <2>1. open \in SUBSET Nat
      BY CitedIs
    <2>2. Min(open) \in open
      BY <1>2, <2>1, MinOfNaturals
    <2>3. PICK k \in Keys : k = Cited[i][Min(open)] /\ k \notin r.reset
      BY <2>2, CitedIs
    <2>4. i # 5 => c[k] = Refused
      <3>1. i # 5 => k = Cited[i][1]
        BY <2>2, <2>3, CitedIs
      <3> QED BY <3>1 DEF Refuses
    <2>5. i = 5 => k \notin EnvKeys
      BY <2>2, <2>3, CitedIs DEF EnvKeys
    <2>6. CASE k \in Forced(r.env) \ r.ignored
      <3>1. s = [r EXCEPT !.reset = @ \cup {k}, !.repairs = @ \cup {k}, !.ignored = @ \cup {k}]
        BY <1>2, <2>3, <2>6 DEF Mend, ProcStates
      <3>2. k \in EnvKeys
        BY <2>6 DEF Forced
      <3>3. /\ s \in ProcStates /\ SameLoad(r, s) /\ s.tree = r.tree
            /\ s.reset = r.reset \cup {k} /\ s.repairs = r.repairs \cup {k}
            /\ s.ignored = r.ignored \cup {k}
        <4>1. s \in ProcStates
          <5>1. PICK reset \in SUBSET Keys, repairs \in SUBSET Keys, ignored \in SUBSET EnvKeys :
                   /\ reset = r.reset \cup {k} /\ repairs = r.repairs \cup {k}
                   /\ ignored = r.ignored \cup {k}
            BY <3>2 DEF ProcStates
          <5>2. s = [r EXCEPT !.reset = reset, !.repairs = repairs, !.ignored = ignored]
            BY <3>1, <5>1
          <5> QED BY <5>2 DEF ProcStates
        <4>2. SameLoad(r, s)
          BY <3>1 DEF ProcStates, SameLoad
        <4>3. /\ s.tree = r.tree
              /\ s.reset = r.reset \cup {k} /\ s.repairs = r.repairs \cup {k}
              /\ s.ignored = r.ignored \cup {k}
          BY <3>1 DEF ProcStates
        <4> QED BY <4>1, <4>2, <4>3
      <3>4. r.env[k] = Refused
        BY <2>4, <2>5, <2>6, <3>2 DEF Repairable
      <3>5. Repairable(s, c)
        BY <2>6, <3>3, <3>4 DEF Repairable, AskedAll, LoadsAsked, Resets, SameLoad
      <3> QED BY <2>3, <3>3, <3>5
    <2>7. CASE k \notin Forced(r.env) \ r.ignored
      <3>1. s = [r EXCEPT !.reset = @ \cup {k}, !.repairs = @ \cup {k},
                          !.tree = [r.tree EXCEPT ![k] = Default[k]], !.changed = TRUE]
        BY <1>2, <2>3, <2>7 DEF Mend, ProcStates
      <3>2. [r.tree EXCEPT ![k] = Default[k]] \in Settings
        BY SettingsType DEF ProcStates, Settings
      <3>3. /\ s \in ProcStates /\ SameLoad(r, s) /\ s.tree = [r.tree EXCEPT ![k] = Default[k]]
            /\ s.reset = r.reset \cup {k} /\ s.repairs = r.repairs \cup {k}
            /\ s.ignored = r.ignored
        <4>1. s \in ProcStates
          <5>1. PICK reset \in SUBSET Keys, repairs \in SUBSET Keys, given \in Settings :
                   /\ reset = r.reset \cup {k} /\ repairs = r.repairs \cup {k}
                   /\ given = [r.tree EXCEPT ![k] = Default[k]]
            BY <3>2 DEF ProcStates
          <5>2. s = [r EXCEPT !.reset = reset, !.repairs = repairs, !.tree = given, !.changed = TRUE]
            BY <3>1, <5>1
          <5> QED BY <5>2 DEF ProcStates
        <4>2. SameLoad(r, s)
          BY <3>1 DEF ProcStates, SameLoad
        <4>3. /\ s.tree = [r.tree EXCEPT ![k] = Default[k]]
              /\ s.reset = r.reset \cup {k} /\ s.repairs = r.repairs \cup {k}
              /\ s.ignored = r.ignored
          BY <3>1 DEF ProcStates
        <4> QED BY <4>1, <4>2, <4>3
      <3>4. /\ s.tree[k] = Default[k]
            /\ \A l \in Keys \ {k} : s.tree[l] = r.tree[l]
        BY <3>3 DEF ProcStates, Settings
      <3>5. AskedAll(s.tree)
        BY <3>4 DEF Repairable, AskedAll, Asked
      <3>6. LoadsAsked(s)
        BY <3>3, <3>4 DEF Repairable, LoadsAsked, SameLoad
      <3>8. Resets(s)
        <4>1. \A l \in Keys : s.tree[l] \in {Prune(s.raw.key)[l], Default[l]}
          BY <3>3, <3>4 DEF Repairable, Resets, SameLoad
        <4>2. ASSUME NEW l \in s.reset
              PROVE  /\ l \in Forced(s.env) => l \in s.ignored
                     /\ s.tree[l] = Default[l] \/ (l \in Forced(s.env) /\ s.env[l] = Refused)
          <5>1. CASE l = k
            BY <2>7, <3>3, <3>4, <5>1 DEF SameLoad
          <5>2. CASE l # k
            <6>1. l \in r.reset /\ l \in Keys \ {k}
              BY <3>3, <4>2, <5>2 DEF ProcStates
            <6>2. s.tree[l] = r.tree[l] /\ s.env = r.env /\ s.ignored = r.ignored
              BY <3>3, <3>4, <6>1 DEF SameLoad
            <6> QED BY <6>1, <6>2 DEF Repairable, Resets
          <5> QED BY <5>1, <5>2
        <4> QED BY <4>1, <4>2 DEF Resets
      <3>7. Repairable(s, c)
        BY <3>3, <3>5, <3>6, <3>8 DEF Repairable, SameLoad
      <3> QED BY <2>3, <3>3, <3>7
    <2> QED BY <2>6, <2>7
  <1> QED BY <1>1, <1>2

\* g repairs r refusal after refusal.
Follows(g, r, c) ==
    g = [i \in 0..5 |-> IF i = 0 THEN r
                        ELSE IF Refuses(c, i) THEN Mend(g[i - 1], Cited[i]) ELSE g[i - 1]]

LEMMA FollowsExists ==
    ASSUME NEW r, NEW c
    PROVE  \E g : Follows(g, r, c)
  <1> DEFINE Next(x, i) == IF Refuses(c, i) THEN Mend(x, Cited[i]) ELSE x
             a == Next(r, 1)
             b == Next(a, 2)
             d == Next(b, 3)
             e == Next(d, 4)
             f == Next(e, 5)
             g == [i \in 0..5 |-> IF i = 0 THEN r ELSE IF i = 1 THEN a ELSE IF i = 2 THEN b
                                  ELSE IF i = 3 THEN d ELSE IF i = 4 THEN e ELSE f]
  <1>1. /\ a = Next(r, 1) /\ b = Next(a, 2) /\ d = Next(b, 3)
        /\ e = Next(d, 4) /\ f = Next(e, 5)
    OBVIOUS
  <1> HIDE DEF a, b, d, e, f, Next
  <1>2. /\ g[0] = r /\ g[1] = a /\ g[2] = b /\ g[3] = d /\ g[4] = e /\ g[5] = f
    OBVIOUS
  <1>3. ASSUME NEW i \in 0..5
        PROVE  g[i] = IF i = 0 THEN r ELSE Next(g[i - 1], i)
    <2>1. i = 0 \/ i = 1 \/ i = 2 \/ i = 3 \/ i = 4 \/ i = 5
      OBVIOUS
    <2> HIDE DEF g
    <2> QED BY <1>1, <1>2, <2>1
  <1>4. g = [i \in 0..5 |-> g[i]]
    OBVIOUS
  <1> HIDE DEF g
  <1>5. g = [i \in 0..5 |-> IF i = 0 THEN r ELSE Next(g[i - 1], i)]
    BY <1>3, <1>4, Zenon
  <1>6. Follows(g, r, c)
    BY <1>5, Zenon DEF Follows, Next
  <1> QED BY <1>6

\* A repaired load: something new was reset, or all that its refusals cite was
\* reset before.
LEMMA MendedIs ==
    ASSUME NEW r \in ProcStates, NEW c \in Settings, Repairable(r, c), NEW s, s = Mended(r, c)
    PROVE  /\ s \in ProcStates /\ SameLoad(r, s) /\ Repairable(s, c)
           /\ s.reset = r.reset =>
                \A i \in 1..5 : Refuses(c, i) =>
                   \A j \in DOMAIN Cited[i] : Cited[i][j] \in r.reset
  <1>1. PICK g : Follows(g, r, c) /\ s = g[5]
    <2> DEFINE h == CHOOSE x : Follows(x, r, c)
    <2>1. Follows(h, r, c)
      BY FollowsExists, Zenon
    <2>2. s = h[5]
      BY Zenon DEF Mended, Follows
    <2> QED BY <2>1, <2>2
  <1>2. g[0] = r /\ \A i \in 1..5 : g[i] = IF Refuses(c, i) THEN Mend(g[i - 1], Cited[i]) ELSE g[i - 1]
    BY <1>1 DEF Follows
  <1> DEFINE Done(i) == \A j \in DOMAIN Cited[i] : Cited[i][j] \in r.reset
             P(x, n) == /\ x \in ProcStates /\ SameLoad(r, x) /\ Repairable(x, c)
                        /\ x.reset = r.reset => \A i \in 1..n : Refuses(c, i) => Done(i)
             S == {n \in Nat : n <= 5 => P(g[n], n)}
  <1>3. P(g[0], 0)
    BY <1>2 DEF SameLoad
  <1>4. ASSUME NEW n \in Nat, n + 1 <= 5, P(g[n], n) PROVE P(g[n + 1], n + 1)
    <2> DEFINE m == n + 1
               x == g[n]
               y == g[m]
    <2>1. m \in 1..5 /\ m - 1 = n
      BY <1>4
    <2>2. y = IF Refuses(c, m) THEN Mend(x, Cited[m]) ELSE x
      BY <1>2, <2>1
    <2>3. P(x, n)
      BY <1>4
    <2>4. \A i \in 1..m : i \in 1..n \/ i = m
      BY <2>1
    <2> HIDE DEF m, x, y, Done
    <2>5. CASE Refuses(c, m)
      <3>1. y = Mend(x, Cited[m])
        BY <2>2, <2>5
      <3>2. /\ y \in ProcStates /\ SameLoad(x, y) /\ Repairable(y, c)
            /\ y.reset = x.reset => \A j \in DOMAIN Cited[m] : Cited[m][j] \in x.reset
        BY <2>1, <2>3, <2>5, <3>1, MendOne
      <3>3. SameLoad(r, y)
        BY <2>3, <3>2 DEF SameLoad
      <3>4. y.reset = r.reset => x.reset = r.reset
        BY <2>3, <3>2 DEF SameLoad
      <3>5. y.reset = r.reset => Done(m)
        BY <3>2, <3>4 DEF Done
      <3>6. P(y, m)
        BY <2>3, <2>4, <3>2, <3>3, <3>4, <3>5
      <3> QED BY <3>6 DEF m, x, y
    <2>6. CASE ~Refuses(c, m)
      <3>1. y = x
        BY <2>2, <2>6
      <3>2. P(y, m)
        BY <2>3, <2>4, <2>6, <3>1
      <3> QED BY <3>2 DEF m, x, y
    <2> QED BY <2>5, <2>6
  <1>5. 0 \in S
    BY <1>3
  <1>6. ASSUME NEW n \in Nat, n \in S PROVE n + 1 \in S
    BY <1>4, <1>6
  <1>7. 5 \in S
    <2> HIDE DEF S
    <2> QED BY <1>5, <1>6, SetInduction
  <1> QED BY <1>1, <1>7

-----------------------------------------------------------------------------
(* The steps *)

LEMMA StaysAsked ==
    ASSUME NEW k \in Keys, NEW v, Asked(k, v), typed[k] \subseteq typed'[k]
    PROVE  Asked(k, v)'
  BY DEF Asked

LEMMA ProcessStays ==
    ASSUME NEW r, Process(r), \A k \in Keys : typed[k] \subseteq typed'[k]
    PROVE  Process(r)'
  <1>1. WritesAsked(r)'
    BY StaysAsked DEF Process, WritesAsked, AskedAll
  <1> QED BY <1>1 DEF Process

\* One process moves, and what it writes was asked for.
LEMMA OneMoves ==
    ASSUME ConfigInv, NEW p \in Procs, NEW r, Process(r)', Become(p, r),
           \A k \in Keys : typed[k] \subseteq typed'[k], typed' \in [Keys -> SUBSET Int],
           file' \in Contents, AskedAll(file.key)'
    PROVE  ConfigInv'
  <1>1. proc' \in [Procs -> ProcStates] /\ proc' = [proc EXCEPT ![p] = r]
    BY DEF ConfigInv, Become, Process
  <1>2. ASSUME NEW q \in Procs PROVE Process(proc[q])'
    <2>1. CASE q = p
      <3>1. proc'[q] = r
        BY <1>1, <2>1 DEF ConfigInv
      <3> QED BY <3>1
    <2>2. CASE q # p
      <3>1. PICK s : s = proc[q]
        OBVIOUS
      <3>2. proc'[q] = s
        BY <1>1, <2>2, <3>1 DEF ConfigInv
      <3>3. Process(s)
        BY <3>1 DEF ConfigInv
      <3>4. Process(s)'
        BY <3>3, ProcessStays
      <3> QED BY <3>2, <3>4
    <2> QED BY <2>1, <2>2
  <1>3. EnvNeverSaved'
    <2>1. \A k \in Keys : Asked(k, file.key[k])'
      BY DEF AskedAll
    <2> QED BY <2>1 DEF Asked, EnvNeverSaved
  <1> QED BY <1>1, <1>2, <1>3 DEF ConfigInv

LEMMA FileAsked ==
    ASSUME ConfigInv
    PROVE  /\ file \in Contents /\ AskedAll(file.key) /\ typed \in [Keys -> SUBSET Int]
           /\ \A p \in Procs : Process(proc[p])
  BY DEF ConfigInv, EnvNeverSaved, AskedAll, Asked

LEMMA WhatFilesHold ==
    /\ Template \in Contents /\ Template.key = Default /\ Template.kind = "table"
    /\ \A key \in Settings, stray \in BOOLEAN :
         Table(key, stray) \in Contents /\ Table(key, stray).key = key
    /\ \A kind \in Kinds :
         /\ Other(kind) \in Contents /\ Other(kind).kind = kind
         /\ \A k \in Keys : Other(kind).key[k] = Absent
  <1>1. \A key \in Settings, stray \in BOOLEAN :
         Table(key, stray) \in Contents /\ Table(key, stray).key = key /\ Table(key, stray).kind = "table"
    BY DEF Table, Contents, Kinds
  <1>2. ASSUME NEW kind \in Kinds
        PROVE  /\ Other(kind) \in Contents /\ Other(kind).kind = kind
               /\ \A k \in Keys : Other(kind).key[k] = Absent
    <2>1. PICK key \in Settings : key = [k \in Keys |-> Absent]
      <3>1. Absent \in Int
        BY DEF Absent
      <3> QED BY <3>1 DEF Settings
    <2>2. Other(kind) = [kind |-> kind, key |-> key, stray |-> FALSE]
      BY <2>1 DEF Other
    <2> QED BY <2>1, <2>2 DEF Contents
  <1> QED BY <1>1, <1>2, SettingsType DEF Template

LEMMA OffIs ==
    /\ Off \in ProcStates
    /\ Off.pc = "off" /\ Off.cfg = Default /\ Off.draft = Default /\ Off.tree = Default
    /\ Process(Off)
  <1>1. Off \in ProcStates
    <2>1. PICK raw \in Contents : raw = Other("none")
      <3>1. "none" \in Kinds
        BY DEF Kinds
      <3> HIDE DEF Contents
      <3> QED BY <3>1, WhatFilesHold
    <2>2. PICK default \in Settings : default = Default
      BY SettingsType
    <2>3. PICK env \in [EnvKeys -> Int] : env = [k \in EnvKeys |-> Absent]
      <3>1. Absent \in Int
        BY DEF Absent
      <3> QED BY <3>1
    <2>4. Off = [pc |-> "off", reload |-> FALSE, env |-> env,
                 raw |-> raw, tree |-> default, changed |-> FALSE,
                 ignored |-> {}, reset |-> {}, repairs |-> {}, passes |-> 0,
                 next |-> raw, then |-> "off",
                 cfg |-> default, asked |-> default, draft |-> default, confirm |-> FALSE]
      BY <2>1, <2>2, <2>3 DEF Off
    <2> QED BY <2>4 DEF ProcStates
  <1>2. Off.pc = "off" /\ Off.cfg = Default /\ Off.draft = Default /\ Off.tree = Default
    BY DEF Off
  <1>3. WritesAsked(Off)
    BY <1>2 DEF WritesAsked, AskedAll, Asked
  <1>4. Stages(Off)
    BY <1>2 DEF Stages
  <1> QED BY <1>1, <1>2, <1>3, <1>4 DEF Process

LEMMA Started ==
    ConfigInit => ConfigInv
  <1> SUFFICES ASSUME ConfigInit PROVE ConfigInv
    OBVIOUS
  <1>1. file \in Contents
    BY ConfigAssumption DEF ConfigInit, Contents, Settings
  <1>2. typed \in [Keys -> SUBSET Int] /\ \A k \in Keys : file.key[k] \in typed[k]
    BY <1>1 DEF ConfigInit, Contents, Settings
  <1>3. EnvNeverSaved
    BY <1>2 DEF EnvNeverSaved
  <1>4. proc \in [Procs -> ProcStates] /\ \A p \in Procs : proc[p] = Off
    BY OffIs DEF ConfigInit
  <1> QED BY <1>1, <1>2, <1>3, <1>4, OffIs DEF ConfigInv

\* Read from the file by a process that writes nothing.
LEMMA Reads ==
    ASSUME ConfigInv, NEW p \in Procs, NEW r \in ProcStates, Read(p, r), UNCHANGED typed,
           \A k \in Keys \ Forced(r.env) : Asked(k, r.cfg[k]) /\ Asked(k, r.draft[k])
    PROVE  ConfigInv'
  <1>0. /\ file \in Contents /\ AskedAll(file.key) /\ typed \in [Keys -> SUBSET Int]
    BY FileAsked
  <1>1. PICK f \in Contents : f = file
    BY <1>0
  <1>2. file' \in Contents /\ AskedAll(file.key)'
    <2>1. file' = Template \/ file' = file
      BY DEF Read
    <2>2. CASE file' = Template
      <3>1. \A k \in Keys : Asked(k, Default[k])'
        BY DEF Asked
      <3> QED BY <2>2, <3>1, WhatFilesHold DEF AskedAll
    <2>3. CASE file' = file
      BY <1>0, <2>3 DEF AskedAll, Asked
    <2> QED BY <2>1, <2>2, <2>3
  <1>3. PICK pc \in {"refused", "build"}, given \in Settings, changed \in BOOLEAN,
             repairs \in SUBSET Keys, asked \in Settings :
          /\ pc = IF f.kind = "broken" THEN "refused" ELSE "build"
          /\ given = Prune(f.key)
          /\ changed = (f.kind = "table" /\ (f.stray \/ {k \in Keys : f.key[k] = Garbled} # {}))
          /\ repairs = IF f.kind = "scalar" THEN Keys ELSE {k \in Keys : f.key[k] = Garbled}
          /\ asked = [k \in Keys |-> IF k \in Forced(r.env) THEN r.env[k] ELSE f.key[k]]
    <2>1. Prune(f.key) \in Settings
      BY <1>1, SettingsType DEF Prune, Contents, Settings
    <2>2. [k \in Keys |-> IF k \in Forced(r.env) THEN r.env[k] ELSE f.key[k]] \in Settings
      BY <1>1 DEF Contents, Settings, Forced, ProcStates
    <2>3. (f.kind = "table" /\ (f.stray \/ {k \in Keys : f.key[k] = Garbled} # {})) \in BOOLEAN
      BY Zenon
    <2>4. (IF f.kind = "scalar" THEN Keys ELSE {k \in Keys : f.key[k] = Garbled}) \in SUBSET Keys
      OBVIOUS
    <2>5. (IF f.kind = "broken" THEN "refused" ELSE "build") \in {"refused", "build"}
      OBVIOUS
    <2> QED BY <2>1, <2>2, <2>3, <2>4, <2>5, Zenon
  <1>4. PICK s : s = [r EXCEPT !.pc = pc, !.raw = f, !.tree = given, !.changed = changed,
                               !.ignored = {}, !.reset = {}, !.passes = 0,
                               !.repairs = repairs, !.asked = asked]
    OBVIOUS
  <1>5. Become(p, s)
    BY <1>1, <1>3, <1>4, Zenon DEF Read
  <1>6. s \in ProcStates
    <2>1. PICK a \in {"off", "build", "registries", "running", "writing", "refused"},
               none \in SUBSET EnvKeys, no \in SUBSET Keys : a = pc /\ none = {} /\ no = {}
      BY <1>3
    <2>2. s = [r EXCEPT !.pc = a, !.raw = f, !.tree = given, !.changed = changed,
                        !.ignored = none, !.reset = no, !.passes = 0,
                        !.repairs = repairs, !.asked = asked]
      BY <1>4, <2>1
    <2> HIDE DEF Settings, Contents
    <2> QED BY <2>2 DEF ProcStates
  <1>7. /\ s.pc = pc /\ s.raw = f /\ s.tree = given /\ s.ignored = {} /\ s.reset = {}
        /\ s.passes = 0 /\ s.repairs = repairs /\ s.asked = asked
        /\ s.env = r.env /\ s.cfg = r.cfg /\ s.draft = r.draft
    BY <1>4 DEF ProcStates
  <1>8. WritesAsked(s)
    <2>1. \A k \in Keys : given[k] \in {f.key[k], Default[k]}
      BY <1>3 DEF Prune
    <2>2. AskedAll(given)
      BY <1>0, <1>1, <2>1 DEF AskedAll, Asked
    <2>3. s.pc # "writing"
      BY <1>3, <1>7
    <2> QED BY <1>7, <2>2, <2>3 DEF WritesAsked
  <1>9. LoadsAsked(s)
    BY <1>3, <1>7 DEF LoadsAsked, Prune
  <1>10. Resets(s)
    BY <1>3, <1>7 DEF Resets
  <1>11. Stages(s)
    <2>1. s.passes <= Cardinality(s.reset)
      BY <1>7, FS_EmptySet
    <2> QED BY <1>3, <1>7, <1>9, <1>10, <2>1 DEF Stages
  <1>12. Process(s)'
    <2>1. Process(s)
      BY <1>6, <1>8, <1>11 DEF Process
    <2> QED BY <2>1, ProcessStays
  <1> QED BY <1>0, <1>2, <1>5, <1>12, OneMoves

LEMMA Launches ==
    ASSUME ConfigInv, NEW p \in Procs, Launch(p)
    PROVE  ConfigInv'
  <1>1. PICK env \in Envs : Read(p, [Off EXCEPT !.env = env])
    BY DEF Launch
  <1>2. PICK r \in ProcStates : r = [Off EXCEPT !.env = env]
    <2>1. env \in [EnvKeys -> Int]
      BY ConfigAssumption
    <2> QED BY <2>1, OffIs DEF ProcStates
  <1>3. r.cfg = Default /\ r.draft = Default
    BY <1>2, OffIs DEF ProcStates
  <1>4. \A k \in Keys : Asked(k, r.cfg[k]) /\ Asked(k, r.draft[k])
    BY <1>3 DEF Asked
  <1> QED BY <1>1, <1>2, <1>4, Reads DEF Launch

LEMMA Reloads ==
    ASSUME ConfigInv, NEW p \in Procs, Reload(p)
    PROVE  ConfigInv'
  <1>1. PICK o \in ProcStates : o = proc[p] /\ Process(o)
    BY DEF ConfigInv
  <1>2. PICK r \in ProcStates : r = [o EXCEPT !.reload = TRUE]
    BY DEF ProcStates
  <1>3. r.cfg = o.cfg /\ r.draft = o.draft /\ r.env = o.env
    BY <1>2 DEF ProcStates
  <1>4. \A k \in Keys \ Forced(r.env) : Asked(k, r.cfg[k]) /\ Asked(k, r.draft[k])
    BY <1>1, <1>3 DEF Process, WritesAsked
  <1>5. Read(p, r)
    BY <1>1, <1>2 DEF Reload
  <1> QED BY <1>4, <1>5, Reads DEF Reload

\* What a step leaves of what the processes may write.
LEMMA SameTyped ==
    ASSUME ConfigInv, UNCHANGED typed
    PROVE  /\ \A k \in Keys : typed[k] \subseteq typed'[k]
           /\ typed' \in [Keys -> SUBSET Int]
           /\ file' = file => file' \in Contents /\ AskedAll(file.key)'
           /\ \A f \in Contents : (AskedAll(f.key) /\ file' = f) => file' \in Contents /\ AskedAll(file.key)'
  <1>1. /\ file \in Contents /\ AskedAll(file.key) /\ typed \in [Keys -> SUBSET Int]
    BY FileAsked
  <1> QED BY <1>1 DEF AskedAll, Asked

LEMMA EmptyIsAsked ==
    ASSUME ConfigInv, UNCHANGED typed, Empty
    PROVE  file' \in Contents /\ AskedAll(file.key)'
  <1>1. PICK f \in Contents : f = Other("empty")
    <2>1. "empty" \in Kinds
      BY DEF Kinds
    <2> QED BY <2>1, WhatFilesHold, Zenon
  <1>2. "empty" \in Kinds /\ \A k \in Keys : f.key[k] = Absent
    BY <1>1, WhatFilesHold DEF Kinds
  <1>3. AskedAll(f.key)
    BY <1>2 DEF AskedAll, Asked
  <1> QED BY <1>1, <1>3, SameTyped DEF Empty

LEMMA Writes ==
    ASSUME ConfigInv, NEW p \in Procs, Written(p)
    PROVE  ConfigInv'
  <1>1. PICK o \in ProcStates : o = proc[p] /\ Process(o) /\ o.pc = "writing"
    BY DEF ConfigInv, Written, Is
  <1>2. PICK r \in ProcStates : r = [o EXCEPT !.pc = o.then]
    BY DEF ProcStates
  <1>3. /\ r.pc = o.then /\ r.reload = o.reload /\ r.env = o.env /\ r.raw = o.raw /\ r.tree = o.tree
        /\ r.cfg = o.cfg /\ r.draft = o.draft /\ r.asked = o.asked /\ r.repairs = o.repairs
        /\ r.then = o.then /\ o.then \in {"registries", "running"}
    <2>1. o.then \in {"registries", "running"}
      BY <1>1 DEF Process, Stages
    <2> QED BY <1>2, <2>1 DEF ProcStates
  <1>4. WritesAsked(r)
    BY <1>1, <1>3 DEF Process, WritesAsked
  <1>5. Stages(r)
    BY <1>1, <1>3 DEF Process, Stages, Sound, Registered
  <1>6. Process(r)'
    <2>1. Process(r)
      BY <1>4, <1>5 DEF Process
    <2> QED BY <2>1, SameTyped, ProcessStays DEF Written
  <1>7. file' \in Contents /\ AskedAll(file.key)'
    <2>1. PICK f \in Contents : f = o.next
      BY DEF ProcStates
    <2>2. AskedAll(f.key)
      BY <1>1, <2>1 DEF Process, WritesAsked
    <2>3. file' = f
      BY <1>1, <2>1 DEF Written
    <2> QED BY <2>2, <2>3, SameTyped DEF Written
  <1>8. Become(p, r)
    BY <1>1, <1>2 DEF Written
  <1> QED BY <1>6, <1>7, <1>8, SameTyped, OneMoves DEF Written

LEMMA Quits ==
    ASSUME ConfigInv, NEW p \in Procs, Quit(p)
    PROVE  ConfigInv'
  <1>1. PICK r \in ProcStates : r = Off /\ Process(r)
    BY OffIs
  <1>2. Process(r)'
    BY <1>1, SameTyped, ProcessStays DEF Quit
  <1> QED BY <1>1, <1>2, SameTyped, OneMoves DEF Quit

LEMMA Refusals ==
    ASSUME ConfigInv, NEW p \in Procs, Refuse(p)
    PROVE  ConfigInv'
  <1>1. PICK o \in ProcStates : o = proc[p] /\ Process(o) /\ o.pc = "refused"
    BY DEF ConfigInv, Refuse, Is
  <1>2. PICK r \in ProcStates : r = (IF o.reload THEN [o EXCEPT !.pc = "running"] ELSE Off) /\ Process(r)
    <2>1. CASE o.reload
      <3>1. PICK r \in ProcStates : r = [o EXCEPT !.pc = "running"]
        BY DEF ProcStates
      <3>2. /\ r.pc = "running" /\ r.reload = o.reload /\ r.env = o.env /\ r.tree = o.tree
            /\ r.cfg = o.cfg /\ r.draft = o.draft
        BY <3>1 DEF ProcStates
      <3>3. Process(r)
        BY <1>1, <2>1, <3>2 DEF Process, WritesAsked, Stages
      <3> QED BY <2>1, <3>1, <3>3
    <2>2. CASE ~o.reload
      BY <2>2, OffIs
    <2> QED BY <2>1, <2>2
  <1>3. Process(r)'
    BY <1>2, SameTyped, ProcessStays DEF Refuse
  <1>4. Become(p, r)
    BY <1>1, <1>2 DEF Refuse
  <1> QED BY <1>3, <1>4, SameTyped, OneMoves DEF Refuse

\* A value entered on the screen.
LEMMA Applies ==
    ASSUME ConfigInv, NEW p \in Procs, Is(p, "running"), NEW k \in Keys, NEW v \in Int,
           Apply(p, k, v), UNCHANGED file
    PROVE  ConfigInv'
  <1>0. /\ file \in Contents /\ AskedAll(file.key) /\ typed \in [Keys -> SUBSET Int]
    BY FileAsked
  <1>1. PICK o \in ProcStates : o = proc[p] /\ Process(o) /\ o.pc = "running"
    BY DEF ConfigInv, Is
  <1>2. CASE Become(p, [o EXCEPT !.confirm = TRUE]) /\ UNCHANGED typed
    <2>1. PICK r \in ProcStates : r = [o EXCEPT !.confirm = TRUE]
      BY DEF ProcStates
    <2>2. /\ r.pc = o.pc /\ r.reload = o.reload /\ r.env = o.env /\ r.tree = o.tree /\ r.cfg = o.cfg
          /\ r.draft = o.draft /\ r.asked = o.asked /\ r.repairs = o.repairs
      BY <2>1 DEF ProcStates
    <2>3. Process(r)
      BY <1>1, <2>2 DEF Process, WritesAsked, Stages, Sound, Registered
    <2>4. Process(r)'
      BY <1>2, <2>3, SameTyped, ProcessStays
    <2> QED BY <1>2, <2>1, <2>4, SameTyped, OneMoves
  <1>3. CASE /\ Become(p, [o EXCEPT !.confirm = FALSE, !.draft[k] = v])
             /\ typed' = [typed EXCEPT ![k] = @ \cup {v}]
    <2>1. PICK draft \in Settings : draft = [o.draft EXCEPT ![k] = v]
      BY DEF ProcStates, Settings
    <2>2. PICK r \in ProcStates : r = [o EXCEPT !.confirm = FALSE, !.draft = draft]
      BY DEF ProcStates
    <2>3. /\ r.pc = o.pc /\ r.reload = o.reload /\ r.env = o.env /\ r.tree = o.tree /\ r.cfg = o.cfg
          /\ r.draft = draft /\ r.asked = o.asked /\ r.repairs = o.repairs
      BY <2>2 DEF ProcStates
    <2>4. /\ typed' \in [Keys -> SUBSET Int]
          /\ \A l \in Keys : typed[l] \subseteq typed'[l]
          /\ v \in typed'[k]
      BY <1>0, <1>3
    <2>5. AskedAll(o.tree)'
      BY <1>1, <2>4, StaysAsked DEF Process, WritesAsked, AskedAll
    <2>6. ASSUME NEW l \in Keys \ Forced(o.env)
          PROVE  Asked(l, o.cfg[l])' /\ Asked(l, draft[l])'
      <3>1. Asked(l, o.cfg[l])' /\ Asked(l, o.draft[l])'
        BY <1>1, <2>4, StaysAsked DEF Process, WritesAsked
      <3>2. CASE l = k
        <4>1. draft[l] = v
          BY <2>1, <3>2 DEF ProcStates, Settings
        <4>2. Asked(l, draft[l])'
          BY <2>4, <3>2, <4>1 DEF Asked
        <4> QED BY <3>1, <4>2
      <3>3. CASE l # k
        <4>1. draft[l] = o.draft[l]
          BY <2>1, <3>3 DEF ProcStates, Settings
        <4> QED BY <3>1, <4>1
      <3> QED BY <3>2, <3>3
    <2>7. WritesAsked(r)'
      BY <1>1, <2>3, <2>5, <2>6 DEF WritesAsked, AskedAll
    <2>8. Stages(r)
      BY <1>1, <2>3 DEF Process, Stages, Sound, Registered
    <2>9. Process(r)'
      BY <2>2, <2>7, <2>8 DEF Process
    <2>10. AskedAll(file.key)'
      BY <1>0, <2>4, StaysAsked DEF AskedAll
    <2>11. Become(p, r)
      BY <1>3, <2>1, <2>2 DEF ProcStates
    <2> QED BY <1>0, <2>4, <2>9, <2>10, <2>11, OneMoves
  <1> QED BY <1>1, <1>2, <1>3, Zenon DEF Apply

LEMMA Edits ==
    ASSUME ConfigInv, NEW p \in Procs, Edit(p) \/ RestoreDefault(p)
    PROVE  ConfigInv'
  <1>1. CASE Edit(p)
    <2>1. PICK k \in Keys, v \in Int : Apply(p, k, v)
      BY <1>1 DEF Edit, Refused, Retired
    <2> QED BY <1>1, <2>1, Applies DEF Edit
  <1>2. CASE RestoreDefault(p)
    <2>1. PICK k \in Keys, v \in Int : Apply(p, k, v)
      BY <1>2, SettingsType DEF RestoreDefault, Settings
    <2> QED BY <1>2, <2>1, Applies DEF RestoreDefault
  <1> QED BY <1>1, <1>2

LEMMA UserWrites ==
    ASSUME ConfigInv, EditFile
    PROVE  ConfigInv'
  <1>0. /\ file \in Contents /\ AskedAll(file.key) /\ typed \in [Keys -> SUBSET Int]
    BY FileAsked
  <1>1. file' \in Contents
    BY ConfigAssumption DEF EditFile, Contents, Settings
  <1>2. /\ typed' \in [Keys -> SUBSET Int]
        /\ \A k \in Keys : typed[k] \subseteq typed'[k] /\ file'.key[k] \in typed'[k]
    BY <1>0, <1>1 DEF EditFile, Contents, Settings
  <1>3. EnvNeverSaved'
    BY <1>2 DEF EnvNeverSaved
  <1>4. ASSUME NEW p \in Procs PROVE Process(proc[p])'
    <2>1. PICK r : r = proc[p] /\ r = proc'[p]
      BY DEF EditFile
    <2>2. Process(r)
      BY <2>1 DEF ConfigInv
    <2>3. Process(r)'
      BY <1>2, <2>2, ProcessStays
    <2> QED BY <2>1, <2>3
  <1>5. proc' \in [Procs -> ProcStates]
    BY DEF ConfigInv, EditFile
  <1> QED BY <1>1, <1>2, <1>3, <1>4, <1>5 DEF ConfigInv

\* The first half of a write, of what was asked for.
LEMMA FirstHalf ==
    ASSUME ConfigInv, NEW p \in Procs, NEW r \in ProcStates, NEW next, WritesAsked(r), r.pc # "writing",
           next \in Contents, AskedAll(next.key), NEW then \in {"registries", "running"},
           NEW s, s = Writing(r, next, then),
           then = "registries" => ~r.reload,
           ~r.reload => Sound(r) /\ (then = "running" => Registered(r)),
           Empty, Become(p, s), UNCHANGED typed
    PROVE  ConfigInv'
  <1>1. s \in ProcStates
    BY DEF Writing, ProcStates
  <1>2. /\ s.pc = "writing" /\ s.next = next /\ s.then = then
        /\ s.reload = r.reload /\ s.env = r.env /\ s.tree = r.tree /\ s.cfg = r.cfg
        /\ s.draft = r.draft /\ s.asked = r.asked /\ s.repairs = r.repairs
    BY DEF Writing, ProcStates
  <1>3. WritesAsked(s)
    BY <1>2 DEF WritesAsked
  <1>4. Stages(s)
    BY <1>2 DEF Stages, Sound, Registered
  <1>5. Process(s)'
    <2>1. Process(s)
      BY <1>1, <1>3, <1>4 DEF Process
    <2> QED BY <2>1, SameTyped, ProcessStays
  <1> QED BY <1>5, EmptyIsAsked, SameTyped, OneMoves

LEMMA DecodedIs ==
    ASSUME NEW given \in Settings
    PROVE  /\ Decoded(given) \in Settings
           /\ \A k \in Keys : Decoded(given)[k] \in {given[k], Default[k]}
           /\ \A k \in Keys : Decoded(given)[k] =
                                IF given[k] \in {Absent, Garbled} THEN Default[k] ELSE given[k]
  BY SettingsType DEF Decoded, Settings

LEMMA Saves ==
    ASSUME ConfigInv, NEW p \in Procs, Save(p)
    PROVE  ConfigInv'
  <1>0. /\ file \in Contents /\ AskedAll(file.key)
    BY FileAsked
  <1>1. PICK o \in ProcStates : o = proc[p] /\ Process(o) /\ o.pc = "running"
    BY DEF ConfigInv, Save, Is
  <1>2. PICK f \in Contents : f = file
    BY <1>0
  <1>3. PICK key \in Settings :
          key = [k \in Keys |-> IF k \in Forced(o.env) THEN Decoded(f.key)[k] ELSE o.draft[k]]
    <2>1. PICK d \in Settings : d = Decoded(f.key)
      BY DecodedIs DEF Contents
    <2>2. [k \in Keys |-> IF k \in Forced(o.env) THEN d[k] ELSE o.draft[k]] \in Settings
      BY DEF ProcStates, Settings
    <2> QED BY <2>1, <2>2
  <1>4. AskedAll(key)
    <2>1. ASSUME NEW k \in Keys PROVE Asked(k, key[k])
      <3>1. CASE k \in Forced(o.env)
        <4>1. key[k] \in {f.key[k], Default[k]}
          BY <1>3, <3>1, DecodedIs DEF Contents
        <4> QED BY <1>0, <1>2, <4>1 DEF AskedAll, Asked
      <3>2. CASE k \notin Forced(o.env)
        BY <1>1, <1>3, <3>2 DEF Process, WritesAsked
      <3> QED BY <3>1, <3>2
    <2> QED BY <2>1 DEF AskedAll
  <1>5. PICK next \in Contents : next = Table(key, FALSE) /\ next.key = key
    BY WhatFilesHold
  <1>6. PICK s : s = Writing(o, next, "running")
    OBVIOUS
  <1>7. Become(p, s)
    BY <1>1, <1>2, <1>3, <1>5, <1>6, Zenon DEF Save, Saved
  <1>8. ~o.reload => Sound(o) /\ Registered(o)
    BY <1>1 DEF Process, Stages
  <1>9. WritesAsked(o) /\ o.pc # "writing"
    BY <1>1 DEF Process
  <1> QED BY <1>4, <1>5, <1>6, <1>7, <1>8, <1>9, FirstHalf DEF Save

\* What the registries make of a name.
LEMMA Names ==
    ASSUME NEW name \in Int
    PROVE  /\ KnownName(name) \in Int /\ KnownName(KnownName(name)) = KnownName(name)
           /\ Asked("name", name) => Asked("name", KnownName(name))
  <1>1. KnownName(name) \in {name, 1, 2}
    BY SettingsType DEF KnownName, Successor
  <1>2. KnownName(KnownName(name)) = KnownName(name)
    BY SettingsType DEF KnownName, Refused, Retired, Successor
  <1>3. ASSUME Asked("name", name) PROVE Asked("name", KnownName(name))
    <2>1. CASE name = Retired
      <3>1. Retired \in typed["name"]
        BY <1>3, <2>1, SettingsType DEF Asked, Retired, Successor, Absent
      <3>2. KnownName(name) = Successor
        BY <2>1 DEF KnownName, Refused, Retired
      <3> QED BY <3>1, <3>2 DEF Asked
    <2>2. CASE name = Refused
      BY <2>2 DEF KnownName, Asked
    <2>3. CASE name # Retired /\ name # Refused
      BY <1>3, <2>3 DEF KnownName
    <2> QED BY <2>1, <2>2, <2>3
  <1> QED BY <1>1, <1>2, <1>3

\* No refusal of a value cites the name.
LEMMA NameApart ==
    ASSUME NEW c \in Settings, NEW d \in Settings, \A k \in Keys \ {"name"} : d[k] = c[k], Valid(c)
    PROVE  Valid(d)
  <1>1. "mode" \in Keys /\ "port" \in Keys /\ "fixed" \in Keys /\ "max" \in Keys
    BY DEF Keys
  <1>2. \A k \in {"mode", "port", "fixed", "max"} : d[k] = c[k]
    BY <1>1
  <1>3. ASSUME NEW i \in 1..5 PROVE Refuses(d, i) = Refuses(c, i)
    BY <1>2 DEF Refuses, Cited
  <1> QED BY <1>3 DEF Valid

LEMMA Fixes ==
    ASSUME ConfigInv, NEW p \in Procs, Fix(p)
    PROVE  ConfigInv'
  <1>0. /\ file \in Contents /\ AskedAll(file.key)
    BY FileAsked
  <1>1. PICK o \in ProcStates : o = proc[p] /\ Process(o) /\ o.pc = "registries"
    BY DEF ConfigInv, Fix, Is
  <1>2. PICK f \in Contents : f = file
    BY <1>0
  <1>3. "name" \in Keys
    BY DEF Keys
  <1>4. PICK name \in Int : name = KnownName(o.cfg["name"]) /\ KnownName(name) = name
                             /\ (Asked("name", o.cfg["name"]) => Asked("name", name))
    <2>1. o.cfg["name"] \in Int
      BY <1>3 DEF ProcStates, Settings
    <2> QED BY <2>1, Names
  <1>5. PICK cfg \in Settings, draft \in Settings, repairs \in SUBSET Keys :
          /\ cfg = [o.cfg EXCEPT !["name"] = name]
          /\ draft = [o.draft EXCEPT !["name"] = name]
          /\ repairs = IF name = o.cfg["name"] THEN o.repairs ELSE o.repairs \cup {"name"}
    <2>1. [o.cfg EXCEPT !["name"] = name] \in Settings /\ [o.draft EXCEPT !["name"] = name] \in Settings
      BY DEF ProcStates, Settings
    <2>2. (IF name = o.cfg["name"] THEN o.repairs ELSE o.repairs \cup {"name"}) \in SUBSET Keys
      BY <1>3 DEF ProcStates
    <2> QED BY <2>1, <2>2
  <1>6. PICK r \in ProcStates : r = [o EXCEPT !.pc = "running", !.cfg = cfg, !.draft = draft,
                                             !.repairs = repairs]
    BY DEF ProcStates
  <1>7. r = [o EXCEPT !.pc = "running", !.cfg["name"] = name, !.draft["name"] = name,
                      !.repairs = IF name = o.cfg["name"] THEN @ ELSE @ \cup {"name"}]
    BY <1>5, <1>6 DEF ProcStates
  <1>8. /\ r.pc = "running" /\ r.reload = o.reload /\ r.env = o.env /\ r.tree = o.tree
        /\ r.cfg = cfg /\ r.draft = draft /\ r.asked = o.asked /\ r.repairs = repairs
        /\ ~o.reload
    <2>1. ~o.reload
      BY <1>1 DEF Process, Stages
    <2> QED BY <1>6, <2>1 DEF ProcStates
  <1>9. /\ cfg["name"] = name /\ draft["name"] = name
        /\ \A k \in Keys \ {"name"} : cfg[k] = o.cfg[k] /\ draft[k] = o.draft[k]
    BY <1>3, <1>5 DEF ProcStates, Settings
  <1>10. "name" \notin Forced(o.env) => Asked("name", name)
    BY <1>1, <1>3, <1>4 DEF Process, WritesAsked
  <1>11. WritesAsked(r)
    <2>1. ASSUME NEW k \in Keys \ Forced(o.env) PROVE Asked(k, cfg[k]) /\ Asked(k, draft[k])
      <3>1. CASE k = "name"
        BY <1>9, <1>10, <2>1, <3>1
      <3>2. CASE k # "name"
        BY <1>1, <1>9, <2>1, <3>2 DEF Process, WritesAsked
      <3> QED BY <3>1, <3>2
    <2> QED BY <1>1, <1>8, <2>1 DEF Process, WritesAsked
  <1>12. Sound(r)
    <2>1. Sound(o)
      BY <1>1, <1>8 DEF Process, Stages
    <2>2. Valid(cfg)
      <3>1. Valid(o.cfg) /\ o.cfg \in Settings
        BY <2>1 DEF Sound, ProcStates
      <3> QED BY <1>9, <3>1, NameApart
    <2>3. ASSUME NEW k \in Keys \ repairs
          PROVE  cfg[k] = IF o.asked[k] = Absent THEN Default[k] ELSE o.asked[k]
      <3>1. k \notin o.repairs /\ (k = "name" => name = o.cfg["name"])
        BY <1>5, <2>3
      <3>2. cfg[k] = o.cfg[k]
        BY <1>9, <2>3, <3>1
      <3> QED BY <2>1, <2>3, <3>1, <3>2 DEF Sound
    <2> QED BY <1>8, <2>2, <2>3 DEF Sound
  <1>13. Registered(r)
    BY <1>4, <1>8, <1>9 DEF Registered
  <1>14. Process(r)
    <2>1. Stages(r)
      BY <1>8, <1>12, <1>13 DEF Stages
    <2> QED BY <1>11, <2>1 DEF Process
  <1>15. CASE Become(p, r) /\ UNCHANGED file
    <2>1. Process(r)'
      BY <1>14, SameTyped, ProcessStays DEF Fix
    <2> QED BY <1>15, <2>1, SameTyped, OneMoves DEF Fix
  <1>16. CASE /\ f.kind \in {"none", "broken"}
              /\ Become(p, [o EXCEPT !.pc = "refused", !.raw = f]) /\ UNCHANGED file
    <2>1. PICK s \in ProcStates : s = [o EXCEPT !.pc = "refused", !.raw = f]
      BY DEF ProcStates
    <2>2. /\ s.pc = "refused" /\ s.raw = f /\ s.env = o.env /\ s.tree = o.tree
          /\ s.cfg = o.cfg /\ s.draft = o.draft
      BY <2>1 DEF ProcStates
    <2>3. Process(s)
      BY <1>1, <1>16, <2>2 DEF Process, WritesAsked, Stages
    <2>4. Process(s)'
      BY <2>3, SameTyped, ProcessStays DEF Fix
    <2> QED BY <1>16, <2>1, <2>4, SameTyped, OneMoves DEF Fix
  <1>17. CASE /\ "name" \notin Forced(o.env) /\ Empty
              /\ Become(p, Writing(r, IF f.kind = "scalar" THEN f
                                      ELSE Table([f.key EXCEPT !["name"] = name], f.stray), "running"))
    <2>1. PICK key \in Settings : key = [f.key EXCEPT !["name"] = name]
      BY DEF Contents, Settings
    <2>2. AskedAll(key)
      <3>1. ASSUME NEW k \in Keys PROVE key[k] \in {f.key[k], name} /\ (k # "name" => key[k] = f.key[k])
        BY <2>1 DEF Contents, Settings
      <3> QED BY <1>0, <1>2, <1>10, <1>17, <3>1 DEF AskedAll
    <2>3. PICK next \in Contents :
            /\ next = IF f.kind = "scalar" THEN f ELSE Table([f.key EXCEPT !["name"] = name], f.stray)
            /\ AskedAll(next.key)
      <3>1. f.stray \in BOOLEAN
        BY DEF Contents
      <3>2. Table(key, f.stray) \in Contents /\ Table(key, f.stray).key = key
        BY <3>1, WhatFilesHold
      <3> QED BY <1>0, <1>2, <2>1, <2>2, <3>2
    <2>4. PICK s : s = Writing(r, next, "running")
      OBVIOUS
    <2>5. r.pc # "writing"
      BY <1>8
    <2> QED BY <1>11, <1>12, <1>13, <1>17, <2>3, <2>4, <2>5, FirstHalf DEF Fix
  <1>18. name = KnownName(o.cfg["name"]) /\ o = proc[p] /\ f = file
    BY <1>1, <1>2, <1>4
  <1> QED BY <1>7, <1>15, <1>16, <1>17, <1>18, Zenon DEF Fix

\* What a load takes each setting from.
LEMMA OverlaidIs ==
    ASSUME NEW r \in ProcStates
    PROVE  /\ Overlaid(r) \in Settings
           /\ \A k \in Keys : Overlaid(r)[k] =
                IF k \in Forced(r.env) \ r.ignored /\ r.env[k] # Garbled THEN r.env[k]
                ELSE IF r.tree[k] \in {Absent, Garbled} THEN Default[k] ELSE r.tree[k]
  <1>1. PICK d \in Settings : d = Decoded(r.tree)
    BY DecodedIs DEF ProcStates
  <1>2. \A k \in Forced(r.env) : r.env[k] \in Int
    BY DEF Forced, ProcStates
  <1>3. Overlaid(r) = [k \in Keys |-> IF k \in Forced(r.env) \ r.ignored /\ r.env[k] # Garbled
                                     THEN r.env[k] ELSE d[k]]
    BY <1>1 DEF Overlaid
  <1>4. Overlaid(r) \in Settings
    BY <1>2, <1>3 DEF Settings
  <1>5. \A k \in Keys : d[k] = IF r.tree[k] \in {Absent, Garbled} THEN Default[k] ELSE r.tree[k]
    BY <1>1, DecodedIs DEF ProcStates
  <1> QED BY <1>3, <1>4, <1>5

\* A load stops on a refusal only where a variable and the file are both refused.
LEMMA BothRefused ==
    ASSUME NEW r \in ProcStates, Resets(r), NEW c, c = Overlaid(r), ~Valid(c),
           \A i \in 1..5 : Refuses(c, i) => \A j \in DOMAIN Cited[i] : Cited[i][j] \in r.reset
    PROVE  \E k \in EnvKeys : r.env[k] = Refused /\ r.raw.key[k] = Refused
  <1>1. PICK i \in 1..5 : Refuses(c, i)
    BY DEF Valid
  <1>2. \A j \in DOMAIN Cited[i] : Cited[i][j] \in r.reset /\ Cited[i][j] \in Keys
    BY <1>1, CitedIs
  <1>3. CASE i = 5
    <2>1. "fixed" \in r.reset /\ "max" \in r.reset /\ "fixed" \in Keys /\ "max" \in Keys
      BY <1>2, <1>3, CitedIs
    <2>2. "fixed" \notin Forced(r.env) /\ "max" \notin Forced(r.env)
      BY DEF Forced, EnvKeys
    <2>3. r.tree["fixed"] = 2 /\ r.tree["max"] = 2
      BY <2>1, <2>2, SettingsType DEF Resets
    <2>4. c["fixed"] = 2 /\ c["max"] = 2
      BY <2>1, <2>2, <2>3, OverlaidIs DEF Absent, Garbled
    <2> QED BY <1>1, <1>3, <2>4 DEF Refuses
  <1>4. CASE i # 5
    <2>1. PICK k \in Keys : k = Cited[i][1] /\ k \in r.reset /\ c[k] = Refused
      BY <1>1, <1>2, <1>4, CitedIs DEF Refuses
    <2>2. k \notin Forced(r.env) \ r.ignored
      BY <2>1 DEF Resets
    <2>3. c[k] = IF r.tree[k] \in {Absent, Garbled} THEN Default[k] ELSE r.tree[k]
      BY <2>2, OverlaidIs
    <2>4. r.tree[k] = Refused /\ Default[k] # Refused
      BY <2>1, <2>3, SettingsType DEF Refused
    <2>5. k \in Forced(r.env) /\ r.env[k] = Refused
      BY <2>1, <2>4 DEF Resets
    <2>6. r.raw.key[k] = Refused
      <3>1. Prune(r.raw.key)[k] = Refused
        BY <2>4 DEF Resets
      <3> QED BY <2>4, <3>1 DEF Prune
    <2> QED BY <2>5, <2>6 DEF Forced
  <1> QED BY <1>3, <1>4

LEMMA KeysFinite ==
    IsFiniteSet(Keys)
  <1>1. IsFiniteSet({"mode", "port", "name"})
    <2>1. IsFiniteSet({"mode"})
      BY FS_Singleton
    <2>2. IsFiniteSet({"mode"} \cup {"port"})
      BY <2>1, FS_AddElement
    <2>3. IsFiniteSet({"mode"} \cup {"port"} \cup {"name"})
      BY <2>2, FS_AddElement
    <2>4. {"mode"} \cup {"port"} \cup {"name"} = {"mode", "port", "name"}
      OBVIOUS
    <2> QED BY <2>3, <2>4
  <1>2. IsFiniteSet({"mode", "port", "name"} \cup {"fixed"})
    BY <1>1, FS_AddElement
  <1>3. IsFiniteSet({"mode", "port", "name"} \cup {"fixed"} \cup {"max"})
    BY <1>2, FS_AddElement
  <1>4. {"mode", "port", "name"} \cup {"fixed"} \cup {"max"} = Keys
    BY DEF Keys
  <1> QED BY <1>3, <1>4

LEMMA Passes ==
    ASSUME ConfigInv, NEW p \in Procs, Pass(p)
    PROVE  ConfigInv'
  <1>1. PICK o \in ProcStates : o = proc[p] /\ Process(o) /\ o.pc = "build"
    BY DEF ConfigInv, Pass, Is
  <1>2. Resets(o) /\ o.passes <= Cardinality(o.reset) /\ LoadsAsked(o)
    BY <1>1 DEF Process, Stages
  <1>3. PICK unread \in SUBSET EnvKeys : unread = {k \in Forced(o.env) : o.env[k] = Garbled}
    BY DEF Forced
  <1>4. PICK ignored \in SUBSET EnvKeys, repairs \in SUBSET Keys, passes \in Nat :
          /\ ignored = o.ignored \cup unread /\ repairs = o.repairs \cup unread
          /\ passes = o.passes + 1
    <2>1. o.ignored \cup unread \in SUBSET EnvKeys /\ o.repairs \cup unread \in SUBSET Keys
      BY SettingsType DEF ProcStates
    <2>2. o.passes + 1 \in Nat
      BY DEF ProcStates
    <2> QED BY <2>1, <2>2
  <1>5. PICK r \in ProcStates : r = [o EXCEPT !.ignored = ignored, !.repairs = repairs, !.passes = passes]
    BY DEF ProcStates
  <1>6. /\ r.ignored = ignored /\ r.repairs = repairs /\ r.passes = passes
        /\ r.pc = o.pc /\ r.reload = o.reload /\ r.env = o.env /\ r.raw = o.raw /\ r.tree = o.tree
        /\ r.changed = o.changed /\ r.reset = o.reset /\ r.cfg = o.cfg /\ r.asked = o.asked
        /\ r.draft = o.draft
    BY <1>5 DEF ProcStates
  <1>7. r = [o EXCEPT !.ignored = @ \cup unread, !.repairs = @ \cup unread, !.passes = @ + 1]
    BY <1>4, <1>5 DEF ProcStates
  <1>8. PICK c \in Settings : c = Overlaid(r)
    BY OverlaidIs
  <1>9. \A k \in Forced(r.env) \ r.ignored : c[k] = r.env[k] /\ r.env[k] # Garbled /\ k \in Keys
    <2>1. \A k \in Forced(r.env) \ r.ignored : r.env[k] # Garbled /\ k \in Keys
      BY <1>3, <1>4, <1>6, SettingsType DEF Forced
    <2> QED BY <1>8, <2>1, OverlaidIs
  <1>10. WritesAsked(r)
    BY <1>1, <1>6 DEF Process, WritesAsked
  <1>11. LoadsAsked(r)
    BY <1>2, <1>3, <1>4, <1>6 DEF LoadsAsked
  <1>12. Resets(r)
    BY <1>2, <1>4, <1>6 DEF Resets
  <1>13. Repairable(r, c)
    BY <1>9, <1>10, <1>11, <1>12 DEF Repairable, WritesAsked
  <1>14. r.passes # MaxPasses
    <2>1. IsFiniteSet(Keys)
      BY KeysFinite
    <2>2. /\ IsFiniteSet(o.reset) /\ Cardinality(o.reset) \in Nat
          /\ Cardinality(o.reset) <= Cardinality(Keys) /\ Cardinality(Keys) \in Nat
      BY <2>1, FS_Subset, FS_CardinalityType DEF ProcStates
    <2>3. o.passes \in Nat
      BY DEF ProcStates
    <2> QED BY <1>2, <1>4, <1>6, <2>2, <2>3, ConfigAssumption
  <1>15. PICK m : m = Mended(r, c)
    OBVIOUS
  <1>16. /\ m \in ProcStates /\ SameLoad(r, m) /\ Repairable(m, c)
         /\ m.reset = r.reset =>
              \A i \in 1..5 : Refuses(c, i) =>
                 \A j \in DOMAIN Cited[i] : Cited[i][j] \in r.reset
    BY <1>13, <1>15, MendedIs
  <1>17. PICK b \in ProcStates : b = [r EXCEPT !.cfg = c, !.draft = c]
    BY DEF ProcStates
  <1>18. /\ b.pc = "build" /\ b.reload = o.reload /\ b.env = o.env /\ b.tree = o.tree
         /\ b.cfg = c /\ b.draft = c /\ b.asked = o.asked /\ b.repairs = repairs /\ b.raw = o.raw
    BY <1>1, <1>6, <1>17 DEF ProcStates
  <1>19. ASSUME NEW k \in Keys \ Forced(o.env)
         PROVE  Asked(k, c[k]) /\ c[k] = IF o.tree[k] \in {Absent, Garbled} THEN Default[k] ELSE o.tree[k]
    <2>1. c[k] = IF o.tree[k] \in {Absent, Garbled} THEN Default[k] ELSE o.tree[k]
      BY <1>6, <1>8, <1>19, OverlaidIs
    <2>2. Asked(k, o.tree[k]) /\ Asked(k, Default[k])
      BY <1>1 DEF Process, WritesAsked, AskedAll, Asked
    <2> QED BY <2>1, <2>2
  <1>20. WritesAsked(b)
    BY <1>1, <1>18, <1>19 DEF Process, WritesAsked
  <1>21. ASSUME Valid(c) PROVE Sound(b)
    <2>1. ASSUME NEW k \in Keys \ repairs
          PROVE  c[k] = IF o.asked[k] = Absent THEN Default[k] ELSE o.asked[k]
      <3>1. k \notin r.repairs
        BY <1>6, <2>1
      <3>2. CASE k \in Forced(o.env)
        <4>1. k \notin r.ignored /\ r.asked[k] = r.env[k]
          BY <1>6, <1>11, <2>1, <3>1, <3>2 DEF LoadsAsked
        <4>2. c[k] = r.env[k]
          BY <1>6, <1>9, <3>2, <4>1
        <4>3. r.env[k] # Absent
          BY <1>6, <3>2 DEF Forced
        <4> QED BY <1>6, <4>1, <4>2, <4>3
      <3>3. CASE k \notin Forced(o.env)
        <4>1. r.tree[k] = r.asked[k] /\ r.asked[k] # Garbled
          BY <1>6, <1>11, <2>1, <3>1, <3>3 DEF LoadsAsked
        <4> QED BY <1>6, <1>19, <3>3, <4>1
      <3> QED BY <3>2, <3>3
    <2> QED BY <1>18, <1>21, <2>1 DEF Sound
  <1>22. PICK loaded \in {"registries", "running"} : loaded = Loaded(r)
    BY DEF Loaded
  <1>23. loaded = "registries" => ~o.reload
    BY <1>6, <1>22 DEF Loaded
  <1>24. ~o.reload => loaded = "registries"
    BY <1>6, <1>22 DEF Loaded
  <1>25. CASE Valid(c) /\ Empty /\ Become(p, Writing(b, Table(r.tree, FALSE), Loaded(r)))
    <2>1. PICK next \in Contents : next = Table(r.tree, FALSE) /\ next.key = r.tree
      BY WhatFilesHold DEF ProcStates
    <2>2. AskedAll(next.key)
      BY <1>10, <2>1 DEF WritesAsked
    <2>3. PICK s : s = Writing(b, next, loaded)
      OBVIOUS
    <2>4. ~b.reload => Sound(b) /\ (loaded = "running" => Registered(b))
      BY <1>18, <1>21, <1>24, <1>25
    <2>5. b.pc # "writing" /\ (loaded = "registries" => ~b.reload)
      BY <1>18, <1>23
    <2> QED BY <1>20, <1>22, <1>25, <2>1, <2>2, <2>3, <2>4, <2>5, FirstHalf DEF Pass
  <1>26. CASE Valid(c) /\ UNCHANGED file /\ Become(p, [b EXCEPT !.pc = Loaded(r)])
    <2>1. PICK s \in ProcStates : s = [b EXCEPT !.pc = loaded]
      BY DEF ProcStates
    <2>2. /\ s.pc = loaded /\ s.reload = b.reload /\ s.env = b.env /\ s.tree = b.tree
          /\ s.cfg = b.cfg /\ s.draft = b.draft /\ s.asked = b.asked /\ s.repairs = b.repairs
      BY <2>1 DEF ProcStates
    <2>3. WritesAsked(s)
      BY <1>20, <2>2 DEF WritesAsked
    <2>4. Stages(s)
      BY <1>18, <1>21, <1>23, <1>24, <1>26, <2>2 DEF Stages, Sound
    <2>5. Process(s)'
      <3>1. Process(s)
        BY <2>3, <2>4 DEF Process
      <3> QED BY <3>1, SameTyped, ProcessStays DEF Pass
    <2> QED BY <1>22, <1>26, <2>1, <2>5, SameTyped, OneMoves DEF Pass
  <1>27. CASE /\ ~Valid(c) /\ m.reset = r.reset
              /\ UNCHANGED file /\ Become(p, [r EXCEPT !.pc = "refused"])
    <2>1. PICK s \in ProcStates : s = [r EXCEPT !.pc = "refused"]
      BY DEF ProcStates
    <2>2. /\ s.pc = "refused" /\ s.env = r.env /\ s.raw = r.raw /\ s.tree = r.tree
          /\ s.cfg = r.cfg /\ s.draft = r.draft
      BY <2>1 DEF ProcStates
    <2>3. \E k \in EnvKeys : r.env[k] = Refused /\ r.raw.key[k] = Refused
      BY <1>8, <1>12, <1>16, <1>27, BothRefused
    <2>4. Process(s)
      BY <1>10, <2>2, <2>3 DEF Process, WritesAsked, Stages
    <2>5. Process(s)'
      BY <2>4, SameTyped, ProcessStays DEF Pass
    <2> QED BY <1>27, <2>1, <2>5, SameTyped, OneMoves DEF Pass
  <1>28. CASE /\ m.reset # r.reset /\ UNCHANGED file /\ Become(p, m)
    <2>1. m.passes <= Cardinality(m.reset)
      <3>1. IsFiniteSet(m.reset)
        BY <1>16, KeysFinite, FS_Subset DEF ProcStates
      <3>2. /\ Cardinality(o.reset) \in Nat /\ Cardinality(m.reset) \in Nat
            /\ Cardinality(o.reset) < Cardinality(m.reset)
        <4>1. o.reset \subseteq m.reset /\ o.reset # m.reset
          BY <1>6, <1>16, <1>28 DEF SameLoad
        <4>2. IsFiniteSet(o.reset) /\ Cardinality(o.reset) <= Cardinality(m.reset)
              /\ Cardinality(o.reset) # Cardinality(m.reset)
          BY <3>1, <4>1, FS_Subset
        <4> QED BY <3>1, <4>2, FS_CardinalityType
      <3>3. m.passes = o.passes + 1 /\ o.passes \in Nat
        BY <1>4, <1>6, <1>16 DEF SameLoad, ProcStates
      <3> QED BY <1>2, <3>2, <3>3
    <2>2. /\ m.pc = "build" /\ m.env = o.env /\ m.cfg = o.cfg /\ m.draft = o.draft
      BY <1>1, <1>6, <1>16 DEF SameLoad
    <2>3. WritesAsked(m)
      BY <1>1, <1>16, <2>2 DEF Process, WritesAsked, Repairable
    <2>4. Stages(m)
      BY <1>16, <2>1, <2>2 DEF Stages, Repairable
    <2>5. Process(m)'
      <3>1. Process(m)
        BY <1>16, <2>3, <2>4 DEF Process
      <3> QED BY <3>1, SameTyped, ProcessStays DEF Pass
    <2> QED BY <1>28, <2>5, SameTyped, OneMoves DEF Pass
  <1>29. /\ Is(p, "build")
         /\ IF Valid(c) /\ r.changed /\ r.raw.kind = "table"
            THEN Empty /\ Become(p, Writing(b, Table(r.tree, FALSE), Loaded(r)))
            ELSE /\ UNCHANGED file
                 /\ Become(p, IF Valid(c) THEN [b EXCEPT !.pc = Loaded(r)]
                              ELSE IF m.reset = r.reset \/ r.passes = MaxPasses
                              THEN [r EXCEPT !.pc = "refused"]
                              ELSE m)
    <2>1. unread = {k \in Forced(proc[p].env) : proc[p].env[k] = Garbled}
      BY <1>1, <1>3
    <2>2. r = [proc[p] EXCEPT !.ignored = @ \cup unread, !.repairs = @ \cup unread, !.passes = @ + 1]
      BY <1>1, <1>7
    <2> QED BY <1>8, <1>15, <1>17, <2>1, <2>2, Zenon DEF Pass
  <1> QED BY <1>14, <1>25, <1>26, <1>27, <1>28, <1>29, Zenon

LEMMA ConfigStep ==
    ConfigInv /\ [ConfigNext]_confVars => ConfigInv'
  <1> SUFFICES ASSUME ConfigInv, [ConfigNext]_confVars PROVE ConfigInv'
    OBVIOUS
  <1>1. CASE UNCHANGED confVars
    <2>1. \A p \in Procs : Process(proc[p])'
      BY <1>1 DEF ConfigInv, confVars, Process, WritesAsked, AskedAll, Asked
    <2>2. EnvNeverSaved'
      BY <1>1 DEF ConfigInv, confVars, EnvNeverSaved
    <2> QED BY <1>1, <2>1, <2>2 DEF ConfigInv, confVars
  <1>2. CASE EditFile
    BY <1>2, UserWrites
  <1>3. ASSUME NEW p \in Procs,
               \/ Launch(p) \/ Reload(p) \/ Pass(p) \/ Fix(p) \/ Written(p) \/ Refuse(p)
               \/ Edit(p) \/ RestoreDefault(p) \/ Save(p) \/ Quit(p)
        PROVE  ConfigInv'
    BY <1>3, Launches, Reloads, Passes, Fixes, Writes, Refusals, Edits, Saves, Quits
  <1> QED BY <1>1, <1>2, <1>3 DEF ConfigNext

LEMMA ConfigImplied ==
    ConfigInv => ConfigHolds
  <1> SUFFICES ASSUME ConfigInv PROVE ConfigHolds
    OBVIOUS
  <1>1. \A p \in Procs : Stages(proc[p])
    BY DEF ConfigInv, Process
  <1>2. NothingSilent
    BY <1>1 DEF NothingSilent, Is, Stages, Sound, Registered
  <1>3. LoadsOtherwise
    <2>1. ASSUME NEW p \in Procs, Is(p, "refused"), proc[p].raw.kind \notin {"none", "broken"}
          PROVE  \E k \in EnvKeys : {proc[p].env[k], proc[p].raw.key[k]} = {Refused}
      <3>1. PICK k \in EnvKeys : proc[p].env[k] = Refused /\ proc[p].raw.key[k] = Refused
        BY <1>1, <2>1 DEF Stages, Is
      <3> QED BY <3>1
    <2> QED BY <2>1 DEF LoadsOtherwise
  <1> QED BY <1>2, <1>3 DEF ConfigInv, ConfigHolds

\* A program runs on what was asked of it or has announced what it replaced, no variable
\* gets into the file, and apart from a syntax error only what is refused in both stops a
\* load (config.go, Load and Save; repair.go, loadRepaired).
THEOREM SettingsAreKept ==
    ConfigSpec => []ConfigHolds
  <1>1. ConfigSpec => []ConfigInv
    BY Started, ConfigStep, PTL DEF ConfigSpec
  <1> QED BY <1>1, ConfigImplied, PTL

-----------------------------------------------------------------------------
(* Bus: no closed channel is ever sent to, or closed twice, and no loss goes
   uncounted, for every number of publishers, subscriptions and closers.

   The argument is the lock of the subscription.  A deliver that has read the
   flag keeps the lock until it has sent, so the flag is still down when it
   sends (Delivering); the channel is only shut by the one Close that has
   raised the flag (Closing), which no other Close raises again (OneCloser).
   The lock also makes one deliver at a time find or make room: what it takes
   out is counted by the time it leaves, and the room is still there (Bounded) *)

Subscription == [chan : Seq(Nat), shut : BOOLEAN, closed : BOOLEAN,
                 mu : Publishers \cup {Nobody}, dropped : Nat]
Publishing == [pc : {"idle", "next", "send", "resend"}, event : Nat, left : SUBSET Subs,
               to : Subs \cup {Nobody}]
Leaving == [pc : {"idle", "withdraw", "shut"}, of : Subs \cup {Nobody}]

BusTypes ==
    /\ subscribed \subseteq Subs
    /\ sub \in [Subs -> Subscription] /\ pub \in [Publishers -> Publishing]
    /\ closer \in [Closers -> Leaving]
    /\ events \in Nat /\ panicked \in BOOLEAN

\* A deliver that is about to send holds the lock of an open subscription.
Delivering ==
    \A p \in Publishers : pub[p].pc \in {"send", "resend"} =>
        /\ pub[p].to \in Subs
        /\ sub[pub[p].to].mu = p /\ ~sub[pub[p].to].closed

ShutIsClosed == \A s \in Subs : sub[s].shut => sub[s].closed

\* A Close that has raised the flag has a channel to shut.
Closing ==
    \A c \in Closers : closer[c].pc # "idle" =>
        /\ closer[c].of \in Subs
        /\ sub[closer[c].of].closed /\ ~sub[closer[c].of].shut

OneCloser ==
    \A c, d \in Closers : c # d /\ closer[c].pc # "idle" /\ closer[d].pc # "idle" =>
        closer[c].of # closer[d].of

BusIInv == BusTypes /\ Delivering /\ ShutIsClosed /\ Closing /\ OneCloser /\ NoPanic

-----------------------------------------------------------------------------
\* Nothing is subscribed, delivered or closed at first.
LEMMA BusInitHolds ==
  ASSUME BusInit
  PROVE  BusIInv
<1>1. Fresh \in Subscription
  BY DEF Fresh, Subscription
<1>2. Idle \in Publishing /\ [pc |-> "idle", of |-> Nobody] \in Leaving
  BY DEF Idle, Publishing, Leaving
<1>3. BusTypes
  BY <1>1, <1>2 DEF BusInit, BusTypes
<1>4. Delivering /\ Closing /\ OneCloser /\ NoPanic
  BY DEF BusInit, Delivering, Closing, OneCloser, NoPanic, Idle
<1>5. ShutIsClosed
  BY DEF BusInit, ShutIsClosed, Fresh
<1> QED BY <1>3, <1>4, <1>5 DEF BusIInv

\* The end of a deliver leaves the lock of its own subscription, and no other
\* deliver has that one.
LEMMA SentKeeps ==
  ASSUME BusIInv,
         NEW p \in Publishers, pub[p].pc \in {"send", "resend"},
         NEW chan \in Seq(Nat), NEW dropped \in Nat,
         Sent(p, pub[p].to, chan, dropped),
         UNCHANGED <<subscribed, closer, events>>, panicked' = FALSE
  PROVE  BusIInv'
<1> DEFINE s == pub[p].to
<1>1. s \in Subs /\ sub[s].mu = p /\ ~sub[s].closed
  BY DEF BusIInv, Delivering
<1>2. /\ \A t \in Subs : sub'[t].closed = sub[t].closed /\ sub'[t].shut = sub[t].shut
      /\ \A t \in Subs \ {s} : sub'[t] = sub[t]
  BY <1>1 DEF BusIInv, BusTypes, Subscription, Sent
<1>3. /\ pub'[p].pc = "next"
      /\ \A q \in Publishers \ {p} : pub'[q] = pub[q]
  BY DEF BusIInv, BusTypes, Publishing, Sent
<1>4. BusTypes'
  <2>1. sub[s] \in Subscription /\ pub[p] \in Publishing
    BY <1>1 DEF BusIInv, BusTypes
  <2>2. [sub[s] EXCEPT !.chan = chan, !.dropped = dropped, !.mu = Nobody] \in Subscription
    BY <2>1 DEF Subscription
  <2>3. [pub[p] EXCEPT !.pc = "next", !.to = Nobody] \in Publishing
    BY <2>1 DEF Publishing
  <2>4. sub' \in [Subs -> Subscription] /\ pub' \in [Publishers -> Publishing]
    BY <1>1, <2>2, <2>3 DEF BusIInv, BusTypes, Sent
  <2> QED BY <2>4 DEF BusIInv, BusTypes
<1>5. Delivering'
  BY <1>1, <1>2, <1>3 DEF BusIInv, Delivering
<1>6. ShutIsClosed' /\ Closing' /\ OneCloser'
  BY <1>2 DEF BusIInv, ShutIsClosed, Closing, OneCloser
<1> QED BY <1>4, <1>5, <1>6 DEF BusIInv, NoPanic

\* A step of a publisher.
LEMMA PublisherKeeps ==
  ASSUME BusIInv, NEW p \in Publishers,
         Publish(p) \/ Deliver(p) \/ Send(p) \/ Resend(p)
  PROVE  BusIInv'
<1>1. CASE Publish(p)
  <2> DEFINE new == [pc |-> "next", event |-> events', left |-> subscribed, to |-> Nobody]
  <2>1. UNCHANGED <<subscribed, sub, closer, panicked>> /\ events' = events + 1
    BY <1>1 DEF Publish
  <2>2. new \in Publishing
    BY <2>1 DEF BusIInv, BusTypes, Publishing
  <2>3. pub' = pub \/ pub' = [pub EXCEPT ![p] = new]
    BY <1>1 DEF Publish
  <2>4. BusTypes'
    BY <2>1, <2>2, <2>3 DEF BusIInv, BusTypes
  <2>5. \A q \in Publishers : pub'[q].pc \in {"send", "resend"} => pub'[q] = pub[q]
    BY <2>3 DEF BusIInv, BusTypes
  <2> QED BY <2>1, <2>4, <2>5 DEF BusIInv, Delivering, ShutIsClosed, Closing, OneCloser, NoPanic
<1>2. CASE Deliver(p)
  <2>1. CASE pub[p].left = {}
    <3>1. Idle \in Publishing /\ UNCHANGED <<subscribed, sub, closer, events, panicked>>
      BY <1>2, <2>1 DEF Deliver, Idle, Publishing
    <3>3. BusTypes'
      BY <1>2, <2>1, <3>1 DEF BusIInv, BusTypes, Deliver
    <3>2. \A q \in Publishers : pub'[q].pc \in {"send", "resend"} => pub'[q] = pub[q]
      BY <1>2, <2>1 DEF BusIInv, BusTypes, Deliver, Idle
    <3> QED BY <3>1, <3>2, <3>3 DEF BusIInv, Delivering, ShutIsClosed, Closing, OneCloser, NoPanic
  <2>2. CASE pub[p].left # {}
    <3>1. PICK s \in pub[p].left :
            /\ Locked(s, Nobody)
            /\ IF sub[s].closed
               THEN pub' = [pub EXCEPT ![p].left = @ \ {s}] /\ UNCHANGED sub
               ELSE /\ pub' = [pub EXCEPT ![p].pc = "send", ![p].to = s, ![p].left = @ \ {s}]
                    /\ sub' = [sub EXCEPT ![s].mu = p]
      BY <1>2, <2>2 DEF Deliver
    <3>2. s \in Subs /\ sub[s].mu = Nobody /\ pub[p].pc = "next"
      <4>1. pub[p].left \subseteq Subs
        BY DEF BusIInv, BusTypes, Publishing
      <4> QED BY <1>2, <3>1, <4>1 DEF Locked, Deliver
    <3>3. UNCHANGED <<subscribed, closer, events, panicked>>
      BY <1>2 DEF Deliver
    <3>4. BusTypes'
      <4>1. sub[s] \in Subscription /\ pub[p] \in Publishing
        BY <3>2 DEF BusIInv, BusTypes
      <4>2. [sub[s] EXCEPT !.mu = p] \in Subscription
        BY <4>1 DEF Subscription
      <4>3. /\ [pub[p] EXCEPT !.left = @ \ {s}] \in Publishing
            /\ [pub[p] EXCEPT !.pc = "send", !.to = s, !.left = @ \ {s}] \in Publishing
        BY <4>1, <3>2 DEF Publishing
      <4>4. sub' \in [Subs -> Subscription]
        BY <3>1, <3>2, <4>2 DEF BusIInv, BusTypes
      <4>5. \/ pub' = [pub EXCEPT ![p] = [pub[p] EXCEPT !.left = @ \ {s}]]
            \/ pub' = [pub EXCEPT ![p] = [pub[p] EXCEPT !.pc = "send", !.to = s,
                                                      !.left = @ \ {s}]]
        <5>1. pub \in [Publishers -> Publishing]
          BY DEF BusIInv, BusTypes
        <5>2. CASE sub[s].closed
          BY <3>1, <5>1, <5>2
        <5>3. CASE ~sub[s].closed
          BY <3>1, <4>1, <5>1, <5>3 DEF Publishing
        <5> QED BY <5>2, <5>3
      <4>6. pub' \in [Publishers -> Publishing]
        BY <4>3, <4>5 DEF BusIInv, BusTypes
      <4> QED BY <3>3, <4>4, <4>6 DEF BusIInv, BusTypes
    <3>5. \A t \in Subs : sub'[t].closed = sub[t].closed /\ sub'[t].shut = sub[t].shut
      <4>1. sub' = sub \/ sub' = [sub EXCEPT ![s].mu = p]
        BY <3>1
      <4>2. sub \in [Subs -> Subscription]
        BY DEF BusIInv, BusTypes
      <4> QED BY <4>1, <4>2 DEF Subscription
    <3>6. Delivering'
      <4> SUFFICES ASSUME NEW q \in Publishers, pub'[q].pc \in {"send", "resend"}
                   PROVE  /\ pub'[q].to \in Subs
                          /\ sub'[pub'[q].to].mu = q /\ ~sub'[pub'[q].to].closed
        BY DEF Delivering
      <4>1. CASE q = p
        <5>1. pub[p] \in Publishing /\ sub[s] \in Subscription
          BY <3>2 DEF BusIInv, BusTypes
        <5>2. CASE sub[s].closed
          BY <4>1, <5>1, <5>2, <3>1, <3>2 DEF BusIInv, BusTypes, Publishing
        <5>3. CASE ~sub[s].closed
          <6>1. pub'[p].to = s
            BY <5>1, <5>3, <3>1 DEF BusIInv, BusTypes, Publishing
          <6>2. sub'[s].mu = p
            BY <5>1, <5>3, <3>1, <3>2 DEF BusIInv, BusTypes, Subscription
          <6> QED BY <4>1, <5>3, <3>2, <3>5, <6>1, <6>2
        <5> QED BY <5>2, <5>3
      <4>2. CASE q # p
        <5>1. pub'[q] = pub[q]
          BY <4>2, <3>1 DEF BusIInv, BusTypes
        <5>2. pub[q].to # s /\ pub[q].to \in Subs
          BY <5>1, <3>2, BusAssumption DEF BusIInv, Delivering
        <5>3. sub'[pub[q].to] = sub[pub[q].to]
          BY <5>2, <3>1 DEF BusIInv, BusTypes
        <5> QED BY <5>1, <5>2, <5>3 DEF BusIInv, Delivering
      <4> QED BY <4>1, <4>2
    <3>7. ShutIsClosed' /\ Closing' /\ OneCloser' /\ NoPanic'
      BY <3>3, <3>5 DEF BusIInv, ShutIsClosed, Closing, OneCloser, NoPanic
    <3> QED BY <3>4, <3>6, <3>7 DEF BusIInv
  <2> QED BY <2>1, <2>2
<1>3. CASE Send(p)
  <2>1. pub[p].pc = "send" /\ UNCHANGED <<subscribed, closer, events>>
    BY <1>3 DEF Send
  <2>2. pub[p].to \in Subs /\ sub[pub[p].to].mu = p /\ ~sub[pub[p].to].closed
    BY <2>1 DEF BusIInv, Delivering
  <2>3. panicked' = FALSE
    BY <1>3, <2>2 DEF BusIInv, ShutIsClosed, NoPanic, BusTypes, Send
  <2>4. CASE Room(pub[p].to)
    <3>1. Sent(p, pub[p].to, Append(sub[pub[p].to].chan, pub[p].event), sub[pub[p].to].dropped)
      BY <1>3, <2>4 DEF Send
    <3>2. /\ Append(sub[pub[p].to].chan, pub[p].event) \in Seq(Nat)
          /\ sub[pub[p].to].dropped \in Nat
      BY <2>2 DEF BusIInv, BusTypes, Subscription, Publishing
    <3> QED BY <2>1, <2>3, <3>1, <3>2, SentKeeps
  <2>5. CASE ~Room(pub[p].to)
    <3>1. /\ sub' = [sub EXCEPT ![pub[p].to].chan = Tail(@)]
          /\ pub' = [pub EXCEPT ![p].pc = "resend"]
      BY <1>3, <2>5 DEF Send
    <3>2. Tail(sub[pub[p].to].chan) \in Seq(Nat)
      BY <2>2, <2>5, BusAssumption DEF BusIInv, BusTypes, Subscription, Room
    <3>3. BusTypes'
      <4>1. sub[pub[p].to] \in Subscription /\ pub[p] \in Publishing
        BY <2>2 DEF BusIInv, BusTypes
      <4>2. [sub[pub[p].to] EXCEPT !.chan = Tail(@)] \in Subscription
        BY <4>1, <3>2 DEF Subscription
      <4>3. [pub[p] EXCEPT !.pc = "resend"] \in Publishing
        BY <4>1 DEF Publishing
      <4>4. sub' \in [Subs -> Subscription] /\ pub' \in [Publishers -> Publishing]
        BY <2>2, <3>1, <4>2, <4>3 DEF BusIInv, BusTypes
      <4> QED BY <2>1, <2>3, <4>4 DEF BusIInv, BusTypes
    <3>4. \A t \in Subs : /\ sub'[t].closed = sub[t].closed /\ sub'[t].shut = sub[t].shut
                          /\ sub'[t].mu = sub[t].mu
      BY <2>2, <3>1 DEF BusIInv, BusTypes, Subscription
    <3>5. \A q \in Publishers : /\ pub'[q].to = pub[q].to
                                /\ pub'[q].pc \in {"send", "resend"} =>
                                     pub[q].pc \in {"send", "resend"}
      BY <2>1, <3>1 DEF BusIInv, BusTypes, Publishing
    <3>6. Delivering' /\ ShutIsClosed' /\ Closing' /\ OneCloser'
      BY <2>1, <3>4, <3>5 DEF BusIInv, Delivering, ShutIsClosed, Closing, OneCloser
    <3> QED BY <2>3, <3>3, <3>6 DEF BusIInv, NoPanic
  <2> QED BY <2>4, <2>5
<1>4. CASE Resend(p)
  <2> DEFINE s == pub[p].to
             chan == IF Room(s) THEN Append(sub[s].chan, pub[p].event) ELSE sub[s].chan
  <2>1. pub[p].pc = "resend" /\ UNCHANGED <<subscribed, closer, events>>
    BY <1>4 DEF Resend
  <2>2. s \in Subs /\ ~sub[s].closed
    BY <2>1 DEF BusIInv, Delivering
  <2>3. panicked' = FALSE
    BY <1>4, <2>2 DEF BusIInv, ShutIsClosed, NoPanic, BusTypes, Resend
  <2>4. chan \in Seq(Nat) /\ sub[s].dropped + 1 \in Nat
    BY <2>2 DEF BusIInv, BusTypes, Subscription, Publishing
  <2>5. Sent(p, s, chan, sub[s].dropped + 1)
    BY <1>4 DEF Resend
  <2> QED BY <2>1, <2>3, <2>4, <2>5, SentKeeps
<1> QED BY <1>1, <1>2, <1>3, <1>4

\* A step of the subscriber.
LEMMA SubscriberKeeps ==
  ASSUME BusIInv, NEW s \in Subs, Subscribe(s) \/ Receive(s)
  PROVE  BusIInv'
<1>1. CASE Subscribe(s)
  BY <1>1 DEF BusIInv, BusTypes, Delivering, ShutIsClosed, Closing, OneCloser, NoPanic, Subscribe
<1>2. CASE Receive(s)
  <2>1. /\ sub' = [sub EXCEPT ![s].chan = Tail(@)]
        /\ UNCHANGED <<subscribed, pub, closer, events, panicked>>
    BY <1>2 DEF Receive
  <2>2. sub[s] \in Subscription
    BY DEF BusIInv, BusTypes
  <2>5. [sub[s] EXCEPT !.chan = Tail(@)] \in Subscription
    <3>1. sub[s].chan \in Seq(Nat) /\ sub[s].chan # <<>>
      BY <1>2, <2>2 DEF Receive, Subscription
    <3>2. Tail(sub[s].chan) \in Seq(Nat)
      BY <3>1
    <3> QED BY <2>2, <3>2 DEF Subscription
  <2>3. BusTypes'
    BY <2>1, <2>5 DEF BusIInv, BusTypes
  <2>4. \A t \in Subs : /\ sub'[t].closed = sub[t].closed /\ sub'[t].shut = sub[t].shut
                        /\ sub'[t].mu = sub[t].mu
    BY <2>1 DEF BusIInv, BusTypes, Subscription
  <2> QED BY <2>1, <2>3, <2>4
          DEF BusIInv, Delivering, ShutIsClosed, Closing, OneCloser, NoPanic
<1> QED BY <1>1, <1>2

\* A step of Close.
LEMMA CloserKeeps ==
  ASSUME BusIInv, NEW c \in Closers,
         (\E s \in Subs : Flag(c, s)) \/ Withdraw(c) \/ Shut(c)
  PROVE  BusIInv'
<1>1. ASSUME NEW s \in Subs, Flag(c, s) PROVE BusIInv'
  <2>1. BusTypes' /\ UNCHANGED <<pub, panicked>>
    <3>1. [sub[s] EXCEPT !.closed = TRUE] \in Subscription
      BY DEF BusIInv, BusTypes, Subscription
    <3>2. [pc |-> "withdraw", of |-> s] \in Leaving
      BY DEF Leaving
    <3>3. sub' \in [Subs -> Subscription] /\ closer' \in [Closers -> Leaving]
      BY <1>1, <3>1, <3>2 DEF BusIInv, BusTypes, Flag
    <3> QED BY <1>1, <3>3 DEF BusIInv, BusTypes, Flag
  <2>2. /\ \A t \in Subs \ {s} : sub'[t] = sub[t]
        /\ sub'[s].closed /\ sub'[s].shut = sub[s].shut /\ ~sub[s].closed /\ sub[s].mu = Nobody
        /\ closer'[c].of = s /\ \A d \in Closers \ {c} : closer'[d] = closer[d]
    BY <1>1 DEF BusIInv, BusTypes, Subscription, Flag, Locked
  <2>3. \A p \in Publishers : pub[p].pc \in {"send", "resend"} => pub[p].to # s
    BY <2>2, BusAssumption DEF BusIInv, Delivering
  <2>4. Delivering'
    BY <2>1, <2>2, <2>3 DEF BusIInv, Delivering
  <2>5. ShutIsClosed'
    BY <2>2 DEF BusIInv, ShutIsClosed
  <2>6. \A d \in Closers : closer[d].pc # "idle" => closer[d].of # s
    BY <2>2 DEF BusIInv, Closing
  <2>7. Closing' /\ OneCloser'
    BY <2>2, <2>6 DEF BusIInv, Closing, OneCloser, ShutIsClosed
  <2> QED BY <2>1, <2>4, <2>5, <2>7 DEF BusIInv, NoPanic
<1>2. CASE Withdraw(c)
  <2>1. BusTypes' /\ UNCHANGED <<sub, pub, panicked>>
    <3>1. [closer[c] EXCEPT !.pc = "shut"] \in Leaving
      BY DEF BusIInv, BusTypes, Leaving
    <3> QED BY <1>2, <3>1 DEF BusIInv, BusTypes, Withdraw
  <2>2. closer[c].pc # "idle" /\ \A d \in Closers : closer'[d].of = closer[d].of
    BY <1>2 DEF BusIInv, BusTypes, Leaving, Withdraw
  <2>3. \A d \in Closers : closer'[d].pc # "idle" => closer[d].pc # "idle"
    BY <1>2, <2>2 DEF BusIInv, BusTypes, Leaving, Withdraw
  <2> QED BY <2>1, <2>2, <2>3
          DEF BusIInv, Delivering, ShutIsClosed, Closing, OneCloser, NoPanic
<1>3. CASE Shut(c)
  <2> DEFINE s == closer[c].of
  <2>1. closer[c].pc = "shut" /\ s \in Subs /\ sub[s].closed /\ ~sub[s].shut
    BY <1>3 DEF BusIInv, Closing, Shut
  <2>2. NoPanic' /\ UNCHANGED pub
    BY <1>3, <2>1 DEF BusIInv, NoPanic, Shut
  <2>3. BusTypes'
    <3>1. [sub[s] EXCEPT !.shut = TRUE] \in Subscription
      BY <2>1 DEF BusIInv, BusTypes, Subscription
    <3>2. [pc |-> "idle", of |-> Nobody] \in Leaving
      BY DEF Leaving
    <3>3. sub' \in [Subs -> Subscription] /\ closer' \in [Closers -> Leaving]
      BY <1>3, <2>1, <3>1, <3>2 DEF BusIInv, BusTypes, Shut
    <3> QED BY <1>3, <2>1, <3>3 DEF BusIInv, BusTypes, Shut, NoPanic
  <2>4. /\ \A t \in Subs : sub'[t].closed = sub[t].closed /\ sub'[t].mu = sub[t].mu
        /\ \A t \in Subs \ {s} : sub'[t] = sub[t]
        /\ closer'[c].pc = "idle" /\ \A d \in Closers \ {c} : closer'[d] = closer[d]
    BY <1>3, <2>1 DEF BusIInv, BusTypes, Subscription, Shut
  <2>5. Delivering'
    BY <2>2, <2>4 DEF BusIInv, Delivering
  <2>6. ShutIsClosed'
    BY <2>1, <2>4 DEF BusIInv, ShutIsClosed
  <2>7. \A d \in Closers \ {c} : closer[d].pc # "idle" => closer[d].of # s
    BY <2>1 DEF BusIInv, OneCloser
  <2>8. Closing' /\ OneCloser'
    BY <2>4, <2>7 DEF BusIInv, Closing, OneCloser
  <2> QED BY <2>2, <2>3, <2>5, <2>6, <2>8 DEF BusIInv
<1> QED BY <1>1, <1>2, <1>3

LEMMA BusStep ==
  ASSUME BusIInv, [BusNext]_busVars
  PROVE  BusIInv'
<1>1. CASE BusNext
  BY <1>1, SubscriberKeeps, PublisherKeeps, CloserKeeps DEF BusNext
<1>2. CASE UNCHANGED busVars
  BY <1>2 DEF busVars, BusIInv, BusTypes, Delivering, ShutIsClosed, Closing, OneCloser, NoPanic
<1> QED BY <1>1, <1>2

\* What a subscriber has missed, and whether a deliver makes room for an event.
Within(chan) == {chan[i] : i \in DOMAIN chan}
Missed(s) == sent[s] \ (got[s] \cup Within(sub[s].chan))
MakesRoom(p, s) == pub[p].pc = "resend" /\ pub[p].to = s
Removed(s) == IF \E p \in Publishers : MakesRoom(p, s) THEN 1 ELSE 0

\* A channel holds no more than its buffer, and the room made stays: only the
\* subscriber may touch the channel meanwhile, and it only takes.
Bounded(s) ==
    /\ Len(sub[s].chan) <= Buffer
    /\ \A p \in Publishers : MakesRoom(p, s) => Len(sub[s].chan) < Buffer

CountedFor(s) == IsFiniteSet(Missed(s)) /\ Cardinality(Missed(s)) <= sub[s].dropped + Removed(s)

Counted ==
    /\ sent \in [Subs -> SUBSET Nat] /\ got \in [Subs -> SUBSET Nat]
    /\ \A s \in Subs : Bounded(s) /\ CountedFor(s)

LEMMA WithinAfter ==
  ASSUME NEW chan \in Seq(Nat)
  PROVE  /\ \A e \in Nat : Within(Append(chan, e)) = Within(chan) \cup {e}
         /\ chan # <<>> => Within(chan) = {Head(chan)} \cup Within(Tail(chan))
<1>1. ASSUME NEW e \in Nat PROVE Within(Append(chan, e)) = Within(chan) \cup {e}
  <2> DEFINE more == Append(chan, e)
  <2>1. /\ DOMAIN more = 1..(Len(chan) + 1) /\ DOMAIN chan = 1..Len(chan)
        /\ more[Len(chan) + 1] = e /\ \A i \in 1..Len(chan) : more[i] = chan[i]
    OBVIOUS
  <2>2. Len(chan) \in Nat
    OBVIOUS
  <2> HIDE DEF more
  <2>3. DOMAIN more = DOMAIN chan \cup {Len(chan) + 1}
    BY <2>1, <2>2
  <2>4. Within(more) = Within(chan) \cup {e}
    BY <2>1, <2>3 DEF Within
  <2> QED BY <2>4 DEF more
<1>2. ASSUME chan # <<>> PROVE Within(chan) = {Head(chan)} \cup Within(Tail(chan))
  <2> DEFINE rest == Tail(chan)
  <2>1. /\ DOMAIN rest = 1..(Len(chan) - 1) /\ DOMAIN chan = 1..Len(chan)
        /\ Head(chan) = chan[1] /\ \A i \in 1..(Len(chan) - 1) : rest[i] = chan[i + 1]
        /\ Len(chan) \in Nat \ {0}
    BY <1>2
  <2> HIDE DEF rest
  <2>2. ASSUME NEW x \in Within(chan) PROVE x \in {Head(chan)} \cup Within(rest)
    <3>1. PICK i \in 1..Len(chan) : x = chan[i]
      BY <2>1 DEF Within
    <3>2. CASE i = 1
      BY <2>1, <3>1, <3>2
    <3>3. CASE i # 1
      <4>1. i - 1 \in 1..(Len(chan) - 1) /\ (i - 1) + 1 = i
        BY <2>1, <3>3
      <4>2. x = rest[i - 1]
        BY <2>1, <3>1, <4>1
      <4> QED BY <2>1, <4>1, <4>2 DEF Within
    <3> QED BY <3>2, <3>3
  <2>3. ASSUME NEW x \in {Head(chan)} \cup Within(rest) PROVE x \in Within(chan)
    <3>1. CASE x = Head(chan)
      BY <2>1, <3>1 DEF Within
    <3>2. CASE x \in Within(rest)
      <4>1. PICK i \in 1..(Len(chan) - 1) : x = rest[i]
        BY <2>1, <3>2 DEF Within
      <4>2. i + 1 \in 1..Len(chan) /\ x = chan[i + 1]
        BY <2>1, <4>1
      <4> QED BY <2>1, <4>2 DEF Within
    <3> QED BY <3>1, <3>2
  <2>4. Within(chan) = {Head(chan)} \cup Within(rest)
    BY <2>2, <2>3
  <2> QED BY <2>4 DEF rest
<1> QED BY <1>1, <1>2

LEMMA OneMore ==
  ASSUME NEW few, IsFiniteSet(few), NEW x, NEW some, some \subseteq few \cup {x}
  PROVE  IsFiniteSet(some) /\ Cardinality(some) <= Cardinality(few) + 1
<1>1. IsFiniteSet(few \cup {x}) /\ Cardinality(few \cup {x}) <= Cardinality(few) + 1
  <2>1. IsFiniteSet(few \cup {x})
    BY FS_AddElement
  <2>2. Cardinality(few) \in Nat
    BY FS_CardinalityType
  <2>3. Cardinality(few \cup {x}) = IF x \in few THEN Cardinality(few) ELSE Cardinality(few) + 1
    BY FS_AddElement, Zenon
  <2> QED BY <2>1, <2>2, <2>3
<1>2. IsFiniteSet(some) /\ Cardinality(some) <= Cardinality(few \cup {x})
  BY <1>1, FS_Subset
<1> QED BY <1>1, <1>2, FS_CardinalityType

\* Nothing happens to s.
LEMMA CountStays ==
  ASSUME BusIInv, NEW s \in Subs, Bounded(s), CountedFor(s),
         sub'[s].chan = sub[s].chan, sub'[s].dropped = sub[s].dropped,
         got'[s] = got[s], sent'[s] = sent[s],
         \A p \in Publishers : MakesRoom(p, s)' <=> MakesRoom(p, s)
  PROVE  Bounded(s)' /\ CountedFor(s)'
<1>1. Missed(s)' = Missed(s) /\ Removed(s)' = Removed(s)
  BY DEF Missed, Removed
<1> QED BY <1>1 DEF Bounded, CountedFor

\* The lock of a subscription makes one deliver of it at a time.
LEMMA OneDelivers ==
  ASSUME BusIInv, NEW p \in Publishers, pub[p].pc \in {"send", "resend"},
         NEW s, s = pub[p].to, NEW q \in Publishers, MakesRoom(q, s)
  PROVE  q = p
  BY DEF BusIInv, Delivering, MakesRoom

\* A deliver ends with its event in the channel.
LEMMA CountSent ==
  ASSUME BusIInv, Counted,
         NEW p \in Publishers, pub[p].pc \in {"send", "resend"},
         NEW s, s = pub[p].to, Room(s), NEW e, e = pub[p].event,
         NEW dropped, dropped = sub[s].dropped + Removed(s),
         Sent(p, s, Append(sub[s].chan, e), dropped), UNCHANGED got
  PROVE  Counted'
<1>1. /\ s \in Subs /\ e \in Nat /\ sub[s] \in Subscription
      /\ sub \in [Subs -> Subscription] /\ pub \in [Publishers -> Publishing]
  BY DEF BusIInv, BusTypes, Delivering, Publishing
<1>2. /\ sub[s].chan \in Seq(Nat) /\ sub[s].dropped \in Nat /\ Len(sub[s].chan) \in Nat
      /\ Len(sub[s].chan) < Buffer /\ Buffer \in Nat
  BY <1>1, BusAssumption DEF Subscription, Room
<1>3. /\ sub'[s].chan = Append(sub[s].chan, e) /\ sub'[s].dropped = dropped
      /\ \A t \in Subs \ {s} : sub'[t] = sub[t]
  BY <1>1 DEF Sent, Subscription
<1>4. /\ sent'[s] = sent[s] \cup {e} /\ \A t \in Subs \ {s} : sent'[t] = sent[t]
      /\ sent' \in [Subs -> SUBSET Nat]
  <2>1. sent' = [sent EXCEPT ![s] = @ \cup {e}] /\ sent \in [Subs -> SUBSET Nat]
    <3>1. sent' = [sent EXCEPT ![s] = @ \cup {e}]
      BY DEF Sent
    <3>2. sent \in [Subs -> SUBSET Nat]
      BY DEF Counted
    <3> QED BY <3>1, <3>2
  <2>2. sent[s] \cup {e} \in SUBSET Nat
    BY <1>1, <2>1
  <2>3. sent'[s] = sent[s] \cup {e} /\ \A t \in Subs \ {s} : sent'[t] = sent[t]
    BY <1>1, <2>1
  <2>4. sent' \in [Subs -> SUBSET Nat]
    BY <2>1, <2>2
  <2> QED BY <2>3, <2>4
<1>5. pub'[p].pc = "next" /\ \A q \in Publishers \ {p} : pub'[q] = pub[q]
  BY <1>1 DEF Sent, Publishing
<1>6. ASSUME NEW t \in Subs \ {s} PROVE Bounded(t)' /\ CountedFor(t)'
  <2>1. Bounded(t) /\ CountedFor(t) /\ sub'[t] = sub[t] /\ sent'[t] = sent[t] /\ got'[t] = got[t]
    BY <1>3, <1>4 DEF Counted
  <2>2. \A q \in Publishers : MakesRoom(q, t)' <=> MakesRoom(q, t)
    BY <1>5 DEF MakesRoom
  <2> QED BY <2>1, <2>2, CountStays
<1>7. \A q \in Publishers : ~MakesRoom(q, s)'
  <2> SUFFICES ASSUME NEW q \in Publishers, MakesRoom(q, s)' PROVE FALSE
    OBVIOUS
  <2>1. q # p
    BY <1>5 DEF MakesRoom
  <2>2. MakesRoom(q, s)
    BY <1>5, <2>1 DEF MakesRoom
  <2> QED BY <2>1, <2>2, OneDelivers
<1>8. Bounded(s)'
  <2>1. Len(sub'[s].chan) = Len(sub[s].chan) + 1
    BY <1>2, <1>3
  <2> QED BY <1>2, <1>7, <2>1 DEF Bounded
<1>9. CountedFor(s)'
  <2>1. Missed(s)' \subseteq Missed(s)
    <3>1. sub[s].chan \in Seq(Nat) /\ got'[s] = got[s]
      BY <1>1 DEF Subscription
    <3>2. Within(sub'[s].chan) = Within(sub[s].chan) \cup {e}
      BY <1>1, <1>2, <1>3, <3>1, WithinAfter
    <3> QED BY <1>4, <3>1, <3>2 DEF Missed
  <2>2. IsFiniteSet(Missed(s)) /\ Cardinality(Missed(s)) <= dropped
    BY <1>1 DEF Counted, CountedFor
  <2>3. Removed(s)' = 0
    BY <1>7 DEF Removed
  <2>4. dropped \in Nat
    BY <1>2 DEF Removed
  <2>5. IsFiniteSet(Missed(s)') /\ Cardinality(Missed(s)') <= Cardinality(Missed(s))
    BY <2>1, <2>2, FS_Subset
  <2> QED BY <1>3, <2>2, <2>3, <2>4, <2>5, FS_CardinalityType DEF CountedFor
<1> QED BY <1>4, <1>6, <1>8, <1>9 DEF Counted

\* A full channel loses its oldest event, which is then being counted.
LEMMA CountRemoved ==
  ASSUME BusIInv, Counted, NEW p \in Publishers, Send(p),
         NEW s, s = pub[p].to, ~Room(s)
  PROVE  Counted'
<1>1. /\ s \in Subs /\ sub[s] \in Subscription /\ pub[p].pc = "send"
      /\ sub \in [Subs -> Subscription] /\ pub \in [Publishers -> Publishing]
  BY DEF BusIInv, BusTypes, Delivering, Publishing, Send
<1>2. /\ sub[s].chan \in Seq(Nat) /\ sub[s].dropped \in Nat /\ Len(sub[s].chan) \in Nat
      /\ ~(Len(sub[s].chan) < Buffer) /\ Buffer \in Nat \ {0}
  BY <1>1, BusAssumption DEF Subscription, Room
<1>3. /\ sub' = [sub EXCEPT ![s].chan = Tail(@)] /\ pub' = [pub EXCEPT ![p].pc = "resend"]
      /\ UNCHANGED <<got, sent>>
  BY DEF Send
<1>4. /\ sub'[s].chan = Tail(sub[s].chan) /\ sub'[s].dropped = sub[s].dropped
      /\ \A t \in Subs \ {s} : sub'[t] = sub[t]
      /\ pub'[p].pc = "resend" /\ pub'[p].to = s /\ \A q \in Publishers \ {p} : pub'[q] = pub[q]
  BY <1>1, <1>3 DEF Subscription, Publishing
<1>5. ASSUME NEW t \in Subs \ {s} PROVE Bounded(t)' /\ CountedFor(t)'
  <2>1. Bounded(t) /\ CountedFor(t) /\ sub'[t] = sub[t] /\ sent'[t] = sent[t] /\ got'[t] = got[t]
    BY <1>3, <1>4 DEF Counted
  <2>2. \A q \in Publishers : MakesRoom(q, t)' <=> MakesRoom(q, t)
    BY <1>1, <1>4 DEF MakesRoom
  <2> QED BY <2>1, <2>2, CountStays
<1>6. sub[s].chan # <<>> /\ Len(sub'[s].chan) = Len(sub[s].chan) - 1
  BY <1>2, <1>4
<1>7. Len(sub[s].chan) <= Buffer
  BY <1>1 DEF Counted, Bounded
<1>8. Bounded(s)'
  BY <1>2, <1>6, <1>7 DEF Bounded
<1>9. CountedFor(s)'
  <2>1. Missed(s)' \subseteq Missed(s) \cup {Head(sub[s].chan)}
    BY <1>2, <1>3, <1>4, <1>6, WithinAfter DEF Missed
  <2>2. Removed(s) = 0
    <3>1. \A q \in Publishers : ~MakesRoom(q, s)
      BY <1>1, OneDelivers DEF MakesRoom
    <3> QED BY <3>1 DEF Removed
  <2>3. Removed(s)' = 1
    BY <1>4 DEF Removed, MakesRoom
  <2>4. IsFiniteSet(Missed(s)) /\ Cardinality(Missed(s)) <= sub[s].dropped
    BY <1>1, <1>2, <2>2 DEF Counted, CountedFor
  <2>5. IsFiniteSet(Missed(s)') /\ Cardinality(Missed(s)') <= Cardinality(Missed(s)) + 1
    BY <2>1, <2>4, OneMore
  <2> QED BY <1>2, <1>4, <2>3, <2>4, <2>5, FS_CardinalityType DEF CountedFor
<1> QED BY <1>3, <1>5, <1>8, <1>9 DEF Counted

\* What the subscriber takes was in its channel.
LEMMA CountReceived ==
  ASSUME BusIInv, Counted, NEW s \in Subs, Receive(s)
  PROVE  Counted'
<1>1. sub[s] \in Subscription /\ sub \in [Subs -> Subscription]
  BY DEF BusIInv, BusTypes
<1>2. /\ sub[s].chan \in Seq(Nat) /\ Len(sub[s].chan) \in Nat /\ sub[s].chan # <<>>
      /\ Buffer \in Nat
  BY <1>1, BusAssumption DEF Subscription, Receive
<1>3. /\ sub'[s].chan = Tail(sub[s].chan) /\ sub'[s].dropped = sub[s].dropped
      /\ \A t \in Subs \ {s} : sub'[t] = sub[t]
      /\ UNCHANGED <<pub, sent>>
  BY <1>1 DEF Receive, Subscription
<1>4. /\ got'[s] = got[s] \cup {Head(sub[s].chan)} /\ \A t \in Subs \ {s} : got'[t] = got[t]
      /\ got' \in [Subs -> SUBSET Nat]
  <2>1. Head(sub[s].chan) \in Nat
    BY <1>2
  <2>2. /\ got' = [got EXCEPT ![s] = @ \cup {Head(sub[s].chan)}]
        /\ got \in [Subs -> SUBSET Nat]
    <3>1. got' = [got EXCEPT ![s] = @ \cup {Head(sub[s].chan)}]
      BY DEF Receive
    <3>2. got \in [Subs -> SUBSET Nat]
      BY DEF Counted
    <3> QED BY <3>1, <3>2
  <2>3. got[s] \cup {Head(sub[s].chan)} \in SUBSET Nat
    BY <2>1, <2>2
  <2>4. /\ got'[s] = got[s] \cup {Head(sub[s].chan)}
        /\ \A t \in Subs \ {s} : got'[t] = got[t]
    BY <2>2
  <2>5. got' \in [Subs -> SUBSET Nat]
    BY <2>2, <2>3
  <2> QED BY <2>4, <2>5
<1>5. ASSUME NEW t \in Subs \ {s} PROVE Bounded(t)' /\ CountedFor(t)'
  <2>1. Bounded(t) /\ CountedFor(t) /\ sub'[t] = sub[t] /\ sent'[t] = sent[t] /\ got'[t] = got[t]
    BY <1>3, <1>4 DEF Counted
  <2>2. \A q \in Publishers : MakesRoom(q, t)' <=> MakesRoom(q, t)
    BY <1>3 DEF MakesRoom
  <2> QED BY <2>1, <2>2, CountStays
<1>6. \A q \in Publishers : MakesRoom(q, s)' <=> MakesRoom(q, s)
  BY <1>3 DEF MakesRoom
<1>7. Bounded(s)'
  <2>1. Len(sub'[s].chan) = Len(sub[s].chan) - 1
    BY <1>2, <1>3
  <2>2. Bounded(s)
    BY DEF Counted
  <2> QED BY <1>2, <1>6, <2>1, <2>2 DEF Bounded
<1>8. CountedFor(s)'
  <2>1. Missed(s)' = Missed(s)
    BY <1>2, <1>3, <1>4, WithinAfter DEF Missed
  <2>2. Removed(s)' = Removed(s)
    BY <1>6 DEF Removed
  <2> QED BY <1>3, <2>1, <2>2 DEF Counted, CountedFor
<1> QED BY <1>3, <1>4, <1>5, <1>7, <1>8 DEF Counted

\* The other steps leave the channels and the counters alone.
LEMMA CountKept ==
  ASSUME BusIInv, Counted, UNCHANGED <<got, sent>>,
         \A s \in Subs : sub'[s].chan = sub[s].chan /\ sub'[s].dropped = sub[s].dropped,
         \A p \in Publishers, s \in Subs : MakesRoom(p, s)' <=> MakesRoom(p, s)
  PROVE  Counted'
<1>1. ASSUME NEW s \in Subs PROVE Bounded(s)' /\ CountedFor(s)'
  BY CountStays DEF Counted
<1> QED BY <1>1 DEF Counted

LEMMA CountHolds ==
  ASSUME BusIInv, Counted, [BusNext]_busVars
  PROVE  Counted'
<1> USE DEF MakesRoom
<1>1. sub \in [Subs -> Subscription] /\ pub \in [Publishers -> Publishing]
  BY DEF BusIInv, BusTypes
<1>2. ASSUME NEW s \in Subs, Subscribe(s) PROVE Counted'
  BY <1>2, CountKept DEF Subscribe
<1>3. ASSUME NEW s \in Subs, NEW c \in Closers, Flag(c, s) PROVE Counted'
  <2>1. UNCHANGED <<got, sent, pub>> /\ sub' = [sub EXCEPT ![s].closed = TRUE]
    BY <1>3 DEF Flag
  <2>2. \A t \in Subs : sub'[t].chan = sub[t].chan /\ sub'[t].dropped = sub[t].dropped
    BY <1>1, <2>1 DEF Subscription
  <2> QED BY <2>1, <2>2, CountKept
<1>4. ASSUME NEW c \in Closers, Withdraw(c) PROVE Counted'
  BY <1>4, CountKept DEF Withdraw
<1>5. ASSUME NEW c \in Closers, Shut(c) PROVE Counted'
  <2>1. UNCHANGED <<got, sent, pub>> /\ sub' = [sub EXCEPT ![closer[c].of].shut = TRUE]
    BY <1>5 DEF Shut
  <2>2. \A t \in Subs : sub'[t].chan = sub[t].chan /\ sub'[t].dropped = sub[t].dropped
    BY <1>1, <2>1 DEF Subscription
  <2> QED BY <2>1, <2>2, CountKept
<1>6. ASSUME NEW p \in Publishers, Publish(p) PROVE Counted'
  <2>1. /\ UNCHANGED <<got, sent, sub>> /\ pub[p].pc = "idle"
        /\ \A q \in Publishers \ {p} : pub'[q] = pub[q]
        /\ pub'[p].pc \in {"idle", "next"}
    BY <1>1, <1>6 DEF Publish, Publishing
  <2>2. \A q \in Publishers, s \in Subs : MakesRoom(q, s)' <=> MakesRoom(q, s)
    BY <2>1
  <2> QED BY <2>1, <2>2, CountKept
<1>7. ASSUME NEW p \in Publishers, Deliver(p) PROVE Counted'
  <2> DEFINE Same == \A s \in Subs : /\ sub'[s].chan = sub[s].chan
                                     /\ sub'[s].dropped = sub[s].dropped
             Elsewhere == /\ \A q \in Publishers \ {p} : pub'[q] = pub[q]
                          /\ pub'[p].pc \in {"idle", "next", "send"}
  <2>1. UNCHANGED <<got, sent>> /\ pub[p].pc = "next" /\ pub[p] \in Publishing
    BY <1>1, <1>7 DEF Deliver
  <2>2. Same /\ Elsewhere
    <3>1. CASE pub[p].left = {}
      BY <1>1, <1>7, <3>1 DEF Deliver, Idle
    <3>2. CASE pub[p].left # {}
      <4>1. PICK s \in pub[p].left :
              IF sub[s].closed
              THEN pub' = [pub EXCEPT ![p].left = @ \ {s}] /\ UNCHANGED sub
              ELSE /\ pub' = [pub EXCEPT ![p].pc = "send", ![p].to = s, ![p].left = @ \ {s}]
                   /\ sub' = [sub EXCEPT ![s].mu = p]
        BY <1>7, <3>2 DEF Deliver
      <4>2. Same
        <5>1. CASE sub[s].closed
          BY <4>1, <5>1
        <5>2. CASE ~sub[s].closed
          <6>1. sub' = [sub EXCEPT ![s].mu = p]
            BY <4>1, <5>2
          <6> QED BY <1>1, <6>1 DEF Subscription
        <5> QED BY <5>1, <5>2
      <4>3. CASE sub[s].closed
        BY <1>1, <2>1, <4>1, <4>2, <4>3 DEF Publishing
      <4>4. CASE ~sub[s].closed
        BY <1>1, <2>1, <4>1, <4>2, <4>4 DEF Publishing
      <4> QED BY <4>3, <4>4
    <3> QED BY <3>1, <3>2
  <2>3. \A q \in Publishers, s \in Subs : MakesRoom(q, s)' <=> MakesRoom(q, s)
    BY <2>1, <2>2
  <2> QED BY <2>1, <2>2, <2>3, CountKept
<1>8. ASSUME NEW p \in Publishers, Send(p) PROVE Counted'
  <2>1. PICK s : s = pub[p].to
    OBVIOUS
  <2>2. CASE ~Room(s)
    BY <1>8, <2>1, <2>2, CountRemoved
  <2>3. CASE Room(s)
    <3>1. PICK e : e = pub[p].event
      OBVIOUS
    <3>2. pub[p].pc = "send" /\ UNCHANGED got /\ s \in Subs
      BY <1>8, <2>1 DEF Send, BusIInv, Delivering
    <3>3. Sent(p, s, Append(sub[s].chan, e), sub[s].dropped)
      BY <1>8, <2>1, <2>3, <3>1 DEF Send
    <3>4. \A q \in Publishers : ~MakesRoom(q, s)
      BY <2>1, <3>2, OneDelivers
    <3>5. sub[s].dropped = sub[s].dropped + Removed(s)
      BY <1>1, <3>2, <3>4 DEF Removed, Subscription
    <3> QED BY <2>1, <2>3, <3>1, <3>2, <3>3, <3>5, CountSent
  <2> QED BY <2>2, <2>3
<1>9. ASSUME NEW p \in Publishers, Resend(p) PROVE Counted'
  <2>1. PICK s : s = pub[p].to
    OBVIOUS
  <2>2. PICK e : e = pub[p].event
    OBVIOUS
  <2>3. pub[p].pc = "resend" /\ UNCHANGED got /\ s \in Subs
    BY <1>9, <2>1 DEF Resend, BusIInv, Delivering
  <2>4. Room(s) /\ Removed(s) = 1
    BY <2>1, <2>3 DEF Counted, Bounded, Room, Removed
  <2>5. Sent(p, s, Append(sub[s].chan, e), sub[s].dropped + Removed(s))
    BY <1>9, <2>1, <2>2, <2>4 DEF Resend
  <2> QED BY <2>1, <2>2, <2>3, <2>4, <2>5, CountSent
<1>10. ASSUME NEW s \in Subs, Receive(s) PROVE Counted'
  BY <1>10, CountReceived
<1>11. CASE UNCHANGED busVars
  BY <1>11, CountKept DEF busVars
<1> QED BY <1>2, <1>3, <1>4, <1>5, <1>6, <1>7, <1>8, <1>9, <1>10, <1>11 DEF BusNext

LEMMA CountStarts ==
  ASSUME BusInit
  PROVE  Counted
<1>1. ASSUME NEW s \in Subs PROVE Bounded(s) /\ CountedFor(s)
  <2>1. sub[s].chan = <<>> /\ sub[s].dropped = 0 /\ sent[s] = {}
    BY DEF BusInit, Fresh
  <2>2. \A p \in Publishers : ~MakesRoom(p, s)
    BY DEF BusInit, Idle, MakesRoom
  <2>3. Missed(s) = {} /\ Removed(s) = 0
    BY <2>1, <2>2 DEF Missed, Removed
  <2> QED BY <2>1, <2>2, <2>3, FS_EmptySet, BusAssumption DEF Bounded, CountedFor
<1> QED BY <1>1 DEF Counted, BusInit

\* No subscriber that leaves makes a publisher panic, and none leaves twice
\* (bus.go:146); and what a subscriber has missed is counted, whatever it takes while
\* deliver makes room (bus.go:109): Drops never says less than the truth.
THEOREM NobodyPanics == BusSpec => []BusHolds
<1>1. BusInit => BusIInv /\ Counted
  BY BusInitHolds, CountStarts
<1>2. BusIInv /\ Counted /\ [BusNext]_busVars => (BusIInv /\ Counted)'
  BY BusStep, CountHolds
<1>3. BusIInv /\ Counted => BusHolds
  BY DEF BusIInv, Counted, CountedFor, Missed, Within, Removed, MakesRoom, LossIsCounted, BusHolds
<1> QED BY <1>1, <1>2, <1>3, PTL DEF BusSpec

-----------------------------------------------------------------------------
(* Sorted sets of numbers *)

\* A finite set of numbers has a greatest.
LEMMA GreatestExists ==
  ASSUME NEW S, S \subseteq Int, IsFiniteSet(S), S # {}
  PROVE  \E m \in S : \A x \in S : x <= m
<1> DEFINE P(n) == \A T \in SUBSET Int :
                     IsFiniteSet(T) /\ Cardinality(T) = n + 1 => \E m \in T : \A x \in T : x <= m
           N == {n \in Nat : P(n)}
<1>1. 0 \in N
  <2> SUFFICES ASSUME NEW T \in SUBSET Int, IsFiniteSet(T), Cardinality(T) = 1
               PROVE  \E m \in T : \A x \in T : x <= m
    OBVIOUS
  <2>1. PICK m : T = {m}
    BY FS_Singleton
  <2>2. m \in T /\ \A x \in T : x <= m
    BY <2>1
  <2> QED BY <2>2
<1>2. ASSUME NEW n \in Nat, n \in N PROVE n + 1 \in N
  <2> SUFFICES ASSUME NEW T \in SUBSET Int, IsFiniteSet(T), Cardinality(T) = (n + 1) + 1
               PROVE  \E m \in T : \A x \in T : x <= m
    <3>1. n + 1 \in Nat
      OBVIOUS
    <3> QED BY <3>1, Zenon
  <2>1. PICK e \in T : TRUE
    <3>1. Cardinality(T) # 0
      OBVIOUS
    <3> QED BY <3>1, FS_EmptySet
  <2>2. IsFiniteSet(T \ {e}) /\ Cardinality(T \ {e}) = n + 1
    BY FS_RemoveElement
  <2>3. PICK m \in T \ {e} : \A x \in T \ {e} : x <= m
    BY <1>2, <2>2
  <2>4. CASE e <= m
    <3>1. m \in T /\ \A x \in T : x <= m
      BY <2>3, <2>4
    <3> QED BY <3>1
  <2>5. CASE ~(e <= m)
    <3>1. \A x \in T : x <= e
      BY <2>3, <2>5
    <3> QED BY <3>1
  <2> QED BY <2>4, <2>5
<1> HIDE DEF N
<1>3. Nat \subseteq N
  BY <1>1, <1>2, SetInduction
<1>4. Cardinality(S) \in Nat /\ Cardinality(S) # 0
  BY FS_EmptySet, FS_CardinalityType
<1>5. Cardinality(S) - 1 \in N /\ Cardinality(S) = (Cardinality(S) - 1) + 1
  BY <1>3, <1>4
<1> QED BY <1>5 DEF N

Sorts(f, S) ==
  /\ f \in [1..Cardinality(S) -> S]
  /\ \A i, j \in 1..Cardinality(S) : i < j => f[i] < f[j]

\* Every finite set of numbers can be sorted.
LEMMA SortExists ==
  ASSUME NEW S, S \subseteq Int, IsFiniteSet(S)
  PROVE  \E f : Sorts(f, S)
<1> DEFINE N == {n \in Nat : \A T \in SUBSET Int :
                     IsFiniteSet(T) /\ Cardinality(T) = n => \E f : Sorts(f, T)}
<1>1. 0 \in N
  <2> SUFFICES ASSUME NEW T \in SUBSET Int, IsFiniteSet(T), Cardinality(T) = 0
               PROVE  \E f : Sorts(f, T)
    OBVIOUS
  <2> DEFINE f == [i \in 1..0 |-> i]
  <2>1. Sorts(f, T)
    BY DEF Sorts
  <2> QED BY <2>1
<1>2. ASSUME NEW n \in Nat, n \in N PROVE n + 1 \in N
  <2> SUFFICES ASSUME NEW T \in SUBSET Int, IsFiniteSet(T), Cardinality(T) = n + 1
               PROVE  \E f : Sorts(f, T)
    <3>1. n + 1 \in Nat
      OBVIOUS
    <3> QED BY <3>1, Zenon
  <2>1. PICK m \in T : \A x \in T : x <= m
    <3>1. Cardinality(T) # 0
      OBVIOUS
    <3>2. T # {}
      BY <3>1, FS_EmptySet
    <3> QED BY <3>2, GreatestExists
  <2> DEFINE R == T \ {m}
  <2>2. IsFiniteSet(R) /\ Cardinality(R) = n /\ R \in SUBSET Int
    BY FS_RemoveElement
  <2>3. PICK g : Sorts(g, R)
    BY <1>2, <2>2
  <2>4. g \in [1..n -> R] /\ \A i, j \in 1..n : i < j => g[i] < g[j]
    BY <2>2, <2>3 DEF Sorts
  <2>5. \A x \in R : x < m /\ x \in T
    BY <2>1
  <2> HIDE DEF R
  <2> DEFINE f == [i \in 1..(n + 1) |-> IF i = n + 1 THEN m ELSE g[i]]
  <2>6. ASSUME NEW i \in 1..(n + 1) PROVE f[i] \in T /\ (i # n + 1 => f[i] = g[i] /\ f[i] < m)
    <3>1. CASE i = n + 1
      BY <3>1
    <3>2. CASE i # n + 1
      <4>1. i \in 1..n
        BY <3>2
      <4>2. g[i] \in R
        BY <2>4, <4>1
      <4> QED BY <2>5, <3>2, <4>2
    <3> QED BY <3>1, <3>2
  <2>7. f \in [1..(n + 1) -> T]
    BY <2>6
  <2>8. f[n + 1] = m
    OBVIOUS
  <2> HIDE DEF f
  <2>9. ASSUME NEW i \in 1..(n + 1), NEW j \in 1..(n + 1), i < j PROVE f[i] < f[j]
    <3>1. i \in 1..n
      BY <2>9
    <3>2. CASE j = n + 1
      BY <2>6, <2>8, <2>9, <3>2
    <3>3. CASE j # n + 1
      <4>1. j \in 1..n
        BY <3>3
      <4> QED BY <2>4, <2>6, <2>9, <3>1, <4>1
    <3> QED BY <3>2, <3>3
  <2>10. Sorts(f, T)
    BY <2>7, <2>9 DEF Sorts
  <2> QED BY <2>10
<1> HIDE DEF N
<1>3. Nat \subseteq N
  BY <1>1, <1>2, SetInduction
<1>4. Cardinality(S) \in N
  BY <1>3, FS_CardinalityType
<1> QED BY <1>4 DEF N

LEMMA InOrderSorts ==
  ASSUME NEW S, S \subseteq Int, IsFiniteSet(S)
  PROVE  /\ Cardinality(S) \in Nat
         /\ InOrder(S) \in [1..Cardinality(S) -> S]
         /\ \A i, j \in 1..Cardinality(S) : i < j => InOrder(S)[i] < InOrder(S)[j]
<1>1. \E f \in [1..Cardinality(S) -> S] : \A i, j \in 1..Cardinality(S) : i < j => f[i] < f[j]
  BY SortExists DEF Sorts
<1>2. Cardinality(S) \in Nat
  BY FS_CardinalityType
<1> QED BY <1>1, <1>2 DEF InOrder

-----------------------------------------------------------------------------
(* Colibri: what a model learns and what a session decides with, for every
   list of symbols, every training and every number of deletions and sessions.

   The argument is where a model in a session comes from.  Every model in
   force, under way or decided with was given to a symbol of that session by
   its warm-up (OfSession), since a connection starts from nothing and nobody
   decides before it is over (Silent); so when the warm-ups gave one model,
   it is that one.  A code is read in the list the trees were trained under,
   by the cache as well (Coded, Cached) *)

Spans == [first : Int, last : Int]
Models == [categories : Seq(Traded), files : {"whole", "torn", "gone"},
           codes : UNION {[symbols -> Int] : symbols \in SUBSET Traded}]
Computations == [key : Int \X Int \X Int, model : Nat, code : Int, bars : Spans]
Decisions == [model : Nat, code : Int, bars : Spans, asked : Nat]
Calls == [at : {"idle", "prepare", "compute"}, mine : Nat \cup {Nothing}]

ColibriTypes ==
  /\ runs \in Seq(Models)
  /\ learnt # Nothing => learnt.symbols \in SUBSET Traded
  /\ warming # Nothing => warming \in Seq(Traded)
  /\ connected \in BOOLEAN
  /\ model \in Nat \cup {Nothing}
  /\ cache \in [Traded -> Computations \cup {Nothing}]
  /\ series \in [Traded -> Spans]
  /\ warmed \in [Traded -> Nat \cup {Nothing}]
  /\ call \in [Traded -> Calls]
  /\ decision \in [Traded -> Decisions \cup {Nothing}]

\* A model's codes are its symbols' ranks in the list it was trained under.
Coded ==
  \A d \in DOMAIN runs : \A s \in Range(runs[d].categories) :
    runs[d].codes[s] = SymbolCode(s, runs[d].categories)

\* Nobody decides before the session is warm.
Silent ==
  warming # Nothing =>
    ~connected /\ \A s \in Traded : call[s] = NoCall /\ decision[s] = Nothing

\* The model was given to a symbol of the session.
Given(d) == \E t \in Traded : warmed[t] = d

OfSession ==
  /\ \A s \in Traded : warmed[s] # Nothing =>
       warmed[s] \in DOMAIN runs /\ s \in Range(runs[warmed[s]].categories)
  /\ model # Nothing => Given(model)
  /\ \A s \in Traded : call[s].at = "compute" => call[s].mine # Nothing /\ Given(call[s].mine)
  /\ \A s \in Traded : decision[s] # Nothing =>
       /\ Given(decision[s].model) /\ decision[s].code = CodeOf(s, decision[s].model)
       /\ decision[s].model = decision[s].asked

\* What a cache holds was computed on the bars and with the model it is kept for.
Cached ==
  \A s \in Traded : cache[s] # Nothing =>
    /\ cache[s].model \in DOMAIN runs
    /\ cache[s].code = CodeOf(s, cache[s].model)
    /\ cache[s].key = KeyOf(cache[s].bars)

ColibriInv ==
  /\ ColibriTypes /\ Coded /\ Silent /\ OfSession /\ Cached
  /\ TrainsBeforeItValidates /\ FreshProbabilities

\* The list of the symbols.
LEMMA TradedIs ==
  /\ Traded \subseteq Nat
  /\ IsFiniteSet(Traded)
<1>1. PICK n \in Nat : Followed \in [1..n -> Nat] /\ n = Len(Followed)
  BY ColibriAssumption
<1>2. Traded = {Followed[i] : i \in 1..n}
  BY <1>1 DEF Traded, Range
<1>3. IsFiniteSet(1..n)
  BY FS_Interval
<1>4. Followed \in Surjection(1..n, Traded)
  BY <1>1, <1>2 DEF Surjection
<1> QED BY <1>1, <1>2, <1>3, <1>4, FS_Surjection

LEMMA CodeIs ==
  ASSUME NEW s \in Traded, NEW categories \in Seq(Traded)
  PROVE  SymbolCode(s, categories) \in Int
<1>1. DOMAIN categories \subseteq Int
  OBVIOUS
<1> QED BY <1>1 DEF SymbolCode, Missing

-----------------------------------------------------------------------------
(* The training *)

\* A percentage of a number is at most the number.
LEMMA PercentIs ==
  ASSUME NEW n \in Nat, NEW v, v = (n * ValidPercent) \div 100
  PROVE  v \in Nat /\ v <= n
<1>1. PICK p \in 0..100 : p = ValidPercent
  BY ColibriAssumption
<1>2. n * p \in Nat /\ n * (100 - p) \in Nat
  <2>1. 100 - p \in Nat /\ p \in Nat
    OBVIOUS
  <2>2. \A a, b \in Nat : a * b \in Nat
    OBVIOUS
  <2> QED BY <2>1, <2>2
<1>3. n * (100 - p) = n * 100 - n * p
  OBVIOUS
<1>4. PICK q \in Nat : q = n * p
  BY <1>2
<1>5. q <= n * 100
  BY <1>2, <1>3, <1>4
<1>6. v = q \div 100
  BY <1>1, <1>4
<1> QED BY <1>5, <1>6

LEMMA CutIs ==
  ASSUME NEW n \in Nat
  PROVE  Cut(n) \in 1..(n + 1)
<1>1. PICK v \in Nat : v = (n * ValidPercent) \div 100 /\ v <= n
  BY PercentIs
<1>2. Cut(n) = IF n >= 2 * MinValid /\ v >= MinValid THEN n - v + 1 ELSE n + 1
  BY <1>1 DEF Cut
<1> QED BY <1>1, <1>2

\* The rows are bars of the series, in its order.
LEMMA RowsAre ==
  ASSUME NEW bars \in Samples, NEW rows, rows = BuildSet(bars)
  PROVE  \E n \in Nat :
           /\ Len(rows) = n /\ DOMAIN rows = 1..n
           /\ \A k \in 1..n : rows[k].bar \in Int /\ rows[k].exit \in Int
           /\ \A j, k \in 1..n : j < k => rows[j].bar < rows[k].bar
<1> DEFINE S == {i \in DOMAIN bars : bars[i].usable}
           kept == InOrder(S)
           n == Cardinality(S)
<1>1. PICK m \in Nat : bars \in [1..m -> [usable : BOOLEAN, exit : Nat]]
  <2>1. PICK R : R = [usable : BOOLEAN, exit : Nat]
    OBVIOUS
  <2>2. bars \in Seq(R)
    BY <2>1, ColibriAssumption
  <2>3. \E m \in Nat : bars \in [1..m -> R]
    BY <2>2
  <2> QED BY <2>1, <2>3
<1>2. S \subseteq 1..m /\ S \subseteq Int
  BY <1>1
<1>3. IsFiniteSet(S)
  <2>1. IsFiniteSet(1..m)
    BY FS_Interval
  <2>2. S \in SUBSET (1..m)
    BY <1>2
  <2> HIDE DEF S
  <2> QED BY <2>1, <2>2, FS_Subset
<1>4. n \in Nat /\ kept \in [1..n -> S] /\ \A i, j \in 1..n : i < j => kept[i] < kept[j]
  BY <1>2, <1>3, InOrderSorts
<1>5. rows = [k \in DOMAIN kept |-> [bar |-> kept[k], exit |-> bars[kept[k]].exit]]
  BY DEF BuildSet
<1> HIDE DEF n, kept
<1>6. DOMAIN rows = 1..n
  BY <1>4, <1>5
<1>7. Len(rows) = n
  BY <1>4, <1>5
<1>8. ASSUME NEW k \in 1..n
      PROVE  rows[k].bar = kept[k] /\ rows[k].bar \in Int /\ rows[k].exit \in Int
  <2>1. kept[k] \in S /\ kept[k] \in 1..m
    BY <1>2, <1>4
  <2>2. bars[kept[k]].exit \in Nat
    BY <1>1, <2>1
  <2> HIDE DEF S
  <2>3. rows[k] = [bar |-> kept[k], exit |-> bars[kept[k]].exit]
    BY <1>4, <1>5
  <2> QED BY <2>1, <2>2, <2>3
<1> HIDE DEF S
<1> QED BY <1>4, <1>6, <1>7, <1>8

LEMMA SplitSeparates ==
  ASSUME NEW bars \in Samples, NEW rows, rows = BuildSet(bars),
         NEW r \in Split(rows).train, NEW v \in Split(rows).valid
  PROVE  rows[r].exit < rows[v].bar
<1>1. PICK n \in Nat :
        /\ Len(rows) = n /\ DOMAIN rows = 1..n
        /\ \A k \in 1..n : rows[k].bar \in Int /\ rows[k].exit \in Int
        /\ \A j, k \in 1..n : j < k => rows[j].bar < rows[k].bar
  BY RowsAre
<1>2. PICK cut \in 1..(n + 1) : cut = Cut(n)
  BY CutIs
<1>3. v \in cut..n /\ r \in 1..(cut - 1) /\ ~(cut <= n /\ rows[r].exit >= rows[cut].bar)
  BY <1>1, <1>2 DEF Split
<1>4. cut \in 1..n /\ v \in 1..n /\ r \in 1..n /\ cut <= v
  BY <1>3
<1>5. rows[r].exit < rows[cut].bar
  BY <1>1, <1>3, <1>4
<1>6. rows[cut].bar <= rows[v].bar
  BY <1>1, <1>4
<1> QED BY <1>1, <1>4, <1>5, <1>6

LEMMA FitSafe ==
  ASSUME ColibriInv, NEW symbols \in (SUBSET Traded) \ {{}}, NEW bars \in Samples,
         Fit(symbols, bars)
  PROVE  ColibriInv'
<1> USE DEF ColibriInv
<1>1. PICK rows : rows = BuildSet(bars)
  OBVIOUS
<1>2. /\ learnt' = [symbols |-> symbols, rows |-> rows, split |-> Split(rows)]
      /\ UNCHANGED <<runs, warming, connected, model, cache, series, warmed, call, decision>>
  BY <1>1 DEF Fit, sessionVars
<1>3. learnt'.symbols = symbols /\ learnt'.rows = rows /\ learnt'.split = Split(rows)
  BY <1>2
<1>4. TrainsBeforeItValidates'
  BY <1>1, <1>3, SplitSeparates DEF TrainsBeforeItValidates
<1>5. ColibriTypes'
  BY <1>2, <1>3 DEF ColibriTypes
<1>6. Coded' /\ Silent' /\ OfSession' /\ Cached' /\ FreshProbabilities'
  BY <1>2 DEF Coded, Silent, OfSession, Cached, FreshProbabilities, Given, CodeOf
<1> QED BY <1>4, <1>5, <1>6

\* A step that keeps the lists of the models keeps what a session has of them.
LEMMA MoreModels ==
  ASSUME ColibriInv, DOMAIN runs \subseteq DOMAIN runs',
         \A d \in DOMAIN runs : runs'[d].categories = runs[d].categories,
         UNCHANGED <<warming, connected, model, cache, series, warmed, call, decision>>
  PROVE  Silent' /\ OfSession' /\ Cached' /\ FreshProbabilities'
<1> USE DEF ColibriInv
<1>1. \A s, d : d \in DOMAIN runs => CodeOf(s, d)' = CodeOf(s, d)
  BY DEF CodeOf
<1>2. Silent' /\ FreshProbabilities'
  BY DEF Silent, FreshProbabilities
<1>3. Cached'
  BY <1>1 DEF Cached
<1>4. \A t \in Traded : warmed[t] # Nothing => warmed[t] \in DOMAIN runs
  BY DEF OfSession
<1>5. \A d : Given(d)' <=> Given(d)
  BY DEF Given
<1>6. \A s \in Traded : decision[s] # Nothing => decision[s].model \in DOMAIN runs
  <2>1. ASSUME NEW s \in Traded, decision[s] # Nothing PROVE decision[s].model \in DOMAIN runs
    <3>1. PICK t \in Traded : warmed[t] = decision[s].model
      BY <2>1 DEF OfSession, Given
    <3>2. decision[s].model \in Nat
      BY <2>1 DEF ColibriTypes, Decisions
    <3>3. warmed[t] # Nothing
      BY <3>1, <3>2, ColibriAssumption
    <3> QED BY <1>4, <3>1, <3>3
  <2> QED BY <2>1
<1>7. OfSession'
  BY <1>1, <1>4, <1>5, <1>6 DEF OfSession
<1> QED BY <1>2, <1>3, <1>7

LEMMA PublishModelSafe ==
  ASSUME ColibriInv, PublishModel
  PROVE  ColibriInv'
<1> USE DEF ColibriInv
<1>1. PICK symbols \in SUBSET Traded : symbols = learnt.symbols
  BY DEF PublishModel, ColibriTypes
<1>2. symbols \subseteq Int /\ IsFiniteSet(symbols)
  <2>1. IsFiniteSet(symbols)
    BY TradedIs, FS_Subset
  <2>2. \A t \in Traded : t \in Int
    BY TradedIs
  <2> QED BY <2>1, <2>2
<1>3. PICK categories : categories = InOrder(symbols)
  OBVIOUS
<1>4. PICK n \in Nat : categories \in [1..n -> symbols]
  BY <1>2, <1>3, InOrderSorts
<1>5. categories \in Seq(Traded) /\ Range(categories) \subseteq symbols
  BY <1>4 DEF Range
<1>6. PICK codes : codes = [s \in symbols |-> SymbolCode(s, categories)]
  OBVIOUS
<1>7. codes \in [symbols -> Int]
  BY <1>5, <1>6, CodeIs
<1>8. PICK run : run = [categories |-> categories, files |-> "whole", codes |-> codes]
  OBVIOUS
<1>9. run \in Models
  BY <1>5, <1>7, <1>8 DEF Models
<1>10. run.categories = categories /\ run.codes = codes
  BY <1>8
<1>11. /\ runs' = Append(runs, run) /\ learnt' = Nothing
       /\ UNCHANGED <<warming, connected, model, cache, series, warmed, call, decision>>
  BY <1>1, <1>3, <1>6, <1>8 DEF PublishModel, sessionVars
<1>12. runs \in Seq(Models)
  BY DEF ColibriTypes
<1>13. /\ runs' \in Seq(Models) /\ DOMAIN runs' = DOMAIN runs \cup {Len(runs) + 1}
       /\ \A d \in DOMAIN runs : runs'[d] = runs[d]
       /\ runs'[Len(runs) + 1] = run
  BY <1>9, <1>11, <1>12
<1>14. ColibriTypes'
  BY <1>11, <1>13 DEF ColibriTypes
<1>15. Coded'
  <2>1. ASSUME NEW d \in DOMAIN runs', NEW s \in Range(runs'[d].categories)
        PROVE  runs'[d].codes[s] = SymbolCode(s, runs'[d].categories)
    <3>1. CASE d \in DOMAIN runs
      BY <1>13, <2>1, <3>1 DEF Coded
    <3>2. CASE d = Len(runs) + 1
      BY <1>5, <1>6, <1>10, <1>13, <2>1, <3>2
    <3> QED BY <1>13, <2>1, <3>1, <3>2
  <2> QED BY <2>1 DEF Coded
<1>16. TrainsBeforeItValidates'
  BY <1>11 DEF TrainsBeforeItValidates
<1>17. Silent' /\ OfSession' /\ Cached' /\ FreshProbabilities'
  BY <1>11, <1>13, MoreModels
<1> QED BY <1>14, <1>15, <1>16, <1>17

LEMMA DeleteSafe ==
  ASSUME ColibriInv, NEW d \in RunIds, Delete(d)
  PROVE  ColibriInv'
<1> USE DEF ColibriInv
<1>1. PICK left \in {"torn", "gone"} : runs' = [runs EXCEPT ![d].files = left]
  BY DEF Delete
<1>2. UNCHANGED <<learnt, warming, connected, model, cache, series, warmed, call, decision>>
  BY DEF Delete, sessionVars
<1>3. runs \in Seq(Models) /\ d \in DOMAIN runs
  BY DEF Delete, ColibriTypes
<1>4. runs[d] \in Models
  BY <1>3
<1>5. PICK run : run = [runs[d] EXCEPT !.files = left]
  OBVIOUS
<1>6. run \in Models /\ run.categories = runs[d].categories /\ run.codes = runs[d].codes
  BY <1>4, <1>5 DEF Models
<1>7. runs' = [runs EXCEPT ![d] = run]
  BY <1>1, <1>5
<1>8. runs' \in Seq(Models) /\ DOMAIN runs' = DOMAIN runs
  BY <1>3, <1>6, <1>7
<1>9. \A e \in DOMAIN runs : /\ runs'[e].categories = runs[e].categories
                             /\ runs'[e].codes = runs[e].codes
  BY <1>3, <1>6, <1>7
<1>10. ColibriTypes'
  BY <1>2, <1>8 DEF ColibriTypes
<1>11. Coded'
  BY <1>8, <1>9 DEF Coded
<1>12. TrainsBeforeItValidates'
  BY <1>2 DEF TrainsBeforeItValidates
<1>13. Silent' /\ OfSession' /\ Cached' /\ FreshProbabilities'
  BY <1>2, <1>8, <1>9, MoreModels
<1> QED BY <1>10, <1>11, <1>12, <1>13

-----------------------------------------------------------------------------
(* The session *)

\* A number is a model, and the sentinel is none.
LEMMA GivenIs ==
  ASSUME ColibriInv, NEW d \in Nat, Given(d)
  PROVE  d \in DOMAIN runs
<1>1. PICK t \in Traded : warmed[t] = d
  BY DEF Given
<1>2. warmed[t] # Nothing
  BY <1>1, ColibriAssumption
<1> QED BY <1>1, <1>2 DEF ColibriInv, OfSession

LEMMA ConnectSafe ==
  ASSUME ColibriInv, Connect
  PROVE  ColibriInv'
<1> USE DEF ColibriInv
<1>1. UNCHANGED <<learnt, runs, connected>> /\ ~connected /\ warming' = Followed
  BY DEF Connect
<1>2. /\ model' = Nothing
      /\ \A s \in Traded : /\ cache'[s] = Nothing /\ warmed'[s] = Nothing
                           /\ call'[s] = NoCall /\ decision'[s] = Nothing
  BY DEF Connect
<1>3. NoCall \in Calls /\ NoCall.at = "idle"
  BY DEF NoCall, Calls
<1>4. ColibriTypes'
  <2>1. Followed \in Seq(Traded)
    <3>1. PICK n \in Nat : Followed \in [1..n -> Nat]
      BY ColibriAssumption
    <3>2. \A i \in 1..n : Followed[i] \in Traded
      BY <3>1 DEF Traded, Range
    <3>3. Followed \in [1..n -> Traded]
      BY <3>1, <3>2
    <3> QED BY <3>3
  <2>2. series' \in [Traded -> Spans]
    <3>1. [first |-> 1, last |-> 1] \in Spans
      BY DEF Spans
    <3> QED BY <3>1 DEF Connect
  <2> QED BY <1>1, <1>3, <2>1, <2>2 DEF ColibriTypes, Connect
<1>5. Silent'
  BY <1>1, <1>2 DEF Silent
<1>6. OfSession' /\ Cached' /\ FreshProbabilities'
  BY <1>2, <1>3 DEF OfSession, Cached, FreshProbabilities
<1>7. Coded' /\ TrainsBeforeItValidates'
  BY <1>1 DEF Coded, TrainsBeforeItValidates
<1> QED BY <1>4, <1>5, <1>6, <1>7

LEMMA SelectIs ==
  ASSUME ColibriInv, NEW s \in Traded, NEW d, d = Select(s)
  PROVE  d = Nothing \/ (d \in DOMAIN runs /\ d \in Nat /\ s \in Range(runs[d].categories))
<1> DEFINE covering == {e \in DOMAIN runs : runs[e].files # "gone" /\ s \in Range(runs[e].categories)}
<1>1. PICK n \in Nat : DOMAIN runs = 1..n
  BY DEF ColibriInv, ColibriTypes
<1>2. CASE covering = {}
  BY <1>2 DEF Select
<1>3. CASE covering # {}
  <2>1. covering \subseteq Int
    BY <1>1
  <2>2. IsFiniteSet(covering)
    <3>1. IsFiniteSet(1..n) /\ covering \in SUBSET (1..n)
      BY <1>1, FS_Interval
    <3> HIDE DEF covering
    <3> QED BY <3>1, FS_Subset
  <2>3. \E m \in covering : \A x \in covering : m >= x
    <3> HIDE DEF covering
    <3>1. PICK m \in covering : \A x \in covering : x <= m
      BY <1>3, <2>1, <2>2, GreatestExists
    <3>2. \A x \in covering : m >= x
      BY <2>1, <3>1
    <3> QED BY <3>2
  <2>4. Max(covering) \in covering
    <3> HIDE DEF covering
    <3> QED BY <2>3 DEF Max
  <2>5. d = Max(covering)
    BY <1>3 DEF Select
  <2> QED BY <1>1, <2>4, <2>5
<1> QED BY <1>2, <1>3

\* The probabilities of a series.
LEMMA ComputedIs ==
  ASSUME ColibriInv, NEW s \in Traded, NEW d \in Nat, d \in DOMAIN runs,
         NEW bars \in Spans, NEW p, p = Computed(s, d, bars)
  PROVE  /\ p \in Computations
         /\ p.model = d /\ p.code = CodeOf(s, d) /\ p.bars = bars /\ p.key = KeyOf(bars)
<1>1. runs[d].categories \in Seq(Traded)
  <2>1. runs[d] \in Models
    BY DEF ColibriInv, ColibriTypes
  <2> QED BY <2>1 DEF Models
<1>2. PICK code \in Int : code = CodeOf(s, d)
  BY <1>1, CodeIs DEF CodeOf
<1>3. PICK key \in Int \X Int \X Int : key = KeyOf(bars)
  <2>1. bars.last - bars.first \in Int /\ bars.first \in Int /\ bars.last \in Int
    BY DEF Spans
  <2> QED BY <2>1 DEF KeyOf
<1>4. p = [key |-> key, model |-> d, code |-> code, bars |-> bars]
  BY <1>2, <1>3 DEF Computed
<1> QED BY <1>2, <1>3, <1>4 DEF Computations

LEMMA WarmSafe ==
  ASSUME ColibriInv, Warm
  PROVE  ColibriInv'
<1> USE DEF ColibriInv
<1>1. /\ warming # Nothing /\ warming # <<>> /\ warming' = Tail(warming)
      /\ UNCHANGED <<learnt, runs, connected, series, call, decision>>
  BY DEF Warm
<1>2. warming \in Seq(Traded)
  BY <1>1 DEF ColibriTypes
<1>3. PICK s \in Traded : s = Head(warming)
  BY <1>1, <1>2
<1>4. PICK d : d = Select(s)
  OBVIOUS
<1>5. ~connected /\ \A t \in Traded : call[t] = NoCall /\ decision[t] = Nothing
  BY <1>1 DEF Silent
<1>6. Silent' /\ Coded' /\ TrainsBeforeItValidates' /\ FreshProbabilities'
  BY <1>1, <1>5 DEF Silent, Coded, TrainsBeforeItValidates, FreshProbabilities
<1>7. warming' \in Seq(Traded)
  BY <1>1, <1>2
<1>8. NoCall.at = "idle"
  BY DEF NoCall
<1>9. CASE d = Nothing
  <2>1. UNCHANGED <<model, cache, warmed>>
    BY <1>3, <1>4, <1>9 DEF Warm
  <2>2. ColibriTypes'
    BY <1>1, <1>7, <2>1 DEF ColibriTypes
  <2>3. OfSession' /\ Cached'
    BY <1>1, <2>1 DEF OfSession, Cached, Given, CodeOf
  <2> QED BY <1>6, <2>2, <2>3
<1>10. CASE d # Nothing /\ ~(d = model \/ Loads(d))
  <2>1. model' = Nothing /\ UNCHANGED <<cache, warmed>>
    BY <1>3, <1>4, <1>10 DEF Warm
  <2>2. ColibriTypes'
    BY <1>1, <1>7, <2>1 DEF ColibriTypes
  <2>3. OfSession' /\ Cached'
    BY <1>1, <2>1 DEF OfSession, Cached, Given, CodeOf
  <2> QED BY <1>6, <2>2, <2>3
<1>11. CASE d # Nothing /\ (d = model \/ Loads(d))
  <2>1. d \in DOMAIN runs /\ d \in Nat /\ s \in Range(runs[d].categories)
    BY <1>4, <1>11, SelectIs
  <2>2. PICK bars \in Spans : bars = series[s]
    BY DEF ColibriTypes
  <2>3. PICK p \in Computations : p = Computed(s, d, bars) /\ p.model = d /\ p.code = CodeOf(s, d)
                                  /\ p.key = KeyOf(p.bars)
    BY <2>1, <2>2, ComputedIs
  <2>4. /\ model' = d /\ warmed' = [warmed EXCEPT ![s] = d]
        /\ cache' = [cache EXCEPT ![s] = p]
    BY <1>3, <1>4, <1>11, <2>2, <2>3 DEF Warm
  <2>5. ColibriTypes'
    BY <1>1, <1>7, <2>1, <2>4 DEF ColibriTypes
  <2>6. /\ warmed'[s] = d /\ cache'[s] = p
        /\ \A t \in Traded \ {s} : warmed'[t] = warmed[t] /\ cache'[t] = cache[t]
    BY <2>4 DEF ColibriTypes
  <2>7. OfSession'
    BY <1>1, <1>5, <1>8, <2>1, <2>4, <2>6 DEF OfSession, Given
  <2>8. Cached'
    BY <1>1, <2>1, <2>3, <2>6 DEF Cached, CodeOf
  <2> QED BY <1>6, <2>5, <2>7, <2>8
<1> QED BY <1>9, <1>10, <1>11

LEMMA OpenFeedSafe ==
  ASSUME ColibriInv, OpenFeed
  PROVE  ColibriInv'
<1> USE DEF ColibriInv
<1>1. /\ warming' = Nothing /\ connected' = TRUE
      /\ UNCHANGED <<learnt, runs, model, cache, series, warmed, call, decision>>
  BY DEF OpenFeed
<1>2. ColibriTypes' /\ Silent'
  BY <1>1 DEF ColibriTypes, Silent
<1>3. OfSession' /\ Cached' /\ Coded' /\ TrainsBeforeItValidates' /\ FreshProbabilities'
  BY <1>1 DEF OfSession, Cached, Coded, TrainsBeforeItValidates, FreshProbabilities, Given, CodeOf
<1> QED BY <1>2, <1>3

LEMMA DisconnectSafe ==
  ASSUME ColibriInv, Disconnect
  PROVE  ColibriInv'
<1> USE DEF ColibriInv
<1>1. /\ connected' = FALSE /\ model' = Nothing /\ cache' = [s \in Traded |-> Nothing]
      /\ UNCHANGED <<learnt, runs, warming, series, warmed, call, decision>>
  BY DEF Disconnect
<1>2. ColibriTypes' /\ Silent'
  BY <1>1 DEF ColibriTypes, Silent
<1>3. OfSession' /\ Cached' /\ Coded' /\ TrainsBeforeItValidates'
  BY <1>1 DEF OfSession, Cached, Coded, TrainsBeforeItValidates, Given, CodeOf
<1>4. FreshProbabilities'
  <2>1. \A s \in Traded : decision[s] # Nothing => decision[s].asked # Nothing
    BY ColibriAssumption DEF ColibriTypes, Decisions
  <2> QED BY <1>1, <2>1 DEF FreshProbabilities
<1> QED BY <1>2, <1>3, <1>4

LEMMA OnBarSafe ==
  ASSUME ColibriInv, NEW s \in Traded, OnBar(s)
  PROVE  ColibriInv'
<1> USE DEF ColibriInv
<1>1. /\ connected /\ call[s] = NoCall
      /\ UNCHANGED <<learnt, runs, warming, connected, model, cache, warmed, decision>>
  BY DEF OnBar
<1>2. warming = Nothing
  BY <1>1 DEF Silent
<1>3. PICK last \in Int : last = series[s].last + 1
  BY DEF ColibriTypes, Spans
<1>4. PICK bars \in Spans : series' = [series EXCEPT ![s] = bars]
  <2>1. PICK first : first = Max({series[s].first, last - BufferBars + 1})
    OBVIOUS
  <2>2. first \in Int
    <3>1. series[s].first \in Int /\ last - BufferBars + 1 \in Int
      BY ColibriAssumption DEF ColibriTypes, Spans
    <3>2. PICK a \in Int, b \in Int : a = series[s].first /\ b = last - BufferBars + 1
      BY <3>1
    <3>3. first = Max({a, b})
      BY <2>1, <3>2
    <3>4. \E x \in {a, b} : \A y \in {a, b} : x >= y
      OBVIOUS
    <3> QED BY <3>3, <3>4 DEF Max
  <2>3. [first |-> first, last |-> last] \in Spans
    BY <2>2 DEF Spans
  <2>4. series' = [series EXCEPT ![s] = [first |-> first, last |-> last]]
    BY <1>3, <2>1 DEF OnBar, ColibriTypes
  <2> QED BY <2>3, <2>4
<1>5. CASE model = Nothing
  <2>1. call' = call
    BY <1>5 DEF OnBar
  <2>2. ColibriTypes' /\ Silent'
    BY <1>1, <1>2, <1>4, <2>1 DEF ColibriTypes, Silent
  <2>3. OfSession' /\ Cached' /\ Coded' /\ TrainsBeforeItValidates'
    BY <1>1, <2>1 DEF OfSession, Cached, Coded, TrainsBeforeItValidates, Given, CodeOf
  <2>4. FreshProbabilities'
    <3>1. \A t \in Traded : decision[t] # Nothing => decision[t].asked # Nothing
      BY ColibriAssumption DEF ColibriTypes, Decisions
    <3> QED BY <1>1, <1>5, <2>1, <3>1 DEF FreshProbabilities
  <2> QED BY <2>2, <2>3, <2>4
<1>6. CASE model # Nothing
  <2>1. PICK c \in Calls : c = [call[s] EXCEPT !.at = "prepare"] /\ c.at = "prepare" /\ c # NoCall
    <3>1. PICK old \in Calls : old = call[s]
      BY DEF ColibriTypes
    <3>2. PICK c : c = [old EXCEPT !.at = "prepare"]
      OBVIOUS
    <3>3. c \in Calls /\ c.at = "prepare"
      BY <3>2 DEF Calls
    <3>4. c # NoCall
      BY <3>3 DEF NoCall
    <3> QED BY <3>1, <3>2, <3>3, <3>4
  <2>2. call' = [call EXCEPT ![s] = c]
    BY <1>6, <2>1 DEF OnBar, ColibriTypes
  <2>3. /\ call'[s] = c /\ \A t \in Traded \ {s} : call'[t] = call[t] /\ series'[t] = series[t]
    BY <1>4, <2>2 DEF ColibriTypes
  <2>4. ColibriTypes' /\ Silent'
    BY <1>1, <1>2, <1>4, <2>2 DEF ColibriTypes, Silent
  <2>5. OfSession'
    <3>1. \A t \in Traded : call'[t].at = "compute" => call'[t] = call[t]
      BY <2>1, <2>3
    <3>2. \A e : Given(e)' <=> Given(e)
      BY <1>1 DEF Given
    <3>3. \A e : \A t \in Traded : CodeOf(t, e)' = CodeOf(t, e)
      BY <1>1 DEF CodeOf
    <3> QED BY <1>1, <3>1, <3>2, <3>3 DEF OfSession
  <2>7. Cached' /\ Coded' /\ TrainsBeforeItValidates'
    BY <1>1 DEF Cached, Coded, TrainsBeforeItValidates, CodeOf
  <2>6. FreshProbabilities'
    BY <1>1, <2>1, <2>3 DEF FreshProbabilities
  <2> QED BY <2>4, <2>5, <2>6, <2>7
<1> QED BY <1>5, <1>6

\* An answer with what a model of the session computed on the bars of the symbol.
LEMMA AnswerSafe ==
  ASSUME ColibriInv, NEW s \in Traded, call[s] # NoCall, NEW p \in Computations,
         Answer(s, p, p.model), Given(p.model), p.code = CodeOf(s, p.model), p.bars = series[s],
         UNCHANGED <<learnt, runs, warming, connected, model, series, warmed>>
  PROVE  /\ call' \in [Traded -> Calls] /\ decision' \in [Traded -> Decisions \cup {Nothing}]
         /\ Silent' /\ OfSession' /\ Coded' /\ TrainsBeforeItValidates' /\ FreshProbabilities'
<1> USE DEF ColibriInv
<1>1. PICK a : a = [model |-> p.model, code |-> p.code, bars |-> p.bars, asked |-> p.model]
  OBVIOUS
<1>2. a \in Decisions /\ a.model = p.model /\ a.asked = p.model /\ a.code = p.code /\ a.bars = p.bars
  BY <1>1 DEF Computations, Decisions
<1>3. decision' = [decision EXCEPT ![s] = a] /\ call' = [call EXCEPT ![s] = NoCall]
  BY <1>1 DEF Answer
<1>4. NoCall \in Calls /\ NoCall.at = "idle"
  BY DEF NoCall, Calls
<1>5. /\ decision'[s] = a /\ call'[s] = NoCall
      /\ \A t \in Traded \ {s} : decision'[t] = decision[t] /\ call'[t] = call[t]
  BY <1>3 DEF ColibriTypes
<1>6. call' \in [Traded -> Calls] /\ decision' \in [Traded -> Decisions \cup {Nothing}]
  BY <1>2, <1>3, <1>4 DEF ColibriTypes
<1>7. Silent'
  BY DEF Silent
<1>8. OfSession'
  BY <1>2, <1>4, <1>5 DEF OfSession, Given, CodeOf
<1>9. Coded' /\ TrainsBeforeItValidates'
  BY DEF Coded, TrainsBeforeItValidates
<1>10. FreshProbabilities'
  BY <1>2, <1>5 DEF FreshProbabilities
<1> QED BY <1>6, <1>7, <1>8, <1>9, <1>10

LEMMA PrepareSafe ==
  ASSUME ColibriInv, NEW s \in Traded, Prepare(s)
  PROVE  ColibriInv'
<1> USE DEF ColibriInv
<1>1. /\ call[s].at = "prepare"
      /\ UNCHANGED <<learnt, runs, warming, connected, model, cache, series, warmed>>
  BY DEF Prepare
<1>2. call[s] # NoCall
  BY <1>1 DEF NoCall
<1> DEFINE hit == cache[s] # Nothing /\ cache[s].key = KeyOf(series[s]) /\ cache[s].model = model
<1>3. CASE hit
  <2>1. PICK p \in Computations : p = cache[s]
    BY <1>3 DEF ColibriTypes
  <2>2. Answer(s, p, p.model) /\ p.model = model
    BY <1>3, <2>1 DEF Prepare
  <2>3. p.code = CodeOf(s, p.model) /\ p.key = KeyOf(p.bars) /\ p.key = KeyOf(series[s])
    BY <1>3, <2>1 DEF Cached
  <2>4. p.bars = series[s]
    <3>1. p.bars \in Spans /\ series[s] \in Spans
      BY DEF ColibriTypes, Computations
    <3>2. p.bars.first = series[s].first /\ p.bars.last = series[s].last
      BY <2>3 DEF KeyOf
    <3> QED BY <3>1, <3>2 DEF Spans
  <2>5. Given(p.model)
    <3>1. p.model \in Nat
      BY DEF Computations
    <3>2. model # Nothing
      BY <2>2, <3>1, ColibriAssumption
    <3> QED BY <2>2, <3>2 DEF OfSession
  <2>6. /\ call' \in [Traded -> Calls] /\ decision' \in [Traded -> Decisions \cup {Nothing}]
        /\ Silent' /\ OfSession' /\ Coded' /\ TrainsBeforeItValidates' /\ FreshProbabilities'
    BY <1>1, <1>2, <2>2, <2>3, <2>4, <2>5, AnswerSafe
  <2>7. ColibriTypes'
    BY <1>1, <2>6 DEF ColibriTypes
  <2>8. Cached'
    BY <1>1 DEF Cached, CodeOf
  <2> QED BY <2>6, <2>7, <2>8
<1>4. CASE ~hit
  <2>1. PICK c : c = IF model = Nothing THEN NoCall ELSE [at |-> "compute", mine |-> model]
    OBVIOUS
  <2>2. call' = [call EXCEPT ![s] = c] /\ UNCHANGED decision
    BY <1>4, <2>1 DEF Prepare
  <2>3. c \in Calls /\ (c.at = "compute" => c.mine = model /\ model # Nothing)
    BY <2>1 DEF Calls, NoCall, ColibriTypes
  <2>4. call'[s] = c /\ \A t \in Traded \ {s} : call'[t] = call[t]
    BY <2>2 DEF ColibriTypes
  <2>5. c = NoCall => model = Nothing
    BY <2>1 DEF NoCall
  <2>6. ColibriTypes'
    BY <1>1, <2>2, <2>3 DEF ColibriTypes
  <2>7. Silent'
    BY <1>1, <1>2, <2>2, <2>4 DEF Silent
  <2>8. OfSession' /\ Cached' /\ Coded' /\ TrainsBeforeItValidates'
    BY <1>1, <2>2, <2>3, <2>4 DEF OfSession, Cached, Coded, TrainsBeforeItValidates, Given, CodeOf
  <2>9. FreshProbabilities'
    <3>1. decision[s] # Nothing => decision[s].asked \in Nat
      BY DEF ColibriTypes, Decisions
    <3>2. ASSUME NEW t \in Traded, decision[t] # Nothing, call'[t] = NoCall
          PROVE  /\ decision[t].model = decision[t].asked
                 /\ model = decision[t].asked => decision[t].bars = series[t]
      <4>1. CASE t = s
        <5>1. model = Nothing
          BY <2>4, <2>5, <3>2, <4>1
        <5>2. decision[s].model = decision[s].asked
          BY <3>2, <4>1 DEF OfSession
        <5> QED BY <3>1, <3>2, <4>1, <5>1, <5>2, ColibriAssumption
      <4>2. CASE t # s
        BY <2>4, <3>2, <4>2 DEF FreshProbabilities
      <4> QED BY <4>1, <4>2
    <3> QED BY <1>1, <2>2, <3>2 DEF FreshProbabilities
  <2> QED BY <2>6, <2>7, <2>8, <2>9
<1> QED BY <1>3, <1>4

LEMMA ComputeSafe ==
  ASSUME ColibriInv, NEW s \in Traded, Compute(s)
  PROVE  ColibriInv'
<1> USE DEF ColibriInv
<1>1. /\ call[s].at = "compute"
      /\ UNCHANGED <<learnt, runs, warming, connected, model, series, warmed>>
  BY DEF Compute
<1>2. call[s] # NoCall
  BY <1>1 DEF NoCall
<1>3. PICK d \in Nat : d = call[s].mine /\ Given(d)
  <2>1. call[s].mine \in Nat /\ Given(call[s].mine)
    BY <1>1 DEF OfSession, ColibriTypes, Calls
  <2> QED BY <2>1
<1>4. d \in DOMAIN runs
  BY <1>3, GivenIs
<1>5. PICK bars \in Spans : bars = series[s]
  BY DEF ColibriTypes
<1>6. PICK p \in Computations : p = Computed(s, d, bars) /\ p.model = d /\ p.code = CodeOf(s, d)
                                /\ p.bars = bars /\ p.key = KeyOf(bars)
  BY <1>4, ComputedIs
<1>7. cache' = [cache EXCEPT ![s] = p] /\ Answer(s, p, p.model)
  BY <1>3, <1>5, <1>6 DEF Compute
<1>8. /\ call' \in [Traded -> Calls] /\ decision' \in [Traded -> Decisions \cup {Nothing}]
      /\ Silent' /\ OfSession' /\ Coded' /\ TrainsBeforeItValidates' /\ FreshProbabilities'
  BY <1>1, <1>2, <1>3, <1>5, <1>6, <1>7, AnswerSafe
<1>9. ColibriTypes'
  BY <1>1, <1>7, <1>8 DEF ColibriTypes
<1>10. cache'[s] = p /\ \A t \in Traded \ {s} : cache'[t] = cache[t]
  BY <1>7 DEF ColibriTypes
<1>11. Cached'
  BY <1>1, <1>4, <1>6, <1>10 DEF Cached, CodeOf
<1> QED BY <1>8, <1>9, <1>11

-----------------------------------------------------------------------------
(* The invariant *)

LEMMA ColibriInitHolds ==
  ASSUME ColibriInit
  PROVE  ColibriInv
<1>1. NoCall \in Calls /\ NoCall.at = "idle"
  BY DEF NoCall, Calls
<1>2. [first |-> 1, last |-> 1] \in Spans
  BY DEF Spans
<1>3. ColibriTypes
  <2>1. runs \in Seq(Models)
    BY DEF ColibriInit
  <2>2. series \in [Traded -> Spans] /\ call \in [Traded -> Calls]
    BY <1>1, <1>2 DEF ColibriInit
  <2>3. /\ cache \in [Traded -> Computations \cup {Nothing}]
        /\ decision \in [Traded -> Decisions \cup {Nothing}]
        /\ warmed \in [Traded -> Nat \cup {Nothing}]
    BY DEF ColibriInit
  <2> QED BY <2>1, <2>2, <2>3 DEF ColibriInit, ColibriTypes
<1>4. Coded
  BY DEF ColibriInit, Coded
<1>5. Silent /\ TrainsBeforeItValidates
  BY DEF ColibriInit, Silent, TrainsBeforeItValidates
<1>6. OfSession /\ Cached /\ FreshProbabilities
  BY <1>1 DEF ColibriInit, OfSession, Cached, FreshProbabilities
<1> QED BY <1>3, <1>4, <1>5, <1>6 DEF ColibriInv

LEMMA ColibriStep ==
  ASSUME ColibriInv, [ColibriNext]_colibriVars
  PROVE  ColibriInv'
<1>1. ASSUME NEW symbols \in (SUBSET Traded) \ {{}}, NEW bars \in Samples, Fit(symbols, bars)
      PROVE  ColibriInv'
  BY <1>1, FitSafe
<1>2. ASSUME NEW d \in RunIds, Delete(d) PROVE ColibriInv'
  BY <1>2, DeleteSafe
<1>3. CASE PublishModel \/ Connect \/ Warm \/ OpenFeed \/ Disconnect
  BY <1>3, PublishModelSafe, ConnectSafe, WarmSafe, OpenFeedSafe, DisconnectSafe
<1>4. ASSUME NEW s \in Traded, OnBar(s) \/ Prepare(s) \/ Compute(s) PROVE ColibriInv'
  BY <1>4, OnBarSafe, PrepareSafe, ComputeSafe
<1>5. CASE UNCHANGED colibriVars
  <2> USE <1>5 DEF colibriVars, sessionVars, ColibriInv
  <2>1. ColibriTypes' /\ Coded' /\ Silent' /\ Cached'
    BY DEF ColibriTypes, Coded, Silent, Cached, CodeOf
  <2>2. OfSession' /\ TrainsBeforeItValidates' /\ FreshProbabilities'
    BY DEF OfSession, TrainsBeforeItValidates, FreshProbabilities, Given, CodeOf
  <2> QED BY <2>1, <2>2
<1> QED BY <1>1, <1>2, <1>3, <1>4, <1>5 DEF ColibriNext

\* When the warm-ups of a session gave one model, every decision is its own, under the
\* code the trees know the symbol by.
LEMMA OneModel ==
  ASSUME ColibriInv
  PROVE  OneModelServesAll
<1> SUFFICES ASSUME NEW d \in DOMAIN runs, \A s \in Traded : warmed[s] = d,
                    NEW s \in Traded, decision[s] # Nothing
             PROVE  decision[s].model = d /\ decision[s].code = runs[d].codes[s]
  BY DEF OneModelServesAll
<1> USE DEF ColibriInv
<1>1. d # Nothing
  BY ColibriAssumption DEF ColibriTypes
<1>2. decision[s].model = d
  BY DEF OfSession, Given
<1>3. s \in Range(runs[d].categories)
  BY <1>1 DEF OfSession
<1>4. decision[s].code = SymbolCode(s, runs[d].categories)
  BY <1>2 DEF OfSession, CodeOf
<1> QED BY <1>2, <1>3, <1>4 DEF Coded

\* No row the trees learn from is judged by the bars that validate it (train.go, split);
\* a decision rests on the model in force and on the bars it is asked about
\* (strategy.go, prepare); and a model that serves all the symbols of a session knows
\* each by the code it was trained with (symbolCodeColumn).
THEOREM OneModelOneCode == ColibriSpec => []ColibriHolds
<1>1. ColibriInit => ColibriInv
  BY ColibriInitHolds
<1>2. ColibriInv /\ [ColibriNext]_colibriVars => ColibriInv'
  BY ColibriStep
<1>3. ColibriInv => ColibriHolds
  BY OneModel DEF ColibriInv, ColibriHolds
<1> QED BY <1>1, <1>2, <1>3, PTL DEF ColibriSpec
-----------------------------------------------------------------------------
(* Bars: the bars made of ticks *)

Onto(f, S) == \A x \in S : \E i \in 1..Cardinality(S) : f[i] = x

\* Every number of the set is in its sorted sequence.
LEMMA SortIsOnto ==
    ASSUME NEW S, S \subseteq Int, IsFiniteSet(S), NEW f, Sorts(f, S)
    PROVE  Onto(f, S)
<1>1. Cardinality(S) \in Nat
  BY FS_CardinalityType
<1>2. f \in [1..Cardinality(S) -> S]
  BY DEF Sorts
<1>3. ASSUME NEW i \in 1..Cardinality(S), NEW j \in 1..Cardinality(S), i # j PROVE f[i] # f[j]
  <2>1. f[i] \in Int /\ f[j] \in Int
    BY <1>2
  <2>2. CASE i < j
    BY <2>1, <2>2 DEF Sorts
  <2>3. CASE j < i
    BY <2>1, <2>3 DEF Sorts
  <2> QED BY <1>1, <1>3, <2>2, <2>3
<1>4. f \in Injection(1..Cardinality(S), S)
  BY <1>2, <1>3 DEF Injection, IsInjective
<1>5. Cardinality(1..Cardinality(S)) = Cardinality(S)
  BY <1>1, FS_Interval
<1>6. f \in Surjection(1..Cardinality(S), S)
  BY <1>4, <1>5, FS_Injection
<1> QED BY <1>6 DEF Surjection, Onto

\* There is one sorted sequence of a set.
LEMMA SortIsUnique ==
    ASSUME NEW S, S \subseteq Int, IsFiniteSet(S), NEW f, NEW g, Sorts(f, S), Sorts(g, S)
    PROVE  f = g
<1>1. PICK n \in Nat : n = Cardinality(S)
  BY FS_CardinalityType
<1>2. /\ f \in [1..n -> S] /\ \A i, j \in 1..n : i < j => f[i] < f[j]
      /\ g \in [1..n -> S] /\ \A i, j \in 1..n : i < j => g[i] < g[j]
  BY <1>1 DEF Sorts
<1>3. /\ \A x \in S : \E i \in 1..n : f[i] = x
      /\ \A x \in S : \E i \in 1..n : g[i] = x
  <2>1. Onto(f, S) /\ Onto(g, S)
    BY SortIsOnto
  <2> QED BY <1>1, <2>1 DEF Onto
<1> DEFINE Differ == {i \in 1..n : f[i] # g[i]}
<1>4. SUFFICES ASSUME Differ # {} PROVE FALSE
  <2>1. \A i \in 1..n : f[i] = g[i]
    BY <1>4
  <2> QED BY <1>2, <2>1
<1>5. Differ \subseteq Nat
  OBVIOUS
<1>6. PICK k \in Differ : \A i \in Differ : k <= i
  BY <1>4, <1>5, Smallest
<1>7. k \in 1..n /\ f[k] # g[k] /\ \A i \in 1..n : i < k => f[i] = g[i]
  BY <1>5, <1>6
<1>8. f[k] \in Int /\ g[k] \in Int /\ f[k] \in S /\ g[k] \in S
  BY <1>2, <1>7
<1>9. PICK i \in 1..n : g[i] = f[k]
  BY <1>3, <1>8
<1>10. PICK j \in 1..n : f[j] = g[k]
  BY <1>3, <1>8
<1>11. f[i] \in Int /\ g[j] \in Int
  BY <1>2
<1>12. CASE f[k] < g[k]
  <2>1. i < k
    BY <1>2, <1>7, <1>8, <1>9, <1>12
  <2> QED BY <1>2, <1>7, <1>9, <1>11, <2>1
<1>13. CASE g[k] < f[k]
  <2>1. j < k
    BY <1>2, <1>7, <1>8, <1>10, <1>13
  <2> QED BY <1>2, <1>7, <1>10, <1>11, <2>1
<1> QED BY <1>7, <1>8, <1>12, <1>13

LEMMA InOrderIs ==
    ASSUME NEW S, S \subseteq Int, IsFiniteSet(S)
    PROVE  /\ Sorts(InOrder(S), S)
           /\ Cardinality(S) \in Nat
           /\ InOrder(S) \in Seq(S) /\ Len(InOrder(S)) = Cardinality(S)
           /\ DOMAIN InOrder(S) = 1..Cardinality(S)
           /\ \A x \in S : \E i \in 1..Cardinality(S) : InOrder(S)[i] = x
<1>1. PICK f : f = InOrder(S)
  OBVIOUS
<1>2. Sorts(f, S) /\ Cardinality(S) \in Nat
  BY <1>1, InOrderSorts DEF Sorts
<1>3. f \in [1..Cardinality(S) -> S]
  BY <1>2 DEF Sorts
<1>4. f \in Seq(S) /\ Len(f) = Cardinality(S) /\ DOMAIN f = 1..Cardinality(S)
  BY <1>2, <1>3
<1>5. \A x \in S : \E i \in 1..Cardinality(S) : f[i] = x
  <2>1. Onto(f, S)
    BY <1>2, SortIsOnto
  <2> QED BY <2>1 DEF Onto
<1> QED BY <1>1, <1>2, <1>4, <1>5

\* A greater number comes last.
LEMMA InOrderGrows ==
    ASSUME NEW S, S \subseteq Int, IsFiniteSet(S), NEW m \in Int, \A x \in S : x < m
    PROVE  InOrder(S \cup {m}) = Append(InOrder(S), m)
<1>1. PICK f : f = InOrder(S)
  OBVIOUS
<1>2. PICK n \in Nat : n = Cardinality(S)
  BY InOrderIs
<1>3. f \in Seq(S) /\ Len(f) = n /\ f \in [1..n -> S] /\ \A i, j \in 1..n : i < j => f[i] < f[j]
  BY <1>1, <1>2, InOrderIs DEF Sorts
<1> DEFINE T == S \cup {m}
<1>4. T \subseteq Int /\ IsFiniteSet(T) /\ Cardinality(T) = n + 1
  BY <1>2, FS_AddElement
<1> DEFINE g == [i \in 1..(n + 1) |-> IF i = n + 1 THEN m ELSE f[i]]
<1>5. ASSUME NEW i \in 1..(n + 1) PROVE g[i] \in T /\ g[n + 1] = m /\ (i # n + 1 => g[i] = f[i] /\ g[i] < m)
  <2>1. CASE i = n + 1
    BY <2>1
  <2>2. CASE i # n + 1
    <3>1. i \in 1..n
      BY <2>2
    <3>2. f[i] \in S
      BY <1>3, <3>1
    <3>3. f[i] \in Int /\ f[i] < m
      BY <3>2
    <3> QED BY <2>2, <3>2, <3>3
  <2> QED BY <2>1, <2>2
<1>6. g \in [1..(n + 1) -> T] /\ g[n + 1] = m
  BY <1>5
<1> HIDE DEF g
<1>7. ASSUME NEW i \in 1..(n + 1), NEW j \in 1..(n + 1), i < j PROVE g[i] < g[j]
  <2>1. i \in 1..n /\ i # n + 1
    BY <1>7
  <2>2. CASE j = n + 1
    BY <1>5, <1>6, <2>1, <2>2
  <2>3. CASE j # n + 1
    <3>1. j \in 1..n
      BY <2>3
    <3> QED BY <1>3, <1>5, <1>7, <2>1, <2>3, <3>1
  <2> QED BY <2>2, <2>3
<1>8. Sorts(g, T)
  BY <1>4, <1>6, <1>7 DEF Sorts
<1>9. g = InOrder(T)
  BY <1>4, <1>8, InOrderIs, SortIsUnique
<1>10. f \in Seq(T) /\ m \in T
  <2>1. S \subseteq T
    OBVIOUS
  <2> QED BY <1>3, <2>1, SeqMonotonic
<1>11. g = Append(f, m)
  <2>1. g \in Seq(T) /\ Len(g) = n + 1
    BY <1>6
  <2>2. PICK h \in Seq(T) : h = Append(f, m)
    <3> HIDE DEF T
    <3>1. Append(f, m) \in Seq(T)
      BY <1>10, AppendProperties
    <3> QED BY <3>1
  <2>3. Len(h) = n + 1 /\ h[n + 1] = m /\ \A i \in 1..n : h[i] = f[i]
    BY <1>3, <1>10, <2>2
  <2>4. \A i \in 1..(n + 1) : g[i] = h[i]
    BY <1>5, <1>6, <2>3
  <2> QED BY <2>1, <2>2, <2>3, <2>4, SeqEqual
<1> QED BY <1>1, <1>9, <1>11

\* Two bars that agree on every field are one.
LEMMA BarsAgree ==
    ASSUME NEW a \in MarketBars, NEW b \in MarketBars,
           a.time = b.time, a.open = b.open, a.high = b.high, a.low = b.low, a.close = b.close,
           a.askOpen = b.askOpen, a.askHigh = b.askHigh, a.askLow = b.askLow,
           a.askClose = b.askClose, a.volume = b.volume
    PROVE  a = b
BY DEF MarketBars

LEMMA BarHas ==
    ASSUME NEW a \in MarketBars
    PROVE  /\ {a.time, a.open, a.high, a.low, a.close, a.askOpen, a.askHigh, a.askLow, a.askClose,
               a.volume} \subseteq Nat
           /\ a.time \in Nat /\ a.high \in Nat /\ a.low \in Nat /\ a.volume \in Nat
           /\ a.askHigh \in Nat /\ a.askLow \in Nat /\ a.askClose \in Nat /\ a.askOpen \in Nat
           /\ a.open \in Nat /\ a.close \in Nat
BY DEF MarketBars

\* What prolonging a bar gives, field by field.
Merged(c, a, b) ==
    /\ c \in MarketBars
    /\ c.time = a.time /\ c.open = a.open /\ c.close = b.close /\ c.volume = a.volume + b.volume
    /\ c.high = Greater(a.high, b.high) /\ c.low = Lesser(a.low, b.low)
    /\ b.askClose = 0 => /\ c.askOpen = a.askOpen /\ c.askHigh = a.askHigh
                         /\ c.askLow = a.askLow /\ c.askClose = a.askClose
    /\ b.askClose > 0 /\ a.askClose = 0 =>
         /\ c.askOpen = b.askOpen /\ c.askHigh = b.askHigh
         /\ c.askLow = b.askLow /\ c.askClose = b.askClose
    /\ b.askClose > 0 /\ a.askClose > 0 =>
         /\ c.askOpen = a.askOpen /\ c.askHigh = Greater(a.askHigh, b.askHigh)
         /\ c.askLow = Lesser(a.askLow, b.askLow) /\ c.askClose = b.askClose

LEMMA GreaterIs ==
    ASSUME NEW m \in Nat, NEW n \in Nat
    PROVE  Greater(m, n) \in Nat /\ Lesser(m, n) \in Nat
BY DEF Greater, Lesser

LEMMA MergeIs ==
    ASSUME NEW a \in MarketBars, NEW b \in MarketBars
    PROVE  Merged(Merge(a, b), a, b)
<1> DEFINE bid == [a EXCEPT !.high = Greater(@, b.high), !.low = Lesser(@, b.low),
                            !.close = b.close, !.volume = @ + b.volume]
<1>1. PICK h \in Nat : h = Greater(a.high, b.high)
  BY BarHas, GreaterIs
<1>2. PICK l \in Nat : l = Lesser(a.low, b.low)
  BY BarHas, GreaterIs
<1>3. PICK v \in Nat : v = a.volume + b.volume
  <2>1. a.volume \in Nat /\ b.volume \in Nat
    BY BarHas
  <2> QED BY <2>1
<1>4. PICK k \in Nat : k = b.close
  BY BarHas
<1>5. bid = [a EXCEPT !.high = h, !.low = l, !.close = k, !.volume = v]
  BY <1>1, <1>2, <1>3, <1>4
<1>6. /\ bid \in MarketBars
      /\ bid.time = a.time /\ bid.open = a.open /\ bid.high = h /\ bid.low = l
      /\ bid.close = k /\ bid.volume = v
      /\ bid.askOpen = a.askOpen /\ bid.askHigh = a.askHigh
      /\ bid.askLow = a.askLow /\ bid.askClose = a.askClose
  BY <1>5 DEF MarketBars
<1> HIDE DEF bid
<1>7. PICK d \in MarketBars : d = bid
  BY <1>6
<1>8. b.askClose \in Nat /\ a.askClose \in Nat
  BY BarHas
<1>9. CASE b.askClose = 0
  <2>1. Merge(a, b) = d
    BY <1>7, <1>8, <1>9 DEF Merge, HasAsk, bid
  <2> QED BY <1>1, <1>2, <1>3, <1>4, <1>6, <1>7, <1>9, <2>1 DEF Merged
<1>10. CASE b.askClose > 0 /\ a.askClose = 0
  <2>1. Merge(a, b) = [d EXCEPT !.askOpen = b.askOpen, !.askHigh = b.askHigh,
                                !.askLow = b.askLow, !.askClose = b.askClose]
    BY <1>7, <1>8, <1>10 DEF Merge, HasAsk, bid
  <2>2. PICK o, p, q, r \in Nat : o = b.askOpen /\ p = b.askHigh /\ q = b.askLow /\ r = b.askClose
    BY BarHas
  <2>3. PICK c : c = [d EXCEPT !.askOpen = o, !.askHigh = p, !.askLow = q, !.askClose = r]
    OBVIOUS
  <2>4. /\ c \in MarketBars
        /\ c.time = d.time /\ c.open = d.open /\ c.high = d.high /\ c.low = d.low
        /\ c.close = d.close /\ c.volume = d.volume
        /\ c.askOpen = o /\ c.askHigh = p /\ c.askLow = q /\ c.askClose = r
    BY <2>3 DEF MarketBars
  <2>5. Merge(a, b) = c
    BY <2>1, <2>2, <2>3
  <2> QED BY <1>1, <1>2, <1>3, <1>4, <1>6, <1>7, <1>10, <2>2, <2>4, <2>5 DEF Merged
<1>11. CASE b.askClose > 0 /\ a.askClose > 0
  <2>1. Merge(a, b) = [d EXCEPT !.askHigh = Greater(@, b.askHigh),
                                !.askLow = Lesser(@, b.askLow), !.askClose = b.askClose]
    BY <1>7, <1>8, <1>11 DEF Merge, HasAsk, bid
  <2>2. PICK p \in Nat : p = Greater(a.askHigh, b.askHigh)
    BY BarHas, GreaterIs
  <2>3. PICK q \in Nat : q = Lesser(a.askLow, b.askLow)
    BY BarHas, GreaterIs
  <2>4. PICK r \in Nat : r = b.askClose
    BY BarHas
  <2>5. PICK c : c = [d EXCEPT !.askHigh = p, !.askLow = q, !.askClose = r]
    OBVIOUS
  <2>6. /\ c \in MarketBars
        /\ c.time = d.time /\ c.open = d.open /\ c.high = d.high /\ c.low = d.low
        /\ c.close = d.close /\ c.volume = d.volume /\ c.askOpen = d.askOpen
        /\ c.askHigh = p /\ c.askLow = q /\ c.askClose = r
    BY <2>5 DEF MarketBars
  <2>7. Merge(a, b) = c
    BY <1>6, <1>7, <2>1, <2>2, <2>3, <2>4, <2>5
  <2> QED BY <1>1, <1>2, <1>3, <1>4, <1>6, <1>7, <1>11, <2>2, <2>3, <2>4, <2>6, <2>7 DEF Merged
<1> QED BY <1>8, <1>9, <1>10, <1>11

\* Prolonging a bar twice is prolonging it once by what the two make.
LEMMA MergeAssociates ==
    ASSUME NEW a \in MarketBars, NEW b \in MarketBars, NEW c \in MarketBars
    PROVE  Merge(Merge(a, b), c) = Merge(a, Merge(b, c))
<1>1. PICK ab : ab = Merge(a, b) /\ Merged(ab, a, b)
  BY MergeIs
<1>2. PICK bc : bc = Merge(b, c) /\ Merged(bc, b, c)
  BY MergeIs
<1>3. ab \in MarketBars /\ bc \in MarketBars
  BY <1>1, <1>2 DEF Merged
<1>4. PICK x : x = Merge(ab, c) /\ Merged(x, ab, c)
  BY <1>3, MergeIs
<1>5. PICK y : y = Merge(a, bc) /\ Merged(y, a, bc)
  BY <1>3, MergeIs
<1>6. x \in MarketBars /\ y \in MarketBars
  BY <1>4, <1>5 DEF Merged
<1>7. /\ x.time = y.time /\ x.open = y.open /\ x.close = y.close
  BY <1>1, <1>2, <1>4, <1>5 DEF Merged
<1>8. x.volume = y.volume
  <2>1. a.volume \in Nat /\ b.volume \in Nat /\ c.volume \in Nat
    BY BarHas
  <2> QED BY <1>1, <1>2, <1>4, <1>5, <2>1 DEF Merged
<1>9. x.high = y.high /\ x.low = y.low
  <2>1. /\ a.high \in Nat /\ b.high \in Nat /\ c.high \in Nat
        /\ a.low \in Nat /\ b.low \in Nat /\ c.low \in Nat
    BY BarHas
  <2>2. /\ x.high = Greater(Greater(a.high, b.high), c.high)
        /\ y.high = Greater(a.high, Greater(b.high, c.high))
        /\ x.low = Lesser(Lesser(a.low, b.low), c.low)
        /\ y.low = Lesser(a.low, Lesser(b.low, c.low))
    BY <1>1, <1>2, <1>4, <1>5 DEF Merged
  <2> QED BY <2>1, <2>2 DEF Greater, Lesser
<1>10. /\ x.askOpen = y.askOpen /\ x.askHigh = y.askHigh
       /\ x.askLow = y.askLow /\ x.askClose = y.askClose
  <2>1. /\ a.askHigh \in Nat /\ b.askHigh \in Nat /\ c.askHigh \in Nat
        /\ a.askLow \in Nat /\ b.askLow \in Nat /\ c.askLow \in Nat
        /\ a.askClose \in Nat /\ b.askClose \in Nat /\ c.askClose \in Nat
    BY BarHas
  <2>2. CASE a.askClose = 0
    BY <1>1, <1>2, <1>4, <1>5, <2>1, <2>2 DEF Merged, Greater, Lesser
  <2>3. CASE a.askClose > 0 /\ b.askClose = 0
    BY <1>1, <1>2, <1>4, <1>5, <2>1, <2>3 DEF Merged, Greater, Lesser
  <2>4. CASE a.askClose > 0 /\ b.askClose > 0
    BY <1>1, <1>2, <1>4, <1>5, <2>1, <2>4 DEF Merged, Greater, Lesser
  <2> QED BY <2>1, <2>2, <2>3, <2>4
<1>11. x = y
  BY <1>6, <1>7, <1>8, <1>9, <1>10, BarsAgree
<1> QED BY <1>1, <1>2, <1>4, <1>5, <1>11

\* A bar moved to its start is prolonged as the bar.
LEMMA MergeMoved ==
    ASSUME NEW a \in MarketBars, NEW b \in MarketBars, NEW t \in Nat
    PROVE  /\ [a EXCEPT !.time = t] \in MarketBars
           /\ Merge([a EXCEPT !.time = t], b) = [Merge(a, b) EXCEPT !.time = t]
<1>1. PICK m : m = [a EXCEPT !.time = t]
  OBVIOUS
<1>2. /\ m \in MarketBars /\ m.time = t /\ m.open = a.open /\ m.high = a.high /\ m.low = a.low
      /\ m.close = a.close /\ m.askOpen = a.askOpen /\ m.askHigh = a.askHigh
      /\ m.askLow = a.askLow /\ m.askClose = a.askClose /\ m.volume = a.volume
  BY <1>1 DEF MarketBars
<1>3. PICK c : c = Merge(a, b) /\ Merged(c, a, b)
  BY MergeIs
<1>4. PICK x : x = Merge(m, b) /\ Merged(x, m, b)
  BY <1>2, MergeIs
<1>5. PICK y : y = [c EXCEPT !.time = t]
  OBVIOUS
<1>6. c \in MarketBars /\ x \in MarketBars
  BY <1>3, <1>4 DEF Merged
<1>7. /\ y \in MarketBars /\ y.time = t /\ y.open = c.open /\ y.high = c.high /\ y.low = c.low
      /\ y.close = c.close /\ y.askOpen = c.askOpen /\ y.askHigh = c.askHigh
      /\ y.askLow = c.askLow /\ y.askClose = c.askClose /\ y.volume = c.volume
  BY <1>5, <1>6 DEF MarketBars
<1>8. a.askClose \in Nat /\ b.askClose \in Nat
  BY BarHas
<1>9. /\ x.time = t /\ x.open = c.open /\ x.high = c.high /\ x.low = c.low /\ x.close = c.close
      /\ x.volume = c.volume
  BY <1>2, <1>3, <1>4 DEF Merged
<1>10. /\ x.askOpen = c.askOpen /\ x.askHigh = c.askHigh
       /\ x.askLow = c.askLow /\ x.askClose = c.askClose
  BY <1>2, <1>3, <1>4, <1>8 DEF Merged
<1>11. x = y
  BY <1>6, <1>7, <1>9, <1>10, BarsAgree
<1> QED BY <1>1, <1>2, <1>3, <1>4, <1>5, <1>11

\* The ask of a bar that has none is 0.
NoHalfAsk(a) == a.askClose = 0 => a.askOpen = 0 /\ a.askHigh = 0 /\ a.askLow = 0

Ticks == [bid : Nat, ask : Nat, volume : Nat]

LEMMA BarOfIs ==
    ASSUME NEW t \in Nat, NEW tick \in Ticks
    PROVE  /\ BarOf(t, tick) \in MarketBars /\ NoHalfAsk(BarOf(t, tick))
           /\ BarOf(t, tick).time = t
           /\ \A u : BarOf(u, tick) = [BarOf(t, tick) EXCEPT !.time = u]
<1>1. tick.bid \in Nat /\ tick.ask \in Nat /\ tick.volume \in Nat
  BY DEF Ticks
<1>2. BarOf(t, tick) \in MarketBars
  BY <1>1 DEF BarOf, MarketBars
<1> QED BY <1>2 DEF BarOf, NoHalfAsk

\* The aggregator prolongs its bar as the history does.
LEMMA ProlongIsMerge ==
    ASSUME NEW a \in MarketBars, NoHalfAsk(a), NEW tick \in Ticks, NEW t \in Nat
    PROVE  /\ Prolong(a, tick) = Merge(a, BarOf(t, tick))
           /\ Prolong(a, tick) \in MarketBars
           /\ Prolong(a, tick).time = a.time
           /\ NoHalfAsk(Prolong(a, tick))
<1>1. PICK b \in MarketBars : b = BarOf(t, tick)
  BY BarOfIs
<1>2. tick.bid \in Nat /\ tick.ask \in Nat /\ tick.volume \in Nat
  BY DEF Ticks
<1>3. /\ b.open = tick.bid /\ b.high = tick.bid /\ b.low = tick.bid /\ b.close = tick.bid
      /\ b.askOpen = tick.ask /\ b.askHigh = tick.ask /\ b.askLow = tick.ask
      /\ b.askClose = tick.ask /\ b.volume = tick.volume
  BY <1>1 DEF BarOf
<1>4. PICK c : c = Merge(a, b) /\ Merged(c, a, b)
  BY MergeIs
<1>5. c \in MarketBars /\ a.askClose \in Nat /\ a.askHigh \in Nat /\ a.askLow \in Nat
  BY <1>4, BarHas DEF Merged
<1> DEFINE first == a.askClose = 0
<1>6. PICK h \in Nat : h = Greater(a.high, tick.bid)
  BY <1>2, BarHas, GreaterIs
<1>7. PICK l \in Nat : l = Lesser(a.low, tick.bid)
  BY <1>2, BarHas, GreaterIs
<1>8. PICK v \in Nat : v = a.volume + tick.volume
  <2>1. a.volume \in Nat
    BY BarHas
  <2> QED BY <1>2, <2>1
<1>9. PICK ao \in Nat : ao = IF first THEN tick.ask ELSE a.askOpen
  BY <1>2, BarHas
<1>10. PICK ah \in Nat : ah = IF first THEN tick.ask ELSE Greater(a.askHigh, tick.ask)
  BY <1>2, <1>5, GreaterIs
<1>11. PICK al \in Nat : al = IF first THEN tick.ask
                              ELSE IF tick.ask > 0 THEN Lesser(a.askLow, tick.ask) ELSE a.askLow
  BY <1>2, <1>5, GreaterIs
<1>12. PICK ac \in Nat : ac = IF tick.ask > 0 THEN tick.ask ELSE a.askClose
  BY <1>2, <1>5
<1>13. PICK p : p = Prolong(a, tick)
  OBVIOUS
<1>14. ~HasAsk(a) <=> first
  BY <1>5 DEF HasAsk
<1>15. PICK k \in Nat : k = tick.bid
  BY <1>2
<1>16. p = [a EXCEPT !.high = h, !.low = l, !.close = k, !.volume = v, !.askOpen = ao,
                     !.askHigh = ah, !.askLow = al, !.askClose = ac]
  BY <1>6, <1>7, <1>8, <1>9, <1>10, <1>11, <1>12, <1>13, <1>14, <1>15 DEF Prolong
<1>17. /\ p \in MarketBars
       /\ p.time = a.time /\ p.open = a.open /\ p.high = h /\ p.low = l /\ p.close = k
       /\ p.volume = v /\ p.askOpen = ao /\ p.askHigh = ah /\ p.askLow = al /\ p.askClose = ac
  BY <1>16 DEF MarketBars
<1>18. NoHalfAsk(p)
  BY <1>2, <1>5, <1>9, <1>10, <1>11, <1>12, <1>17 DEF NoHalfAsk
<1>19. /\ c.time = p.time /\ c.open = p.open /\ c.high = p.high /\ c.low = p.low
       /\ c.close = p.close /\ c.volume = p.volume
  BY <1>3, <1>4, <1>6, <1>7, <1>8, <1>15, <1>17 DEF Merged
<1>20. /\ c.askOpen = p.askOpen /\ c.askHigh = p.askHigh
       /\ c.askLow = p.askLow /\ c.askClose = p.askClose
  <2>1. CASE tick.ask = 0
    <3>1. CASE a.askClose = 0
      BY <1>3, <1>4, <1>9, <1>10, <1>11, <1>12, <1>17, <2>1, <3>1 DEF Merged, NoHalfAsk
    <3>2. CASE a.askClose > 0
      <4>1. Greater(a.askHigh, 0) = a.askHigh
        BY <1>5 DEF Greater
      <4> QED BY <1>3, <1>4, <1>9, <1>10, <1>11, <1>12, <1>17, <2>1, <3>2, <4>1 DEF Merged
    <3> QED BY <1>5, <3>1, <3>2
  <2>2. CASE tick.ask > 0
    <3>1. CASE a.askClose = 0
      BY <1>3, <1>4, <1>9, <1>10, <1>11, <1>12, <1>17, <2>2, <3>1 DEF Merged
    <3>2. CASE a.askClose > 0
      BY <1>3, <1>4, <1>9, <1>10, <1>11, <1>12, <1>17, <2>2, <3>2 DEF Merged
    <3> QED BY <1>5, <3>1, <3>2
  <2> QED BY <1>2, <2>1, <2>2
<1>21. c = p
  BY <1>5, <1>17, <1>19, <1>20, BarsAgree
<1> QED BY <1>1, <1>4, <1>13, <1>17, <1>18, <1>21

-----------------------------------------------------------------------------
(* Bars: where a bar starts *)

\* Two different multiples are at least one step apart.
LEMMA MultiplesApart ==
    ASSUME NEW w \in Nat \ {0}, NEW j \in Int, NEW k \in Int, j * w < k * w
    PROVE  j + 1 <= k /\ j * w + w <= k * w
<1>1. j < k
  OBVIOUS
<1>2. (k - j) * w >= w
  OBVIOUS
<1> QED BY <1>1, <1>2

\* A bar starts at a multiple of the timeframe, and lasts one.
LEMMA StartIs ==
    ASSUME NEW t \in Nat
    PROVE  /\ BarStart(t) \in Nat /\ BarStart(t) <= t /\ t < BarStart(t) + Timeframe
           /\ \E k \in Nat : BarStart(t) = k * Timeframe
<1>1. PICK w \in Nat \ {0} : w = Timeframe
  BY BarsAssumption
<1>2. t = w * (t \div w) + (t % w) /\ t \div w \in Nat /\ t % w \in 0..(w - 1)
  OBVIOUS
<1>3. BarStart(t) = t - (t % w)
  BY <1>1 DEF BarStart
<1>4. PICK q \in Nat : q = t \div w
  BY <1>2
<1>5. BarStart(t) = q * w
  BY <1>2, <1>3, <1>4
<1>6. BarStart(t) \in Nat /\ BarStart(t) <= t /\ t < BarStart(t) + w
  <2>1. t - (t % w) >= 0
    <3>1. w * (t \div w) >= 0
      BY <1>2
    <3> QED BY <1>2, <3>1
  <2> QED BY <1>2, <1>3, <2>1
<1> QED BY <1>1, <1>4, <1>5, <1>6

\* The minutes of a bar are those that start it.
LEMMA StartOfMinutes ==
    ASSUME NEW t \in Nat, NEW u \in Nat, BarStart(t) <= u, u < BarStart(t) + Timeframe
    PROVE  BarStart(u) = BarStart(t)
<1>1. PICK w \in Nat \ {0} : w = Timeframe
  BY BarsAssumption
<1>2. PICK j \in Nat : BarStart(t) = j * w
  BY <1>1, StartIs
<1>3. PICK k \in Nat : BarStart(u) = k * w
  BY <1>1, StartIs
<1>4. BarStart(u) <= u /\ u < BarStart(u) + w
  BY <1>1, StartIs
<1>5. PICK x \in Nat, y \in Nat : x = j * w /\ y = k * w
  BY <1>2, <1>3, StartIs
<1>6. CASE x < y
  <2>1. x + w <= y
    BY <1>5, <1>6, MultiplesApart
  <2> QED BY <1>1, <1>2, <1>3, <1>4, <1>5, <2>1
<1>7. CASE y < x
  <2>1. y + w <= x
    BY <1>5, <1>7, MultiplesApart
  <2> QED BY <1>1, <1>2, <1>3, <1>4, <1>5, <2>1
<1> QED BY <1>2, <1>3, <1>5, <1>6, <1>7

LEMMA StartMonotone ==
    ASSUME NEW t \in Nat, NEW u \in Nat, t <= u
    PROVE  BarStart(t) <= BarStart(u)
<1>1. /\ BarStart(t) \in Nat /\ BarStart(t) <= t /\ t < BarStart(t) + Timeframe
      /\ BarStart(u) \in Nat /\ BarStart(u) <= u /\ u < BarStart(u) + Timeframe
  BY StartIs
<1>2. CASE u < BarStart(t) + Timeframe
  <2>1. BarStart(u) = BarStart(t)
    BY <1>1, <1>2, StartOfMinutes
  <2> QED BY <1>1, <2>1
<1>3. CASE ~(u < BarStart(t) + Timeframe)
  <2>1. Timeframe \in Nat
    BY BarsAssumption
  <2> QED BY <1>1, <1>3, <2>1
<1> QED BY <1>2, <1>3
-----------------------------------------------------------------------------
(* Bars: history resampled *)

LEMMA LastOf ==
    ASSUME NEW s \in Seq(MarketBars), NEW e \in MarketBars
    PROVE  /\ Append(s, e) \in Seq(MarketBars) /\ Append(s, e) # <<>> /\ Len(Append(s, e)) = Len(s) + 1
           /\ Front(Append(s, e)) = s /\ Last(Append(s, e)) = e
           /\ \A i \in 1..Len(s) : Append(s, e)[i] = s[i]
<1>1. PICK a \in Seq(MarketBars) : a = Append(s, e)
  BY AppendProperties
<1>2. Len(a) = Len(s) + 1 /\ a[Len(a)] = e /\ \A i \in 1..Len(s) : a[i] = s[i]
  BY <1>1, AppendProperties
<1>3. PICK f : f = SubSeq(a, 1, Len(a) - 1)
  OBVIOUS
<1>4. f \in Seq(MarketBars) /\ Len(f) = Len(s) /\ \A i \in 1..Len(s) : f[i] = s[i]
  BY <1>2, <1>3
<1>5. f = s
  BY <1>4
<1> QED BY <1>1, <1>2, <1>3, <1>5 DEF Front, Last

LEMMA FrontOf ==
    ASSUME NEW s \in Seq(MarketBars), s # <<>>
    PROVE  /\ Front(s) \in Seq(MarketBars) /\ Len(Front(s)) = Len(s) - 1 /\ Len(s) \in Nat \ {0}
           /\ Last(s) \in MarketBars /\ Last(s) = s[Len(s)]
           /\ \A i \in 1..Len(s) - 1 : Front(s)[i] = s[i]
<1>1. Len(s) \in Nat \ {0} /\ \A i \in 1..Len(s) : s[i] \in MarketBars
  OBVIOUS
<1>2. PICK f : f = SubSeq(s, 1, Len(s) - 1)
  OBVIOUS
<1>3. f \in Seq(MarketBars) /\ Len(f) = Len(s) - 1 /\ \A i \in 1..Len(s) - 1 : f[i] = s[i]
  <2>1. PICK n \in Nat : n = Len(s) - 1
    BY <1>1
  <2>2. \A i \in 1..n : s[i] \in MarketBars
    BY <1>1, <2>1
  <2>3. /\ f \in Seq(MarketBars) /\ Len(f) = IF 1 <= n THEN n - 1 + 1 ELSE 0
        /\ \A i \in 1..n - 1 + 1 : f[i] = s[1 + i - 1]
    BY <1>2, <2>1, <2>2, SubSeqProperties
  <2>4. Len(f) = n /\ \A i \in 1..n : f[i] = s[i]
    BY <2>3
  <2> QED BY <2>1, <2>3, <2>4
<1> QED BY <1>1, <1>2, <1>3 DEF Front, Last

\* The last bar of a series starts where bars start.
FromStarts(r) ==
    /\ r \in Seq(MarketBars)
    /\ r # <<>> => \E u \in Nat : Last(r).time = BarStart(u)

\* A bar prolongs the last bar of its start, or begins another.
LEMMA ResampledIs ==
    ASSUME NEW r, FromStarts(r), NEW b \in MarketBars
    PROVE  /\ FromStarts(Resampled(r, b))
           /\ Resampled(r, b) # <<>> /\ Last(Resampled(r, b)).time = BarStart(b.time)
           /\ r # <<>> /\ Last(r).time = BarStart(b.time)
                => Resampled(r, b) = Append(Front(r), Merge(Last(r), b))
           /\ ~(r # <<>> /\ Last(r).time = BarStart(b.time))
                => Resampled(r, b) = Append(r, [b EXCEPT !.time = BarStart(b.time)])
<1>1. r \in Seq(MarketBars) /\ b.time \in Nat
  BY BarHas DEF FromStarts
<1>2. PICK s \in Nat : s = BarStart(b.time)
  BY <1>1, StartIs
<1> DEFINE Same == r # <<>> /\ Last(r).time = s
<1>3. Same <=> r # <<>> /\ Last(r).time <= b.time /\ b.time < Last(r).time + Timeframe
  <2>1. CASE r # <<>>
    <3>1. PICK u \in Nat : Last(r).time = BarStart(u)
      BY <2>1 DEF FromStarts
    <3>2. BarStart(u) <= b.time /\ b.time < BarStart(u) + Timeframe => BarStart(b.time) = BarStart(u)
      BY <1>1, StartOfMinutes
    <3>3. s <= b.time /\ b.time < s + Timeframe
      BY <1>1, <1>2, StartIs
    <3> QED BY <1>2, <2>1, <3>1, <3>2, <3>3
  <2> QED BY <2>1
<1>4. PICK out : out = Resampled(r, b)
  OBVIOUS
<1>5. ASSUME Same
      PROVE  /\ out = Append(Front(r), Merge(Last(r), b))
             /\ out \in Seq(MarketBars) /\ out # <<>> /\ Last(out).time = s
  <2>1. out = Append(Front(r), Merge(Last(r), b))
    BY <1>3, <1>4, <1>5 DEF Resampled
  <2>2. Front(r) \in Seq(MarketBars) /\ Last(r) \in MarketBars
    BY <1>1, <1>5, FrontOf
  <2>3. PICK c : c = Merge(Last(r), b) /\ Merged(c, Last(r), b)
    BY <2>2, MergeIs
  <2>4. c \in MarketBars /\ c.time = s
    BY <1>5, <2>3 DEF Merged
  <2> QED BY <2>1, <2>2, <2>3, <2>4, LastOf
<1>6. ASSUME ~Same
      PROVE  /\ out = Append(r, [b EXCEPT !.time = s])
             /\ out \in Seq(MarketBars) /\ out # <<>> /\ Last(out).time = s
  <2>1. out = Append(r, [b EXCEPT !.time = s])
    BY <1>2, <1>3, <1>4, <1>6 DEF Resampled
  <2>2. PICK c : c = [b EXCEPT !.time = s]
    OBVIOUS
  <2>3. c \in MarketBars /\ c.time = s
    BY <2>2 DEF MarketBars
  <2> QED BY <1>1, <2>1, <2>2, <2>3, LastOf
<1>7. FromStarts(out)
  BY <1>1, <1>2, <1>5, <1>6 DEF FromStarts
<1> QED BY <1>2, <1>4, <1>5, <1>6, <1>7

\* Two bars of one minute count as the one they make.
LEMMA ResampledTwice ==
    ASSUME NEW r, FromStarts(r), NEW a \in MarketBars, NEW b \in MarketBars, a.time = b.time
    PROVE  Resampled(Resampled(r, a), b) = Resampled(r, Merge(a, b))
<1>1. PICK s \in Nat : s = BarStart(a.time)
  BY BarHas, StartIs
<1>2. PICK m : m = Merge(a, b) /\ Merged(m, a, b)
  BY MergeIs
<1>3. m \in MarketBars /\ m.time = a.time /\ r \in Seq(MarketBars)
  BY <1>2 DEF Merged, FromStarts
<1>4. PICK q : q = Resampled(r, a)
  OBVIOUS
<1>5. /\ FromStarts(q) /\ q # <<>> /\ Last(q).time = s
      /\ r # <<>> /\ Last(r).time = s => q = Append(Front(r), Merge(Last(r), a))
      /\ ~(r # <<>> /\ Last(r).time = s) => q = Append(r, [a EXCEPT !.time = s])
  BY <1>1, <1>4, ResampledIs
<1>6. Resampled(q, b) = Append(Front(q), Merge(Last(q), b))
  BY <1>1, <1>5, ResampledIs
<1>7. CASE r # <<>> /\ Last(r).time = s
  <2>1. Resampled(r, m) = Append(Front(r), Merge(Last(r), m))
    BY <1>1, <1>3, <1>7, ResampledIs
  <2>2. Front(r) \in Seq(MarketBars) /\ Last(r) \in MarketBars
    BY <1>3, <1>7, FrontOf
  <2>3. PICK c \in MarketBars : c = Merge(Last(r), a)
    BY <2>2, MergeIs DEF Merged
  <2>4. Front(q) = Front(r) /\ Last(q) = c
    BY <1>5, <1>7, <2>2, <2>3, LastOf
  <2>5. Merge(c, b) = Merge(Last(r), m)
    BY <1>2, <2>2, <2>3, MergeAssociates
  <2> QED BY <1>2, <1>4, <1>6, <2>1, <2>4, <2>5
<1>8. CASE ~(r # <<>> /\ Last(r).time = s)
  <2>1. Resampled(r, m) = Append(r, [m EXCEPT !.time = s])
    BY <1>1, <1>3, <1>8, ResampledIs
  <2>2. PICK c \in MarketBars : c = [a EXCEPT !.time = s]
    BY <1>1, MergeMoved
  <2>3. Front(q) = r /\ Last(q) = c
    <3>1. q = Append(r, c)
      BY <1>5, <1>8, <2>2
    <3> QED BY <1>3, <2>2, <3>1, LastOf
  <2>4. Merge(c, b) = [m EXCEPT !.time = s]
    BY <1>1, <1>2, <2>2, MergeMoved
  <2> QED BY <1>2, <1>4, <1>6, <2>1, <2>3, <2>4
<1> QED BY <1>7, <1>8

\* The bars resampled from the first n of a series.
ResamplesFirst(g, given, n) ==
    g = [i \in 0..n |-> IF i = 0 THEN <<>> ELSE Resampled(g[i - 1], given[i])]

LEMMA ResamplesExists ==
    ASSUME NEW given, NEW n \in Nat
    PROVE  \E g : ResamplesFirst(g, given, n)
<1> DEFINE S == {m \in Nat : \E g : ResamplesFirst(g, given, m)}
<1>1. 0 \in S
  <2> DEFINE g == [i \in 0..0 |-> <<>>]
  <2>1. g = [i \in 0..0 |-> IF i = 0 THEN <<>> ELSE Resampled(g[i - 1], given[i])]
    OBVIOUS
  <2> QED BY <2>1 DEF ResamplesFirst
<1>2. ASSUME NEW m \in Nat, m \in S PROVE m + 1 \in S
  <2>1. PICK g : ResamplesFirst(g, given, m)
    BY <1>2
  <2> DEFINE h == [i \in 0..(m + 1) |->
                     IF i = m + 1 THEN Resampled(g[m], given[m + 1]) ELSE g[i]]
  <2>2. ASSUME NEW i \in 0..(m + 1)
        PROVE  h[i] = IF i = 0 THEN <<>> ELSE Resampled(h[i - 1], given[i])
    <3>1. CASE i = m + 1
      <4>1. i # 0 /\ i - 1 = m /\ h[m] = g[m] /\ h[i] = Resampled(g[m], given[m + 1])
        BY <3>1
      <4> QED BY <3>1, <4>1
    <3>2. CASE i # m + 1
      <4>1. i \in 0..m /\ h[i] = g[i]
        BY <3>2
      <4>2. g[i] = IF i = 0 THEN <<>> ELSE Resampled(g[i - 1], given[i])
        BY <2>1, <4>1 DEF ResamplesFirst
      <4>3. i # 0 => h[i - 1] = g[i - 1]
        BY <4>1
      <4> QED BY <4>1, <4>2, <4>3
    <3> QED BY <3>1, <3>2
  <2>3. h = [i \in 0..(m + 1) |-> h[i]]
    OBVIOUS
  <2> HIDE DEF h
  <2>4. ResamplesFirst(h, given, m + 1)
    BY <2>2, <2>3 DEF ResamplesFirst
  <2> QED BY <2>4
<1> HIDE DEF S
<1>3. Nat \subseteq S
  BY <1>1, <1>2, SetInduction
<1>4. n \in S
  BY <1>3
<1> QED BY <1>4 DEF S

LEMMA ResampleIs ==
    ASSUME NEW given, Len(given) \in Nat
    PROVE  \E g : ResamplesFirst(g, given, Len(given)) /\ Resample(given) = g[Len(given)]
<1> DEFINE out == CHOOSE g : g = [i \in 0..Len(given) |->
                                    IF i = 0 THEN <<>> ELSE Resampled(g[i - 1], given[i])]
<1>1. \E g : g = [i \in 0..Len(given) |-> IF i = 0 THEN <<>> ELSE Resampled(g[i - 1], given[i])]
  <2>1. \E g : ResamplesFirst(g, given, Len(given))
    BY ResamplesExists
  <2> QED BY <2>1 DEF ResamplesFirst
<1>2. ResamplesFirst(out, given, Len(given))
  BY <1>1 DEF ResamplesFirst
<1>3. Resample(given) = out[Len(given)]
  BY DEF Resample
<1> QED BY <1>2, <1>3

LEMMA ResamplesAt ==
    ASSUME NEW g, NEW s, NEW n \in Nat, ResamplesFirst(g, s, n), NEW i \in Nat, i + 1 <= n
    PROVE  g[0] = <<>> /\ g[i + 1] = Resampled(g[i], s[i + 1])
<1>1. PICK j \in 0..n : j = i + 1
  OBVIOUS
<1>2. j # 0 /\ j - 1 = i /\ 0 \in 0..n
  BY <1>1
<1>3. g[j] = Resampled(g[j - 1], s[j])
  BY <1>2 DEF ResamplesFirst
<1>4. g[0] = <<>>
  BY <1>2 DEF ResamplesFirst
<1> QED BY <1>1, <1>2, <1>3, <1>4

\* Two series with the same first bars make the same bars of them.
LEMMA ResamplesAgree ==
    ASSUME NEW g, NEW h, NEW s, NEW u, NEW m \in Nat, NEW n \in Nat, m <= n,
           ResamplesFirst(g, s, m), ResamplesFirst(h, u, n),
           \A i \in 1..m : s[i] = u[i]
    PROVE  g[m] = h[m]
<1> DEFINE S == {i \in Nat : i <= m => g[i] = h[i]}
<1>1. 0 \in S
  BY DEF ResamplesFirst
<1>2. ASSUME NEW i \in Nat, i \in S PROVE i + 1 \in S
  <2>1. CASE i + 1 <= m
    <3>1. i + 1 \in 0..m /\ i + 1 \in 0..n /\ i + 1 # 0 /\ i + 1 \in 1..m /\ i <= m
      BY <2>1
    <3>2. g[i + 1] = Resampled(g[i], s[i + 1])
      BY <2>1, ResamplesAt
    <3>3. h[i + 1] = Resampled(h[i], u[i + 1])
      <4>1. i + 1 <= n
        BY <2>1
      <4> QED BY <4>1, ResamplesAt
    <3> QED BY <1>2, <3>1, <3>2, <3>3
  <2> QED BY <2>1
<1> HIDE DEF S
<1>3. Nat \subseteq S
  BY <1>1, <1>2, SetInduction
<1>4. m \in S
  BY <1>3
<1> QED BY <1>4 DEF S

\* One bar more.
LEMMA ResampleGrows ==
    ASSUME NEW q \in Seq(MarketBars), NEW b \in MarketBars
    PROVE  Resample(Append(q, b)) = Resampled(Resample(q), b)
<1>1. PICK n \in Nat : n = Len(q)
  OBVIOUS
<1>2. PICK a \in Seq(MarketBars) : a = Append(q, b)
  BY AppendProperties
<1>3. Len(a) = n + 1 /\ a[n + 1] = b /\ \A i \in 1..n : q[i] = a[i]
  BY <1>1, <1>2, AppendProperties
<1>4. PICK g : ResamplesFirst(g, q, n) /\ Resample(q) = g[n]
  BY <1>1, ResampleIs
<1>5. PICK h : ResamplesFirst(h, a, n + 1) /\ Resample(a) = h[n + 1]
  BY <1>3, ResampleIs
<1>6. g[n] = h[n]
  <2>1. n + 1 \in Nat /\ n <= n + 1
    OBVIOUS
  <2>2. \A i \in 1..n : q[i] = a[i]
    BY <1>3
  <2> QED BY <1>4, <1>5, <2>1, <2>2, ResamplesAgree
<1>7. h[n + 1] = Resampled(h[n], a[n + 1])
  <2>1. n + 1 <= n + 1 /\ n + 1 \in Nat
    OBVIOUS
  <2> QED BY <1>5, <2>1, ResamplesAt
<1> QED BY <1>2, <1>3, <1>4, <1>5, <1>6, <1>7

\* What is resampled is a series that starts where bars start.
LEMMA ResampleStarted ==
    ASSUME NEW q \in Seq(MarketBars)
    PROVE  FromStarts(Resample(q))
<1>1. PICK n \in Nat : n = Len(q)
  OBVIOUS
<1>2. PICK g : ResamplesFirst(g, q, n) /\ Resample(q) = g[n]
  BY <1>1, ResampleIs
<1> DEFINE S == {i \in Nat : i <= n => FromStarts(g[i])}
<1>3. 0 \in S
  <2>1. g[0] = <<>>
    BY <1>2 DEF ResamplesFirst
  <2>2. <<>> \in Seq(MarketBars)
    OBVIOUS
  <2> QED BY <2>1, <2>2 DEF FromStarts
<1>4. ASSUME NEW i \in Nat, i \in S PROVE i + 1 \in S
  <2>1. CASE i + 1 <= n
    <3>1. i + 1 \in 0..n /\ i + 1 # 0 /\ i + 1 \in 1..n /\ i <= n
      BY <2>1
    <3>2. g[i + 1] = Resampled(g[i], q[i + 1])
      BY <1>2, <2>1, ResamplesAt
    <3>3. q[i + 1] \in MarketBars
      BY <1>1, <3>1
    <3>4. FromStarts(g[i + 1])
      BY <1>4, <3>1, <3>2, <3>3, ResampledIs
    <3> QED BY <3>4
  <2> QED BY <2>1
<1> HIDE DEF S
<1>5. Nat \subseteq S
  BY <1>3, <1>4, SetInduction
<1>6. n \in S
  BY <1>5
<1> QED BY <1>2, <1>6 DEF S
-----------------------------------------------------------------------------
(* Bars: what the market publishes *)

\* The bars of these minutes.
PublishedIn(bars, S) == [k \in DOMAIN InOrder(S) |-> bars[InOrder(S)[k]]]

TradedMinutes(bars) == {m \in Minutes : bars[m] # NoBar}

Dated(bars) ==
    /\ bars \in [Minutes -> MarketBars \cup {NoBar}]
    /\ \A m \in Minutes : bars[m] # NoBar => bars[m].time = m

LEMMA MinutesFinite ==
    ASSUME NEW S \in SUBSET Minutes
    PROVE  IsFiniteSet(S) /\ S \subseteq Int /\ S \subseteq Nat
<1>1. Minutes \subseteq Nat /\ IsFiniteSet(Minutes)
  BY BarsAssumption, FS_Interval DEF Minutes
<1>2. IsFiniteSet(S)
  BY <1>1, FS_Subset
<1> QED BY <1>1, <1>2

LEMMA PublishedInIs ==
    ASSUME NEW S \in SUBSET Minutes, NEW bars, \A m \in S : bars[m] \in MarketBars
    PROVE  PublishedIn(bars, S) \in Seq(MarketBars)
<1>1. IsFiniteSet(S) /\ S \subseteq Int
  BY MinutesFinite
<1>2. PICK f : f = InOrder(S)
  OBVIOUS
<1>3. PICK n \in Nat : n = Cardinality(S)
  BY <1>1, InOrderIs
<1>4. f \in Seq(S) /\ Len(f) = n /\ DOMAIN f = 1..n
  BY <1>1, <1>2, <1>3, InOrderIs
<1>5. \A k \in 1..n : f[k] \in S
  BY <1>4
<1>6. [k \in 1..n |-> bars[f[k]]] \in Seq(MarketBars)
  BY <1>5
<1> QED BY <1>2, <1>4, <1>6 DEF PublishedIn

\* A later minute is published last.
LEMMA PublishedInGrows ==
    ASSUME NEW S \in SUBSET Minutes, NEW bars, \A m \in S : bars[m] \in MarketBars,
           NEW t \in Minutes, \A m \in S : m < t, bars[t] \in MarketBars
    PROVE  PublishedIn(bars, S \cup {t}) = Append(PublishedIn(bars, S), bars[t])
<1>1. IsFiniteSet(S) /\ S \subseteq Int /\ t \in Int
  <2>1. {t} \in SUBSET Minutes
    OBVIOUS
  <2> QED BY <2>1, MinutesFinite
<1>2. PICK f : f = InOrder(S)
  OBVIOUS
<1>3. PICK n \in Nat : n = Cardinality(S)
  BY <1>1, InOrderIs
<1>4. f \in Seq(S) /\ Len(f) = n /\ DOMAIN f = 1..n
  BY <1>1, <1>2, <1>3, InOrderIs
<1>5. \A k \in 1..n : f[k] \in S
  BY <1>4
<1>6. InOrder(S \cup {t}) = Append(f, t)
  BY <1>1, <1>2, InOrderGrows
<1>7. PICK h : h = Append(f, t)
  OBVIOUS
<1>8. f \in Seq(Int) /\ t \in Int
  <2>1. \A k \in 1..n : f[k] \in Int
    BY <1>1, <1>5
  <2>2. f = [k \in 1..n |-> f[k]]
    BY <1>4
  <2>3. f \in [1..n -> Int]
    BY <2>1, <2>2
  <2> QED BY <1>1, <2>3
<1>9. DOMAIN h = 1..n + 1 /\ h[n + 1] = t /\ \A k \in 1..n : h[k] = f[k]
  BY <1>4, <1>7, <1>8
<1>10. PICK p \in Seq(MarketBars) : p = PublishedIn(bars, S)
  BY PublishedInIs
<1>11. p = [k \in 1..n |-> bars[f[k]]]
  BY <1>2, <1>4, <1>10 DEF PublishedIn
<1>12. PublishedIn(bars, S \cup {t}) = [k \in 1..n + 1 |-> bars[h[k]]]
  BY <1>6, <1>7, <1>9 DEF PublishedIn
<1>13. PICK a \in Seq(MarketBars) : a = Append(p, bars[t])
  BY AppendProperties
<1>14. Len(p) = n
  BY <1>11
<1>15. Len(a) = n + 1 /\ a[n + 1] = bars[t] /\ \A k \in 1..n : a[k] = p[k]
  BY <1>13, <1>14, AppendProperties
<1>16. a = [k \in 1..n + 1 |-> a[k]]
  BY <1>15
<1>17. ASSUME NEW k \in 1..n + 1 PROVE a[k] = bars[h[k]]
  <2>1. CASE k = n + 1
    BY <1>9, <1>15, <2>1
  <2>2. CASE k # n + 1
    <3>1. k \in 1..n
      BY <2>2
    <3> QED BY <1>9, <1>11, <1>15, <3>1
  <2> QED BY <2>1, <2>2
<1> QED BY <1>10, <1>12, <1>13, <1>16, <1>17

\* What a trade of minute t, whose bar is b, makes of the bars.
TradedTo(bars, t, b, bars2) ==
    bars2 = [bars EXCEPT ![t] = IF @ = NoBar THEN b ELSE Merge(@, b)]

\* The market trades at the latest minute: its history is resampled with one
\* bar more.
LEMMA PublishedGrows ==
    ASSUME NEW bars, Dated(bars), NEW t \in Minutes, \A m \in Minutes : bars[m] # NoBar => m <= t,
           NEW b \in MarketBars, b.time = t, NEW bars2,
           TradedTo(bars, t, b, bars2)
    PROVE  Resample(PublishedIn(bars2, TradedMinutes(bars2)))
             = Resampled(Resample(PublishedIn(bars, TradedMinutes(bars))), b)
<1>1. \A m \in Minutes : bars[m] # NoBar => bars[m] \in MarketBars
  BY DEF Dated
<1>2. PICK S : S = TradedMinutes(bars) \ {t}
  OBVIOUS
<1>3. /\ S \in SUBSET Minutes
      /\ \A m \in S : bars[m] \in MarketBars /\ m < t /\ bars2[m] = bars[m] /\ m # t
  <2>1. \A m \in S : m \in Minutes /\ bars[m] # NoBar /\ m # t /\ m <= t
    BY <1>2 DEF TradedMinutes
  <2>2. Minutes \subseteq Nat
    BY BarsAssumption DEF Minutes
  <2>3. ASSUME NEW m \in S PROVE m < t
    <3>1. m \in Nat /\ t \in Nat /\ m # t /\ m <= t
      BY <2>1, <2>2
    <3> QED BY <3>1
  <2>4. bars \in [Minutes -> MarketBars \cup {NoBar}]
    BY DEF Dated
  <2>5. \A m \in S : bars2[m] = bars[m]
    BY <2>1, <2>4 DEF TradedTo
  <2> QED BY <1>1, <2>1, <2>3, <2>5
<1>4. PICK q \in Seq(MarketBars) : q = PublishedIn(bars, S)
  BY <1>3, PublishedInIs
<1>5. q = PublishedIn(bars2, S)
  <2>1. IsFiniteSet(S) /\ S \subseteq Int
    BY <1>3, MinutesFinite
  <2>2. PICK f : f = InOrder(S)
    OBVIOUS
  <2>3. \A k \in DOMAIN f : f[k] \in S
    <3>1. f \in Seq(S)
      BY <2>1, <2>2, InOrderIs
    <3> QED BY <3>1
  <2>4. \A k \in DOMAIN f : bars2[f[k]] = bars[f[k]]
    BY <1>3, <2>3
  <2> QED BY <1>4, <2>2, <2>4 DEF PublishedIn
<1>6. bars2[t] = IF bars[t] = NoBar THEN b ELSE Merge(bars[t], b)
  BY DEF Dated, TradedTo
<1>7. \A m \in Minutes : m # t => bars2[m] = bars[m]
  BY DEF Dated, TradedTo
<1>8. \A m \in S : m < t
  BY <1>3
<1>9. \A m \in S : bars[m] \in MarketBars
  BY <1>3
<1>10. \A m \in S : bars2[m] \in MarketBars
  BY <1>3
<1>11. S \in SUBSET Minutes
  BY <1>3
<1>12. FromStarts(Resample(q))
  BY ResampleStarted
<1>13. b # NoBar
  BY NoBarAssumption
<1>14. CASE bars[t] = NoBar
  <2>1. TradedMinutes(bars) = S
    BY <1>2, <1>14 DEF TradedMinutes
  <2>2. TradedMinutes(bars2) = S \cup {t}
    BY <1>6, <1>7, <1>13, <1>14, <2>1 DEF TradedMinutes
  <2>3. bars2[t] = b /\ bars2[t] \in MarketBars
    BY <1>6, <1>14
  <2>4. PublishedIn(bars2, S \cup {t}) = Append(q, b)
    <3>1. bars2[t] \in MarketBars
      BY <2>3
    <3>2. PublishedIn(bars2, S \cup {t}) = Append(PublishedIn(bars2, S), bars2[t])
      BY <1>8, <1>10, <1>11, <3>1, PublishedInGrows
    <3> QED BY <1>5, <2>3, <3>2
  <2> QED BY <1>4, <2>1, <2>2, <2>4, ResampleGrows
<1>15. CASE bars[t] # NoBar
  <2>1. PICK a \in MarketBars : a = bars[t] /\ a.time = t
    BY <1>15, <1>1 DEF Dated
  <2>2. PICK c : c = Merge(a, b) /\ Merged(c, a, b)
    BY <2>1, MergeIs
  <2>3. c \in MarketBars /\ bars2[t] = c
    BY <1>6, <1>15, <2>1, <2>2 DEF Merged
  <2>4. c # NoBar
    BY <2>3, NoBarAssumption
  <2>5. TradedMinutes(bars) = S \cup {t}
    BY <1>2, <1>15 DEF TradedMinutes
  <2>6. TradedMinutes(bars2) = S \cup {t}
    BY <1>7, <2>3, <2>4, <2>5 DEF TradedMinutes
  <2>7. PublishedIn(bars, S \cup {t}) = Append(q, a)
    BY <1>4, <1>8, <1>9, <1>11, <2>1, PublishedInGrows
  <2>8. PublishedIn(bars2, S \cup {t}) = Append(q, c)
    BY <1>5, <1>8, <1>10, <1>11, <2>3, PublishedInGrows
  <2>9. Resample(Append(q, a)) = Resampled(Resample(q), a)
    BY <2>1, ResampleGrows
  <2>10. Resample(Append(q, c)) = Resampled(Resample(q), c)
    BY <2>3, ResampleGrows
  <2>11. Resampled(Resampled(Resample(q), a), b) = Resampled(Resample(q), c)
    BY <1>12, <2>1, <2>2, ResampledTwice
  <2> QED BY <2>5, <2>6, <2>7, <2>8, <2>9, <2>10, <2>11
<1> QED BY <1>14, <1>15

-----------------------------------------------------------------------------
(* Bars: the history that is read back *)

LEMMA TimesFinite ==
    ASSUME NEW s \in Seq(MarketBars), NEW T, T \subseteq Times(s)
    PROVE  IsFiniteSet(T) /\ T \subseteq Int
<1>1. PICK n \in Nat : n = Len(s)
  OBVIOUS
<1>2. \A i \in 1..n : s[i] \in MarketBars
  BY <1>1
<1>3. DOMAIN s = 1..n
  BY <1>1
<1>4. PICK S : S = Times(s)
  OBVIOUS
<1>5. S = {s[i].time : i \in 1..n}
  BY <1>3, <1>4 DEF Times
<1>6. S \subseteq Int
  BY <1>2, <1>5, BarHas
<1>7. PICK f : f = [i \in 1..n |-> s[i].time]
  OBVIOUS
<1>8. f \in Surjection(1..n, S)
  BY <1>5, <1>7 DEF Surjection
<1>9. IsFiniteSet(1..n)
  BY FS_Interval
<1>10. IsFiniteSet(S)
  BY <1>8, <1>9, FS_Surjection
<1>11. T \in SUBSET S
  BY <1>4
<1> QED BY <1>6, <1>10, <1>11, FS_Subset

\* The latest bars of these times are bars of the series.
LEMMA LatestIs ==
    ASSUME NEW s \in Seq(MarketBars), NEW T, T \subseteq Times(s)
    PROVE  Latest(s, T) \in Seq(MarketBars)
<1>1. IsFiniteSet(T) /\ T \subseteq Int
  BY TimesFinite
<1>2. PICK f : f = InOrder(T)
  OBVIOUS
<1>3. PICK n \in Nat : n = Cardinality(T)
  BY <1>1, InOrderIs
<1>4. f \in Seq(T) /\ Len(f) = n /\ DOMAIN f = 1..n
  BY <1>1, <1>2, <1>3, InOrderIs
<1>5. ASSUME NEW k \in 1..n
      PROVE  s[Max({i \in DOMAIN s : s[i].time = f[k]})] \in MarketBars
  <2>1. f[k] \in Times(s)
    BY <1>4
  <2>2. PICK I : I = {i \in DOMAIN s : s[i].time = f[k]}
    OBVIOUS
  <2>3. I # {}
    BY <2>1, <2>2 DEF Times
  <2>4. PICK m \in Nat : m = Len(s)
    OBVIOUS
  <2>5. I \in SUBSET (1..m)
    BY <2>2, <2>4
  <2>6. IsFiniteSet(1..m)
    BY FS_Interval
  <2>7. IsFiniteSet(I)
    BY <2>5, <2>6, FS_Subset
  <2>8. \E x \in I : \A y \in I : x >= y
    <3>1. I \subseteq Int
      BY <2>5
    <3>2. PICK x \in I : \A y \in I : y <= x
      BY <2>3, <2>7, <3>1, GreatestExists
    <3> QED BY <3>1, <3>2
  <2>9. Max(I) \in I
    BY <2>8 DEF Max
  <2> QED BY <2>2, <2>4, <2>5, <2>9
<1>6. [k \in 1..n |-> s[Max({i \in DOMAIN s : s[i].time = f[k]})]] \in Seq(MarketBars)
  BY <1>5
<1> QED BY <1>2, <1>4, <1>6 DEF Latest

\* The files of the first years, one after the other.
FilesOf(g, files, m) ==
    g = [y \in -1..m |-> IF y < YearOf(0) THEN <<>> ELSE g[y - 1] \o files[y]]

LEMMA FilesExist ==
    ASSUME NEW files, NEW m \in Nat
    PROVE  \E g : FilesOf(g, files, m)
<1>1. YearOf(0) = 0
  BY BarsAssumption DEF YearOf
<1> DEFINE S == {n \in Nat : \E g : FilesOf(g, files, n - 1)}
<1>2. 0 \in S
  <2> DEFINE g == [y \in -1..-1 |-> <<>>]
  <2>1. g = [y \in -1..-1 |-> IF y < YearOf(0) THEN <<>> ELSE g[y - 1] \o files[y]]
    BY <1>1
  <2>2. 0 - 1 = -1
    OBVIOUS
  <2> QED BY <2>1, <2>2 DEF FilesOf
<1>3. ASSUME NEW n \in Nat, n \in S PROVE n + 1 \in S
  <2>1. PICK g : FilesOf(g, files, n - 1)
    BY <1>3
  <2> DEFINE h == [y \in -1..n |-> IF y = n THEN g[n - 1] \o files[n] ELSE g[y]]
  <2>2. ASSUME NEW y \in -1..n
        PROVE  h[y] = IF y < YearOf(0) THEN <<>> ELSE h[y - 1] \o files[y]
    <3>1. CASE y = n
      <4>1. ~(y < YearOf(0)) /\ n - 1 \in -1..n /\ n - 1 # n
        BY <1>1, <3>1
      <4>2. h[n - 1] = g[n - 1] /\ h[y] = g[n - 1] \o files[n]
        BY <3>1, <4>1
      <4> QED BY <3>1, <4>1, <4>2
    <3>2. CASE y # n
      <4>1. y \in -1..(n - 1) /\ h[y] = g[y]
        BY <3>2
      <4>2. g[y] = IF y < YearOf(0) THEN <<>> ELSE g[y - 1] \o files[y]
        BY <2>1, <4>1 DEF FilesOf
      <4>3. ~(y < YearOf(0)) => h[y - 1] = g[y - 1]
        BY <1>1, <4>1
      <4> QED BY <4>1, <4>2, <4>3
    <3> QED BY <3>1, <3>2
  <2>3. h = [y \in -1..n |-> h[y]]
    OBVIOUS
  <2> HIDE DEF h
  <2>4. FilesOf(h, files, n)
    BY <2>2, <2>3 DEF FilesOf
  <2>5. (n + 1) - 1 = n
    OBVIOUS
  <2> QED BY <2>4, <2>5
<1> HIDE DEF S
<1>4. Nat \subseteq S
  BY <1>2, <1>3, SetInduction
<1>5. m + 1 \in S /\ (m + 1) - 1 = m
  BY <1>4
<1> QED BY <1>5 DEF S

LEMMA FilesAreBars ==
    ASSUME NEW files \in [Years -> Seq(MarketBars)], NEW m \in Nat, m = LastMinute \div YearLen,
           NEW g, FilesOf(g, files, m)
    PROVE  g[m] \in Seq(MarketBars)
<1>1. YearOf(0) = 0
  BY BarsAssumption DEF YearOf
<1> DEFINE S == {n \in Nat : n - 1 <= m => g[n - 1] \in Seq(MarketBars)}
<1>2. 0 \in S
  <2>1. 0 - 1 = -1 /\ -1 \in -1..m /\ -1 < 0
    OBVIOUS
  <2>2. g[-1] = <<>>
    BY <1>1, <2>1 DEF FilesOf
  <2>3. <<>> \in Seq(MarketBars)
    OBVIOUS
  <2>4. g[0 - 1] \in Seq(MarketBars)
    BY <2>1, <2>2, <2>3
  <2> QED BY <2>4
<1>3. ASSUME NEW n \in Nat, n \in S PROVE n + 1 \in S
  <2>1. CASE n <= m
    <3>1. n \in -1..m /\ ~(n < YearOf(0)) /\ n \in Years /\ n - 1 <= m /\ (n + 1) - 1 = n
      BY <1>1, <2>1 DEF Years
    <3>2. g[n] = g[n - 1] \o files[n]
      BY <3>1 DEF FilesOf
    <3>3. g[n - 1] \in Seq(MarketBars) /\ files[n] \in Seq(MarketBars)
      BY <1>3, <3>1
    <3>4. g[n] \in Seq(MarketBars)
      BY <3>2, <3>3
    <3> QED BY <3>1, <3>4
  <2> QED BY <2>1
<1> HIDE DEF S
<1>4. Nat \subseteq S
  BY <1>2, <1>3, SetInduction
<1>5. m + 1 \in S /\ (m + 1) - 1 = m
  BY <1>4
<1> QED BY <1>5 DEF S

\* The whole history is a series of bars.
LEMMA LoadIs ==
    ASSUME history \in [Years -> Seq(MarketBars)]
    PROVE  Load(0) \in Seq(MarketBars)
<1>1. PICK m \in Nat : m = LastMinute \div YearLen
  BY BarsAssumption
<1> DEFINE g == CHOOSE h : h = [y \in -1..m |-> IF y < YearOf(0) THEN <<>> ELSE h[y - 1] \o history[y]]
           all == g[m]
<1>2. \E h : h = [y \in -1..m |-> IF y < YearOf(0) THEN <<>> ELSE h[y - 1] \o history[y]]
  <2>1. \E h : FilesOf(h, history, m)
    BY FilesExist
  <2> QED BY <2>1 DEF FilesOf
<1>3. FilesOf(g, history, m)
  BY <1>2 DEF FilesOf
<1>4. Load(0) = Latest(all, {t \in Times(all) : t >= 0})
  BY <1>1 DEF Load
<1> HIDE DEF g
<1>5. all \in Seq(MarketBars)
  BY <1>1, <1>3, FilesAreBars
<1> HIDE DEF all
<1>6. {t \in Times(all) : t >= 0} \subseteq Times(all)
  OBVIOUS
<1> QED BY <1>4, <1>5, <1>6, LatestIs

-----------------------------------------------------------------------------
(* Bars: the bars closed live are those of the history *)

\* The aggregator's open bar and the bars it has closed.
Aggregates(cur, done) ==
    /\ done \in Seq(MarketBars)
    /\ cur # NoBar => cur \in MarketBars /\ NoHalfAsk(cur)
    /\ cur = NoBar => done = <<>>
    /\ Increasing(done)
    /\ cur # NoBar /\ done # <<>> => Last(done).time < cur.time

\* A tick of minute t, of the aggregator's open bar, of an earlier one or of a
\* later one.
Adds(cur, done, t, tick, cur2, done2) ==
    \/ cur = NoBar /\ cur2 = BarOf(BarStart(t), tick) /\ done2 = done
    \/ cur # NoBar /\ BarStart(t) < cur.time /\ cur2 = cur /\ done2 = done
    \/ cur # NoBar /\ cur.time = BarStart(t) /\ cur2 = Prolong(cur, tick) /\ done2 = done
    \/ /\ cur # NoBar /\ cur.time < BarStart(t)
       /\ cur2 = BarOf(BarStart(t), tick) /\ done2 = Append(done, cur)

\* The history that is published, resampled, ends with the open bar, and has
\* the bars closed before.
Mirrors(cur, done, t, r) ==
    /\ cur # NoBar => /\ cur.time = BarStart(t) /\ r # <<>> /\ Last(r).time = cur.time
                      /\ done # <<>> => Last(r) = cur
    /\ \A k \in 2..Len(done) : \E i \in 1..Len(r) - 1 : r[i] = done[k]

LEMMA AddIs ==
    ASSUME NEW t \in Nat, NEW tick \in Ticks, Aggregates(current, closed), Add(t, tick)
    PROVE  Adds(current, closed, t, tick, current', closed')
<1>1. PICK s \in Nat : s = BarStart(t)
  BY StartIs
<1>2. BarOf(s, tick) \in MarketBars /\ BarOf(s, tick).time = s
  BY BarOfIs
<1>3. PICK bar : bar = BarOf(s, tick)
  OBVIOUS
<1>4. CASE current = NoBar
  BY <1>1, <1>3, <1>4 DEF Add, Adds
<1>5. CASE current # NoBar
  <2>1. current.time \in Nat
    BY <1>5, BarHas DEF Aggregates
  <2>2. CASE s < current.time
    BY <1>1, <1>2, <1>5, <2>1, <2>2 DEF Add, Adds
  <2>3. CASE s = current.time
    BY <1>1, <1>2, <1>5, <2>1, <2>3 DEF Add, Adds
  <2>4. CASE current.time < s
    BY <1>1, <1>2, <1>5, <2>1, <2>4 DEF Add, Adds
  <2> QED BY <2>1, <2>2, <2>3, <2>4
<1> QED BY <1>4, <1>5

\* One bar more, later than the last, keeps a series increasing.
LEMMA IncreasingGrows ==
    ASSUME NEW done \in Seq(MarketBars), Increasing(done), NEW b \in MarketBars,
           done # <<>> => Last(done).time < b.time
    PROVE  Increasing(Append(done, b)) /\ Last(Append(done, b)) = b
<1>1. PICK n \in Nat : n = Len(done)
  OBVIOUS
<1>2. PICK a : a = Append(done, b)
  OBVIOUS
<1>3. Len(a) = n + 1 /\ a[n + 1] = b /\ Last(a) = b /\ \A i \in 1..n : a[i] = done[i]
  <2>1. Len(a) = n + 1 /\ a[n + 1] = b /\ \A i \in 1..n : a[i] = done[i]
    BY <1>1, <1>2, AppendProperties
  <2> QED BY <2>1 DEF Last
<1>4. ASSUME NEW i \in 1..n PROVE a[i].time < a[i + 1].time
  <2>1. CASE i = n
    <3>1. done # <<>> /\ Last(done) = done[n]
      BY <1>1, <2>1 DEF Last
    <3> QED BY <1>3, <2>1, <3>1
  <2>2. CASE i # n
    <3>1. i \in 1..n - 1 /\ i + 1 \in 1..n
      BY <2>2
    <3>2. done[i].time < done[i + 1].time
      BY <1>1, <3>1 DEF Increasing
    <3> QED BY <1>3, <3>1, <3>2
  <2> QED BY <2>1, <2>2
<1>5. Len(a) - 1 = n
  BY <1>3
<1> QED BY <1>2, <1>3, <1>4, <1>5 DEF Increasing

LEMMA AddsKeepLive ==
    ASSUME NEW t \in Nat, NEW tick \in Ticks, NEW cur, NEW done, NEW cur2, NEW done2,
           Aggregates(cur, done), Adds(cur, done, t, tick, cur2, done2)
    PROVE  Aggregates(cur2, done2) /\ cur2 # NoBar
<1>1. PICK s \in Nat : s = BarStart(t)
  BY StartIs
<1>2. PICK bar \in MarketBars : bar = BarOf(s, tick) /\ bar.time = s /\ NoHalfAsk(bar)
  BY BarOfIs
<1>3. \A b \in MarketBars : b # NoBar
  BY NoBarAssumption
<1>4. CASE cur = NoBar /\ cur2 = bar /\ done2 = done
  BY <1>2, <1>3, <1>4 DEF Aggregates
<1>5. CASE cur # NoBar /\ s < cur.time /\ cur2 = cur /\ done2 = done
  BY <1>5 DEF Aggregates
<1>6. CASE cur # NoBar /\ cur.time = s /\ cur2 = Prolong(cur, tick) /\ done2 = done
  <2>1. cur \in MarketBars /\ NoHalfAsk(cur)
    BY <1>6 DEF Aggregates
  <2>2. cur2 \in MarketBars /\ cur2.time = cur.time /\ NoHalfAsk(cur2)
    BY <1>6, <2>1, ProlongIsMerge
  <2> QED BY <1>3, <1>6, <2>2 DEF Aggregates
<1>7. CASE cur # NoBar /\ cur.time < s /\ cur2 = bar /\ done2 = Append(done, cur)
  <2>1. cur \in MarketBars /\ done \in Seq(MarketBars) /\ Increasing(done)
        /\ (done # <<>> => Last(done).time < cur.time)
    BY <1>7 DEF Aggregates
  <2>2. Increasing(done2) /\ Last(done2) = cur
    BY <1>7, <2>1, IncreasingGrows
  <2>3. done2 \in Seq(MarketBars)
    BY <1>7, <2>1, AppendProperties
  <2> QED BY <1>2, <1>3, <1>7, <2>2, <2>3 DEF Aggregates
<1> QED BY <1>1, <1>2, <1>4, <1>5, <1>6, <1>7 DEF Adds

\* A tick that does not come behind another: what it makes of the aggregator's
\* bars is what its trade makes of the history.
LEMMA AddsMirrored ==
    ASSUME NEW t \in Nat, NEW u \in Nat, t <= u, NEW tick \in Ticks,
           NEW cur, NEW done, NEW cur2, NEW done2, NEW r, FromStarts(r),
           Aggregates(cur, done), Mirrors(cur, done, t, r), Adds(cur, done, u, tick, cur2, done2)
    PROVE  Mirrors(cur2, done2, u, Resampled(r, BarOf(u, tick)))
<1>1. PICK s \in Nat : s = BarStart(u)
  BY StartIs
<1>2. PICK b \in MarketBars : b = BarOf(u, tick) /\ b.time = u
  BY BarOfIs
<1>3. PICK bar \in MarketBars : bar = BarOf(s, tick) /\ bar.time = s
  BY BarOfIs
<1>4. bar = [b EXCEPT !.time = s]
  BY <1>2, <1>3, BarOfIs
<1>5. PICK q : q = Resampled(r, b)
  OBVIOUS
<1>6. /\ FromStarts(q) /\ q # <<>> /\ Last(q).time = s
      /\ r # <<>> /\ Last(r).time = s => q = Append(Front(r), Merge(Last(r), b))
      /\ ~(r # <<>> /\ Last(r).time = s) => q = Append(r, bar)
  BY <1>1, <1>2, <1>4, <1>5, ResampledIs
<1>7. r \in Seq(MarketBars) /\ q \in Seq(MarketBars) /\ done \in Seq(MarketBars)
  BY <1>6 DEF FromStarts, Aggregates
<1>8. CASE cur = NoBar /\ cur2 = bar /\ done2 = done
  <2>1. done = <<>>
    BY <1>8 DEF Aggregates
  <2>2. Len(done2) = 0
    BY <1>8, <2>1
  <2> QED BY <1>1, <1>2, <1>3, <1>5, <1>6, <1>8, <2>1, <2>2 DEF Mirrors
<1>9. CASE cur # NoBar
  <2>1. /\ cur \in MarketBars /\ NoHalfAsk(cur) /\ cur.time = BarStart(t) /\ r # <<>>
        /\ Last(r).time = cur.time /\ (done # <<>> => Last(r) = cur)
    BY <1>9 DEF Aggregates, Mirrors
  <2>2. BarStart(t) <= s /\ cur.time \in Nat
    BY <1>1, <2>1, StartMonotone, BarHas
  <2>3. \A k \in 2..Len(done) : \E i \in 1..Len(r) - 1 : r[i] = done[k]
    BY DEF Mirrors
  <2>4. CASE cur.time = s /\ cur2 = Prolong(cur, tick) /\ done2 = done
    <3>1. q = Append(Front(r), Merge(Last(r), b))
      BY <1>6, <2>1, <2>4
    <3>2. PICK f \in Seq(MarketBars) : f = Front(r)
      BY <1>7, <2>1, FrontOf
    <3>3. Last(r) \in MarketBars /\ Len(f) = Len(r) - 1 /\ \A i \in 1..Len(r) - 1 : f[i] = r[i]
      BY <1>7, <2>1, <3>2, FrontOf
    <3>4. PICK c \in MarketBars : c = Merge(Last(r), b)
      BY <1>2, <3>3, MergeIs DEF Merged
    <3>5. q = Append(f, c)
      BY <3>1, <3>2, <3>4
    <3>6. Len(q) = Len(f) + 1 /\ Last(q) = c /\ \A i \in 1..Len(f) : q[i] = f[i]
      BY <3>5, LastOf
    <3>7. cur2 = Merge(cur, b) /\ cur2.time = cur.time
      BY <1>2, <2>1, <2>4, ProlongIsMerge
    <3>8. done2 # <<>> => Last(q) = cur2
      BY <2>1, <2>4, <3>4, <3>6, <3>7
    <3>9. ASSUME NEW k \in 2..Len(done2) PROVE \E i \in 1..Len(q) - 1 : q[i] = done2[k]
      <4>1. PICK i \in 1..Len(r) - 1 : r[i] = done[k]
        BY <2>3, <2>4, <3>9
      <4>2. i \in 1..Len(q) - 1 /\ q[i] = r[i]
        BY <3>3, <3>6
      <4> QED BY <2>4, <4>1, <4>2
    <3>10. cur2.time = s
      BY <2>4, <3>7
    <3> QED BY <1>1, <1>2, <1>5, <1>6, <3>8, <3>9, <3>10 DEF Mirrors
  <2>5. CASE cur.time < s /\ cur2 = bar /\ done2 = Append(done, cur)
    <3>1. q = Append(r, bar)
      BY <1>6, <2>1, <2>2, <2>5
    <3>2. Len(q) = Len(r) + 1 /\ Last(q) = bar /\ \A i \in 1..Len(r) : q[i] = r[i]
      BY <1>7, <3>1, LastOf
    <3>3. PICK n \in Nat : n = Len(done)
      BY <1>7
    <3>4. Len(done2) = n + 1 /\ done2[n + 1] = cur /\ \A k \in 1..n : done2[k] = done[k]
      BY <1>7, <2>1, <2>5, <3>3, AppendProperties
    <3>5. Len(r) \in Nat \ {0} /\ Last(r) = r[Len(r)]
      BY <1>7, <2>1, FrontOf
    <3>6. ASSUME NEW k \in 2..Len(done2) PROVE \E i \in 1..Len(q) - 1 : q[i] = done2[k]
      <4>1. CASE k = n + 1
        <5>1. n >= 1 /\ done # <<>>
          BY <3>3, <3>4, <3>6, <4>1
        <5>2. r[Len(r)] = cur
          BY <2>1, <3>5, <5>1
        <5>3. Len(r) \in 1..Len(q) - 1 /\ q[Len(r)] = r[Len(r)]
          BY <3>2, <3>5
        <5> QED BY <3>4, <4>1, <5>2, <5>3
      <4>2. CASE k # n + 1
        <5>1. k \in 2..Len(done) /\ k \in 1..n
          BY <3>3, <3>4, <3>6, <4>2
        <5>2. PICK i \in 1..Len(r) - 1 : r[i] = done[k]
          BY <2>3, <5>1
        <5>3. i \in 1..Len(q) - 1 /\ q[i] = r[i]
          BY <3>2, <3>5
        <5> QED BY <3>4, <5>1, <5>2, <5>3
      <4> QED BY <4>1, <4>2
    <3> QED BY <1>1, <1>2, <1>3, <1>5, <1>6, <2>5, <3>2, <3>6 DEF Mirrors
  <2>6. ~(s < cur.time)
    BY <1>1, <2>1, <2>2
  <2> QED BY <1>1, <1>3, <1>9, <2>4, <2>5, <2>6 DEF Adds
<1> QED BY <1>1, <1>3, <1>8, <1>9 DEF Adds

\* What the market has published, resampled.
HistoryOf(bars) == Resample(PublishedIn(bars, TradedMinutes(bars)))

BarsInv ==
    /\ Dated(market)
    /\ now \in Minutes /\ \A m \in Minutes : market[m] # NoBar => m <= now
    /\ history \in [Years -> Seq(MarketBars)]
    /\ feed \in Seq(MarketBars)
    /\ Aggregates(current, closed)
    /\ gateway = "market" /\ ordered => Mirrors(current, closed, now, HistoryOf(market))

LEMMA PublishedMinutes ==
    ASSUME NEW M \in SUBSET Minutes, Dated(market)
    PROVE  Published(M) \in Seq(MarketBars) /\ Published(Minutes) = PublishedIn(market, TradedMinutes(market))
<1>1. PICK S : S = {m \in M : market[m] # NoBar}
  OBVIOUS
<1>2. S \in SUBSET Minutes /\ \A m \in S : market[m] \in MarketBars
  BY <1>1 DEF Dated
<1>3. PublishedIn(market, S) \in Seq(MarketBars)
  BY <1>2, PublishedInIs
<1>4. Published(M) = PublishedIn(market, S)
  BY <1>1 DEF Published, PublishedIn
<1>5. Published(Minutes) = PublishedIn(market, TradedMinutes(market))
  BY DEF Published, PublishedIn, TradedMinutes
<1> QED BY <1>3, <1>4, <1>5

LEMMA NoneLive ==
    ASSUME NEW t, NEW r
    PROVE  Aggregates(NoBar, <<>>) /\ Mirrors(NoBar, <<>>, t, r)
<1>1. <<>> \in Seq(MarketBars) /\ Len(<<>>) = 0
  OBVIOUS
<1> QED BY <1>1 DEF Aggregates, Mirrors, Increasing

LEMMA BarsInvInit == BarsInit => BarsInv
<1> SUFFICES ASSUME BarsInit PROVE BarsInv
  OBVIOUS
<1>1. Dated(market) /\ \A m \in Minutes : market[m] = NoBar
  BY DEF BarsInit, Dated
<1>2. now \in Minutes
  BY BarsAssumption DEF BarsInit, Minutes
<1>3. history \in [Years -> Seq(MarketBars)] /\ feed \in Seq(MarketBars)
  <2>1. <<>> \in Seq(MarketBars)
    OBVIOUS
  <2> QED BY <2>1 DEF BarsInit
<1>4. Aggregates(current, closed) /\ Mirrors(current, closed, now, HistoryOf(market))
  BY NoneLive DEF BarsInit
<1> QED BY <1>1, <1>2, <1>3, <1>4 DEF BarsInv

\* A trade of minute t dates the bar of that minute.
LEMMA TradeDates ==
    ASSUME NEW bars, Dated(bars), NEW t \in Minutes, NEW b \in MarketBars, b.time = t,
           NEW bars2, TradedTo(bars, t, b, bars2)
    PROVE  Dated(bars2) /\ \A m \in Minutes : bars2[m] # NoBar => m = t \/ bars[m] # NoBar
<1>1. bars \in [Minutes -> MarketBars \cup {NoBar}]
  BY DEF Dated
<1>2. PICK c : c = IF bars[t] = NoBar THEN b ELSE Merge(bars[t], b)
  OBVIOUS
<1>3. c \in MarketBars /\ c.time = t
  <2>1. CASE bars[t] = NoBar
    BY <1>2, <2>1
  <2>2. CASE bars[t] # NoBar
    <3>1. bars[t] \in MarketBars /\ bars[t].time = t
      BY <2>2 DEF Dated
    <3>2. Merged(Merge(bars[t], b), bars[t], b)
      BY <3>1, MergeIs
    <3> QED BY <1>2, <2>2, <3>1, <3>2 DEF Merged
  <2> QED BY <2>1, <2>2
<1>4. bars2 = [bars EXCEPT ![t] = c]
  BY <1>2 DEF TradedTo
<1>5. bars2 \in [Minutes -> MarketBars \cup {NoBar}]
  BY <1>1, <1>3, <1>4
<1>6. bars2[t] = c /\ \A m \in Minutes : m # t => bars2[m] = bars[m]
  BY <1>1, <1>4
<1> QED BY <1>3, <1>5, <1>6 DEF Dated

LEMMA TradeKeepsBars ==
    ASSUME BarsInv, NEW t \in Minutes, NEW quote \in Quotes, Trade(t, quote)
    PROVE  BarsInv'
<1>1. PICK tick \in Ticks : tick = [bid |-> quote.bid, ask |-> quote.ask, volume |-> 1]
  <2>1. quote.bid \in Nat /\ quote.ask \in Nat
    BY BarsAssumption
  <2> QED BY <2>1 DEF Ticks
<1>2. Minutes \subseteq Nat /\ t \in Nat /\ now \in Nat
  BY BarsAssumption DEF Minutes, BarsInv
<1>3. PICK b \in MarketBars : b = BarOf(t, tick) /\ b.time = t
  BY <1>2, BarOfIs
<1>4. market' = [market EXCEPT ![t] = IF @ = NoBar THEN b ELSE Merge(@, b)]
  BY <1>1, <1>3 DEF Trade
<1>5. Dated(market') /\ \A m \in Minutes : market'[m] # NoBar => m = t \/ market[m] # NoBar
  <2>1. Dated(market)
    BY DEF BarsInv
  <2>2. PICK bars2 : bars2 = market'
    OBVIOUS
  <2>3. TradedTo(market, t, b, bars2)
    BY <1>4, <2>2 DEF TradedTo
  <2>4. Dated(bars2) /\ \A m \in Minutes : bars2[m] # NoBar => m = t \/ market[m] # NoBar
    BY <1>3, <2>1, <2>3, TradeDates
  <2> QED BY <2>2, <2>4
<1>6. now' = Greater(now, t) /\ now' \in Minutes /\ now <= now' /\ t <= now'
  BY <1>2 DEF Trade, Greater, BarsInv
<1>7. \A m \in Minutes : market'[m] # NoBar => m <= now'
  <2> SUFFICES ASSUME NEW m \in Minutes, market'[m] # NoBar PROVE m <= now'
    OBVIOUS
  <2>1. CASE m = t
    BY <1>6, <2>1
  <2>2. CASE m # t
    <3>1. m <= now
      BY <1>5, <2>2 DEF BarsInv
    <3>2. m \in Nat /\ now' \in Nat
      BY <1>2, <1>6
    <3> QED BY <1>2, <1>6, <3>1, <3>2
  <2> QED BY <2>1, <2>2
<1>8. history' = history /\ feed' = feed /\ gateway' = gateway
  BY DEF Trade
<1>9. CASE gateway = "market"
  <2>1. Add(t, tick) /\ ordered' = (ordered /\ t >= now)
    BY <1>1, <1>9 DEF Trade
  <2>2. Aggregates(current, closed)
    BY DEF BarsInv
  <2>3. Adds(current, closed, t, tick, current', closed')
    BY <1>2, <2>1, <2>2, AddIs
  <2>4. Aggregates(current', closed')
    BY <1>2, <2>2, <2>3, AddsKeepLive
  <2>5. ASSUME ordered' PROVE Mirrors(current', closed', now', HistoryOf(market'))
    <3>1. ordered /\ now <= t
      BY <1>2, <2>1, <2>5
    <3>2. now' = t
      BY <1>2, <1>6, <3>1 DEF Greater
    <3>3. Mirrors(current, closed, now, HistoryOf(market))
      BY <1>9, <3>1 DEF BarsInv
    <3>4. FromStarts(HistoryOf(market))
      <4>1. PublishedIn(market, TradedMinutes(market)) \in Seq(MarketBars)
        <5>1. Published(Minutes) = PublishedIn(market, TradedMinutes(market)) /\ Published(Minutes) \in Seq(MarketBars)
          BY PublishedMinutes DEF BarsInv
        <5> QED BY <5>1
      <4> QED BY <4>1, ResampleStarted DEF HistoryOf
    <3>5. HistoryOf(market') = Resampled(HistoryOf(market), b)
      <4>1. \A m \in Minutes : market[m] # NoBar => m <= t
        <5> SUFFICES ASSUME NEW m \in Minutes, market[m] # NoBar PROVE m <= t
          OBVIOUS
        <5>1. m <= now /\ m \in Nat
          BY <1>2 DEF BarsInv
        <5> QED BY <1>2, <3>1, <5>1
      <4>2. Dated(market)
        BY DEF BarsInv
      <4>3. PICK bars2 : bars2 = market'
        OBVIOUS
      <4>4. TradedTo(market, t, b, bars2)
        BY <1>4, <4>3 DEF TradedTo
      <4>5. Resample(PublishedIn(bars2, TradedMinutes(bars2)))
              = Resampled(Resample(PublishedIn(market, TradedMinutes(market))), b)
        BY <1>3, <4>1, <4>2, <4>4, PublishedGrows
      <4> QED BY <4>3, <4>5 DEF HistoryOf
    <3>6. Mirrors(current', closed', t, Resampled(HistoryOf(market), BarOf(t, tick)))
      BY <1>2, <2>2, <2>3, <3>1, <3>3, <3>4, AddsMirrored
    <3> QED BY <1>3, <3>2, <3>5, <3>6
  <2> QED BY <1>5, <1>6, <1>7, <1>8, <2>4, <2>5 DEF BarsInv
<1>10. CASE gateway # "market"
  <2>1. current' = current /\ closed' = closed
    BY <1>10 DEF Trade
  <2>2. Aggregates(current', closed')
    BY <2>1 DEF BarsInv
  <2> QED BY <1>5, <1>6, <1>7, <1>8, <1>10, <2>2 DEF BarsInv
<1> QED BY <1>9, <1>10

LEMMA DownloadKeepsBars ==
    ASSUME BarsInv, NEW y \in Years, Download(y)
    PROVE  BarsInv'
<1>1. PICK p \in Seq(MarketBars) : p = Published(MinutesOf(y))
  <2>1. MinutesOf(y) \in SUBSET Minutes
    BY DEF MinutesOf
  <2> QED BY <2>1, PublishedMinutes DEF BarsInv
<1>2. Sanitize(p) \in Seq(MarketBars)
  BY LatestIs DEF Sanitize
<1>3. history' = [history EXCEPT ![y] = Sanitize(p)]
  BY <1>1 DEF Download
<1>4. history' \in [Years -> Seq(MarketBars)]
  BY <1>2, <1>3 DEF BarsInv
<1>5. /\ market' = market /\ now' = now /\ feed' = feed /\ gateway' = gateway
      /\ current' = current /\ closed' = closed /\ ordered' = ordered
  BY DEF Download, marketVars, liveVars
<1> QED BY <1>4, <1>5 DEF BarsInv

LEMMA ConnectKeepsBars ==
    ASSUME BarsInv, NEW g, ConnectFeed(g)
    PROVE  BarsInv'
<1>1. Load(0) \in Seq(MarketBars) /\ <<>> \in Seq(MarketBars)
  <2>1. <<>> \in Seq(MarketBars)
    OBVIOUS
  <2> QED BY <2>1, LoadIs DEF BarsInv
<1>2. feed' \in Seq(MarketBars)
  BY <1>1 DEF ConnectFeed
<1>3. Aggregates(current', closed') /\ Mirrors(current', closed', now', HistoryOf(market'))
  BY NoneLive DEF ConnectFeed
<1>4. market' = market /\ now' = now /\ history' = history
  BY DEF ConnectFeed, marketVars
<1> QED BY <1>2, <1>3, <1>4 DEF BarsInv

LEMMA LeaveKeepsBars ==
    ASSUME BarsInv, Leave
    PROVE  BarsInv'
<1>1. feed' \in Seq(MarketBars)
  <2>1. <<>> \in Seq(MarketBars)
    OBVIOUS
  <2> QED BY <2>1 DEF Leave
<1>2. Aggregates(current', closed') /\ Mirrors(current', closed', now', HistoryOf(market'))
  BY NoneLive DEF Leave
<1>3. market' = market /\ now' = now /\ history' = history
  BY DEF Leave, marketVars
<1> QED BY <1>1, <1>2, <1>3 DEF BarsInv

LEMMA ReplayKeepsBars ==
    ASSUME BarsInv, Replay
    PROVE  BarsInv'
<1>1. feed \in Seq(MarketBars) /\ feed # <<>>
  BY DEF BarsInv, Replay
<1>2. PICK bar \in MarketBars : bar = Head(feed)
  BY <1>1, HeadTailProperties
<1>3. Tail(feed) \in Seq(MarketBars)
  BY <1>1, HeadTailProperties
<1>4. PICK tick : tick = [bid |-> bar.close, volume |-> bar.volume,
                          ask |-> IF HasAsk(bar) THEN bar.askClose ELSE bar.close]
  OBVIOUS
<1>5. tick \in Ticks
  <2>1. PICK a \in Nat : a = IF HasAsk(bar) THEN bar.askClose ELSE bar.close
    BY BarHas
  <2>2. bar.close \in Nat /\ bar.volume \in Nat
    BY BarHas
  <2>3. tick = [bid |-> bar.close, volume |-> bar.volume, ask |-> a]
    BY <1>4, <2>1
  <2> QED BY <2>2, <2>3 DEF Ticks
<1>6. Add(bar.time, tick)
  BY <1>2, <1>4 DEF Replay
<1>7. Aggregates(current, closed) /\ bar.time \in Nat
  BY BarHas DEF BarsInv
<1>8. Adds(current, closed, bar.time, tick, current', closed')
  BY <1>5, <1>6, <1>7, AddIs
<1>9. Aggregates(current', closed')
  BY <1>5, <1>7, <1>8, AddsKeepLive
<1>10. /\ gateway' # "market" /\ feed' = Tail(feed)
       /\ market' = market /\ now' = now /\ history' = history
  BY DEF Replay, marketVars
<1> QED BY <1>3, <1>9, <1>10 DEF BarsInv

LEMMA BarsInvHolds == BarsSpec => []BarsInv
<1>1. BarsInit => BarsInv
  BY BarsInvInit
<1>2. BarsInv /\ [BarsNext]_barsVars => BarsInv'
  <2> SUFFICES ASSUME BarsInv, [BarsNext]_barsVars PROVE BarsInv'
    OBVIOUS
  <2>1. ASSUME NEW t \in Minutes, NEW quote \in Quotes, Trade(t, quote) PROVE BarsInv'
    BY <2>1, TradeKeepsBars
  <2>2. ASSUME NEW y \in Years, Download(y) PROVE BarsInv'
    BY <2>2, DownloadKeepsBars
  <2>3. ASSUME NEW g \in {"market", "replay"}, ConnectFeed(g) PROVE BarsInv'
    BY <2>3, ConnectKeepsBars
  <2>4. CASE Leave
    BY <2>4, LeaveKeepsBars
  <2>5. CASE Replay
    BY <2>5, ReplayKeepsBars
  <2>6. CASE UNCHANGED barsVars
    BY <2>6 DEF BarsInv, barsVars
  <2> QED BY <2>1, <2>2, <2>3, <2>4, <2>5, <2>6 DEF BarsNext
<1> QED BY <1>1, <1>2, PTL DEF BarsSpec

\* Whatever the ticks and their order, the downloads, the connections and the
\* gateway, the bars closed live go forward in time; and when the ticks come in
\* order, every bar opened and closed since the connection is the bar, field by
\* field, that the history of those minutes is resampled to (aggregator.go, Add,
\* against internal/data/resample.go, Resample): a strategy that decides live
\* reads what a backtest will read.
THEOREM LiveBarsAreHistory == BarsSpec => []BarsHold
<1>1. BarsInv => BarsHold
  <2> SUFFICES ASSUME BarsInv PROVE BarsHold
    OBVIOUS
  <2>1. LiveBarsIncrease
    BY DEF BarsInv, Aggregates, LiveBarsIncrease
  <2>2. LiveIsHistory
    <3> SUFFICES ASSUME gateway = "market", ordered, NEW k \in 2..Len(closed)
                 PROVE  closed[k] \in Range(Resample(Published(Minutes)))
      BY DEF LiveIsHistory
    <3>1. PICK r : r = HistoryOf(market)
      OBVIOUS
    <3>2. r = Resample(Published(Minutes)) /\ FromStarts(r)
      <4>1. Published(Minutes) = PublishedIn(market, TradedMinutes(market)) /\ Published(Minutes) \in Seq(MarketBars)
        BY PublishedMinutes DEF BarsInv
      <4> QED BY <3>1, <4>1, ResampleStarted DEF HistoryOf
    <3>3. PICK i \in 1..Len(r) - 1 : r[i] = closed[k]
      BY <3>1 DEF BarsInv, Mirrors
    <3>4. i \in DOMAIN r
      <4>1. r \in Seq(MarketBars)
        BY <3>2 DEF FromStarts
      <4>2. DOMAIN r = 1..Len(r) /\ Len(r) \in Nat
        BY <4>1
      <4> QED BY <3>3, <4>2
    <3> QED BY <3>2, <3>3, <3>4 DEF Range
  <2> QED BY <2>1, <2>2 DEF BarsHold
<1> QED BY <1>1, BarsInvHolds, PTL
-----------------------------------------------------------------------------
(* Trees: the bins of a column *)

LEMMA LeastIs ==
    ASSUME NEW S, S \subseteq Int, IsFiniteSet(S), S # {}
    PROVE  Min(S) \in S /\ \A y \in S : Min(S) <= y
<1>1. PICK f : Sorts(f, S)
  BY SortExists
<1>2. Onto(f, S)
  BY <1>1, SortIsOnto
<1>3. PICK n \in Nat : n = Cardinality(S)
  BY FS_CardinalityType
<1>4. n # 0
  BY <1>3, FS_EmptySet
<1>5. f \in [1..n -> S] /\ \A i, j \in 1..n : i < j => f[i] < f[j]
  BY <1>1, <1>3 DEF Sorts
<1>6. 1 \in 1..n /\ f[1] \in S
  BY <1>4, <1>5
<1>7. ASSUME NEW y \in S PROVE f[1] <= y
  <2>1. PICK i \in 1..n : f[i] = y
    BY <1>2, <1>3 DEF Onto
  <2>2. CASE i = 1
    BY <1>6, <2>1, <2>2
  <2>3. CASE i # 1
    <3>1. 1 < i
      BY <2>3
    <3>2. f[1] < f[i]
      BY <1>5, <1>6, <3>1
    <3>3. f[1] \in Int /\ y \in Int
      BY <1>6
    <3> QED BY <2>1, <3>2, <3>3
  <2> QED BY <2>2, <2>3
<1>8. \E x \in S : \A y \in S : x <= y
  BY <1>6, <1>7
<1> QED BY <1>8 DEF Min

Column == Seq(Numbers \cup {NaN})

LEMMA ColumnIs ==
    ASSUME NEW column \in Column
    PROVE  /\ Finite(column) \subseteq DOMAIN column /\ IsFiniteSet(Finite(column))
           /\ \A i \in Finite(column) : column[i] \in ValuesIn(column)
           /\ ValuesIn(column) \subseteq Numbers /\ ValuesIn(column) \subseteq Int
           /\ \A v \in ValuesIn(column) : v < Infinity
           /\ IsFiniteSet(ValuesIn(column))
           /\ Cardinality(ValuesIn(column)) <= Cardinality(Finite(column))
<1>1. PICK n \in Nat : n = Len(column)
  BY DEF Column
<1>2. DOMAIN column = 1..n /\ \A i \in 1..n : column[i] \in Numbers \cup {NaN}
  BY <1>1 DEF Column
<1>3. Infinity \in Nat
  BY TreesAssumption
<1>4. Numbers \subseteq Int /\ \A v \in Numbers : v < Infinity
  BY <1>3 DEF Numbers
<1>5. Finite(column) \subseteq 1..n
  BY <1>2 DEF Finite
<1>6. IsFiniteSet(Finite(column))
  <2>1. IsFiniteSet(1..n)
    BY FS_Interval
  <2> QED BY <1>5, <2>1, FS_Subset
<1>7. \A i \in Finite(column) : column[i] \in ValuesIn(column)
  BY DEF Finite, ValuesIn, Range
<1>8. \A v \in ValuesIn(column) : \E i \in Finite(column) : column[i] = v
  BY DEF Finite, ValuesIn, Range
<1>9. ValuesIn(column) \subseteq Numbers
  BY <1>2 DEF ValuesIn, Range
<1> DEFINE f == [i \in Finite(column) |-> column[i]]
<1>10. f \in Surjection(Finite(column), ValuesIn(column))
  BY <1>7, <1>8 DEF Surjection
<1>11. IsFiniteSet(ValuesIn(column)) /\ Cardinality(ValuesIn(column)) <= Cardinality(Finite(column))
  BY <1>6, <1>10, FS_Surjection
<1> QED BY <1>2, <1>4, <1>5, <1>6, <1>7, <1>9, <1>11

\* A quotient is less than a factor of a greater product.
LEMMA QuotientIs ==
    ASSUME NEW a \in Nat, NEW m \in Nat \ {0}, NEW c \in Nat, a < m * c
    PROVE  a \div m \in Nat /\ a \div m < c
<1>1. a = m * (a \div m) + (a % m) /\ a \div m \in Nat /\ a % m \in 0..(m - 1)
  OBVIOUS
<1>2. PICK q \in Nat : q = a \div m
  BY <1>1
<1>3. m * q <= a
  BY <1>1, <1>2
<1>4. m * q < m * c
  <2>1. m * q \in Int /\ m * c \in Int
    OBVIOUS
  <2> QED BY <1>3, <2>1
<1>5. q < c
  <2>1. SUFFICES ASSUME c <= q PROVE FALSE
    OBVIOUS
  <2>2. m * c <= m * q
    BY <2>1
  <2> QED BY <1>4, <2>2
<1> QED BY <1>2, <1>5

\* The p-th of the values, counted with their repetitions, is one of them.
LEMMA SortedIs ==
    ASSUME NEW column \in Column, NEW p \in Nat, 1 <= p, p <= Cardinality(Finite(column))
    PROVE  Sorted(column, p) \in ValuesIn(column)
<1> DEFINE W == ValuesIn(column)
           F == Finite(column)
           E == {v \in W : Cardinality({i \in F : column[i] <= v}) >= p}
<1>1. W \subseteq Int /\ IsFiniteSet(W) /\ IsFiniteSet(F) /\ \A i \in F : column[i] \in W
  BY ColumnIs
<1>2. Cardinality(F) \in Nat /\ F # {}
  <2>1. Cardinality(F) \in Nat
    BY <1>1, FS_CardinalityType
  <2>2. Cardinality(F) # 0
    BY <2>1
  <2> QED BY <2>1, <2>2, FS_EmptySet
<1>3. W # {}
  BY <1>1, <1>2
<1>4. PICK m \in W : \A x \in W : x <= m
  <2> HIDE DEF W
  <2> QED BY <1>1, <1>3, GreatestExists
<1>5. {i \in F : column[i] <= m} = F
  BY <1>1, <1>4
<1>6. m \in E
  BY <1>2, <1>5
<1>7. E \subseteq W /\ E \subseteq Int
  BY <1>1
<1>8. IsFiniteSet(E)
  BY <1>1, <1>7, FS_Subset
<1>9. Min(E) \in E
  <2> HIDE DEF E
  <2> QED BY <1>6, <1>7, <1>8, LeastIs
<1>10. Sorted(column, p) = Min(E)
  BY DEF Sorted
<1> QED BY <1>7, <1>9, <1>10

\* A quantile of a column with more values than bins is one of its values.
LEMMA QuantileIs ==
    ASSUME NEW column \in Column, MaxBins < Cardinality(ValuesIn(column)), NEW k \in 1..MaxBins-1
    PROVE  Quantile(column, k) \in ValuesIn(column)
<1> DEFINE W == ValuesIn(column)
           F == Finite(column)
<1>1. PICK m \in Nat \ {0, 1} : m = MaxBins
  BY TreesAssumption
<1>2. W \subseteq Int /\ IsFiniteSet(W) /\ IsFiniteSet(F) /\ Cardinality(W) <= Cardinality(F)
  BY ColumnIs
<1>3. PICK c \in Nat : c = Cardinality(F)
  BY <1>2, FS_CardinalityType
<1>4. Cardinality(W) \in Nat /\ m < Cardinality(W)
  BY <1>1, <1>2, FS_CardinalityType
<1>5. 0 < c
  BY <1>2, <1>3, <1>4
<1>6. k \in Nat /\ k < m
  BY <1>1
<1>7. k * c \in Nat /\ k * c < m * c
  BY <1>5, <1>6
<1>8. (k * c) \div m \in Nat /\ (k * c) \div m < c
  BY <1>7, QuotientIs
<1>9. PICK p \in Nat : p = (k * c) \div m + 1
  BY <1>8
<1>10. 1 <= p /\ p <= c
  BY <1>8, <1>9
<1>11. Quantile(column, k) = Shared(column, p)
  BY <1>1, <1>3, <1>9 DEF Quantile
<1>12. CASE p <= Cardinality(W)
  <2>1. Shared(column, p) = InOrder(W)[p]
    BY <1>12 DEF Shared
  <2>2. p \in 1..Cardinality(W)
    BY <1>4, <1>10, <1>12
  <2>3. InOrder(W) \in [1..Cardinality(W) -> W]
    BY <1>2, InOrderSorts
  <2> QED BY <1>11, <2>1, <2>2, <2>3
<1>13. CASE ~(p <= Cardinality(W))
  <2>1. Shared(column, p) = Sorted(column, p)
    BY <1>13 DEF Shared
  <2>2. Sorted(column, p) \in W
    BY <1>3, <1>10, SortedIs
  <2> QED BY <1>11, <2>1, <2>2
<1> QED BY <1>12, <1>13

Ascending(s) == \A j, k \in DOMAIN s : j < k => s[j] < s[k]

\* Increasing numbers, then a greater one.
LEMMA AppendAscends ==
    ASSUME NEW s \in Seq(Int), Ascending(s), NEW m \in Int, \A k \in DOMAIN s : s[k] < m
    PROVE  /\ Append(s, m) \in Seq(Int) /\ Ascending(Append(s, m))
           /\ Len(Append(s, m)) = Len(s) + 1 /\ Append(s, m)[Len(s) + 1] = m
<1>1. PICK t : t = Append(s, m)
  OBVIOUS
<1>2. PICK n \in Nat : n = Len(s)
  OBVIOUS
<1>3. /\ t \in Seq(Int) /\ Len(t) = n + 1 /\ DOMAIN t = 1..(n + 1)
      /\ t[n + 1] = m /\ DOMAIN s = 1..n /\ \A k \in 1..n : t[k] = s[k]
  BY <1>1, <1>2
<1>4. ASSUME NEW j \in 1..(n + 1), NEW k \in 1..(n + 1), j < k PROVE t[j] < t[k]
  <2>1. j \in 1..n /\ t[j] = s[j]
    BY <1>3, <1>4
  <2>2. CASE k = n + 1
    BY <1>3, <2>1, <2>2
  <2>3. CASE k # n + 1
    <3>1. k \in 1..n /\ t[k] = s[k]
      BY <1>3, <2>3
    <3> QED BY <1>3, <1>4, <2>1, <3>1 DEF Ascending
  <2> QED BY <2>2, <2>3
<1>5. Ascending(t)
  BY <1>3, <1>4 DEF Ascending
<1> QED BY <1>1, <1>2, <1>3, <1>5

\* The bounds of the numeric bins increase, and the last one holds every number.
LEMMA UpperIs ==
    ASSUME NEW column \in Column
    PROVE  /\ UpperBounds(column) \in Seq(Int) /\ Ascending(UpperBounds(column))
           /\ Len(UpperBounds(column)) >= 1
           /\ UpperBounds(column)[Len(UpperBounds(column))] = Infinity
<1> DEFINE W == ValuesIn(column)
<1>1. W \subseteq Int /\ IsFiniteSet(W) /\ \A v \in W : v < Infinity
  BY ColumnIs
<1>2. Infinity \in Int
  BY TreesAssumption
<1>3. PICK f : f = InOrder(W)
  OBVIOUS
<1>4. PICK n \in Nat : n = Cardinality(W)
  BY <1>1, FS_CardinalityType
<1>5. f \in Seq(W) /\ Len(f) = n /\ DOMAIN f = 1..n /\ Sorts(f, W)
  <2> HIDE DEF W
  <2> QED BY <1>1, <1>3, <1>4, InOrderIs
<1>6. f \in Seq(Int) /\ Ascending(f) /\ \A k \in DOMAIN f : f[k] < Infinity
  <2>1. f \in Seq(Int)
    BY <1>1, <1>5, SeqMonotonic
  <2>2. Ascending(f)
    BY <1>4, <1>5 DEF Sorts, Ascending
  <2>3. \A k \in 1..n : f[k] \in W
    BY <1>5
  <2> QED BY <1>1, <1>5, <2>1, <2>2, <2>3
<1>7. CASE f = <<>>
  <2>1. UpperBounds(column) = <<Infinity>>
    BY <1>3, <1>7 DEF UpperBounds
  <2>2. <<Infinity>> \in Seq(Int) /\ Ascending(<<Infinity>>)
    BY <1>2 DEF Ascending
  <2> QED BY <2>1, <2>2
<1>8. CASE f # <<>> /\ n <= MaxBins
  <2>1. PICK s : s = Front(f)
    OBVIOUS
  <2>2. n - 1 \in Nat /\ n - 1 <= n
    <3>1. n # 0
      BY <1>5, <1>8
    <3> QED BY <3>1
  <2>3. s \in Seq(Int) /\ Len(s) = n - 1 /\ DOMAIN s = 1..(n - 1) /\ \A k \in 1..(n - 1) : s[k] = f[k]
    <3>1. s = SubSeq(f, 1, n - 1)
      BY <1>5, <2>1 DEF Front
    <3> QED BY <1>5, <1>6, <2>2, <3>1
  <2>4. Ascending(s) /\ \A k \in DOMAIN s : s[k] < Infinity
    <3>1. \A k \in 1..(n - 1) : k \in 1..n /\ s[k] = f[k]
      BY <2>2, <2>3
    <3> QED BY <1>5, <1>6, <2>3, <3>1 DEF Ascending
  <2>5. UpperBounds(column) = Append(s, Infinity)
    BY <1>3, <1>5, <1>8, <2>1 DEF UpperBounds
  <2>6. /\ Append(s, Infinity) \in Seq(Int) /\ Ascending(Append(s, Infinity))
        /\ Len(Append(s, Infinity)) = Len(s) + 1 /\ Append(s, Infinity)[Len(s) + 1] = Infinity
    BY <1>2, <2>3, <2>4, AppendAscends
  <2> QED BY <2>2, <2>3, <2>5, <2>6
<1>9. CASE f # <<>> /\ ~(n <= MaxBins)
  <2> DEFINE Q == Quantiles(column)
  <2>1. MaxBins \in Nat
    BY TreesAssumption
  <2>2. MaxBins < Cardinality(ValuesIn(column))
    BY <1>4, <1>9, <2>1
  <2>3. Q \subseteq W
    BY <2>2, QuantileIs DEF Quantiles
  <2>4. Q \subseteq Int /\ IsFiniteSet(Q) /\ \A v \in Q : v < Infinity
    BY <1>1, <2>3, FS_Subset
  <2>5. PICK s : s = InOrder(Q)
    OBVIOUS
  <2>6. PICK q \in Nat : q = Cardinality(Q)
    BY <2>4, FS_CardinalityType
  <2>7. s \in Seq(Q) /\ Len(s) = q /\ DOMAIN s = 1..q /\ Sorts(s, Q)
    <3> HIDE DEF Q
    <3> QED BY <2>4, <2>5, <2>6, InOrderIs
  <2>8. s \in Seq(Int) /\ Ascending(s) /\ \A k \in DOMAIN s : s[k] < Infinity
    <3>1. s \in Seq(Int)
      BY <2>4, <2>7, SeqMonotonic
    <3>2. Ascending(s)
      BY <2>6, <2>7 DEF Sorts, Ascending
    <3>3. \A k \in 1..q : s[k] \in Q
      BY <2>7
    <3> QED BY <2>4, <2>7, <3>1, <3>2, <3>3
  <2>9. UpperBounds(column) = Append(s, Infinity)
    BY <1>3, <1>5, <1>9, <2>5 DEF UpperBounds
  <2>10. /\ Append(s, Infinity) \in Seq(Int) /\ Ascending(Append(s, Infinity))
         /\ Len(Append(s, Infinity)) = Len(s) + 1 /\ Append(s, Infinity)[Len(s) + 1] = Infinity
    BY <1>2, <2>8, AppendAscends
  <2> QED BY <2>7, <2>9, <2>10
<1> QED BY <1>7, <1>8, <1>9

\* Training bins every category there is.
FewCategories == \A d \in Datasets : Cardinality(ValuesIn(d["cat"])) <= MaxBins

\* The categories are distinct, and are those of the column if there are few.
LEMMA CategoriesAre ==
    ASSUME NEW column \in Column, Cardinality(ValuesIn(column)) <= MaxBins
    PROVE  /\ Categories(column) \in Seq(Int) /\ Ascending(Categories(column))
           /\ \A v \in ValuesIn(column) : \E k \in DOMAIN Categories(column) : Categories(column)[k] = v
<1> DEFINE W == ValuesIn(column)
<1>1. W \subseteq Int /\ IsFiniteSet(W)
  BY ColumnIs
<1>2. PICK f : f = InOrder(W)
  OBVIOUS
<1>3. PICK n \in Nat : n = Cardinality(W)
  BY <1>1, FS_CardinalityType
<1>4. /\ f \in Seq(W) /\ Len(f) = n /\ DOMAIN f = 1..n /\ Sorts(f, W)
      /\ \A v \in W : \E k \in 1..n : f[k] = v
  <2> HIDE DEF W
  <2> QED BY <1>1, <1>2, <1>3, InOrderIs
<1>5. f \in Seq(Int) /\ Ascending(f)
  <2>1. f \in Seq(Int)
    BY <1>1, <1>4, SeqMonotonic
  <2>2. Ascending(f)
    BY <1>3, <1>4 DEF Sorts, Ascending
  <2> QED BY <1>4, <2>1, <2>2
<1>6. Categories(column) = f
  BY <1>2, <1>3, <1>4 DEF Categories
<1> QED BY <1>4, <1>5, <1>6

-----------------------------------------------------------------------------
(* Trees: a cut reads a row by its values as it did by its bins *)

Binned == data \in Datasets /\ BuildBinned(data)

LEMMA ColumnsAre ==
    ASSUME data \in Datasets
    PROVE  /\ data["num"] \in Column /\ data["cat"] \in Column
           /\ DOMAIN data["cat"] = DOMAIN data["num"] /\ IsFiniteSet(DOMAIN data["num"])
           /\ \A f \in Features : DOMAIN data[f] = DOMAIN data["num"]
<1>1. /\ data["num"] \in Column /\ data["cat"] \in Column
      /\ Len(data["num"]) = Len(data["cat"])
  BY TreesAssumption DEF Features, Column
<1>2. PICK n \in Nat : n = Len(data["num"]) /\ DOMAIN data["num"] = 1..n /\ DOMAIN data["cat"] = 1..n
  BY <1>1 DEF Column
<1>3. IsFiniteSet(1..n)
  BY <1>2, FS_Interval
<1> QED BY <1>1, <1>2, <1>3 DEF Features

LEMMA LeftIs ==
    ASSUME NEW n, NEW v
    PROVE  /\ v = NaN => \A f : Left(n, f, v) = n.defaultLeft
           /\ v # NaN => /\ Left(n, "cat", v) = (v \in n.leftCats)
                         /\ Left(n, "num", v) = (v <= n.threshold)
<1>1. ASSUME v = NaN, NEW f PROVE Left(n, f, v) = n.defaultLeft
  BY <1>1 DEF Left
<1>2. ASSUME v # NaN PROVE Left(n, "cat", v) = (v \in n.leftCats)
  BY <1>2 DEF Left
<1>3. ASSUME v # NaN PROVE Left(n, "num", v) = (v <= n.threshold)
  <2>1. "num" # "cat"
    OBVIOUS
  <2> QED BY <1>3, <2>1 DEF Left
<1> QED BY <1>1, <1>2, <1>3

\* A row goes to the left by its number if and only if it does by its bin.
LEMMA NumberAgrees ==
    ASSUME Binned, NEW l, NEW s \in NumericCuts(l), NEW i \in DOMAIN data["num"]
    PROVE  /\ s.feature = "num" /\ s.threshold \in Int /\ s.leftCats = {} /\ s.defaultLeft \in BOOLEAN
           /\ GoesLeft(s, bins["num"][i]) = Left(s, "num", data["num"][i])
<1>1. PICK upper : upper = UpperBounds(data["num"])
  OBVIOUS
<1>2. data["num"] \in Column
  BY ColumnsAre DEF Binned
<1>3. PICK n \in Nat : n = Len(upper)
  BY <1>1, <1>2, UpperIs
<1>4. /\ upper \in Seq(Int) /\ DOMAIN upper = 1..n /\ n >= 1 /\ upper[n] = Infinity
      /\ \A j, k \in 1..n : j < k => upper[j] < upper[k]
  BY <1>1, <1>2, <1>3, UpperIs DEF Ascending
<1>5. mapper.upper = upper /\ NumBins(mapper, "num") = n /\ MissingBin(mapper, "num") = n + 1
  BY <1>1, <1>3 DEF Binned, BuildBinned, NumBins, MissingBin
<1>6. PICK b \in 1..(n - 1), dl \in BOOLEAN : s = NumericCut(b, dl)
  BY <1>5 DEF NumericCuts
<1>7. /\ s.feature = "num" /\ s.leftBins = 1..b /\ s.threshold = upper[b]
      /\ s.leftCats = {} /\ s.defaultLeft = dl
  BY <1>5, <1>6 DEF NumericCut
<1>8. b \in 1..n /\ upper[b] \in Int
  BY <1>4
<1>9. PICK v : v = data["num"][i]
  OBVIOUS
<1>10. bins["num"][i] = BinOf(mapper, "num", v)
  BY <1>9 DEF Binned, BuildBinned, Features
<1>11. CASE v = NaN
  <2>1. BinOf(mapper, "num", v) = n + 1
    BY <1>5, <1>11 DEF BinOf
  <2>2. GoesLeft(s, n + 1) = dl
    BY <1>5, <1>7 DEF GoesLeft
  <2>3. Left(s, "num", v) = dl
    BY <1>7, <1>11, LeftIs
  <2> QED BY <1>7, <1>8, <1>9, <1>10, <2>1, <2>2, <2>3
<1>12. CASE v # NaN
  <2> DEFINE E == {k \in 1..n : v <= upper[k]}
  <2>1. v \in Int /\ v <= Infinity
    <3>1. v \in Numbers /\ Infinity \in Nat
      BY <1>2, <1>9, <1>12, TreesAssumption DEF Column
    <3> QED BY <3>1 DEF Numbers
  <2>2. n \in E
    BY <1>3, <1>4, <2>1
  <2>3. E \subseteq Int /\ IsFiniteSet(E)
    <3>1. IsFiniteSet(1..n)
      BY <1>3, FS_Interval
    <3> QED BY <3>1, FS_Subset
  <2>4. PICK m : m = Min(E)
    OBVIOUS
  <2>5. m \in E /\ \A k \in E : m <= k
    <3> HIDE DEF E
    <3> QED BY <2>2, <2>3, <2>4, LeastIs
  <2>6. BinOf(mapper, "num", v) = m
    <3>1. {k \in DOMAIN mapper.upper : v <= mapper.upper[k]} = E /\ E # {}
      BY <1>4, <1>5, <2>2
    <3> HIDE DEF E
    <3> QED BY <1>12, <2>4, <3>1 DEF BinOf
  <2>7. m \in 1..n /\ m # n + 1
    BY <2>5
  <2>8. GoesLeft(s, m) = (m \in 1..b)
    BY <1>5, <1>7, <2>7 DEF GoesLeft
  <2>9. Left(s, "num", v) = (v <= upper[b])
    BY <1>7, <1>12, LeftIs
  <2>10. ASSUME m \in 1..b PROVE v <= upper[b]
    <3>1. v <= upper[m] /\ upper[m] \in Int
      BY <1>4, <2>5
    <3>2. CASE m = b
      BY <3>1, <3>2
    <3>3. CASE m # b
      <4>1. m < b
        BY <2>10, <3>3
      <4>2. upper[m] < upper[b]
        BY <1>4, <1>8, <2>7, <4>1
      <4> QED BY <1>8, <2>1, <3>1, <4>2
    <3> QED BY <3>2, <3>3
  <2>11. ASSUME v <= upper[b] PROVE m \in 1..b
    <3>1. b \in E
      BY <1>8, <2>11
    <3>2. m <= b
      BY <2>5, <3>1
    <3> QED BY <1>8, <2>7, <3>2
  <2>12. (m \in 1..b) = (v <= upper[b])
    BY <2>10, <2>11
  <2> QED BY <1>7, <1>8, <1>9, <1>10, <2>6, <2>8, <2>9, <2>12
<1> QED BY <1>11, <1>12

\* The same for a category, if training binned all of them.
LEMMA CategoryAgrees ==
    ASSUME FewCategories, Binned, NEW l, NEW s \in CategoricalCuts(l), NEW i \in DOMAIN data["num"]
    PROVE  /\ s.feature = "cat" /\ s.threshold = 0 /\ s.leftCats \in SUBSET Int /\ s.defaultLeft \in BOOLEAN
           /\ GoesLeft(s, bins["cat"][i]) = Left(s, "cat", data["cat"][i])
<1>1. PICK cats : cats = Categories(data["cat"])
  OBVIOUS
<1>2. data["cat"] \in Column /\ i \in DOMAIN data["cat"] /\ Cardinality(ValuesIn(data["cat"])) <= MaxBins
  BY ColumnsAre DEF Binned, FewCategories
<1>3. PICK n \in Nat : n = Len(cats)
  BY <1>1, <1>2, CategoriesAre
<1>4. /\ cats \in Seq(Int) /\ DOMAIN cats = 1..n
      /\ \A j, k \in 1..n : j < k => cats[j] < cats[k]
      /\ \A v \in ValuesIn(data["cat"]) : \E k \in 1..n : cats[k] = v
  BY <1>1, <1>2, <1>3, CategoriesAre DEF Ascending
<1>5. mapper.cats = cats
  BY <1>1 DEF Binned, BuildBinned
<1>6. PICK top \in Nat : top = NumBins(mapper, "cat") /\ top = (IF n = 0 THEN 1 ELSE n)
  <2>1. cats = <<>> <=> n = 0
    BY <1>3, <1>4
  <2> QED BY <1>3, <1>5, <2>1 DEF NumBins
<1>7. MissingBin(mapper, "cat") = top + 1
  BY <1>6 DEF MissingBin
<1>8. PICK bs \in SUBSET (1..top), dl \in BOOLEAN :
        s = CategoricalCut(bs, dl) /\ bs # {} /\ bs # 1..top
  <2> DEFINE rare == {b \in 1..NumBins(mapper, "cat") : l.hist["cat"][b] >= MinDataPerGroup}
  <2>1. PICK c \in ((SUBSET rare) \ {{}, rare}) \X BOOLEAN : s = CategoricalCut(c[1], c[2])
    BY DEF CategoricalCuts
  <2>2. rare \in SUBSET (1..top)
    BY <1>6
  <2>3. c[1] \subseteq rare /\ c[1] # {} /\ c[1] # rare /\ c[2] \in BOOLEAN
    <3> HIDE DEF rare
    <3> QED BY <2>1
  <2> HIDE DEF rare
  <2>4. c[1] \in SUBSET (1..top) /\ c[1] # 1..top
    BY <2>2, <2>3
  <2> QED BY <2>1, <2>3, <2>4
<1>9. n # 0
  <2>1. SUFFICES ASSUME n = 0 PROVE FALSE
    OBVIOUS
  <2>2. 1..top = {1}
    BY <1>6, <2>1
  <2> QED BY <1>8, <2>2
<1>10. bs \in SUBSET (1..n) /\ top = n
  BY <1>6, <1>8, <1>9
<1>11. /\ s.feature = "cat" /\ s.leftBins = bs /\ s.threshold = 0
       /\ s.leftCats = {cats[b] : b \in bs} /\ s.defaultLeft = dl
  BY <1>5, <1>8 DEF CategoricalCut
<1>12. s.leftCats \in SUBSET Int
  <2>1. \A b \in bs : cats[b] \in Int
    BY <1>4, <1>10
  <2> QED BY <1>11, <2>1
<1>13. PICK v : v = data["cat"][i]
  OBVIOUS
<1>14. bins["cat"][i] = BinOf(mapper, "cat", v)
  BY <1>2, <1>13 DEF Binned, BuildBinned, Features
<1>15. CASE v = NaN
  <2>1. BinOf(mapper, "cat", v) = top + 1
    BY <1>7, <1>15 DEF BinOf
  <2>2. GoesLeft(s, top + 1) = dl
    BY <1>7, <1>11 DEF GoesLeft
  <2>3. Left(s, "cat", v) = dl
    BY <1>11, <1>15, LeftIs
  <2> QED BY <1>11, <1>12, <1>13, <1>14, <2>1, <2>2, <2>3
<1>16. CASE v # NaN
  <2>1. v \in ValuesIn(data["cat"])
    BY <1>2, <1>13, <1>16 DEF ValuesIn, Range
  <2>2. PICK k \in 1..n : cats[k] = v
    BY <1>4, <2>1
  <2>3. \A j \in 1..n : cats[j] = v => j = k
    <3>1. SUFFICES ASSUME NEW j \in 1..n, cats[j] = v, j # k PROVE FALSE
      OBVIOUS
    <3>2. v \in Int
      BY <1>4, <2>2
    <3>3. CASE j < k
      BY <1>4, <2>2, <3>1, <3>2, <3>3
    <3>4. CASE k < j
      BY <1>4, <2>2, <3>1, <3>2, <3>4
    <3> QED BY <1>3, <3>1, <3>3, <3>4
  <2>4. {j \in DOMAIN mapper.cats : v = mapper.cats[j]} = {k}
    BY <1>4, <1>5, <2>2, <2>3
  <2>5. Min({k}) = k
    <3>1. \E x \in {k} : \A y \in {k} : x <= y
      OBVIOUS
    <3> QED BY <3>1 DEF Min
  <2>6. BinOf(mapper, "cat", v) = k
    <3>1. {k} # {}
      OBVIOUS
    <3> QED BY <1>16, <2>4, <2>5, <3>1 DEF BinOf
  <2>7. GoesLeft(s, k) = (k \in bs)
    <3>1. k # top + 1
      BY <1>10
    <3> QED BY <1>7, <1>11, <3>1 DEF GoesLeft
  <2>8. Left(s, "cat", v) = (v \in s.leftCats)
    BY <1>16, LeftIs
  <2>9. (k \in bs) <=> (v \in s.leftCats)
    BY <1>10, <1>11, <2>2, <2>3
  <2>10. (k \in bs) = (v \in s.leftCats)
    BY <2>9
  <2> QED BY <1>11, <1>12, <1>13, <1>14, <2>6, <2>7, <2>8, <2>10
<1> QED BY <1>15, <1>16

\* Any cut: the feature it is on, and that it reads a row as it bins it.
LEMMA CutAgrees ==
    ASSUME FewCategories, Binned, NEW l, NEW s \in Cuts(l), NEW i \in DOMAIN data["num"]
    PROVE  /\ s.feature \in Features /\ s.threshold \in Int /\ s.leftCats \in SUBSET Int /\ s.defaultLeft \in BOOLEAN
           /\ GoesLeft(s, bins[s.feature][i]) = Left(s, s.feature, data[s.feature][i])
<1>1. s \in NumericCuts(l) \/ s \in CategoricalCuts(l)
  <2>1. PICK f \in feats : s \in (IF f = "num" THEN NumericCuts(l) ELSE CategoricalCuts(l))
    BY DEF Cuts
  <2>2. CASE f = "num"
    BY <2>1, <2>2
  <2>3. CASE f # "num"
    BY <2>1, <2>3
  <2> QED BY <2>2, <2>3
<1>2. CASE s \in NumericCuts(l)
  <2>1. /\ s.feature = "num" /\ s.threshold \in Int /\ s.leftCats = {} /\ s.defaultLeft \in BOOLEAN
        /\ GoesLeft(s, bins["num"][i]) = Left(s, "num", data["num"][i])
    BY <1>2, NumberAgrees
  <2> QED BY <2>1 DEF Features
<1>3. CASE s \in CategoricalCuts(l)
  <2>1. /\ s.feature = "cat" /\ s.threshold = 0 /\ s.leftCats \in SUBSET Int /\ s.defaultLeft \in BOOLEAN
        /\ GoesLeft(s, bins["cat"][i]) = Left(s, "cat", data["cat"][i])
    BY <1>3, CategoryAgrees
  <2> QED BY <2>1 DEF Features
<1> QED BY <1>1, <1>2, <1>3

-----------------------------------------------------------------------------
(* Trees: a tree with one leaf cut in two *)

Nodes ==
    {LeafNode} \cup
    [leaf : {FALSE}, feature : Features, threshold : Int, leftCats : SUBSET Int,
     defaultLeft : BOOLEAN, left : Nat, right : Nat]

\* The nodes of a tree lead to nodes of the tree.
Closed(nodes) ==
    \A n \in DOMAIN nodes : ~nodes[n].leaf =>
        nodes[n].left \in DOMAIN nodes /\ nodes[n].right \in DOMAIN nodes

\* Where a row goes from a node, and the readings of a row from every node.
Branch(node, x) == IF Left(node, node.feature, x[node.feature]) THEN node.left ELSE node.right
ReadsBy(nodes, x, g) ==
    g = [n \in DOMAIN nodes |-> IF nodes[n].leaf THEN n ELSE g[Branch(nodes[n], x)]]
Flows(nodes, x, g) ==
    \A n \in DOMAIN nodes : ~nodes[n].leaf => g[n] = g[Branch(nodes[n], x)]

\* Every row is read somewhere: no path goes round.
Readable(nodes, x) == \E g : ReadsBy(nodes, x, g)
\* The row is read at node n: nothing parts it from the root.
LeadsTo(nodes, x, n) == \A g : Flows(nodes, x, g) => g[1] = g[n]

LEMMA PredictIs ==
    ASSUME NEW nodes, NEW x, NEW n \in DOMAIN nodes, nodes[n].leaf,
           Readable(nodes, x), LeadsTo(nodes, x, n)
    PROVE  Predict(nodes, x) = n
<1> DEFINE At == CHOOSE g : ReadsBy(nodes, x, g)
<1>1. ReadsBy(nodes, x, At)
  BY DEF Readable
<1> HIDE DEF At
<1>2. At = [k \in DOMAIN nodes |-> IF nodes[k].leaf THEN k ELSE At[Branch(nodes[k], x)]]
  BY <1>1 DEF ReadsBy
<1>3. Flows(nodes, x, At)
  BY <1>2 DEF Flows
<1>4. At[1] = At[n] /\ At[n] = n
  BY <1>2, <1>3 DEF LeadsTo
<1>5. Predict(nodes, x) = At[1]
  BY DEF Predict, At, ReadsBy, Branch
<1> QED BY <1>4, <1>5

LEMMA NodesJoin ==
    ASSUME NEW s \in Seq(Nodes), NEW u \in Seq(Nodes)
    PROVE  /\ s \o u \in Seq(Nodes) /\ Len(s \o u) = Len(s) + Len(u)
           /\ \A n \in 1..(Len(s) + Len(u)) :
                 (s \o u)[n] = IF n <= Len(s) THEN s[n] ELSE u[n - Len(s)]
<1> PICK S : S = Nodes
  OBVIOUS
<1>1. s \in Seq(S) /\ u \in Seq(S)
  OBVIOUS
<1>2. s \o u \in Seq(S) /\ Len(s \o u) = Len(s) + Len(u)
  BY <1>1, ConcatProperties
<1>3. \A n \in 1 .. Len(s) + Len(u) :
        (s \o u)[n] = IF n <= Len(s) THEN s[n] ELSE u[n - Len(s)]
  BY <1>1, ConcatProperties
<1> QED BY <1>2, <1>3

\* p is a leaf of nodes, and grown is nodes with p cut by r.
Splits(nodes, p, r, grown) ==
    /\ nodes \in Seq(Nodes) /\ Closed(nodes) /\ p \in DOMAIN nodes /\ nodes[p].leaf
    /\ r \in Nodes /\ ~r.leaf /\ r.left = Len(nodes) + 1 /\ r.right = Len(nodes) + 2
    /\ grown = [nodes EXCEPT ![p] = r] \o <<LeafNode, LeafNode>>

LEMMA SplitIs ==
    ASSUME NEW nodes, NEW p, NEW r, NEW grown, Splits(nodes, p, r, grown)
    PROVE  /\ Len(nodes) \in Nat /\ DOMAIN nodes = 1..Len(nodes) /\ p \in 1..Len(nodes)
           /\ grown \in Seq(Nodes) /\ DOMAIN grown = 1..(Len(nodes) + 2)
           /\ \A n \in 1..Len(nodes) : n # p => grown[n] = nodes[n]
           /\ grown[p] = r /\ grown[Len(nodes) + 1].leaf /\ grown[Len(nodes) + 2].leaf
           /\ Closed(grown)
<1>1. PICK N \in Nat : N = Len(nodes)
  BY DEF Splits
<1>2. nodes \in Seq(Nodes) /\ DOMAIN nodes = 1..N /\ p \in 1..N /\ r \in Nodes
  BY <1>1 DEF Splits
<1>3. LeafNode \in Nodes /\ LeafNode.leaf
  BY DEF Nodes, LeafNode
<1>4. PICK t : t = [nodes EXCEPT ![p] = r]
  OBVIOUS
<1>5. t \in Seq(Nodes) /\ Len(t) = N /\ t[p] = r /\ \A n \in 1..N : n # p => t[n] = nodes[n]
  BY <1>1, <1>2, <1>4
<1>6. grown = t \o <<LeafNode, LeafNode>>
  BY <1>4 DEF Splits
<1> HIDE DEF LeafNode
<1>7. PICK u : u = <<LeafNode, LeafNode>>
  OBVIOUS
<1>8. u \in Seq(Nodes) /\ Len(u) = 2 /\ u[1] = LeafNode /\ u[2] = LeafNode
  BY <1>3, <1>7
<1>9. grown = t \o u
  BY <1>6, <1>7
<1>10. /\ grown \in Seq(Nodes) /\ Len(grown) = N + 2 /\ DOMAIN grown = 1..(N + 2)
       /\ \A n \in 1..(N + 2) : grown[n] = IF n <= N THEN t[n] ELSE u[n - N]
  <2>1. t \o u \in Seq(Nodes) /\ Len(t \o u) = N + 2
    <3>1. t \o u \in Seq(Nodes)
      BY <1>5, <1>8, NodesJoin
    <3>2. Len(t \o u) = Len(t) + Len(u)
      BY <1>5, <1>8, NodesJoin
    <3> QED BY <1>5, <1>8, <3>1, <3>2
  <2>2. \A n \in 1..(N + 2) : (t \o u)[n] = IF n <= N THEN t[n] ELSE u[n - N]
    BY <1>5, <1>8, NodesJoin
  <2> QED BY <1>9, <2>1, <2>2
<1>11. grown[N + 1] = LeafNode /\ grown[N + 2] = LeafNode
  <2>1. grown[N + 1] = u[(N + 1) - N] /\ grown[N + 2] = u[(N + 2) - N]
    BY <1>10
  <2> QED BY <1>8, <2>1
<1>12. \A n \in 1..N : grown[n] = t[n]
  BY <1>10
<1>13. Closed(grown)
  <2>1. SUFFICES ASSUME NEW n \in 1..(N + 2), ~grown[n].leaf
                 PROVE  grown[n].left \in 1..(N + 2) /\ grown[n].right \in 1..(N + 2)
    BY <1>10 DEF Closed
  <2>2. n # N + 1 /\ n # N + 2
    BY <1>3, <1>11, <2>1
  <2>3. n \in 1..N
    BY <2>1, <2>2
  <2>4. CASE n = p
    <3>1. grown[n] = r
      BY <1>5, <1>12, <2>3, <2>4
    <3> QED BY <1>1, <3>1 DEF Splits
  <2>5. CASE n # p
    <3>1. grown[n] = nodes[n]
      BY <1>5, <1>12, <2>3, <2>5
    <3>2. nodes[n].left \in 1..N /\ nodes[n].right \in 1..N
      BY <1>2, <2>1, <2>3, <3>1 DEF Splits, Closed
    <3> QED BY <3>1, <3>2
  <2> QED BY <2>4, <2>5
<1> QED BY <1>1, <1>2, <1>3, <1>5, <1>10, <1>11, <1>12, <1>13

\* What is read at a leaf still is, or is read at one of its children.
LEMMA SplitLeads ==
    ASSUME NEW nodes, NEW p, NEW r, NEW grown, Splits(nodes, p, r, grown), NEW x
    PROVE  /\ LeadsTo(nodes, x, p) => LeadsTo(grown, x, Branch(r, x))
           /\ \A n \in DOMAIN nodes : LeadsTo(nodes, x, n) => LeadsTo(grown, x, n)
<1>1. /\ Len(nodes) \in Nat /\ DOMAIN nodes = 1..Len(nodes) /\ p \in 1..Len(nodes)
      /\ DOMAIN grown = 1..(Len(nodes) + 2)
      /\ \A n \in 1..Len(nodes) : n # p => grown[n] = nodes[n]
      /\ grown[p] = r
  BY SplitIs
<1>2. nodes[p].leaf /\ ~r.leaf
  BY DEF Splits
<1>3. ASSUME NEW g, Flows(grown, x, g) PROVE Flows(nodes, x, g) /\ g[p] = g[Branch(r, x)]
  <2>1. \A n \in 1..(Len(nodes) + 2) : ~grown[n].leaf => g[n] = g[Branch(grown[n], x)]
    BY <1>1, <1>3 DEF Flows
  <2>2. g[p] = g[Branch(r, x)]
    BY <1>1, <1>2, <2>1
  <2>3. ASSUME NEW n \in 1..Len(nodes), ~nodes[n].leaf PROVE g[n] = g[Branch(nodes[n], x)]
    <3>1. n # p /\ n \in 1..(Len(nodes) + 2)
      BY <1>1, <1>2, <2>3
    <3> QED BY <1>1, <2>1, <2>3, <3>1
  <2>4. Flows(nodes, x, g)
    BY <1>1, <2>3 DEF Flows
  <2> QED BY <2>2, <2>4
<1>4. ASSUME LeadsTo(nodes, x, p) PROVE LeadsTo(grown, x, Branch(r, x))
  BY <1>3, <1>4 DEF LeadsTo
<1>5. ASSUME NEW n \in DOMAIN nodes, LeadsTo(nodes, x, n) PROVE LeadsTo(grown, x, n)
  BY <1>3, <1>5 DEF LeadsTo
<1> QED BY <1>4, <1>5

\* Every row is still read somewhere.
LEMMA SplitReads ==
    ASSUME NEW nodes, NEW p, NEW r, NEW grown, Splits(nodes, p, r, grown),
           NEW x, Readable(nodes, x)
    PROVE  Readable(grown, x)
<1>1. PICK N \in Nat : N = Len(nodes)
  BY SplitIs
<1>2. /\ DOMAIN nodes = 1..N /\ p \in 1..N /\ DOMAIN grown = 1..(N + 2)
      /\ \A n \in 1..N : n # p => grown[n] = nodes[n]
      /\ grown[p] = r /\ grown[N + 1].leaf /\ grown[N + 2].leaf
  BY <1>1, SplitIs
<1>3. nodes[p].leaf /\ ~r.leaf /\ r.left = N + 1 /\ r.right = N + 2 /\ Closed(nodes)
  BY <1>1 DEF Splits
<1>4. PICK g : g = [n \in 1..N |-> IF nodes[n].leaf THEN n ELSE g[Branch(nodes[n], x)]]
  BY <1>2 DEF Readable, ReadsBy
<1>5. PICK c : c = Branch(r, x) /\ c \in {N + 1, N + 2}
  BY <1>3 DEF Branch
<1> DEFINE h == [n \in 1..(N + 2) |-> IF n > N THEN n ELSE IF g[n] = p THEN c ELSE g[n]]
<1>6. ASSUME NEW n \in 1..N PROVE h[n] = IF g[n] = p THEN c ELSE g[n]
  BY <1>6
<1>7. h[N + 1] = N + 1 /\ h[N + 2] = N + 2 /\ DOMAIN h = 1..(N + 2)
  OBVIOUS
<1>8. h[c] = c
  BY <1>5, <1>7
<1> HIDE DEF h
<1>9. ASSUME NEW n \in 1..(N + 2)
      PROVE  h[n] = IF grown[n].leaf THEN n ELSE h[Branch(grown[n], x)]
  <2>1. CASE n = N + 1 \/ n = N + 2
    BY <1>2, <1>7, <2>1
  <2>2. CASE n = p
    <3>1. g[p] = p
      BY <1>2, <1>3, <1>4
    <3>2. h[p] = c
      BY <1>2, <1>6, <3>1
    <3> QED BY <1>2, <1>3, <1>5, <1>8, <2>2, <3>2
  <2>3. CASE n \in 1..N /\ n # p
    <3>1. grown[n] = nodes[n]
      BY <1>2, <2>3
    <3>2. CASE nodes[n].leaf
      <4>1. g[n] = n
        BY <1>4, <2>3, <3>2
      <4> QED BY <1>6, <2>3, <3>1, <3>2, <4>1
    <3>3. CASE ~nodes[n].leaf
      <4>1. PICK t : t = Branch(nodes[n], x)
        OBVIOUS
      <4>2. t \in 1..N
        BY <1>2, <1>3, <2>3, <3>3, <4>1 DEF Closed, Branch
      <4>3. g[n] = g[t]
        BY <1>4, <2>3, <3>3, <4>1
      <4>4. h[n] = h[t]
        BY <1>6, <2>3, <4>2, <4>3
      <4> QED BY <3>1, <3>3, <4>1, <4>4
    <3> QED BY <3>2, <3>3
  <2>4. n \in 1..N \/ n = N + 1 \/ n = N + 2
    OBVIOUS
  <2> QED BY <2>1, <2>2, <2>3, <2>4
<1>10. h = [n \in 1..(N + 2) |-> IF grown[n].leaf THEN n ELSE h[Branch(grown[n], x)]]
  <2>1. h = [n \in 1..(N + 2) |-> h[n]]
    BY DEF h
  <2> QED BY <1>9, <2>1
<1>11. ReadsBy(grown, x, h)
  BY <1>2, <1>10 DEF ReadsBy
<1> QED BY <1>11 DEF Readable

-----------------------------------------------------------------------------
(* Trees: the counts of disjoint rows *)

Histograms == [Features -> [Bins -> Int]]

HoldsCounts(h, rows) == \A f \in feats, b \in Bins : h[f][b] = Count(rows, f, b)

LEMMA CountIsNat ==
    ASSUME NEW rows, IsFiniteSet(rows), NEW f, NEW b
    PROVE  Count(rows, f, b) \in Nat
<1>1. {i \in rows : bins[f][i] = b} \in SUBSET rows
  OBVIOUS
<1>2. IsFiniteSet({i \in rows : bins[f][i] = b})
  BY <1>1, FS_Subset
<1> QED BY <1>2, FS_CardinalityType DEF Count

\* A histogram counted in a zeroed buffer holds the counts of its rows.
LEMMA BuildIs ==
    ASSUME NEW rows, IsFiniteSet(rows), NEW fs, NEW p
    PROVE  /\ BuildHistogram(GetZeroed(p), rows, fs) \in Histograms
           /\ \A f \in fs \cap Features, b \in Bins :
                 BuildHistogram(GetZeroed(p), rows, fs)[f][b] = Count(rows, f, b)
<1>1. GetZeroed(p) = NoCounts
  BY DEF GetZeroed, Reset
<1>2. \A f \in Features, b \in Bins : NoCounts[f][b] = 0
  BY DEF NoCounts
<1>3. \A f \in Features, b \in Bins : Count(rows, f, b) \in Nat
  BY CountIsNat
<1>4. \A f \in Features, b \in Bins :
        BuildHistogram(NoCounts, rows, fs)[f][b] = IF f \in fs THEN Count(rows, f, b) ELSE 0
  BY <1>2, <1>3 DEF BuildHistogram
<1>5. BuildHistogram(NoCounts, rows, fs) \in Histograms
  <2>1. \A f \in Features, b \in Bins : BuildHistogram(NoCounts, rows, fs)[f][b] \in Int
    BY <1>3, <1>4
  <2>2. BuildHistogram(NoCounts, rows, fs) =
          [f \in Features |-> [b \in Bins |-> BuildHistogram(NoCounts, rows, fs)[f][b]]]
    BY DEF BuildHistogram
  <2> QED BY <2>1, <2>2 DEF Histograms
<1> QED BY <1>1, <1>4, <1>5

\* What the large child is left with, the counts of the small one taken away.
LEMMA SubtractIs ==
    ASSUME NEW rows, IsFiniteSet(rows), NEW small \in SUBSET rows,
           NEW h \in Histograms, NEW k \in Histograms, feats \subseteq Features,
           HoldsCounts(h, rows), HoldsCounts(k, small)
    PROVE  Subtract(h, k) \in Histograms /\ HoldsCounts(Subtract(h, k), rows \ small)
<1>1. \A f \in Features, b \in Bins :
        Subtract(h, k)[f][b] = h[f][b] - k[f][b] /\ h[f][b] \in Int /\ k[f][b] \in Int
  BY DEF Subtract, Histograms
<1>2. Subtract(h, k) \in Histograms
  BY DEF Subtract, Histograms
<1>3. ASSUME NEW f \in feats, NEW b \in Bins
      PROVE  Count(rows \ small, f, b) = Count(rows, f, b) - Count(small, f, b)
  <2> DEFINE R == {i \in rows : bins[f][i] = b}
             S == {i \in small : bins[f][i] = b}
             D == {i \in rows \ small : bins[f][i] = b}
  <2>1. R \in SUBSET rows /\ R \cap S = S /\ R \ S = D
    OBVIOUS
  <2>2. IsFiniteSet(R)
    BY <2>1, FS_Subset
  <2>3. Cardinality(R \ S) = Cardinality(R) - Cardinality(R \cap S)
    <3> HIDE DEF R, S
    <3> QED BY <2>2, FS_Difference
  <2>4. Cardinality(D) = Cardinality(R) - Cardinality(S)
    <3> HIDE DEF R, S, D
    <3> QED BY <2>1, <2>3
  <2> QED BY <2>4 DEF Count
<1> QED BY <1>1, <1>2, <1>3 DEF HoldsCounts

-----------------------------------------------------------------------------
(* Trees: the invariant *)

Rows == DOMAIN data["num"]

GrowNodes ==
    [node : Nat, rows : SUBSET Rows, depth : Nat, closed : BOOLEAN, hist : Histograms]

TreesTypeOK ==
    /\ Binned
    /\ feats \subseteq Features
    /\ tree \in Seq(Nodes) /\ Closed(tree)
    /\ leaves \subseteq GrowNodes
    /\ losses \in Seq(Losses)
    /\ best \in [loss : Int, iter : Nat, since : Nat]

\* A leaf being grown is a leaf of the tree, which no other has.
LeavesApart ==
    \A l \in leaves :
        /\ l.node \in DOMAIN tree /\ tree[l.node].leaf
        /\ \A k \in leaves : k.node = l.node => k = l

\* Every row is read somewhere, and those of a leaf at that leaf.
RowsLead ==
    /\ \A i \in Rows : Readable(tree, Row(i))
    /\ \A l \in leaves : \A i \in l.rows : LeadsTo(tree, Row(i), l.node)

LeafCounts ==
    \A l \in leaves : HoldsCounts(l.hist, l.rows) /\ (l.depth > 0 => Cardinality(l.rows) >= MinDataInLeaf)

\* The best loss is that of the first of the best rounds.
BestSoFar ==
    IF losses = <<>> THEN best.loss = Infinity /\ best.iter = 0
    ELSE /\ best.iter \in DOMAIN losses /\ best.loss = losses[best.iter]
         /\ \A k \in DOMAIN losses : best.loss <= losses[k]
         /\ \A k \in DOMAIN losses : k < best.iter => best.loss < losses[k]

TreesInv == TreesTypeOK /\ LeavesApart /\ RowsLead /\ LeafCounts /\ BestSoFar

LEMMA TreesInvImplies == TreesInv => TreesHold
<1> SUFFICES ASSUME TreesInv PROVE TreesHold
  OBVIOUS
<1>1. PredictsItsLeaf
  <2>1. SUFFICES ASSUME NEW l \in leaves, NEW i \in l.rows PROVE Predict(tree, Row(i)) = l.node
    BY DEF PredictsItsLeaf
  <2>2. i \in Rows
    BY <2>1 DEF TreesInv, TreesTypeOK, GrowNodes
  <2>3. l.node \in DOMAIN tree /\ tree[l.node].leaf
    BY <2>1 DEF TreesInv, LeavesApart
  <2>4. Readable(tree, Row(i)) /\ LeadsTo(tree, Row(i), l.node)
    BY <2>1, <2>2 DEF TreesInv, RowsLead
  <2> QED BY <2>3, <2>4, PredictIs
<1>2. CountsAreTrue
  BY DEF TreesInv, LeafCounts, HoldsCounts, CountsAreTrue
<1>3. KeepsTheBest
  <2>1. SUFFICES ASSUME losses # <<>>
                 PROVE  /\ BestIteration \in DOMAIN losses
                        /\ \A k \in DOMAIN losses : losses[BestIteration] <= losses[k]
                        /\ \A k \in 1..BestIteration-1 : losses[BestIteration] < losses[k]
    BY DEF KeepsTheBest
  <2>2. PICK n \in Nat : n = Len(losses) /\ DOMAIN losses = 1..n
    BY DEF TreesInv, TreesTypeOK
  <2>3. /\ best.iter \in 1..n /\ best.loss = losses[best.iter]
        /\ \A k \in 1..n : best.loss <= losses[k]
        /\ \A k \in 1..n : k < best.iter => best.loss < losses[k]
    BY <2>1, <2>2 DEF TreesInv, BestSoFar
  <2>4. BestIteration = best.iter
    BY <2>2, <2>3 DEF BestIteration
  <2>5. \A k \in 1..best.iter-1 : k \in 1..n /\ k < best.iter
    BY <2>2, <2>3
  <2> QED BY <2>2, <2>3, <2>4, <2>5
<1> QED BY <1>1, <1>2, <1>3 DEF TreesHold

LEMMA TreesInvInit == TreesInit => TreesInv
<1> SUFFICES ASSUME TreesInit PROVE TreesInv
  OBVIOUS
<1>1. Binned /\ feats = {} /\ tree = <<>> /\ leaves = {} /\ losses = <<>>
      /\ best = [loss |-> Infinity, iter |-> 0, since |-> 0]
  BY DEF TreesInit, Binned
<1>2. Infinity \in Int
  BY TreesAssumption
<1>3. TreesTypeOK
  BY <1>1, <1>2 DEF TreesTypeOK, Closed
<1>4. ASSUME NEW i \in Rows PROVE Readable(tree, Row(i))
  <2> DEFINE g == [n \in {} |-> n]
  <2>1. g = [n \in DOMAIN tree |-> IF tree[n].leaf THEN n ELSE g[Branch(tree[n], Row(i))]]
    BY <1>1
  <2> HIDE DEF g
  <2>2. ReadsBy(tree, Row(i), g)
    BY <2>1 DEF ReadsBy
  <2> QED BY <2>2 DEF Readable
<1>5. LeavesApart /\ RowsLead /\ LeafCounts /\ BestSoFar
  BY <1>1, <1>4 DEF LeavesApart, RowsLead, LeafCounts, BestSoFar
<1> QED BY <1>3, <1>5 DEF TreesInv

-----------------------------------------------------------------------------
(* Trees: the steps *)

\* The data and its bins do not change.
SameData == data' = data /\ mapper' = mapper /\ bins' = bins

LEMMA DataStays ==
    ASSUME SameData, Binned
    PROVE  /\ Binned' /\ Rows' = Rows /\ \A i : Row(i)' = Row(i)
           /\ \A rows, f, b : Count(rows, f, b)' = Count(rows, f, b)
           /\ GrowNodes' = GrowNodes
<1>1. Binned'
  BY DEF SameData, Binned, BuildBinned, BinOf, MissingBin, NumBins
<1>2. Rows' = Rows
  BY DEF SameData, Rows
<1>3. \A i : Row(i)' = Row(i)
  BY DEF SameData, Row
<1>4. \A rows, f, b : Count(rows, f, b)' = Count(rows, f, b)
  BY DEF SameData, Count
<1>5. GrowNodes' = GrowNodes
  BY <1>2 DEF GrowNodes
<1> QED BY <1>1, <1>2, <1>3, <1>4, <1>5

\* One disjoint pair of children shares the rows of a leaf.
LEMMA ChildrenAre ==
    ASSUME TreesInv, NEW l \in leaves, NEW left \in SUBSET l.rows, NEW right, right = l.rows \ left,
           left # {}
    PROVE  \E a, b \in GrowNodes :
             /\ Children(l, left, right) = {a, b}
             /\ a.node = Len(tree) + 1 /\ a.rows = left /\ a.depth = l.depth + 1 /\ HoldsCounts(a.hist, left)
             /\ b.node = Len(tree) + 2 /\ b.rows = right /\ b.depth = l.depth + 1 /\ HoldsCounts(b.hist, right)
<1> DEFINE small == IF Cardinality(left) > Cardinality(right) THEN right ELSE left
           counted == BuildHistogram(GetZeroed(pool), small, feats)
           deduced == Subtract(l.hist, counted)
           Child(rows, node) ==
             [node |-> node, rows |-> rows, depth |-> l.depth + 1, closed |-> FALSE,
              hist |-> IF rows = small THEN counted ELSE deduced]
<1>1. Children(l, left, right) = {Child(left, Len(tree) + 1), Child(right, Len(tree) + 2)}
  BY DEF Children
<1>2. /\ l \in GrowNodes /\ l.rows \in SUBSET Rows /\ l.depth \in Nat /\ l.hist \in Histograms
      /\ feats \subseteq Features /\ Len(tree) \in Nat /\ HoldsCounts(l.hist, l.rows)
  BY DEF TreesInv, TreesTypeOK, LeafCounts, GrowNodes
<1>3. IsFiniteSet(l.rows)
  <2>1. IsFiniteSet(Rows)
    BY ColumnsAre DEF TreesInv, TreesTypeOK, Binned, Rows
  <2> QED BY <1>2, <2>1, FS_Subset
<1>4. right \in SUBSET l.rows /\ left # right /\ l.rows \ right = left /\ l.rows \ left = right
  OBVIOUS
<1>5. small \in SUBSET l.rows /\ small \in {left, right}
  BY <1>4
<1> HIDE DEF small
<1>6. counted \in Histograms /\ HoldsCounts(counted, small)
  <2>1. IsFiniteSet(small)
    BY <1>3, <1>5, FS_Subset
  <2>2. counted \in Histograms /\ \A f \in feats \cap Features, b \in Bins : counted[f][b] = Count(small, f, b)
    BY <2>1, BuildIs
  <2> HIDE DEF counted
  <2> QED BY <1>2, <2>2 DEF HoldsCounts
<1> HIDE DEF counted
<1>7. deduced \in Histograms /\ HoldsCounts(deduced, l.rows \ small)
  BY <1>2, <1>3, <1>5, <1>6, SubtractIs
<1> HIDE DEF deduced
<1>8. ASSUME NEW rows \in {left, right}, NEW node \in Nat
      PROVE  /\ Child(rows, node) \in GrowNodes
             /\ Child(rows, node).node = node /\ Child(rows, node).rows = rows
             /\ Child(rows, node).depth = l.depth + 1 /\ HoldsCounts(Child(rows, node).hist, rows)
  <2>1. PICK h : h = IF rows = small THEN counted ELSE deduced
    OBVIOUS
  <2>2. h \in Histograms /\ HoldsCounts(h, rows)
    <3>1. CASE rows = small
      BY <1>6, <2>1, <3>1
    <3>2. CASE rows # small
      <4>1. l.rows \ small = rows
        BY <1>4, <1>5, <1>8, <3>2
      <4> QED BY <1>7, <2>1, <3>2, <4>1
    <3> QED BY <3>1, <3>2
  <2>3. PICK c : c = [node |-> node, rows |-> rows, depth |-> l.depth + 1, closed |-> FALSE, hist |-> h]
    OBVIOUS
  <2>4. Child(rows, node) = c
    BY <2>1, <2>3
  <2>5. l.depth + 1 \in Nat /\ rows \in SUBSET Rows
    BY <1>2, <1>4, <1>8
  <2>6. c \in GrowNodes /\ c.node = node /\ c.rows = rows /\ c.depth = l.depth + 1 /\ c.hist = h
    BY <1>8, <2>2, <2>3, <2>5 DEF GrowNodes
  <2> HIDE DEF Child
  <2> QED BY <2>2, <2>4, <2>6
<1> HIDE DEF Child
<1>9. Len(tree) + 1 \in Nat /\ Len(tree) + 2 \in Nat
  BY <1>2
<1> QED BY <1>1, <1>8, <1>9

\* A new tree has one leaf, where every row is read.
LEMMA NewTreeKeeps == TreesInv /\ NewTree => TreesInv'
<1> SUFFICES ASSUME TreesInv, NewTree PROVE TreesInv'
  OBVIOUS
<1>1. PICK rows \in SampledRows :
        leaves' = {[node |-> 1, rows |-> rows, depth |-> 0, closed |-> FALSE,
                    hist |-> BuildHistogram(GetZeroed(pool), rows, feats')]}
  BY DEF NewTree
<1>2. /\ feats' \subseteq Features /\ tree' = <<LeafNode>>
      /\ SameData /\ losses' = losses /\ best' = best
  BY DEF NewTree, SampledFeatures, SameData
<1>3. Binned /\ losses \in Seq(Losses) /\ best \in [loss : Int, iter : Nat, since : Nat] /\ BestSoFar
  BY DEF TreesInv, TreesTypeOK
<1>4. /\ Binned' /\ Rows' = Rows /\ \A i : Row(i)' = Row(i)
      /\ \A r, f, b : Count(r, f, b)' = Count(r, f, b)
      /\ GrowNodes' = GrowNodes
  BY <1>2, <1>3, DataStays
<1>5. rows \in SUBSET Rows /\ IsFiniteSet(rows)
  <2>1. rows \in SUBSET Rows
    BY DEF SampledRows, Rows
  <2>2. IsFiniteSet(Rows)
    BY <1>3, ColumnsAre DEF Binned, Rows
  <2> QED BY <2>1, <2>2, FS_Subset
<1>6. PICK h : h = BuildHistogram(GetZeroed(pool), rows, feats')
  OBVIOUS
<1>7. h \in Histograms /\ \A f \in feats', b \in Bins : h[f][b] = Count(rows, f, b)
  BY <1>2, <1>5, <1>6, BuildIs
<1>8. PICK root : root = [node |-> 1, rows |-> rows, depth |-> 0, closed |-> FALSE, hist |-> h]
  OBVIOUS
<1>9. /\ root \in GrowNodes /\ root.node = 1 /\ root.rows = rows /\ root.depth = 0 /\ root.hist = h
      /\ leaves' = {root}
  BY <1>1, <1>5, <1>6, <1>7, <1>8 DEF GrowNodes
<1>10. tree' \in Seq(Nodes) /\ DOMAIN tree' = {1} /\ tree'[1].leaf
  BY <1>2 DEF Nodes, LeafNode
<1>11. Closed(tree)'
  BY <1>10 DEF Closed
<1>12. TreesTypeOK'
  BY <1>2, <1>3, <1>4, <1>9, <1>10, <1>11 DEF TreesTypeOK
<1>13. LeavesApart'
  BY <1>9, <1>10 DEF LeavesApart
<1>14. ASSUME NEW x PROVE Readable(tree', x) /\ LeadsTo(tree', x, 1)
  <2> DEFINE g == [n \in {1} |-> n]
  <2>1. g = [n \in DOMAIN tree' |-> IF tree'[n].leaf THEN n ELSE g[Branch(tree'[n], x)]]
    BY <1>10
  <2> HIDE DEF g
  <2>2. ReadsBy(tree', x, g)
    BY <2>1 DEF ReadsBy
  <2> QED BY <2>2 DEF Readable, LeadsTo
<1>15. RowsLead'
  BY <1>9, <1>14 DEF RowsLead
<1>16. LeafCounts'
  BY <1>4, <1>7, <1>9 DEF LeafCounts, HoldsCounts
<1>17. BestSoFar'
  BY <1>2, <1>3 DEF BestSoFar
<1> QED BY <1>12, <1>13, <1>15, <1>16, <1>17 DEF TreesInv

\* The first of the best rounds stays it, or gives way to the one that ends.
LEMMA EndTreeKeeps == TreesInv /\ EndTree => TreesInv'
<1> SUFFICES ASSUME TreesInv, EndTree PROVE TreesInv'
  OBVIOUS
<1>1. PICK loss \in Losses : losses' = Append(losses, loss) /\ best' = Improved(loss)
  BY DEF EndTree
<1>2. /\ SameData /\ leaves' = {} /\ tree' = tree /\ feats' = feats
  BY DEF EndTree, SameData
<1>3. /\ Binned /\ losses \in Seq(Losses) /\ best \in [loss : Int, iter : Nat, since : Nat]
      /\ feats \subseteq Features /\ tree \in Seq(Nodes) /\ Closed(tree) /\ RowsLead
  BY DEF TreesInv, TreesTypeOK
<1>4. Binned' /\ Rows' = Rows /\ \A i : Row(i)' = Row(i)
  BY <1>2, <1>3, DataStays
<1>5. loss \in Int /\ loss < Infinity /\ Infinity \in Int
  BY TreesAssumption DEF Numbers
<1>6. PICK n \in Nat : n = Len(losses) /\ DOMAIN losses = 1..n
  BY <1>3
<1>7. /\ losses' \in Seq(Losses) /\ losses' # <<>> /\ DOMAIN losses' = 1..(n + 1)
      /\ losses'[n + 1] = loss /\ \A k \in 1..n : losses'[k] = losses[k]
  BY <1>1, <1>3, <1>6
<1>8. \A k \in 1..n : losses[k] \in Int
  <2>1. \A k \in 1..n : losses[k] \in Losses
    BY <1>3, <1>6
  <2>2. Losses \subseteq Int
    BY TreesAssumption DEF Numbers
  <2> QED BY <2>1, <2>2
<1>9. best' \in [loss : Int, iter : Nat, since : Nat] /\ BestSoFar'
  <2>1. best.loss \in Int /\ best.iter \in Nat /\ best.since \in Nat
    BY <1>3
  <2>2. IF losses = <<>> THEN best.loss = Infinity /\ best.iter = 0 /\ n = 0
        ELSE /\ best.iter \in 1..n /\ best.loss = losses[best.iter]
             /\ \A k \in 1..n : best.loss <= losses[k]
             /\ \A k \in 1..n : k < best.iter => best.loss < losses[k]
    BY <1>6 DEF TreesInv, BestSoFar
  <2>3. CASE loss < best.loss
    <3>1. best' = [loss |-> loss, iter |-> n + 1, since |-> 0]
      BY <1>1, <1>6, <2>3 DEF Improved
    <3>2. best'.loss = loss /\ best'.iter = n + 1 /\ best' \in [loss : Int, iter : Nat, since : Nat]
      BY <1>5, <3>1
    <3>3. ASSUME NEW k \in 1..n PROVE loss < losses[k]
      <4>1. losses # <<>>
        BY <1>6
      <4>2. best.loss <= losses[k]
        BY <2>2, <4>1
      <4> QED BY <1>5, <1>8, <2>1, <2>3, <4>2
    <3>4. ASSUME NEW k \in 1..(n + 1) PROVE loss <= losses'[k] /\ (k < n + 1 => loss < losses'[k])
      <4>1. CASE k = n + 1
        BY <1>5, <1>7, <4>1
      <4>2. CASE k \in 1..n
        <5>1. losses'[k] = losses[k] /\ losses[k] \in Int
          BY <1>7, <1>8, <4>2
        <5>2. loss < losses[k]
          BY <3>3, <4>2
        <5> QED BY <1>5, <5>1, <5>2
      <4> QED BY <4>1, <4>2
    <3>5. n + 1 \in 1..(n + 1)
      OBVIOUS
    <3> QED BY <1>7, <3>2, <3>4, <3>5 DEF BestSoFar
  <2>4. CASE ~(loss < best.loss)
    <3>1. best' = [best EXCEPT !.since = @ + 1]
      BY <1>1, <2>4 DEF Improved
    <3>2. best'.loss = best.loss /\ best'.iter = best.iter /\ best' \in [loss : Int, iter : Nat, since : Nat]
      BY <1>3, <3>1
    <3>3. losses # <<>>
      BY <1>5, <2>2, <2>4
    <3>4. /\ best.iter \in 1..n /\ best.loss = losses[best.iter]
          /\ \A k \in 1..n : best.loss <= losses[k]
          /\ \A k \in 1..n : k < best.iter => best.loss < losses[k]
      BY <2>2, <3>3
    <3>5. best.iter \in 1..(n + 1) /\ best.loss = losses'[best.iter]
      BY <1>7, <3>4
    <3>6. ASSUME NEW k \in 1..(n + 1) PROVE best.loss <= losses'[k] /\ (k < best.iter => best.loss < losses'[k])
      <4>1. CASE k = n + 1
        <5>1. ~(k < best.iter)
          BY <3>4, <4>1
        <5> QED BY <1>5, <1>7, <2>1, <2>4, <4>1, <5>1
      <4>2. CASE k \in 1..n
        BY <1>7, <3>4, <4>2
      <4> QED BY <4>1, <4>2
    <3> QED BY <1>7, <3>2, <3>5, <3>6 DEF BestSoFar
  <2> QED BY <2>3, <2>4
<1>10. TreesTypeOK'
  BY <1>2, <1>3, <1>4, <1>7, <1>9 DEF TreesTypeOK
<1>11. LeavesApart' /\ LeafCounts'
  BY <1>2 DEF LeavesApart, LeafCounts
<1>12. RowsLead'
  BY <1>2, <1>3, <1>4 DEF RowsLead
<1> QED BY <1>9, <1>10, <1>11, <1>12 DEF TreesInv

\* A leaf is closed, and nothing else changes.
LEMMA CloseKeeps ==
    ASSUME TreesInv, NEW l \in leaves, SameData,
           leaves' = (leaves \ {l}) \cup {[l EXCEPT !.closed = TRUE]},
           tree' = tree, feats' = feats, losses' = losses, best' = best
    PROVE  TreesInv'
<1>1. /\ Binned /\ losses \in Seq(Losses) /\ best \in [loss : Int, iter : Nat, since : Nat]
      /\ feats \subseteq Features /\ tree \in Seq(Nodes) /\ Closed(tree) /\ leaves \subseteq GrowNodes
  BY DEF TreesInv, TreesTypeOK
<1>2. /\ Binned' /\ Rows' = Rows /\ \A i : Row(i)' = Row(i)
      /\ \A rows, f, b : Count(rows, f, b)' = Count(rows, f, b)
      /\ GrowNodes' = GrowNodes
  BY <1>1, DataStays
<1>3. PICK m : m = [l EXCEPT !.closed = TRUE]
  OBVIOUS
<1>4. /\ m \in GrowNodes /\ m.node = l.node /\ m.rows = l.rows /\ m.depth = l.depth /\ m.hist = l.hist
  BY <1>1, <1>3 DEF GrowNodes
<1>5. leaves' = (leaves \ {l}) \cup {m}
  BY <1>3
<1>6. TreesTypeOK'
  BY <1>1, <1>2, <1>4, <1>5 DEF TreesTypeOK
<1>7. \A k \in leaves' : \E o \in leaves : k.node = o.node /\ k.rows = o.rows /\ k.depth = o.depth
                                         /\ k.hist = o.hist /\ (k = o \/ (k = m /\ o = l))
  BY <1>4, <1>5
<1>8. LeavesApart'
  <2>1. SUFFICES ASSUME NEW k \in leaves'
                 PROVE  /\ k.node \in DOMAIN tree /\ tree[k.node].leaf
                        /\ \A j \in leaves' : j.node = k.node => j = k
    BY DEF LeavesApart
  <2>2. PICK o \in leaves : k.node = o.node /\ (k = o \/ (k = m /\ o = l))
    BY <1>7
  <2>3. o.node \in DOMAIN tree /\ tree[o.node].leaf
    BY DEF TreesInv, LeavesApart
  <2>4. ASSUME NEW j \in leaves', j.node = k.node PROVE j = k
    <3>1. PICK q \in leaves : j.node = q.node /\ (j = q \/ (j = m /\ q = l))
      BY <1>7
    <3>2. q = o
      BY <2>2, <2>4, <3>1 DEF TreesInv, LeavesApart
    <3>3. CASE o = l
      <4>1. j = m /\ k = m
        BY <1>5, <2>2, <3>1, <3>2, <3>3
      <4> QED BY <4>1
    <3>4. CASE o # l
      BY <2>2, <3>1, <3>2, <3>4
    <3> QED BY <3>3, <3>4
  <2> QED BY <2>2, <2>3, <2>4
<1>9. RowsLead'
  <2>1. \A i \in Rows : Readable(tree, Row(i))
    BY DEF TreesInv, RowsLead
  <2>2. ASSUME NEW k \in leaves', NEW i \in k.rows PROVE LeadsTo(tree, Row(i), k.node)
    <3>1. PICK o \in leaves : k.node = o.node /\ k.rows = o.rows
      BY <1>7
    <3> QED BY <2>2, <3>1 DEF TreesInv, RowsLead
  <2> QED BY <1>2, <2>1, <2>2 DEF RowsLead
<1>10. LeafCounts'
  <2>1. ASSUME NEW k \in leaves'
        PROVE  HoldsCounts(k.hist, k.rows) /\ (k.depth > 0 => Cardinality(k.rows) >= MinDataInLeaf)
    <3>1. PICK o \in leaves : k.rows = o.rows /\ k.depth = o.depth /\ k.hist = o.hist
      BY <1>7
    <3> QED BY <3>1 DEF TreesInv, LeafCounts
  <2> QED BY <1>2, <2>1 DEF LeafCounts, HoldsCounts
<1>11. BestSoFar'
  BY DEF TreesInv, BestSoFar
<1> QED BY <1>6, <1>8, <1>9, <1>10, <1>11 DEF TreesInv

\* A leaf is cut in two.
LEMMA CutKeeps ==
    ASSUME FewCategories, TreesInv, NEW l \in leaves, NEW s \in Cuts(l), SameData,
           NEW left, left = {i \in l.rows : GoesLeft(s, bins[s.feature][i])},
           NEW right, right = l.rows \ left, Enough(Cardinality(left), Cardinality(right)),
           leaves' = (leaves \ {l}) \cup Children(l, left, right),
           tree' = [tree EXCEPT ![l.node] =
                      [leaf |-> FALSE, feature |-> s.feature,
                       threshold |-> s.threshold, leftCats |-> s.leftCats,
                       defaultLeft |-> s.defaultLeft,
                       left |-> Len(tree) + 1, right |-> Len(tree) + 2]]
                   \o <<LeafNode, LeafNode>>,
           feats' = feats, losses' = losses, best' = best
    PROVE  TreesInv'
<1>1. /\ Binned /\ losses \in Seq(Losses) /\ best \in [loss : Int, iter : Nat, since : Nat]
      /\ feats \subseteq Features /\ tree \in Seq(Nodes) /\ Closed(tree) /\ leaves \subseteq GrowNodes
  BY DEF TreesInv, TreesTypeOK
<1>2. /\ Binned' /\ Rows' = Rows /\ \A i : Row(i)' = Row(i)
      /\ \A rows, f, b : Count(rows, f, b)' = Count(rows, f, b)
      /\ GrowNodes' = GrowNodes
  BY <1>1, DataStays
<1>3. PICK N \in Nat : N = Len(tree) /\ DOMAIN tree = 1..N
  BY <1>1
<1>4. l \in GrowNodes /\ l.rows \in SUBSET Rows /\ l.node \in 1..N /\ tree[l.node].leaf
  BY <1>1, <1>3 DEF GrowNodes, TreesInv, LeavesApart
<1>5. /\ left \in SUBSET l.rows /\ left # {} /\ right # {}
      /\ Cardinality(left) >= MinDataInLeaf /\ Cardinality(right) >= MinDataInLeaf
  <2>1. MinDataInLeaf \in Nat \ {0}
    BY TreesAssumption
  <2>2. Cardinality(left) >= MinDataInLeaf /\ Cardinality(right) >= MinDataInLeaf
    BY DEF Enough
  <2>3. Cardinality({}) = 0
    BY FS_EmptySet
  <2>4. left # {}
    <3>1. SUFFICES ASSUME left = {} PROVE FALSE
      OBVIOUS
    <3>2. Cardinality(left) = 0
      BY <2>3, <3>1
    <3> QED BY <2>1, <2>2, <3>2
  <2>5. right # {}
    <3>1. SUFFICES ASSUME right = {} PROVE FALSE
      OBVIOUS
    <3>2. Cardinality(right) = 0
      BY <2>3, <3>1
    <3> QED BY <2>1, <2>2, <3>2
  <2>6. left \in SUBSET l.rows
    OBVIOUS
  <2> QED BY <2>2, <2>4, <2>5, <2>6
<1>6. PICK one \in l.rows : TRUE
  BY <1>5
<1>7. /\ s.feature \in Features /\ s.threshold \in Int /\ s.leftCats \in SUBSET Int /\ s.defaultLeft \in BOOLEAN
      /\ \A i \in Rows : GoesLeft(s, bins[s.feature][i]) = Left(s, s.feature, data[s.feature][i])
  <2>1. ASSUME NEW i \in Rows
        PROVE  /\ s.feature \in Features /\ s.threshold \in Int /\ s.leftCats \in SUBSET Int /\ s.defaultLeft \in BOOLEAN
               /\ GoesLeft(s, bins[s.feature][i]) = Left(s, s.feature, data[s.feature][i])
    <3>1. i \in DOMAIN data["num"]
      BY DEF Rows
    <3> QED BY <1>1, <3>1, CutAgrees
  <2>2. one \in Rows
    BY <1>4, <1>6
  <2> QED BY <2>1, <2>2
<1>8. PICK r : r = [leaf |-> FALSE, feature |-> s.feature,
                    threshold |-> s.threshold, leftCats |-> s.leftCats,
                    defaultLeft |-> s.defaultLeft, left |-> Len(tree) + 1, right |-> Len(tree) + 2]
  OBVIOUS
<1>9. /\ r \in Nodes /\ r.leaf = FALSE /\ r.feature = s.feature /\ r.threshold = s.threshold
      /\ r.leftCats = s.leftCats /\ r.defaultLeft = s.defaultLeft /\ r.left = N + 1 /\ r.right = N + 2
  <2>1. N + 1 \in Nat /\ N + 2 \in Nat
    BY <1>3
  <2>2. r \in [leaf : {FALSE}, feature : Features, threshold : Int, leftCats : SUBSET Int,
               defaultLeft : BOOLEAN, left : Nat, right : Nat]
    BY <1>3, <1>7, <1>8, <2>1
  <2> QED BY <1>3, <1>8, <2>2 DEF Nodes
<1>9a. PICK grown : grown = tree'
  OBVIOUS
<1>10. Splits(tree, l.node, r, grown)
  <2>1. tree' = [tree EXCEPT ![l.node] = r] \o <<LeafNode, LeafNode>>
    BY <1>8
  <2> QED BY <1>1, <1>3, <1>4, <1>9, <1>9a, <2>1 DEF Splits
<1>11. /\ tree' \in Seq(Nodes) /\ DOMAIN tree' = 1..(N + 2) /\ Closed(tree')
       /\ \A n \in 1..N : n # l.node => tree'[n] = tree[n]
       /\ tree'[N + 1].leaf /\ tree'[N + 2].leaf
  <2>1. /\ grown \in Seq(Nodes) /\ DOMAIN grown = 1..(Len(tree) + 2) /\ Closed(grown)
        /\ \A n \in 1..Len(tree) : n # l.node => grown[n] = tree[n]
        /\ grown[Len(tree) + 1].leaf /\ grown[Len(tree) + 2].leaf
    BY <1>10, SplitIs
  <2> QED BY <1>3, <1>9a, <2>1
<1>12. PICK a \in GrowNodes, b \in GrowNodes :
         /\ Children(l, left, right) = {a, b}
         /\ a.node = N + 1 /\ a.rows = left /\ a.depth = l.depth + 1 /\ HoldsCounts(a.hist, left)
         /\ b.node = N + 2 /\ b.rows = right /\ b.depth = l.depth + 1 /\ HoldsCounts(b.hist, right)
  BY <1>3, <1>5, ChildrenAre
<1>13. leaves' = (leaves \ {l}) \cup {a, b}
  BY <1>12
<1>14. \A k \in leaves \ {l} : k.node \in 1..N /\ k.node # l.node /\ tree'[k.node].leaf
  <2>1. SUFFICES ASSUME NEW k \in leaves \ {l}
                 PROVE  k.node \in 1..N /\ k.node # l.node /\ tree'[k.node].leaf
    OBVIOUS
  <2>2. k.node \in 1..N /\ tree[k.node].leaf
    BY <1>3 DEF TreesInv, LeavesApart
  <2>3. k.node # l.node
    BY DEF TreesInv, LeavesApart
  <2> QED BY <1>11, <2>2, <2>3
<1>15. TreesTypeOK'
  <2>1. Closed(tree)'
    BY <1>11 DEF Closed
  <2>2. leaves' \subseteq GrowNodes'
    BY <1>1, <1>2, <1>12, <1>13
  <2> QED BY <1>1, <1>2, <1>11, <2>1, <2>2 DEF TreesTypeOK
<1>16. LeavesApart'
  <2>1. \A k \in leaves' : k.node \in DOMAIN tree' /\ tree'[k.node].leaf
    <3>1. \A n \in 1..N : n \in 1..(N + 2)
      BY <1>3
    <3>2. N + 1 \in 1..(N + 2) /\ N + 2 \in 1..(N + 2)
      BY <1>3
    <3> QED BY <1>11, <1>12, <1>13, <1>14, <3>1, <3>2
  <2>2. N + 1 # N + 2 /\ N + 1 \notin 1..N /\ N + 2 \notin 1..N
    BY <1>3
  <2>3. ASSUME NEW k \in leaves', NEW j \in leaves', j.node = k.node PROVE j = k
    <3>1. CASE k = a \/ k = b
      <4>1. j = a \/ j = b
        BY <1>12, <1>13, <1>14, <2>2, <2>3, <3>1
      <4> QED BY <1>12, <2>2, <2>3, <3>1, <4>1
    <3>2. CASE k # a /\ k # b
      <4>1. k \in leaves \ {l} /\ j \in leaves \ {l}
        BY <1>12, <1>13, <1>14, <2>2, <2>3, <3>2
      <4> QED BY <2>3, <4>1 DEF TreesInv, LeavesApart
    <3> QED BY <3>1, <3>2
  <2> QED BY <2>1, <2>3 DEF LeavesApart
<1>17. ASSUME NEW i \in l.rows PROVE Branch(r, Row(i)) = IF i \in left THEN N + 1 ELSE N + 2
  <2>1. i \in Rows
    BY <1>4
  <2>2. Row(i)[r.feature] = data[s.feature][i]
    BY <1>7, <1>9 DEF Row
  <2>3. PICK v : v = data[s.feature][i]
    OBVIOUS
  <2>4. Left(r, r.feature, v) = Left(s, s.feature, v)
    BY <1>9 DEF Left
  <2>5. GoesLeft(s, bins[s.feature][i]) = Left(s, s.feature, v)
    BY <1>7, <2>1, <2>3
  <2>6. i \in left <=> GoesLeft(s, bins[s.feature][i])
    OBVIOUS
  <2>7. Branch(r, Row(i)) = IF Left(r, r.feature, v) THEN N + 1 ELSE N + 2
    BY <1>9, <2>2, <2>3 DEF Branch
  <2>8. CASE i \in left
    <3>1. Left(r, r.feature, v)
      BY <2>4, <2>5, <2>6, <2>8
    <3> QED BY <2>7, <2>8, <3>1
  <2>9. CASE i \notin left
    <3>1. ~Left(r, r.feature, v)
      BY <2>4, <2>5, <2>6, <2>9
    <3> QED BY <2>7, <2>9, <3>1
  <2> QED BY <2>8, <2>9
<1>18. \A k \in leaves : \A i \in k.rows : LeadsTo(tree, Row(i), k.node)
  BY DEF TreesInv, RowsLead
<1>19. RowsLead'
  <2>1. ASSUME NEW i \in Rows PROVE Readable(grown, Row(i))
    <3>1. Readable(tree, Row(i))
      BY <2>1 DEF TreesInv, RowsLead
    <3> QED BY <1>10, <3>1, SplitReads
  <2>2. ASSUME NEW k \in leaves \ {l}, NEW i \in k.rows PROVE LeadsTo(grown, Row(i), k.node)
    <3>1. k.node \in DOMAIN tree /\ LeadsTo(tree, Row(i), k.node)
      BY <1>3, <1>14, <1>18, <2>2
    <3> QED BY <1>10, <3>1, SplitLeads
  <2>3. ASSUME NEW i \in l.rows PROVE LeadsTo(grown, Row(i), Branch(r, Row(i)))
    <3>1. LeadsTo(tree, Row(i), l.node)
      BY <1>18, <2>3
    <3> QED BY <1>10, <3>1, SplitLeads
  <2>4. ASSUME NEW i \in left PROVE LeadsTo(grown, Row(i), N + 1)
    <3>1. i \in l.rows
      BY <1>5, <2>4
    <3>2. Branch(r, Row(i)) = N + 1
      BY <1>17, <2>4, <3>1
    <3>3. LeadsTo(grown, Row(i), Branch(r, Row(i)))
      BY <2>3, <3>1
    <3> QED BY <3>2, <3>3
  <2>5. ASSUME NEW i \in right PROVE LeadsTo(grown, Row(i), N + 2)
    <3>1. i \in l.rows /\ i \notin left
      BY <2>5
    <3>2. Branch(r, Row(i)) = N + 2
      BY <1>17, <3>1
    <3>3. LeadsTo(grown, Row(i), Branch(r, Row(i)))
      BY <2>3, <3>1
    <3> QED BY <3>2, <3>3
  <2>6. \A k \in leaves' : \A i \in k.rows : LeadsTo(grown, Row(i), k.node)
    BY <1>12, <1>13, <2>2, <2>4, <2>5
  <2> QED BY <1>2, <1>9a, <2>1, <2>6 DEF RowsLead
<1>20. LeafCounts'
  <2>1. ASSUME NEW k \in leaves'
        PROVE  HoldsCounts(k.hist, k.rows) /\ (k.depth > 0 => Cardinality(k.rows) >= MinDataInLeaf)
    BY <1>5, <1>12, <1>13, <2>1 DEF TreesInv, LeafCounts
  <2>2. \A k \in leaves' : \A f \in feats', c \in Bins : k.hist[f][c] = Count(k.rows, f, c)
    BY <2>1 DEF HoldsCounts
  <2>3. \A k \in leaves' : \A f \in feats', c \in Bins : k.hist[f][c] = Count(k.rows, f, c)'
    BY <1>2, <2>2
  <2> QED BY <2>1, <2>3 DEF LeafCounts, HoldsCounts
<1>21. BestSoFar'
  BY DEF TreesInv, BestSoFar
<1> QED BY <1>15, <1>16, <1>19, <1>20, <1>21 DEF TreesInv

LEMMA GrowKeeps == FewCategories /\ TreesInv /\ Grow => TreesInv'
<1> SUFFICES ASSUME FewCategories, TreesInv, Grow PROVE TreesInv'
  OBVIOUS
<1>1. SameData /\ feats' = feats /\ losses' = losses /\ best' = best
  BY DEF Grow, SameData
<1>2. PICK l \in leaves : \E s \in Cuts(l) :
        LET left == {i \in l.rows : GoesLeft(s, bins[s.feature][i])}
            right == l.rows \ left
        IN IF ~Enough(Cardinality(left), Cardinality(right))
           THEN /\ leaves' = (leaves \ {l}) \cup {[l EXCEPT !.closed = TRUE]}
                /\ UNCHANGED <<tree, pool>>
           ELSE /\ leaves' = (leaves \ {l}) \cup Children(l, left, right)
                /\ tree' = [tree EXCEPT ![l.node] =
                     [leaf |-> FALSE, feature |-> s.feature,
                      threshold |-> s.threshold, leftCats |-> s.leftCats,
                      defaultLeft |-> s.defaultLeft,
                      left |-> Len(tree) + 1, right |-> Len(tree) + 2]]
                     \o <<LeafNode, LeafNode>>
                /\ pool' = Append(Rest(Rest(pool)), l.hist)
  BY DEF Grow
<1>3. PICK s \in Cuts(l) :
        LET left == {i \in l.rows : GoesLeft(s, bins[s.feature][i])}
            right == l.rows \ left
        IN IF ~Enough(Cardinality(left), Cardinality(right))
           THEN /\ leaves' = (leaves \ {l}) \cup {[l EXCEPT !.closed = TRUE]}
                /\ tree' = tree
           ELSE /\ leaves' = (leaves \ {l}) \cup Children(l, left, right)
                /\ tree' = [tree EXCEPT ![l.node] =
                     [leaf |-> FALSE, feature |-> s.feature,
                      threshold |-> s.threshold, leftCats |-> s.leftCats,
                      defaultLeft |-> s.defaultLeft,
                      left |-> Len(tree) + 1, right |-> Len(tree) + 2]]
                     \o <<LeafNode, LeafNode>>
  BY <1>2
<1>4. PICK left : left = {i \in l.rows : GoesLeft(s, bins[s.feature][i])}
  OBVIOUS
<1>5. PICK right : right = l.rows \ left
  OBVIOUS
<1>6. CASE ~Enough(Cardinality(left), Cardinality(right))
  <2>1. leaves' = (leaves \ {l}) \cup {[l EXCEPT !.closed = TRUE]} /\ tree' = tree
    BY <1>3, <1>4, <1>5, <1>6
  <2> QED BY <1>1, <2>1, CloseKeeps
<1>7. CASE Enough(Cardinality(left), Cardinality(right))
  <2>1. /\ leaves' = (leaves \ {l}) \cup Children(l, left, right)
        /\ tree' = [tree EXCEPT ![l.node] =
             [leaf |-> FALSE, feature |-> s.feature,
              threshold |-> s.threshold, leftCats |-> s.leftCats,
              defaultLeft |-> s.defaultLeft,
              left |-> Len(tree) + 1, right |-> Len(tree) + 2]]
             \o <<LeafNode, LeafNode>>
    BY <1>3, <1>4, <1>5, <1>7
  <2> QED BY <1>1, <1>4, <1>5, <1>7, <2>1, CutKeeps
<1> QED BY <1>6, <1>7

\* A tree is read as it was grown: a training row falls, by its raw values, in the
\* leaf the growth put it in by its bins, every histogram holds the counts of
\* its rows though its buffer is recycled or its counts deduced, and the trees
\* kept are those of the first of the best rounds (gbdt.go, tree.go, train.go).
\* Categories past MaxBins, if any, are the one case it does not hold in: they
\* train as missing values and are read as known ones.
THEOREM TreesReadAsGrown == FewCategories => (TreesSpec => []TreesHold)
<1>1. TreesInit => TreesInv
  BY TreesInvInit
<1>2. FewCategories /\ TreesInv /\ [TreesNext]_treesVars => TreesInv'
  <2> SUFFICES ASSUME FewCategories, TreesInv, [TreesNext]_treesVars PROVE TreesInv'
    OBVIOUS
  <2>1. CASE NewTree
    BY <2>1, NewTreeKeeps
  <2>2. CASE Grow
    BY <2>2, GrowKeeps
  <2>3. CASE EndTree
    BY <2>3, EndTreeKeeps
  <2>4. CASE Cancel \/ UNCHANGED treesVars
    <3>1. /\ SameData /\ tree' = tree /\ leaves' = leaves /\ feats' = feats
          /\ losses' = losses /\ best' = best
      BY <2>4 DEF Cancel, treesVars, SameData
    <3>2. Binned
      BY DEF TreesInv, TreesTypeOK
    <3>3. /\ Binned' /\ Rows' = Rows /\ \A i : Row(i)' = Row(i)
          /\ \A rows, f, b : Count(rows, f, b)' = Count(rows, f, b)
          /\ GrowNodes' = GrowNodes
      BY <3>1, <3>2, DataStays
    <3>4. TreesTypeOK'
      BY <3>1, <3>3 DEF TreesInv, TreesTypeOK
    <3>5. LeavesApart' /\ BestSoFar'
      BY <3>1 DEF TreesInv, LeavesApart, BestSoFar
    <3>6. RowsLead'
      BY <3>1, <3>3 DEF TreesInv, RowsLead
    <3>7. LeafCounts'
      BY <3>1, <3>3 DEF TreesInv, LeafCounts, HoldsCounts
    <3> QED BY <3>4, <3>5, <3>6, <3>7 DEF TreesInv
  <2> QED BY <2>1, <2>2, <2>3, <2>4 DEF TreesNext
<1>3. TreesInv => TreesHold
  BY TreesInvImplies
<1>4. SUFFICES ASSUME FewCategories PROVE TreesSpec => []TreesHold
  OBVIOUS
<1>5. TreesInv /\ [TreesNext]_treesVars => TreesInv'
  BY <1>2, <1>4
<1> QED BY <1>1, <1>3, <1>5, PTL DEF TreesSpec
=============================================================================

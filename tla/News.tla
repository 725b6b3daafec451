---------------------------------- MODULE News ----------------------------------
(***************************************************************************)
(* The archive of the economic calendar (internal/news): one file per      *)
(* week, the writers that fill it, the filter that each process publishes. *)
(*                                                                         *)
(* `gw` refreshes it while it is connected, in a goroutine per session     *)
(* that may overlap the next one's, and `gw news` writes it meanwhile: no  *)
(* lock holds between processes.  The file being written has one name per  *)
(* week, so two writers may write the same one.                            *)
(*                                                                         *)
(* What a source says of a week is numbered; 0 would be a week it declares *)
(* covered and has nothing for.                                            *)
(***************************************************************************)
EXTENDS Integers, FiniteSets, FiniteSetsExt

CONSTANTS
    Writers,    \* [process, importer: `gw news import`]
    Weeks,      \* numbered
    MaxBatches, \* bound on what is fetched or imported
    NoNews

ASSUME NewsAssumption ==
    /\ Weeks \subseteq Nat /\ IsFiniteSet(Weeks)
    /\ IsFiniteSet(DOMAIN Writers)
    /\ NoNews \notin Int

Processes == {Writers[w].process : w \in DOMAIN Writers}
Torn == -1   \* cut, or longer than what was written last: not JSON

VARIABLES
    week,    \* the week that the feed is about
    content, \* per file, what it holds
    named,   \* per week, the file that bears its name, or NoNews
    tmp,     \* per week, the file that bears its temporary name, or NoNews
    writer,
    gate,    \* per process, what its filter holds of each week; NoNews: not covered
    batches, \* what has been fetched or imported
    said     \* ghost: per week, what a source has ever said of it

newsVars == <<week, content, named, tmp, writer, gate, batches, said>>

Inodes == 1..(Cardinality(Weeks) * (Cardinality(DOMAIN Writers) + 1))
IdleWriter == [pc |-> "idle", batch |-> <<>>, at |-> 0, file |-> NoNews]
NoWeeks == [w \in Weeks |-> NoNews]

NewsInit ==
    /\ week \in Weeks
    /\ content = [i \in Inodes |-> Torn]
    /\ named = NoWeeks /\ tmp = NoWeeks
    /\ writer = [w \in DOMAIN Writers |-> IdleWriter]
    /\ gate = [p \in Processes |-> NoWeeks]
    /\ batches = 0 /\ said = [w \in Weeks |-> {}]

Turn(x, r) == writer' = [writer EXCEPT ![x] = r]
Linked == {named[w] : w \in Weeks} \cup {tmp[w] : w \in Weeks}
          \cup {writer[x].file : x \in DOMAIN Writers}

\* The week passes: the feed is about the next one.
NextWeek ==
    /\ week + 1 \in Weeks /\ week' = week + 1
    /\ UNCHANGED <<content, named, tmp, writer, gate, batches, said>>

\* WeeksOf: the weeks that hold an announcement.
WeeksOf(events) == events

\* Fetch, or the file to import: a source says something of some weeks, the feed
\* of one.  What cannot be read, or is empty, is refused.
Fetch(x) ==
    /\ writer[x].pc = "idle" /\ batches < MaxBatches
    /\ batches' = batches + 1
    /\ \E events \in IF Writers[x].importer THEN (SUBSET Weeks) \ {{}} ELSE {{week}} :
         /\ Turn(x, [pc |-> "save", at |-> Min(events), file |-> NoNews,
                     batch |-> [w \in WeeksOf(events) |-> IF w \in events THEN batches' ELSE 0]])
         /\ said' = [w \in Weeks |-> IF w \in events THEN said[w] \cup {batches'} ELSE said[w]]
    /\ UNCHANGED <<week, content, named, tmp, gate>>

\* Save, week by week: the temporary file is opened and emptied.
OpenTemp(x) ==
    LET w == writer[x].at IN
    /\ writer[x].pc = "save"
    /\ \E i \in IF tmp[w] # NoNews THEN {tmp[w]} ELSE {Min(Inodes \ Linked)} :
         /\ tmp' = [tmp EXCEPT ![w] = i]
         /\ content' = [content EXCEPT ![i] = Torn]
         /\ Turn(x, [writer[x] EXCEPT !.pc = "write", !.file = i])
    /\ UNCHANGED <<week, named, gate, batches, said>>

\* A file that another writer has written since may be longer: it keeps a tail.
Write(x) ==
    LET i == writer[x].file IN
    /\ writer[x].pc = "write"
    /\ \E now \in {writer[x].batch[writer[x].at]} \cup (IF content[i] # Torn THEN {Torn} ELSE {}) :
         content' = [content EXCEPT ![i] = now]
    /\ Turn(x, [writer[x] EXCEPT !.pc = "rename", !.file = NoNews])
    /\ UNCHANGED <<week, named, tmp, gate, batches, said>>

\* The rename; the temporary file may have gone with another writer.  A failure
\* leaves the weeks that follow unwritten, and the filter as it was.
Rename(x) ==
    LET w == writer[x].at
        later == {v \in DOMAIN writer[x].batch : v > w}
    IN  /\ writer[x].pc = "rename"
        /\ IF tmp[w] = NoNews THEN Turn(x, IdleWriter) /\ UNCHANGED <<named, tmp>>
           ELSE /\ named' = [named EXCEPT ![w] = tmp[w]]
                /\ tmp' = [tmp EXCEPT ![w] = NoNews]
                /\ Turn(x, IF later = {} THEN [IdleWriter EXCEPT !.pc = "reload"]
                             ELSE [writer[x] EXCEPT !.pc = "save", !.at = Min(later)])
        /\ UNCHANGED <<week, content, gate, batches, said>>

\* The disk refuses, or the source does not answer.
Fail(x) ==
    /\ writer[x].pc \in {"save", "write"}
    /\ Turn(x, IdleWriter)
    /\ UNCHANGED <<week, content, named, tmp, gate, batches, said>>

Archived(w) == IF named[w] = NoNews THEN NoNews ELSE content[named[w]]
Unreadable == \E w \in Weeks : Archived(w) = Torn

\* The mutant: a week that cannot be read is covered all the same.
LoadAnyway == [w \in Weeks |-> Archived(w)]

\* Load: one file that cannot be read is an error, and the filter covers nothing.
LoadArchive == IF Unreadable THEN NoWeeks ELSE [w \in Weeks |-> Archived(w)]

ReloadFilter(x) ==
    /\ writer[x].pc = "reload"
    /\ gate' = [gate EXCEPT ![Writers[x].process] = LoadArchive]
    /\ Turn(x, IdleWriter)
    /\ UNCHANGED <<week, content, named, tmp, batches, said>>

\* A process starts, with the archive it finds, or is killed and starts again.
Restart(p) ==
    /\ gate' = [gate EXCEPT ![p] = LoadArchive]
    /\ writer' = [x \in DOMAIN Writers |-> IF Writers[x].process = p THEN IdleWriter ELSE writer[x]]
    /\ UNCHANGED <<week, content, named, tmp, batches, said>>

NewsNext ==
    \/ NextWeek
    \/ \E x \in DOMAIN Writers :
         Fetch(x) \/ OpenTemp(x) \/ Write(x) \/ Rename(x) \/ Fail(x) \/ ReloadFilter(x)
    \/ \E p \in Processes : Restart(p)

NewsSpec == NewsInit /\ [][NewsNext]_newsVars

-----------------------------------------------------------------------------
(* Properties *)

\* A week that a filter covers holds what a source said of that week, whole: not
\* half a file, and not a week of which nothing was said (archive.go:50,
\* forexfactory.go:101).
CoveredIsKnown ==
    \A p \in Processes, w \in Weeks : gate[p][w] # NoNews => gate[p][w] \in said[w]
=============================================================================

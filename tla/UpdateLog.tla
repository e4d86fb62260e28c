----------------------------- MODULE UpdateLog -----------------------------
(***************************************************************************)
(* The update log of `updaterd`: one JSON object per line, appended and    *)
(* synced, cut back to a capacity by write-and-rename, read leniently, and *)
(* scanned for the releases that were last rolled back.  A power cut in an *)
(* append leaves any part of the line behind, the newline included or not, *)
(* and a part that ends inside a character makes the file no text at all.  *)
(***************************************************************************)
EXTENDS Naturals, Sequences, FiniteSets, SequencesExt

CONSTANTS
    Version,      \* what `to` of an entry names
    Unnamed,      \* `to` of an operation that failed before it chose a release
    Capacity,     \* LOG_CAPACITY
    MaxAppends,   \* bound: appends attempted
    MaxCuts       \* bound: power cuts

ASSUME UpdateLogAssumption ==
    Unnamed \notin Version /\ Capacity \in Nat \ {0} /\ MaxAppends \in Nat /\ MaxCuts \in Nat

Outcome == {"Success", "RolledBack", "Aborted"}
Junk    == [n |-> 0, to |-> Unnamed, outcome |-> "none"]   \* a line that does not parse

VARIABLES
    lines,     \* the file, an entry or Junk per line
    unended,   \* its last line has no newline
    garbled,   \* it is not UTF-8: reading any of it is an error
    at,        \* "idle", or "trim" between an append and the end of its trim
    acked,     \* the entries whose append was synced
    next,      \* the number of the next append
    cuts       \* power cuts so far

logVars == <<lines, unended, garbled, at, acked, next, cuts>>

\* An operation that succeeded names its release.
Entry(n) == {e \in [n : {n}, to : Version \cup {Unnamed}, outcome : Outcome] :
                e.outcome = "Success" => e.to # Unnamed}
Entries  == UNION {Entry(n) : n \in 1..MaxAppends}

IsEntry(line) == line # Junk

\* The lines of a file that parse, in their order.
Parsed(file) ==
    LET upTo[i \in 0..Len(file)] == IF i = 0 THEN <<>>
                                    ELSE IF IsEntry(file[i]) THEN Append(upTo[i - 1], file[i])
                                    ELSE upTo[i - 1]
    IN  upTo[Len(file)]

\* The unattended updates and recovery take the error for an empty log.
ReadAll == IF garbled THEN <<>> ELSE Parsed(lines)

LogTypeOK ==
    /\ lines \in Seq(Entries \cup {Junk})
    /\ unended \in BOOLEAN /\ garbled \in BOOLEAN
    /\ at \in {"idle", "trim"}
    /\ acked \subseteq Entries
    /\ next \in 1..MaxAppends + 1
    /\ cuts \in 0..MaxCuts

LogInit ==
    /\ lines = <<>> /\ unended = FALSE /\ garbled = FALSE
    /\ at = "idle" /\ acked = {} /\ next = 1 /\ cuts = 0

-----------------------------------------------------------------------------
(* Journal::append.                                                        *)

\* Written after an unended line, the two make one line that does not parse.
Written(line) == IF unended THEN Append(Front(lines), Junk) ELSE Append(lines, line)

Attempt(entry) ==
    /\ at = "idle"
    /\ next \in 1..MaxAppends
    /\ entry \in Entry(next)
    /\ next' = next + 1

Appended(entry) ==
    /\ Attempt(entry)
    /\ lines' = Written(entry)
    /\ unended' = FALSE
    /\ acked' = acked \cup {entry}
    /\ at' = "trim"
    /\ UNCHANGED <<garbled, cuts>>

\* The power fails before the sync: the whole line is on disk, or all but its
\* newline, or a piece that does not parse.  Only a reason holds characters of
\* more than one byte, and a success has none.
CutAppend(entry) ==
    /\ cuts < MaxCuts /\ cuts' = cuts + 1
    /\ Attempt(entry)
    /\ \/ lines' = Written(entry) /\ unended' \in BOOLEAN /\ UNCHANGED garbled
       \/ lines' = Written(Junk) /\ unended' = TRUE
          /\ garbled' \in {garbled} \cup {g \in {TRUE} : entry.outcome # "Success"}
    /\ UNCHANGED <<at, acked>>

\* Faults, for testing the properties: the oldest are kept, or one too many.
Oldest(log)        == SubSeq(log, 1, Capacity)
NewestAndOne(log)  == SubSeq(log, Len(log) - Capacity, Len(log))
Newest(log) == SubSeq(log, Len(log) - Capacity + 1, Len(log))

\* Counted in entries that parse; the rewritten file holds nothing else.
Trim ==
    /\ at = "trim"
    /\ lines' = IF Len(ReadAll) <= Capacity THEN lines ELSE Newest(ReadAll)
    /\ at' = "idle"
    /\ UNCHANGED <<unended, garbled, acked, next, cuts>>

\* Interrupted before the rename: the untrimmed file stays.
CutTrim ==
    /\ cuts < MaxCuts /\ cuts' = cuts + 1
    /\ at = "trim"
    /\ at' = "idle"
    /\ UNCHANGED <<lines, unended, garbled, acked, next>>

Done == next > MaxAppends /\ at = "idle" /\ UNCHANGED logVars

LogNext ==
    \/ \E entry \in Entry(next) : Appended(entry) \/ CutAppend(entry)
    \/ Trim \/ CutTrim \/ Done

LogSpec == LogInit /\ [][LogNext]_logVars

-----------------------------------------------------------------------------
(* Journal::known_bad: newest first, the first outcome seen of a version    *)
(* decides.                                                                 *)

\* Fault: failed once is failed for ever.
ScanEverFailed(entry, acc) ==
    IF entry.to # Unnamed /\ entry.outcome = "RolledBack"
    THEN [acc EXCEPT !.bad = @ \cup {entry.to}] ELSE acc

Scan(entry, acc) ==
    IF entry.to = Unnamed \/ entry.to \in acc.seen THEN acc
    ELSE [seen |-> acc.seen \cup {entry.to},
          bad  |-> IF entry.outcome = "RolledBack" THEN acc.bad \cup {entry.to} ELSE acc.bad]

NothingSeen == [seen |-> {}, bad |-> {}]

\* Fault: read oldest first.
KnownBadOldestFirst(log) == FoldRight(Scan, Reverse(log), NothingSeen).bad
KnownBad(log) == FoldRight(Scan, log, NothingSeen).bad

-----------------------------------------------------------------------------
(* Properties.                                                             *)

\* The releases held bad are those whose latest readable outcome is a rollback:
\* an earlier failure is forgiven by a later success, and the other way round.
LatestIsHeld ==
    KnownBad(ReadAll) =
        {v \in Version : \E i \in DOMAIN ReadAll :
            /\ ReadAll[i].to = v /\ ReadAll[i].outcome = "RolledBack"
            /\ \A j \in DOMAIN ReadAll : ReadAll[j].to = v => j <= i}

Readable      == {ReadAll[i] : i \in DOMAIN ReadAll}
Trimmed(entry) == Len(ReadAll) >= Capacity /\ \A e \in Readable : e.n > entry.n
Lost          == {entry \in acked : entry \notin Readable /\ ~Trimmed(entry)}

\* Whatever the power does, a cut costs at most one entry that was synced, and
\* what is read is in the order it was written -- as long as no cut fell inside
\* a character: then all of it is lost.
LossIsBounded ==
    /\ garbled \/ Cardinality(Lost) <= cuts
    /\ \A i, j \in DOMAIN ReadAll : i < j => ReadAll[i].n < ReadAll[j].n

\* The log grows past its capacity only by appends whose trim was cut off.
LogIsBounded == at = "idle" => Len(ReadAll) <= Capacity + cuts

\* Cutting the log back may forget a release that failed; it never blames one.
TrimBlamesNobody ==
    at = "trim" => KnownBad(ReadAll') \subseteq KnownBad(ReadAll)

\* Nothing is lost but what a cut or the capacity took, and nothing piles up.
LogIsSound == LossIsBounded /\ LogIsBounded

\* On a file of text that ends in a newline, an append changes the releases held bad as
\* an operation's record does: to the outcome it reports, for that release alone.
AppendIsRecord ==
    \A entry \in acked' \ acked :
        ~unended /\ ~garbled =>
            KnownBad(ReadAll') =
                IF entry.outcome = "RolledBack" THEN KnownBad(ReadAll) \cup ({entry.to} \ {Unnamed})
                ELSE KnownBad(ReadAll) \ {entry.to}

\* What the log says of a release is its latest outcome: an append is what changes it,
\* and a trim does only by forgetting.
KnownBadIsLatest == [][LatestIsHeld' /\ AppendIsRecord /\ TrimBlamesNobody]_logVars
=============================================================================

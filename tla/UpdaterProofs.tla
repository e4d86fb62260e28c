--------------------------- MODULE UpdaterProofs ---------------------------
(***************************************************************************)
(* What is proved of Updater for every set of releases, every configuration *)
(* and every combination of operations, faults and circumstances; and,     *)
(* before it, of UpdateLog, for every capacity and number of power cuts.   *)
(* The two share no variable: Updater sees of the log what it holds bad.   *)
(***************************************************************************)
EXTENDS Updater, UpdateLog, FiniteSetTheorems, SequenceTheorems, WellFoundedInduction, TLAPS

\* What a line of the file can be.
Line == Entries \cup {Junk}

\* What is read of the lines that end in a newline: the next append spoils no other.
Firm == Parsed(IF unended THEN Front(lines) ELSE lines)

\* Oldest first.
InOrder(log) == \A i, j \in DOMAIN log : i < j => log[i].n < log[j].n

\* An entry that is read and has no newline is the newest, and was never synced.
FileOK ==
    /\ at = "trim" => ~unended
    /\ unended => lines # <<>>
    /\ IsFiniteSet(acked) /\ \A e \in acked : e.n < next
    /\ InOrder(Firm)
    /\ \A e \in Range(Firm) : e.n < next
    /\ \/ Parsed(lines) = Firm
       \/ \E e \in Entries :
            /\ Parsed(lines) = Append(Firm, e) /\ e.n < next
            /\ \A x \in Range(Firm) \cup acked : x.n < e.n

\* What is not on an ended line, nor older than a full log of those.
Gone == {e \in acked : /\ e \notin Range(Firm)
                       /\ ~(Len(Firm) >= Capacity /\ \A x \in Range(Firm) : x.n > e.n)}

\* The cut that left the last line unended has not cost its entry yet.
CountOK ==
    /\ Cardinality(Gone) + (IF unended THEN 1 ELSE 0) <= cuts
    /\ garbled \/ Len(Parsed(lines)) <= Capacity + cuts + (IF at = "trim" THEN 1 ELSE 0)

\* The inductive invariant of the file.
LogInv == LogTypeOK /\ FileOK /\ CountOK

\* What the assumption says, conjunct by conjunct.
LEMMA LogConstants ==
  /\ Unnamed \notin Version /\ Capacity \in Nat /\ Capacity >= 1
  /\ MaxAppends \in Nat /\ MaxCuts \in Nat
BY UpdateLogAssumption DEF UpdateLogAssumption

\* The order of the numbers, as the library's theorems take it.
Less == {p \in Nat \X Nat : p[1] < p[2]}

\* Induction here is by the least number for which what is to be shown fails.
LEMMA LeastNat ==
  ASSUME NEW S, S \subseteq Nat, S # {}
  PROVE  \E x \in S : \A y \in S : x <= y
<1>0. IsWellFoundedOn(Less, Nat)
  BY NatLessThanWellFounded, Zenon DEF OpToRel, Less
<1>1. PICK x \in S : \A y \in S : <<y, x>> \notin Less
  BY <1>0, WFMin, Zenon
<1>2. ASSUME NEW y \in S PROVE x <= y
  <2>1. x \in Nat /\ y \in Nat
    OBVIOUS
  <2>2. y < x => <<y, x>> \in Less
    BY <2>1 DEF Less
  <2> QED BY <1>1, <2>1, <2>2
<1> QED BY <1>2

-----------------------------------------------------------------------------
(* What is parsed.                                                         *)

\* f holds what has been read after each line.
Reads(f, file, n) ==
    f = [i \in 0..n |-> IF i = 0 THEN <<>>
                        ELSE IF IsEntry(file[i]) THEN Append(f[i - 1], file[i])
                        ELSE f[i - 1]]

\* The parse of a file, line by line.
LEMMA ReadsSteps ==
  ASSUME NEW file, NEW n \in Nat, NEW f, Reads(f, file, n)
  PROVE  /\ \A i \in 0..n : f[i] = IF i = 0 THEN <<>>
                                   ELSE IF IsEntry(file[i]) THEN Append(f[i - 1], file[i])
                                   ELSE f[i - 1]
         /\ f[0] = <<>>
         /\ \A i \in 1..n : f[i] = IF IsEntry(file[i]) THEN Append(f[i - 1], file[i]) ELSE f[i - 1]
<1> DEFINE body(i) == IF i = 0 THEN <<>>
                      ELSE IF IsEntry(file[i]) THEN Append(f[i - 1], file[i])
                      ELSE f[i - 1]
<1>1. f = [i \in 0..n |-> body(i)]
  BY DEF Reads
<1> HIDE DEF body
<1>2. \A i \in 0..n : f[i] = body(i)
  BY <1>1
<1>3. f[0] = <<>>
  BY <1>2 DEF body
<1>4. ASSUME NEW i \in 1..n
      PROVE  f[i] = IF IsEntry(file[i]) THEN Append(f[i - 1], file[i]) ELSE f[i - 1]
  <2>1. f[i] = body(i) /\ i # 0
    BY <1>2
  <2> QED BY <2>1, Zenon DEF body
<1> QED BY <1>2, <1>3, <1>4, Zenon DEF body

\* There is one for every length.
LEMMA ReadsExists ==
  ASSUME NEW file, NEW n \in Nat
  PROVE  \E f : Reads(f, file, n)
<1> DEFINE Amiss == {m \in Nat : ~\E f : Reads(f, file, m)}
<1> SUFFICES ASSUME Amiss # {} PROVE FALSE
  OBVIOUS
<1>1. PICK m \in Amiss : \A k \in Amiss : m <= k
  <2>1. Amiss \subseteq Nat
    OBVIOUS
  <2> HIDE DEF Amiss
  <2> QED BY <2>1, LeastNat
<1>2. m # 0
  <2>1. Reads([i \in 0..0 |-> <<>>], file, 0)
    BY DEF Reads
  <2> QED BY <2>1
<1>3. m - 1 \in Nat /\ m - 1 \notin Amiss
  BY <1>1, <1>2
<1>4. PICK f : Reads(f, file, m - 1)
  BY <1>3
<1>5. \A i \in 0..m - 1 : f[i] = IF i = 0 THEN <<>>
                                 ELSE IF IsEntry(file[i]) THEN Append(f[i - 1], file[i])
                                 ELSE f[i - 1]
  BY <1>3, <1>4, ReadsSteps
<1> DEFINE body(i) == IF i = 0 THEN <<>>
                      ELSE IF IsEntry(file[i]) THEN Append(f[i - 1], file[i])
                      ELSE f[i - 1]
           g == [i \in 0..m |-> body(i)]
           next_(i) == IF i = 0 THEN <<>>
                       ELSE IF IsEntry(file[i]) THEN Append(g[i - 1], file[i])
                       ELSE g[i - 1]
<1>6. Reads(g, file, m)
  <2>1. \A i \in 0..m - 1 : f[i] = body(i)
    BY <1>5
  <2> HIDE DEF body
  <2>2. \A i \in 0..m - 1 : g[i] = f[i]
    BY <1>3, <2>1
  <2> HIDE DEF g
  <2>3. \A i \in 1..m : i - 1 \in 0..m - 1 /\ g[i - 1] = f[i - 1]
    BY <1>3, <2>2
  <2>4. ASSUME NEW i \in 0..m PROVE body(i) = next_(i)
    <3>1. CASE i = 0
      BY <3>1 DEF body
    <3>2. CASE i # 0
      <4>1. g[i - 1] = f[i - 1]
        BY <1>3, <2>3, <3>2
      <4> QED BY <3>2, <4>1, Zenon DEF body
    <3> QED BY <3>1, <3>2
  <2> HIDE DEF next_
  <2>5. g = [i \in 0..m |-> next_(i)]
    BY <2>4, Zenon DEF g
  <2> QED BY <2>5, Zenon DEF Reads, next_
<1> QED BY <1>1, <1>6

\* What it ends with is what Journal::read_all returns.
LEMMA ParsedReads ==
  ASSUME NEW file \in Seq(Line)
  PROVE  \E f : Reads(f, file, Len(file)) /\ Parsed(file) = f[Len(file)]
<1>1. Len(file) \in Nat
  BY LenProperties
<1>2. \E f : Reads(f, file, Len(file))
  BY <1>1, ReadsExists
<1> DEFINE chosen == CHOOSE f : Reads(f, file, Len(file))
<1>3. Parsed(file) = chosen[Len(file)]
  BY DEF Parsed, Reads
<1>4. Reads(chosen, file, Len(file))
  BY <1>2
<1> QED BY <1>3, <1>4

\* A line read after the others is read last, or skipped.
LEMMA ParsedAppend ==
  ASSUME NEW file \in Seq(Line), NEW line \in Line
  PROVE  Parsed(Append(file, line)) =
             IF IsEntry(line) THEN Append(Parsed(file), line) ELSE Parsed(file)
<1> DEFINE n == Len(file)
           more == Append(file, line)
<1>1. n \in Nat /\ more \in Seq(Line) /\ Len(more) = n + 1 /\ more[n + 1] = line
      /\ \A i \in 1..n : more[i] = file[i]
  BY LenProperties
<1>2. PICK f : Reads(f, file, n) /\ Parsed(file) = f[n]
  BY ParsedReads
<1>3. PICK g : Reads(g, more, n + 1) /\ Parsed(more) = g[n + 1]
  BY <1>1, ParsedReads
<1> HIDE DEF n, more
<1>4. /\ f[0] = <<>>
      /\ \A i \in 1..n : f[i] = IF IsEntry(file[i]) THEN Append(f[i - 1], file[i]) ELSE f[i - 1]
  BY <1>1, <1>2, ReadsSteps
<1>5. /\ g[0] = <<>>
      /\ \A i \in 1..n + 1 : g[i] = IF IsEntry(more[i]) THEN Append(g[i - 1], more[i]) ELSE g[i - 1]
  BY <1>1, <1>3, ReadsSteps
<1>6. g[n] = f[n]
  <2> DEFINE Amiss == {i \in 0..n : g[i] # f[i]}
  <2> SUFFICES ASSUME Amiss # {} PROVE FALSE
    BY <1>1
  <2>1. Amiss \subseteq Nat
    OBVIOUS
  <2>2. PICK m \in Amiss : \A k \in Amiss : m <= k
    <3> HIDE DEF Amiss
    <3> QED BY <2>1, LeastNat
  <2>3. m # 0
    BY <1>4, <1>5
  <2>4. m \in 1..n /\ m - 1 \in 0..n /\ m - 1 \notin Amiss
    BY <1>1, <2>2, <2>3
  <2>5. g[m - 1] = f[m - 1]
    BY <2>4
  <2>6. more[m] = file[m] /\ m \in 1..n + 1
    BY <1>1, <2>4
  <2>7. g[m] = f[m]
    BY <1>4, <1>5, <2>4, <2>5, <2>6
  <2> QED BY <2>7
<1>7. g[n + 1] = IF IsEntry(line) THEN Append(g[n], line) ELSE g[n]
  <2>1. n + 1 \in 1..n + 1 /\ (n + 1) - 1 = n
    BY <1>1
  <2> QED BY <1>1, <1>5, <2>1
<1> QED BY <1>2, <1>3, <1>6, <1>7 DEF more

\* An empty file has no entries.
LEMMA ParsedNothing == Parsed(<<>>) = <<>>
<1>1. <<>> \in Seq(Line) /\ Len(<<>>) = 0
  BY EmptySeq
<1>2. PICK f : Reads(f, <<>>, 0) /\ Parsed(<<>>) = f[0]
  BY <1>1, ParsedReads
<1> QED BY <1>2, ReadsSteps

\* What is read are entries.
LEMMA ParsedType ==
  ASSUME NEW file \in Seq(Line)
  PROVE  Parsed(file) \in Seq(Entries)
<1>1. Len(file) \in Nat
  BY LenProperties
<1>2. PICK f : Reads(f, file, Len(file)) /\ Parsed(file) = f[Len(file)]
  BY ParsedReads
<1>3. /\ f[0] = <<>>
      /\ \A i \in 1..Len(file) :
            f[i] = IF IsEntry(file[i]) THEN Append(f[i - 1], file[i]) ELSE f[i - 1]
  BY <1>1, <1>2, ReadsSteps
<1> DEFINE Amiss == {i \in 0..Len(file) : f[i] \notin Seq(Entries)}
<1> SUFFICES ASSUME Amiss # {} PROVE FALSE
  BY <1>1, <1>2
<1>4. PICK m \in Amiss : \A k \in Amiss : m <= k
  <2>1. Amiss \subseteq Nat
    OBVIOUS
  <2> HIDE DEF Amiss
  <2> QED BY <2>1, LeastNat
<1>5. m # 0
  BY <1>3, EmptySeq
<1>6. m \in 1..Len(file) /\ m - 1 \in 0..Len(file) /\ m - 1 \notin Amiss
  BY <1>1, <1>4, <1>5
<1>7. f[m - 1] \in Seq(Entries)
  BY <1>6
<1>8. file[m] \in Line
  BY <1>6, ElementOfSeq
<1>9. IsEntry(file[m]) => file[m] \in Entries
  BY <1>8 DEF Line, IsEntry
<1>10. f[m] \in Seq(Entries)
  <2>1. CASE IsEntry(file[m])
    <3>1. f[m] = Append(f[m - 1], file[m])
      BY <1>3, <1>6, <2>1
    <3> QED BY <1>7, <1>9, <2>1, <3>1, AppendProperties
  <2>2. CASE ~IsEntry(file[m])
    BY <1>3, <1>6, <1>7, <2>2
  <2> QED BY <2>1, <2>2
<1> QED BY <1>10

\* The number of an entry is that of its append, so no entry is junk.
LEMMA EntryIsNotJunk ==
  /\ \A e \in Entries : IsEntry(e) /\ e.n \in Nat /\ e.n >= 1
  /\ ~IsEntry(Junk)
<1>1. ASSUME NEW e \in Entries PROVE e.n \in Nat /\ e.n >= 1
  <2>1. PICK n \in 1..MaxAppends : e \in Entry(n)
    BY DEF Entries
  <2>2. e.n = n
    BY <2>1 DEF Entry
  <2> QED BY <2>2, LogConstants
<1>2. Junk.n = 0
  BY DEF Junk
<1> QED BY <1>1, <1>2 DEF IsEntry

\* A file that was rewritten is read as it is.
LEMMA ParsedEntries ==
  ASSUME NEW log \in Seq(Entries)
  PROVE  Parsed(log) = log
<1>1. log \in Seq(Line) /\ Len(log) \in Nat
  BY SeqMonotonic, LenProperties DEF Line
<1>2. PICK f : Reads(f, log, Len(log)) /\ Parsed(log) = f[Len(log)]
  BY <1>1, ParsedReads
<1>3. /\ f[0] = <<>>
      /\ \A i \in 1..Len(log) : f[i] = Append(f[i - 1], log[i])
  <2>1. \A i \in 1..Len(log) : IsEntry(log[i])
    BY EntryIsNotJunk, ElementOfSeq
  <2>2. f[0] = <<>> /\ \A i \in 1..Len(log) :
            f[i] = IF IsEntry(log[i]) THEN Append(f[i - 1], log[i]) ELSE f[i - 1]
    BY <1>1, <1>2, ReadsSteps
  <2> QED BY <2>1, <2>2
<1> DEFINE Amiss == {i \in 0..Len(log) : f[i] # SubSeq(log, 1, i)}
<1>4. Amiss = {}
  <2> SUFFICES ASSUME Amiss # {} PROVE FALSE
    OBVIOUS
  <2>1. PICK m \in Amiss : \A k \in Amiss : m <= k
    <3>1. Amiss \subseteq Nat
      OBVIOUS
    <3> HIDE DEF Amiss
    <3> QED BY <3>1, LeastNat
  <2>2. m # 0
    <3>1. SubSeq(log, 1, 0) = <<>>
      BY SubSeqEmpty
    <3> QED BY <1>3, <3>1
  <2>3. m \in 1..Len(log) /\ m - 1 \in 0..Len(log) /\ m - 1 \notin Amiss
    BY <1>1, <2>1, <2>2
  <2>4. f[m] = Append(SubSeq(log, 1, m - 1), log[m])
    BY <1>3, <2>3
  <2>5. SubSeq(log, 1, m) = Append(SubSeq(log, 1, m - 1), log[m])
    BY <1>1, <2>3
  <2> QED BY <2>4, <2>5
<1>5. f[Len(log)] = SubSeq(log, 1, Len(log))
  BY <1>1, <1>4
<1>6. SubSeq(log, 1, Len(log)) = log
  BY <1>1
<1> QED BY <1>2, <1>5, <1>6

-----------------------------------------------------------------------------
(* An append.                                                              *)

\* All lines but the last.
LEMMA FrontType ==
  ASSUME NEW S, NEW s \in Seq(S), s # <<>>
  PROVE  Front(s) \in Seq(S)
BY DEF Front

\* A line that was added is the last.
LEMMA FrontOfAppend ==
  ASSUME NEW S, NEW s \in Seq(S), NEW x \in S
  PROVE  Front(Append(s, x)) = s
<1>1. Len(s) \in Nat /\ Len(Append(s, x)) = Len(s) + 1
  BY LenProperties
<1>2. Front(Append(s, x)) = SubSeq(Append(s, x), 1, Len(s))
  BY <1>1 DEF Front
<1> QED BY <1>1, <1>2

\* Both readings are entries, and the same if the last line is ended.
LEMMA FirmType ==
  ASSUME LogTypeOK, FileOK
  PROVE  /\ Firm \in Seq(Entries) /\ Parsed(lines) \in Seq(Entries)
         /\ ~unended => Parsed(lines) = Firm
<1>1. lines \in Seq(Line)
  BY DEF LogTypeOK, Line
<1>2. CASE unended
  <2>1. lines # <<>>
    BY <1>2 DEF FileOK
  <2>2. Front(lines) \in Seq(Line)
    BY <1>1, <2>1, FrontType
  <2> QED BY <1>1, <1>2, <2>2, ParsedType DEF Firm
<1>3. CASE ~unended
  BY <1>1, <1>3, ParsedType DEF Firm
<1> QED BY <1>2, <1>3

\* The lines that end in a newline are as they were, and one line follows them.
LEMMA WriteOne ==
  ASSUME LogTypeOK, FileOK, NEW line \in Line
  PROVE  /\ Written(line) \in Seq(Line) /\ Written(line) # <<>>
         /\ Parsed(Front(Written(line))) = Firm
         /\ Parsed(Written(line)) = IF unended \/ line = Junk THEN Firm ELSE Append(Firm, line)
<1> DEFINE ended == IF unended THEN Front(lines) ELSE lines
           last == IF unended THEN Junk ELSE line
<1>1. lines \in Seq(Line)
  BY DEF LogTypeOK, Line
<1>2. ended \in Seq(Line)
  <2>1. CASE unended
    BY <1>1, <2>1, FrontType DEF FileOK
  <2> QED BY <1>1, <2>1
<1>3. last \in Line
  BY DEF Line
<1>4. Written(line) = Append(ended, last) /\ Firm = Parsed(ended)
  BY DEF Written, Firm
<1>5. IsEntry(last) <=> ~(unended \/ line = Junk)
  BY DEF IsEntry
<1>6. last = line \/ ~IsEntry(last)
  BY DEF IsEntry
<1> HIDE DEF ended, last
<1>7. /\ Append(ended, last) \in Seq(Line) /\ Append(ended, last) # <<>>
      /\ Front(Append(ended, last)) = ended
  <2>1. Append(ended, last) \in Seq(Line) /\ Append(ended, last) # <<>>
    BY <1>2, <1>3, AppendProperties
  <2>2. Front(Append(ended, last)) = ended
    BY <1>2, <1>3, FrontOfAppend
  <2> QED BY <2>1, <2>2
<1>8. Parsed(Append(ended, last)) = IF IsEntry(last) THEN Append(Firm, last) ELSE Firm
  BY <1>2, <1>3, <1>4, ParsedAppend
<1> QED BY <1>4, <1>5, <1>6, <1>7, <1>8

\* A newer entry at the end leaves the log in order.
LEMMA AppendOrder ==
  ASSUME NEW log \in Seq(Entries), NEW e \in Entries, InOrder(log),
         \A x \in Range(log) : x.n < e.n
  PROVE  InOrder(Append(log, e)) /\ Range(Append(log, e)) = Range(log) \cup {e}
<1> DEFINE more == Append(log, e)
<1>1. Len(log) \in Nat /\ DOMAIN log = 1..Len(log)
  BY LenProperties
<1>2. /\ DOMAIN more = 1..Len(log) + 1 /\ more[Len(log) + 1] = e
      /\ \A i \in 1..Len(log) : more[i] = log[i]
  BY <1>1
<1> HIDE DEF more
<1>3. \A i \in 1..Len(log) : log[i].n < e.n
  BY <1>1 DEF Range
<1>4. InOrder(more)
  <2> SUFFICES ASSUME NEW i \in DOMAIN more, NEW j \in DOMAIN more, i < j
               PROVE  more[i].n < more[j].n
    BY DEF InOrder
  <2>1. i \in 1..Len(log)
    BY <1>1, <1>2
  <2>2. CASE j = Len(log) + 1
    BY <1>2, <1>3, <2>1, <2>2
  <2>3. CASE j # Len(log) + 1
    <3>1. j \in 1..Len(log)
      BY <1>1, <1>2, <2>3
    <3> QED BY <1>1, <1>2, <2>1, <3>1 DEF InOrder
  <2> QED BY <2>2, <2>3
<1>5. Range(more) = Range(log) \cup {e}
  <2>1. \A i \in DOMAIN more : i \in 1..Len(log) \/ i = Len(log) + 1
    BY <1>1, <1>2
  <2>2. Range(more) \subseteq Range(log) \cup {e}
    BY <1>1, <1>2, <2>1 DEF Range
  <2>3. Range(log) \cup {e} \subseteq Range(more)
    <3>1. Len(log) + 1 \in DOMAIN more /\ \A i \in 1..Len(log) : i \in DOMAIN more
      BY <1>1, <1>2
    <3> QED BY <1>1, <1>2, <3>1 DEF Range
  <2> QED BY <2>2, <2>3
<1> QED BY <1>4, <1>5 DEF more

\* An attempt, whatever it leaves in the file.
Attempted(entry) ==
    /\ lines' \in {Written(entry), Written(Junk)}
    /\ unended' \in BOOLEAN /\ (~unended' => lines' = Written(entry))
    /\ at = "idle" /\ at' \in {"idle", "trim"} /\ (at' = "trim" => ~unended')
    /\ acked' \in {acked, acked \cup {entry}}
    /\ acked' # acked => ~unended' /\ cuts' = cuts
    /\ acked' = acked => cuts' = cuts + 1
    /\ next \in 1..MaxAppends /\ entry \in Entry(next) /\ next' = next + 1

\* An entry bears the number of its append.
LEMMA EntryNumbered ==
  ASSUME NEW entry \in Entry(next), next \in 1..MaxAppends
  PROVE  /\ entry \in Entries /\ entry \in Line /\ entry.n = next /\ next \in Nat
         /\ Junk \in Line /\ entry # Junk
<1>1. entry \in Entries
  BY DEF Entries
<1>2. entry.n = next
  BY DEF Entry
<1> QED BY <1>1, <1>2, EntryIsNotJunk DEF Line, IsEntry

\* Each of the two ways an append ends is an attempt.
LEMMA AttemptSteps ==
  ASSUME LogTypeOK, NEW entry \in Entry(next),
         Appended(entry) \/ CutAppend(entry), \A e \in acked : e.n < next
  PROVE  /\ Attempted(entry) /\ (Appended(entry) => at' = "trim")
         /\ (CutAppend(entry) => at' = "idle")
<1>0. next \in 1..MaxAppends
  BY DEF Appended, CutAppend, Attempt
<1>1. entry \notin acked
  BY <1>0, EntryNumbered
<1>2. CASE Appended(entry)
  <2>1. /\ lines' = Written(entry) /\ unended' = FALSE /\ at = "idle" /\ at' = "trim"
        /\ next' = next + 1 /\ acked' = acked \cup {entry} /\ cuts' = cuts
    BY <1>2 DEF Appended, Attempt
  <2>2. acked' # acked
    BY <1>1, <2>1
  <2>3. ~CutAppend(entry)
    BY <2>1, <2>2 DEF CutAppend
  <2> QED BY <1>0, <2>1, <2>2, <2>3, Zenon DEF Attempted
<1>3. CASE CutAppend(entry)
  <2>1. /\ lines' \in {Written(entry), Written(Junk)} /\ unended' \in BOOLEAN
        /\ ~unended' => lines' = Written(entry)
    BY <1>3 DEF CutAppend
  <2>2. /\ at = "idle" /\ at' = "idle" /\ acked' = acked /\ cuts' = cuts + 1 /\ next' = next + 1
    BY <1>3 DEF CutAppend, Attempt
  <2>3. ~Appended(entry)
    BY <2>2 DEF Appended
  <2> QED BY <1>0, <2>1, <2>2, <2>3 DEF Attempted
<1> QED BY <1>2, <1>3

\* The lines it leaves, and what of them is read.
LEMMA AttemptFile ==
  ASSUME LogTypeOK, FileOK, NEW entry \in Entry(next), Attempted(entry)
  PROVE  /\ lines' \in Seq(Line) /\ lines' # <<>>
         /\ \/ Firm' = Firm /\ Parsed(lines') = Firm /\ (unended \/ acked' = acked)
            \/ Firm' = Firm /\ Parsed(lines') = Append(Firm, entry) /\ unended' /\ acked' = acked
            \/ Firm' = Append(Firm, entry) /\ Parsed(lines') = Append(Firm, entry) /\ ~unended'
<1>1. /\ entry \in Line /\ Junk \in Line /\ entry # Junk
  BY EntryNumbered DEF Attempted
<1>2. PICK line \in {entry, Junk} : lines' = Written(line)
  BY DEF Attempted
<1>3. /\ Written(line) \in Seq(Line) /\ Written(line) # <<>>
      /\ Parsed(Front(Written(line))) = Firm
      /\ Parsed(Written(line)) = IF unended \/ line = Junk THEN Firm ELSE Append(Firm, line)
  BY <1>1, WriteOne
<1>4. CASE unended'
  <2>1. Firm' = Firm
    BY <1>2, <1>3, <1>4 DEF Firm
  <2>2. acked' = acked
    BY <1>4 DEF Attempted
  <2> QED BY <1>2, <1>3, <1>4, <2>1, <2>2
<1>5. CASE ~unended'
  <2>1. Firm' = Parsed(lines')
    BY <1>5 DEF Firm
  <2>2. lines' = Written(entry)
    BY <1>5 DEF Attempted
  <2>3. /\ Written(entry) \in Seq(Line) /\ Written(entry) # <<>>
        /\ Parsed(Written(entry)) = IF unended \/ entry = Junk THEN Firm ELSE Append(Firm, entry)
    BY <1>1, WriteOne
  <2> QED BY <1>1, <1>5, <2>1, <2>2, <2>3
<1> QED BY <1>4, <1>5

\* What is parsed after an attempt, and what it costs.
LEMMA AttemptKept ==
  ASSUME LogTypeOK, FileOK, CountOK, NEW entry \in Entry(next), Attempted(entry),
         garbled \in BOOLEAN, garbled => garbled', acked' = acked => at' = "idle",
         acked' # acked => at' = "trim"
  PROVE  FileOK' /\ CountOK'
<1>1. /\ entry \in Entries /\ entry.n = next /\ next \in Nat
      /\ next' = next + 1 /\ next \in 1..MaxAppends
  BY EntryNumbered DEF Attempted
<1>2. /\ Firm \in Seq(Entries) /\ InOrder(Firm) /\ \A x \in Range(Firm) \cup acked : x.n < next
  BY FirmType DEF FileOK
<1>2a. \A x \in Range(Firm) \cup acked : x \in Entries
  BY <1>2, LenProperties, ElementOfSeq DEF Range, LogTypeOK
<1>3. InOrder(Append(Firm, entry)) /\ Range(Append(Firm, entry)) = Range(Firm) \cup {entry}
      /\ Len(Append(Firm, entry)) = Len(Firm) + 1 /\ Len(Firm) \in Nat
  BY <1>1, <1>2, AppendOrder, LenProperties
<1>4. /\ lines' # <<>>
      /\ \/ Firm' = Firm /\ Parsed(lines') = Firm /\ (unended \/ acked' = acked)
         \/ Firm' = Firm /\ Parsed(lines') = Append(Firm, entry) /\ unended' /\ acked' = acked
         \/ Firm' = Append(Firm, entry) /\ Parsed(lines') = Append(Firm, entry) /\ ~unended'
  BY AttemptFile
<1>5. /\ at' = "trim" => ~unended'
      /\ acked' \in {acked, acked \cup {entry}}
      /\ acked' # acked => ~unended' /\ cuts' = cuts
      /\ acked' = acked => cuts' = cuts + 1
      /\ cuts \in Nat /\ unended \in BOOLEAN /\ unended' \in BOOLEAN /\ at = "idle"
  BY DEF Attempted, LogTypeOK
<1>6. IsFiniteSet(acked) /\ IsFiniteSet(acked')
  BY <1>5, FS_AddElement DEF FileOK
<1>7. \A x \in Range(Firm) \cup acked \cup {entry} : x.n < next' /\ x.n \in Nat
  BY <1>1, <1>2, <1>2a, EntryIsNotJunk
<1>8. FileOK'
  <2>1. \A e \in acked' : e.n < next'
    BY <1>5, <1>7
  <2>2. InOrder(Firm') /\ \A e \in Range(Firm') : e.n < next'
    BY <1>2, <1>3, <1>4, <1>7
  <2>3. \/ Parsed(lines') = Firm'
        \/ \E e \in Entries : /\ Parsed(lines') = Append(Firm', e) /\ e.n < next'
                                  /\ \A x \in Range(Firm') \cup acked' : x.n < e.n
    <3>1. CASE Parsed(lines') = Firm'
      BY <3>1
    <3>2. CASE Firm' = Firm /\ Parsed(lines') = Append(Firm, entry) /\ acked' = acked
      <4>1. entry.n < next' /\ \A x \in Range(Firm') \cup acked' : x.n < entry.n
        BY <1>1, <1>2, <3>2
      <4> QED BY <1>1, <3>2, <4>1
    <3> QED BY <1>4, <3>1, <3>2
  <2>4. (at' = "trim" => ~unended') /\ (unended' => lines' # <<>>) /\ IsFiniteSet(acked')
    BY <1>4, <1>5, <1>6
  <2>5. InOrder(Firm)' <=> InOrder(Firm')
    BY DEF InOrder
  <2> QED BY <2>1, <2>2, <2>3, <2>4, <2>5 DEF FileOK
<1>9. Gone \in SUBSET acked /\ IsFiniteSet(Gone) /\ Cardinality(Gone) \in Nat
  BY <1>6, FS_Subset, FS_CardinalityType DEF Gone
<1>10. Gone' \subseteq Gone \/ (acked' # acked /\ unended /\ Gone' \subseteq Gone \cup {entry})
  <2>1. CASE Firm' = Firm
    BY <1>4, <1>5, <2>1 DEF Gone
  <2>2. CASE Firm' = Append(Firm, entry)
    <3>1. ASSUME NEW e \in Gone' PROVE e \in Gone
      <4>1. /\ e \in acked' /\ e \notin Range(Firm')
            /\ ~(Len(Firm') >= Capacity /\ \A x \in Range(Firm') : x.n > e.n)
        BY <3>1 DEF Gone
      <4>2. e \in acked /\ e \notin Range(Firm) /\ e.n < next
        BY <1>2, <1>3, <1>5, <2>2, <4>1
      <4>3. ASSUME Len(Firm) >= Capacity, \A x \in Range(Firm) : x.n > e.n PROVE FALSE
        <5>1. Len(Firm') >= Capacity
          BY <1>3, <2>2, <4>3, LogConstants
        <5>2. \A x \in Range(Firm') : x.n > e.n
          BY <1>1, <1>3, <1>7, <2>2, <4>2, <4>3
        <5> QED BY <4>1, <5>1, <5>2
      <4> QED BY <4>2, <4>3 DEF Gone
    <3> QED BY <3>1
  <2> QED BY <1>4, <2>1, <2>2
<1>11. Cardinality(Gone') + (IF unended' THEN 1 ELSE 0) <= cuts'
  <2>1. Cardinality(Gone) + (IF unended THEN 1 ELSE 0) <= cuts
    BY DEF CountOK
  <2>2. CASE Gone' \subseteq Gone
    <3>1. Cardinality(Gone') <= Cardinality(Gone) /\ Cardinality(Gone') \in Nat
      BY <1>9, <2>2, FS_Subset, FS_CardinalityType
    <3> QED BY <1>5, <1>9, <2>1, <3>1
  <2>3. CASE acked' # acked /\ unended /\ Gone' \subseteq Gone \cup {entry}
    <3>1. IsFiniteSet(Gone \cup {entry}) /\ Cardinality(Gone \cup {entry}) <= Cardinality(Gone) + 1
          /\ Cardinality(Gone \cup {entry}) \in Nat
      <4>1. Cardinality(Gone) \in Nat
        BY <1>9, FS_CardinalityType
      <4>2. /\ IsFiniteSet(Gone \cup {entry})
            /\ \/ Cardinality(Gone \cup {entry}) = Cardinality(Gone)
               \/ Cardinality(Gone \cup {entry}) = Cardinality(Gone) + 1
        <5> HIDE DEF Gone
        <5> QED BY <1>9, FS_AddElement, Zenon
      <4> QED BY <4>1, <4>2
    <3>2. Cardinality(Gone') <= Cardinality(Gone \cup {entry}) /\ Cardinality(Gone') \in Nat
      BY <2>3, <3>1, FS_Subset, FS_CardinalityType
    <3> QED BY <1>5, <1>9, <2>1, <2>3, <3>1, <3>2
  <2> QED BY <1>10, <2>2, <2>3
<1>12. garbled' \/ Len(Parsed(lines')) <= Capacity + cuts' + (IF at' = "trim" THEN 1 ELSE 0)
  <2>1. CASE ~garbled'
    <3>1. Len(Parsed(lines)) <= Capacity + cuts
      <4>1. ~garbled /\ at # "trim"
        BY <1>5, <2>1
      <4>2. Len(Parsed(lines)) <= Capacity + cuts + 0
        BY <4>1 DEF CountOK
      <4> QED BY <1>5, <4>2, LogConstants
    <3>2. Len(Firm) <= Len(Parsed(lines))
      <4>1. \A e \in Entries : Len(Append(Firm, e)) = Len(Firm) + 1
        BY <1>2, AppendProperties
      <4> QED BY <1>3, <4>1 DEF FileOK
    <3>3. Len(Parsed(lines')) <= Len(Firm) + 1 /\ Len(Parsed(lines')) \in Nat
      BY <1>3, <1>4
    <3>4. Len(Parsed(lines)) \in Nat
      BY FirmType, LenProperties
    <3> QED BY <1>3, <1>5, <3>1, <3>2, <3>3, <3>4, LogConstants
  <2> QED BY <2>1
<1> QED BY <1>8, <1>11, <1>12 DEF CountOK

-----------------------------------------------------------------------------
(* A trim.                                                                 *)

\* The newest of an ordered log.
LEMMA NewestOf ==
  ASSUME NEW log \in Seq(Entries), Len(log) > Capacity
  PROVE  /\ Newest(log) \in Seq(Entries) /\ Len(Newest(log)) = Capacity
         /\ DOMAIN Newest(log) = 1..Capacity
         /\ \A i \in 1..Capacity : /\ i + (Len(log) - Capacity) \in DOMAIN log
                                   /\ Newest(log)[i] = log[i + (Len(log) - Capacity)]
         /\ Range(Newest(log)) \subseteq Range(log)
         /\ InOrder(log) => InOrder(Newest(log))
<1> DEFINE k == Len(log) - Capacity
           new == Newest(log)
<1>1. k \in Nat /\ k >= 1 /\ Len(log) \in Nat /\ Len(log) = k + Capacity /\ DOMAIN log = 1..Len(log)
      /\ Capacity \in Nat
  BY LogConstants, LenProperties
<1>2. new = SubSeq(log, k + 1, Len(log))
  BY DEF Newest
<1> HIDE DEF k, new
<1>3. new \in Seq(Entries) /\ Len(new) = Capacity /\ \A i \in 1..Capacity : new[i] = log[i + k]
  <2>1. \A i \in k + 1..Len(log) : log[i] \in Entries
    BY <1>1, ElementOfSeq
  <2>2. new \in Seq(Entries) /\ Len(new) = IF k + 1 <= Len(log) THEN Len(log) - (k + 1) + 1 ELSE 0
    BY <1>1, <1>2, <2>1, SubSeqProperties
  <2>3. Len(new) = Capacity
    BY <1>1, <2>2, LogConstants
  <2>4. \A i \in 1..Capacity : new[i] = log[i + k]
    BY <1>1, <1>2
  <2> QED BY <2>2, <2>3, <2>4
<1>4. DOMAIN new = 1..Capacity /\ \A i \in 1..Capacity : i + k \in DOMAIN log
  BY <1>1, <1>3, LenProperties
<1>5. Range(new) \subseteq Range(log)
  BY <1>3, <1>4 DEF Range
<1>6. InOrder(log) => InOrder(new)
  <2> SUFFICES ASSUME InOrder(log), NEW i \in 1..Capacity, NEW j \in 1..Capacity, i < j
               PROVE  new[i].n < new[j].n
    BY <1>4 DEF InOrder
  <2>1. i + k \in DOMAIN log /\ j + k \in DOMAIN log /\ i + k < j + k
    BY <1>1, <1>4
  <2> QED BY <1>3, <2>1 DEF InOrder
<1> QED BY <1>3, <1>4, <1>5, <1>6 DEF k, new

\* A trim drops only what is older than a full log of newer entries.
LEMMA TrimKept ==
  ASSUME LogTypeOK, FileOK, CountOK, Trim
  PROVE  lines' \in Seq(Line) /\ FileOK' /\ CountOK'
<1>0. /\ at = "trim" /\ at' = "idle" /\ ~unended /\ unended' = unended /\ garbled' = garbled
      /\ acked' = acked /\ next' = next /\ cuts' = cuts
  BY DEF Trim, FileOK
<1>1. Firm = Parsed(lines) /\ Firm' = Parsed(lines') /\ Firm \in Seq(Entries)
  BY <1>0, FirmType DEF Firm
<1>2. Len(Firm) \in Nat /\ cuts \in Nat /\ lines \in Seq(Line)
  BY <1>1, LenProperties DEF LogTypeOK, Line
<1>3. CASE lines' = lines /\ (garbled \/ Len(Firm) <= Capacity)
  <2>1. Firm' = Firm
    BY <1>1, <1>3
  <2>2. FileOK'
    BY <1>0, <1>3, <2>1 DEF FileOK, InOrder
  <2>3. Gone' = Gone
    BY <1>0, <2>1 DEF Gone
  <2>4. garbled \/ Len(Parsed(lines')) <= Capacity + cuts
    BY <1>1, <1>2, <1>3, LogConstants
  <2>5. CountOK'
    BY <1>0, <1>2, <2>3, <2>4, LogConstants DEF CountOK
  <2> QED BY <1>2, <1>3, <2>2, <2>5
<1>4. CASE lines' = Newest(Firm) /\ ~garbled /\ Len(Firm) > Capacity
  <2> DEFINE new == Newest(Firm)
  <2>1. /\ new \in Seq(Entries) /\ Len(new) = Capacity
        /\ DOMAIN new = 1..Capacity
        /\ \A i \in 1..Capacity : i + (Len(Firm) - Capacity) \in DOMAIN Firm
                                  /\ new[i] = Firm[i + (Len(Firm) - Capacity)]
        /\ Range(new) \subseteq Range(Firm)
        /\ InOrder(Firm) => InOrder(new)
    BY <1>1, <1>4, NewestOf
  <2> HIDE DEF new
  <2>2. lines' = new /\ Parsed(lines') = new /\ Firm' = new /\ lines' \in Seq(Line)
    <3>1. lines' = new
      BY <1>4 DEF new
    <3>2. Parsed(new) = new /\ new \in Seq(Line)
      BY <2>1, ParsedEntries, SeqMonotonic DEF Line
    <3> QED BY <1>1, <3>1, <3>2
  <2>3. InOrder(Firm) /\ \A e \in Range(Firm) : e.n < next
    BY DEF FileOK
  <2>4. InOrder(Firm)' <=> InOrder(new)
    BY <2>2 DEF InOrder
  <2>5. FileOK'
    BY <1>0, <2>1, <2>2, <2>3, <2>4 DEF FileOK
  <2>6. ASSUME NEW e \in Gone' PROVE e \in Gone
    <3>1. e \in acked /\ e \notin Range(new)
          /\ ~(\A x \in Range(new) : x.n > e.n)
      BY <1>0, <2>1, <2>2, <2>6, LogConstants DEF Gone
    \* Cut off, it would be older than all that is kept.
    <3>2. e \notin Range(Firm)
      <4> SUFFICES ASSUME e \in Range(Firm) PROVE FALSE
        OBVIOUS
      <4>1. PICK i \in DOMAIN Firm : Firm[i] = e
        BY DEF Range
      <4>2. DOMAIN Firm = 1..Len(Firm) /\ Len(Firm) - Capacity \in Nat
        BY <1>1, <1>2, <1>4, LenProperties, LogConstants
      <4>3. i <= Len(Firm) - Capacity
        <5> SUFFICES ASSUME i > Len(Firm) - Capacity PROVE FALSE
          BY <4>2
        <5>1. i - (Len(Firm) - Capacity) \in 1..Capacity
              /\ (i - (Len(Firm) - Capacity)) + (Len(Firm) - Capacity) = i
          BY <4>2, LogConstants
        <5>2. new[i - (Len(Firm) - Capacity)] = e
          BY <2>1, <4>1, <5>1
        <5> QED BY <2>1, <3>1, <5>1, <5>2 DEF Range
      <4>4. ASSUME NEW x \in Range(new) PROVE x.n > e.n
        <5>1. PICK j \in 1..Capacity : x = new[j]
          BY <2>1 DEF Range
        <5>2. j + (Len(Firm) - Capacity) \in DOMAIN Firm /\ x = Firm[j + (Len(Firm) - Capacity)]
          BY <2>1, <5>1
        <5>3. i < j + (Len(Firm) - Capacity)
          BY <4>2, <4>3, LogConstants
        <5>4. e.n < x.n
          BY <2>3, <4>1, <5>2, <5>3 DEF InOrder
        <5>5. e \in Entries /\ x \in Entries
          BY <1>1, <2>1, <4>1, <4>2, <5>1, ElementOfSeq
        <5> QED BY <5>4, <5>5, EntryIsNotJunk
      <4> QED BY <3>1, <4>4
    <3>3. ~(\A x \in Range(Firm) : x.n > e.n)
      BY <2>1, <3>1
    <3> QED BY <3>1, <3>2, <3>3 DEF Gone
  <2>7. /\ Cardinality(Gone') <= Cardinality(Gone)
        /\ Cardinality(Gone') \in Nat /\ Cardinality(Gone) \in Nat
    <3>1. Gone' \subseteq Gone /\ Gone \subseteq acked /\ IsFiniteSet(acked)
      BY <2>6 DEF Gone, FileOK
    <3>2. IsFiniteSet(Gone)
      BY <3>1, FS_Subset
    <3> QED BY <3>1, <3>2, FS_Subset, FS_CardinalityType
  <2>8. CountOK'
    BY <1>0, <1>2, <2>1, <2>2, <2>7, LogConstants DEF CountOK
  <2> QED BY <2>2, <2>5, <2>8
<1>5. lines' = IF Len(ReadAll) <= Capacity THEN lines ELSE Newest(ReadAll)
  BY DEF Trim
<1>6. ReadAll = IF garbled THEN <<>> ELSE Firm
  BY <1>1 DEF ReadAll
<1> QED BY <1>2, <1>3, <1>4, <1>5, <1>6, LogConstants

\* Cut off, it leaves the file too long by one more entry at most.
LEMMA CutTrimKept ==
  ASSUME LogTypeOK, FileOK, CountOK, CutTrim
  PROVE  FileOK' /\ CountOK'
<1>0. /\ at' = "idle" /\ unended' = unended /\ garbled' = garbled /\ lines' = lines
      /\ acked' = acked /\ next' = next /\ cuts' = cuts + 1 /\ at = "trim"
  BY DEF CutTrim
<1>1. Firm' = Firm
  BY <1>0 DEF Firm
<1>2. FileOK'
  BY <1>0, <1>1 DEF FileOK, InOrder
<1>3. Gone' = Gone
  BY <1>0, <1>1 DEF Gone
<1>4. cuts \in Nat /\ Len(Parsed(lines)) \in Nat /\ Cardinality(Gone) \in Nat
  <2>1. Gone \subseteq acked /\ IsFiniteSet(acked)
    BY DEF Gone, FileOK
  <2> QED BY <2>1, FirmType, LenProperties, FS_Subset, FS_CardinalityType DEF LogTypeOK
<1>5. CountOK'
  BY <1>0, <1>3, <1>4, LogConstants DEF CountOK
<1> QED BY <1>2, <1>5

-----------------------------------------------------------------------------
\* An empty log satisfies the invariant.
LEMMA LogInitially ==
  LogInit => LogInv
<1> SUFFICES ASSUME LogInit PROVE LogInv
  OBVIOUS
<1>1. /\ lines = <<>> /\ lines \in Seq(Line) /\ lines \in Seq(Entries)
      /\ Parsed(lines) = <<>> /\ Len(lines) = 0
  BY EmptySeq, ParsedNothing DEF LogInit
<1>2. Firm = <<>> /\ Range(Firm) = {} /\ InOrder(Firm)
  BY <1>1, EmptySeq, LenProperties DEF LogInit, Firm, Range, InOrder
<1>3. Gone = {} /\ IsFiniteSet(acked) /\ Cardinality(Gone) = 0
  BY FS_EmptySet DEF LogInit, Gone
<1>4. LogTypeOK
  <2>1. next \in 1..MaxAppends + 1 /\ cuts \in 0..MaxCuts
    BY LogConstants DEF LogInit
  <2>2. unended \in BOOLEAN /\ garbled \in BOOLEAN /\ at \in {"idle", "trim"} /\ acked \subseteq Entries
    BY DEF LogInit
  <2> QED BY <1>1, <2>1, <2>2 DEF LogTypeOK, Line
<1>5. FileOK
  BY <1>1, <1>2, <1>3 DEF LogInit, FileOK
<1>6. CountOK
  BY <1>1, <1>3, LogConstants DEF LogInit, CountOK
<1> QED BY <1>4, <1>5, <1>6 DEF LogInv

\* Every append, trim and power cut keeps it.
LEMMA LogPreserved ==
  LogInv /\ [LogNext]_logVars => LogInv'
<1> SUFFICES ASSUME LogInv, [LogNext]_logVars PROVE LogInv'
  OBVIOUS
<1>0. LogTypeOK /\ FileOK /\ CountOK
  BY DEF LogInv
<1>1. ASSUME NEW entry \in Entry(next), Appended(entry) \/ CutAppend(entry)
      PROVE  LogInv'
  <2>1. \A e \in acked : e.n < next
    BY <1>0 DEF FileOK
  <2>2. /\ Attempted(entry) /\ (Appended(entry) => at' = "trim")
        /\ (CutAppend(entry) => at' = "idle")
    BY <1>0, <1>1, <2>1, AttemptSteps
  <2>3. next \in 1..MaxAppends /\ next' = next + 1
    BY <2>2 DEF Attempted
  <2>4. lines' \in Seq(Line)
    BY <1>0, <2>2, AttemptFile
  <2>5. entry \in Entries /\ entry.n = next
    BY <2>3, EntryNumbered
  <2>6. entry \notin acked
    BY <2>1, <2>3, <2>5
  <2>7. garbled \in BOOLEAN /\ garbled' \in BOOLEAN /\ (garbled => garbled')
    BY <1>0, <1>1 DEF Appended, CutAppend, LogTypeOK
  <2>8. acked' = acked => at' = "idle"
    BY <1>1, <2>2, <2>6 DEF Appended
  <2>9. acked' # acked => at' = "trim"
    BY <1>1, <2>2 DEF CutAppend
  <2>10. FileOK' /\ CountOK'
    BY <1>0, <2>2, <2>7, <2>8, <2>9, AttemptKept
  <2>11. /\ unended' \in BOOLEAN /\ at' \in {"idle", "trim"}
         /\ acked' \subseteq Entries /\ next' \in 1..MaxAppends + 1
    <3>1. unended' \in BOOLEAN /\ at' \in {"idle", "trim"} /\ acked' \in {acked, acked \cup {entry}}
      BY <2>2 DEF Attempted
    <3>2. acked' \subseteq Entries
      BY <1>0, <2>5, <3>1 DEF LogTypeOK
    <3> QED BY <2>3, <3>1, <3>2, LogConstants
  <2>12. cuts' \in 0..MaxCuts
    <3>1. cuts' = cuts \/ (cuts < MaxCuts /\ cuts' = cuts + 1)
      BY <1>1 DEF Appended, CutAppend
    <3> QED BY <1>0, <3>1, LogConstants DEF LogTypeOK
  <2> QED BY <2>4, <2>7, <2>10, <2>11, <2>12 DEF LogInv, LogTypeOK, Line
<1>2. CASE Trim
  <2>1. lines' \in Seq(Line) /\ FileOK' /\ CountOK'
    BY <1>0, <1>2, TrimKept
  <2> QED BY <1>0, <1>2, <2>1 DEF LogInv, LogTypeOK, Trim, Line
<1>3. CASE CutTrim
  <2>1. FileOK' /\ CountOK'
    BY <1>0, <1>3, CutTrimKept
  <2> QED BY <1>0, <1>3, <2>1, LogConstants DEF LogInv, LogTypeOK, CutTrim
<1>4. CASE UNCHANGED logVars
  BY <1>0, <1>4 DEF logVars, LogInv, LogTypeOK, FileOK, CountOK, Gone, Firm, InOrder
<1> QED BY <1>1, <1>2, <1>3, <1>4 DEF LogNext, Done

\* What is lost of the log read, with its last line, is lost of the ended lines.
LEMMA LogSoundness ==
  LogInv => LogIsSound
<1> SUFFICES ASSUME LogTypeOK, FileOK, CountOK PROVE LogIsSound
  BY DEF LogInv
<1>1. CASE garbled
  <2>1. ReadAll = <<>> /\ Len(ReadAll) = 0 /\ DOMAIN ReadAll = {}
    BY <1>1, EmptySeq, LenProperties DEF ReadAll
  <2>2. Capacity + cuts >= 0
    BY LogConstants DEF LogTypeOK
  <2> QED BY <1>1, <2>1, <2>2 DEF LogIsSound, LossIsBounded, LogIsBounded
<1>2. CASE ~garbled
  <2>1. ReadAll = Parsed(lines) /\ ReadAll \in Seq(Entries) /\ Firm \in Seq(Entries)
    BY <1>2, FirmType DEF ReadAll
  <2>2. InOrder(Firm) /\ Len(Firm) \in Nat
    BY <2>1, LenProperties DEF FileOK
  <2>3. /\ InOrder(ReadAll) /\ Len(Firm) <= Len(ReadAll) /\ Len(ReadAll) \in Nat
        /\ \A x \in Range(ReadAll) : x \in Range(Firm) \/ \A y \in acked : y.n < x.n
        /\ Range(Firm) \subseteq Range(ReadAll)
    <3>1. CASE Parsed(lines) = Firm
      BY <2>1, <2>2, <3>1
    <3>2. CASE Parsed(lines) # Firm
      <4>1. PICK e \in Entries : /\ Parsed(lines) = Append(Firm, e)
                                 /\ \A x \in Range(Firm) \cup acked : x.n < e.n
        BY <3>2 DEF FileOK
      <4>2. InOrder(Append(Firm, e)) /\ Range(Append(Firm, e)) = Range(Firm) \cup {e}
            /\ Len(Append(Firm, e)) = Len(Firm) + 1
        BY <2>1, <2>2, <4>1, AppendOrder, AppendProperties
      <4> QED BY <2>1, <2>2, <4>1, <4>2
    <3> QED BY <3>1, <3>2
  <2>4. Readable = Range(ReadAll)
    BY DEF Readable, Range
  <2>5. Lost \subseteq Gone
    <3> SUFFICES ASSUME NEW e \in Lost PROVE e \in Gone
      OBVIOUS
    <3>1. e \in acked /\ e \notin Range(ReadAll)
          /\ ~(Len(ReadAll) >= Capacity /\ \A x \in Range(ReadAll) : x.n > e.n)
      BY <2>4 DEF Lost, Trimmed
    <3>2. ASSUME Len(Firm) >= Capacity, \A x \in Range(Firm) : x.n > e.n PROVE FALSE
      <4>1. Len(ReadAll) >= Capacity
        BY <2>2, <2>3, <3>2, LogConstants
      <4>2. ASSUME NEW x \in Range(ReadAll) PROVE x.n > e.n
        <5>1. CASE x \in Range(Firm)
          BY <3>2, <5>1
        <5>2. CASE \A y \in acked : y.n < x.n
          <6>1. e.n < x.n
            BY <3>1, <5>2
          <6>2. e \in Entries /\ x \in Entries
            BY <2>1, <3>1, LenProperties, ElementOfSeq DEF LogTypeOK, Range
          <6> QED BY <6>1, <6>2, EntryIsNotJunk
        <5> QED BY <2>3, <5>1, <5>2
      <4> QED BY <3>1, <4>1, <4>2
    <3>3. e \notin Range(Firm)
      BY <2>3, <3>1
    <3>4. ~(Len(Firm) >= Capacity /\ \A x \in Range(Firm) : x.n > e.n)
      BY <3>2
    <3> QED BY <3>1, <3>3, <3>4 DEF Gone
  <2>6. Cardinality(Lost) <= cuts
    <3>1. Gone \subseteq acked /\ IsFiniteSet(acked)
      BY DEF Gone, FileOK
    <3>2. IsFiniteSet(Gone) /\ Cardinality(Gone) \in Nat
      BY <3>1, FS_Subset, FS_CardinalityType
    <3>3. Cardinality(Lost) <= Cardinality(Gone) /\ Cardinality(Lost) \in Nat
      BY <2>5, <3>2, FS_Subset, FS_CardinalityType
    <3> QED BY <3>2, <3>3 DEF CountOK, LogTypeOK
  <2>7. LossIsBounded
    <3>1. \A i, j \in DOMAIN ReadAll : i < j => ReadAll[i].n < ReadAll[j].n
      BY <2>3, Zenon DEF InOrder
    <3> QED BY <2>6, <3>1, Zenon DEF LossIsBounded
  <2>8. at = "idle" => Len(ReadAll) <= Capacity + cuts
    BY <1>2, <2>1, <2>3, LogConstants DEF CountOK, LogTypeOK
  <2> QED BY <2>7, <2>8 DEF LogIsSound, LogIsBounded
<1> QED BY <1>1, <1>2

\* The file is as described in every run, whatever the number of appends and cuts.
THEOREM LogInvariance ==
  LogSpec => []LogInv
BY LogInitially, LogPreserved, PTL DEF LogSpec

\* Wherever the power fails in an append or a trim, a cut costs at most one synced
\* entry, what is read is in the order it was written, and the log outgrows its
\* capacity by at most one entry per cut.
THEOREM TheLogIsSound ==
  LogSpec => []LogIsSound
BY LogInvariance, LogSoundness, PTL

-----------------------------------------------------------------------------
(* The releases held bad.                                                  *)

\* Of a part of the log: what was seen, and what its latest entry says was rolled back.
Latest(log, s, v, i) == /\ i \in s /\ log[i].to = v /\ log[i].outcome = "RolledBack"
                        /\ \A j \in s : log[j].to = v => j <= i
HeldBad(log, s) == {v \in Version : \E i \in s : Latest(log, s, v, i)}
SeenIn(log, s)  == {v \in Version : \E i \in s : log[i].to = v}
Scanned(log, s) == [seen |-> SeenIn(log, s), bad |-> HeldBad(log, s)]

\* An entry names a release or none.
LEMMA EntryFields == \A e \in Entries : e.to \in Version \cup {Unnamed}
BY DEF Entries, Entry

\* The fold takes the least index first.
LEMMA LeastOf ==
  ASSUME NEW n \in Nat, NEW s \in SUBSET (1..n), s # {}
  PROVE  Min(s) \in s /\ \A i \in s : Min(s) <= i
<1>1. \E m \in s : \A i \in s : m <= i
  <2>1. s \subseteq Nat
    OBVIOUS
  <2> QED BY <2>1, LeastNat, Zenon
<1> QED BY <1>1, Zenon DEF Min

\* The scan of one more entry, older than those scanned.
LEMMA ScanOne ==
  ASSUME NEW log \in Seq(Entries), NEW s \in SUBSET (DOMAIN log), s # {}
  PROVE  Scanned(log, s) = Scan(log[Min(s)], Scanned(log, s \ {Min(s)}))
<1> DEFINE m == Min(s)
           r == s \ {m}
           e == log[m]
<1>1. DOMAIN log = 1..Len(log) /\ Len(log) \in Nat
  BY LenProperties
<1>2. m \in s /\ \A i \in s : m <= i
  BY <1>1, LeastOf
<1>3. s = r \cup {m} /\ m \in 1..Len(log) /\ \A i \in r : i \in 1..Len(log) /\ m < i
  BY <1>1, <1>2
<1>4. e \in Entries /\ e.to \in Version \cup {Unnamed}
  BY <1>3, ElementOfSeq, EntryFields
<1> HIDE DEF m, r
<1>5. ASSUME NEW v \in Version, v # e.to
      PROVE  /\ v \in SeenIn(log, s) <=> v \in SeenIn(log, r)
             /\ v \in HeldBad(log, s) <=> v \in HeldBad(log, r)
  BY <1>3, <1>5 DEF SeenIn, HeldBad, Latest
<1>6. SeenIn(log, s) \subseteq Version /\ HeldBad(log, s) \subseteq Version
      /\ SeenIn(log, r) \subseteq Version /\ HeldBad(log, r) \subseteq Version
  BY DEF SeenIn, HeldBad
<1>7. /\ Scanned(log, r).seen = SeenIn(log, r) /\ Scanned(log, r).bad = HeldBad(log, r)
  BY DEF Scanned
<1>8. CASE e.to = Unnamed
  <2>1. \A v \in Version : v # e.to
    BY <1>8, LogConstants
  <2>2. SeenIn(log, s) = SeenIn(log, r) /\ HeldBad(log, s) = HeldBad(log, r)
    BY <1>5, <1>6, <2>1
  <2> QED BY <1>8, <2>2 DEF Scan, Scanned, m, r
<1>9. CASE e.to # Unnamed /\ e.to \in SeenIn(log, r)
  <2>1. e.to \in SeenIn(log, s)
    BY <1>3, <1>9 DEF SeenIn
  <2>2. e.to \in HeldBad(log, s) <=> e.to \in HeldBad(log, r)
    <3>1. PICK j \in r : log[j].to = e.to
      BY <1>9 DEF SeenIn
    <3>2. \A i \in s : Latest(log, s, e.to, i) => i \in r
      BY <1>3, <3>1 DEF Latest
    <3>3. \A i \in r : Latest(log, s, e.to, i) <=> Latest(log, r, e.to, i)
      BY <1>3 DEF Latest
    <3> QED BY <1>3, <3>2, <3>3 DEF HeldBad
  <2>3. \A v \in Version : /\ v \in SeenIn(log, s) <=> v \in SeenIn(log, r)
                           /\ v \in HeldBad(log, s) <=> v \in HeldBad(log, r)
    BY <1>5, <1>9, <2>1, <2>2, Zenon
  <2>4. SeenIn(log, s) = SeenIn(log, r) /\ HeldBad(log, s) = HeldBad(log, r)
    BY <1>6, <2>3, Zenon
  <2> QED BY <1>7, <1>9, <2>4 DEF Scan, Scanned, m, r
<1>10. CASE e.to # Unnamed /\ e.to \notin SeenIn(log, r)
  <2>0. e.to \in Version /\ e.to \notin HeldBad(log, r)
    BY <1>4, <1>10 DEF SeenIn, HeldBad, Latest
  <2>1. e.to \in SeenIn(log, s)
    BY <1>2, <2>0 DEF SeenIn
  <2>2. \A i \in r : log[i].to # e.to
    BY <1>10, <2>0 DEF SeenIn
  <2>3. e.to \in HeldBad(log, s) <=> e.outcome = "RolledBack"
    <3>1. \A i \in s : Latest(log, s, e.to, i) => i = m
      BY <1>3, <2>2 DEF Latest
    <3>2. Latest(log, s, e.to, m) <=> e.outcome = "RolledBack"
      BY <1>2, <1>3, <2>2 DEF Latest
    <3> QED BY <1>2, <2>0, <3>1, <3>2 DEF HeldBad
  <2>4. SeenIn(log, s) = SeenIn(log, r) \cup {e.to}
    BY <1>5, <1>6, <2>0, <2>1
  <2>5. HeldBad(log, s) = IF e.outcome = "RolledBack" THEN HeldBad(log, r) \cup {e.to} ELSE HeldBad(log, r)
    <3>1. \A v \in Version : v # e.to => (v \in HeldBad(log, s) <=> v \in HeldBad(log, r))
      BY <1>5, Zenon
    <3>2. CASE e.outcome = "RolledBack"
      <4>1. HeldBad(log, s) = HeldBad(log, r) \cup {e.to}
        BY <1>6, <2>0, <2>3, <3>1, <3>2, Zenon
      <4> QED BY <3>2, <4>1
    <3>3. CASE e.outcome # "RolledBack"
      <4>1. HeldBad(log, s) = HeldBad(log, r)
        <5>1. \A v \in Version : v \in HeldBad(log, s) <=> v \in HeldBad(log, r)
          BY <2>0, <2>3, <3>1, <3>3
        <5> QED BY <1>6, <5>1, Zenon
      <4> QED BY <3>3, <4>1
    <3> QED BY <3>2, <3>3
  <2> QED BY <1>7, <1>10, <2>4, <2>5 DEF Scan, Scanned, m, r
<1> QED BY <1>8, <1>9, <1>10

\* g holds the scan of each part of the log.
Scans(g, log) ==
    g = [s \in SUBSET DOMAIN log |-> IF s = {} THEN NothingSeen
                                     ELSE Scan(log[Min(s)], g[s \ {Min(s)}])]

\* The closed form is a scan of the log ...
LEMMA ScansExists ==
  ASSUME NEW log \in Seq(Entries)
  PROVE  Scans([s \in SUBSET DOMAIN log |-> Scanned(log, s)], log)
<1> DEFINE g == [s \in SUBSET DOMAIN log |-> Scanned(log, s)]
           body(s) == IF s = {} THEN NothingSeen ELSE Scan(log[Min(s)], g[s \ {Min(s)}])
<1>1. Scanned(log, {}) = NothingSeen
  <2>1. SeenIn(log, {}) = {} /\ HeldBad(log, {}) = {}
    BY DEF SeenIn, HeldBad
  <2> QED BY <2>1 DEF Scanned, NothingSeen
<1>2. ASSUME NEW s \in SUBSET DOMAIN log PROVE Scanned(log, s) = body(s)
  <2>1. CASE s = {}
    BY <1>1, <2>1
  <2>2. CASE s # {}
    <3>1. s \ {Min(s)} \in SUBSET DOMAIN log
      OBVIOUS
    <3>2. g[s \ {Min(s)}] = Scanned(log, s \ {Min(s)})
      BY <3>1, Zenon
    <3> QED BY <2>2, <3>2, ScanOne, Zenon
  <2> QED BY <2>1, <2>2
<1> HIDE DEF body
<1>3. g = [s \in SUBSET DOMAIN log |-> body(s)]
  BY <1>2, Zenon
<1> HIDE DEF g
<1> QED BY <1>3, Zenon DEF Scans, body, g

\* ... and the only one: two differ first at some smallest part of the log.
LEMMA ScansUnique ==
  ASSUME NEW log \in Seq(Entries), NEW g, Scans(g, log)
  PROVE  g[DOMAIN log] = Scanned(log, DOMAIN log)
<1> DEFINE D == DOMAIN log
           body(s) == IF s = {} THEN NothingSeen ELSE Scan(log[Min(s)], g[s \ {Min(s)}])
<1>1. D = 1..Len(log) /\ Len(log) \in Nat /\ IsFiniteSet(D)
  BY LenProperties, FS_Interval
<1>2. g = [s \in SUBSET D |-> body(s)]
  BY Zenon DEF Scans
<1> HIDE DEF body
<1>3. \A s \in SUBSET D : g[s] = body(s)
  BY <1>2, Zenon
<1> DEFINE Amiss == {s \in SUBSET D : g[s] # Scanned(log, s)}
           Sizes == {Cardinality(s) : s \in Amiss}
<1> SUFFICES ASSUME Amiss # {} PROVE FALSE
  OBVIOUS
<1>4. \A s \in SUBSET D : IsFiniteSet(s) /\ Cardinality(s) \in Nat
  BY <1>1, FS_Subset, FS_CardinalityType
<1>5. PICK s \in Amiss : \A r \in Amiss : Cardinality(s) <= Cardinality(r)
  <2>1. Sizes \subseteq Nat /\ Sizes # {}
    BY <1>4
  <2>2. PICK n \in Sizes : \A k \in Sizes : n <= k
    <3> HIDE DEF Sizes
    <3> QED BY <2>1, LeastNat
  <2> QED BY <2>2
<1>6. s \in SUBSET D /\ g[s] # Scanned(log, s)
  BY <1>5
<1>7. s # {}
  <2>1. Scanned(log, {}) = NothingSeen
    <3>1. SeenIn(log, {}) = {} /\ HeldBad(log, {}) = {}
      BY DEF SeenIn, HeldBad
    <3> QED BY <3>1 DEF Scanned, NothingSeen
  <2> QED BY <1>3, <1>6, <2>1 DEF body
<1>8. Min(s) \in s
  BY <1>1, <1>6, <1>7, LeastOf
<1> DEFINE r == s \ {Min(s)}
<1>9. Cardinality(r) < Cardinality(s) /\ r \in SUBSET D
  <2>1. r \in SUBSET D /\ r \in SUBSET s /\ r # s
    BY <1>6, <1>8
  <2>2. Cardinality(r) <= Cardinality(s) /\ Cardinality(r) # Cardinality(s)
    BY <1>4, <1>6, <2>1, FS_Subset
  <2> HIDE DEF r
  <2> QED BY <1>4, <1>6, <2>1, <2>2
<1>10. g[r] = Scanned(log, r)
  <2>1. r \notin Amiss
    <3> HIDE DEF Amiss, r
    <3>1. Cardinality(s) \in Nat /\ Cardinality(r) \in Nat
      BY <1>4, <1>6, <1>9
    <3> QED BY <1>5, <1>9, <3>1
  <2> QED BY <1>9, <2>1
<1>11. g[s] = Scan(log[Min(s)], g[r])
  BY <1>3, <1>6, <1>7, Zenon DEF body, r
<1>12. g[s] = Scanned(log, s)
  BY <1>6, <1>7, <1>10, <1>11, ScanOne, Zenon
<1> QED BY <1>6, <1>12

\* Whatever the log, the scan holds bad what its definition says: the releases
\* whose latest entry is a rollback.
LEMMA KnownBadIs ==
  ASSUME NEW log \in Seq(Entries)
  PROVE  KnownBad(log) = HeldBad(log, DOMAIN log)
<1> DEFINE g == CHOOSE g : Scans(g, log)
<1>1. KnownBad(log) = g[DOMAIN log].bad
  BY Zenon DEF KnownBad, FoldRight, MapThenFoldSet, Scans
<1>2. Scans(g, log)
  BY ScansExists, Zenon
<1> HIDE DEF g
<1>3. g[DOMAIN log] = Scanned(log, DOMAIN log)
  BY <1>2, ScansUnique
<1> QED BY <1>1, <1>3 DEF Scanned

\* A new entry has the last word on its release, and on no other.
LEMMA HeldBadAppend ==
  ASSUME NEW log \in Seq(Entries), NEW e \in Entries
  PROVE  HeldBad(Append(log, e), DOMAIN Append(log, e)) =
             IF e.outcome = "RolledBack" THEN HeldBad(log, DOMAIN log) \cup ({e.to} \ {Unnamed})
             ELSE HeldBad(log, DOMAIN log) \ {e.to}
<1> DEFINE more == Append(log, e)
           n == Len(log)
<1>1. n \in Nat /\ DOMAIN log = 1..n
  BY LenProperties
<1>2. DOMAIN more = 1..n + 1 /\ more[n + 1] = e /\ \A i \in 1..n : more[i] = log[i]
  BY <1>1
<1>3. e.to \in Version \cup {Unnamed}
  BY EntryFields
<1> HIDE DEF more, n
<1>4. ASSUME NEW v \in Version, v # e.to
      PROVE  v \in HeldBad(more, 1..n + 1) <=> v \in HeldBad(log, 1..n)
  <2>1. \A i \in 1..n + 1 : Latest(more, 1..n + 1, v, i) => i \in 1..n
    BY <1>1, <1>2, <1>4 DEF Latest
  <2>2. ASSUME NEW i \in 1..n
        PROVE  Latest(more, 1..n + 1, v, i) <=> Latest(log, 1..n, v, i)
    <3>1. \A j \in 1..n + 1 : j \in 1..n \/ j = n + 1
      BY <1>1
    <3>2. i \in 1..n + 1 /\ \A j \in 1..n : j \in 1..n + 1
      BY <1>1
    <3> QED BY <1>2, <1>4, <3>1, <3>2 DEF Latest
  <2>3. \A i \in 1..n : i \in 1..n + 1
    BY <1>1
  <2> QED BY <2>1, <2>2, <2>3 DEF HeldBad
<1>5. ASSUME e.to \in Version
      PROVE  e.to \in HeldBad(more, 1..n + 1) <=> e.outcome = "RolledBack"
  <2>1. \A i \in 1..n + 1 : Latest(more, 1..n + 1, e.to, i) => i = n + 1
    BY <1>1, <1>2 DEF Latest
  <2>2. Latest(more, 1..n + 1, e.to, n + 1) <=> e.outcome = "RolledBack"
    BY <1>1, <1>2 DEF Latest
  <2>3. n + 1 \in 1..n + 1
    BY <1>1
  <2> QED BY <1>5, <2>1, <2>2, <2>3 DEF HeldBad
<1>6. HeldBad(more, 1..n + 1) \subseteq Version /\ HeldBad(log, 1..n) \subseteq Version
  BY DEF HeldBad
<1>7. HeldBad(more, 1..n + 1) = IF e.outcome = "RolledBack" THEN HeldBad(log, 1..n) \cup ({e.to} \ {Unnamed})
                                ELSE HeldBad(log, 1..n) \ {e.to}
  BY <1>3, <1>4, <1>5, <1>6, LogConstants
<1> QED BY <1>1, <1>2, <1>7 DEF more

\* A log that is cut back holds no release bad that it did not before.
LEMMA HeldBadNewest ==
  ASSUME NEW log \in Seq(Entries), Len(log) > Capacity
  PROVE  HeldBad(Newest(log), DOMAIN Newest(log)) \subseteq HeldBad(log, DOMAIN log)
<1> DEFINE k == Len(log) - Capacity
<1>1. /\ DOMAIN Newest(log) = 1..Capacity
      /\ \A i \in 1..Capacity : i + k \in DOMAIN log /\ Newest(log)[i] = log[i + k]
  BY NewestOf
<1>2. k \in Nat /\ DOMAIN log = 1..Len(log) /\ Len(log) = k + Capacity /\ Capacity \in Nat
  BY LenProperties, LogConstants
<1> SUFFICES ASSUME NEW v \in Version, NEW i \in 1..Capacity, Latest(Newest(log), 1..Capacity, v, i)
             PROVE  Latest(log, DOMAIN log, v, i + k)
  BY <1>1 DEF HeldBad, Latest
<1> HIDE DEF k
<1>3. ASSUME NEW j \in DOMAIN log, log[j].to = v PROVE j <= i + k
  <2>1. CASE j <= k
    BY <1>2, <2>1
  <2>2. CASE j > k
    <3>1. j - k \in 1..Capacity /\ (j - k) + k = j
      BY <1>2, <2>2
    <3>2. Newest(log)[j - k] = log[j]
      BY <1>1, <3>1
    <3>3. j - k <= i
      BY <1>3, <3>1, <3>2 DEF Latest
    <3> QED BY <1>2, <3>1, <3>3
  <2> QED BY <1>2, <2>1, <2>2
<1> QED BY <1>1, <1>3 DEF Latest

\* What is read are entries, whether the file is text or not.
LEMMA ReadAllType == LogInv => ReadAll \in Seq(Entries)
BY FirmType, EmptySeq DEF LogInv, ReadAll

\* The releases held bad are those whose latest entry is a rollback.
LEMMA LatestHeld ==
  LogInv => LatestIsHeld
<1> SUFFICES ASSUME LogInv PROVE LatestIsHeld
  OBVIOUS
<1>1. KnownBad(ReadAll) = HeldBad(ReadAll, DOMAIN ReadAll)
  BY ReadAllType, KnownBadIs
<1> QED BY <1>1 DEF LatestIsHeld, HeldBad, Latest

\* Journal::known_bad holds bad exactly the releases whose latest entry is a rollback;
\* an append moves its own release in or out and no other; a trim only forgets.
THEOREM TheLatestIsHeld ==
  LogSpec => KnownBadIsLatest
<1>1. LogInv /\ LogInv' /\ [LogNext]_logVars =>
          [LatestIsHeld' /\ AppendIsRecord /\ TrimBlamesNobody]_logVars
  <2> SUFFICES ASSUME LogInv, LogInv', LogNext, ~UNCHANGED logVars
               PROVE  LatestIsHeld' /\ AppendIsRecord /\ TrimBlamesNobody
    OBVIOUS
  <2>0. LogTypeOK /\ FileOK /\ ReadAll \in Seq(Entries) /\ ReadAll' \in Seq(Entries)
    <3>1. ReadAll' \in Seq(Entries)
      <4>1. lines' \in Seq(Line)
        BY DEF LogInv, LogTypeOK, Line
      <4> QED BY <4>1, ParsedType, EmptySeq DEF ReadAll
    <3> QED BY <3>1, ReadAllType DEF LogInv
  <2>1. LatestIsHeld'
    <3>1. KnownBad(ReadAll') = HeldBad(ReadAll', DOMAIN ReadAll')
      BY <2>0, KnownBadIs
    <3> QED BY <3>1 DEF LatestIsHeld, HeldBad, Latest
  <2>2. AppendIsRecord
    <3> SUFFICES ASSUME NEW entry \in acked', entry \notin acked, ~unended, ~garbled
                 PROVE  KnownBad(ReadAll') = IF entry.outcome = "RolledBack"
                                             THEN KnownBad(ReadAll) \cup ({entry.to} \ {Unnamed})
                                             ELSE KnownBad(ReadAll) \ {entry.to}
      BY DEF AppendIsRecord
    <3>1. PICK e \in Entry(next) : Appended(e)
      BY DEF LogNext, CutAppend, Trim, CutTrim, Done, logVars
    <3>2. e = entry /\ lines' = Append(lines, entry) /\ ~garbled' /\ next \in 1..MaxAppends
      BY <3>1 DEF Appended, Attempt, Written
    <3>3. entry \in Entries /\ entry \in Line /\ IsEntry(entry)
      BY <3>1, <3>2, EntryNumbered DEF IsEntry
    <3>4. ReadAll' = Append(ReadAll, entry)
      <4>1. lines \in Seq(Line)
        BY <2>0 DEF LogTypeOK, Line
      <4>2. Parsed(Append(lines, entry)) = Append(Parsed(lines), entry)
        BY <3>3, <4>1, ParsedAppend
      <4> QED BY <3>2, <4>2 DEF ReadAll
    <3>5. KnownBad(ReadAll) = HeldBad(ReadAll, DOMAIN ReadAll)
      BY <2>0, KnownBadIs
    <3>6. KnownBad(ReadAll') = HeldBad(ReadAll', DOMAIN ReadAll')
      BY <2>0, KnownBadIs
    <3> QED BY <2>0, <3>3, <3>4, <3>5, <3>6, HeldBadAppend
  <2>3. TrimBlamesNobody
    <3> SUFFICES ASSUME at = "trim" PROVE KnownBad(ReadAll') \subseteq KnownBad(ReadAll)
      BY DEF TrimBlamesNobody
    <3>1. Trim \/ CutTrim
      BY DEF LogNext, Appended, CutAppend, Attempt, Done
    <3>2. CASE CutTrim
      <4>1. ReadAll' = ReadAll
        BY <3>2 DEF CutTrim, ReadAll
      <4> QED BY <4>1
    <3>3. CASE Trim
      <4>1. lines' = (IF Len(ReadAll) <= Capacity THEN lines ELSE Newest(ReadAll)) /\ garbled' = garbled
        BY <3>3 DEF Trim
      <4>2. CASE Len(ReadAll) <= Capacity
        <5>1. ReadAll' = ReadAll
          BY <4>1, <4>2 DEF ReadAll
        <5> QED BY <5>1
      <4>3. CASE ~(Len(ReadAll) <= Capacity)
        <5>1. Len(ReadAll) > Capacity
          BY <2>0, <4>3, LenProperties, LogConstants
        <5>2. ReadAll' = Newest(ReadAll)
          <6>1. Newest(ReadAll) \in Seq(Entries)
            BY <2>0, <5>1, NewestOf
          <6>2. ~garbled
            BY <5>1, LogConstants, EmptySeq DEF ReadAll
          <6> QED BY <4>1, <4>3, <6>1, <6>2, ParsedEntries DEF ReadAll
        <5> QED BY <2>0, <5>1, <5>2, HeldBadNewest, KnownBadIs
      <4> QED BY <4>2, <4>3
    <3> QED BY <3>1, <3>2, <3>3
  <2> QED BY <2>1, <2>2, <2>3
<1> QED BY <1>1, LogInvariance, PTL DEF LogSpec, KnownBadIsLatest

-----------------------------------------------------------------------------

\* What the steps of an operation know of the job they work on.
JobOK ==
    /\ pc \in {"manifest", "staged", "publish", "arm", "swap", "action", "gate",
               "confirm", "prune"}
          => job.version \in Release /\ job.kind \in Applies \cup Transitions
    /\ pc \in {"revert", "revertConfirm", "record"} /\ job.kind # "recover"
          => job.version \in Release
    /\ pc \in {"rescueLog", "revertConfirm"} => job.previous \in Release
    /\ job.result # "none" => pc \in {"prune", "record"}
    /\ job.result = "RolledBack" => job.previous \in Release

\* The golden release is the only one that the rescue deals in.
GoldenOK ==
    /\ goldenLink \in {None, Golden}
    /\ rescue \in {None, Golden}
    /\ rescued \in {None, Golden}

\* How the trial on disk follows the job in memory.
TrialOK ==
    /\ pending # NoTrial => pending.version \in Release
    /\ pc \in {"staged", "publish", "arm"} => current \in {job.previous, Golden}
    /\ pc \in {"swap", "action", "gate", "confirm"} =>
          pending.version = job.version /\ pending.previous = job.previous
    /\ pc \in {"verdict", "revert", "revertConfirm"} => pending # NoTrial
    /\ pc \in {"revert", "revertConfirm"} =>
          job.previous \in {pending.previous, Golden, None}
    /\ TrialIsAboutTheLive

IInv == TypeOK /\ JobOK /\ GoldenOK /\ TrialOK

USE UpdaterAssumption DEF UpdaterAssumption

-----------------------------------------------------------------------------
(* A board after its first install satisfies the invariant: no trial is     *)
(* open and no operation runs.                                              *)
LEMMA InitIInv == Init => IInv
<1> SUFFICES ASSUME Init PROVE IInv
    OBVIOUS
<1> USE DEF Init, NoTrial, NoJob
<1>1. TypeOK
    <2>1. dirs \subseteq Release
        OBVIOUS
    <2>2. NoTrial \in Trial
        BY DEF Trial, MaybeRelease
    <2>3. NoJob \in Job
        BY DEF Job, MaybeRelease
    <2>4. faults \in 0..MaxFaults
        OBVIOUS
    <2> QED BY <2>1, <2>2, <2>3, <2>4 DEF TypeOK, MaybeRelease
<1>2. JobOK
    BY DEF JobOK
<1>3. GoldenOK
    BY DEF GoldenOK
<1>4. TrialOK
    BY DEF TrialOK, TrialIsAboutTheLive
<1> QED BY <1>1, <1>2, <1>3, <1>4 DEF IInv

USE DEF IInv, TypeOK, JobOK, GoldenOK, TrialOK, TrialIsAboutTheLive, MaybeRelease,
        Trial, NoTrial, Job, NoJob, Applies, Transitions, Working, Recovering, store,
        Finish, IoError, CountFault

(* Starting an operation keeps it: the operation's `installed` or            *)
(* `previous` is the release that is live at that moment.                   *)
LEMMA RequestIInv == IInv /\ Request => IInv'
<1> SUFFICES ASSUME IInv, Request PROVE IInv'
    OBVIOUS
<1> USE DEF Begin, MayBegin
<1>1. CASE BeginApply
    BY <1>1 DEF BeginApply
<1>2. CASE BeginRollback
    BY <1>2 DEF BeginRollback, RollbackCandidates
<1>3. CASE BeginResetToGolden
    BY <1>3 DEF BeginResetToGolden
<1>4. CASE BeginSelect
    BY <1>4 DEF BeginSelect
<1> QED BY <1>1, <1>2, <1>3, <1>4 DEF Request

(* Each durable write of apply, rollback, reset-to-golden and select keeps  *)
(* it, and so does each way in which one can fail.                          *)
LEMMA OperateIInv == IInv /\ Operate => IInv'
<1> SUFFICES ASSUME IInv, Operate PROVE IInv'
    OBVIOUS
<1>1. CASE AcceptManifest
    BY <1>1 DEF AcceptManifest
<1>2. CASE GiveUp
    BY <1>2 DEF GiveUp
<1>3. CASE RemoveReleaseDir
    <2>1. TypeOK'
        <3>1. dirs' \subseteq Release
            BY <1>3 DEF RemoveReleaseDir
        <3> QED BY <1>3, <3>1 DEF RemoveReleaseDir
    <2>2. JobOK'
        BY <1>3 DEF RemoveReleaseDir
    <2>3. GoldenOK'
        BY <1>3 DEF RemoveReleaseDir
    <2>4. TrialOK'
        BY <1>3 DEF RemoveReleaseDir
    <2> QED BY <2>1, <2>2, <2>3, <2>4
<1>4. CASE Publish
    <2>1. TypeOK'
        <3>1. dirs' \subseteq Release
            BY <1>4 DEF Publish
        <3>2. pc' \in Working
            BY <1>4 DEF Publish
        <3> QED BY <1>4, <3>1, <3>2 DEF Publish
    <2>2. JobOK'
        BY <1>4 DEF Publish
    <2>3. GoldenOK'
        BY <1>4 DEF Publish
    <2>4. TrialOK'
        BY <1>4 DEF Publish
    <2> QED BY <2>1, <2>2, <2>3, <2>4
<1>5. CASE Arm
    BY <1>5 DEF Arm
<1>6. CASE Swap
    <2>1. TypeOK'
        <3>1. current' \in MaybeRelease
            BY <1>6 DEF Swap
        <3>2. pc' \in Working
            BY <1>6 DEF Swap
        <3>3. stuck' \in BOOLEAN
            BY <1>6 DEF Swap
        <3>4. UNCHANGED <<dirs, goldenLink, pending, knownBad, rescued, rescue, job, faults>>
            BY <1>6 DEF Swap
        <3> QED BY <3>1, <3>2, <3>3, <3>4
    <2>2. JobOK'
        BY <1>6 DEF Swap
    <2>3. GoldenOK'
        BY <1>6 DEF Swap
    <2>4. TrialOK'
        BY <1>6 DEF Swap
    <2> QED BY <2>1, <2>2, <2>3, <2>4
<1>7. CASE SwapFails
    <2>1. TypeOK'
        BY <1>7 DEF SwapFails
    <2>2. JobOK'
        BY <1>7 DEF SwapFails
    <2>3. GoldenOK'
        BY <1>7 DEF SwapFails
    <2>4. TrialOK'
        BY <1>7 DEF SwapFails
    <2> QED BY <2>1, <2>2, <2>3, <2>4
<1>8. CASE ActionDone
    BY <1>8 DEF ActionDone
<1>9. CASE ActionFails
    BY <1>9 DEF ActionFails
<1>10. CASE GatePasses
    BY <1>10 DEF GatePasses
<1>11. CASE GateFails
    BY <1>11 DEF GateFails
<1>12. CASE Confirm
    BY <1>12 DEF Confirm
<1>13. CASE Prune
    <2>1. TypeOK'
        <3>1. dirs' \subseteq Release
            BY <1>13 DEF Prune
        <3>2. faults' \in 0..MaxFaults
            BY <1>13 DEF Prune
        <3> QED BY <1>13, <3>1, <3>2 DEF Prune
    <2>2. JobOK'
        BY <1>13 DEF Prune
    <2>3. GoldenOK'
        BY <1>13 DEF Prune
    <2>4. TrialOK'
        BY <1>13 DEF Prune
    <2> QED BY <2>1, <2>2, <2>3, <2>4
<1>14. CASE Revert
    <2>1. TypeOK'
        <3>1. current' \in MaybeRelease
            BY <1>14 DEF Revert
        <3>2. pc' \in Working
            BY <1>14 DEF Revert
        <3>3. stuck' \in BOOLEAN
            BY <1>14 DEF Revert
        <3>4. UNCHANGED <<dirs, goldenLink, pending, knownBad, rescued, rescue, job, faults>>
            BY <1>14 DEF Revert
        <3> QED BY <3>1, <3>2, <3>3, <3>4
    <2>2. JobOK'
        BY <1>14 DEF Revert
    <2>3. GoldenOK'
        BY <1>14 DEF Revert
    <2>4. TrialOK'
        BY <1>14 DEF Revert
    <2> QED BY <2>1, <2>2, <2>3, <2>4
<1>15. CASE RevertConfirm
    <2>1. TypeOK'
        <3>1. job' \in Job
            BY <1>15 DEF RevertConfirm
        <3> QED BY <1>15, <3>1 DEF RevertConfirm
    <2>2. JobOK'
        BY <1>15 DEF RevertConfirm
    <2>3. GoldenOK'
        BY <1>15 DEF RevertConfirm
    <2>4. TrialOK'
        BY <1>15 DEF RevertConfirm
    <2> QED BY <2>1, <2>2, <2>3, <2>4
<1>16. CASE NothingToRevertTo
    BY <1>16 DEF NothingToRevertTo
<1>17. CASE RevertFails
    BY <1>17 DEF RevertFails
<1>18. CASE WriteFails
    BY <1>18 DEF WriteFails
<1>19. CASE Record
    BY <1>19 DEF Record, Recorded
<1> QED
    BY <1>1, <1>2, <1>3, <1>4, <1>5, <1>6, <1>7, <1>8, <1>9, <1>10, <1>11, <1>12, <1>13,
       <1>14, <1>15, <1>16, <1>17, <1>18, <1>19 DEF Operate

(* Each step of recover_on_start keeps it, from the start of the process to *)
(* the boot counter's verdict.                                              *)
LEMMA RecoverIInv == IInv /\ (Start \/ Recover) => IInv'
<1> SUFFICES ASSUME IInv, Start \/ Recover PROVE IInv'
    OBVIOUS
<1>1. CASE Start
    <2>1. TypeOK'
        BY <1>1 DEF Start
    <2>2. JobOK'
        BY <1>1 DEF Start
    <2>3. GoldenOK'
        BY <1>1 DEF Start
    <2>4. TrialOK'
        BY <1>1 DEF Start
    <2> QED BY <2>1, <2>2, <2>3, <2>4
<1>2. CASE LogRescue
    <2>1. TypeOK'
        <3>1. knownBad' \subseteq Release
            BY <1>2 DEF LogRescue
        <3> QED BY <1>2, <3>1 DEF LogRescue
    <2>2. JobOK'
        BY <1>2 DEF LogRescue
    <2>3. GoldenOK'
        BY <1>2 DEF LogRescue
    <2>4. TrialOK'
        BY <1>2 DEF LogRescue
    <2> QED BY <2>1, <2>2, <2>3, <2>4
<1>3. CASE ConfirmRescue
    BY <1>3 DEF ConfirmRescue
<1>4. CASE ClearBreadcrumb
    BY <1>4 DEF ClearBreadcrumb
<1>5. CASE RefreshGoldenLink
    BY <1>5 DEF RefreshGoldenLink
<1>6. CASE RecordBoot
    BY <1>6 DEF RecordBoot, NextBoot
<1>7. CASE CommitAtBoot
    BY <1>7 DEF CommitAtBoot
<1>8. CASE RevertAtBoot
    <2>1. TypeOK'
        <3>1. RevertTarget \in MaybeRelease
            BY <1>8 DEF RevertAtBoot, RevertTarget
        <3>2. pending.version \in MaybeRelease
            OBVIOUS
        <3>3. job' = [kind |-> "recover", version |-> pending.version, installed |-> None,
                      previous |-> RevertTarget, result |-> "none"]
            BY <1>8 DEF RevertAtBoot
        <3>4. job' \in Job
            BY <3>1, <3>2, <3>3
        <3> QED BY <1>8, <3>4 DEF RevertAtBoot
    <2>2. JobOK'
        BY <1>8 DEF RevertAtBoot, RevertTarget
    <2>3. GoldenOK'
        BY <1>8 DEF RevertAtBoot, RevertTarget
    <2>4. TrialOK'
        BY <1>8 DEF RevertAtBoot, RevertTarget
    <2> QED BY <2>1, <2>2, <2>3, <2>4
<1> QED
    BY <1>1, <1>2, <1>3, <1>4, <1>5, <1>6, <1>7, <1>8 DEF Recover

(* So does everything that happens to updaterd from outside: robot-rescue,  *)
(* a restart, a kill in mid-operation, a power cut.                         *)
LEMMA EnvironmentIInv == IInv /\ (Rescue \/ Restart \/ Kill \/ PowerCut) => IInv'
<1> SUFFICES ASSUME IInv, Rescue \/ Restart \/ Kill \/ PowerCut PROVE IInv'
    OBVIOUS
<1> USE DEF Down
<1>1. CASE LeaveBreadcrumb
    BY <1>1 DEF LeaveBreadcrumb
<1>2. CASE SwapToGolden
    <2>1. TypeOK'
        <3>1. current' \in MaybeRelease /\ rescue' \in MaybeRelease
            BY <1>2 DEF SwapToGolden
        <3>2. job' \in Job
            BY <1>2 DEF SwapToGolden
        <3>3. pc' \in {"down", "idle"} \cup Recovering \cup Working
            BY <1>2 DEF SwapToGolden
        <3> QED BY <1>2, <3>1, <3>2, <3>3 DEF SwapToGolden
    <2>2. JobOK'
        BY <1>2 DEF SwapToGolden
    <2>3. GoldenOK'
        BY <1>2 DEF SwapToGolden
    <2>4. TrialOK'
        BY <1>2 DEF SwapToGolden
    <2> QED BY <2>1, <2>2, <2>3, <2>4
<1>3. CASE Restart
    BY <1>3 DEF Restart
<1>4. CASE Kill
    BY <1>4 DEF Kill
<1>5. CASE PowerCut
    BY <1>5 DEF PowerCut
<1> QED
    BY <1>1, <1>2, <1>3, <1>4, <1>5 DEF Rescue

(* The invariant is inductive: every step of the program keeps it.          *)
LEMMA StepIInv == IInv /\ [Next]_vars => IInv'
<1> SUFFICES ASSUME IInv, [Next]_vars PROVE IInv'
    OBVIOUS
<1>1. CASE UNCHANGED vars
    BY <1>1 DEF vars
<1> QED
    BY <1>1, RequestIInv, OperateIInv, RecoverIInv, EnvironmentIInv DEF Next

-----------------------------------------------------------------------------
(* The disk follows the trial protocol: step by step.                      *)

(* What an operation's step does to `current` and to pending.json is a step *)
(* of the trial protocol, or leaves both alone.                             *)
LEMMA OperateSimulates ==
    IInv /\ Operate => [Protocol!Next]_<<current, pending>>
<1> SUFFICES ASSUME IInv, Operate PROVE [Protocol!Next]_<<current, pending>>
    OBVIOUS
<1> USE DEF Protocol!Next, Protocol!NoTrial, Protocol!Open
<1>1. CASE Arm
    <2>1. Protocol!Begin(job.version, job.previous)
        BY <1>1 DEF Arm, Protocol!Begin
    <2>2. job.version \in Release /\ job.previous \in Release \cup {None}
        BY <1>1 DEF Arm
    <2> QED BY <2>1, <2>2
<1>2. CASE Swap
    <2>1. Protocol!GoLive
        BY <1>2 DEF Swap, Protocol!GoLive
    <2> QED BY <2>1
<1>3. CASE SwapFails
    BY <1>3 DEF SwapFails, Protocol!Close
<1>4. CASE ActionFails
    BY <1>4 DEF ActionFails, Protocol!Close
<1>5. CASE Confirm
    BY <1>5 DEF Confirm, Protocol!Close
<1>6. CASE Revert
    <2>1. pending # NoTrial /\ job.previous # None /\ current' = job.previous /\ UNCHANGED pending
        BY <1>6 DEF Revert
    <2>2. job.previous \in {pending.previous, Golden}
        BY <1>6 DEF Revert
    <2> QED BY <2>1, <2>2 DEF Protocol!GoBack, Protocol!GoToGolden
<1>7. CASE RevertConfirm
    BY <1>7 DEF RevertConfirm, Protocol!Close
<1>8. CASE NothingToRevertTo
    BY <1>8 DEF NothingToRevertTo, Protocol!Close
<1>9. CASE AcceptManifest \/ GiveUp \/ RemoveReleaseDir \/ Publish \/ ActionDone
              \/ GatePasses \/ GateFails \/ Prune \/ RevertFails \/ WriteFails \/ Record
    BY <1>9 DEF AcceptManifest, GiveUp, RemoveReleaseDir, Publish, ActionDone,
                GatePasses, GateFails, Prune, RevertFails, WriteFails, Record
<1> QED
    BY <1>1, <1>2, <1>3, <1>4, <1>5, <1>6, <1>7, <1>8, <1>9 DEF Operate

(* Recovery counts a boot or closes the trial; it opens none.               *)
LEMMA RecoverSimulates ==
    IInv /\ (Start \/ Recover) => [Protocol!Next]_<<current, pending>>
<1> SUFFICES ASSUME IInv, Start \/ Recover PROVE [Protocol!Next]_<<current, pending>>
    OBVIOUS
<1> USE DEF Protocol!Next, Protocol!NoTrial, Protocol!Open
<1>1. CASE ConfirmRescue
    BY <1>1 DEF ConfirmRescue, Protocol!Close
<1>2. CASE RecordBoot
    <2>1. CASE pending = NoTrial \/ pending.boots = MaxBoots
        BY <1>2, <2>1 DEF RecordBoot, NextBoot
    <2>2. CASE pending # NoTrial /\ pending.boots < MaxBoots
        BY <1>2, <2>2 DEF RecordBoot, NextBoot, Protocol!Boot
    <2> QED BY <2>1, <2>2
<1>3. CASE CommitAtBoot
    BY <1>3 DEF CommitAtBoot, Protocol!Close
<1>4. CASE Start \/ LogRescue \/ ClearBreadcrumb \/ RefreshGoldenLink \/ RevertAtBoot
    BY <1>4 DEF Start, LogRescue, ClearBreadcrumb, RefreshGoldenLink, RevertAtBoot
<1> QED
    BY <1>1, <1>2, <1>3, <1>4 DEF Recover

(* robot-rescue moves the link back, as the protocol lets anybody do;       *)
(* a process or a board that stops leaves the disk as it was.               *)
LEMMA EnvironmentSimulates ==
    IInv /\ (Request \/ Rescue \/ Restart \/ Kill \/ PowerCut)
        => [Protocol!Next]_<<current, pending>>
<1> SUFFICES ASSUME IInv, Request \/ Rescue \/ Restart \/ Kill \/ PowerCut
             PROVE [Protocol!Next]_<<current, pending>>
    OBVIOUS
<1>1. CASE SwapToGolden
    BY <1>1 DEF SwapToGolden, Protocol!Next, Protocol!GoToGolden
<1>2. CASE Request
    BY <1>2 DEF Request, BeginApply, BeginRollback, BeginResetToGolden, BeginSelect, Begin
<1>3. CASE LeaveBreadcrumb \/ Restart \/ Kill \/ PowerCut
    BY <1>3 DEF LeaveBreadcrumb, Restart, Kill, PowerCut, Down
<1> QED
    BY <1>1, <1>2, <1>3 DEF Rescue

-----------------------------------------------------------------------------
(* The other properties, each under the circumstances it needs.            *)

Without(events) == \A event \in events : event \notin Events

\* What lets DiskIsKept be seen step by step: an apply makes room only for a release
\* that is not there yet, and a job falls back to the release it found.
DiskOK == Without({"reinstall"}) =>
    /\ DiskIsKept
    /\ pc = "manifest" => job.version \notin dirs \/ job.version = job.installed
    /\ pc \in {"staged", "publish"} => job.version \notin dirs
    /\ pc \in {"staged", "publish", "arm", "swap", "action", "gate", "confirm", "revert"}
          => job.previous \in dirs \cup {None}
    /\ pc = "prune" => pending = NoTrial

\* The robot runs what the operation says it runs, while no rescue interferes.
OutcomeOK == Health # "none" /\ Without({"rescueDuringUpdate"}) =>
    /\ pc \notin {"down", "idle"} => rescue = None
    /\ pc \in {"action", "gate", "confirm"} => current = job.version
    /\ pc = "confirm" => current \notin Bad
    /\ pc = "prune" => job.result = "Applied"
    /\ pc = "revertConfirm" => current = job.previous
    /\ pc \in {"prune", "record"} =>
          /\ job.result = "Applied"    => current = job.version /\ current \notin Bad
          /\ job.result = "RolledBack" => current = job.previous

\* One operation at a time on a board with golden: it starts on a release that works,
\* and so it has one to go back to.
Orderly == /\ Golden # None /\ Health # "none"
           /\ Without({"retryOnTrial", "reinstall", "actionFails", "rescueDuringUpdate",
                       "rescueCut"})
BadOK == Orderly =>
    /\ ~stuck
    /\ current \in Bad => pending.version = current
    /\ pc \in {"manifest", "staged", "publish", "arm", "swap"} => current \notin Bad
    /\ pc \in {"staged", "publish", "arm", "swap", "action", "gate", "confirm", "revert",
               "revertConfirm"} => job.previous \in Release \ Bad
    /\ pending.previous \notin Bad
    /\ pc \in Working \cup {"golden", "boot", "verdict"} => rescued = None
    /\ pc \in {"rescueLog", "rescueConfirm", "rescueClear"} => rescued # None
    /\ rescued # None => rescue # None \/ current \notin Bad

USE DEF Without, DiskIsKept, FallbackIsInstalled, GoldenIsKept, LiveIsInstalled, Begin, MayBegin

(* No step takes a release off the disk that recovery may go to.            *)
LEMMA DiskStep == IInv /\ DiskOK /\ [Next]_vars => DiskOK'
<1> SUFFICES ASSUME IInv, DiskOK, [Next]_vars, Without({"reinstall"}) PROVE DiskOK'
    BY DEF DiskOK
<1> USE DEF DiskOK
<1>1. CASE BeginApply
    BY <1>1 DEF BeginApply
<1>2. CASE BeginRollback
    BY <1>2 DEF BeginRollback, RollbackCandidates
<1>3. CASE BeginResetToGolden
    BY <1>3 DEF BeginResetToGolden
<1>4. CASE BeginSelect
    BY <1>4 DEF BeginSelect
<1>5. CASE AcceptManifest
    BY <1>5 DEF AcceptManifest
<1>6. CASE GiveUp
    BY <1>6 DEF GiveUp
<1>7. CASE RemoveReleaseDir
    BY <1>7 DEF RemoveReleaseDir
<1>8. CASE Publish
    BY <1>8 DEF Publish
<1>9. CASE Arm
    BY <1>9 DEF Arm
<1>10. CASE Swap
    BY <1>10 DEF Swap
<1>11. CASE SwapFails
    BY <1>11 DEF SwapFails
<1>12. CASE ActionDone
    BY <1>12 DEF ActionDone
<1>13. CASE ActionFails
    BY <1>13 DEF ActionFails
<1>14. CASE GatePasses
    BY <1>14 DEF GatePasses
<1>15. CASE GateFails
    BY <1>15 DEF GateFails
<1>16. CASE Confirm
    BY <1>16 DEF Confirm
<1>17. CASE Prune
    <2>1. dirs' = dirs \ Doomed \/ UNCHANGED dirs
        BY <1>17 DEF Prune
    <2>2. current \notin Doomed /\ Golden \notin Doomed
        BY DEF Doomed, Prunable
    <2>3. LiveIsInstalled' /\ GoldenIsKept'
        BY <1>17, <2>1, <2>2 DEF Prune
    <2>4. FallbackIsInstalled'
        BY <1>17 DEF Prune
    <2> QED BY <1>17, <2>3, <2>4 DEF Prune
<1>18. CASE Revert
    BY <1>18 DEF Revert
<1>19. CASE RevertConfirm
    BY <1>19 DEF RevertConfirm
<1>20. CASE NothingToRevertTo
    BY <1>20 DEF NothingToRevertTo
<1>21. CASE RevertFails
    BY <1>21 DEF RevertFails
<1>22. CASE WriteFails
    BY <1>22 DEF WriteFails
<1>23. CASE Record
    BY <1>23 DEF Record, Recorded
<1>24. CASE Start
    BY <1>24 DEF Start
<1>25. CASE LogRescue
    BY <1>25 DEF LogRescue
<1>26. CASE ConfirmRescue
    BY <1>26 DEF ConfirmRescue
<1>27. CASE ClearBreadcrumb
    BY <1>27 DEF ClearBreadcrumb
<1>28. CASE RefreshGoldenLink
    BY <1>28 DEF RefreshGoldenLink
<1>29. CASE RecordBoot
    BY <1>29 DEF RecordBoot, NextBoot
<1>30. CASE CommitAtBoot
    BY <1>30 DEF CommitAtBoot
<1>31. CASE RevertAtBoot
    BY <1>31 DEF RevertAtBoot, RevertTarget
<1>32. CASE LeaveBreadcrumb
    BY <1>32 DEF LeaveBreadcrumb
<1>33. CASE SwapToGolden
    BY <1>33 DEF SwapToGolden, Down
<1>34. CASE Restart
    BY <1>34 DEF Restart, Down
<1>35. CASE Kill
    BY <1>35 DEF Kill, Down
<1>36. CASE PowerCut
    BY <1>36 DEF PowerCut, Down
<1>37. CASE UNCHANGED vars
    BY <1>37 DEF vars
<1> QED
    BY <1>1, <1>2, <1>3, <1>4, <1>5, <1>6, <1>7, <1>8, <1>9, <1>10, <1>11, <1>12, <1>13,
       <1>14, <1>15, <1>16, <1>17, <1>18, <1>19, <1>20, <1>21, <1>22, <1>23, <1>24, <1>25, <1>26,
       <1>27, <1>28, <1>29, <1>30, <1>31, <1>32, <1>33, <1>34, <1>35, <1>36, <1>37
    DEF Next, Request, Operate, Recover, Rescue

(* Between the swap and the entry in the log nothing else moves the link.   *)
LEMMA OutcomeStep == IInv /\ OutcomeOK /\ [Next]_vars => OutcomeOK'
<1> SUFFICES ASSUME IInv, OutcomeOK, [Next]_vars, Health # "none",
                    Without({"rescueDuringUpdate"})
             PROVE  OutcomeOK'
    BY DEF OutcomeOK
<1> USE DEF OutcomeOK
<1>1. CASE BeginApply
    BY <1>1 DEF BeginApply
<1>2. CASE BeginRollback
    BY <1>2 DEF BeginRollback, RollbackCandidates
<1>3. CASE BeginResetToGolden
    BY <1>3 DEF BeginResetToGolden
<1>4. CASE BeginSelect
    BY <1>4 DEF BeginSelect
<1>5. CASE AcceptManifest
    BY <1>5 DEF AcceptManifest
<1>6. CASE GiveUp
    BY <1>6 DEF GiveUp
<1>7. CASE RemoveReleaseDir
    BY <1>7 DEF RemoveReleaseDir
<1>8. CASE Publish
    BY <1>8 DEF Publish
<1>9. CASE Arm
    BY <1>9 DEF Arm
<1>10. CASE Swap
    BY <1>10 DEF Swap
<1>11. CASE SwapFails
    BY <1>11 DEF SwapFails
<1>12. CASE ActionDone
    BY <1>12 DEF ActionDone
<1>13. CASE ActionFails
    BY <1>13 DEF ActionFails
<1>14. CASE GatePasses
    BY <1>14 DEF GatePasses
<1>15. CASE GateFails
    BY <1>15 DEF GateFails
<1>16. CASE Confirm
    BY <1>16 DEF Confirm
<1>17. CASE Prune
    BY <1>17 DEF Prune, Doomed, Prunable
<1>18. CASE Revert
    BY <1>18 DEF Revert
<1>19. CASE RevertConfirm
    BY <1>19 DEF RevertConfirm
<1>20. CASE NothingToRevertTo
    BY <1>20 DEF NothingToRevertTo
<1>21. CASE RevertFails
    BY <1>21 DEF RevertFails
<1>22. CASE WriteFails
    BY <1>22 DEF WriteFails
<1>23. CASE Record
    BY <1>23 DEF Record, Recorded
<1>24. CASE Start
    BY <1>24 DEF Start
<1>25. CASE LogRescue
    BY <1>25 DEF LogRescue
<1>26. CASE ConfirmRescue
    BY <1>26 DEF ConfirmRescue
<1>27. CASE ClearBreadcrumb
    BY <1>27 DEF ClearBreadcrumb
<1>28. CASE RefreshGoldenLink
    BY <1>28 DEF RefreshGoldenLink
<1>29. CASE RecordBoot
    BY <1>29 DEF RecordBoot, NextBoot
<1>30. CASE CommitAtBoot
    BY <1>30 DEF CommitAtBoot
<1>31. CASE RevertAtBoot
    BY <1>31 DEF RevertAtBoot, RevertTarget
<1>32. CASE LeaveBreadcrumb
    BY <1>32 DEF LeaveBreadcrumb
<1>33. CASE SwapToGolden
    BY <1>33 DEF SwapToGolden, Down
<1>34. CASE Restart
    BY <1>34 DEF Restart, Down
<1>35. CASE Kill
    BY <1>35 DEF Kill, Down
<1>36. CASE PowerCut
    BY <1>36 DEF PowerCut, Down
<1>37. CASE UNCHANGED vars
    BY <1>37 DEF vars
<1> QED
    BY <1>1, <1>2, <1>3, <1>4, <1>5, <1>6, <1>7, <1>8, <1>9, <1>10, <1>11, <1>12, <1>13,
       <1>14, <1>15, <1>16, <1>17, <1>18, <1>19, <1>20, <1>21, <1>22, <1>23, <1>24, <1>25, <1>26,
       <1>27, <1>28, <1>29, <1>30, <1>31, <1>32, <1>33, <1>34, <1>35, <1>36, <1>37
    DEF Next, Request, Operate, Recover, Rescue

(* A release that does not work is live for as long as its trial is open.   *)
LEMMA BadStep == IInv /\ DiskOK /\ OutcomeOK /\ BadOK /\ [Next]_vars => BadOK'
<1> SUFFICES ASSUME IInv, DiskOK, OutcomeOK, BadOK, [Next]_vars, Orderly PROVE BadOK'
    BY DEF BadOK
<1> USE DEF DiskOK, OutcomeOK, BadOK, Orderly
<1>1. CASE BeginApply
    BY <1>1 DEF BeginApply
<1>2. CASE BeginRollback
    BY <1>2 DEF BeginRollback, RollbackCandidates
<1>3. CASE BeginResetToGolden
    BY <1>3 DEF BeginResetToGolden
<1>4. CASE BeginSelect
    BY <1>4 DEF BeginSelect
<1>5. CASE AcceptManifest
    BY <1>5 DEF AcceptManifest
<1>6. CASE GiveUp
    BY <1>6 DEF GiveUp
<1>7. CASE RemoveReleaseDir
    BY <1>7 DEF RemoveReleaseDir
<1>8. CASE Publish
    BY <1>8 DEF Publish
<1>9. CASE Arm
    BY <1>9 DEF Arm
<1>10. CASE Swap
    BY <1>10 DEF Swap
<1>11. CASE SwapFails
    BY <1>11 DEF SwapFails
<1>12. CASE ActionDone
    BY <1>12 DEF ActionDone
<1>13. CASE ActionFails
    BY <1>13 DEF ActionFails
<1>14. CASE GatePasses
    BY <1>14 DEF GatePasses
<1>15. CASE GateFails
    BY <1>15 DEF GateFails
<1>16. CASE Confirm
    BY <1>16 DEF Confirm
<1>17. CASE Prune
    BY <1>17 DEF Prune, Doomed, Prunable
<1>18. CASE Revert
    BY <1>18 DEF Revert
<1>19. CASE RevertConfirm
    BY <1>19 DEF RevertConfirm
<1>20. CASE NothingToRevertTo
    BY <1>20 DEF NothingToRevertTo
<1>21. CASE RevertFails
    BY <1>21 DEF RevertFails
<1>22. CASE WriteFails
    BY <1>22 DEF WriteFails
<1>23. CASE Record
    BY <1>23 DEF Record, Recorded
<1>24. CASE Start
    BY <1>24 DEF Start
<1>25. CASE LogRescue
    BY <1>25 DEF LogRescue
<1>26. CASE ConfirmRescue
    BY <1>26 DEF ConfirmRescue
<1>27. CASE ClearBreadcrumb
    BY <1>27 DEF ClearBreadcrumb
<1>28. CASE RefreshGoldenLink
    BY <1>28 DEF RefreshGoldenLink
<1>29. CASE RecordBoot
    BY <1>29 DEF RecordBoot, NextBoot
<1>30. CASE CommitAtBoot
    BY <1>30 DEF CommitAtBoot
<1>31. CASE RevertAtBoot
    BY <1>31 DEF RevertAtBoot, RevertTarget
<1>32. CASE LeaveBreadcrumb
    BY <1>32 DEF LeaveBreadcrumb
<1>33. CASE SwapToGolden
    BY <1>33 DEF SwapToGolden, Down
<1>34. CASE Restart
    BY <1>34 DEF Restart, Down
<1>35. CASE Kill
    BY <1>35 DEF Kill, Down
<1>36. CASE PowerCut
    BY <1>36 DEF PowerCut, Down
<1>37. CASE UNCHANGED vars
    BY <1>37 DEF vars
<1> QED
    BY <1>1, <1>2, <1>3, <1>4, <1>5, <1>6, <1>7, <1>8, <1>9, <1>10, <1>11, <1>12, <1>13,
       <1>14, <1>15, <1>16, <1>17, <1>18, <1>19, <1>20, <1>21, <1>22, <1>23, <1>24, <1>25, <1>26,
       <1>27, <1>28, <1>29, <1>30, <1>31, <1>32, <1>33, <1>34, <1>35, <1>36, <1>37
    DEF Next, Request, Operate, Recover, Rescue

-----------------------------------------------------------------------------
(* The theorems. *)

HIDE DEF IInv, TypeOK, TrialIsAboutTheLive

(* The four parts hold together: each action needs what the others say.    *)
THEOREM Invariance == Spec => []IInv
BY InitIInv, StepIInv, PTL DEF Spec

(* Every durable write has its type, whichever step the process, the power *)
(* or a symlink fails after, and whenever robot-rescue runs.               *)
THEOREM TypeCorrect == Spec => []TypeOK
<1>1. IInv => TypeOK
    BY DEF IInv, TrialOK
<1> QED BY <1>1, Invariance, PTL

(* The trial on disk is about the release that runs, the one it came from, *)
(* or golden: what recover_on_start decides at the last boot is never      *)
(* about some other release.                                               *)
THEOREM TrialAboutTheLive == Spec => []TrialIsAboutTheLive
<1>1. IInv => TrialIsAboutTheLive
    BY DEF IInv, TrialOK
<1> QED BY <1>1, Invariance, PTL

(* Whatever the operations, recovery, robot-rescue and the faults do to the *)
(* `current` symlink and the boot counter is a step of the trial protocol:  *)
(* no release goes live before the trial that says how to leave it.         *)
THEOREM Refinement == Spec => FollowsProtocol
<1>1. Init => Protocol!Init
    BY DEF Init, Protocol!Init, Protocol!NoTrial
<1>2. IInv /\ [Next]_vars => [Protocol!Next]_<<current, pending>>
    BY OperateSimulates, RecoverSimulates, EnvironmentSimulates DEF Next, vars
<1> QED
    BY <1>1, <1>2, Invariance, PTL DEF Spec, FollowsProtocol, Protocol!Spec

(* The three more parts, which hold beside the invariant.                   *)
LEMMA InitParts == Init => DiskOK /\ OutcomeOK /\ BadOK
<1> SUFFICES ASSUME Init PROVE DiskOK /\ OutcomeOK /\ BadOK
    OBVIOUS
<1> USE DEF Init, NoTrial, NoJob
<1>1. DiskIsKept
    BY DEF DiskIsKept, FallbackIsInstalled, GoldenIsKept, LiveIsInstalled
<1>2. DiskOK
    BY <1>1 DEF DiskOK
<1>3. OutcomeOK
    BY DEF OutcomeOK
<1>4. BadOK
    BY DEF BadOK, Working
<1> QED BY <1>2, <1>3, <1>4

\* They hold in every run.
THEOREM PartsInvariance == Spec => [](DiskOK /\ OutcomeOK /\ BadOK)
<1>1. IInv /\ (DiskOK /\ OutcomeOK /\ BadOK) /\ [Next]_vars => (DiskOK /\ OutcomeOK /\ BadOK)'
    BY DiskStep, OutcomeStep, BadStep
<1> QED BY <1>1, InitParts, Invariance, PTL DEF Spec

(* What recovery, the rescue and the next start need of the disk is there, unless *)
(* a release that is on disk is installed again: whatever is pruned, reverted or  *)
(* rescued, and wherever the power fails.                                        *)
THEOREM NothingNeededIsRemoved == Spec => [](Without({"reinstall"}) => DiskIsKept)
<1>1. DiskOK => (Without({"reinstall"}) => DiskIsKept)
    BY DEF DiskOK
<1> QED BY <1>1, PartsInvariance, PTL

(* If a gate is configured and no rescue lands in mid-update, the outcome that the *)
(* client is told and the log keeps is where the robot is.                        *)
THEOREM OutcomesAreTrue ==
    Spec => [](Health # "none" /\ Without({"rescueDuringUpdate"}) => OutcomeIsTrue)
<1>1. OutcomeOK => (Health # "none" /\ Without({"rescueDuringUpdate"}) => OutcomeIsTrue)
    BY DEF OutcomeOK, OutcomeIsTrue
<1> QED BY <1>1, PartsInvariance, PTL

(* On a board with golden and a gate, one operation at a time, a release that never *)
(* becomes healthy is never live without the trial that takes the robot off it.     *)
THEOREM BadIsOnTrial == Spec => [](Orderly => BadLiveIsOnTrial)
<1>1. BadOK => (Orderly => BadLiveIsOnTrial)
    BY DEF BadOK, BadLiveIsOnTrial
<1> QED BY <1>1, PartsInvariance, PTL

(* On such a board no operation and no recovery ever ends with nowhere to go.       *)
THEOREM NeverStuck == Spec => [](Orderly => ~stuck)
<1>1. BadOK => (Orderly => ~stuck)
    BY DEF BadOK
<1> QED BY <1>1, PartsInvariance, PTL
=============================================================================

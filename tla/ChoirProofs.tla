---------------------------- MODULE ChoirProofs -----------------------------
(***************************************************************************)
(* What is proved of Choir: for any ducks, voices and pieces, and any      *)
(* number of rounds, under the bounds on missed beacons and on the length  *)
(* of a piece that a theorem names.                                        *)
(***************************************************************************)
EXTENDS Choir, FiniteSetTheorems, SequenceTheorems, TLAPS

FinalBeat == ScoreBeats + Breath

\* A duck's turn in the radio round is over: what it did not hear was counted.
Missed(d) == IF phase = "radio" /\ d \notin todo THEN 1 ELSE 0

-----------------------------------------------------------------------------
(* One conductor.                                                          *)

\* d has a beacon of e, and each round since then without one cost a fault.
Has(d, e) == /\ peers[d][e] # None
             /\ silence[d][e] = 0 \/ silence[d][e] + Missed(d) <= faults + 1

\* The beats for which e has certainly been on the air.
Standing(e) == CASE state[e] = "listening"  -> since[e]
                 [] state[e] = "conducting" -> Settle
                 [] OTHER                   -> 0

\* A duck that listens has heard who is willing, or missed a beacon in every round.
WillingOK == MaxFaults < Settle =>
    \A d, e \in Duck : d # e /\ state[d] = "listening" /\ Active(e) =>
        \/ Has(d, e)
        \/ since[d] + Missed(d) <= faults
        \/ Standing(e) + Missed(d) <= faults

\* It has heard of a conductor with a higher id, or missed a beacon in every round.
SungOK == MaxFaults < Settle =>
    \A d, e \in Duck : d < e /\ state[d] = "listening" /\ state[e] = "conducting" =>
        \/ Has(d, e) /\ peers[d][e].piece = piece[e]
        \/ since[d] + Missed(d) <= faults

\* A conductor sings what it knows, and stops in the tick after the last beat.
ConductingOK ==
    \A d \in Duck : state[d] = "conducting" =>
        /\ piece[d] \in Knows[d]
        /\ pos[d] <= FinalBeat + 1
        /\ phase = "radio" \/ d \notin todo => pos[d] <= FinalBeat

\* A duck that was dismissed has no record of the others, and no record seats a duck twice.
RecordsOK ==
    \A d, e \in Duck :
        /\ state[d] = "off" => peers[d][e] = None
        /\ peers[d][e] # None => IsInjective(peers[d][e].roster)

\* What a radio has heard in a round is what is on the air in it.
FreshOK ==
    \A d, e \in Duck : d # e /\ peers[d][e] # None /\ silence[d][e] = 0 =>
        phase = "radio" /\ peers[d][e] = OnAir(e)

\* The pieces are numbered in the order they were written, and a build keeps those it had:
\* of two ducks the lower id runs a build at least as new.
NewestFirst == \A d, e \in Duck : d < e => Knows[e] \subseteq Knows[d]

OneHolds == MaxFaults < Settle /\ NewestFirst => OneConductor

-----------------------------------------------------------------------------
(* The same beat.                                                          *)

\* A beat has passed since the duck was asked.
Been(d) == \/ state[d] \in {"conducting", "following"}
           \/ state[d] = "listening" /\ (since[d] >= 1 \/ \E e \in Duck : peers[d][e] # None)

\* When a beat begins nobody has been heard in it.
SilenceOK ==
    phase = "loop" =>
        \A d, e \in Duck : d # e /\ Been(d) /\ Been(e) => silence[d][e] >= 1

\* What d rests on is the performance that e gives, and each beat of it that passed
\* since the last one heard cost a fault.
Same(d, e) ==
    /\ pos[d] = pos[e] /\ piece[d] = piece[e]
    /\ counter[d] <= pos[e]
    /\ counter[d] = pos[e] \/ pos[e] + Missed(d) <= counter[d] + 1 + faults

\* It is one that e has ended: what d missed of its end and of the new one are faults.
Old(d, e) ==
    /\ phase = "radio" => silence[d][e] >= 1
    /\ FinalBeat + pos[e] + Missed(d) <= counter[d] + faults

Follows(d, e) == state[d] = "following" /\ lead[d] = e
HeardNow(d, e) == phase = "radio" /\ silence[d][e] = 0

\* Nobody is dismissed while it performs, and a piece is short enough, and long enough
\* for what can be missed, that its end is told from the beginning of the next one.
ToldApart == /\ "leave" \notin Habits
             /\ 4 + MaxFaults <= FinalBeat /\ FinalBeat <= 127 /\ FinalBeat < Byte

\* What d, which follows e, rests on.
Rests(d, e) ==
    /\ d # e /\ seen[d] >= 1 /\ counter[d] \in 0..FinalBeat
    /\ state[e] # "conducting" => FinalBeat <= counter[d] + faults
    /\ state[e] = "conducting" =>
         /\ Same(d, e) \/ Old(d, e)
         /\ HeardNow(d, e) => Same(d, e) /\ counter[d] = pos[e]

FollowingOK == ToldApart =>
    /\ \A d \in Duck : Follows(d, None) => seen[d] = 0 /\ counter[d] = None
    /\ \A d, e \in Duck : Follows(d, e) => Rests(d, e)

IInv == /\ TypeOK /\ ConductingOK /\ RecordsOK /\ FreshOK /\ WillingOK /\ SungOK /\ OneHolds
        /\ SilenceOK /\ FollowingOK

-----------------------------------------------------------------------------
LEMMA Bounds ==
  /\ ScoreBeats \in Nat /\ ScoreBeats >= 1 /\ Byte \in Nat /\ Byte >= 1
  /\ Settle \in Nat /\ Settle >= 1 /\ Stale \in Nat /\ Settle < Stale
  /\ Lock \in Nat /\ Lock >= 1 /\ MaxFaults \in Nat
BY ChoirAssumption DEF ChoirAssumption

LEMMA Ducks == Duck \subseteq Nat /\ IsFiniteSet(Duck) /\ None \notin Duck /\ None \notin PeerRecord
BY ChoirAssumption DEF ChoirAssumption

USE Bounds DEF MaxRoster, Breath, LongBreath

-----------------------------------------------------------------------------
(* Types.                                                                  *)

\* A turn of c: the only steps but those of time.
Turn(c) == Tick(c) \/ Heard(c) \/ Ask(c) \/ Dismiss(c) \/ \E e \in Duck : Sight(c, e)

USE DEF performance, turn, quiet, vars

\* A duck whose turn it is not.
Unchanged(x) ==
  /\ state'[x] = state[x] /\ since'[x] = since[x] /\ piece'[x] = piece[x]
  /\ pos'[x] = pos[x] /\ seen'[x] = seen[x] /\ lead'[x] = lead[x]
  /\ counter'[x] = counter[x] /\ roster'[x] = roster[x] /\ peers'[x] = peers[x]

\* A turn changes its own duck only.
LEMMA OthersKept ==
  ASSUME NEW c \in Duck, NEW x \in Duck, x # c, TypeOK, Turn(c)
  PROVE  Unchanged(x)
<1>1. CASE Tick(c)
  <2>1. CASE Join(c)
    BY <2>1 DEF Join, Turns, Retained, TypeOK, Unchanged
  <2>2. CASE StartConducting(c)
    BY <2>2 DEF StartConducting, Turns, Retained, TypeOK, Unchanged
  <2>3. CASE Listen(c) \/ Idle(c) \/ Follow(c)
    BY <2>3 DEF Listen, Idle, Follow, Ticks, Retained, TypeOK, Unchanged
  <2>4. CASE Conduct(c)
    BY <2>4 DEF Conduct, Ticks, Retained, TypeOK, Unchanged
  <2>5. CASE EndPerformance(c)
    BY <2>5 DEF EndPerformance, Forgotten, Turns, Retained, TypeOK, Unchanged
  <2> QED BY <1>1, <2>1, <2>2, <2>3, <2>4, <2>5 DEF Tick
<1>2. CASE Heard(c) \/ Ask(c)
  BY <1>2 DEF Heard, Ask, TypeOK, Unchanged
<1>3. CASE Dismiss(c)
  BY <1>3 DEF Dismiss, Forgotten, TypeOK, Unchanged
<1>4. ASSUME NEW e \in Duck, Sight(c, e) PROVE Unchanged(x)
  <2>0. peers'[x] = peers[x]
    BY <1>4 DEF Sight, Noted, Beat, NewPerformance, LeftBehind, FollowedBeacon, Hears, TypeOK
  <2>1. CASE Noted(c, e)
    BY <2>0, <2>1 DEF Noted, Unchanged
  <2>2. CASE Beat(c, e)
    BY <2>0, <2>2 DEF Beat, Observe, TypeOK, Unchanged
  <2>3. CASE NewPerformance(c, e)
    BY <2>0, <2>3 DEF NewPerformance, Observe, TypeOK, Unchanged
  <2>4. CASE LeftBehind(c, e)
    BY <2>0, <2>4 DEF LeftBehind, Forgotten, TypeOK, Unchanged
  <2> QED BY <1>4, <2>1, <2>2, <2>3, <2>4 DEF Sight
<1> QED BY <1>1, <1>2, <1>3, <1>4 DEF Turn

\* More seats than there are parts are cut off; nobody sits twice.
LEMMA Seated ==
  ASSUME NEW r \in Seq(Duck), IsInjective(r), NEW S \in SUBSET Duck, S \cap Range(r) = {},
         NEW s \in Orders(S)
  PROVE  /\ FirstSeats(r \o s) \in Seq(Duck)
         /\ Len(FirstSeats(r \o s)) <= MaxRoster
         /\ IsInjective(FirstSeats(r \o s))
<1>1. Cardinality(S) \in Nat
  BY Ducks, FS_Subset, FS_CardinalityType
<1>2. s \in Seq(Duck) /\ s \in [1..Cardinality(S) -> S] /\ IsInjective(s) /\ Len(s) = Cardinality(S)
  <2>1. s \in [1..Cardinality(S) -> S] /\ IsInjective(s)
    BY DEF Orders
  <2>2. \A k \in 1..Cardinality(S) : s[k] \in Duck
    BY <2>1
  <2> QED BY <1>1, <2>1, <2>2
<1> DEFINE t == r \o s
<1>3. t \in Seq(Duck) /\ Len(t) = Len(r) + Len(s)
  BY <1>2, ConcatProperties
<1>4. ASSUME NEW i \in DOMAIN t, NEW j \in DOMAIN t, t[i] = t[j] PROVE i = j
  <2>1. \A k \in DOMAIN t : t[k] = IF k <= Len(r) THEN r[k] ELSE s[k - Len(r)]
    BY <1>2
  <2>2. \A k \in DOMAIN t : k <= Len(r) => t[k] \in Range(r)
    BY <2>1, <1>3 DEF Range
  <2>3. \A k \in DOMAIN t : k > Len(r) => k - Len(r) \in 1..Cardinality(S) /\ t[k] \in S
    BY <2>1, <1>2, <1>3
  <2>4. CASE i <= Len(r) /\ j <= Len(r)
    BY <2>4, <2>1, <1>3, <1>4 DEF IsInjective
  <2>5. CASE i > Len(r) /\ j > Len(r)
    <3>1. s[i - Len(r)] = s[j - Len(r)] /\ i - Len(r) \in DOMAIN s /\ j - Len(r) \in DOMAIN s
      BY <2>5, <2>1, <2>3, <1>2, <1>4
    <3>2. i - Len(r) = j - Len(r)
      BY <3>1, <1>2 DEF IsInjective
    <3> QED BY <3>2, <1>3
  <2> QED BY <2>2, <2>3, <2>4, <2>5, <1>3, <1>4
<1>5. FirstSeats(t) = SubSeq(t, 1, IF Len(t) < MaxRoster THEN Len(t) ELSE MaxRoster)
  BY DEF FirstSeats
<1> HIDE DEF t
<1> DEFINE n == IF Len(t) < MaxRoster THEN Len(t) ELSE MaxRoster
<1>6. n \in 0..MaxRoster /\ n <= Len(t)
  BY <1>3
<1>7. /\ FirstSeats(t) \in Seq(Duck) /\ Len(FirstSeats(t)) = n
      /\ \A i \in 1..n : FirstSeats(t)[i] = t[i] /\ i \in DOMAIN t
  BY <1>3, <1>5, <1>6
<1> HIDE DEF n
<1>8. IsInjective(FirstSeats(t))
  <2> DEFINE u == FirstSeats(t)
  <2>1. DOMAIN u = 1..n
    BY <1>7, LenProperties
  <2> HIDE DEF u
  <2>2. \A i, j \in 1..n : u[i] = u[j] => i = j
    BY <1>4, <1>7 DEF u
  <2> QED BY <2>1, <2>2 DEF IsInjective, u
<1> QED BY <1>6, <1>7, <1>8 DEF t

\* What is on the air is a record.
LEMMA OnAirIsRecord ==
  ASSUME NEW e \in Duck, TypeOK
  PROVE  OnAir(e) \in PeerRecord /\ IsInjective(OnAir(e).roster)
<1> DEFINE r == roster[e]
<1>1. r \in Seq(Duck) /\ Len(r) <= MaxRoster /\ IsInjective(r)
  BY DEF TypeOK
<1>2. Len(r) \in Nat /\ r \in [1..Len(r) -> Duck]
  BY <1>1, LenProperties, Zenon
<1> HIDE DEF r
<1>3. Len(r) \in 0..MaxRoster
  BY <1>1, <1>2
<1>4. <<>> \in [1..0 -> Duck] /\ IsInjective(<<>>) /\ 0 \in 0..MaxRoster
  BY DEF IsInjective
<1> DEFINE Rosters == UNION {[1..n -> Duck] : n \in 0..MaxRoster}
<1>5. r \in Rosters /\ <<>> \in Rosters
  <2>1. [1..Len(r) -> Duck] \in {[1..n -> Duck] : n \in 0..MaxRoster}
    BY <1>3
  <2>2. [1..0 -> Duck] \in {[1..n -> Duck] : n \in 0..MaxRoster}
    BY <1>4
  <2> QED BY <1>2, <1>4, <2>1, <2>2, Zenon
<1> HIDE DEF Rosters
<1>6. PeerRecord = [piece : Pieces \cup {0}, roster : Rosters]
  BY DEF PeerRecord, Rosters
<1>7. piece[e] \in Pieces \cup {0}
  BY DEF TypeOK
<1>8. OnAir(e) = IF state[e] = "conducting" THEN [piece |-> piece[e], roster |-> r]
                 ELSE [piece |-> 0, roster |-> <<>>]
  BY DEF OnAir, r
<1>9. CASE state[e] = "conducting"
  BY <1>1, <1>5, <1>6, <1>7, <1>8, <1>9
<1>10. CASE state[e] # "conducting"
  BY <1>4, <1>5, <1>6, <1>8, <1>10
<1> QED BY <1>9, <1>10

\* The records a duck keeps are those it had.
LEMMA RetainedRecords ==
  ASSUME TypeOK, NEW d \in Duck, Retained(d)
  PROVE  /\ peers' \in [Duck -> [Duck -> PeerRecord \cup {None}]]
         /\ \A x, y \in Duck : peers'[x][y] \in {peers[x][y], None}
         /\ \A x \in Duck : peers'[x][x] = None
<1>1. peers \in [Duck -> [Duck -> PeerRecord \cup {None}]] /\ \A x \in Duck : peers[x][x] = None
  BY DEF TypeOK
<1>2. peers' = [peers EXCEPT ![d] = [e \in Duck |-> IF e \in Peers(d) THEN peers[d][e] ELSE None]]
  BY DEF Retained
<1>3. [e \in Duck |-> IF e \in Peers(d) THEN peers[d][e] ELSE None] \in [Duck -> PeerRecord \cup {None}]
  BY <1>1
<1>4. \A x, y \in Duck : peers'[x][y] \in {peers[x][y], None}
  BY <1>1, <1>2
<1> QED BY <1>1, <1>2, <1>3, <1>4

\* A record read of a peer is a record.
LEMMA JoinableRecord ==
  ASSUME TypeOK, RecordsOK, NEW d \in Duck, NEW e \in Joinable(d)
  PROVE  /\ peers[d][e].piece \in Pieces \cup {0}
         /\ peers[d][e].roster \in Seq(Duck)
         /\ Len(peers[d][e].roster) <= MaxRoster
         /\ IsInjective(peers[d][e].roster)
<1> DEFINE q == peers[d][e]
<1>1. e \in Duck /\ q # None
  BY DEF Joinable, Peers
<1>2. q \in PeerRecord
  BY <1>1 DEF TypeOK
<1>3. IsInjective(q.roster)
  BY <1>1 DEF RecordsOK
<1> HIDE DEF q
<1> DEFINE Rosters == UNION {[1..n -> Duck] : n \in 0..MaxRoster}
<1>4. PeerRecord = [piece : Pieces \cup {0}, roster : Rosters]
  BY DEF PeerRecord
<1> HIDE DEF Rosters
<1>5. q.piece \in Pieces \cup {0} /\ q.roster \in Rosters
  BY <1>2, <1>4
<1>6. PICK n \in 0..MaxRoster : q.roster \in [1..n -> Duck]
  BY <1>5 DEF Rosters
<1>7. q.roster \in Seq(Duck) /\ Len(q.roster) = n
  BY <1>6, SeqDef
<1> QED BY <1>3, <1>5, <1>6, <1>7 DEF q

\* The rosters stay seatings of at most MaxRoster ducks.
RosterOK == /\ roster \in [Duck -> Seq(Duck)]
            /\ \A x \in Duck : Len(roster[x]) <= MaxRoster /\ IsInjective(roster[x])

LEMMA OneRosterSet ==
  ASSUME TypeOK, NEW d \in Duck, NEW r \in Seq(Duck), Len(r) <= MaxRoster, IsInjective(r),
         roster' = [roster EXCEPT ![d] = r]
  PROVE  RosterOK'
<1>1. roster \in [Duck -> Seq(Duck)] /\ \A x \in Duck : Len(roster[x]) <= MaxRoster /\ IsInjective(roster[x])
  BY DEF TypeOK
<1>2. \A x \in Duck : roster'[x] = IF x = d THEN r ELSE roster[x]
  BY <1>1
<1>3. roster' \in [Duck -> Seq(Duck)]
  BY <1>1
<1> QED BY <1>1, <1>2, <1>3 DEF RosterOK

LEMMA NoSeats == <<>> \in Seq(Duck) /\ Len(<<>>) <= MaxRoster /\ IsInjective(<<>>)
BY EmptySeq DEF IsInjective

LEMMA KnownPieces == \A d \in Duck : Knows[d] \subseteq Pieces
BY DEF Pieces

LEMMA ForgottenTypes ==
  ASSUME TypeOK, NEW d \in Duck, Forgotten(d)
  PROVE  /\ RosterOK'
         /\ pos' \in [Duck -> 0..ScoreBeats + 6 + 1] /\ seen' \in [Duck -> 0..Lock]
         /\ lead' \in [Duck -> Duck \cup {None}] /\ counter' \in [Duck -> 0..Byte - 1 \cup {None}]
<1>1. RosterOK'
  BY NoSeats, OneRosterSet DEF Forgotten
<1>2. pos' \in [Duck -> 0..ScoreBeats + 6 + 1] /\ seen' \in [Duck -> 0..Lock]
  BY DEF Forgotten, TypeOK
<1>3. lead' \in [Duck -> Duck \cup {None}] /\ counter' \in [Duck -> 0..Byte - 1 \cup {None}]
  BY DEF Forgotten, TypeOK
<1> QED BY <1>1, <1>2, <1>3

LEMMA TickTypes ==
  ASSUME TypeOK, RecordsOK, NEW d \in Duck, Tick(d)
  PROVE  TypeOK'
<1>0. Retained(d)
  BY DEF Tick, Join, StartConducting, Listen, Idle, Conduct, Follow, EndPerformance, Turns, Ticks
<1>1. /\ peers' \in [Duck -> [Duck -> PeerRecord \cup {None}]]
      /\ \A x \in Duck : peers'[x][x] = None
  BY <1>0, RetainedRecords
<1>2. phase' \in {"loop", "radio"} /\ todo' \subseteq Duck
  BY DEF Tick, Join, StartConducting, Listen, Idle, Conduct, Follow, EndPerformance, Turns, Ticks,
         TurnOver, TypeOK
<1>3. silence' = silence /\ faults' = faults
  BY DEF Tick, Join, StartConducting, Listen, Idle, Conduct, Follow, EndPerformance
<1>q. RosterOK
  BY DEF TypeOK, RosterOK
<1>4. CASE Join(d)
  <2>1. PICK e \in Joinable(d) : /\ piece' = [piece EXCEPT ![d] = peers[d][e].piece]
                                 /\ roster' = [roster EXCEPT ![d] = peers[d][e].roster]
    BY <1>4 DEF Join
  <2>2. RosterOK'
    BY <2>1, JoinableRecord, OneRosterSet
  <2>3. piece' \in [Duck -> Pieces \cup {0}]
    BY <2>1, JoinableRecord DEF TypeOK
  <2>4. /\ state' \in [Duck -> {"off", "listening", "conducting", "following"}]
        /\ since' \in [Duck -> 0..Settle]
        /\ pos' \in [Duck -> 0..ScoreBeats + 6 + 1]
    <3>1. state' \in [Duck -> {"off", "listening", "conducting", "following"}]
      BY <1>4 DEF Join, TypeOK
    <3>2. since' \in [Duck -> 0..Settle]
      BY <1>4 DEF Join, TypeOK
    <3>3. pos' \in [Duck -> 0..ScoreBeats + 6 + 1]
      BY <1>4 DEF Join, TypeOK
    <3> QED BY <3>1, <3>2, <3>3
  <2>5. /\ seen' \in [Duck -> 0..Lock]
        /\ lead' \in [Duck -> Duck \cup {None}]
        /\ counter' \in [Duck -> 0..Byte - 1 \cup {None}]
    <3>1. seen' \in [Duck -> 0..Lock]
      BY <1>4 DEF Join, TypeOK
    <3>2. lead' \in [Duck -> Duck \cup {None}]
      BY <1>4 DEF Join, TypeOK
    <3>3. counter' \in [Duck -> 0..Byte - 1 \cup {None}]
      BY <1>4 DEF Join, TypeOK
    <3> QED BY <3>1, <3>2, <3>3
  <2> QED BY <1>1, <1>2, <1>3, <2>2, <2>3, <2>4, <2>5 DEF TypeOK, RosterOK
<1>5. CASE StartConducting(d)
  <2>1. PICK s \in Orders(Peers(d)) : roster' = [roster EXCEPT ![d] = FirstSeats(<<d>> \o s)]
    BY <1>5 DEF StartConducting
  <2>2. /\ <<d>> \in Seq(Duck) /\ IsInjective(<<d>>) /\ Range(<<d>>) = {d}
        /\ Peers(d) \in SUBSET Duck /\ d \notin Peers(d)
    BY DEF IsInjective, Range, Peers, TypeOK
  <2>3. RosterOK'
    BY <2>1, <2>2, Seated, OneRosterSet
  <2>4. piece' \in [Duck -> Pieces \cup {0}]
    BY <1>5, KnownPieces DEF StartConducting, TypeOK
  <2>5. /\ state' \in [Duck -> {"off", "listening", "conducting", "following"}]
        /\ since' \in [Duck -> 0..Settle]
        /\ pos' \in [Duck -> 0..ScoreBeats + 6 + 1]
        /\ seen' = seen /\ lead' = lead /\ counter' = counter
    BY <1>5 DEF StartConducting, TypeOK
  <2> QED BY <1>1, <1>2, <1>3, <2>3, <2>4, <2>5 DEF TypeOK, RosterOK
<1>6. CASE Listen(d) \/ Idle(d) \/ Follow(d)
  <2>1. UNCHANGED performance
    BY <1>6 DEF Listen, Idle, Follow
  <2> QED BY <1>1, <1>2, <1>3, <2>1 DEF TypeOK
<1>7. CASE Conduct(d)
  <2>1. PICK s \in Orders(Peers(d) \ Range(roster[d])) :
          roster' = [roster EXCEPT ![d] = FirstSeats(roster[d] \o s)]
    BY <1>7 DEF Conduct, TypeOK
  <2>2. /\ roster[d] \in Seq(Duck) /\ IsInjective(roster[d])
        /\ Peers(d) \ Range(roster[d]) \in SUBSET Duck
        /\ (Peers(d) \ Range(roster[d])) \cap Range(roster[d]) = {}
    BY DEF Peers, TypeOK
  <2>3. RosterOK'
    BY <2>1, <2>2, Seated, OneRosterSet
  <2>4. UNCHANGED <<state, since, piece, pos, seen, lead, counter>>
    BY <1>7 DEF Conduct
  <2> QED BY <1>1, <1>2, <1>3, <2>3, <2>4 DEF TypeOK, RosterOK
<1>8. CASE EndPerformance(d)
  <2>1. Forgotten(d)
    BY <1>8 DEF EndPerformance
  <2>2. /\ state' \in [Duck -> {"off", "listening", "conducting", "following"}]
        /\ since' \in [Duck -> 0..Settle]
        /\ piece' = piece
    BY <1>8 DEF EndPerformance, TypeOK
  <2> QED BY <1>1, <1>2, ForgottenTypes, <1>3, <2>1, <2>2 DEF TypeOK, RosterOK
<1> QED BY <1>4, <1>5, <1>6, <1>7, <1>8 DEF Tick

\* Hearing a peer replaces the record of that peer.
LEMMA HeardRecords ==
  ASSUME TypeOK, NEW d \in Duck, NEW e \in Duck, Hears(d, e)
  PROVE  /\ peers' \in [Duck -> [Duck -> PeerRecord \cup {None}]]
         /\ \A x, y \in Duck : peers'[x][y] = IF x = d /\ y = e THEN OnAir(e) ELSE peers[x][y]
         /\ \A x \in Duck : peers'[x][x] = None
         /\ silence' \in [Duck -> [Duck -> 0..Stale]]
         /\ \A x, y \in Duck : silence'[x][y] = IF x = d /\ y = e THEN 0 ELSE silence[x][y]
<1>1. /\ peers \in [Duck -> [Duck -> PeerRecord \cup {None}]] /\ \A x \in Duck : peers[x][x] = None
      /\ silence \in [Duck -> [Duck -> 0..Stale]]
  BY DEF TypeOK
<1>2. /\ peers' = [peers EXCEPT ![d][e] = OnAir(e)] /\ silence' = [silence EXCEPT ![d][e] = 0]
      /\ d # e
  BY DEF Hears
<1>3. OnAir(e) \in PeerRecord
  BY OnAirIsRecord
<1>4. \A x, y \in Duck : peers'[x][y] = IF x = d /\ y = e THEN OnAir(e) ELSE peers[x][y]
  BY <1>1, <1>2, Zenon
<1>5. \A x, y \in Duck : silence'[x][y] = IF x = d /\ y = e THEN 0 ELSE silence[x][y]
  BY <1>1, <1>2, Zenon
<1>6. peers' \in [Duck -> [Duck -> PeerRecord \cup {None}]]
  BY <1>1, <1>2, <1>3
<1>7. silence' \in [Duck -> [Duck -> 0..Stale]]
  BY <1>1, <1>2
<1> QED BY <1>1, <1>2, <1>4, <1>5, <1>6, <1>7

\* The estimate stays a place in the piece, or just past it.
LEMMA ObservedTypes ==
  ASSUME NEW d \in Duck, NEW n \in 0..Lock, NEW at \in 0..ScoreBeats + 6 + 1,
         NEW b \in 0..ScoreBeats + 6 + 1,
         TypeOK, Observe(d, n, at, b)
  PROVE  seen' \in [Duck -> 0..Lock] /\ pos' \in [Duck -> 0..ScoreBeats + 6 + 1]
<1>1. seen' \in [Duck -> 0..Lock]
  BY DEF Observe, TypeOK
<1>2. PICK p \in IF n = 0 THEN {b} ELSE IF n = Lock THEN {at}
                 ELSE {q \in 0..ScoreBeats + 6 : q \in at..b \/ q \in b..at} :
          pos' = [pos EXCEPT ![d] = p]
  BY DEF Observe
<1>3. p \in 0..ScoreBeats + 6 + 1
  BY <1>2
<1> QED BY <1>1, <1>2, <1>3 DEF TypeOK

\* The beat on the wire is a place in the piece.
LEMMA WireBeatType ==
  ASSUME TypeOK, NEW e \in Duck
  PROVE  WireBeat(e) \in 0..Byte - 1 /\ WireBeat(e) \in 0..ScoreBeats + 6 + 1
<1>1. pos[e] \in 0..ScoreBeats + 6 + 1
  BY DEF TypeOK
<1>2. pos[e] % Byte \in 0..Byte - 1 /\ pos[e] % Byte <= pos[e]
  <2>1. pos[e] \in Nat /\ Byte \in Nat \ {0}
    BY <1>1
  <2>2. \A n \in Nat, b \in Nat \ {0} : n % b \in 0..b - 1 /\ n % b <= n
    OBVIOUS
  <2> QED BY <2>1, <2>2
<1> QED BY <1>1, <1>2 DEF WireBeat

LEMMA SightTypes ==
  ASSUME TypeOK, NEW d \in Duck, NEW e \in Duck, Sight(d, e)
  PROVE  TypeOK'
<1>0. Hears(d, e)
  BY DEF Sight, Noted, Beat, NewPerformance, LeftBehind, FollowedBeacon
<1>1. /\ peers' \in [Duck -> [Duck -> PeerRecord \cup {None}]]
      /\ \A x \in Duck : peers'[x][x] = None
      /\ silence' \in [Duck -> [Duck -> 0..Stale]]
  BY <1>0, HeardRecords
<1>2. faults' = faults /\ phase' = phase /\ todo' = todo
  BY <1>0 DEF Hears
<1>3. roster[e] \in Seq(Duck) /\ Len(roster[e]) <= MaxRoster /\ IsInjective(roster[e])
  BY DEF TypeOK
<1>4. CASE Noted(d, e)
  BY <1>1, <1>2, <1>4 DEF Noted, TypeOK
<1>5. CASE Beat(d, e)
  <2>1. RosterOK'
    BY <1>3, <1>5, OneRosterSet DEF Beat
  <2>2. seen' \in [Duck -> 0..Lock] /\ pos' \in [Duck -> 0..ScoreBeats + 6 + 1]
    <3>1. CASE counter[d] = WireBeat(e)
      BY <1>5, <3>1 DEF Beat, TypeOK
    <3>2. CASE counter[d] # WireBeat(e)
      <4>1. Observe(d, seen[d], pos[d], WireBeat(e))
        BY <1>5, <3>2 DEF Beat
      <4>2. seen[d] \in 0..Lock /\ pos[d] \in 0..ScoreBeats + 6 + 1
        BY DEF TypeOK
      <4> QED BY <4>1, <4>2, WireBeatType, ObservedTypes
    <3> QED BY <3>1, <3>2
  <2>3. /\ lead' \in [Duck -> Duck \cup {None}] /\ counter' \in [Duck -> 0..Byte - 1 \cup {None}]
        /\ state' = state /\ since' = since /\ piece' = piece
    BY <1>5, WireBeatType DEF Beat, TypeOK
  <2> QED BY <1>1, <1>2, <2>1, <2>2, <2>3 DEF TypeOK, RosterOK
<1>6. CASE NewPerformance(d, e)
  <2>1. RosterOK'
    BY <1>3, <1>6, OneRosterSet DEF NewPerformance
  <2>2. seen' \in [Duck -> 0..Lock] /\ pos' \in [Duck -> 0..ScoreBeats + 6 + 1]
    <3>1. Observe(d, 0, 0, WireBeat(e))
      BY <1>6 DEF NewPerformance
    <3>2. 0 \in 0..Lock /\ 0 \in 0..ScoreBeats + 6 + 1
      OBVIOUS
    <3> QED BY <3>1, <3>2, WireBeatType, ObservedTypes
  <2>3. /\ lead' \in [Duck -> Duck \cup {None}] /\ counter' \in [Duck -> 0..Byte - 1 \cup {None}]
        /\ state' = state /\ since' = since /\ piece' \in [Duck -> Pieces \cup {0}]
    BY <1>6, WireBeatType DEF NewPerformance, TypeOK
  <2> QED BY <1>1, <1>2, <2>1, <2>2, <2>3 DEF TypeOK, RosterOK
<1>7. CASE LeftBehind(d, e)
  <2>1. Forgotten(d)
    BY <1>7 DEF LeftBehind
  <2>2. /\ state' \in [Duck -> {"off", "listening", "conducting", "following"}]
        /\ since' \in [Duck -> 0..Settle]
        /\ piece' = piece
    BY <1>7 DEF LeftBehind, TypeOK
  <2> QED BY <1>1, <1>2, ForgottenTypes, <2>1, <2>2 DEF TypeOK, RosterOK
<1> QED BY <1>4, <1>5, <1>6, <1>7 DEF Sight

LEMMA UnheardNumber == ASSUME NEW d \in Duck PROVE Cardinality(Unheard(d)) \in Nat
<1>1. Unheard(d) \subseteq Duck
  BY DEF Unheard
<1> QED BY <1>1, Ducks, FS_Subset, FS_CardinalityType

LEMMA OtherTypes ==
  ASSUME TypeOK, NEW d \in Duck, Heard(d) \/ Ask(d) \/ Dismiss(d) \/ OnTheAir
  PROVE  TypeOK'
<1>1. CASE Heard(d)
  <2>1. faults' \in 0..MaxFaults /\ todo' \subseteq Duck /\ phase' = phase
    BY <1>1, UnheardNumber DEF Heard, TurnOver, TypeOK
  <2> QED BY <1>1, <2>1 DEF Heard, TypeOK
<1>2. CASE Ask(d)
  <2>1. silence' \in [Duck -> [Duck -> 0..Stale]]
    BY <1>2 DEF Ask, TypeOK
  <2> QED BY <1>2, <2>1 DEF Ask, TypeOK
<1>3. CASE Dismiss(d)
  <2>1. Forgotten(d)
    BY <1>3 DEF Dismiss
  <2>2. /\ peers' \in [Duck -> [Duck -> PeerRecord \cup {None}]]
        /\ \A x \in Duck : peers'[x][x] = None
    BY <1>3 DEF Dismiss, TypeOK
  <2>3. /\ state' \in [Duck -> {"off", "listening", "conducting", "following"}]
        /\ since' \in [Duck -> 0..Settle]
        /\ piece' = piece /\ silence' = silence /\ faults' \in 0..MaxFaults
        /\ phase' = phase /\ todo' = todo
    BY <1>3 DEF Dismiss, TypeOK
  <2> QED BY ForgottenTypes, <2>1, <2>2, <2>3 DEF TypeOK, RosterOK
<1>4. CASE OnTheAir
  BY <1>4 DEF OnTheAir, TypeOK
<1> QED BY <1>1, <1>2, <1>3, <1>4

\* The turns of time change no more than three columns.
LEMMA AdvanceTypes ==
  ASSUME TypeOK, ConductingOK, Advance
  PROVE  TypeOK'
<1>1. phase' \in {"loop", "radio"} /\ todo' \subseteq Duck
  BY DEF Advance
<1>2. since' \in [Duck -> 0..Settle]
  BY DEF Advance, AtMost, TypeOK
<1>3. ASSUME NEW d \in Duck PROVE pos'[d] \in 0..ScoreBeats + 6 + 1
  <2>1. pos[d] \in 0..ScoreBeats + 6 + 1
    BY DEF TypeOK
  <2>2. pos'[d] = CASE state[d] = "conducting" -> pos[d] + 1
                    [] state[d] = "following" /\ seen[d] > 0 -> AtMost(pos[d] + 1, ScoreBeats + 6 + 1)
                    [] OTHER -> pos[d]
    BY DEF Advance
  <2>3. state[d] = "conducting" => pos[d] <= ScoreBeats + 2
    BY DEF ConductingOK, FinalBeat, Advance
  <2>4. CASE state[d] = "conducting"
    BY <2>1, <2>2, <2>3, <2>4
  <2>5. CASE state[d] = "following" /\ seen[d] > 0
    BY <2>1, <2>2, <2>5 DEF AtMost
  <2>6. CASE state[d] # "conducting" /\ ~(state[d] = "following" /\ seen[d] > 0)
    BY <2>1, <2>2, <2>6
  <2> QED BY <2>4, <2>5, <2>6
<1>4. pos' \in [Duck -> 0..ScoreBeats + 6 + 1]
  BY <1>3 DEF Advance
<1>5. silence' \in [Duck -> [Duck -> 0..Stale]]
  <2>1. \A d, e \in Duck : silence[d][e] \in 0..Stale
    BY DEF TypeOK
  <2>2. \A n \in 0..Stale : AtMost(n + 1, Stale) \in 0..Stale
    BY DEF AtMost
  <2> QED BY <2>1, <2>2 DEF Advance
<1> QED BY <1>1, <1>2, <1>4, <1>5 DEF Advance, TypeOK

-----------------------------------------------------------------------------
(* What every turn does.                                                   *)

LEMMA TurnTypes ==
  ASSUME TypeOK, RecordsOK, NEW c \in Duck, Turn(c)
  PROVE  TypeOK'
BY TickTypes, SightTypes, OtherTypes DEF Turn

LEMMA TurnFacts ==
  ASSUME TypeOK, NEW c \in Duck, Turn(c)
  PROVE  /\ phase' = phase /\ c \in todo
         /\ \A x \in Duck : x # c => (x \in todo' <=> x \in todo)
         /\ \A x \in Duck : x # c => Missed(x)' = Missed(x)
         /\ Missed(c) = 0 /\ (~Heard(c) => Missed(c)' = 0)
<1>1. CASE Tick(c)
  <2>1. phase = "loop" /\ c \in todo /\ phase' = phase
        /\ (todo' = todo \/ todo' = todo \ {c})
    BY <1>1 DEF Tick, Join, StartConducting, Listen, Idle, Conduct, Follow, EndPerformance, Turns, Ticks,
                TurnOver, OnTurn
  <2> QED BY <2>1 DEF Missed
<1>2. CASE Heard(c)
  <2>1. phase = "radio" /\ c \in todo /\ phase' = phase /\ todo' = todo \ {c}
    BY <1>2 DEF Heard, OnTurn, TurnOver
  <2> QED BY <1>2, <2>1 DEF Missed
<1>3. CASE Ask(c) \/ Dismiss(c)
  <2>1. phase = "loop" /\ c \in todo /\ phase' = phase /\ todo' = todo
    BY <1>3 DEF Ask, Dismiss, OnTurn
  <2> QED BY <2>1 DEF Missed
<1>4. ASSUME NEW e \in Duck, Sight(c, e)
      PROVE  phase = "radio" /\ c \in todo /\ phase' = phase /\ todo' = todo
  BY <1>4 DEF Sight, Noted, Beat, NewPerformance, LeftBehind, FollowedBeacon, Hears, OnTurn
<1>5. CASE \E e \in Duck : Sight(c, e)
  BY <1>4, <1>5 DEF Missed
<1> QED BY <1>1, <1>2, <1>3, <1>5 DEF Turn

\* Faults are only counted up.
LEMMA FaultsGrow ==
  ASSUME TypeOK, NEW c \in Duck, Turn(c)
  PROVE  faults' \in Nat /\ faults <= faults'
<1>1. CASE Tick(c)
  BY <1>1 DEF Tick, Join, StartConducting, Listen, Idle, Conduct, Follow, EndPerformance, TypeOK
<1>2. CASE Heard(c)
  BY <1>2, UnheardNumber DEF Heard, TypeOK
<1>3. CASE Ask(c) \/ Dismiss(c)
  <2>1. faults' = faults \/ faults' = faults + 1
    BY <1>3 DEF Ask, Dismiss
  <2> QED BY <2>1 DEF TypeOK
<1>4. ASSUME NEW e \in Duck, Sight(c, e)
      PROVE  faults' = faults
  BY <1>4 DEF Sight, Noted, Beat, NewPerformance, LeftBehind, FollowedBeacon, Hears
<1>5. CASE \E e \in Duck : Sight(c, e)
  BY <1>4, <1>5 DEF TypeOK
<1> QED BY <1>1, <1>2, <1>3, <1>5 DEF Turn

\* The silences of the others change only where a duck is asked that they have no record of.
LEMMA OthersSilence ==
  ASSUME TypeOK, NEW c \in Duck, Turn(c), NEW x \in Duck, x # c, NEW y \in Duck
  PROVE  \/ silence'[x][y] = silence[x][y]
         \/ Ask(c) /\ y = c /\ peers[x][y] = None /\ silence'[x][y] = 0
<1>1. CASE Tick(c)
  BY <1>1 DEF Tick, Join, StartConducting, Listen, Idle, Conduct, Follow, EndPerformance
<1>2. CASE Heard(c) \/ Dismiss(c)
  BY <1>2 DEF Heard, Dismiss
<1>3. CASE Ask(c)
  BY <1>3 DEF Ask
<1>4. ASSUME NEW e \in Duck, Sight(c, e) PROVE silence'[x][y] = silence[x][y]
  <2>1. Hears(c, e)
    BY <1>4 DEF Sight, Noted, Beat, NewPerformance, LeftBehind, FollowedBeacon
  <2> QED BY <2>1, HeardRecords
<1> QED BY <1>1, <1>2, <1>3, <1>4 DEF Turn

-----------------------------------------------------------------------------
(* Who conducts.                                                           *)

LEMMA ConductingKept ==
  ASSUME TypeOK, ConductingOK, NEW c \in Duck, Turn(c)
  PROVE  ConductingOK'
<1> SUFFICES ASSUME NEW d \in Duck, state'[d] = "conducting"
             PROVE  /\ piece'[d] \in Knows[d]
                    /\ pos'[d] <= FinalBeat + 1
                    /\ phase' = "radio" \/ d \notin todo' => pos'[d] <= FinalBeat
  BY DEF ConductingOK
<1>1. CASE d # c
  BY <1>1, OthersKept, TurnFacts DEF Unchanged, ConductingOK
<1>2. CASE d = c /\ StartConducting(c)
  BY <1>2 DEF StartConducting, FinalBeat, TypeOK
<1>3. CASE d = c /\ Conduct(c)
  BY <1>2, <1>3 DEF Conduct, ConductingOK, FinalBeat, TypeOK
<1>4. CASE d = c /\ (Join(c) \/ Listen(c) \/ Idle(c) \/ Follow(c) \/ EndPerformance(c))
  <2>1. state'[c] # "conducting"
    BY <1>4 DEF Join, Listen, Idle, Follow, EndPerformance, TypeOK
  <2> QED BY <1>4, <2>1
<1>5. CASE d = c /\ Heard(c)
  <2>1. phase = "radio" /\ state'[c] = state[c] /\ pos'[c] = pos[c] /\ piece'[c] = piece[c]
    BY <1>5 DEF Heard, OnTurn
  <2> QED BY <1>5, <2>1, TurnFacts DEF ConductingOK, FinalBeat
<1>6. CASE d = c /\ (Ask(c) \/ Dismiss(c))
  BY <1>6 DEF Ask, Dismiss, TypeOK
<1>7. ASSUME d = c, NEW e \in Duck, Sight(c, e)
      PROVE  phase = "radio" /\ state[c] = "conducting" /\ pos'[c] = pos[c] /\ piece'[c] = piece[c]
  <2>1. phase = "radio"
    BY <1>7 DEF Sight, Noted, Beat, NewPerformance, LeftBehind, FollowedBeacon, Hears, OnTurn
  <2>2. CASE Noted(c, e)
    BY <1>7, <2>1, <2>2 DEF Noted
  <2>3. CASE Beat(c, e) \/ NewPerformance(c, e)
    <3>1. state'[c] = "following"
      BY <2>3 DEF Beat, NewPerformance, FollowedBeacon
    <3> QED BY <1>7, <3>1
  <2>4. CASE LeftBehind(c, e)
    <3>1. state'[c] = "listening"
      BY <2>4 DEF LeftBehind, TypeOK
    <3> QED BY <1>7, <3>1
  <2> QED BY <1>7, <2>2, <2>3, <2>4 DEF Sight
<1>8. CASE d = c /\ \E e \in Duck : Sight(c, e)
  BY <1>7, <1>8, TurnFacts DEF ConductingOK, FinalBeat
<1> QED BY <1>1, <1>2, <1>3, <1>4, <1>5, <1>6, <1>8 DEF Turn, Tick

\* A beat later the conductor is at most one past the end, which its next tick sees.
LEMMA ConductingInTime ==
  ASSUME TypeOK, ConductingOK, Advance \/ OnTheAir
  PROVE  ConductingOK'
<1> SUFFICES ASSUME NEW d \in Duck, state'[d] = "conducting"
             PROVE  /\ piece'[d] \in Knows[d]
                    /\ pos'[d] <= FinalBeat + 1
                    /\ phase' = "radio" \/ d \notin todo' => pos'[d] <= FinalBeat
  BY DEF ConductingOK
<1>0. pos[d] \in Int
  BY DEF TypeOK
<1>1. CASE Advance
  <2>1. state[d] = "conducting" /\ piece'[d] = piece[d] /\ phase = "radio"
        /\ phase' = "loop" /\ d \in todo' /\ pos'[d] = pos[d] + 1
    BY <1>1 DEF Advance
  <2> QED BY <1>0, <2>1 DEF ConductingOK, FinalBeat
<1>2. CASE OnTheAir
  <2>1. state[d] = "conducting" /\ piece'[d] = piece[d] /\ d \notin todo /\ pos'[d] = pos[d]
    BY <1>2 DEF OnTheAir
  <2> QED BY <1>0, <2>1 DEF ConductingOK, FinalBeat
<1> QED BY <1>1, <1>2

LEMMA RecordsKept ==
  ASSUME TypeOK, RecordsOK, NEW c \in Duck, Turn(c)
  PROVE  RecordsOK'
<1> SUFFICES ASSUME NEW d \in Duck, NEW e \in Duck
             PROVE  /\ state'[d] = "off" => peers'[d][e] = None
                    /\ peers'[d][e] # None => IsInjective(peers'[d][e].roster)
  BY DEF RecordsOK
<1>1. CASE d # c
  BY <1>1, OthersKept DEF Unchanged, RecordsOK
<1>2. CASE d = c /\ Tick(c)
  <2>1. Retained(c)
    BY <1>2 DEF Tick, Join, StartConducting, Listen, Idle, Conduct, Follow, EndPerformance, Turns, Ticks
  <2>2. state'[c] = "off" => state[c] = "off"
    BY <1>2 DEF Tick, Join, StartConducting, Listen, Idle, Conduct, Follow, EndPerformance, TypeOK
  <2>3. peers'[c][e] \in {peers[c][e], None}
    BY <2>1, RetainedRecords
  <2> QED BY <1>2, <2>2, <2>3 DEF RecordsOK
<1>3. CASE d = c /\ (Heard(c) \/ Ask(c))
  BY <1>3 DEF Heard, Ask, RecordsOK, TypeOK
<1>4. CASE d = c /\ Dismiss(c)
  BY <1>4 DEF Dismiss, TypeOK
<1>5. ASSUME d = c, NEW x \in Duck, Sight(c, x)
      PROVE  /\ state'[c] # "off"
             /\ peers'[c][e] # None => IsInjective(peers'[c][e].roster)
  <2>1. Hears(c, x)
    BY <1>5 DEF Sight, Noted, Beat, NewPerformance, LeftBehind, FollowedBeacon
  <2>2. state'[c] # "off"
    BY <1>5, <2>1 DEF Sight, Noted, Beat, NewPerformance, LeftBehind, Hears, Active, TypeOK
  <2>3. IsInjective(OnAir(x).roster)
    BY OnAirIsRecord
  <2>4. peers'[c][e] = IF e = x THEN OnAir(x) ELSE peers[c][e]
    BY <2>1, HeardRecords
  <2> QED BY <2>2, <2>3, <2>4 DEF RecordsOK
<1> QED BY <1>1, <1>2, <1>3, <1>4, <1>5 DEF Turn

\* In the radio round nothing on the air changes.
LEMMA OnAirKept ==
  ASSUME TypeOK, phase = "radio", NEW c \in Duck, Turn(c), NEW e \in Duck
  PROVE  OnAir(e)' = OnAir(e)
<1>1. CASE e # c
  BY <1>1, OthersKept DEF Unchanged, OnAir
<1>2. CASE e = c /\ Heard(c)
  BY <1>2 DEF Heard, OnAir
<1>3. ASSUME e = c, NEW x \in Duck, Sight(c, x) PROVE OnAir(e)' = OnAir(e)
  <2>1. CASE Noted(c, x)
    BY <1>3, <2>1 DEF Noted, OnAir
  <2>2. CASE Beat(c, x) \/ NewPerformance(c, x) \/ LeftBehind(c, x)
    <3>1. state[c] = "following" /\ state'[c] # "conducting"
      BY <2>2 DEF Beat, NewPerformance, LeftBehind, FollowedBeacon, TypeOK
    <3> QED BY <1>3, <3>1 DEF OnAir
  <2> QED BY <1>3, <2>1, <2>2 DEF Sight
<1>4. ~Tick(c) /\ ~Ask(c) /\ ~Dismiss(c)
  BY DEF Tick, Join, StartConducting, Listen, Idle, Conduct, Follow, EndPerformance, Turns, Ticks,
         Ask, Dismiss, OnTurn
<1> QED BY <1>1, <1>2, <1>3, <1>4 DEF Turn

LEMMA FreshKept ==
  ASSUME TypeOK, FreshOK, NEW c \in Duck, Turn(c)
  PROVE  FreshOK'
<1> SUFFICES ASSUME NEW d \in Duck, NEW e \in Duck, d # e, peers'[d][e] # None, silence'[d][e] = 0
             PROVE  phase' = "radio" /\ peers'[d][e] = OnAir(e)'
  BY DEF FreshOK
<1>0. phase' = phase
  BY TurnFacts
<1>1. ASSUME peers'[d][e] = peers[d][e], silence'[d][e] = silence[d][e]
      PROVE  phase' = "radio" /\ peers'[d][e] = OnAir(e)'
  <2>1. phase = "radio" /\ peers[d][e] = OnAir(e)
    BY <1>1 DEF FreshOK
  <2> QED BY <1>0, <1>1, <2>1, OnAirKept
<1>2. CASE d # c
  <2>1. peers'[d][e] = peers[d][e]
    BY <1>2, OthersKept DEF Unchanged
  <2> QED BY <1>1, <1>2, <2>1, OthersSilence
<1>3. CASE d = c /\ Tick(c)
  <2>1. Retained(c)
    BY <1>3 DEF Tick, Join, StartConducting, Listen, Idle, Conduct, Follow, EndPerformance, Turns, Ticks
  <2>2. silence'[c][e] = silence[c][e]
    BY <1>3 DEF Tick, Join, StartConducting, Listen, Idle, Conduct, Follow, EndPerformance
  <2>3. peers'[c][e] = peers[c][e]
    BY <1>3, <2>1, RetainedRecords
  <2> QED BY <1>1, <1>3, <2>2, <2>3
<1>4. CASE d = c /\ Heard(c)
  BY <1>1, <1>4 DEF Heard
<1>5. CASE d = c /\ Ask(c)
  <2>1. peers' = peers /\ (peers[c][e] # None => silence'[c][e] = silence[c][e])
    BY <1>5 DEF Ask
  <2> QED BY <1>1, <1>5, <2>1
<1>6. CASE d = c /\ Dismiss(c)
  BY <1>6 DEF Dismiss, TypeOK
<1>7. ASSUME d = c, NEW x \in Duck, Sight(c, x)
      PROVE  phase' = "radio" /\ peers'[d][e] = OnAir(e)'
  <2>1. Hears(c, x)
    BY <1>7 DEF Sight, Noted, Beat, NewPerformance, LeftBehind, FollowedBeacon
  <2>2. phase = "radio"
    BY <2>1 DEF Hears, OnTurn
  <2>3. CASE e = x
    BY <1>0, <1>7, <2>1, <2>2, <2>3, HeardRecords, OnAirKept
  <2>4. CASE e # x
    BY <1>1, <1>7, <2>1, <2>4, HeardRecords
  <2> QED BY <2>3, <2>4
<1> QED BY <1>2, <1>3, <1>4, <1>5, <1>6, <1>7 DEF Turn

\* What is kept of a peer over a tick: every beacon that is not yet stale.
LEMMA HasKept ==
  ASSUME TypeOK, NEW d \in Duck, NEW e \in Duck, Retained(d), Has(d, e), MaxFaults < Settle
  PROVE  e \in Peers(d) /\ peers'[d][e] = peers[d][e]
<1>1. peers[d][e] # None /\ silence[d][e] < Stale
  <2>1. silence[d][e] \in Nat /\ faults \in 0..MaxFaults /\ Missed(d) \in {0, 1}
    BY DEF TypeOK, Missed
  <2> QED BY <2>1 DEF Has
<1>2. e \in Peers(d)
  BY <1>1 DEF Peers
<1> QED BY <1>2 DEF Retained, TypeOK

\* A peer on the air that is not heard in a round is a fault.
LEMMA MissedIsFault ==
  ASSUME TypeOK, NEW d \in Duck, NEW e \in Duck, d # e, Active(d), Active(e), Heard(d)
  PROVE  \/ silence[d][e] = 0 /\ peers[d][e] # None
         \/ faults + 1 <= faults'
<1>1. CASE e \in Unheard(d)
  <2>1. Unheard(d) \subseteq Duck
    BY DEF Unheard
  <2>2. IsFiniteSet(Unheard(d))
    BY <2>1, Ducks, FS_Subset
  <2>3. Cardinality(Unheard(d)) \in Nat /\ Cardinality(Unheard(d)) # 0
    BY <1>1, <2>2, FS_CardinalityType, FS_EmptySet
  <2>4. faults' = faults + Cardinality(Unheard(d)) /\ faults \in Nat
    BY DEF Heard, TypeOK
  <2> QED BY <2>3, <2>4
<1>2. CASE e \notin Unheard(d)
  BY <1>2 DEF Unheard
<1> QED BY <1>1, <1>2

\* A duck that listens after its turn and did not before has just begun to.
LEMMA ListeningAfter ==
  ASSUME TypeOK, NEW d \in Duck, Turn(d), state'[d] = "listening"
  PROVE  \/ since'[d] = 0 /\ ~Heard(d)
         \/ Listen(d) \/ Heard(d)
         \/ \E x \in Duck : Noted(d, x) /\ since'[d] = since[d] /\ state[d] = "listening"
<1>1. CASE Tick(d)
  <2>1. CASE Join(d) \/ StartConducting(d) \/ Idle(d) \/ Conduct(d) \/ Follow(d)
    BY <2>1 DEF Join, StartConducting, Idle, Conduct, Follow, TypeOK
  <2>2. CASE EndPerformance(d)
    <3>1. ~Heard(d)
      BY <2>2 DEF EndPerformance, Turns, Heard, OnTurn
    <3> QED BY <2>2, <3>1 DEF EndPerformance, TypeOK
  <2> QED BY <1>1, <2>1, <2>2 DEF Tick
<1>2. CASE Ask(d)
  BY <1>2 DEF Ask, Heard, OnTurn, TypeOK
<1>3. CASE Dismiss(d)
  BY <1>3 DEF Dismiss, TypeOK
<1>4. ASSUME NEW x \in Duck, Sight(d, x)
      PROVE  \/ since'[d] = 0 /\ ~Heard(d)
             \/ Noted(d, x) /\ since'[d] = since[d] /\ state[d] = "listening"
  <2>1. CASE Noted(d, x)
    BY <2>1 DEF Noted
  <2>2. CASE Beat(d, x) \/ NewPerformance(d, x)
    <3>1. state'[d] = "following"
      BY <2>2 DEF Beat, NewPerformance, FollowedBeacon
    <3> QED BY <3>1
  <2>3. CASE LeftBehind(d, x)
    <3>1. todo' = todo /\ d \in todo /\ since'[d] = 0
      BY <2>3 DEF LeftBehind, FollowedBeacon, Hears, OnTurn, TypeOK
    <3>2. ~Heard(d)
      BY <3>1 DEF Heard, TurnOver
    <3> QED BY <3>1, <3>2
  <2> QED BY <1>4, <2>1, <2>2, <2>3 DEF Sight
<1> QED BY <1>1, <1>2, <1>3, <1>4 DEF Turn

\* A duck is on the air as long after its turn as before, or has only begun to be.
LEMMA StandingAfter ==
  ASSUME TypeOK, NEW e \in Duck, Turn(e), Active(e)'
  PROVE  /\ Standing(e)' <= Standing(e)
         /\ Active(e) \/ (phase = "loop" /\ Standing(e)' = 0)
<1>0. since[e] \in 0..Settle /\ state[e] \in {"off", "listening", "conducting", "following"}
  BY DEF TypeOK
<1>1. CASE Tick(e)
  <2>1. CASE Join(e) \/ EndPerformance(e)
    BY <1>0, <2>1 DEF Join, EndPerformance, Ended, Standing, Active, TypeOK
  <2>2. CASE StartConducting(e)
    <3>1. since[e] >= Settle /\ state[e] = "listening" /\ state'[e] = "conducting"
      BY <2>2 DEF StartConducting, MayConduct, TypeOK
    <3> QED BY <1>0, <3>1 DEF Standing, Active
  <2>3. CASE Listen(e) \/ Idle(e) \/ Conduct(e) \/ Follow(e)
    <3>1. state'[e] = state[e] /\ since'[e] = since[e]
      BY <2>3 DEF Listen, Idle, Conduct, Follow
    <3> QED BY <1>0, <3>1 DEF Standing, Active
  <2> QED BY <1>1, <2>1, <2>2, <2>3 DEF Tick
<1>2. CASE Heard(e)
  BY <1>0, <1>2 DEF Heard, Standing, Active
<1>3. CASE Ask(e)
  BY <1>0, <1>3 DEF Ask, OnTurn, Standing, Active, TypeOK
<1>4. CASE Dismiss(e)
  BY <1>4 DEF Dismiss, Active, TypeOK
<1>5. ASSUME NEW x \in Duck, Sight(e, x)
      PROVE  Standing(e)' <= Standing(e) /\ Active(e)
  <2>0. Active(e)
    BY <1>5 DEF Sight, Noted, Beat, NewPerformance, LeftBehind, FollowedBeacon, Hears
  <2>1. CASE Noted(e, x) \/ Beat(e, x) \/ NewPerformance(e, x)
    <3>1. state'[e] = state[e] /\ since'[e] = since[e]
      BY <2>1 DEF Noted, Beat, NewPerformance
    <3> QED BY <1>0, <2>0, <3>1 DEF Standing
  <2>2. CASE LeftBehind(e, x)
    BY <1>0, <2>0, <2>2 DEF LeftBehind, FollowedBeacon, Standing, TypeOK
  <2> QED BY <1>5, <2>0, <2>1, <2>2 DEF Sight
<1> QED BY <1>1, <1>2, <1>3, <1>4, <1>5 DEF Turn

\* The ranges the sums below are made of.
LEMMA Amounts ==
  ASSUME TypeOK, NEW d \in Duck, NEW e \in Duck
  PROVE  /\ silence[d][e] \in Nat /\ since[d] \in 0..Settle /\ Standing(d) \in 0..Settle
         /\ faults \in 0..MaxFaults /\ Missed(d) \in {0, 1}
<1>1. silence[d][e] \in Nat /\ faults \in 0..MaxFaults
  BY DEF TypeOK
<1>2. since[d] \in 0..Settle /\ state[d] \in {"off", "listening", "conducting", "following"}
  BY DEF TypeOK
<1>3. Missed(d) \in {0, 1}
  BY DEF Missed
<1> QED BY <1>1, <1>2, <1>3 DEF Standing

LEMMA AmountsAfter ==
  ASSUME TypeOK', NEW d \in Duck, NEW e \in Duck
  PROVE  /\ silence'[d][e] \in Nat /\ since'[d] \in 0..Settle /\ Standing(d)' \in 0..Settle
         /\ faults' \in 0..MaxFaults /\ Missed(d)' \in {0, 1}
<1>1. silence'[d][e] \in Nat /\ faults' \in 0..MaxFaults
  BY DEF TypeOK
<1>2. since'[d] \in 0..Settle /\ state'[d] \in {"off", "listening", "conducting", "following"}
  BY DEF TypeOK
<1>3. Missed(d)' \in {0, 1}
  BY DEF Missed
<1> QED BY <1>1, <1>2, <1>3 DEF Standing

\* What d has of e outlives the turns of the others and its own.
LEMMA HasAfter ==
  ASSUME TypeOK, TypeOK', MaxFaults < Settle, NEW d \in Duck, NEW e \in Duck, d # e,
         Active(d), Active(e), Has(d, e),
         NEW c \in Duck, Turn(c),
         d = c => Listen(c) \/ Heard(c) \/ \E x \in Duck : Noted(c, x)
  PROVE  Has(d, e)' /\ (peers'[d][e] = peers[d][e] \/ Hears(d, e))
<1>0. /\ silence[d][e] \in Nat /\ silence'[d][e] \in Nat /\ faults \in Nat
      /\ faults' \in Nat /\ faults <= faults' /\ Missed(d) \in {0, 1} /\ Missed(d)' \in {0, 1}
  BY Amounts, AmountsAfter, FaultsGrow
<1>1. CASE d # c
  <2>1. peers'[d][e] = peers[d][e] /\ Missed(d)' = Missed(d)
    BY <1>1, OthersKept, TurnFacts DEF Unchanged
  <2>2. silence'[d][e] = silence[d][e]
    BY <1>1, OthersSilence DEF Has
  <2> QED BY <1>0, <2>1, <2>2 DEF Has
<1>2. CASE d = c /\ Listen(c)
  <2>1. Retained(c) /\ silence' = silence /\ faults' = faults
    BY <1>2 DEF Listen, Ticks
  <2>2. Missed(c) = 0 /\ Missed(c)' = 0
    <3>1. ~Heard(c)
      BY <1>2 DEF Listen, Ticks, Heard, OnTurn
    <3> QED BY <3>1, TurnFacts
  <2> QED BY <1>2, <2>1, <2>2, HasKept DEF Has
<1>3. CASE d = c /\ Heard(c)
  <2>1. peers' = peers /\ silence' = silence
    BY <1>3 DEF Heard
  <2>2. Missed(c) = 0
    BY TurnFacts
  <2>3. silence[c][e] = 0 \/ faults + 1 <= faults'
    BY <1>3, MissedIsFault
  <2> QED BY <1>0, <1>3, <2>1, <2>2, <2>3 DEF Has
<1>4. ASSUME d = c, NEW x \in Duck, Noted(c, x)
      PROVE  Has(d, e)' /\ (peers'[d][e] = peers[d][e] \/ Hears(d, e))
  <2>1. Hears(c, x) /\ faults' = faults
    BY <1>4 DEF Noted, Hears
  <2>2. Missed(c) = 0 /\ Missed(c)' = 0
    BY <2>1, TurnFacts DEF Hears, Missed
  <2>3. CASE e = x
    <3>1. peers'[c][e] = OnAir(e) /\ silence'[c][e] = 0
      BY <2>1, <2>3, HeardRecords
    <3>2. OnAir(e) # None
      BY OnAirIsRecord, Ducks
    <3> QED BY <1>4, <2>1, <2>3, <3>1, <3>2 DEF Has
  <2>4. CASE e # x
    <3>1. peers'[c][e] = peers[c][e] /\ silence'[c][e] = silence[c][e]
      BY <2>1, <2>4, HeardRecords
    <3> QED BY <1>4, <2>1, <2>2, <3>1 DEF Has
  <2> QED BY <2>3, <2>4
<1> QED BY <1>1, <1>2, <1>3, <1>4

\* Willing(d, e): one of the ways in which the listener d may know of e.
Willing(d, e) == \/ Has(d, e)
                 \/ since[d] + Missed(d) <= faults
                 \/ Standing(e) + Missed(d) <= faults

\* The duck that has not been heard in this round has another fault to its account.
LEMMA CountsAfter ==
  ASSUME TypeOK, TypeOK', NEW d \in Duck, NEW e \in Duck, d # e, Active(d), Active(e),
         NEW c \in Duck, Turn(c)
  PROVE  \/ Missed(d)' + faults <= Missed(d) + faults'
         \/ d = c /\ Heard(c) /\ silence[d][e] = 0 /\ peers[d][e] # None
<1>0. faults \in Nat /\ faults' \in Nat /\ faults <= faults' /\ Missed(d) \in {0, 1} /\ Missed(d)' \in {0, 1}
  BY Amounts, AmountsAfter, FaultsGrow
<1>1. CASE d = c /\ Heard(c)
  <2>1. Missed(d) = 0
    BY <1>1, TurnFacts
  <2> QED BY <1>0, <1>1, <2>1, MissedIsFault
<1>2. CASE ~(d = c /\ Heard(c))
  <2>1. Missed(d)' = Missed(d)
    BY <1>2, TurnFacts
  <2> QED BY <1>0, <2>1
<1> QED BY <1>1, <1>2

LEMMA WillingKept ==
  ASSUME TypeOK, TypeOK', WillingOK, NEW c \in Duck, Turn(c)
  PROVE  WillingOK'
<1> SUFFICES ASSUME MaxFaults < Settle, NEW d \in Duck, NEW e \in Duck, d # e,
                    state'[d] = "listening", Active(e)'
             PROVE  Willing(d, e)'
  BY DEF WillingOK, Willing
<1>0. /\ faults \in 0..MaxFaults /\ Missed(d) \in {0, 1} /\ since[d] \in Nat /\ Standing(e) \in Nat
      /\ faults' \in 0..MaxFaults /\ Missed(d)' \in {0, 1} /\ since'[d] \in Nat /\ Standing(e)' \in Nat
  BY Amounts, AmountsAfter
\* The duck has only begun to listen.
<1>1. CASE since'[d] = 0 /\ Missed(d)' = 0
  BY <1>0, <1>1 DEF Willing
<1>2. CASE ~(since'[d] = 0 /\ Missed(d)' = 0)
  <2>1. /\ state[d] = "listening" /\ since'[d] = since[d]
        /\ d = c => Listen(c) \/ Heard(c) \/ \E x \in Duck : Noted(c, x)
    <3>1. CASE d # c
      BY <3>1, OthersKept DEF Unchanged
    <3>2. CASE d = c
      <4>1. since'[c] = 0 /\ ~Heard(c) => Missed(c)' = 0
        BY TurnFacts
      <4>2. Listen(c) \/ Heard(c) \/ \E x \in Duck : Noted(c, x) /\ since'[c] = since[c] /\ state[c] = "listening"
        BY <1>2, <3>2, <4>1, ListeningAfter
      <4> QED BY <3>2, <4>2 DEF Listen, Heard
    <3> QED BY <3>1, <3>2
  <2>2. Active(d)
    BY <2>1 DEF Active
  \* The other was just asked.
  <2>3. CASE ~Active(e)
    <3>1. e = c
      BY <2>3, OthersKept DEF Unchanged, Active
    <3>2. phase = "loop" /\ Standing(e)' = 0
      BY <2>3, <3>1, StandingAfter
    <3>3. phase' = "loop"
      BY <3>2, TurnFacts
    <3> QED BY <1>0, <3>2, <3>3 DEF Willing, Missed
  <2>4. CASE Active(e)
    <3>1. Willing(d, e)
      BY <2>1, <2>4 DEF WillingOK, Willing
    <3>2. Standing(e)' <= Standing(e)
      <4>1. CASE e = c
        BY <4>1, StandingAfter
      <4>2. CASE e # c
        BY <1>0, <4>2, OthersKept DEF Unchanged, Standing
      <4> QED BY <4>1, <4>2
    <3>3. CASE Has(d, e)
      BY <2>1, <2>2, <2>4, <3>3, HasAfter DEF Willing
    <3>4. CASE Missed(d)' + faults <= Missed(d) + faults'
      BY <1>0, <2>1, <3>1, <3>2, <3>3, <3>4 DEF Willing
    <3>5. CASE d = c /\ Heard(c) /\ silence[d][e] = 0 /\ peers[d][e] # None
      <4>1. Has(d, e)
        BY <3>5 DEF Has
      <4> QED BY <3>3, <4>1
    <3> QED BY <2>2, <2>4, <3>4, <3>5, CountsAfter
  <2> QED BY <2>3, <2>4
<1> QED BY <1>1, <1>2

\* A listener that is not the lowest of those it has heard of does not conduct.
LEMMA SungKept ==
  ASSUME TypeOK, TypeOK', FreshOK, WillingOK, SungOK, NEW c \in Duck, Turn(c)
  PROVE  SungOK'
<1> SUFFICES ASSUME MaxFaults < Settle, NEW d \in Duck, NEW e \in Duck, d < e,
                    state'[d] = "listening", state'[e] = "conducting"
             PROVE  \/ Has(d, e)' /\ peers'[d][e].piece = piece'[e]
                    \/ since'[d] + Missed(d)' <= faults'
  BY DEF SungOK
<1>0. /\ faults \in 0..MaxFaults /\ Missed(d) \in {0, 1} /\ since[d] \in Nat
      /\ faults' \in 0..MaxFaults /\ Missed(d)' \in {0, 1} /\ since'[d] \in Nat
      /\ d # e
  BY Amounts, AmountsAfter, Ducks
<1>1. CASE since'[d] = 0 /\ Missed(d)' = 0
  BY <1>0, <1>1
<1>2. CASE ~(since'[d] = 0 /\ Missed(d)' = 0)
  <2>1. /\ state[d] = "listening" /\ since'[d] = since[d]
        /\ d = c => Listen(c) \/ Heard(c) \/ \E x \in Duck : Noted(c, x)
    <3>1. CASE d # c
      BY <3>1, OthersKept DEF Unchanged
    <3>2. CASE d = c
      <4>1. since'[c] = 0 /\ ~Heard(c) => Missed(c)' = 0
        BY TurnFacts
      <4>2. Listen(c) \/ Heard(c) \/ \E x \in Duck : Noted(c, x) /\ since'[c] = since[c] /\ state[c] = "listening"
        BY <1>2, <3>2, <4>1, ListeningAfter
      <4> QED BY <3>2, <4>2 DEF Listen, Heard
    <3> QED BY <3>1, <3>2
  <2>2. Active(d)
    BY <2>1 DEF Active
  \* It begins to conduct: d was no peer of it, so d has not been on the air for long.
  <2>3. CASE e = c /\ StartConducting(c)
    <3>1. state[e] = "listening" /\ since[e] >= Settle /\ d \notin Peers(e) /\ phase = "loop"
      BY <1>0, <2>3, Ducks DEF StartConducting, MayConduct, Lowest, Turns, OnTurn
    <3>2. Willing(e, d)
      BY <1>0, <2>2, <3>1 DEF WillingOK, Willing
    <3>3. ~Has(e, d)
      <4>1. Retained(e)
        BY <2>3 DEF StartConducting, Turns
      <4> QED BY <1>0, <3>1, <4>1, HasKept
    <3>4. since[e] \in 0..Settle /\ Missed(e) \in {0, 1}
      BY Amounts
    <3>5. Standing(d) <= faults
      BY <1>0, <3>1, <3>2, <3>3, <3>4, Amounts DEF Willing
    <3>6. since[d] <= faults
      BY <2>1, <3>5 DEF Standing
    <3>7. phase' = "loop" /\ faults' = faults
      BY <2>3, <3>1 DEF StartConducting, Turns
    <3> QED BY <1>0, <2>1, <3>6, <3>7 DEF Missed
  <2>4. CASE ~(e = c /\ StartConducting(c))
    <3>1. state[e] = "conducting" /\ piece'[e] = piece[e]
      <4>1. CASE e # c
        BY <4>1, OthersKept DEF Unchanged
      <4>2. CASE e = c /\ Tick(c)
        <5>1. Conduct(c)
          BY <2>4, <4>2 DEF Tick, Join, Listen, Idle, Follow, EndPerformance, TypeOK
        <5> QED BY <4>2, <5>1 DEF Conduct
      <4>3. CASE e = c /\ Heard(c)
        BY <4>3 DEF Heard
      <4>4. CASE e = c /\ (Ask(c) \/ Dismiss(c))
        BY <4>4 DEF Ask, Dismiss, TypeOK
      <4>5. ASSUME e = c, NEW x \in Duck, Sight(c, x) PROVE state[e] = "conducting" /\ piece'[e] = piece[e]
        BY <4>5 DEF Sight, Noted, Beat, NewPerformance, LeftBehind, FollowedBeacon, TypeOK
      <4> QED BY <4>1, <4>2, <4>3, <4>4, <4>5 DEF Turn
    <3>2. Active(e)
      BY <3>1 DEF Active
    <3>3. OnAir(e).piece = piece[e]
      BY <3>1 DEF OnAir
    <3>4. CASE Has(d, e) /\ peers[d][e].piece = piece[e]
      <4>1. Has(d, e)' /\ (peers'[d][e] = peers[d][e] \/ Hears(d, e))
        BY <1>0, <2>1, <2>2, <3>2, <3>4, HasAfter
      <4>2. Hears(d, e) => peers'[d][e] = OnAir(e)
        BY HeardRecords
      <4> QED BY <3>1, <3>3, <3>4, <4>1, <4>2
    <3>5. CASE since[d] + Missed(d) <= faults /\ Missed(d)' + faults <= Missed(d) + faults'
      BY <1>0, <2>1, <3>5
    \* It was heard in this round, and is on the air as it was then.
    <3>6. CASE d = c /\ Heard(c) /\ silence[d][e] = 0 /\ peers[d][e] # None
      <4>1. peers[d][e] = OnAir(e)
        BY <1>0, <3>6 DEF FreshOK
      <4>2. Has(d, e)
        BY <3>6 DEF Has
      <4> QED BY <3>3, <3>4, <4>1, <4>2
    <3>7. \/ Missed(d)' + faults <= Missed(d) + faults'
          \/ d = c /\ Heard(c) /\ silence[d][e] = 0 /\ peers[d][e] # None
      BY <1>0, <2>2, <3>2, CountsAfter
    <3>8. (Has(d, e) /\ peers[d][e].piece = piece[e]) \/ since[d] + Missed(d) <= faults
      BY <2>1, <3>1 DEF SungOK
    <3> QED BY <3>4, <3>5, <3>6, <3>7, <3>8
  <2> QED BY <2>3, <2>4
<1> QED BY <1>1, <1>2

\* The beat is taken only by a duck that nobody else can be holding it from.
LEMMA OneHoldsKept ==
  ASSUME TypeOK, TypeOK', ConductingOK, WillingOK, SungOK, OneHolds, NEW c \in Duck, Turn(c)
  PROVE  OneHolds'
<1> SUFFICES ASSUME MaxFaults < Settle, NewestFirst, NEW d \in Duck, NEW e \in Duck,
                    state'[d] = "conducting", state'[e] = "conducting", d # e
             PROVE  FALSE
  BY DEF OneHolds, OneConductor, NewestFirst
<1>1. ASSUME NEW x \in Duck, state'[x] = "conducting", ~(x = c /\ StartConducting(c))
      PROVE  state[x] = "conducting"
  <2>1. CASE x # c
    BY <1>1, <2>1, OthersKept DEF Unchanged
  <2>2. CASE x = c /\ Tick(c)
    BY <1>1, <2>2 DEF Tick, Join, Listen, Idle, Conduct, Follow, EndPerformance, TypeOK
  <2>3. CASE x = c /\ (Heard(c) \/ Ask(c) \/ Dismiss(c))
    BY <1>1, <2>3 DEF Heard, Ask, Dismiss, TypeOK
  <2>4. ASSUME x = c, NEW y \in Duck, Sight(c, y) PROVE state[x] = "conducting"
    BY <1>1, <2>4 DEF Sight, Noted, Beat, NewPerformance, LeftBehind, FollowedBeacon, TypeOK
  <2> QED BY <2>1, <2>2, <2>3, <2>4 DEF Turn
\* y takes the beat while x holds it.
<1>2. ASSUME StartConducting(c), NEW x \in Duck, x # c, state[x] = "conducting" PROVE FALSE
  <2>1. /\ state[c] = "listening" /\ since[c] >= Settle /\ Joinable(c) = {}
        /\ \A y \in Peers(c) : c < y
    BY <1>2 DEF StartConducting, MayConduct, Lowest
  <2>2. Willing(c, x)
    BY <1>2, <2>1 DEF WillingOK, Willing, Active
  <2>3. /\ faults \in 0..MaxFaults /\ Missed(c) \in {0, 1} /\ since[c] \in Nat
        /\ Standing(x) = Settle
    BY <1>2, Amounts DEF Standing
  <2>4. Has(c, x)
    BY <2>1, <2>2, <2>3 DEF Willing
  <2>5. Retained(c)
    BY <1>2 DEF StartConducting, Turns
  <2>6. x \in Peers(c) /\ c < x
    BY <2>1, <2>4, <2>5, HasKept
  <2>7. peers[c][x].piece = piece[x]
    BY <1>2, <2>1, <2>3, <2>6 DEF SungOK
  <2>8. piece[x] \in Knows[c]
    BY <1>2, <2>6 DEF ConductingOK, NewestFirst
  <2> QED BY <2>1, <2>6, <2>7, <2>8 DEF Joinable
<1>3. CASE StartConducting(c) /\ c \in {d, e}
  BY <1>1, <1>2, <1>3
<1>4. CASE ~(StartConducting(c) /\ c \in {d, e})
  <2>1. state[d] = "conducting" /\ state[e] = "conducting"
    BY <1>1, <1>4
  <2> QED BY <2>1 DEF OneHolds, OneConductor, NewestFirst
<1> QED BY <1>3, <1>4

-----------------------------------------------------------------------------
(* When a beat begins.                                                     *)

LEMMA BeenBefore ==
  ASSUME TypeOK, RecordsOK, phase = "loop", NEW c \in Duck, Turn(c), NEW d \in Duck, Been(d)'
  PROVE  Been(d) /\ ~(d = c /\ Ask(c))
<1>1. CASE d # c
  BY <1>1, OthersKept DEF Unchanged, Been
<1>2. CASE d = c /\ Tick(c)
  <2>1. Retained(c)
    BY <1>2 DEF Tick, Join, StartConducting, Listen, Idle, Conduct, Follow, EndPerformance, Turns, Ticks
  <2>2. \A e \in Duck : peers'[c][e] # None => peers[c][e] # None
    BY <2>1, RetainedRecords
  <2>3. phase = "loop" /\ phase' = "loop" /\ ~Ask(c)
    <3>1. ~Ask(c)
      BY <1>2, <2>2 DEF Been, Ask, Tick, Join, StartConducting, Listen, Idle, Conduct, Follow, EndPerformance,
             Ended, RecordsOK, TypeOK
    <3> QED BY <3>1, TurnFacts
  <2>4. CASE Join(c)
    <3>1. state[c] = "listening" /\ \E e \in Duck : peers[c][e] # None
      BY <2>4 DEF Join, Joinable, Peers
    <3> QED BY <1>2, <2>3, <3>1 DEF Been
  <2>5. CASE StartConducting(c)
    BY <1>2, <2>3, <2>5 DEF StartConducting, MayConduct, Been, TypeOK
  <2>6. CASE Listen(c) \/ Idle(c) \/ Conduct(c) \/ Follow(c)
    <3>1. state'[c] = state[c] /\ since'[c] = since[c]
      BY <2>6 DEF Listen, Idle, Conduct, Follow
    <3> QED BY <1>2, <2>2, <2>3, <3>1 DEF Been
  <2>7. CASE EndPerformance(c)
    BY <1>2, <2>3, <2>7 DEF EndPerformance, Ended, Been
  <2> QED BY <1>2, <2>4, <2>5, <2>6, <2>7 DEF Tick
<1>3. CASE d = c /\ (Ask(c) \/ Dismiss(c))
  <2>1. CASE Ask(c)
    <3>1. state'[c] = "listening" /\ since'[c] = 0 /\ \A e \in Duck : peers'[c][e] = None
      BY <2>1 DEF Ask, RecordsOK, TypeOK
    <3> QED BY <1>3, <3>1 DEF Been
  <2>2. CASE Dismiss(c)
    <3>1. state'[c] = "off"
      BY <2>2 DEF Dismiss, TypeOK
    <3> QED BY <1>3, <3>1 DEF Been
  <2> QED BY <1>3, <2>1, <2>2
<1>4. ~Heard(c) /\ ~\E x \in Duck : Sight(c, x)
  BY DEF Heard, OnTurn, Sight, Noted, Beat, NewPerformance, LeftBehind, FollowedBeacon, Hears
<1> QED BY <1>1, <1>2, <1>3, <1>4 DEF Turn

LEMMA SilenceKept ==
  ASSUME TypeOK, RecordsOK, SilenceOK, NEW c \in Duck, Turn(c)
  PROVE  SilenceOK'
<1> SUFFICES ASSUME phase' = "loop", NEW d \in Duck, NEW e \in Duck, d # e, Been(d)', Been(e)'
             PROVE  silence'[d][e] >= 1
  BY DEF SilenceOK
<1>1. phase = "loop"
  BY TurnFacts
<1>2. Been(d) /\ Been(e) /\ ~(d = c /\ Ask(c)) /\ ~(e = c /\ Ask(c))
  BY <1>1, BeenBefore
<1>3. silence[d][e] >= 1
  BY <1>1, <1>2 DEF SilenceOK
<1>4. silence'[d][e] = silence[d][e]
  <2>1. CASE d # c
    BY <1>2, <2>1, OthersSilence
  <2>2. CASE d = c
    <3>1. ~Heard(c) /\ ~Ask(c) /\ ~\E x \in Duck : Sight(c, x)
      BY <1>1, <1>2, <2>2 DEF Heard, OnTurn, Sight, Noted, Beat, NewPerformance, LeftBehind, FollowedBeacon, Hears
    <3> QED BY <3>1 DEF Turn, Dismiss, Tick, Join, StartConducting, Listen, Idle, Conduct, Follow, EndPerformance
  <2> QED BY <2>1, <2>2
<1> QED BY <1>3, <1>4

-----------------------------------------------------------------------------
(* Following.                                                              *)

\* What a follower rests on bears more faults.
LEMMA RestsLonger ==
  ASSUME TypeOK, TypeOK', NEW d \in Duck, NEW e \in Duck, Rests(d, e),
         phase' = phase, faults <= faults', Missed(d)' + faults <= Missed(d) + faults',
         seen'[d] = seen[d], counter'[d] = counter[d], pos'[d] = pos[d], piece'[d] = piece[d],
         pos'[e] = pos[e], piece'[e] = piece[e], state'[e] = state[e],
         silence'[d][e] = silence[d][e]
  PROVE  Rests(d, e)'
<1>1. /\ faults \in Nat /\ faults' \in Nat /\ Missed(d) \in {0, 1} /\ Missed(d)' \in {0, 1}
      /\ silence[d][e] \in Nat
  BY Amounts, AmountsAfter
<1>2. counter[d] \in Nat /\ pos[d] \in Nat /\ pos[e] \in Nat
  BY DEF Rests, TypeOK, FinalBeat
<1>3. Same(d, e) => Same(d, e)'
  BY <1>1, <1>2 DEF Same
<1>4. Old(d, e) => Old(d, e)'
  BY <1>1, <1>2 DEF Old, FinalBeat
<1>5. HeardNow(d, e)' => HeardNow(d, e)
  BY DEF HeardNow
<1>6. state'[e] # "conducting" => FinalBeat <= counter'[d] + faults'
  BY <1>1, <1>2 DEF Rests, FinalBeat
<1> QED BY <1>3, <1>4, <1>5, <1>6 DEF Rests

\* The follower's turn comes at no cost but what it missed.
LEMMA CountedAfter ==
  ASSUME TypeOK, TypeOK', NEW d \in Duck, NEW c \in Duck, Turn(c), ~(d = c /\ Heard(c))
  PROVE  Missed(d)' + faults <= Missed(d) + faults'
<1>1. faults \in Nat /\ faults' \in Nat /\ faults <= faults' /\ Missed(d) \in {0, 1} /\ Missed(d)' \in {0, 1}
  BY Amounts, AmountsAfter, FaultsGrow
<1>2. Missed(d)' = Missed(d)
  BY TurnFacts
<1> QED BY <1>1, <1>2

\* A beat heard of a conductor that still performs is a place in its piece.
LEMMA WireBeatExact ==
  ASSUME TypeOK, ConductingOK, ToldApart, phase = "radio", NEW e \in Duck, state[e] = "conducting"
  PROVE  WireBeat(e) = pos[e] /\ pos[e] \in 0..FinalBeat
<1>1. pos[e] \in Nat /\ pos[e] <= FinalBeat
  BY DEF ConductingOK, TypeOK
<1>2. FinalBeat \in Nat /\ FinalBeat < Byte
  BY DEF ToldApart, FinalBeat
<1>3. pos[e] % Byte = pos[e]
  BY <1>1, <1>2
<1> QED BY <1>1, <1>2, <1>3 DEF WireBeat

\* The performance that d rests on: if it were one that e has ended, e's counter
\* would have been seen to jump back.
LEMMA NotOld ==
  ASSUME TypeOK, ConductingOK, ToldApart, phase = "radio", NEW d \in Duck, NEW e \in Duck,
         state[e] = "conducting", counter[d] \in 0..FinalBeat, Old(d, e)
  PROVE  Restarted(d, e)
<1>1. WireBeat(e) = pos[e] /\ pos[e] \in 0..FinalBeat
  BY WireBeatExact
<1>2. faults \in 0..MaxFaults /\ Missed(d) \in {0, 1}
  BY Amounts
<1>3. FinalBeat \in Nat /\ 4 + MaxFaults <= FinalBeat /\ FinalBeat <= 127 /\ FinalBeat < Byte
  BY DEF ToldApart, FinalBeat
<1>4. FinalBeat + pos[e] <= counter[d] + faults
  BY <1>1, <1>2, <1>3 DEF Old
<1>5. counter[d] - pos[e] \in 4..127 /\ counter[d] - pos[e] < Byte
  <2>1. counter[d] - pos[e] \in Int /\ counter[d] - pos[e] >= FinalBeat - faults
    BY <1>1, <1>2, <1>3, <1>4
  <2>2. counter[d] - pos[e] <= FinalBeat /\ FinalBeat - faults >= 4
    BY <1>1, <1>2, <1>3
  <2> QED BY <1>2, <1>3, <2>1, <2>2
<1>6. (counter[d] - pos[e]) % Byte = counter[d] - pos[e]
  <2> DEFINE x == counter[d] - pos[e]
  <2>1. x \in 0..Byte - 1
    BY <1>5
  <2> HIDE DEF x
  <2>2. x % Byte = x
    BY <2>1
  <2> QED BY <2>2 DEF x
<1>7. counter[d] # None
  BY ChoirAssumption, <1>3 DEF ChoirAssumption
<1> QED BY <1>1, <1>5, <1>6, <1>7 DEF Restarted, Back

\* Heard again, e's beat is d's beat: d rests on nothing else.
LEMMA BeatExact ==
  ASSUME TypeOK, ConductingOK, FollowingOK, ToldApart, NEW d \in Duck, NEW e \in Duck,
         Beat(d, e) \/ NewPerformance(d, e)
  PROVE  /\ state'[d] = "following" /\ lead'[d] = e /\ state'[e] = "conducting" /\ d # e
         /\ seen'[d] >= 1 /\ counter'[d] = pos[e] /\ pos[e] \in 0..FinalBeat
         /\ pos'[d] = pos[e] /\ pos'[e] = pos[e] /\ piece'[d] = piece[e] /\ piece'[e] = piece[e]
<1>1. /\ d # e /\ phase = "radio" /\ state[d] = "following" /\ state[e] = "conducting"
      /\ lead[d] \in {None, e}
  BY DEF Beat, NewPerformance, FollowedBeacon, Hears, OnTurn
<1>2. WireBeat(e) = pos[e] /\ pos[e] \in 0..FinalBeat
  BY <1>1, WireBeatExact
<1>3. /\ state' = state /\ lead'[d] = e /\ counter'[d] = pos[e]
  BY <1>2 DEF Beat, NewPerformance, TypeOK
<1>4. pos'[e] = pos[e] /\ piece'[e] = piece[e]
  <2>1. Turn(d) /\ e # d
    BY <1>1 DEF Turn, Sight
  <2> QED BY <2>1, OthersKept DEF Unchanged
<1>5. pos[d] \in Nat /\ seen[d] \in 0..Lock
  BY DEF TypeOK
<1>6. CASE Beat(d, e)
  <2>1. ~Restarted(d, e) /\ piece'[d] = piece[d] /\ piece[d] = piece[e]
    BY <1>6 DEF Beat, Restarted
  <2>2. CASE lead[d] = None
    <3>1. seen[d] = 0 /\ counter[d] = None
      BY <1>1, <2>2 DEF FollowingOK, Follows
    <3>2. counter[d] # WireBeat(e)
      BY <1>2, <3>1, ChoirAssumption DEF ChoirAssumption, FinalBeat
    <3>3. Observe(d, 0, pos[d], pos[e])
      BY <1>2, <1>6, <3>1, <3>2 DEF Beat
    <3>4. seen'[d] = 1 /\ pos'[d] = pos[e]
      BY <3>3 DEF Observe, TypeOK
    <3> QED BY <1>1, <1>2, <1>3, <1>4, <2>1, <3>4
  <2>3. CASE lead[d] = e
    <3>1. Rests(d, e)
      BY <1>1, <2>3 DEF FollowingOK, Follows
    <3>2. Same(d, e)
      BY <1>1, <2>1, <3>1, NotOld DEF Rests
    <3>3. pos[d] = pos[e] /\ seen[d] >= 1
      BY <3>1, <3>2 DEF Rests, Same
    <3>4. CASE counter[d] = WireBeat(e)
      <4>1. seen'[d] = seen[d] /\ pos'[d] = pos[d]
        BY <1>6, <3>4 DEF Beat
      <4> QED BY <1>1, <1>2, <1>3, <1>4, <2>1, <3>3, <4>1
    <3>5. CASE counter[d] # WireBeat(e)
      <4>1. Observe(d, seen[d], pos[e], pos[e])
        BY <1>2, <1>6, <3>3, <3>5 DEF Beat
      <4>2. seen'[d] >= 1
        BY <1>5, <3>3, <4>1 DEF Observe, TypeOK
      <4>3. PICK p \in IF seen[d] = 0 THEN {pos[e]} ELSE IF seen[d] = Lock THEN {pos[e]}
                       ELSE {q \in 0..ScoreBeats + 6 : q \in pos[e]..pos[e] \/ q \in pos[e]..pos[e]} :
                pos' = [pos EXCEPT ![d] = p]
        BY <4>1 DEF Observe
      <4>4. p = pos[e]
        BY <1>2, <4>3 DEF FinalBeat
      <4>5. pos'[d] = pos[e]
        BY <4>3, <4>4 DEF TypeOK
      <4> QED BY <1>1, <1>2, <1>3, <1>4, <2>1, <4>2, <4>5
    <3> QED BY <3>4, <3>5
  <2> QED BY <1>1, <2>2, <2>3
<1>7. CASE NewPerformance(d, e)
  <2>1. Observe(d, 0, 0, pos[e])
    BY <1>2, <1>7 DEF NewPerformance
  <2>2. seen'[d] = 1 /\ pos'[d] = pos[e]
    BY <2>1 DEF Observe, TypeOK
  <2>3. piece'[d] = piece[e]
    BY <1>7 DEF NewPerformance, TypeOK
  <2> QED BY <1>1, <1>2, <1>3, <1>4, <2>2, <2>3
<1> QED BY <1>6, <1>7

\* The conductor's turns: what a follower missed of the end, and of the next
\* beginning, it has missed in rounds that were counted.
LEMMA ConductorTurns ==
  ASSUME TypeOK, TypeOK', ConductingOK, ToldApart, NEW d \in Duck, NEW e \in Duck, d # e,
         Turn(e), Rests(d, e)
  PROVE  Rests(d, e)'
<1>0. /\ seen'[d] = seen[d] /\ counter'[d] = counter[d] /\ pos'[d] = pos[d] /\ piece'[d] = piece[d]
      /\ phase' = phase /\ Missed(d)' = Missed(d)
  BY OthersKept, TurnFacts DEF Unchanged
<1>1. /\ faults \in Nat /\ faults' \in Nat /\ faults <= faults' /\ Missed(d) \in {0, 1}
      /\ counter[d] \in Nat /\ pos[d] \in Nat /\ pos[e] \in Nat /\ FinalBeat \in Nat
  <2>1. FinalBeat \in Nat /\ counter[d] \in 0..FinalBeat
    BY DEF Rests, FinalBeat
  <2>2. pos[d] \in Nat /\ pos[e] \in Nat
    BY DEF TypeOK
  <2>3. faults \in Nat /\ faults' \in Nat /\ faults <= faults' /\ Missed(d) \in {0, 1}
    BY FaultsGrow, Amounts
  <2> QED BY <2>1, <2>2, <2>3
<1>2. CASE StartConducting(e)
  <2>1. /\ state[e] = "listening" /\ phase = "loop" /\ pos'[e] = 0 /\ faults' = faults
    BY <1>2 DEF StartConducting, Turns, OnTurn, TypeOK
  <2>2. FinalBeat <= counter[d] + faults
    BY <2>1 DEF Rests
  <2>3. Old(d, e)' /\ ~HeardNow(d, e)'
    BY <1>0, <1>1, <2>1, <2>2 DEF Old, HeardNow, Missed, FinalBeat
  <2>4. FinalBeat <= counter'[d] + faults'
    BY <1>0, <2>1, <2>2
  <2> QED BY <1>0, <2>3, <2>4 DEF Rests, FinalBeat
<1>3. CASE EndPerformance(e)
  <2>1. state'[e] = "listening" /\ faults' = faults /\ phase = "loop"
    BY <1>3 DEF EndPerformance, Turns, OnTurn, TypeOK
  <2>2. FinalBeat <= counter[d] + faults
    <3>1. CASE state[e] # "conducting"
      BY <3>1 DEF Rests
    <3>2. CASE state[e] = "conducting"
      <4>1. pos[e] > FinalBeat
        BY <1>3, <3>2 DEF EndPerformance, Ended, FinalBeat
      <4>2. counter[d] <= FinalBeat
        BY <1>1 DEF Rests
      <4>3. CASE Same(d, e)
        <5>1. pos[e] + Missed(d) <= counter[d] + 1 + faults
          BY <1>1, <4>1, <4>2, <4>3 DEF Same
        <5> QED BY <1>1, <4>1, <5>1
      <4>4. CASE Old(d, e)
        BY <1>1, <4>4 DEF Old
      <4> QED BY <3>2, <4>3, <4>4 DEF Rests
    <3> QED BY <3>1, <3>2
  <2> QED BY <1>0, <2>1, <2>2 DEF Rests, FinalBeat
<1>4. CASE Conduct(e) \/ Heard(e)
  <2>1. /\ pos'[e] = pos[e] /\ piece'[e] = piece[e] /\ state'[e] = state[e]
        /\ silence' = silence
    BY <1>4 DEF Conduct, Heard
  <2> QED BY <1>0, <1>1, <2>1, RestsLonger
\* It does not conduct, before or after.
<1>5. CASE ~StartConducting(e) /\ ~EndPerformance(e) /\ ~Conduct(e) /\ ~Heard(e)
  <2>1. CASE \E x \in Duck : Noted(e, x)
    <3>1. /\ pos'[e] = pos[e] /\ piece'[e] = piece[e] /\ state'[e] = state[e]
      BY <2>1 DEF Noted
    <3>2. silence'[d][e] = silence[d][e]
      <4>1. ~Ask(e)
        BY <2>1 DEF Ask, OnTurn, Noted, Hears
      <4> QED BY <4>1, OthersSilence
    <3> QED BY <1>0, <1>1, <3>1, <3>2, RestsLonger
  <2>2. CASE ~\E x \in Duck : Noted(e, x)
    <3>1. state[e] # "conducting" /\ state'[e] # "conducting"
      <4>1. CASE Tick(e)
        BY <1>5, <4>1 DEF Tick, Join, Listen, Idle, Follow, TypeOK
      <4>2. CASE Ask(e)
        BY <4>2 DEF Ask, TypeOK
      <4>3. CASE Dismiss(e)
        BY <4>3 DEF Dismiss, ToldApart, TypeOK
      <4>4. CASE \E x \in Duck : Sight(e, x)
        BY <2>2, <4>4 DEF Sight, Beat, NewPerformance, LeftBehind, FollowedBeacon, TypeOK
      <4> QED BY <1>5, <4>1, <4>2, <4>3, <4>4 DEF Turn
    <3>2. FinalBeat <= counter'[d] + faults'
      BY <1>0, <1>1, <3>1 DEF Rests
    <3> QED BY <1>0, <3>1, <3>2 DEF Rests, FinalBeat
  <2> QED BY <2>1, <2>2
<1> QED BY <1>2, <1>3, <1>4, <1>5

LEMMA FollowingKept ==
  ASSUME TypeOK, TypeOK', ConductingOK, FollowingOK, NEW c \in Duck, Turn(c)
  PROVE  FollowingOK'
<1> SUFFICES ASSUME ToldApart, NEW d \in Duck, state'[d] = "following"
             PROVE  /\ lead'[d] = None => seen'[d] = 0 /\ counter'[d] = None
                    /\ \A e \in Duck : lead'[d] = e => Rests(d, e)'
  BY DEF FollowingOK, Follows, ToldApart, FinalBeat
<1>n. \A e \in Duck : e # None
  BY Ducks
<1>1. ASSUME d # c PROVE /\ lead'[d] = None => seen'[d] = 0 /\ counter'[d] = None
                         /\ \A e \in Duck : lead'[d] = e => Rests(d, e)'
  <2>1. Unchanged(d)
    BY <1>1, OthersKept
  <2>2. ASSUME NEW e \in Duck, lead'[d] = e PROVE Rests(d, e)'
    <3>1. Rests(d, e)
      BY <2>1, <2>2 DEF Unchanged, FollowingOK, Follows
    <3>2. CASE e = c
      BY <1>1, <3>1, <3>2, ConductorTurns
    <3>3. CASE e # c
      <4>1. silence'[d][e] = silence[d][e]
        BY <1>1, <3>3, OthersSilence
      <4>2. Unchanged(e)
        BY <3>3, OthersKept
      <4> QED BY <1>1, <2>1, <3>1, <4>1, <4>2, RestsLonger, CountedAfter, FaultsGrow, TurnFacts DEF Unchanged
    <3> QED BY <3>2, <3>3
  <2> QED BY <2>1, <2>2 DEF Unchanged, FollowingOK, Follows
<1>2. CASE d = c /\ Join(c)
  <2>1. lead'[c] = None /\ seen'[c] = 0 /\ counter'[c] = None
    BY <1>2 DEF Join, TypeOK
  <2> QED BY <1>2, <1>n, <2>1
<1>3. CASE d = c /\ (Follow(c) \/ Heard(c) \/ \E x \in Duck : Noted(c, x))
  <2>1. UNCHANGED performance
    BY <1>3 DEF Follow, Heard, Noted
  <2>2. ASSUME NEW e \in Duck, lead'[d] = e PROVE Rests(d, e)'
    <3>1. Rests(d, e) /\ state[d] = "following" /\ lead[d] = e
      BY <2>1, <2>2 DEF FollowingOK, Follows
    <3>2. CASE Follow(c)
      <4>1. silence' = silence /\ ~Heard(c)
        BY <3>2 DEF Follow, Ticks, Heard, OnTurn
      <4> QED BY <1>3, <2>1, <3>1, <4>1, RestsLonger, CountedAfter, FaultsGrow, TurnFacts
    <3>3. CASE Heard(c)
      <4>1. silence' = silence /\ phase = "radio" /\ Missed(c) = 0
        BY <3>3, TurnFacts DEF Heard, OnTurn
      <4>2. CASE state[e] = "conducting"
        <5>1. Active(d) /\ Active(e) /\ d # e
          BY <3>1, <4>2 DEF Active, Rests
        <5>2. CASE silence[d][e] = 0
          <6>1. Same(d, e) /\ counter[d] = pos[e]
            BY <3>1, <4>1, <4>2, <5>2 DEF Rests, HeardNow
          <6>2. Same(d, e)' /\ counter'[d] = pos'[e]
            BY <2>1, <6>1 DEF Same
          <6> QED BY <2>1, <3>1, <4>2, <6>2 DEF Rests, FinalBeat
        <5>3. CASE faults + 1 <= faults'
          <6>1. Missed(d)' + faults <= Missed(d) + faults'
            BY <1>3, <4>1, <5>3, Amounts, AmountsAfter
          <6> QED BY <2>1, <3>1, <4>1, <6>1, RestsLonger, FaultsGrow, TurnFacts
        <5> QED BY <1>3, <3>3, <5>1, <5>2, <5>3, MissedIsFault
      <4>3. CASE state[e] # "conducting"
        <5>1. FinalBeat <= counter[d] + faults
          BY <3>1, <4>3 DEF Rests
        <5>2. FinalBeat <= counter[d] + faults'
          <6>1. counter[d] \in Nat /\ faults \in Nat /\ faults' \in Nat /\ faults <= faults' /\ FinalBeat \in Nat
            BY <3>1, FaultsGrow, Amounts DEF Rests, FinalBeat
          <6> QED BY <5>1, <6>1
        <5> QED BY <2>1, <3>1, <4>3, <5>2 DEF Rests, FinalBeat
      <4> QED BY <4>2, <4>3
    <3>4. ASSUME NEW x \in Duck, Noted(c, x) PROVE Rests(d, e)'
      <4>1. Hears(c, x) /\ faults' = faults /\ todo' = todo /\ phase' = phase
        BY <3>4 DEF Noted, Hears
      <4>2. Missed(d)' = Missed(d)
        BY <4>1 DEF Missed
      <4>3. CASE e = x
        <5>1. state[e] # "conducting"
          BY <1>3, <3>1, <3>4, <4>3 DEF Noted
        <5> QED BY <2>1, <3>1, <4>1, <5>1 DEF Rests, FinalBeat
      <4>4. CASE e # x
        <5>1. silence'[d][e] = silence[d][e]
          BY <1>3, <4>1, <4>4, HeardRecords
        <5> QED BY <2>1, <3>1, <4>1, <4>2, <5>1, RestsLonger, Amounts
      <4> QED BY <4>3, <4>4
    <3> QED BY <1>3, <3>2, <3>3, <3>4
  <2> QED BY <2>1, <2>2 DEF FollowingOK, Follows
<1>4. ASSUME d = c, NEW x \in Duck, Beat(c, x) \/ NewPerformance(c, x)
      PROVE  /\ lead'[d] = None => seen'[d] = 0 /\ counter'[d] = None
             /\ \A e \in Duck : lead'[d] = e => Rests(d, e)'
  <2>1. /\ lead'[d] = x /\ state'[x] = "conducting" /\ d # x
        /\ seen'[d] >= 1 /\ counter'[d] = pos[x] /\ pos[x] \in 0..FinalBeat
        /\ pos'[d] = pos[x] /\ pos'[x] = pos[x] /\ piece'[d] = piece[x] /\ piece'[x] = piece[x]
    BY <1>4, BeatExact
  <2>2. Same(d, x)' /\ counter'[d] = pos'[x]
    BY <2>1 DEF Same, FinalBeat
  <2>3. Rests(d, x)'
    BY <2>1, <2>2 DEF Rests, FinalBeat
  <2> QED BY <1>n, <2>1, <2>3
<1>5. \/ d # c
      \/ d = c /\ Join(c)
      \/ d = c /\ (Follow(c) \/ Heard(c) \/ \E x \in Duck : Noted(c, x))
      \/ d = c /\ \E x \in Duck : Beat(c, x) \/ NewPerformance(c, x)
  <2> SUFFICES ASSUME d = c
               PROVE  Join(c) \/ Follow(c) \/ Heard(c) \/ \E x \in Duck : Noted(c, x) \/ Beat(c, x) \/ NewPerformance(c, x)
    OBVIOUS
  <2>1. CASE Tick(c)
    BY <2>1 DEF Tick, StartConducting, Listen, Idle, Conduct, EndPerformance, TypeOK
  <2>2. CASE Ask(c) \/ Dismiss(c)
    BY <2>2 DEF Ask, Dismiss, TypeOK
  <2>3. CASE \E x \in Duck : Sight(c, x)
    BY <2>3 DEF Sight, LeftBehind, TypeOK
  <2> QED BY <2>1, <2>2, <2>3 DEF Turn
<1> QED BY <1>1, <1>2, <1>3, <1>4, <1>5

-----------------------------------------------------------------------------
(* The rounds.                                                             *)

LEMMA OnTheAirKeeps ==
  ASSUME IInv, OnTheAir
  PROVE  IInv'
<1>0. /\ phase = "loop" /\ phase' = "radio" /\ todo = {} /\ todo' = Duck
      /\ UNCHANGED performance /\ peers' = peers /\ silence' = silence /\ faults' = faults
  BY DEF OnTheAir
<1>1. TypeOK'
  BY <1>0, OtherTypes DEF IInv, OnTheAir, TypeOK
<1>2. ConductingOK'
  BY ConductingInTime DEF IInv
<1>3. RecordsOK' /\ OneHolds' /\ SilenceOK'
  BY <1>0 DEF IInv, RecordsOK, OneHolds, OneConductor, SilenceOK
<1>4. FreshOK'
  BY <1>0 DEF IInv, FreshOK
<1>5. \A d \in Duck : Missed(d) = 0 /\ Missed(d)' = 0
  BY <1>0 DEF Missed
<1>6. \A d, e \in Duck : /\ Active(e)' = Active(e) /\ Standing(e)' = Standing(e)
                         /\ Has(d, e)' = Has(d, e)
  BY <1>0, <1>5 DEF Active, Standing, Has
<1>7. WillingOK' /\ SungOK'
  BY <1>0, <1>5, <1>6 DEF IInv, WillingOK, SungOK
<1>8. FollowingOK'
  <2> SUFFICES ASSUME ToldApart, NEW d \in Duck, state[d] = "following"
               PROVE  /\ lead[d] = None => seen[d] = 0 /\ counter[d] = None
                      /\ \A e \in Duck : lead[d] = e => Rests(d, e)'
    BY <1>0 DEF FollowingOK, Follows, ToldApart, FinalBeat
  <2>1. ASSUME NEW e \in Duck, lead[d] = e PROVE Rests(d, e)'
    <3>1. Rests(d, e)
      BY <2>1 DEF IInv, FollowingOK, Follows
    <3>2. state[e] = "conducting" => silence[d][e] >= 1
      BY <1>0, <3>1 DEF IInv, SilenceOK, Been, Rests
    <3>3. state[e] = "conducting" => Same(d, e)' \/ Old(d, e)'
      BY <1>0, <1>5, <3>1, <3>2 DEF Rests, Same, Old, FinalBeat
    <3> QED BY <1>0, <3>1, <3>2, <3>3 DEF Rests, HeardNow, FinalBeat
  <2> QED BY <2>1 DEF IInv, FollowingOK, Follows
<1> QED BY <1>1, <1>2, <1>3, <1>4, <1>7, <1>8 DEF IInv

LEMMA AdvanceKeeps ==
  ASSUME IInv, Advance
  PROVE  IInv'
<1>0. /\ phase = "radio" /\ phase' = "loop" /\ todo = {} /\ todo' = Duck
      /\ state' = state /\ piece' = piece /\ seen' = seen /\ lead' = lead /\ counter' = counter
      /\ roster' = roster /\ peers' = peers /\ faults' = faults
  BY DEF Advance
<1>t. TypeOK
  BY DEF IInv
<1>1. TypeOK'
  BY AdvanceTypes DEF IInv
<1>2. ConductingOK'
  BY ConductingInTime DEF IInv
<1>3. RecordsOK' /\ OneHolds'
  BY <1>0 DEF IInv, RecordsOK, OneHolds, OneConductor
<1>4. \A d, e \in Duck : /\ Missed(d) = 1 /\ Missed(d)' = 0 /\ Active(d)' = Active(d)
                         /\ silence[d][e] \in 0..Stale /\ since[d] \in 0..Settle
                         /\ Standing(d) \in 0..Settle
                         /\ faults \in 0..MaxFaults
  <2>1. \A d \in Duck : Missed(d) = 1 /\ Missed(d)' = 0 /\ Active(d)' = Active(d)
    BY <1>0 DEF Missed, Active
  <2>2. \A d, e \in Duck : silence[d][e] \in 0..Stale
    BY <1>t DEF TypeOK
  <2> QED BY <1>t, <2>1, <2>2, Amounts
<1>5. \A d, e \in Duck : d # e /\ (peers[d][e] # None \/ (Active(d) /\ Active(e))) =>
          silence'[d][e] = AtMost(silence[d][e] + 1, Stale)
  BY DEF Advance
<1>6. \A n \in 0..Stale : AtMost(n + 1, Stale) >= 1 /\ AtMost(n + 1, Stale) <= n + 1
  BY DEF AtMost
<1>7. FreshOK'
  BY <1>0, <1>4, <1>5, <1>6 DEF FreshOK
<1>8. SilenceOK'
  <2> SUFFICES ASSUME NEW d \in Duck, NEW e \in Duck, d # e, Been(d)', Been(e)'
               PROVE  silence'[d][e] >= 1
    BY DEF SilenceOK
  <2>1. Active(d) /\ Active(e)
    BY <1>0 DEF Been, Active
  <2> QED BY <1>4, <1>5, <1>6, <2>1
<1>9. \A d, e \in Duck : d # e /\ Has(d, e) => Has(d, e)'
  <2> SUFFICES ASSUME NEW d \in Duck, NEW e \in Duck, d # e, Has(d, e) PROVE Has(d, e)'
    OBVIOUS
  <2>1. silence'[d][e] <= silence[d][e] + 1 /\ silence'[d][e] \in Nat
    BY <1>1, <1>4, <1>5, <1>6, AmountsAfter DEF Has
  <2>2. silence[d][e] = 0 \/ silence[d][e] + 1 <= faults + 1
    BY <1>4 DEF Has
  <2>3. silence'[d][e] <= faults + 1
    BY <1>4, <2>1, <2>2
  <2>4. Missed(d)' = 0 /\ peers'[d][e] # None
    BY <1>0, <1>4 DEF Has
  <2> QED BY <1>0, <2>1, <2>3, <2>4 DEF Has
<1>10. \A d \in Duck : /\ state[d] = "listening" => since'[d] <= since[d] + 1 /\ since'[d] \in Nat
                       /\ Standing(d)' <= Standing(d) + 1
  <2> TAKE d \in Duck
  <2>1. since[d] \in 0..Settle /\ since'[d] \in 0..Settle
    BY <1>1, <1>4, AmountsAfter
  <2>2. since'[d] = IF state[d] = "listening" THEN AtMost(since[d] + 1, Settle) ELSE since[d]
    BY DEF Advance
  <2>3. since'[d] <= since[d] + 1
    BY <2>1, <2>2 DEF AtMost
  <2>4. Standing(d)' <= Standing(d) + 1
    BY <1>0, <2>1, <2>3 DEF Standing
  <2> QED BY <2>1, <2>3, <2>4
<1>11. WillingOK'
  <2> SUFFICES ASSUME MaxFaults < Settle, NEW d \in Duck, NEW e \in Duck, d # e,
                      state[d] = "listening", Active(e)
               PROVE  Has(d, e)' \/ since'[d] <= faults \/ Standing(e)' <= faults
    BY <1>0, <1>1, <1>4, AmountsAfter DEF WillingOK
  <2>1. Has(d, e) \/ since[d] + 1 <= faults \/ Standing(e) + 1 <= faults
    BY <1>4 DEF IInv, WillingOK
  <2>2. /\ since'[d] <= since[d] + 1 /\ since'[d] \in Nat /\ since[d] \in Nat /\ faults \in Nat
        /\ Standing(e)' <= Standing(e) + 1 /\ Standing(e) \in Nat /\ Standing(e)' \in Nat
    BY <1>1, <1>4, <1>10, AmountsAfter
  <2> QED BY <1>9, <2>1, <2>2
<1>12. SungOK'
  <2> SUFFICES ASSUME MaxFaults < Settle, NEW d \in Duck, NEW e \in Duck, d < e,
                      state[d] = "listening", state[e] = "conducting"
               PROVE  \/ Has(d, e)' /\ peers[d][e].piece = piece[e]
                      \/ since'[d] <= faults
    BY <1>0, <1>1, <1>4, AmountsAfter DEF SungOK
  <2>1. (Has(d, e) /\ peers[d][e].piece = piece[e]) \/ since[d] + 1 <= faults
    BY <1>4 DEF IInv, SungOK
  <2>2. since'[d] <= since[d] + 1 /\ since'[d] \in Nat /\ since[d] \in Nat /\ faults \in Nat /\ d # e
    BY <1>1, <1>4, <1>10, Ducks
  <2> QED BY <1>9, <2>1, <2>2
<1>13. FollowingOK'
  <2> SUFFICES ASSUME ToldApart, NEW d \in Duck, state[d] = "following"
               PROVE  /\ lead[d] = None => seen[d] = 0 /\ counter[d] = None
                      /\ \A e \in Duck : lead[d] = e => Rests(d, e)'
    BY <1>0 DEF FollowingOK, Follows, ToldApart, FinalBeat
  <2>1. ASSUME NEW e \in Duck, lead[d] = e PROVE Rests(d, e)'
    <3>1. Rests(d, e)
      BY <2>1 DEF IInv, FollowingOK, Follows
    <3>2. /\ FinalBeat \in Nat /\ faults \in Nat /\ counter[d] \in Nat /\ pos[d] \in Nat /\ pos[e] \in Nat
          /\ seen[d] \in Nat
      <4>1. FinalBeat \in Nat /\ counter[d] \in 0..FinalBeat
        BY <3>1 DEF Rests, FinalBeat
      <4>2. pos[d] \in Nat /\ pos[e] \in Nat /\ seen[d] \in Nat
        BY <1>t DEF TypeOK
      <4> QED BY <1>4, <4>1, <4>2
    <3>3. CASE state[e] = "conducting"
      <4>1. pos'[e] = pos[e] + 1 /\ pos[e] <= FinalBeat
        BY <1>0, <3>3 DEF Advance, IInv, ConductingOK
      <4>2. pos'[d] = AtMost(pos[d] + 1, ScoreBeats + 6 + 1)
        BY <3>1, <3>2 DEF Advance, Rests
      <4>3. ~HeardNow(d, e)'
        BY <1>0 DEF HeardNow
      <4>4. CASE Same(d, e)
        <5>1. pos'[d] = pos'[e]
          BY <3>2, <4>1, <4>2, <4>4 DEF Same, AtMost, FinalBeat
        <5>2. counter[d] <= pos'[e] /\ pos'[e] + 0 <= counter[d] + 1 + faults
          BY <1>4, <3>2, <4>1, <4>4 DEF Same
        <5>3. Same(d, e)'
          BY <1>0, <1>4, <4>4, <5>1, <5>2 DEF Same
        <5> QED BY <1>0, <3>1, <3>3, <4>3, <5>3 DEF Rests, FinalBeat
      <4>5. CASE Old(d, e)
        <5>1. FinalBeat + pos[e] + 1 <= counter[d] + faults
          BY <1>4, <4>5 DEF Old
        <5>2. Old(d, e)'
          BY <1>0, <1>4, <3>2, <4>1, <5>1 DEF Old, FinalBeat
        <5> QED BY <1>0, <3>1, <3>3, <4>3, <5>2 DEF Rests, FinalBeat
      <4> QED BY <3>1, <3>3, <4>4, <4>5 DEF Rests
    <3>4. CASE state[e] # "conducting"
      BY <1>0, <3>1, <3>4 DEF Rests, FinalBeat
    <3> QED BY <3>3, <3>4
  <2> QED BY <2>1 DEF IInv, FollowingOK, Follows
<1> QED BY <1>1, <1>2, <1>3, <1>7, <1>8, <1>11, <1>12, <1>13 DEF IInv

-----------------------------------------------------------------------------
(* The parts.                                                              *)

\* A seat's rank is a place in the roster, and no two seats have the same.
LEMMA Ranks ==
  ASSUME NEW r \in Seq(Duck), NEW i \in DOMAIN r, NEW j \in DOMAIN r, i # j
  PROVE  /\ Cardinality(Under(r, i)) \in 1..Len(r)
         /\ Cardinality(Under(r, i)) # Cardinality(Under(r, j))
<1>0. DOMAIN r = 1..Len(r) /\ Len(r) \in Nat
  BY LenProperties
<1>1. \A k \in DOMAIN r : Register[r[k]] \in Nat
  BY ChoirAssumption, <1>0 DEF ChoirAssumption
<1>2. IsFiniteSet(1..Len(r)) /\ Cardinality(1..Len(r)) = Len(r)
  <2>1. Len(r) \in Int /\ 1 \in Int
    BY <1>0
  <2>2. /\ IsFiniteSet(1..Len(r))
        /\ Cardinality(1..Len(r)) = IF 1 > Len(r) THEN 0 ELSE Len(r) - 1 + 1
    BY <2>1, FS_Interval
  <2> QED BY <1>0, <2>2
<1>3. ASSUME NEW k \in DOMAIN r
      PROVE  /\ Under(r, k) \subseteq 1..Len(r) /\ IsFiniteSet(Under(r, k)) /\ k \in Under(r, k)
             /\ Cardinality(Under(r, k)) \in 1..Len(r)
  <2>1. Under(r, k) \subseteq 1..Len(r) /\ k \in Under(r, k)
    BY <1>0, <1>1 DEF Under
  <2>2. IsFiniteSet(Under(r, k)) /\ Cardinality(Under(r, k)) <= Len(r)
    BY <1>2, <2>1, FS_Subset
  <2>3. Cardinality(Under(r, k)) \in Nat /\ Cardinality(Under(r, k)) # 0
    BY <2>1, <2>2, FS_CardinalityType, FS_EmptySet
  <2> QED BY <1>0, <2>1, <2>2, <2>3
<1>4. Under(r, i) \subseteq Under(r, j) \/ Under(r, j) \subseteq Under(r, i)
  BY <1>0, <1>1 DEF Under
<1>5. Under(r, i) # Under(r, j)
  <2>1. ~(i \in Under(r, j) /\ j \in Under(r, i))
    BY <1>0, <1>1 DEF Under
  <2> QED BY <1>3, <2>1
<1> QED BY <1>3, <1>4, <1>5, FS_Subset

LEMMA EnsembleParts ==
  ASSUME NEW n \in 1..MaxRoster
  PROVE  /\ Len(Ensemble(n)) = n
         /\ \A i, j \in 1..n : Ensemble(n)[i] = Ensemble(n)[j] => i = j
<1>1. CASE n = 1
  BY <1>1 DEF Ensemble
<1>2. CASE n = 2
  BY <1>2 DEF Ensemble
<1>3. CASE n = 3
  BY <1>3 DEF Ensemble
<1>4. CASE n = 4
  BY <1>4 DEF Ensemble
<1> QED BY <1>1, <1>2, <1>3, <1>4

\* Two ducks of one roster are seated apart, however their voices lie.
LEMMA LinesDiffer == TypeOK => OneLineEach
<1> SUFFICES ASSUME TypeOK, NEW d \in Duck, NEW e \in Duck, d # e,
                    MyPart(d) # None, MyPart(e) # None, roster[d] = roster[e]
             PROVE  MyPart(d) # MyPart(e)
  BY DEF OneLineEach, Singing
<1> DEFINE r == roster[d]
<1>1. r \in Seq(Duck) /\ Len(r) <= MaxRoster /\ IsInjective(r)
  BY DEF TypeOK
<1>2. PICK i \in DOMAIN r : r[i] = d /\ MyPart(d) = SeatAll(r)[i]
  BY DEF MyPart
<1>3. PICK j \in DOMAIN r : r[j] = e /\ MyPart(e) = SeatAll(r)[j]
  BY DEF MyPart
<1>4. i # j
  BY <1>2, <1>3
<1> HIDE DEF r
<1>5. Len(r) \in 1..MaxRoster
  <2>1. DOMAIN r = 1..Len(r) /\ Len(r) \in Nat
    BY <1>1, LenProperties
  <2> QED BY <1>1, <1>2, <2>1
<1> DEFINE rank(k) == Cardinality(Under(r, k))
           parts == Ensemble(Len(r))
<1>e. Len(parts) = Len(r) /\ \A a, b \in 1..Len(r) : parts[a] = parts[b] => a = b
  BY <1>5, EnsembleParts
<1>6. ASSUME NEW k \in DOMAIN r, rank(k) \in 1..Len(r)
      PROVE  SeatAll(r)[k] = parts[rank(k)]
  <2>1. SeatAll(r)[k] = IF rank(k) <= Len(parts) THEN parts[rank(k)] ELSE "soprano"
    BY DEF SeatAll
  <2> HIDE DEF parts, rank
  <2>2. rank(k) <= Len(r)
    BY <1>5, <1>6
  <2> QED BY <1>e, <2>1, <2>2
<1>7. /\ Cardinality(Under(r, i)) \in 1..Len(r) /\ Cardinality(Under(r, j)) \in 1..Len(r)
      /\ Cardinality(Under(r, i)) # Cardinality(Under(r, j))
  BY <1>1, <1>4, Ranks
<1>8. rank(i) \in 1..Len(r) /\ rank(j) \in 1..Len(r) /\ rank(i) # rank(j)
  BY <1>7
<1> HIDE DEF parts, rank
<1>9. MyPart(d) = parts[rank(i)] /\ MyPart(e) = parts[rank(j)]
  BY <1>2, <1>3, <1>6, <1>8
<1> QED BY <1>e, <1>8, <1>9

-----------------------------------------------------------------------------
(* Theorems.                                                               *)

LEMMA Initially == Init => IInv
<1> SUFFICES ASSUME Init PROVE IInv
  OBVIOUS
<1>1. TypeOK
  <2>1. \A d \in Duck : Len(roster[d]) <= MaxRoster /\ IsInjective(roster[d])
    BY NoSeats DEF Init
  <2>2. roster \in [Duck -> Seq(Duck)]
    BY NoSeats DEF Init
  <2>3. peers \in [Duck -> [Duck -> PeerRecord \cup {None}]] /\ \A d \in Duck : peers[d][d] = None
    BY DEF Init
  <2> QED BY <2>1, <2>2, <2>3 DEF Init, TypeOK
<1>2. \A d \in Duck : state[d] = "off"
  BY DEF Init
<1>3. ConductingOK /\ WillingOK /\ SungOK /\ OneHolds /\ SilenceOK /\ FollowingOK
  BY <1>2 DEF ConductingOK, WillingOK, SungOK, OneHolds, OneConductor, SilenceOK, Been, FollowingOK, Follows
<1>4. RecordsOK /\ FreshOK
  BY DEF Init, RecordsOK, FreshOK
<1> QED BY <1>1, <1>3, <1>4 DEF IInv

LEMMA Preserved == IInv /\ [Next]_vars => IInv'
<1> SUFFICES ASSUME IInv, [Next]_vars PROVE IInv'
  OBVIOUS
<1>0. TypeOK /\ ConductingOK /\ RecordsOK /\ FreshOK /\ WillingOK /\ SungOK /\ OneHolds /\ SilenceOK /\ FollowingOK
  BY DEF IInv
<1>1. ASSUME NEW c \in Duck, Turn(c) PROVE IInv'
  <2>1. TypeOK'
    BY <1>0, <1>1, TurnTypes
  <2>2. ConductingOK' /\ RecordsOK' /\ FreshOK'
    BY <1>0, <1>1, ConductingKept, RecordsKept, FreshKept
  <2>3. WillingOK' /\ SungOK' /\ OneHolds'
    BY <1>0, <1>1, <2>1, WillingKept, SungKept, OneHoldsKept
  <2>4. SilenceOK' /\ FollowingOK'
    BY <1>0, <1>1, <2>1, SilenceKept, FollowingKept
  <2> QED BY <2>1, <2>2, <2>3, <2>4 DEF IInv
<1>2. CASE Next
  BY <1>1, <1>2, OnTheAirKeeps, AdvanceKeeps DEF Next, Rounds, Turn
<1>3. CASE UNCHANGED vars
  BY <1>3 DEF IInv, TypeOK, ConductingOK, RecordsOK, FreshOK, OnAir, WillingOK, SungOK, OneHolds, OneConductor,
         SilenceOK, Been, FollowingOK, Follows, Rests, Same, Old, HeardNow, Has, Missed, Standing, Active, FinalBeat
<1> QED BY <1>2, <1>3

\* The parts hold together: each step of a duck needs what the others say of it.
THEOREM Invariance == Spec => []IInv
BY Initially, Preserved, PTL DEF Spec

\* Every duck's performance, roster and records are what they are meant to be: nobody is
\* seated twice, in a roster of its own or one heard, whatever was missed and whoever left.
THEOREM ChoirTypeCorrect == Spec => []TypeOK
<1>1. IInv => TypeOK
  BY DEF IInv
<1> QED BY <1>1, Invariance, PTL

\* Two ducks never hold the beat in one room: a duck settles for longer than there are
\* faults, so it has heard everybody who is willing, and of two the lower id takes the beat.
THEOREM OneHoldsTheBeat ==
  ASSUME MaxFaults < Settle, NewestFirst
  PROVE  Spec => []OneConductor
<1>1. IInv => OneConductor
  BY DEF IInv, OneHolds
<1> QED BY <1>1, Invariance, PTL

\* Ducks that sing together sing the same bar of the same piece, and each its own line:
\* a conductor that was heard in this round is followed at its beat and in its piece.
THEOREM TheSameMusic ==
  ASSUME ToldApart
  PROVE  Spec => []SameMusic
<1>1. IInv => InStep
  <2> SUFFICES ASSUME IInv, NEW d \in Duck, NEW e \in Duck, state[d] = "following", lead[d] = e,
                      state[e] = "conducting", phase = "radio", silence[d][e] = 0
               PROVE  pos[d] = pos[e] /\ piece[d] = piece[e]
    BY DEF InStep
  <2>1. Rests(d, e)
    BY DEF IInv, FollowingOK, Follows
  <2> QED BY <2>1 DEF Rests, HeardNow, Same
<1>2. IInv => SameMusic
  BY <1>1, LinesDiffer DEF IInv, SameMusic
<1> QED BY <1>2, Invariance, PTL

\* Casting needs none of this: two ducks with one roster never sing each other's line.
THEOREM ALineEach == Spec => []OneLineEach
BY ChoirTypeCorrect, LinesDiffer, PTL
=============================================================================

------------------------------- MODULE Choir -------------------------------
(***************************************************************************)
(* Several robots singing one piece (`chorale.rs` of `robotd`, over the    *)
(* beacons `btd` carries).  Nobody negotiates: a duck that was asked says  *)
(* on the air that it is willing, the lowest id in earshot conducts, the   *)
(* conductor's beat counter is the only clock, and its roster is the only  *)
(* casting.                                                                *)
(*                                                                         *)
(* Time is counted in beats, and a beat has two rounds: every loop runs,   *)
(* then every radio hears what is on the air, or misses it.  A turn changes*)
(* only its own duck, so the ducks take their turns in one order.          *)
(***************************************************************************)
EXTENDS Integers, Sequences, FiniteSets, SequencesExt

CONSTANTS
    Duck,        \* the ducks, by the id their beacons carry
    Register,    \* Register[d]: the quantised pitch of its voice
    Knows,       \* Knows[d]: the pieces its build can sing
    None,        \* no conductor, no beat, nothing heard
    ScoreBeats,  \* bound: beats in every piece
    Byte,        \* values of the beat on the wire
    Settle,      \* SETTLE, in beats
    Stale,       \* PEER_STALE, in beats
    Lock,        \* observations that make a lock
    MaxFaults,   \* bound: dismissals, and beacons on the air that a duck misses
    Habits       \* the circumstances considered, of Circumstances

\* "leave": a duck is dismissed while it performs.
\* "late":  a duck is asked when too little of a piece is left to lock on.
Circumstances == {"leave", "late"}

MaxRoster == 4
Breath    == 2      \* beats past the end at which the conductor lets go
LongBreath == 6      \* and a follower
Pieces    == UNION {Knows[d] : d \in Duck}

\* A peer's beacon as far as it is read again; 0 is the idle beacon's piece.
PeerRecord == [piece : Pieces \cup {0}, roster : UNION {[1..n -> Duck] : n \in 0..MaxRoster}]

ASSUME ChoirAssumption ==
    /\ Duck \subseteq Nat /\ IsFiniteSet(Duck)
    /\ None \notin Nat \cup PeerRecord
    /\ Register \in [Duck -> Nat]
    /\ DOMAIN Knows = Duck
    /\ MaxFaults \in Nat
    /\ {ScoreBeats, Byte, Settle, Stale, Lock} \subseteq Nat \ {0}
    /\ Settle < Stale
    /\ Habits \subseteq Circumstances

VARIABLES
    state,     \* State: "off", "listening", "conducting" or "following"
    since,     \* beats listening, up to Settle
    piece,     \* piece_id
    pos,       \* where in the piece: the conductor's count, a follower's estimate
    seen,      \* beats the follower's estimate rests on, up to Lock
    lead,      \* whom a follower follows
    counter,   \* the counter a follower last took
    roster,    \* the seats, its own or as last heard
    peers,     \* peers[d][e]: d's record of e's last beacon
    silence,   \* silence[d][e]: beats since d heard e, up to Stale
    faults,    \* so far
    phase,     \* the round: "loop" or "radio"
    todo       \* the ducks whose turn is still to come in it

performance == <<state, since, piece, pos, seen, lead, counter, roster>>
turn        == <<phase, todo>>
quiet       == <<silence, faults>>
vars        == <<performance, peers, silence, faults, turn>>

OnTurn(round, d) == phase = round /\ d \in todo /\ \A e \in todo : d <= e
TurnOver(d)      == todo' = todo \ {d} /\ UNCHANGED phase

Active(d) == state[d] # "off"

TypeOK ==
    /\ state \in [Duck -> {"off", "listening", "conducting", "following"}]
    /\ since \in [Duck -> 0..Settle]
    /\ piece \in [Duck -> Pieces \cup {0}]
    /\ pos \in [Duck -> 0..ScoreBeats + LongBreath + 1]
    /\ seen \in [Duck -> 0..Lock]
    /\ lead \in [Duck -> Duck \cup {None}]
    /\ counter \in [Duck -> 0..Byte - 1 \cup {None}]
    /\ roster \in [Duck -> Seq(Duck)]
    /\ \A d \in Duck : Len(roster[d]) <= MaxRoster /\ IsInjective(roster[d])
    /\ peers \in [Duck -> [Duck -> PeerRecord \cup {None}]]
    /\ \A d \in Duck : peers[d][d] = None
    /\ silence \in [Duck -> [Duck -> 0..Stale]]
    /\ faults \in 0..MaxFaults
    /\ phase \in {"loop", "radio"} /\ todo \subseteq Duck

Init ==
    /\ state = [d \in Duck |-> "off"]
    /\ since = [d \in Duck |-> 0]
    /\ piece = [d \in Duck |-> 0]
    /\ pos = [d \in Duck |-> 0]
    /\ seen = [d \in Duck |-> 0]
    /\ lead = [d \in Duck |-> None]
    /\ counter = [d \in Duck |-> None]
    /\ roster = [d \in Duck |-> <<>>]
    /\ peers = [d \in Duck |-> [e \in Duck |-> None]]
    /\ silence = [d \in Duck |-> [e \in Duck |-> 0]]
    /\ faults = 0
    /\ phase = "loop" /\ todo = Duck

-----------------------------------------------------------------------------
(* Casting: the parts of an ensemble of n, handed out in register order.   *)

Ensemble(n) ==
    CASE n = 0 -> <<>>
      [] n = 1 -> <<"soprano">>
      [] n = 2 -> <<"bass", "soprano">>
      [] n = 3 -> <<"bass", "alto", "soprano">>
      [] OTHER -> <<"bass", "tenor", "alto", "soprano">>

\* Mutant of Under, without the tie: two equal voices share a rank.
UnderOrEqual(r, i) == {j \in DOMAIN r : Register[r[j]] <= Register[r[i]]}

\* The seats that sing no higher than seat i: a tie keeps the roster's order.
Under(r, i) == {j \in DOMAIN r : \/ Register[r[j]] < Register[r[i]]
                                 \/ Register[r[j]] = Register[r[i]] /\ j <= i}

SeatAll(r) == [i \in DOMAIN r |-> LET rank == Cardinality(Under(r, i)) IN
                   IF rank <= Len(Ensemble(Len(r))) THEN Ensemble(Len(r))[rank] ELSE "soprano"]

\* None: the duck has no seat yet, and waits rather than guesses.
MyPart(d) == IF \E i \in DOMAIN roster[d] : roster[d][i] = d
             THEN SeatAll(roster[d])[CHOOSE i \in DOMAIN roster[d] : roster[d][i] = d]
             ELSE None

Locked(d)  == seen[d] = Lock
Singing(d) == /\ \/ state[d] = "conducting"
                 \/ state[d] = "following" /\ Locked(d)
              /\ MyPart(d) # None

\* What is on the air once the loop has run: only a conductor carries a piece.
OnAir(e) == IF state[e] = "conducting"
            THEN [piece |-> piece[e], roster |-> roster[e]]
            ELSE [piece |-> 0, roster |-> <<>>]
WireBeat(e) == pos[e] % Byte

-----------------------------------------------------------------------------
(* robot.chorale.                                                          *)

\* Willing: an idle beacon goes out, and everybody's chance to hear it begins.
Ask(d) ==
    /\ OnTurn("loop", d)
    /\ state[d] = "off"
    /\ "late" \in Habits \/ \A e \in Duck : state[e] = "conducting" =>
                                pos[e] + Lock + 1 + MaxFaults <= ScoreBeats + Breath
    /\ state' = [state EXCEPT ![d] = "listening"]
    /\ since' = [since EXCEPT ![d] = 0]
    /\ silence' = [x \in Duck |-> [y \in Duck |->
                      IF d \in {x, y} /\ peers[x][y] = None THEN 0 ELSE silence[x][y]]]
    /\ UNCHANGED <<piece, pos, seen, lead, counter, roster, peers, faults, turn>>

\* What is left behind of a performance is written again before it is read.
Forgotten(d) ==
    /\ pos' = [pos EXCEPT ![d] = 0]
    /\ seen' = [seen EXCEPT ![d] = 0]
    /\ lead' = [lead EXCEPT ![d] = None]
    /\ counter' = [counter EXCEPT ![d] = None]
    /\ roster' = [roster EXCEPT ![d] = <<>>]

Dismiss(d) ==
    /\ OnTurn("loop", d)
    /\ Active(d) /\ faults < MaxFaults
    /\ faults' = faults + 1
    /\ "leave" \in Habits \/ state[d] = "listening"
    /\ state' = [state EXCEPT ![d] = "off"]
    /\ peers' = [peers EXCEPT ![d] = [e \in Duck |-> None]]
    /\ Forgotten(d)
    /\ since' = [since EXCEPT ![d] = 0]
    /\ UNCHANGED <<piece, silence, turn>>

-----------------------------------------------------------------------------
(* chorale.heard.                                                          *)

\* Mutant of Restarted: a piece sung again is taken for the one before.
RestartedByPiece(d, e) == piece[e] # piece[d]

\* The conductor's count jumped back, or it sings something else.
Back == 4..127
Restarted(d, e) ==
    \/ piece[e] # piece[d]
    \/ counter[d] # None /\ (counter[d] - WireBeat(e)) % Byte \in Back

\* Follower::observe.  A locked follower drops what is a beat off its estimate;
\* before that the estimate is the mean of what was heard.
Observe(d, n, at, b) ==
    /\ seen' = [seen EXCEPT ![d] = IF n = Lock THEN n ELSE n + 1]
    /\ \E p \in IF n = 0 THEN {b} ELSE IF n = Lock THEN {at}
                ELSE {q \in 0..ScoreBeats + LongBreath : q \in at..b \/ q \in b..at} :
           pos' = [pos EXCEPT ![d] = p]

Hears(d, e) ==
    /\ OnTurn("radio", d)
    /\ d # e /\ Active(d) /\ Active(e)
    /\ silence[d][e] > 0 \/ peers[d][e] # OnAir(e)
    /\ peers' = [peers EXCEPT ![d][e] = OnAir(e)]
    /\ silence' = [silence EXCEPT ![d][e] = 0]
    /\ UNCHANGED <<faults, turn>>

\* Another duck's beacon, with nothing in it for this one but the record.
Noted(d, e) ==
    /\ Hears(d, e)
    /\ \/ state[d] # "following"
       \/ state[e] # "conducting"
       \/ lead[d] \notin {None, e}
    /\ UNCHANGED performance

FollowedBeacon(d, e) ==
    /\ Hears(d, e)
    /\ state[d] = "following" /\ state[e] = "conducting"
    /\ lead[d] \in {None, e}

\* A beat of the duck it follows; the first one heard names that duck.
Beat(d, e) ==
    /\ FollowedBeacon(d, e)
    /\ ~Restarted(d, e)
    /\ lead' = [lead EXCEPT ![d] = e]
    /\ roster' = [roster EXCEPT ![d] = roster[e]]
    /\ counter' = [counter EXCEPT ![d] = WireBeat(e)]
    /\ IF counter[d] = WireBeat(e) THEN UNCHANGED <<seen, pos>>
       ELSE Observe(d, seen[d], pos[d], WireBeat(e))
    /\ UNCHANGED <<state, since, piece>>

\* Mutant of NewPerformance: the piece that is being sung is not taken over.
NewPerformanceOldBeat(d, e) ==
    /\ FollowedBeacon(d, e)
    /\ Restarted(d, e)
    /\ piece[e] \in Knows[d]
    /\ lead' = [lead EXCEPT ![d] = e]
    /\ piece' = [piece EXCEPT ![d] = 0]
    /\ roster' = [roster EXCEPT ![d] = roster[e]]
    /\ counter' = [counter EXCEPT ![d] = WireBeat(e)]
    /\ Observe(d, 0, 0, WireBeat(e))
    /\ UNCHANGED <<state, since>>

NewPerformance(d, e) ==
    /\ FollowedBeacon(d, e)
    /\ Restarted(d, e)
    /\ piece[e] \in Knows[d]
    /\ lead' = [lead EXCEPT ![d] = e]
    /\ piece' = [piece EXCEPT ![d] = piece[e]]
    /\ roster' = [roster EXCEPT ![d] = roster[e]]
    /\ counter' = [counter EXCEPT ![d] = WireBeat(e)]
    /\ Observe(d, 0, 0, WireBeat(e))
    /\ UNCHANGED <<state, since>>

\* It sings something this build does not know: quiet is better than wrong.
LeftBehind(d, e) ==
    /\ FollowedBeacon(d, e)
    /\ Restarted(d, e)
    /\ piece[e] \notin Knows[d]
    /\ state' = [state EXCEPT ![d] = "listening"]
    /\ since' = [since EXCEPT ![d] = 0]
    /\ Forgotten(d)
    /\ UNCHANGED piece

-----------------------------------------------------------------------------
(* The loop's tick.  A duck that is not heard any more stops being a peer. *)

Peers(d) == {e \in Duck : peers[d][e] # None /\ silence[d][e] < Stale}

Retained(d) == peers' = [peers EXCEPT ![d] = [e \in Duck |-> IF e \in Peers(d) THEN @[e] ELSE None]]
Ticks(d)    == OnTurn("loop", d) /\ Retained(d) /\ TurnOver(d)

\* Somebody sings something this build knows: it is joined.  Its address is not
\* in the record, so whoever is heard singing first will be followed.
Joinable(d) == {e \in Peers(d) : peers[d][e].piece \in Knows[d]}

\* The tick that changes state runs again at once, in the state it changed to.
Turns(d) == OnTurn("loop", d) /\ Retained(d) /\ UNCHANGED turn

Join(d) ==
    /\ state[d] = "listening"
    /\ Turns(d)
    /\ \E e \in Joinable(d) :
          /\ piece' = [piece EXCEPT ![d] = peers[d][e].piece]
          /\ roster' = [roster EXCEPT ![d] = peers[d][e].roster]
    /\ state' = [state EXCEPT ![d] = "following"]
    /\ lead' = [lead EXCEPT ![d] = None]
    /\ counter' = [counter EXCEPT ![d] = None]
    /\ seen' = [seen EXCEPT ![d] = 0]
    /\ pos' = [pos EXCEPT ![d] = 0]
    /\ since' = [since EXCEPT ![d] = 0]
    /\ UNCHANGED quiet

Lowest(d) == \A e \in Peers(d) : d < e
\* Mutant of MayConduct: nobody settles first.
MayConductAtOnce(d) == Joinable(d) = {} /\ Peers(d) # {} /\ Lowest(d)

MayConduct(d) ==
    /\ Joinable(d) = {}
    /\ Peers(d) # {} /\ Lowest(d)
    /\ since[d] >= Settle

\* The order the ducks of S were first heard in is not kept.
Orders(S) == {s \in [1..Cardinality(S) -> S] : IsInjective(s)}
FirstSeats(s) == SubSeq(s, 1, IF Len(s) < MaxRoster THEN Len(s) ELSE MaxRoster)

\* The piece is pinned by the operator or picked by the clock.
StartConducting(d) ==
    /\ state[d] = "listening"
    /\ MayConduct(d)
    /\ Turns(d)
    /\ \E s \in Orders(Peers(d)) : roster' = [roster EXCEPT ![d] = FirstSeats(<<d>> \o s)]
    /\ \E p \in Knows[d] : piece' = [piece EXCEPT ![d] = p]
    /\ state' = [state EXCEPT ![d] = "conducting"]
    /\ pos' = [pos EXCEPT ![d] = 0]
    /\ since' = [since EXCEPT ![d] = 0]
    /\ UNCHANGED <<seen, lead, counter, quiet>>

Listen(d) ==
    /\ state[d] = "listening"
    /\ Joinable(d) = {} /\ ~MayConduct(d)
    /\ Ticks(d)
    /\ UNCHANGED <<performance, quiet>>

\* The roster grows and never reorders.
Conduct(d) ==
    /\ state[d] = "conducting"
    /\ pos[d] <= ScoreBeats + Breath
    /\ Ticks(d)
    /\ \E s \in Orders(Peers(d) \ Range(roster[d])) :
          roster' = [roster EXCEPT ![d] = FirstSeats(@ \o s)]
    /\ UNCHANGED <<state, since, piece, pos, seen, lead, counter, quiet>>

Follow(d) ==
    /\ state[d] = "following"
    /\ ~(Locked(d) /\ pos[d] > ScoreBeats + LongBreath)
    /\ Ticks(d)
    /\ UNCHANGED <<performance, quiet>>

\* The performance ends, and the duck listens again, from the settling on.
Ended(d) == \/ state[d] = "conducting" /\ pos[d] > ScoreBeats + Breath
            \/ state[d] = "following" /\ Locked(d) /\ pos[d] > ScoreBeats + LongBreath

EndPerformance(d) ==
    /\ Ended(d)
    /\ Turns(d)
    /\ state' = [state EXCEPT ![d] = "listening"]
    /\ since' = [since EXCEPT ![d] = 0]
    /\ Forgotten(d)
    /\ UNCHANGED <<piece, quiet>>

Idle(d) ==
    /\ state[d] = "off"
    /\ Ticks(d)
    /\ UNCHANGED <<performance, quiet>>

Tick(d) == \/ Join(d) \/ StartConducting(d) \/ Listen(d) \/ Idle(d)
           \/ Conduct(d) \/ Follow(d) \/ EndPerformance(d)

-----------------------------------------------------------------------------
(* The rounds of a beat.                                                   *)

Sight(d, e) == Noted(d, e) \/ Beat(d, e) \/ NewPerformance(d, e) \/ LeftBehind(d, e)

\* What d has not heard in this round it missed.
Unheard(d) == {e \in Duck \ {d} : Active(d) /\ Active(e) /\ ~(silence[d][e] = 0 /\ peers[d][e] # None)}

Heard(d) ==
    /\ OnTurn("radio", d)
    /\ faults + Cardinality(Unheard(d)) <= MaxFaults
    /\ faults' = faults + Cardinality(Unheard(d))
    /\ TurnOver(d)
    /\ UNCHANGED <<performance, peers, silence>>

OnTheAir ==
    /\ phase = "loop" /\ todo = {}
    /\ phase' = "radio" /\ todo' = Duck
    /\ UNCHANGED <<performance, peers, quiet>>

AtMost(n, m) == IF n < m THEN n ELSE m

\* A beat passes.
Advance ==
    /\ phase = "radio" /\ todo = {}
    /\ phase' = "loop" /\ todo' = Duck
    /\ since' = [d \in Duck |-> IF state[d] = "listening" THEN AtMost(since[d] + 1, Settle)
                                ELSE since[d]]
    /\ pos' = [d \in Duck |-> CASE state[d] = "conducting" -> pos[d] + 1
                                [] state[d] = "following" /\ seen[d] > 0 ->
                                       AtMost(pos[d] + 1, ScoreBeats + LongBreath + 1)
                                [] OTHER -> pos[d]]
    /\ silence' = [d \in Duck |-> [e \in Duck |->
                      IF d # e /\ (peers[d][e] # None \/ (Active(d) /\ Active(e)))
                      THEN AtMost(silence[d][e] + 1, Stale) ELSE 0]]
    /\ UNCHANGED <<state, piece, seen, lead, counter, roster, peers, faults>>

\* The loops run, the radios listen and time passes; nobody has to be asked.
Rounds == \/ \E d \in Duck : Tick(d) \/ Heard(d)
          \/ \E d, e \in Duck : Sight(d, e)
          \/ OnTheAir \/ Advance

Next == Rounds \/ \E d \in Duck : Ask(d) \/ Dismiss(d)

Spec     == Init /\ [][Next]_vars
FairSpec == Spec /\ WF_vars(Rounds)

-----------------------------------------------------------------------------
(* Properties.                                                             *)

\* Two ducks never hold the beat in one room.  (`SETTLE`: they have both
\* certainly heard the other, so they cannot both decide they are alone.)
OneConductor == \A d, e \in Duck : state[d] = "conducting" /\ state[e] = "conducting" => d = e

\* A duck that sings to a conductor still performing is at the conductor's
\* beat, whenever the radio let it hear one and whatever came before.
InStep == \A d, e \in Duck :
    /\ state[d] = "following" /\ Locked(d)
    /\ lead[d] = e /\ state[e] = "conducting"
    /\ phase = "radio"
    /\ silence[d][e] = 0
    => pos[d] = pos[e] /\ piece[d] = piece[e]

\* Two ducks singing from one roster never sing each other's line.
OneLineEach == \A d, e \in Duck :
    /\ Singing(d) /\ Singing(e) /\ d # e
    /\ roster[d] = roster[e] /\ Len(roster[d]) <= MaxRoster
    => MyPart(d) # MyPart(e)

\* Ducks that sing together sing the same bar of the same piece, a line each.
SameMusic == InStep /\ OneLineEach

Together == \E c \in Duck : /\ state[c] = "conducting"
                           /\ \A d \in Duck : piece[c] \in Knows[d] => Singing(d)

\* Ducks that are all asked, and dismissed no more, sing together, again and again:
\* nobody who knows the piece waits for a beat, a seat or a conductor for ever.
SingTogether == <>[](\A d \in Duck : Active(d)) => []<>Together

=============================================================================

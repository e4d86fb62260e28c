---------------------------- MODULE RelayProofs ----------------------------
(***************************************************************************)
(* What is proved of Relay for any number of consumers, any sequence of    *)
(* failures and any cadence, poll, lease and time to answer.               *)
(***************************************************************************)
EXTENDS Relay, FiniteSetTheorems, TLAPS

Start(a) == [type |-> "start", of |-> a]

\* A consumer asks once, and what it sent is about a session that it asked for.
EventsOK ==
  /\ \A i, j \in 1..Len(events) :
        events[i].type = "start" /\ events[j].type = "start" /\ events[i].of = events[j].of
          => i = j
  /\ \A i \in 1..Len(events) :
        /\ events[i].type = "start" => session[events[i].of] # "none"
        /\ events[i].type = "end"   => session[events[i].of] = "ended"

\* The consumers that the loop will still be told of, and those it may have to refuse:
\* every one while a session is bridged, every one but the first while none is.
Waiting == {a \in Asker : session[a] = "none" \/ \E i \in 1..Len(events) : events[i] = Start(a)}
Refusals == IF Live \/ Waiting = {} THEN Cardinality(Waiting) ELSE Cardinality(Waiting) - 1
BridgeOK == Live => bridge.of \in Asker \ Waiting

\* Time is spent on a request alone, and on a prompt one no more than a prompt service takes.
PromptOK == (at \notin Requesting => spent = 0) /\ (~heldUp => spent <= Prompt)

\* Every consumer but one is refused between two heartbeats, and one poll is due: the
\* lease outlasts them and the heartbeat's own round trip, when each is answered promptly.
Others == IF Asker = {} THEN 0 ELSE Cardinality(Asker) - 1
LeaseIsLong ==
  /\ Lease > Cadence + 2 * Prompt + Prompt * Others
  /\ Poll > Cadence + Prompt + Prompt * Others

\* The time until the loop is free to post a heartbeat, but for the poll.
UntilBeat ==
  beat + Prompt * Refusals + (IF at \in {"polling", "refusing"} THEN Prompt - spent ELSE 0)
LeaseOK == LeaseIsLong /\ ~heldUp =>
  /\ at = "beating" => lease > Prompt - spent
  /\ at \in InLoop \ {"beating"} =>
       \/ lease > UntilBeat + Prompt /\ poll > UntilBeat
       \/ lease > UntilBeat + 2 * Prompt /\ at # "polling"

IInv == TypeOK /\ EventsOK /\ NoneIsAbandoned /\ BridgeOK /\ PromptOK /\ LeaseOK

-----------------------------------------------------------------------------
(* Types. *)

(* The sizes alone, for the steps that count.                               *)
LEMMA Sizes ==
  /\ None \notin Token /\ None \notin Asker
  /\ Cadence \in Nat \ {0} /\ Poll \in Nat \ {0} /\ Lease \in Nat \ {0} /\ Reply \in Nat
  /\ Prompt \in 0..Reply /\ Room \in Nat \ {0} /\ Misses \in Nat \ {0} /\ Steps \in Nat /\ MaxEvents \in Nat
BY RelayAssumption

Stages == {"none", "opening", "carrying", "posting", "finished"}
Told == {"none", "asked", "carried", "ended"}

(* What session() leaves behind has its type.                               *)
LEMMA DroppedType ==
  ASSUME TypeOK, Dropped
  PROVE  /\ using' = None /\ misses' = 0 /\ spent' = 0 /\ heldUp' = FALSE /\ beat' = Cadence
         /\ poll' = Poll /\ lease' = 0 /\ forgotten' = FALSE /\ deaf' = FALSE
         /\ queue' = 0 /\ about' = None /\ untold' = {}
         /\ events' \in Seq(Event) /\ Len(events') = 0
         /\ session' \in [Asker -> Told]
         /\ bridge' \in [of : Asker \cup {None}, stage : Stages]
BY Sizes DEF Dropped, TypeOK, SessionsOK, NoBridge, Stages, Told

(* The bridged session's record, made and moved.                            *)
LEMMA StageType ==
  ASSUME TypeOK, NEW stage \in Stages, bridge' = [bridge EXCEPT !.stage = stage]
  PROVE  /\ bridge' \in [of : Asker \cup {None}, stage : Stages]
         /\ bridge'.of = bridge.of /\ bridge'.stage = stage
BY DEF TypeOK, SessionsOK, Stages

(* The service appends to what is on its way, and the loop takes the head.  *)
LEMMA AppendEvent ==
  ASSUME TypeOK, NEW e \in Event
  PROVE  /\ Append(events, e) \in Seq(Event)
         /\ Len(Append(events, e)) = Len(events) + 1
         /\ \A i \in 1..Len(events) : Append(events, e)[i] = events[i]
         /\ Append(events, e)[Len(events) + 1] = e
BY DEF TypeOK, EventsTypeOK

\* The events that are left when the first is taken.
LEMMA TailEvents ==
  ASSUME TypeOK, events # <<>>
  PROVE  /\ Tail(events) \in Seq(Event) /\ Len(events) \in Nat \ {0}
         /\ Len(Tail(events)) = Len(events) - 1
         /\ \A i \in 1..Len(Tail(events)) :
               i + 1 \in 1..Len(events) /\ Tail(events)[i] = events[i + 1]
         /\ \A i \in 1..Len(events) :
               i # 1 => i - 1 \in 1..Len(Tail(events)) /\ Tail(events)[i - 1] = events[i]
         /\ Head(events) = events[1] /\ Head(events) \in Event
BY DEF TypeOK, EventsTypeOK

(* Every step keeps the types.                                              *)
LEMMA StepType == TypeOK /\ Next => TypeOK'
<1> SUFFICES ASSUME TypeOK, Next PROVE TypeOK'
  OBVIOUS
<1>1. CASE Connect \/ AwaitWelcome \/ Unanswered
  <2>1. LoopOK'
    BY <1>1, Sizes DEF Connect, AwaitWelcome, Unanswered, LoopOK, Apart, Joining, InLoop, loopOthers,
       taskOthers, clock, timers, service, listing, local, TypeOK
  <2>2. UNCHANGED <<backoff, misses, beat, poll, spent, heldUp, lease, forgotten, deaf, events, session, bridge, queue, about, untold>>
    BY <1>1 DEF Connect, AwaitWelcome, Unanswered, loopOthers, taskOthers, clock, timers, service, listing, local
  <2> QED BY <2>1, <2>2 DEF TypeOK, CountersOK, SpentOK, EventsTypeOK, SessionsOK
<1>2. CASE Sleep
  <2>1. backoff' \in 0..Steps
    <3>1. backoff \in 0..Steps /\ backoff' = IF backoff < Steps THEN backoff + 1 ELSE Steps
      BY <1>2 DEF Sleep, TypeOK, CountersOK
    <3> QED BY Sizes, <3>1
  <2>2. UNCHANGED <<token, using, misses, beat, poll, spent, heldUp, lease, forgotten, deaf, events, session,
                   bridge, queue, about, untold>> /\ at \in Apart /\ at' \in Apart
    BY <1>2 DEF Sleep, clock, timers, service, listing, local, Apart
  <2> QED BY <2>1, <2>2 DEF TypeOK, LoopOK, CountersOK, SpentOK, EventsTypeOK, SessionsOK
<1>3. CASE SetPeerStatus
  <2>1. LoopOK'
    BY <1>3, Sizes DEF SetPeerStatus, Registered, Answered, LoopOK, Apart, Joining, InLoop,
       loopOthers, taskOthers, clock, timers, service, listing, local, TypeOK
  <2>2. SpentOK'
    <3>1. spent' = 0 /\ heldUp' = FALSE /\ lease' = Lease /\ UNCHANGED <<forgotten, deaf>>
      BY <1>3 DEF SetPeerStatus, Registered, Answered
    <3>2. 0 \in 0..Reply /\ Lease \in 0..Lease
      BY Sizes
    <3> QED BY <3>1, <3>2 DEF SpentOK, TypeOK
  <2>3. UNCHANGED <<backoff, misses, beat, poll, events, session, bridge, queue, about, untold>>
    BY <1>3 DEF SetPeerStatus, Registered, Answered, loopOthers, taskOthers, clock, timers, service, listing, local
  <2> QED BY <2>1, <2>2, <2>3 DEF TypeOK, CountersOK, EventsTypeOK, SessionsOK
<1>4. CASE StatusPoll \/ Listed \/ PollFails
  <2>1. LoopOK'
    BY <1>4, Sizes DEF StatusPoll, Listed, PollFails, Answered, LoopOK, Apart, Joining, InLoop,
       loopOthers, taskOthers, clock, timers, service, listing, local, TypeOK
  <2>2. CountersOK'
    BY <1>4, Sizes DEF StatusPoll, Listed, PollFails, Answered, CountersOK, loopOthers,
       taskOthers, clock, timers, service, listing, local, TypeOK
  <2>3. SpentOK'
    BY <1>4, Sizes DEF StatusPoll, Listed, PollFails, Answered, SpentOK, loopOthers, taskOthers,
       clock, timers, service, listing, local, TypeOK
  <2>4. UNCHANGED <<events, session, bridge, queue, about, untold>>
    BY <1>4 DEF StatusPoll, Listed, PollFails, Answered, loopOthers, taskOthers, clock, timers, service,
       listing, local
  <2> QED BY <2>1, <2>2, <2>3, <2>4 DEF TypeOK, EventsTypeOK, SessionsOK
<1>5. CASE Reap
  <2>1. SessionsOK'
    BY <1>5, Sizes DEF Reap, NoBridge, SessionsOK, loopOthers, taskOthers, clock, timers, service,
       listing, local, TypeOK
  <2>2. UNCHANGED <<token, using, at, backoff, misses, beat, poll, spent, heldUp, lease, forgotten, deaf, events>>
    BY <1>5 DEF Reap, NoBridge, loopOthers, taskOthers, clock, timers, service, listing, local
  <2> QED BY <2>1, <2>2 DEF TypeOK, LoopOK, CountersOK, SpentOK, EventsTypeOK
<1>6. CASE (OpenStream \/ Heartbeat \/ NotListed \/ Fails) /\ Dropped
  <2>1. /\ UNCHANGED token /\ at' \in Apart /\ backoff' \in {backoff, 0}
    BY <1>6
    DEF OpenStream, Heartbeat, NotListed, Fails, Unauthorised, CredentialChanged, SplitBrain,
        Reconnect, Dropped, Answered, LoopOK, TypeOK, Apart, Joining, InLoop
  <2>2. LoopOK'
    BY <1>6, <2>1, DroppedType DEF TypeOK, LoopOK
  <2>6. SpentOK'
    BY Sizes, <1>6, DroppedType DEF SpentOK
  <2>4. backoff' \in 0..Steps
    BY Sizes, <2>1 DEF TypeOK, CountersOK
  <2>5. CountersOK'
    BY Sizes, <1>6, <2>4, DroppedType DEF CountersOK
  <2>3. EventsTypeOK' /\ SessionsOK'
    BY Sizes, <1>6, DroppedType DEF EventsTypeOK, SessionsOK, Stages, Told
  <2> QED BY <2>2, <2>3, <2>5, <2>6 DEF TypeOK
<1>7. CASE (OpenStream \/ Heartbeat \/ NotListed) /\ ~Dropped
  <2>1. LoopOK'
    BY <1>7, Sizes DEF OpenStream, Heartbeat, NotListed, Unauthorised, CredentialChanged,
       SplitBrain, Answered, Enough, LoopOK, Apart, Joining, InLoop, loopOthers, taskOthers,
       clock, timers, service, listing, local, TypeOK
  <2>2. CountersOK'
    BY <1>7, Sizes DEF OpenStream, Heartbeat, NotListed, Unauthorised, CredentialChanged,
       SplitBrain, Answered, Enough, CountersOK, loopOthers, taskOthers, clock, timers, service, listing, local,
       TypeOK
  <2>3. SpentOK'
    BY <1>7, Sizes DEF OpenStream, Heartbeat, NotListed, Unauthorised, CredentialChanged,
       SplitBrain, Answered, Enough, SpentOK, loopOthers, taskOthers, clock, timers, service, listing, local,
       TypeOK
  <2>4. UNCHANGED <<events, session, bridge, queue, about, untold>>
    BY <1>7 DEF OpenStream, Heartbeat, NotListed, Unauthorised, CredentialChanged, SplitBrain,
       Answered, Enough, loopOthers, taskOthers, clock, timers, service, listing, local
  <2> QED BY <2>1, <2>2, <2>3, <2>4 DEF TypeOK, EventsTypeOK, SessionsOK
<1>8. CASE StartSession \/ RefuseSecond \/ PeerMessage \/ EndSession
  <2>1. events # <<>> /\ events' = Tail(events) /\ at = "held"
    BY <1>8 DEF StartSession, RefuseSecond, PeerMessage, EndSession, Next1, Took
  <2>2. Head(events).of \in Asker
    BY <2>1, TailEvents DEF Event
  <2>3. EventsTypeOK'
    BY Sizes, <2>1, TailEvents DEF TypeOK, EventsTypeOK
  <2>4. LoopOK'
    BY <1>8 DEF StartSession, RefuseSecond, PeerMessage, EndSession, Next1, loopOthers, TypeOK,
       LoopOK,
                 Apart, Joining, InLoop
  <2>5. SessionsOK'
    BY Sizes, <1>8, <2>2 DEF StartSession, RefuseSecond, PeerMessage, EndSession, TypeOK,
                 SessionsOK, NoBridge
  <2>6. UNCHANGED <<backoff, misses, beat, poll, spent, heldUp, lease, forgotten, deaf>>
    BY <1>8
    DEF StartSession, RefuseSecond, PeerMessage, EndSession, Took, loopOthers, timers, listing
  <2> QED BY <2>3, <2>4, <2>5, <2>6 DEF TypeOK, CountersOK, SpentOK
<1>9. CASE Refusal
  <2>1. LoopOK'
    BY <1>9, Sizes DEF Refusal, Answered, LoopOK, Apart, Joining, InLoop, loopOthers,
       taskOthers, clock, timers, service, listing, local, TypeOK
  <2>2. SpentOK'
    BY <1>9, Sizes DEF Refusal, Answered, SpentOK, loopOthers, taskOthers, clock, timers, service,
       listing, local, TypeOK
  <2>3. SessionsOK'
    BY <1>9, Sizes DEF Refusal, Answered, SessionsOK, loopOthers, taskOthers, clock, timers, service,
       listing, local, TypeOK
  <2>4. UNCHANGED <<backoff, misses, beat, poll, events>>
    BY <1>9 DEF Refusal, Answered, loopOthers, taskOthers, clock, timers, service, listing, local
  <2> QED BY <2>1, <2>2, <2>3, <2>4 DEF TypeOK, CountersOK, EventsTypeOK
<1>10. CASE Feed
  <2>1. LoopOK'
    BY <1>10, Sizes DEF Feed, NoBridge, LoopOK, Apart, Joining, InLoop, loopOthers, taskOthers,
       clock, timers, service, listing, local, TypeOK
  <2>2. SessionsOK'
    BY <1>10, Sizes DEF Feed, NoBridge, SessionsOK, loopOthers, taskOthers, clock, timers, service,
       listing, local, TypeOK
  <2>3. UNCHANGED <<backoff, misses, beat, poll, spent, heldUp, lease, forgotten, deaf, events>>
    BY <1>10 DEF Feed, NoBridge, loopOthers, taskOthers, clock, timers, service, listing, local
  <2> QED BY <2>1, <2>2, <2>3 DEF TypeOK, CountersOK, SpentOK, EventsTypeOK
<1>11. CASE SessionStarted \/ CarryEnds \/ HubEnd \/ HubEndFails
  <2>1. bridge' \in [of : Asker \cup {None}, stage : Stages]
    BY <1>11, StageType DEF SessionStarted, CarryEnds, HubEnd, HubEndFails, Stage, Stages
  <2>2. session' \in [Asker -> Told]
    BY <1>11 DEF SessionStarted, CarryEnds, HubEnd, HubEndFails, TypeOK, SessionsOK, Told
  <2>4. queue' \in 0..Room /\ untold' \subseteq Asker \cup {None}
    BY <1>11, Sizes DEF SessionStarted, CarryEnds, HubEnd, HubEndFails, TypeOK, SessionsOK
  <2>3. UNCHANGED <<token, at, using, backoff, misses, beat, poll, spent, heldUp, lease, forgotten, deaf, events,
                   about>>
    BY <1>11 DEF SessionStarted, CarryEnds, HubEnd, HubEndFails, taskOthers, clock, timers, listing
  <2> QED BY <2>1, <2>2, <2>3, <2>4
    DEF TypeOK, LoopOK, CountersOK, SpentOK, EventsTypeOK, SessionsOK, Stages, Told
<1>12. CASE Carry
  <2>1. SessionsOK'
    BY <1>12, Sizes DEF Carry, SessionsOK, loopOthers, taskOthers, clock, timers, service, listing, local, TypeOK
  <2>2. UNCHANGED <<token, using, at, backoff, misses, beat, poll, spent, heldUp, lease, forgotten, deaf, events>>
    BY <1>12 DEF Carry, loopOthers, taskOthers, clock, timers, service, listing, local
  <2> QED BY <2>1, <2>2 DEF TypeOK, LoopOK, CountersOK, SpentOK, EventsTypeOK
<1>13. CASE Forget \/ GoesDeaf \/ Login
  <2>1. LoopOK'
    BY <1>13, Sizes DEF Forget, GoesDeaf, Login, OnTheList, Reachable, LoopOK, Apart, Joining, InLoop, loopOthers,
       taskOthers, clock, timers, service, listing, local, TypeOK
  <2>2. SpentOK'
    BY <1>13, Sizes DEF Forget, GoesDeaf, Login, OnTheList, Reachable, SpentOK, loopOthers, taskOthers, clock,
       timers, service, listing, local, TypeOK
  <2>3. UNCHANGED <<backoff, misses, beat, poll, events, session, bridge, queue, about, untold>>
    BY <1>13 DEF Forget, GoesDeaf, Login, OnTheList, Reachable, loopOthers, taskOthers, clock, timers, service, listing, local
  <2> QED BY <2>1, <2>2, <2>3 DEF TypeOK, CountersOK, EventsTypeOK, SessionsOK
<1>14. CASE Tick
  <2>1. CountersOK'
    BY <1>14, Sizes DEF Tick, Less, Requesting, CountersOK, loopOthers, taskOthers, clock,
       timers, service, listing, local, TypeOK
  <2>2. SpentOK'
    BY <1>14, Sizes DEF Tick, Less, Requesting, SpentOK, loopOthers, taskOthers, clock, timers, service,
       listing, local, TypeOK
  <2>3. UNCHANGED <<token, using, at, events, session, bridge, queue, about, untold>>
    BY <1>14 DEF Tick, Less, Requesting, loopOthers, taskOthers, clock, timers, service, listing, local
  <2> QED BY <2>1, <2>2, <2>3 DEF TypeOK, LoopOK, EventsTypeOK, SessionsOK
<1>15. CASE \E a \in Asker : Consumer(a)
  <2>1. PICK e \in Event : Tell(e) /\ session' \in [Asker -> Told]
    BY <1>15 DEF Consumer, Ask, Say, GiveUp, Event, TypeOK, SessionsOK, Told
  <2>2. EventsTypeOK'
    BY Sizes, <2>1, AppendEvent DEF Tell, TypeOK, EventsTypeOK
  <2>3. UNCHANGED <<token, at, using, backoff, misses, beat, poll, spent, heldUp, lease, forgotten, deaf, bridge,
                   queue, about, untold>>
    BY <2>1 DEF Tell, clock, timers, listing, local
  <2> QED BY <2>1, <2>2, <2>3 DEF TypeOK, LoopOK, CountersOK, SpentOK, SessionsOK, Told
<1>16. Fails => Dropped
  BY DEF Fails, Reconnect, Unauthorised
<1> QED
  BY <1>1, <1>2, <1>3, <1>4, <1>5, <1>6, <1>7, <1>8, <1>9, <1>10, <1>11, <1>12, <1>13, <1>14,
     <1>15, <1>16
  DEF Next, Loop, Task

-----------------------------------------------------------------------------
(* What is on its way, and who has been answered. *)

\* The steps that touch neither the sessions nor what is on its way to the loop.
Quiet ==
  /\ UNCHANGED <<events, session, bridge, about, untold>>
  /\ at = "refusing" <=> at' = "refusing"

(* Every step is quiet, drops the connection, or is about a session.        *)
LEMMA StepKinds ==
  ASSUME Next
  PROVE  \/ Quiet \/ Dropped \/ Reap \/ Feed
         \/ StartSession \/ RefuseSecond \/ PeerMessage \/ EndSession \/ Refusal
         \/ SessionStarted \/ CarryEnds \/ HubEnd \/ HubEndFails
         \/ \E a \in Asker : Consumer(a)
<1>1. CASE Connect \/ Sleep \/ AwaitWelcome \/ Unanswered \/ SetPeerStatus
  BY <1>1 DEF Connect, Sleep, AwaitWelcome, Unanswered, SetPeerStatus, Registered, Answered, Quiet, service,
     listing, local
<1>2. CASE OpenStream \/ Heartbeat \/ NotListed \/ Fails
  BY <1>2
  DEF OpenStream, Heartbeat, NotListed, Fails, Unauthorised, CredentialChanged, SplitBrain,
      Reconnect, Answered, Quiet, service, listing, local
<1>3. CASE StatusPoll \/ Listed \/ PollFails
  BY <1>3 DEF StatusPoll, Listed, PollFails, Answered, Quiet, service, listing, local
<1>4. CASE Carry \/ Forget \/ GoesDeaf \/ Login \/ Tick
  BY <1>4 DEF Carry, Forget, GoesDeaf, Login, Tick, Quiet, taskOthers, service, listing, local
<1> QED BY <1>1, <1>2, <1>3, <1>4 DEF Next, Loop, Task

(* What a step about a session does to the sequence on its way.             *)
LEMMA Takes ==
  ASSUME StartSession \/ RefuseSecond \/ PeerMessage \/ EndSession
  PROVE  at = "held" /\ events # <<>> /\ events' = Tail(events) /\ UNCHANGED session
BY DEF StartSession, RefuseSecond, PeerMessage, EndSession, Next1, Took

(* A consumer asks once, and says nothing more once it is over.             *)
LEMMA EventsStep == TypeOK /\ EventsOK /\ Next => EventsOK'
<1> SUFFICES ASSUME TypeOK, EventsOK, Next PROVE EventsOK'
  OBVIOUS
<1>0. /\ \A i \in 1..Len(events) : events[i] \in Event
      /\ session \in [Asker -> Told]
  BY DEF TypeOK, EventsTypeOK, SessionsOK, Told
<1>1. CASE Quiet \/ Reap \/ Feed \/ CarryEnds \/ HubEndFails
  BY <1>1 DEF Quiet, Reap, Feed, CarryEnds, HubEndFails, taskOthers, service, EventsOK
<1>2. CASE Dropped
  BY <1>2, DroppedType DEF EventsOK
<1>3. CASE StartSession \/ RefuseSecond \/ PeerMessage \/ EndSession
  <2>1. events # <<>> /\ events' = Tail(events) /\ UNCHANGED session
    BY <1>3, Takes
  <2>2. \A i \in 1..Len(events') : i + 1 \in 1..Len(events) /\ events'[i] = events[i + 1]
    BY <2>1, TailEvents
  <2>3. \A i, j \in 1..Len(events') : i + 1 = j + 1 => i = j
    BY <2>1, TailEvents
  <2> QED BY <2>1, <2>2, <2>3 DEF EventsOK
<1>4. CASE Refusal
  <2>1. UNCHANGED events /\ session' = [session EXCEPT ![about] = "ended"]
    BY <1>4 DEF Refusal
  <2> QED BY <1>0, <2>1 DEF EventsOK, Event
<1>5. CASE SessionStarted
  <2>1. UNCHANGED events
        /\ session' = [session EXCEPT ![bridge.of] = IF @ = "asked" THEN "carried" ELSE @]
    BY <1>5 DEF SessionStarted, taskOthers
  <2> QED BY <1>0, <2>1 DEF EventsOK, Event
<1>6. CASE HubEnd
  <2>1. UNCHANGED events /\ session' = [session EXCEPT ![bridge.of] = "ended"]
    BY <1>6 DEF HubEnd, taskOthers
  <2> QED BY <1>0, <2>1 DEF EventsOK, Event
<1>7. ASSUME NEW a \in Asker, Consumer(a)
      PROVE  EventsOK'
  <2>1. CASE Ask(a)
    <3>1. /\ events' = Append(events, Start(a)) /\ Start(a) \in Event
          /\ session[a] = "none" /\ session' = [session EXCEPT ![a] = "asked"]
      BY <2>1 DEF Ask, Tell, Start, Event
    <3>2. \A i \in 1..Len(events) : events[i].type # "peer" => events[i].of # a
      BY <1>0, <3>1 DEF EventsOK, Event
    <3>3. \A i \in 1..Len(events) : session'[events[i].of] \in {session[events[i].of], "asked"}
                                    /\ (events[i].of # a => session'[events[i].of] = session[events[i].of])
      BY <1>0, <3>1 DEF Event
    <3>4. session'[a] = "asked"
      BY <1>0, <3>1
    <3>5. \A i \in 1..Len(events') :
             \/ i \in 1..Len(events) /\ events'[i] = events[i]
             \/ i = Len(events) + 1 /\ events'[i] = Start(a)
      BY <3>1, AppendEvent DEF TypeOK, EventsTypeOK
    <3>6. \A i \in 1..Len(events') : events'[i].type = "start" =>
             \/ i \in 1..Len(events) /\ events[i].type = "start" /\ events'[i].of = events[i].of
                  /\ events[i].of # a /\ session'[events[i].of] # "none"
             \/ i = Len(events) + 1 /\ events'[i].of = a
      BY <1>0, <3>2, <3>3, <3>5 DEF EventsOK, Start, Event, Told
    <3>7. \A i \in 1..Len(events') : events'[i].type = "end" =>
             session'[events'[i].of] = "ended"
      BY <1>0, <3>2, <3>3, <3>5 DEF EventsOK, Start, Event
    <3>8. \A i, j \in 1..Len(events') :
             events'[i].type = "start" /\ events'[j].type = "start" /\ events'[i].of = events'[j].of
               => i = j
      BY <3>6 DEF EventsOK
    <3> QED BY <3>4, <3>6, <3>7, <3>8 DEF EventsOK
  <2>2. CASE Say(a)
    <3>1. PICK e \in Event : events' = Append(events, e) /\ e.type = "peer" /\ UNCHANGED session
      BY <2>2 DEF Say, Tell, Event
    <3> QED BY <1>0, <3>1, AppendEvent DEF EventsOK, Event
  <2>3. CASE GiveUp(a)
    <3>1. PICK e \in Event : /\ events' = Append(events, e) /\ e.type = "end" /\ e.of = a
                             /\ session' = [session EXCEPT ![a] = "ended"]
      BY <2>3 DEF GiveUp, Tell, Event
    <3>2. \A b \in Asker : session'[b] \in {session[b], "ended"}
      BY <1>0, <3>1
    <3>3. session'[a] = "ended"
      BY <1>0, <3>1
    <3> QED BY <1>0, <3>1, <3>2, <3>3, AppendEvent DEF EventsOK, Event
  <2> QED BY <1>7, <2>1, <2>2, <2>3 DEF Consumer
<1> QED BY <1>1, <1>2, <1>3, <1>4, <1>5, <1>6, <1>7, StepKinds

(* A consumer that is still looking is attended to, in whichever of the     *)
(* places that hand it over its session is.                                 *)
LEMMA AttendedStep ==
  TypeOK /\ EventsOK /\ NoneIsAbandoned /\ Next => NoneIsAbandoned'
<1> SUFFICES ASSUME TypeOK, EventsOK, NoneIsAbandoned, Next,
                    NEW a \in Asker, session'[a] \in {"asked", "carried"}
             PROVE  Attended(a)' \/ a \in untold'
  BY DEF NoneIsAbandoned
<1>0. /\ \A i \in 1..Len(events) : events[i] \in Event
      /\ session \in [Asker -> Told]
      /\ session[a] \in {"asked", "carried"} => Attended(a) \/ a \in untold
      /\ bridge \in [of : Asker \cup {None}, stage : Stages]
  BY DEF TypeOK, EventsTypeOK, SessionsOK, Told, Stages, NoneIsAbandoned
<1>9. Dropped \/ untold \subseteq untold'
  <2>1. \/ Quiet \/ Reap \/ Feed \/ Refusal \/ StartSession \/ RefuseSecond \/ PeerMessage
        \/ EndSession \/ SessionStarted \/ CarryEnds \/ HubEnd \/ HubEndFails
        => untold \subseteq untold'
    BY DEF Quiet, Reap, Feed, Refusal, StartSession, RefuseSecond, PeerMessage, EndSession,
           SessionStarted, CarryEnds, HubEnd, HubEndFails
  <2>2. (\E b \in Asker : Consumer(b)) => untold \subseteq untold'
    BY DEF Consumer, Ask, Say, GiveUp, Tell, local
  <2> QED BY <2>1, <2>2, StepKinds
<1>2. CASE Dropped
  BY <1>0, <1>2 DEF Dropped, Told
<1>10. CASE a \in untold
  BY <1>2, <1>9, <1>10
<1> SUFFICES ASSUME ~Dropped, a \notin untold PROVE Attended(a)' \/ a \in untold'
  BY <1>2, <1>10
<1>1. CASE Quiet \/ Reap
  BY <1>0, <1>1 DEF Quiet, Reap, service, Live, NoBridge, Attended
<1>11. CASE Feed
  <2>1. UNCHANGED <<events, session>> /\ at # "refusing"
    BY <1>11 DEF Feed, service
  <2>2. CASE Receiving
    BY <1>0, <1>11, <2>1, <2>2 DEF Feed, Live, Attended
  <2>3. CASE ~Receiving /\ bridge.of = a /\ Live
    <3>1. bridge.stage = "posting"
      BY <1>0, <2>3 DEF Receiving, Live, Stages
    <3> QED BY <1>11, <2>3, <3>1 DEF Feed
  <2>4. CASE ~Receiving /\ ~(bridge.of = a /\ Live)
    BY <1>0, <1>11, <2>1, <2>4 DEF Feed, Attended
  <2> QED BY <2>2, <2>3, <2>4
<1>3. CASE StartSession \/ RefuseSecond
  <2>1. at = "held" /\ events # <<>> /\ events' = Tail(events) /\ UNCHANGED session
    BY <1>3, Takes
  <2>2. \/ \E i \in 1..Len(events') : events'[i] = Start(a)
        \/ Head(events) = Start(a)
        \/ bridge.of = a /\ Live
    BY <1>0, <2>1, TailEvents DEF Attended, Start
  <2>3. CASE Head(events) = Start(a)
    BY <1>3, <2>3 DEF StartSession, RefuseSecond, Start, Attended, Live
  <2>4. CASE bridge.of = a /\ Live
    BY <1>3, <2>4 DEF StartSession, RefuseSecond, Attended, Live
  <2>5. CASE \E i \in 1..Len(events') : events'[i] = Start(a)
    BY <2>5 DEF Attended, Start
  <2> QED BY <2>2, <2>3, <2>4, <2>5
<1>4. CASE PeerMessage \/ EndSession
  <2>1. at = "held" /\ events # <<>> /\ events' = Tail(events) /\ UNCHANGED session
        /\ Head(events).type # "start"
    BY <1>4, Takes DEF PeerMessage, EndSession, Next1
  <2>2. \/ \E i \in 1..Len(events') : events'[i] = Start(a)
        \/ bridge.of = a /\ Live
    <3>1. ASSUME NEW i \in 1..Len(events), events[i] = Start(a)
          PROVE  \E j \in 1..Len(events') : events'[j] = Start(a)
      <4>1. i # 1
        BY <2>1, <3>1, TailEvents DEF Start
      <4> QED BY <2>1, <3>1, <4>1, TailEvents
    <3> QED BY <1>0, <2>1, <3>1 DEF Attended, Start
  <2>3. CASE bridge.of = a /\ Live
    <3>1. CASE EndSession /\ Head(events).of = a
      BY <2>1, <3>1, TailEvents DEF EndSession, Next1, EventsOK
    <3> QED BY <1>4, <2>3, <3>1 DEF PeerMessage, EndSession, Attended, Live
  <2> QED BY <2>2, <2>3 DEF Attended, Start
<1>5. CASE Refusal
  <2>1. a # about
    BY <1>0, <1>5 DEF Refusal
  <2>2. session'[a] = session[a]
    BY <1>0, <1>5, <2>1 DEF Refusal
  <2> QED BY <1>0, <1>5, <2>1, <2>2 DEF Refusal, Attended, Live
<1>6. CASE SessionStarted \/ CarryEnds
  <2>1. /\ UNCHANGED <<events, at, about>> /\ bridge'.of = bridge.of
        /\ bridge'.stage \in {"carrying", "posting"} /\ Live
    BY <1>0, <1>6, StageType DEF SessionStarted, CarryEnds, Receiving, Stage, Stages, Live,
       taskOthers
  <2>2. session[a] \in {"asked", "carried"}
    BY <1>0, <1>6 DEF SessionStarted, CarryEnds, Told
  <2> QED BY <1>0, <2>1, <2>2 DEF Attended, Live
<1>7. CASE HubEnd
  <2>1. a # bridge.of
    BY <1>0, <1>7 DEF HubEnd
  <2>2. session'[a] = session[a] /\ UNCHANGED <<events, at, about>>
    BY <1>0, <1>7, <2>1 DEF HubEnd, taskOthers
  <2> QED BY <1>0, <2>1, <2>2 DEF Attended, Live
<1>12. CASE HubEndFails
  <2>1. UNCHANGED <<events, session, at, about>> /\ untold' = untold \cup {bridge.of}
    BY <1>12 DEF HubEndFails, taskOthers
  <2> QED BY <1>0, <2>1 DEF Attended, Live
<1>8. ASSUME NEW b \in Asker, Consumer(b)
      PROVE  Attended(a)' \/ a \in untold'
  <2>1. PICK e \in Event : Tell(e)
    BY <1>8 DEF Consumer, Ask, Say, GiveUp, Event
  <2>2. /\ \A i \in 1..Len(events) : i \in 1..Len(events') /\ events'[i] = events[i]
        /\ Len(events') \in 1..Len(events') /\ events'[Len(events')] = e
        /\ UNCHANGED <<at, bridge, about>>
    BY <2>1, AppendEvent DEF Tell, local, TypeOK, EventsTypeOK
  <2>3. CASE session[a] \in {"asked", "carried"}
    BY <1>0, <2>2, <2>3 DEF Attended, Live
  <2>4. CASE session[a] \notin {"asked", "carried"}
    <3>1. Ask(b) /\ b = a
      BY <1>0, <1>8, <2>4 DEF Consumer, Ask, Say, GiveUp, Told
    <3>2. events' = Append(events, Start(a)) /\ Start(a) \in Event
      BY <3>1 DEF Ask, Tell, Start, Event
    <3>3. \E i \in 1..Len(events') : events'[i] = Start(a)
      BY <3>2, AppendEvent DEF TypeOK, EventsTypeOK
    <3> QED BY <3>3 DEF Attended, Start
  <2> QED BY <2>3, <2>4
<1> QED BY <1>1, <1>3, <1>4, <1>5, <1>6, <1>7, <1>8, <1>11, <1>12, StepKinds

-----------------------------------------------------------------------------
(* The lease. *)

(* The consumers still to be told are finitely many.                        *)
LEMMA WaitingIsFinite ==
  /\ Waiting \subseteq Asker /\ IsFiniteSet(Waiting) /\ Cardinality(Waiting) \in Nat
  /\ Cardinality(Asker) \in Nat /\ Cardinality(Waiting) <= Cardinality(Asker)
<1>1. Waiting \subseteq Asker /\ IsFiniteSet(Asker)
  BY RelayAssumption DEF Waiting
<1> QED BY <1>1, FS_Subset, FS_CardinalityType

(* Each is told of once: the loop takes it off when it takes its start.     *)
LEMMA WaitingStep ==
  ASSUME TypeOK, EventsOK, Next
  PROVE  /\ Waiting' \subseteq Waiting
         /\ StartSession \/ RefuseSecond =>
               Head(events).of \in Waiting /\ Waiting' = Waiting \ {Head(events).of}
<1>0. /\ \A i \in 1..Len(events) : events[i] \in Event
      /\ session \in [Asker -> Told]
  BY DEF TypeOK, EventsTypeOK, SessionsOK, Told
<1>1. CASE StartSession \/ RefuseSecond
  <2>1. /\ events # <<>> /\ events' = Tail(events) /\ UNCHANGED session
        /\ Head(events).type = "start"
    BY <1>1, Takes DEF StartSession, RefuseSecond, Next1
  <2> DEFINE h == Head(events).of
  <2>2. h \in Asker /\ events[1] = Start(h) /\ 1 \in 1..Len(events)
    BY <2>1, TailEvents DEF Event, Start
  <2>3. session[h] # "none"
    BY <2>1, <2>2 DEF EventsOK, Start
  <2>4. \A i \in 1..Len(events') : events'[i] # Start(h)
    <3> SUFFICES ASSUME NEW i \in 1..Len(events'), events'[i] = Start(h) PROVE FALSE
      OBVIOUS
    <3>1. i + 1 \in 1..Len(events) /\ events[i + 1] = Start(h)
      BY <2>1, TailEvents
    <3>2. i + 1 = 1
      BY <2>2, <3>1 DEF EventsOK, Start
    <3> QED BY <3>2, <2>1, TailEvents
  <2>5. ASSUME NEW a \in Asker, a # h
        PROVE  (\E i \in 1..Len(events') : events'[i] = Start(a))
                 <=> \E i \in 1..Len(events) : events[i] = Start(a)
    <3>1. ASSUME NEW i \in 1..Len(events), events[i] = Start(a)
          PROVE  \E j \in 1..Len(events') : events'[j] = Start(a)
      <4>1. i # 1
        BY <2>2, <2>5, <3>1 DEF Start
      <4> QED BY <2>1, <3>1, <4>1, TailEvents
    <3>2. ASSUME NEW i \in 1..Len(events'), events'[i] = Start(a)
          PROVE  \E j \in 1..Len(events) : events[j] = Start(a)
      BY <2>1, <3>2, TailEvents
    <3> QED BY <3>1, <3>2
  <2>6. h \in Waiting
    BY <2>2 DEF Waiting
  <2> HIDE DEF h
  <2>7. Waiting' = Waiting \ {h}
    BY <2>1, <2>2, <2>3, <2>4, <2>5 DEF Waiting
  <2> QED BY <2>6, <2>7 DEF h
<1> SUFFICES ASSUME ~StartSession, ~RefuseSecond PROVE Waiting' \subseteq Waiting
  BY <1>1
<1>2. CASE Quiet \/ Reap \/ Feed \/ CarryEnds \/ HubEndFails
  BY <1>2 DEF Quiet, Reap, Feed, CarryEnds, HubEndFails, taskOthers, service, Waiting, Start
<1>3. CASE Dropped
  BY <1>0, <1>3, DroppedType DEF Dropped, Waiting
<1>4. CASE PeerMessage \/ EndSession
  <2>1. events # <<>> /\ events' = Tail(events) /\ UNCHANGED session
    BY <1>4, Takes
  <2>2. \A i \in 1..Len(events') : i + 1 \in 1..Len(events) /\ events'[i] = events[i + 1]
    BY <2>1, TailEvents
  <2> QED BY <2>1, <2>2 DEF Waiting, Start
<1>5. CASE Refusal \/ SessionStarted \/ HubEnd
  <2>1. UNCHANGED events
    BY <1>5 DEF Refusal, SessionStarted, HubEnd, taskOthers
  <2>2. \A a \in Asker : session'[a] = "none" => session[a] = "none"
    BY <1>0, <1>5 DEF Refusal, SessionStarted, HubEnd
  <2> QED BY <2>1, <2>2 DEF Waiting, Start
<1>6. ASSUME NEW b \in Asker, Consumer(b)
      PROVE  Waiting' \subseteq Waiting
  <2>1. PICK e \in Event :
           /\ events' = Append(events, e)
           /\ e.type = "start" => e.of = b /\ session[b] = "none"
           /\ \A a \in Asker : session'[a] = "none" => session[a] = "none"
    BY <1>0, <1>6 DEF Consumer, Ask, Say, GiveUp, Tell, Event
  <2>2. \A i \in 1..Len(events') : events'[i] = e \/ (i \in 1..Len(events) /\ events'[i] = events[i])
    BY <2>1, AppendEvent DEF TypeOK, EventsTypeOK
  <2> QED BY <2>1, <2>2 DEF Waiting, Start
<1> QED BY <1>2, <1>3, <1>4, <1>5, <1>6, StepKinds

(* A session is bridged by its start alone.                                 *)
LEMMA LiveStep ==
  ASSUME TypeOK, Next, ~StartSession, Live'
  PROVE  Live /\ bridge'.of = bridge.of
<1>1. CASE Quiet \/ RefuseSecond \/ PeerMessage \/ Refusal \/ \E a \in Asker : Consumer(a)
  BY <1>1
  DEF Quiet, RefuseSecond, PeerMessage, Refusal, Consumer, Ask, Say, GiveUp, Tell, local, Live
<1>2. CASE Dropped \/ Reap \/ Feed \/ EndSession
  BY <1>2 DEF Dropped, Reap, Feed, EndSession, NoBridge, Live
<1>3. CASE SessionStarted \/ CarryEnds \/ HubEnd \/ HubEndFails
  BY <1>3, StageType
  DEF SessionStarted, CarryEnds, HubEnd, HubEndFails, Receiving, Stage, Stages, Live
<1> QED BY <1>1, <1>2, <1>3, StepKinds

(* The bridged consumer is not among those still to be told.                *)
LEMMA BridgeStep == TypeOK /\ EventsOK /\ BridgeOK /\ Next => BridgeOK'
<1> SUFFICES ASSUME TypeOK, EventsOK, BridgeOK, Next PROVE BridgeOK'
  OBVIOUS
<1>1. CASE StartSession
  BY <1>1, WaitingStep, WaitingIsFinite DEF StartSession, BridgeOK
<1>2. CASE ~StartSession
  BY <1>2, WaitingStep, LiveStep DEF BridgeOK
<1> QED BY <1>1, <1>2

(* The refusals to come never grow, and each one made is one less.          *)
LEMMA RefusalsStep ==
  ASSUME TypeOK, EventsOK, BridgeOK, Next
  PROVE  /\ Refusals \in Nat /\ Refusals' \in Nat /\ Others \in Nat
         /\ Refusals' <= Refusals /\ Refusals <= Others
         /\ RefuseSecond => Refusals' + 1 <= Refusals
<1> DEFINE m == Cardinality(Waiting)
           n == Cardinality(Waiting')
<1>1. /\ m \in Nat /\ n \in Nat /\ n <= m /\ IsFiniteSet(Waiting)
      /\ (m = 0 <=> Waiting = {}) /\ (n = 0 <=> Waiting' = {})
  BY WaitingIsFinite, WaitingStep, FS_Subset, FS_CardinalityType, FS_EmptySet
<1>2. StartSession \/ RefuseSecond => n = m - 1 /\ Waiting # {}
  BY <1>1, WaitingStep, FS_RemoveElement
<1>3. /\ Refusals = IF Live \/ m = 0 THEN m ELSE m - 1
      /\ Refusals' = IF Live' \/ n = 0 THEN n ELSE n - 1
  BY <1>1 DEF Refusals
<1>4. Cardinality(Asker) \in Nat /\ m <= Cardinality(Asker)
      /\ (Asker = {} <=> Cardinality(Asker) = 0)
  BY WaitingIsFinite, FS_EmptySet, RelayAssumption
<1>5. Live => m <= Cardinality(Asker) - 1
  <2>1. ASSUME Live PROVE m <= Cardinality(Asker \ {bridge.of})
    <3>1. Waiting \subseteq Asker \ {bridge.of}
      BY <2>1, WaitingIsFinite DEF BridgeOK
    <3> QED BY <3>1, RelayAssumption, FS_RemoveElement, FS_Subset
  <2>2. ASSUME Live PROVE Cardinality(Asker \ {bridge.of}) = Cardinality(Asker) - 1
    BY <2>2, RelayAssumption, FS_RemoveElement DEF BridgeOK
  <2> QED BY <2>1, <2>2
<1>6. RefuseSecond => Live /\ Live'
  BY DEF RefuseSecond, Live
<1>7. StartSession => ~Live
  BY DEF StartSession
<1>8. ~StartSession /\ Live' => Live
  BY LiveStep
<1> HIDE DEF m, n
<1> QED BY <1>1, <1>2, <1>3, <1>4, <1>5, <1>6, <1>7, <1>8 DEF Others

(* What they cost, each the longest that a prompt service takes to answer.  *)
LEMMA Cost ==
  ASSUME NEW m \in Nat, NEW n \in Nat
  PROVE  /\ Prompt * m \in Nat
         /\ m <= n => Prompt * m <= Prompt * n
         /\ m + 1 <= n => Prompt * m + Prompt <= Prompt * n
BY Sizes

(* What is left of a span stays longer than what has to fit into it, when   *)
(* neither moves and when both lose one.                                    *)
LEMMA Outlasts ==
  ASSUME NEW l \in Nat, NEW u \in Nat, NEW v \in Int, NEW k \in Nat, l > u + k, v <= u
  PROVE  l > v + k
OBVIOUS

\* A lease that outlasts what is owed does so a unit later.
LEMMA OutlastsTick ==
  ASSUME NEW l \in Nat, NEW m \in Nat, NEW u \in Nat, NEW v \in Int, NEW k \in Nat, l > u + k,
         m >= l - 1, v <= u - 1
  PROVE  m > v + k
OBVIOUS

\* A clock that was ahead stays ahead when both run, or neither does.
LEMMA Longer ==
  ASSUME NEW l \in Nat, NEW m \in Nat, NEW u \in Nat, NEW v \in Int, l > u,
         (m >= l /\ v <= u) \/ (m >= l - 1 /\ v <= u - 1)
  PROVE  m > v
OBVIOUS

(* Time passes on requests alone, and past a prompt answer it is recorded.  *)
LEMMA PromptStep == TypeOK /\ PromptOK /\ Next => PromptOK'
<1> SUFFICES ASSUME TypeOK, PromptOK, Next PROVE PromptOK'
  OBVIOUS
<1>0. /\ spent \in Nat /\ Prompt \in Nat
      /\ at \notin Requesting => spent = 0
      /\ ~heldUp => spent <= Prompt
  BY Sizes DEF TypeOK, SpentOK, PromptOK
<1>1. CASE spent' = 0
  BY <1>0, <1>1 DEF PromptOK
<1>2. CASE UNCHANGED <<at, spent, heldUp>>
  BY <1>0, <1>2 DEF PromptOK
<1>3. CASE Tick
  <2>1. CASE at \in Requesting
    <3>1. spent' = spent + 1 /\ at' = at /\ (~heldUp' => ~heldUp /\ ~(spent >= Prompt))
      BY <1>3, <2>1 DEF Tick
    <3> QED BY <1>0, <2>1, <3>1 DEF PromptOK
  <2>2. CASE at \notin Requesting
    BY <1>1, <1>3, <2>2 DEF Tick
  <2> QED BY <2>1, <2>2
<1>4. CASE Connect \/ Sleep \/ OpenStream \/ AwaitWelcome \/ Unanswered \/ SetPeerStatus
  BY <1>0, <1>1, <1>4
  DEF Connect, Sleep, OpenStream, AwaitWelcome, Unanswered, SetPeerStatus, Unauthorised, Dropped,
      Answered, Requesting, clock
<1>5. CASE Heartbeat \/ StatusPoll \/ Listed \/ NotListed \/ PollFails \/ Fails \/ Refusal
  BY <1>0, <1>1, <1>5
  DEF Heartbeat, StatusPoll, Listed, NotListed, PollFails, Fails, Refusal, CredentialChanged,
      SplitBrain, Reconnect, Unauthorised, Dropped, Answered, Requesting
<1>6. CASE StartSession \/ RefuseSecond \/ PeerMessage \/ Feed \/ EndSession
  BY <1>0, <1>1, <1>6
  DEF StartSession, RefuseSecond, PeerMessage, Feed, EndSession, Next1, Requesting
<1>7. CASE Reap \/ Task \/ CarryEnds \/ HubEndFails
  BY <1>2, <1>7
  DEF Reap, Task, SessionStarted, Carry, HubEnd, HubEndFails, CarryEnds, taskOthers, clock, timers
<1>8. CASE Forget \/ GoesDeaf \/ Login \/ \E a \in Asker : Consumer(a)
  BY <1>2, <1>8 DEF Forget, GoesDeaf, Login, Consumer, Ask, Say, GiveUp, Tell, clock, timers
<1> QED BY <1>3, <1>4, <1>5, <1>6, <1>7, <1>8 DEF Next, Loop

(* Only a heartbeat's answer forgets that the loop was held up.             *)
LEMMA StaysPrompt ==
  ASSUME Next, ~SetPeerStatus, at' \in InLoop, ~heldUp'
  PROVE  ~heldUp
<1>1. CASE Connect \/ Sleep \/ OpenStream \/ AwaitWelcome \/ Unanswered \/ Fails
  BY <1>1
  DEF Connect, Sleep, OpenStream, Unauthorised, AwaitWelcome, Unanswered, Fails, Reconnect, InLoop
<1>2. CASE Heartbeat \/ StatusPoll \/ Listed \/ NotListed \/ PollFails \/ Refusal
  BY <1>2
  DEF Heartbeat, StatusPoll, Listed, NotListed, PollFails, Refusal, CredentialChanged, SplitBrain,
      InLoop, timers, loopOthers
<1>3. CASE StartSession \/ RefuseSecond \/ PeerMessage \/ Feed \/ EndSession
  BY <1>3 DEF StartSession, RefuseSecond, PeerMessage, Feed, EndSession, loopOthers, timers
<1>4. CASE Reap \/ Task \/ CarryEnds \/ HubEndFails
  BY <1>4
  DEF Reap, Task, SessionStarted, Carry, HubEnd, HubEndFails, CarryEnds, taskOthers, clock, timers
<1>5. CASE Forget \/ GoesDeaf \/ Login \/ \E a \in Asker : Consumer(a)
  BY <1>5 DEF Forget, GoesDeaf, Login, Consumer, Ask, Say, GiveUp, Tell, clock, timers
<1>6. CASE Tick
  BY <1>6 DEF Tick
<1> QED BY <1>1, <1>2, <1>3, <1>4, <1>5, <1>6 DEF Next, Loop

(* The lease outlasts whatever holds the loop before its next heartbeat.    *)
LEMMA LeaseStep ==
  TypeOK /\ EventsOK /\ BridgeOK /\ PromptOK /\ LeaseOK /\ Next => LeaseOK'
<1> SUFFICES ASSUME TypeOK, EventsOK, BridgeOK, PromptOK, LeaseOK, Next, LeaseIsLong, ~heldUp'
             PROVE  LeaseOK'
  BY DEF LeaseOK
<1>6. CASE at' \notin InLoop
  BY <1>6 DEF LeaseOK, InLoop
<1>7. CASE SetPeerStatus
  <2>1. /\ at' = "held" /\ lease' = Lease /\ beat' = beat /\ beat \in Nat /\ beat <= Cadence
        /\ Cadence \in Nat /\ Lease \in Nat /\ Prompt \in Nat
    BY <1>7, Sizes DEF SetPeerStatus, Registered, Answered, TypeOK, CountersOK
  <2>2. /\ Prompt * Refusals' \in Nat /\ Prompt * Others \in Nat
        /\ Prompt * Refusals' <= Prompt * Others
    BY RefusalsStep, Cost
  <2>3. UntilBeat' = beat + Prompt * Refusals'
    BY <2>1, <2>2 DEF UntilBeat
  <2> DEFINE r == Prompt * Refusals'
             o == Prompt * Others
  <2>4. r \in Nat /\ o \in Nat /\ r <= o /\ UntilBeat' = beat + r /\ Lease > Cadence + 2 * Prompt + o
    BY <2>2, <2>3 DEF LeaseIsLong
  <2> HIDE DEF r, o
  <2>5. lease' > UntilBeat' + 2 * Prompt
    BY <2>1, <2>4
  <2> QED BY <2>1, <2>5 DEF LeaseOK
<1> SUFFICES ASSUME at' \in InLoop, ~SetPeerStatus PROVE LeaseOK'
  BY <1>6, <1>7
<1>16. ~heldUp /\ spent <= Prompt
  <2>1. ~heldUp
    BY StaysPrompt
  <2> QED BY <2>1 DEF PromptOK
<1> DEFINE owed == Prompt * Refusals
           left == Prompt * Refusals'
           most == Prompt * Others
           rest == IF at \in {"polling", "refusing"} THEN Prompt - spent ELSE 0
<1>0. /\ beat \in Nat /\ poll \in Nat /\ spent \in Nat /\ lease \in Nat
      /\ beat <= Cadence /\ poll <= Poll /\ spent <= Prompt
      /\ Cadence \in Nat /\ Poll \in Nat /\ Prompt \in Nat /\ Lease \in Nat /\ 2 * Prompt \in Nat
  BY Sizes, <1>16 DEF TypeOK, CountersOK, SpentOK
<1>1. /\ owed \in Nat /\ left \in Nat /\ most \in Nat
      /\ left <= owed /\ owed <= most
      /\ RefuseSecond => left + Prompt <= owed
  BY RefusalsStep, Cost
<1>2. Lease > Cadence + 2 * Prompt + most /\ Poll > Cadence + Prompt + most
  BY DEF LeaseIsLong
<1> HIDE DEF owed, left, most
<1>3. /\ UntilBeat = beat + owed + rest
      /\ UntilBeat' = beat' + left + rest'
      /\ rest \in 0..Prompt
  BY <1>0 DEF UntilBeat, owed, left
<1>4. /\ at = "beating" => lease > Prompt - spent
      /\ at \in InLoop \ {"beating"} =>
           \/ lease > UntilBeat + Prompt /\ poll > UntilBeat
           \/ lease > UntilBeat + 2 * Prompt /\ at # "polling"
  BY <1>16 DEF LeaseOK
<1>5. SUFFICES /\ at' = "beating" => lease' > Prompt - spent'
               /\ at' \in InLoop \ {"beating"} =>
                    \/ lease' > UntilBeat' + Prompt /\ poll' > UntilBeat'
                    \/ lease' > UntilBeat' + 2 * Prompt /\ at' # "polling"
  BY DEF LeaseOK
<1>8. CASE Heartbeat
  <2>1. CASE ~StillOurs
    BY <1>6, <1>8, <2>1 DEF Heartbeat, CredentialChanged, InLoop
  <2>2. CASE StillOurs
    BY <1>0, <1>1, <1>3, <1>4, <1>8, <2>2
    DEF Heartbeat, CredentialChanged, InLoop, service, listing
  <2> QED BY <2>1, <2>2
<1>9. CASE StatusPoll
  BY <1>0, <1>1, <1>2, <1>3, <1>4, <1>9 DEF StatusPoll, InLoop, service, listing
<1>10. CASE Listed \/ NotListed \/ PollFails
  <2>1. CASE NotListed /\ Enough(misses + 1)
    BY <1>6, <2>1 DEF NotListed, SplitBrain, InLoop
  <2>2. CASE ~(NotListed /\ Enough(misses + 1))
    <3>1. at = "polling" /\ at' = "held" /\ UNCHANGED <<beat, poll, lease>>
      BY <1>10, <2>2 DEF Listed, NotListed, PollFails, SplitBrain, Answered, timers, service,
          listing
    <3> QED BY <1>0, <1>1, <1>3, <1>4, <3>1 DEF InLoop
  <2> QED BY <2>1, <2>2
<1>11. CASE RefuseSecond
  <2>1. at = "held" /\ at' = "refusing" /\ UNCHANGED <<beat, poll, lease, spent>>
    BY <1>11 DEF RefuseSecond, Next1, Took, loopOthers, timers, listing
  <2> QED BY <1>0, <1>1, <1>3, <1>4, <1>11, <2>1 DEF InLoop
<1>12. CASE Refusal
  <2>1. at = "refusing" /\ at' = "held" /\ UNCHANGED <<beat, poll, lease>>
    BY <1>12 DEF Refusal, Answered, loopOthers, timers, listing
  <2> QED BY <1>0, <1>1, <1>3, <1>4, <2>1 DEF InLoop
<1>13. CASE Tick
  <2>1. /\ at' = at /\ beat' = Less(beat) /\ poll' = Less(poll) /\ lease' = Less(lease)
        /\ spent' = IF at \in Requesting THEN spent + 1 ELSE 0
        /\ at \in Requesting => spent < Prompt
        /\ at = "held" => beat # 0 /\ poll # 0
        /\ at # "feeding"
    <3>1. ~(at = "feeding") /\ ~(at \in Requesting /\ spent >= Prompt)
      BY <1>13, Zenon DEF Tick
    <3> QED BY <1>0, <1>13, <3>1 DEF Tick, Ready
  <2>3. CASE at = "beating"
    BY <1>0, <1>4, <2>1, <2>3 DEF Less, Requesting
  <2>4. CASE at = "held"
    BY <1>0, <1>1, <1>3, <1>4, <2>1, <2>4 DEF Less, Requesting, InLoop
  <2>5. CASE at \in {"polling", "refusing"}
    <3>1. rest = Prompt - spent /\ rest' = rest - 1 /\ beat' <= beat /\ beat' \in Nat
      BY <1>0, <2>1, <2>5 DEF Less, Requesting
    <3>2. UntilBeat' <= UntilBeat - 1 /\ UntilBeat \in Nat /\ UntilBeat' \in Int
      BY <1>0, <1>1, <1>3, <3>1
    <3>3. lease' >= lease - 1 /\ lease' \in Nat /\ poll' >= poll - 1 /\ poll' \in Nat
      BY <1>0, <1>4, <2>1, <2>5, <3>2 DEF Less, InLoop
    <3>4. at' = at /\ at # "beating" /\ at \in InLoop
      BY <2>1, <2>5 DEF InLoop
    <3>5. CASE lease > UntilBeat + Prompt /\ poll > UntilBeat
      <4>1. lease' > UntilBeat' + Prompt /\ poll' > UntilBeat'
        <5>1. lease' > UntilBeat' + Prompt
          BY <1>0, <3>2, <3>3, <3>5, OutlastsTick
        <5>2. poll' > UntilBeat'
          BY <1>0, <3>2, <3>3, <3>5, Longer
        <5> QED BY <5>1, <5>2
      <4> QED BY <3>4, <4>1
    <3>6. CASE lease > UntilBeat + 2 * Prompt /\ at # "polling"
      <4>1. lease' > UntilBeat' + 2 * Prompt /\ at' # "polling"
        BY <1>0, <3>2, <3>3, <3>4, <3>6, OutlastsTick
      <4> QED BY <3>4, <4>1
    <3> QED BY <1>4, <3>4, <3>5, <3>6
  <2> QED BY <2>1, <2>3, <2>4, <2>5 DEF InLoop
<1>14. CASE Connect \/ Sleep \/ OpenStream \/ AwaitWelcome \/ Unanswered \/ Fails
  BY <1>6, <1>14
  DEF Connect, Sleep, OpenStream, Unauthorised, AwaitWelcome, Unanswered, Fails, Reconnect, InLoop
<1>15. CASE Reap \/ StartSession \/ PeerMessage \/ Feed \/ EndSession
            \/ Task \/ CarryEnds \/ HubEndFails \/ Forget \/ GoesDeaf \/ Login
            \/ \E a \in Asker : Consumer(a)
  <2>1. /\ UNCHANGED <<beat, poll, lease, spent>>
        /\ at' = at \/ (at \in {"held", "feeding"} /\ at' \in {"held", "feeding"})
    <3>1. CASE Reap \/ StartSession \/ PeerMessage \/ Feed \/ EndSession
      BY <1>15, <3>1
      DEF Reap, StartSession, PeerMessage, Feed, EndSession, Next1, Took, clock, timers, service,
          listing, loopOthers
    <3>2. CASE Task \/ CarryEnds \/ HubEndFails
      BY <1>15, <3>2
      DEF Task, SessionStarted, Carry, HubEnd, HubEndFails, CarryEnds, taskOthers, clock, timers,
          listing
    <3>3. CASE Forget \/ GoesDeaf \/ Login \/ \E a \in Asker : Consumer(a)
      BY <1>15, <3>3
      DEF Forget, GoesDeaf, Login, Consumer, Ask, Say, GiveUp, Tell, clock, timers, service, listing
    <3> QED BY <1>15, <3>1, <3>2, <3>3
  <2>2. rest' = rest
    BY <2>1
  <2>3. UntilBeat' <= UntilBeat /\ UntilBeat \in Nat /\ UntilBeat' \in Int
    BY <1>0, <1>1, <1>3, <2>1, <2>2
  <2>4. /\ at' \in InLoop <=> at \in InLoop
        /\ at' = "beating" <=> at = "beating"
        /\ at' = "polling" <=> at = "polling"
    BY <2>1 DEF InLoop
  <2>5. CASE at = "beating"
    BY <1>4, <2>1, <2>4, <2>5
  <2>6. CASE at # "beating"
    <3>1. CASE lease > UntilBeat + Prompt /\ poll > UntilBeat
      <4>1. lease' > UntilBeat' + Prompt /\ poll' > UntilBeat'
        <5>1. lease > UntilBeat' + Prompt
          BY <1>0, <2>3, <3>1, Outlasts
        <5>2. poll' > UntilBeat'
          BY <1>0, <2>1, <2>3, <3>1, Longer
        <5> QED BY <2>1, <5>1, <5>2
      <4> QED BY <2>4, <2>6, <4>1
    <3>2. CASE lease > UntilBeat + 2 * Prompt /\ at # "polling"
      <4>1. lease' > UntilBeat' + 2 * Prompt /\ at' # "polling"
        <5>1. lease > UntilBeat' + 2 * Prompt
          BY <1>0, <2>3, <3>2, Outlasts
        <5> QED BY <2>1, <2>4, <3>2, <5>1
      <4> QED BY <2>4, <2>6, <4>1
    <3> QED BY <1>4, <2>4, <2>6, <3>1, <3>2
  <2> QED BY <2>5, <2>6
<1> QED
  BY <1>8, <1>9, <1>10, <1>11, <1>12, <1>13, <1>14, <1>15 DEF Next, Loop, Task

-----------------------------------------------------------------------------
(* The theorems. *)

\* The loop starts signed out of the relay, and nobody waits.
LEMMA InitIInv == Init => IInv
<1> SUFFICES ASSUME Init PROVE IInv
  OBVIOUS
<1>1. TypeOK
  <2>1. LoopOK
    BY Sizes DEF Init, LoopOK, Apart
  <2>2. CountersOK /\ SpentOK
    <3>1. backoff = 0 /\ misses = 0 /\ beat = Cadence /\ poll = Poll /\ spent = 0 /\ lease = 0
          /\ heldUp = FALSE /\ forgotten = FALSE /\ deaf = FALSE
      BY DEF Init
    <3>2. /\ 0 \in 0..Steps /\ 0 \in 0..(Misses - 1) /\ 0 \in 0..Reply /\ 0 \in 0..Lease
          /\ Cadence \in 0..Cadence /\ Poll \in 0..Poll
      BY Sizes
    <3> QED BY <3>1, <3>2 DEF CountersOK, SpentOK
  <2>3. EventsTypeOK
    BY Sizes DEF Init, EventsTypeOK
  <2>4. SessionsOK
    BY Sizes DEF Init, SessionsOK, NoBridge
  <2> QED BY <2>1, <2>2, <2>3, <2>4 DEF TypeOK
<1>2. PromptOK
  BY Sizes DEF Init, PromptOK
<1> QED BY <1>1, <1>2
    DEF Init, IInv, EventsOK, NoneIsAbandoned, BridgeOK, Live, NoBridge, LeaseOK, InLoop

\* Every step keeps the parts.
LEMMA StepIInv == IInv /\ [Next]_vars => IInv'
<1> SUFFICES ASSUME IInv, [Next]_vars PROVE IInv'
  OBVIOUS
<1>1. CASE Next
  BY <1>1, StepType, EventsStep, AttendedStep, BridgeStep, PromptStep, LeaseStep DEF IInv
<1>2. CASE UNCHANGED vars
  <2>1. UNCHANGED <<token, at, using, backoff, misses, beat, poll, spent, heldUp, lease, forgotten, deaf,
                    events, session, bridge, queue, about, untold>>
    BY <1>2 DEF vars, clock, timers, service, listing, local
  <2>2. TypeOK'
    BY <2>1 DEF IInv, TypeOK, LoopOK, CountersOK, SpentOK, EventsTypeOK, SessionsOK
  <2>3. EventsOK' /\ NoneIsAbandoned'
    BY <2>1 DEF IInv, EventsOK, NoneIsAbandoned, Attended, Live
  <2>4. BridgeOK' /\ PromptOK'
    BY <2>1 DEF IInv, BridgeOK, Live, Waiting, Start, PromptOK
  <2>5. Refusals' = Refusals
    BY <2>1 DEF Refusals, Live, Waiting, Start
  <2>6. LeaseOK'
    BY <2>1, <2>5 DEF IInv, LeaseOK, UntilBeat
  <2> QED BY <2>2, <2>3, <2>4, <2>6 DEF IInv
<1> QED BY <1>1, <1>2

(* The parts of the invariant hold together.                                *)
THEOREM Invariance == Spec => []IInv
BY InitIInv, StepIInv, PTL DEF Spec

(* Every variable of the loop, of the bridged session and of the service    *)
(* keeps its type; the loop has a token exactly while it is connected.      *)
THEOREM TypeCorrect == Spec => []TypeOK
<1>1. IInv => TypeOK
  BY DEF IInv
<1> QED BY <1>1, Invariance, PTL

(* For any number of consumers, and whatever fails: one that asked, is not   *)
(* served and has not been told has lost the endSession that was its own,   *)
(* refused by the service or aborted by a message that came while it was    *)
(* posted.  No other exit of the session leaves it so (bridge,              *)
(* refuse_second_session, session() with its stream dropped).               *)
THEOREM NoneIsLeft == Spec => []NoneIsAbandoned
<1>1. IInv => NoneIsAbandoned
  BY DEF IInv
<1> QED BY <1>1, Invariance, PTL

(* A lease longer than the heartbeat's cadence, its own round trip, one poll *)
(* and a refusal for every other consumer, each answered promptly, has not   *)
(* run out in the loop unless an answer was late, or a session did not take  *)
(* its messages, since the last heartbeat (HEARTBEAT_BOUNDS, STATUS_POLL).   *)
THEOREM LeaseLasts == LeaseIsLong => (Spec => []LeaseIsHeld)
<1> SUFFICES ASSUME LeaseIsLong PROVE Spec => []LeaseIsHeld
  OBVIOUS
<1>1. IInv => LeaseIsHeld
  <2> SUFFICES ASSUME IInv, at \in InLoop, ~heldUp PROVE lease > 0
    BY DEF LeaseIsHeld
  <2>1. /\ beat \in Nat /\ spent \in Nat /\ spent <= Prompt /\ lease \in Nat /\ Prompt \in Nat
    BY Sizes DEF IInv, TypeOK, CountersOK, SpentOK, PromptOK
  <2>2. Refusals \in Nat
    BY WaitingIsFinite, FS_EmptySet, RelayAssumption DEF Refusals
  <2>3. Prompt * Refusals \in Nat
    BY <2>2, Cost
  <2>4. UntilBeat \in Nat
    BY <2>1, <2>3 DEF UntilBeat
  <2> QED BY <2>1, <2>4 DEF IInv, LeaseOK
<1> QED BY <1>1, Invariance, PTL
=============================================================================

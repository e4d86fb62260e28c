------------------------------- MODULE Relay -------------------------------
(***************************************************************************)
(* mediad's relay: the robot registered with the rendezvous service while  *)
(* it belongs to an account, its lease refreshed, and one remote session   *)
(* bridged to the robot's own signalling server (mediad/src/relay.rs).     *)
(*                                                                         *)
(* The relay is one loop, and at most one request of its own is in flight; *)
(* the bridged session is a task beside it.  Time is counted in units: a   *)
(* request takes up to Reply of them, of a prompt service up to Prompt,    *)
(* and the lease lasts Lease.  The sleeps between connections and the      *)
(* handshake have no length.                                               *)
(*                                                                         *)
(* READ_TIMEOUT has no action: the timeout is made anew in each turn of    *)
(* the select, the poll turns it every 30 s, and 60 s never pass in it.    *)
(***************************************************************************)
EXTENDS Naturals, Sequences, FiniteSets

CONSTANTS
  Token,        \* account tokens
  Refused,      \* those the service answers 401 to
  None,
  Asker,        \* the consumers, each asking for one session
  Cadence,      \* between heartbeats (the welcome's, clamped)
  Poll,         \* STATUS_POLL
  Lease,        \* how long the service lists a robot without a heartbeat
  Reply,        \* the longest a request waits for its answer (REQUEST_TIMEOUT)
  Prompt,       \* the longest that a service which is not slow takes
  Room,         \* bound of the channel to the bridged session (64)
  Misses,       \* MISSES_BEFORE_RECONNECT
  Steps,        \* doublings from BACKOFF_START to BACKOFF_MAX
  MaxEvents,    \* bound: events on their way to the relay
  MaxFaults     \* bound: failures of the service or the network, messages, logins

ASSUME RelayAssumption ==
  /\ None \notin Token \cup Asker /\ Refused \subseteq Token /\ IsFiniteSet(Asker)
  /\ Cadence \in Nat \ {0} /\ Poll \in Nat \ {0} /\ Lease \in Nat \ {0}
  /\ Reply \in Nat /\ Prompt \in 0..Reply /\ Room \in Nat \ {0} /\ Misses \in Nat \ {0}
  /\ Steps \in Nat /\ MaxEvents \in Nat /\ MaxFaults \in Nat

VARIABLES
  token,     \* the credential on disk
  at,        \* where the loop is
  using,     \* the token this connection was opened with
  backoff, misses,
  beat, poll,  \* until the next heartbeat and the next status poll
  spent,     \* on the request in flight
  heldUp,    \* since the last heartbeat an answer was late, or the loop waited for room
  lease,     \* what the service still grants this connection
  forgotten, \* the service no longer lists it, though the stream is healthy
  deaf,      \* the stream passes nothing any more, and nobody has closed it
  events,    \* from the service, in order
  session,   \* what each consumer has been told
  bridge,    \* the bridged session's task: whose it is and how far
  queue,     \* messages waiting for it
  about,     \* the consumer the loop is answering or feeding
  untold,    \* the consumers whose endSession was aborted, or failed
  faults

timers == <<beat, poll, heldUp>>
clock == <<timers, spent>>
listing == <<lease, forgotten, deaf>>
service == <<listing, events, session>>
local == <<bridge, queue, about, untold>>
vars == <<token, at, using, backoff, misses, clock, service, local, faults>>

NoBridge == [of |-> None, stage |-> "none"]
Event == [type : {"start", "peer", "end"}, of : Asker]
Apart == {"waiting", "backing off"}             \* between connections
Joining == {"opening", "unanswered", "welcome", "registering"}
InLoop == {"held", "beating", "polling", "refusing", "feeding"}
Requesting == {"registering", "beating", "polling", "refusing"}

Init ==
  /\ token \in Token \cup {None}
  /\ at = "waiting" /\ using = None
  /\ backoff = 0 /\ misses = 0
  /\ beat = Cadence /\ poll = Poll /\ spent = 0 /\ heldUp = FALSE
  /\ lease = 0 /\ forgotten = FALSE /\ deaf = FALSE /\ events = <<>>
  /\ session = [a \in Asker |-> "none"]
  /\ bridge = NoBridge /\ queue = 0 /\ about = None /\ untold = {}
  /\ faults = 0

-----------------------------------------------------------------------------
(* run(): one connection after another. *)

(* What is left when session() returns: the stream is dropped, which evicts  *)
(* the robot and ends its sessions at the service, and the bridge aborted.   *)
Dropped ==
  /\ using' = None /\ misses' = 0 /\ spent' = 0 /\ heldUp' = FALSE
  /\ beat' = Cadence /\ poll' = Poll
  /\ lease' = 0 /\ forgotten' = FALSE /\ deaf' = FALSE /\ events' = <<>>
  /\ session' = [a \in Asker |-> IF session[a] = "none" THEN "none" ELSE "ended"]
  /\ bridge' = NoBridge /\ queue' = 0 /\ about' = None /\ untold' = {}

Reconnect == at' = "backing off" /\ Dropped /\ UNCHANGED backoff
Unauthorised == at' = "waiting" /\ Dropped /\ UNCHANGED backoff
SplitBrainLogged ==             \* defect: noticed, and nothing done
  at' = "held" /\ misses' = 0 /\ spent' = 0
    /\ UNCHANGED <<using, backoff, timers, service, local>>
SplitBrain == at' = "waiting" /\ Dropped /\ backoff' = 0
CredentialChanged == at' = "waiting" /\ Dropped /\ backoff' = 0

Connect ==
  /\ at = "waiting" /\ token # None
  /\ at' = "opening" /\ using' = token
  /\ UNCHANGED <<token, backoff, misses, clock, service, local, faults>>

Sleep ==
  /\ at = "backing off"
  /\ at' = "waiting"
  /\ backoff' = IF backoff < Steps THEN backoff + 1 ELSE Steps
  /\ UNCHANGED <<token, using, misses, clock, service, local, faults>>

OpenStream ==
  /\ at = "opening"
  /\ IF using \in Refused
       THEN Unauthorised
       ELSE /\ at' = "welcome"
            /\ UNCHANGED <<using, backoff, misses, clock, service, local>>
  /\ UNCHANGED <<token, faults>>

(* The service has taken the request and never sends a header: nothing ends *)
(* the wait, the client has a timeout for connecting only.                  *)
Unanswered ==
  /\ at = "opening" /\ faults < MaxFaults
  /\ at' = "unanswered" /\ faults' = faults + 1
  /\ UNCHANGED <<token, using, backoff, misses, clock, service, local>>

AwaitWelcome ==
  /\ at = "welcome"
  /\ at' = "registering"
  /\ UNCHANGED <<token, using, backoff, misses, clock, service, local, faults>>

RegisteredOnce ==               \* defect: what is posted later renews nothing
  /\ lease' = IF at = "registering" THEN Lease ELSE lease
  /\ UNCHANGED <<forgotten, deaf, events, session>>

(* A service that has forgotten this robot takes its heartbeats all the same. *)
Registered == lease' = Lease /\ UNCHANGED <<forgotten, deaf, events, session>>

Answered(next) ==
  /\ at' = next /\ spent' = 0

(* setPeerStatus, at first and at every heartbeat. *)
SetPeerStatus ==
  /\ at \in {"registering", "beating"}
  /\ Registered /\ Answered("held") /\ heldUp' = FALSE
  /\ UNCHANGED <<token, using, backoff, misses, beat, poll, local, faults>>

(* The service closes the stream, or refuses or fails a post. *)
Fails ==
  /\ at \in Joining \cup (InLoop \ {"polling", "feeding"}) /\ faults < MaxFaults
  /\ \/ Reconnect
     \/ at \in {"registering", "beating", "refusing"} /\ Unauthorised
  /\ faults' = faults + 1
  /\ UNCHANGED token

-----------------------------------------------------------------------------
(* The loop of session(). *)

StillSignedIn == token # None   \* defect: another account is not noticed
StillOurs == token = using

Heartbeat ==
  /\ at = "held" /\ beat = 0
  /\ IF StillOurs
       THEN /\ at' = "beating" /\ beat' = Cadence
            /\ UNCHANGED <<using, backoff, misses, poll, heldUp, spent, service, local>>
       ELSE CredentialChanged
  /\ UNCHANGED <<token, faults>>

StatusPoll ==
  /\ at = "held" /\ poll = 0
  /\ at' = "polling" /\ poll' = Poll
  /\ UNCHANGED <<token, using, backoff, misses, beat, heldUp, spent, service, local, faults>>

Listed == at = "polling" /\ ~forgotten
  /\ misses' = 0 /\ Answered("held")
  /\ UNCHANGED <<token, using, backoff, timers, service, local, faults>>

(* Enough misses in a row, and the connection is given up. *)
Enough(n) == n >= Misses

NotListed ==
  /\ at = "polling" /\ forgotten
  /\ IF Enough(misses + 1)
       THEN SplitBrain
       ELSE /\ misses' = misses + 1 /\ Answered("held")
            /\ UNCHANGED <<using, backoff, timers, service, local>>
  /\ UNCHANGED <<token, faults>>

(* A poll that fails is not a miss. *)
PollFails ==
  /\ at = "polling" /\ faults < MaxFaults
  /\ faults' = faults + 1
  /\ Answered("held")
  /\ UNCHANGED <<token, using, backoff, misses, timers, service, local>>

Reap ==
  /\ at = "held" /\ bridge.stage = "finished"
  /\ bridge' = NoBridge /\ queue' = 0
  /\ UNCHANGED <<token, at, using, backoff, misses, clock, service, about, untold, faults>>

Live == bridge.stage \notin {"none", "finished"}
Next1(type) == at = "held" /\ ~deaf /\ events # <<>> /\ Head(events).type = type
Took == events' = Tail(events) /\ UNCHANGED listing
loopOthers == <<token, using, backoff, misses, timers, faults>>

StartSession ==
  /\ Next1("start") /\ ~Live
  /\ Took
  /\ bridge' = [of |-> Head(events).of, stage |-> "opening"] /\ queue' = 0
  /\ UNCHANGED <<loopOthers, at, spent, session, about, untold>>

RefuseSecond ==
  /\ Next1("start") /\ Live
  /\ Took
  /\ at' = "refusing" /\ about' = Head(events).of
  /\ UNCHANGED <<loopOthers, spent, session, bridge, queue, untold>>

Refusal ==
  /\ at = "refusing"
  /\ session' = [session EXCEPT ![about] = "ended"]
  /\ Answered("held") /\ about' = None
  /\ UNCHANGED <<loopOthers, listing, events, bridge, queue, untold>>

PeerMessage ==
  /\ Next1("peer")
  /\ Took
  /\ IF bridge.of = Head(events).of
       THEN at' = "feeding" /\ about' = Head(events).of
       ELSE UNCHANGED <<at, about>>
  /\ UNCHANGED <<loopOthers, spent, session, bridge, queue, untold>>

(* carry() has the receiving end, and drops it as it ends: before endSession *)
(* is posted.  The loop waits for room while it is there; when it is not,    *)
(* the task is aborted, with what it was still to post.                      *)
Receiving == bridge.stage \in {"opening", "carrying"}

Feed ==
  /\ at = "feeding"
  /\ \/ Receiving /\ queue < Room /\ queue' = queue + 1 /\ UNCHANGED <<bridge, untold>>
     \/ /\ ~Receiving /\ bridge' = NoBridge /\ queue' = 0
        /\ untold' = IF bridge.stage = "posting" THEN untold \cup {bridge.of} ELSE untold
  /\ at' = "held" /\ about' = None
  /\ UNCHANGED <<loopOthers, spent, service>>

EndSession ==
  /\ Next1("end")
  /\ Took
  /\ IF bridge.of = Head(events).of
       THEN bridge' = NoBridge /\ queue' = 0
       ELSE UNCHANGED <<bridge, queue>>
  /\ UNCHANGED <<loopOthers, at, spent, session, about, untold>>

-----------------------------------------------------------------------------
(* The bridged session: carry(), then the one place that posts endSession. *)

taskOthers == <<token, at, using, backoff, misses, clock, listing, events, about>>
Stage(stage) == bridge' = [bridge EXCEPT !.stage = stage]

SessionStarted ==
  /\ bridge.stage = "opening"
  /\ Stage("carrying")
  /\ session' = [session EXCEPT ![bridge.of] = IF @ = "asked" THEN "carried" ELSE @]
  /\ UNCHANGED <<taskOthers, queue, untold, faults>>

Carry ==
  /\ bridge.stage = "carrying" /\ queue > 0
  /\ queue' = queue - 1
  /\ UNCHANGED <<taskOthers, session, bridge, untold, faults>>

CarryEndsSilently ==            \* defect: an early return past the post
  /\ Receiving
  /\ Stage("finished") /\ queue' = 0
  /\ UNCHANGED <<taskOthers, session, untold, faults>>

(* No producer, no handshake in time, either side failing, or the robot's end. *)
CarryEnds ==
  /\ Receiving
  /\ Stage("posting") /\ queue' = 0
  /\ UNCHANGED <<taskOthers, session, untold, faults>>

HubEnd ==
  /\ bridge.stage = "posting"
  /\ Stage("finished")
  /\ session' = [session EXCEPT ![bridge.of] = "ended"]
  /\ UNCHANGED <<taskOthers, queue, untold, faults>>

(* Best effort: a post that fails is logged. *)
HubEndFails ==
  /\ bridge.stage = "posting" /\ faults < MaxFaults
  /\ Stage("finished")
  /\ untold' = untold \cup {bridge.of}
  /\ faults' = faults + 1
  /\ UNCHANGED <<taskOthers, queue, session>>

-----------------------------------------------------------------------------
(* The service, its consumers, the account, and time. *)

OnTheList == at \in InLoop /\ ~forgotten
Reachable == OnTheList /\ ~deaf
Tell(event) ==
  /\ at \in InLoop /\ Len(events) < MaxEvents
  /\ events' = Append(events, event)
  /\ UNCHANGED <<token, at, using, backoff, misses, clock, listing, local>>

Ask(a) ==
  /\ session[a] = "none" /\ OnTheList
  /\ session' = [session EXCEPT ![a] = "asked"]
  /\ Tell([type |-> "start", of |-> a]) /\ UNCHANGED faults

Say(a) ==
  /\ session[a] \in {"asked", "carried"} /\ faults < MaxFaults
  /\ faults' = faults + 1
  /\ Tell([type |-> "peer", of |-> a]) /\ UNCHANGED session

GiveUp(a) ==
  /\ session[a] \in {"asked", "carried"}
  /\ session' = [session EXCEPT ![a] = "ended"]
  /\ Tell([type |-> "end", of |-> a]) /\ UNCHANGED faults

Forget ==
  /\ OnTheList /\ faults < MaxFaults
  /\ forgotten' = TRUE
  /\ faults' = faults + 1
  /\ UNCHANGED <<token, at, using, backoff, misses, clock, lease, deaf, events, session,
                 local>>

(* The service goes on listing a robot that its stream no longer reaches. *)
GoesDeaf ==
  /\ Reachable /\ faults < MaxFaults
  /\ deaf' = TRUE
  /\ faults' = faults + 1
  /\ UNCHANGED <<token, at, using, backoff, misses, clock, lease, forgotten, events,
                 session, local>>

Login ==
  /\ faults < MaxFaults
  /\ token' \in (Token \cup {None}) \ {token}
  /\ faults' = faults + 1
  /\ UNCHANGED <<at, using, backoff, misses, clock, service, local>>

(* The robot is evicted when its lease runs out. *)
Less(n) == IF n = 0 THEN 0 ELSE n - 1
Ready == at = "held" /\ (beat = 0 \/ poll = 0 \/ (events # <<>> /\ ~deaf))

Tick ==
  /\ at \in InLoop \cup {"registering"} /\ ~Ready
  /\ at \in Requesting => spent < Reply
  /\ at = "feeding" => Receiving /\ queue = Room
  /\ spent' = IF at \in Requesting THEN spent + 1 ELSE 0
  /\ heldUp' = (heldUp \/ at = "feeding" \/ (at \in Requesting /\ spent >= Prompt))
  /\ beat' = Less(beat) /\ poll' = Less(poll) /\ lease' = Less(lease)
  /\ forgotten' = (forgotten \/ lease = 1)
  /\ UNCHANGED <<token, at, using, backoff, misses, deaf, events, session, local, faults>>

-----------------------------------------------------------------------------
Loop == \/ Connect \/ Sleep \/ OpenStream \/ AwaitWelcome \/ SetPeerStatus
        \/ Heartbeat \/ StatusPoll \/ Listed \/ NotListed \/ Reap
        \/ StartSession \/ RefuseSecond \/ Refusal \/ PeerMessage \/ Feed
        \/ EndSession
Task == SessionStarted \/ Carry \/ HubEnd
Consumer(a) == Ask(a) \/ Say(a) \/ GiveUp(a)

Next ==
  \/ Loop \/ Task \/ CarryEnds \/ HubEndFails \/ Unanswered \/ Fails \/ PollFails
  \/ Forget \/ GoesDeaf \/ Login \/ Tick
  \/ \E a \in Asker : Consumer(a)

Spec == Init /\ [][Next]_vars

(***************************************************************************)
(* A post and a poll time out, the welcome has a deadline, and the select  *)
(* picks among ready branches at random.  GET /events has no timeout: what *)
(* is assumed of it is that it is answered, or never (Unanswered).  The    *)
(* bridged session's task runs: a post of its own times out, its handshake *)
(* has a deadline, and the robot's signalling server, which is in the same *)
(* process, reads what it is sent.                                         *)
(***************************************************************************)
Fairness ==
  /\ WF_vars(Connect) /\ WF_vars(Sleep) /\ WF_vars(OpenStream \/ Unanswered)
  /\ WF_vars(AwaitWelcome) /\ WF_vars(SetPeerStatus)
  /\ WF_vars(Listed \/ NotListed) /\ WF_vars(Refusal) /\ WF_vars(Feed)
  /\ SF_vars(Heartbeat) /\ SF_vars(StatusPoll)
  /\ SF_vars(StartSession \/ RefuseSecond \/ PeerMessage \/ EndSession)
  /\ WF_vars(SessionStarted \/ CarryEnds) /\ WF_vars(Carry)
  /\ WF_vars(HubEnd \/ HubEndFails)
  /\ WF_vars(Tick)

FairSpec == Spec /\ Fairness

-----------------------------------------------------------------------------
LoopOK ==
  /\ token \in Token \cup {None} /\ using \in Token \cup {None}
  /\ at \in Apart \cup Joining \cup InLoop
  /\ using = None <=> at \in Apart
CountersOK ==
  /\ backoff \in 0..Steps /\ misses \in 0..(Misses - 1)
  /\ beat \in 0..Cadence /\ poll \in 0..Poll
SpentOK ==
  /\ spent \in 0..Reply /\ heldUp \in BOOLEAN
  /\ lease \in 0..Lease /\ forgotten \in BOOLEAN /\ deaf \in BOOLEAN
EventsTypeOK == events \in Seq(Event) /\ Len(events) <= MaxEvents
SessionsOK ==
  /\ session \in [Asker -> {"none", "asked", "carried", "ended"}]
  /\ bridge \in [of : Asker \cup {None},
                 stage : {"none", "opening", "carrying", "posting", "finished"}]
  /\ queue \in 0..Room /\ about \in Asker \cup {None} /\ untold \subseteq Asker \cup {None}

TypeOK == LoopOK /\ CountersOK /\ SpentOK /\ EventsTypeOK /\ SessionsOK

(* The relay's own work lets the lease run out only when it was held up: by a *)
(* late answer, or by a session that does not take its messages.  Polls,      *)
(* refusals and heartbeats answered promptly, and messages that find room, in *)
(* whatever order the select takes them, leave the lease time (relay.rs,      *)
(* HEARTBEAT_BOUNDS: no "cadence slower than our own eviction").              *)
LeaseIsHeld == at \in InLoop /\ ~heldUp => lease > 0

(* A consumer that asked is being served, is about to be refused, or has been *)
(* told that it is over, and where it is none of these the post that tells it *)
(* was lost: it failed, or a message of the consumer's own came while it was  *)
(* under way.  No other end of a session leaves anyone looking at a robot     *)
(* that will not answer (relay.rs, bridge: "every exit goes through it").     *)
Attended(a) ==
  \/ bridge.of = a /\ Live
  \/ at = "refusing" /\ about = a
  \/ \E i \in 1..Len(events) : events[i] = [type |-> "start", of |-> a]
NoneIsAbandoned ==
  \A a \in Asker : session[a] \in {"asked", "carried"} => Attended(a) \/ a \in untold

(* The credential was deleted or replaced: a connection that is held with it *)
(* is dropped, whatever else the loop is doing (relay.rs, CredentialChanged). *)
HeldWith(k) == at \in InLoop /\ using = k
SignedOutIsUnlisted ==
  \A k \in Token : (HeldWith(k) /\ token # k) ~> (~HeldWith(k) \/ token = k)

(* A robot with an account can be reached again after any failure that shows: *)
(* a stream that breaks, a refused post, a service that forgot it on a        *)
(* healthy stream.  What does not show is a GET /events that is never         *)
(* answered, and a stream that has gone quiet on a robot still listed.        *)
Stuck == at = "unanswered" \/ deaf
ReachableAgain ==
  \A k \in Token \ Refused : token = k ~> (Reachable \/ Stuck \/ token # k)
=============================================================================

------------------------------ MODULE Session ------------------------------
(***************************************************************************)
(* btd: one GATT characteristic, the subscriptions to it, and the session  *)
(* that serves the newest (btd/src/bluez.rs, session.rs, route.rs,         *)
(* upstream.rs).                                                           *)
(*                                                                         *)
(* A central subscribes, which starts a session and a pump and puts the    *)
(* session's inbound queue in the slot the write callback reads.  It       *)
(* writes a request as two chunks.  The session joins chunks to lines,     *)
(* handles one line at a time (the PIN gate, the refusals, the daemon's    *)
(* connection for the line's lane), and forwards what daemons answer.      *)
(*                                                                         *)
(* A request is a number; a pseudo-line with no id is Null.  A session     *)
(* that a later subscription replaced is not followed further: what it     *)
(* still says goes to a central that has left.  Its pump is.               *)
(***************************************************************************)
EXTENDS Naturals, Sequences, SequencesExt, FiniteSets

CONSTANTS
  Lanes,        \* the (service, lane) pairs a session may hold a connection to
  Service,      \* the daemon at the end of each lane
  Held,         \* the lanes on which a call may keep its daemon for minutes
  Pins,         \* PINs a client may offer and an owner may set
  FactoryPin,   \* the one configd starts with
  Attempts,     \* PIN_ATTEMPTS
  Queue,        \* bound on replies waiting for the session (512 in the code)
  Chunks,       \* bound on chunks waiting in either direction (512)
  MaxSubs,      \* bound: subscriptions
  MaxRequests,  \* bound: requests written to the first session (one fewer to the next)
  MaxFaults,    \* bound: restarts, stuck writes, PIN changes, notifications
  Habits        \* what else the environment may do, see below

(***************************************************************************)
(* "together": a central subscribes and writes while another still does.   *)
(* "diesHolding": a daemon restarts with requests it has not answered.    *)
(* "behind": a central so slow that the replies queue fills.               *)
(***************************************************************************)
ASSUME SessionAssumption ==
  /\ Held \subseteq Lanes
  /\ FactoryPin \in Pins /\ Attempts \in Nat \ {0} /\ Queue \in Nat \ {0}
  /\ Chunks \in Nat \ {0} /\ MaxSubs \in Nat \ {0}
  /\ {MaxRequests, MaxFaults} \subseteq Nat
  /\ Habits \subseteq {"together", "diesHolding", "behind"}

Null == 0
Request == 1..MaxRequests
Sub == 1..MaxSubs
Half == {"head", "tail"}
Noise == [by |-> Null, of |-> Null, half |-> "tail"]   \* not UTF-8, or too long

(***************************************************************************)
(* What a request asks: hello and the calls route.rs permits go to a lane, *)
(* authenticate is answered locally, the others are refused over BLE.      *)
(***************************************************************************)
Call == [kind : {"hello"}, lane : Lanes \ Held]
          \cup [kind : {"permitted"}, lane : Lanes]
          \cup [kind : {"authenticate"}, pin : Pins]
          \cup [kind : {"refused"}]

VARIABLES
  slot,      \* `current`: the subscription whose session takes writes, or 0
  subs,      \* subscriptions made so far
  pumps,     \* the notify tasks that have not ended
  here,      \* the centrals that are still subscribed
  asked,     \* the requests written since then, in order
  partial,   \* per central, the request whose head alone it has written
  open,      \* the newest subscription's session task is alive
  inbound, buffer, authenticated, left, at,
  conns,     \* `Pool::conns`: per lane "none", "live", or "dead"
  wire,      \* per lane, the requests its daemon has and has not answered
  adrift,    \* those on connections the pool has dropped
  replies, outbound,
  got,       \* the requests whose answer reached the central
  wrong,     \* wrong PINs this session was told of (for the properties)
  pin,       \* the PIN configd holds
  faults

subscription == <<slot, subs, pumps, here>>
client == <<asked, partial, got>>
gate == <<authenticated, left, wrong>>
upstreams == <<conns, wire, adrift>>
world == <<pin, faults>>
vars == <<subscription, client, open, inbound, buffer, gate, at, upstreams,
          replies, outbound, world>>

Idle == [doing |-> "idle", on |-> Null]
Doing == {"idle", "pin", "connect", "write", "reconnect", "rewrite", "reply"}

NoSessionButChunks ==           \* defect: the queue of chunks outlives a session
  /\ UNCHANGED inbound /\ buffer' = <<>> /\ at' = Idle
  /\ conns' = [l \in Lanes |-> "none"] /\ wire' = [l \in Lanes |-> <<>>]
  /\ adrift' = {} /\ replies' = <<>> /\ outbound' = <<>>
  /\ authenticated' = FALSE /\ left' = Attempts /\ wrong' = 0

NoSession ==
  /\ inbound' = <<>> /\ buffer' = <<>> /\ at' = Idle
  /\ conns' = [l \in Lanes |-> "none"] /\ wire' = [l \in Lanes |-> <<>>]
  /\ adrift' = {} /\ replies' = <<>> /\ outbound' = <<>>
  /\ authenticated' = FALSE /\ left' = Attempts /\ wrong' = 0

Init ==
  /\ slot = 0 /\ subs = 0 /\ pumps = {} /\ here = {}
  /\ asked = <<>> /\ partial = [s \in Sub |-> Null] /\ got = {}
  /\ open = FALSE /\ inbound = <<>> /\ buffer = <<>> /\ at = Idle
  /\ authenticated = FALSE /\ left = Attempts /\ wrong = 0
  /\ conns = [l \in Lanes |-> "none"] /\ wire = [l \in Lanes |-> <<>>]
  /\ adrift = {} /\ replies = <<>> /\ outbound = <<>>
  /\ pin = FactoryPin /\ faults = 0

-----------------------------------------------------------------------------
(* The radio: subscriptions, writes, and the pump of each subscription. *)

Subscribe ==
  /\ subs < MaxSubs
  /\ here = {} \/ "together" \in Habits
  /\ subs' = subs + 1
  /\ slot' = subs'
  /\ pumps' = pumps \cup {subs'}
  /\ here' = here \cup {subs'}
  /\ open' = TRUE
  /\ NoSession
  /\ asked' = <<>> /\ partial' = [s \in Sub |-> Null] /\ got' = {}
  /\ UNCHANGED world

Leave(s) ==
  /\ s \in here
  /\ here' = here \ {s}
  /\ UNCHANGED <<slot, subs, pumps, client, open, inbound, buffer, gate, at,
                 upstreams, replies, outbound, world>>

(* The write callback: the slot decides, whichever central writes.  A refused *)
(* write changes nothing.                                                    *)
Accepts(chunk) ==
  /\ slot # 0 /\ slot = subs /\ open
  /\ Len(inbound) < Chunks
  /\ inbound' = Append(inbound, chunk)
  /\ UNCHANGED <<subscription, got, open, buffer, gate, at, upstreams, replies,
                 outbound, world>>

WriteHead(s, call) ==
  /\ s \in here /\ partial[s] = Null /\ Len(asked) + subs <= MaxRequests
  /\ asked' = Append(asked, [call |-> call, whole |-> FALSE])
  /\ partial' = [partial EXCEPT ![s] = Len(asked')]
  /\ Accepts([by |-> s, of |-> Len(asked'), half |-> "head"])

WriteTail(s) ==
  /\ s \in here /\ partial[s] # Null
  /\ partial' = [partial EXCEPT ![s] = Null]
  /\ asked' = [asked EXCEPT ![partial[s]].whole = TRUE]
  /\ Accepts([by |-> s, of |-> partial[s], half |-> "tail"])

WriteNoise(s) ==
  /\ s \in here /\ partial[s] = Null
  /\ Accepts(Noise)
  /\ UNCHANGED <<asked, partial>>

PumpDelivers ==
  /\ subs \in pumps \cap here /\ outbound # <<>>
  /\ got' = got \cup ({Head(outbound)} \ {Null})
  /\ outbound' = Tail(outbound)
  /\ UNCHANGED <<subscription, asked, partial, open, inbound, buffer, gate, at,
                 upstreams, replies, world>>

(* The pump of a central that left, or of a session that returned.  Only the *)
(* slot of its own session is cleared.                                       *)
ClearAnySlot(s) == slot' = 0    \* defect: a blind take()
ClearSlot(s) == slot' = IF slot = s THEN 0 ELSE slot

PumpEnds(s) ==
  /\ s \in pumps
  /\ s \notin here \/ (s = subs /\ ~open /\ outbound = <<>>)
  /\ pumps' = pumps \ {s}
  /\ ClearSlot(s)
  /\ IF s = subs THEN open' = FALSE /\ NoSession
                 ELSE UNCHANGED <<open, inbound, buffer, gate, at, upstreams,
                                  replies, outbound>>
  /\ UNCHANGED <<subs, here, client, world>>

-----------------------------------------------------------------------------
(* The session: one line at a time. *)

Stage(doing, r) == at' = [doing |-> doing, on |-> r]
CallOf(r) == asked[r].call
ServiceOf(r) == {l \in Lanes : Service[l] = Service[CallOf(r).lane]}
OneConnection(r) ==             \* defect: a connection for each service
  CHOOSE l \in ServiceOf(r) : ServiceOf(r) \cap Held # {} => l \in Held
LaneOf(r) == CallOf(r).lane

(* The session task returns: its queues close, what is outbound still goes. *)
Return ==
  /\ open' = FALSE
  /\ inbound' = <<>> /\ buffer' = <<>> /\ at' = Idle /\ replies' = <<>>
  /\ conns' = [l \in Lanes |-> "none"] /\ wire' = [l \in Lanes |-> <<>>]
  /\ adrift' = {}

Unlocked(call) == authenticated \/ call.kind \in {"authenticate", "hello"}

(* The line is one request, and btd has nothing against it. *)
Serve(r) ==
  LET call == CallOf(r) IN
  Stage(CASE ~Unlocked(call) \/ call.kind = "refused" -> "reply"
          [] call.kind = "authenticate" -> "pin"
          [] OTHER -> IF conns[LaneOf(r)] = "none" THEN "connect" ELSE "write", r)

(* A line of anything but one request is answered, with a null id. *)
Dispatch(line) ==
  IF Len(line) = 2 /\ line[1].half = "head" /\ line[1].of = line[2].of
    THEN Serve(line[1].of)
    ELSE Stage("reply", Null)

TakeChunk ==
  /\ open /\ at = Idle /\ inbound # <<>> /\ Head(inbound) # Noise
  /\ inbound' = Tail(inbound)
  /\ LET joined == Append(buffer, Head(inbound)) IN
       IF Head(inbound).half = "tail"
         THEN buffer' = <<>> /\ Dispatch(joined)
         ELSE buffer' = joined /\ UNCHANGED at
  /\ UNCHANGED <<subscription, client, open, gate, upstreams, replies, outbound,
                 world>>

TakeNoise ==
  /\ open /\ at = Idle /\ inbound # <<>> /\ Head(inbound) = Noise
  /\ Return
  /\ UNCHANGED <<subscription, client, gate, outbound, world>>

TakeReply ==
  /\ open /\ at = Idle /\ replies # <<>>
  /\ replies' = Tail(replies)
  /\ Stage("reply", Head(replies))
  /\ UNCHANGED <<subscription, client, open, inbound, buffer, gate, upstreams,
                 outbound, world>>

(* send_line waits for room; the answer to the last wrong PIN ends the session. *)
NeverSpent == FALSE             \* defect: the session is not closed
SpentTries == left = 0

SendLine ==
  /\ open /\ at.doing = "reply" /\ Len(outbound) < Chunks
  /\ outbound' = Append(outbound, at.on)
  /\ IF SpentTries
       THEN Return
       ELSE /\ at' = Idle
            /\ UNCHANGED <<open, inbound, buffer, upstreams, replies>>
  /\ UNCHANGED <<subscription, client, gate, world>>

WrongPin == left' = left - 1 /\ wrong' = wrong + 1

(* configd is asked at every attempt; one that cannot answer costs no attempt. *)
CheckPin ==
  /\ open /\ at.doing = "pin"
  /\ \/ CallOf(at.on).pin = pin
        /\ authenticated' = TRUE /\ UNCHANGED <<left, wrong>>
     \/ CallOf(at.on).pin # pin /\ WrongPin /\ UNCHANGED authenticated
     \/ UNCHANGED gate
  /\ Stage("reply", at.on)
  /\ UNCHANGED <<subscription, client, open, inbound, buffer, upstreams, replies,
                 outbound, world>>

-----------------------------------------------------------------------------
(* The pool: one connection for each lane, opened at need. *)

Connection(l, state) == conns' = [conns EXCEPT ![l] = state]
poolOthers == <<subscription, client, open, inbound, buffer, gate, replies,
                outbound, pin>>

Connect ==
  /\ open /\ at.doing \in {"connect", "reconnect"}
  /\ LET l == LaneOf(at.on) IN
       \/ /\ Connection(l, "live")
          /\ Stage(IF at.doing = "connect" THEN "write" ELSE "rewrite", at.on)
       \/ UNCHANGED conns /\ Stage("reply", at.on)
  /\ UNCHANGED <<poolOthers, wire, adrift, faults>>

Write ==
  /\ open /\ at.doing \in {"write", "rewrite"}
  /\ LET l == LaneOf(at.on) IN
       /\ conns[l] = "live"
       /\ wire' = [wire EXCEPT ![l] = Append(@, at.on)]
  /\ at' = Idle
  /\ UNCHANGED <<poolOthers, conns, adrift, faults>>

(* The daemon has restarted since: the write fails, is made once more on a   *)
(* fresh connection, and a second such failure is reported.                  *)
WriteIntoDead ==
  /\ open /\ at.doing \in {"write", "rewrite"}
  /\ LET l == LaneOf(at.on) IN conns[l] = "dead" /\ Connection(l, "none")
  /\ Stage(IF at.doing = "write" THEN "reconnect" ELSE "reply", at.on)
  /\ UNCHANGED <<poolOthers, wire, adrift, faults>>

WriteTimesOutLate ==            \* defect: given up on, yet it got through
  /\ open /\ at.doing \in {"write", "rewrite"} /\ faults < MaxFaults
  /\ LET l == LaneOf(at.on) IN
       /\ conns[l] = "live"
       /\ Connection(l, "none")
       /\ wire' = [wire EXCEPT ![l] = <<>>]
       /\ adrift' = adrift \cup ToSet(wire[l]) \cup {at.on}
  /\ Stage("reply", at.on)
  /\ faults' = faults + 1
  /\ UNCHANGED poolOthers

(* A daemon that does not read: the connection is dropped and the line, never *)
(* whole at the other end, is reported.  The reader task goes on.             *)
WriteTimesOut ==
  /\ open /\ at.doing \in {"write", "rewrite"} /\ faults < MaxFaults
  /\ LET l == LaneOf(at.on) IN
       /\ conns[l] = "live" /\ wire[l] # <<>>
       /\ Connection(l, "none")
       /\ wire' = [wire EXCEPT ![l] = <<>>]
       /\ adrift' = adrift \cup ToSet(wire[l])
  /\ Stage("reply", at.on)
  /\ faults' = faults + 1
  /\ UNCHANGED poolOthers


(* The reader of a connection: what does not fit is dropped. *)
Forward(line) ==
  /\ Len(replies) < Queue \/ "behind" \in Habits
  /\ replies' = IF Len(replies) < Queue THEN Append(replies, line) ELSE replies

daemonOthers == <<subscription, client, open, inbound, buffer, gate, at, conns,
                  outbound, pin>>

(* A daemon serves a connection's requests one after the other. *)
Answer(l) ==
  /\ wire[l] # <<>>
  /\ Forward(Head(wire[l]))
  /\ wire' = [wire EXCEPT ![l] = Tail(@)]
  /\ UNCHANGED <<daemonOthers, adrift, faults>>

AnswerAdrift(r) ==
  /\ r \in adrift
  /\ Forward(r)
  /\ adrift' = adrift \ {r}
  /\ UNCHANGED <<daemonOthers, wire, faults>>

Notify(l) ==
  /\ conns[l] = "live" /\ faults < MaxFaults
  /\ Forward(Null)
  /\ faults' = faults + 1
  /\ UNCHANGED <<daemonOthers, wire, adrift>>

(* Its connections are dead, and what it had not answered is lost. *)
Restart(d) ==
  LET its == {l \in Lanes : Service[l] = d} IN
  /\ faults < MaxFaults
  /\ \/ "diesHolding" \in Habits
     \/ adrift = {} /\ \A l \in its : wire[l] = <<>>
  /\ faults' = faults + 1
  /\ conns' = [l \in Lanes |-> IF l \in its /\ conns[l] = "live" THEN "dead"
                                                                 ELSE conns[l]]
  /\ wire' = [l \in Lanes |-> IF l \in its THEN <<>> ELSE wire[l]]
  /\ adrift' = {r \in adrift : LaneOf(r) \notin its}
  /\ UNCHANGED <<subscription, client, open, inbound, buffer, gate, at, replies,
                 outbound, pin>>

SetPin ==
  /\ faults < MaxFaults
  /\ pin' \in Pins \ {pin}
  /\ faults' = faults + 1
  /\ UNCHANGED <<subscription, client, open, inbound, buffer, gate, at, upstreams,
                 replies, outbound>>

-----------------------------------------------------------------------------
Work == TakeChunk \/ TakeNoise \/ TakeReply \/ SendLine \/ CheckPin
          \/ Connect \/ Write \/ WriteIntoDead
Daemon == \/ \E l \in Lanes : Answer(l) \/ Notify(l)
          \/ \E r \in adrift : AnswerAdrift(r)
          \/ \E l \in Lanes : Restart(Service[l])
          \/ SetPin
Central(s) == \/ Leave(s) \/ WriteTail(s) \/ WriteNoise(s)
              \/ \E call \in Call : WriteHead(s, call)

Next ==
  \/ Subscribe \/ PumpDelivers \/ WriteTimesOut \/ Work \/ Daemon
  \/ \E s \in Sub : Central(s) \/ PumpEnds(s)

Spec == Init /\ [][Next]_vars

(***************************************************************************)
(* The session loop and the pump run whenever they can, each await of the  *)
(* session being bounded by a timeout; a daemon answers on the lanes that  *)
(* no call holds for minutes.  Nothing is assumed of the others, nor of    *)
(* any central.                                                            *)
(***************************************************************************)
Fairness ==
  /\ WF_vars(Work) /\ WF_vars(PumpDelivers)
  /\ \A l \in Lanes \ Held : WF_vars(Answer(l))
  /\ \A r \in Request : WF_vars(r \in adrift /\ LaneOf(r) \notin Held /\ AnswerAdrift(r))

FairSpec == Spec /\ Fairness

-----------------------------------------------------------------------------
Chunk == {Noise} \cup [by : Sub, of : Request, half : Half]

(* The types of the variables. *)
RadioOK ==
  /\ subs \in 0..MaxSubs /\ slot \in 0..subs
  /\ pumps \subseteq 1..subs /\ here \subseteq 1..subs
  /\ asked \in Seq([call : Call, whole : BOOLEAN]) /\ Len(asked) <= MaxRequests
  /\ partial \in [Sub -> {Null} \cup Request]
  /\ got \subseteq Request

StreamsOK ==
  /\ inbound \in Seq(Chunk) /\ Len(inbound) <= Chunks
  /\ buffer \in Seq(Chunk)
  /\ replies \in Seq({Null} \cup Request) /\ Len(replies) <= Queue
  /\ outbound \in Seq({Null} \cup Request) /\ Len(outbound) <= Chunks

TaskOK ==
  /\ open \in BOOLEAN /\ authenticated \in BOOLEAN
  /\ left \in 0..Attempts /\ wrong \in 0..Attempts
  /\ at \in [doing : Doing, on : {Null} \cup Request]
  /\ pin \in Pins /\ faults \in 0..MaxFaults

PoolOK ==
  /\ conns \in [Lanes -> {"none", "live", "dead"}]
  /\ wire \in [Lanes -> Seq(Request)]
  /\ adrift \subseteq Request

TypeOK == RadioOK /\ StreamsOK /\ TaskOK /\ PoolOK

WithDaemon == adrift \cup UNION {ToSet(wire[l]) : l \in Lanes}

(* Nothing but hello reaches a daemon from a session that has not proved the *)
(* PIN, and a session that was told of its last wrong PIN serves nothing     *)
(* more (session.rs, the PIN gate and PIN_ATTEMPTS).                         *)
PinFirst ==
  /\ ~authenticated => \A r \in WithDaemon : CallOf(r).kind = "hello"
  /\ wrong <= Attempts
  /\ wrong = Attempts /\ open => at.doing = "reply"

(* A request is in one place at a time, so that it is sent to one daemon once, *)
(* and answered once: by btd or by the daemon, never by both (upstream.rs,     *)
(* the one retry of `send`; the readers of connections the pool has dropped).  *)
Places(r) ==
  LET Holding(seq) == {i \in 1..Len(seq) : seq[i] = r} IN
  {<<"session", 0>> : x \in {at.on} \cap {r}}
    \cup {<<"adrift", 0>> : x \in adrift \cap {r}}
    \cup {<<"central", 0>> : x \in got \cap {r}}
    \cup ({"replies"} \X Holding(replies)) \cup ({"outbound"} \X Holding(outbound))
    \cup UNION {{l} \X Holding(wire[l]) : l \in Lanes}
AnsweredOnce == \A r \in 1..Len(asked) : \A p, q \in Places(r) : p = q

(* What a session joins to a line was written by its own central: never the *)
(* rest of an earlier session's request, never another central's chunks     *)
(* (bluez.rs: "nothing from a previous central can leak into this one").    *)
OwnLines == \A chunk \in ToSet(inbound \o buffer) : chunk.by \in {subs, Noise.by}

(* While the newest central is subscribed and its session lives, writes go to *)
(* that session: no task of an earlier subscription clears or takes the slot  *)
(* (bluez.rs, "only clear the slot if it is still ours").                     *)
SlotIsNewest == subs \in here /\ open => slot = subs

(* A central talks to its own session, and each of its lines is in one place *)
(* on the way there and back.                                                *)
LinesAreOwn == AnsweredOnce /\ OwnLines /\ SlotIsNewest

(* A whole request on a lane that no long call holds is answered, or its     *)
(* session ends: a long call on another lane of the same daemon, a write     *)
(* that times out or a daemon that restarted do not silence it (upstream.rs, *)
(* Pool "keyed on the lane as well as the service").                         *)
Prompt(r) == CallOf(r).kind \in {"hello", "permitted"} => CallOf(r).lane \notin Held
Waiting(r) == r <= Len(asked) /\ asked[r].whole /\ Prompt(r)
Over(r) == ~open \/ subs \notin here \/ r > Len(asked)
AnswerComes == \A r \in Request : Waiting(r) ~> (r \in got \/ Over(r))

=============================================================================

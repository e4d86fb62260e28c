--------------------------- MODULE SessionProofs ---------------------------
(***************************************************************************)
(* Proofs about Session: the PIN gate, whose chunks a session reads, and   *)
(* the one place in which a request is.                                    *)
(***************************************************************************)
EXTENDS Session, SequenceTheorems, TLAPS

USE SessionAssumption

\* The actions of Next, one by one.
LEMMA NextActions ==
  ASSUME [Next]_vars
  PROVE  \/ Subscribe
         \/ PumpDelivers
         \/ WriteTimesOut
         \/ TakeChunk
         \/ TakeNoise
         \/ TakeReply
         \/ SendLine
         \/ CheckPin
         \/ Connect
         \/ Write
         \/ WriteIntoDead
         \/ \E l \in Lanes : Answer(l)
         \/ \E l \in Lanes : Notify(l)
         \/ \E r \in adrift : AnswerAdrift(r)
         \/ \E l \in Lanes : Restart(Service[l])
         \/ SetPin
         \/ \E s \in Sub : Leave(s)
         \/ \E s \in Sub : WriteTail(s)
         \/ \E s \in Sub : WriteNoise(s)
         \/ \E s \in Sub : \E call \in Call : WriteHead(s, call)
         \/ \E s \in Sub : PumpEnds(s)
         \/ UNCHANGED vars
BY Zenon DEF Next, Work, Daemon, Central


\* The bounds are numbers.
LEMMA Sizes ==
  /\ Attempts \in Nat /\ Attempts > 0 /\ Queue \in Nat /\ Chunks \in Nat /\ Chunks > 0
  /\ MaxRequests \in Nat /\ MaxFaults \in Nat /\ MaxSubs \in Nat
OBVIOUS

-----------------------------------------------------------------------------
(* Sequences, and the requests in them.                                    *)

\* A sequence names no request twice (a line without an id may come again).
Distinct(seq) == \A i \in 1..Len(seq) : \A j \in 1..Len(seq) :
                    i # j /\ seq[i] = seq[j] => seq[i] = Null

\* What is in a sequence.
LEMMA InSeq ==
  ASSUME NEW S, NEW seq \in Seq(S)
  PROVE  /\ ToSet(seq) = {seq[i] : i \in 1..Len(seq)} /\ ToSet(seq) \subseteq S
         /\ \A x \in ToSet(seq) : \E i \in 1..Len(seq) : seq[i] = x
         /\ \A i \in 1..Len(seq) : seq[i] \in ToSet(seq)
BY DEF ToSet

\* A queue that gets one more.
LEMMA InAppend ==
  ASSUME NEW S, NEW seq \in Seq(S), NEW x \in S
  PROVE  /\ ToSet(Append(seq, x)) = ToSet(seq) \cup {x}
         /\ Distinct(seq) /\ (x = Null \/ x \notin ToSet(seq)) => Distinct(Append(seq, x))
<1> DEFINE more == Append(seq, x)
<1>1. /\ Len(seq) \in Nat /\ more \in Seq(S) /\ Len(more) = Len(seq) + 1
      /\ more[Len(seq) + 1] = x /\ \A i \in 1..Len(seq) : more[i] = seq[i]
  OBVIOUS
<1>2. \A i \in 1..Len(more) : i \in 1..Len(seq) \/ i = Len(seq) + 1
  BY <1>1
<1>3. ToSet(seq) = {seq[i] : i \in 1..Len(seq)} /\ ToSet(more) = {more[i] : i \in 1..Len(more)}
  BY <1>1, InSeq
<1> HIDE DEF more
<1>4. ToSet(more) = ToSet(seq) \cup {x}
  <2>1. ToSet(more) \subseteq ToSet(seq) \cup {x}
    BY <1>1, <1>2, <1>3
  <2>2. ToSet(seq) \subseteq ToSet(more)
    BY <1>1, <1>3
  <2>3. x \in ToSet(more)
    BY <1>1, <1>3
  <2> QED BY <2>1, <2>2, <2>3
<1>5. ASSUME Distinct(seq), x = Null \/ x \notin ToSet(seq)
      PROVE  Distinct(more)
  <2>1. \A i \in 1..Len(seq) : x = Null \/ seq[i] # x
    BY <1>3, <1>5
  <2> SUFFICES ASSUME NEW i \in 1..Len(more), NEW j \in 1..Len(more), i # j, more[i] = more[j]
               PROVE  more[i] = Null
    BY DEF Distinct
  <2>2. CASE i \in 1..Len(seq) /\ j \in 1..Len(seq)
    BY <1>1, <1>5, <2>2 DEF Distinct
  <2>3. CASE i \in 1..Len(seq) /\ j = Len(seq) + 1
    BY <1>1, <2>1, <2>3
  <2>4. CASE j \in 1..Len(seq) /\ i = Len(seq) + 1
    BY <1>1, <2>1, <2>4
  <2> QED BY <1>2, <2>2, <2>3, <2>4
<1> QED BY <1>4, <1>5 DEF more

\* A queue that loses its first.
LEMMA InTail ==
  ASSUME NEW S, NEW seq \in Seq(S), seq # <<>>
  PROVE  /\ Head(seq) \in S /\ Head(seq) \in ToSet(seq) /\ Tail(seq) \in Seq(S)
         /\ Len(Tail(seq)) = Len(seq) - 1
         /\ ToSet(Tail(seq)) \subseteq ToSet(seq)
         /\ Distinct(seq) => /\ Distinct(Tail(seq))
                             /\ Head(seq) = Null \/ Head(seq) \notin ToSet(Tail(seq))
<1>1. /\ Len(seq) \in Nat /\ Len(seq) >= 1 /\ Head(seq) = seq[1] /\ Head(seq) \in S
      /\ Tail(seq) \in Seq(S) /\ Len(Tail(seq)) = Len(seq) - 1
      /\ \A i \in 1..Len(Tail(seq)) : Tail(seq)[i] = seq[i + 1]
  OBVIOUS
<1>2. /\ ToSet(seq) = {seq[i] : i \in 1..Len(seq)}
      /\ ToSet(Tail(seq)) = {Tail(seq)[i] : i \in 1..Len(Tail(seq))}
  BY <1>1, InSeq
<1>3. \A i \in 1..Len(Tail(seq)) : i + 1 \in 1..Len(seq) /\ i + 1 # 1
  BY <1>1
<1>4. Head(seq) \in ToSet(seq) /\ ToSet(Tail(seq)) \subseteq ToSet(seq)
  BY <1>1, <1>2, <1>3
<1>5. ASSUME Distinct(seq)
      PROVE  Distinct(Tail(seq)) /\ (Head(seq) = Null \/ Head(seq) \notin ToSet(Tail(seq)))
  <2>1. \A i \in 1..Len(Tail(seq)) : Tail(seq)[i] = Head(seq) => Head(seq) = Null
    BY <1>1, <1>3, <1>5 DEF Distinct
  <2>2. ASSUME NEW i \in 1..Len(Tail(seq)), NEW j \in 1..Len(Tail(seq)), i # j,
               Tail(seq)[i] = Tail(seq)[j]
        PROVE  Tail(seq)[i] = Null
    <3>1. i + 1 # j + 1
      BY <2>2, <1>1
    <3> QED BY <3>1, <2>2, <1>1, <1>3, <1>5 DEF Distinct
  <2> QED BY <1>2, <2>1, <2>2 DEF Distinct
<1> QED BY <1>1, <1>4, <1>5

\* The empty queue.
LEMMA InNone == ToSet(<<>>) = {} /\ Distinct(<<>>)
BY DEF ToSet, Distinct

-----------------------------------------------------------------------------
(* The invariant.                                                          *)

\* The PIN gate counts: an attempt is left or was wrong, and the last wrong one is answered.
GateOK ==
  /\ left + wrong = Attempts
  /\ open /\ left = 0 => at.doing = "reply"

\* What a request may be when a daemon has it, or is about to.
Served(r) == /\ r \in 1..Len(asked)
             /\ \/ CallOf(r).kind = "hello"
                \/ authenticated /\ CallOf(r).kind = "permitted"

StageOK ==
  /\ at.on \in 0..Len(asked)
  /\ at.doing = "idle" => at.on = Null
  /\ at.doing = "pin" => at.on # Null
  /\ at.doing \in {"connect", "write", "reconnect", "rewrite"} => Served(at.on)

\* A chunk is of a request that was asked, or noise; only heads wait for their tails.
ChunkOK(chunk) == chunk = Noise \/ (chunk.of \in 1..Len(asked) /\ chunk.by # Null)
ChunksOK ==
  /\ \A chunk \in ToSet(inbound) : ChunkOK(chunk)
  /\ \A chunk \in ToSet(buffer) : ChunkOK(chunk) /\ chunk.half = "head"

-----------------------------------------------------------------------------
(* The types.                                                              *)

\* btd starts with no session.
LEMMA InitType == Init => TypeOK
<1> SUFFICES ASSUME Init PROVE TypeOK
  OBVIOUS
<1>1. RadioOK
  BY DEF Init, RadioOK, Sub
<1>2. StreamsOK
  BY DEF Init, StreamsOK
<1>3. TaskOK
  <2>1. at \in [doing : Doing, on : {Null} \cup Request]
    BY DEF Init, Idle, Doing
  <2>2. left \in 0..Attempts /\ wrong \in 0..Attempts /\ faults \in 0..MaxFaults
    BY Sizes DEF Init
  <2>3. open \in BOOLEAN /\ authenticated \in BOOLEAN /\ pin \in Pins
    BY DEF Init
  <2> QED BY <2>1, <2>2, <2>3 DEF TaskOK
<1>4. PoolOK
  BY DEF Init, PoolOK
<1> QED BY <1>1, <1>2, <1>3, <1>4 DEF TypeOK

\* The tail of a request has come.
LEMMA AskedWhole ==
  ASSUME TypeOK, NEW r \in Nat
  PROVE  LET more == [asked EXCEPT ![r] = [asked[r] EXCEPT !.whole = TRUE]] IN
         /\ more \in Seq([call : Call, whole : BOOLEAN]) /\ Len(more) = Len(asked)
         /\ \A q \in 1..Len(asked) : /\ more[q].call = asked[q].call
                                    /\ more[q].whole = (q = r \/ asked[q].whole)
<1> DEFINE more == [asked EXCEPT ![r] = [asked[r] EXCEPT !.whole = TRUE]]
           Entry == [call : Call, whole : BOOLEAN]
<1>1. /\ asked \in Seq(Entry) /\ Len(asked) \in Nat /\ DOMAIN asked = 1..Len(asked)
      /\ \A q \in 1..Len(asked) : asked[q] \in Entry
  <2>1. asked \in Seq(Entry)
    BY DEF TypeOK, RadioOK
  <2> HIDE DEF Entry
  <2> QED BY <2>1
<1>2. CASE r \in 1..Len(asked)
  <2>1. [asked[r] EXCEPT !.whole = TRUE] \in Entry
    BY <1>1, <1>2
  <2>2. more \in Seq(Entry) /\ Len(more) = Len(asked)
    BY <1>1, <1>2, <2>1, ExceptSeq
  <2>3. \A q \in 1..Len(asked) : more[q] = IF q = r THEN [asked[r] EXCEPT !.whole = TRUE] ELSE asked[q]
    BY <1>1, <1>2
  <2>4. ASSUME NEW q \in 1..Len(asked)
        PROVE  more[q].call = asked[q].call /\ more[q].whole = (q = r \/ asked[q].whole)
    <3>1. CASE q = r
      BY <1>1, <2>3, <3>1
    <3>2. CASE q # r
      BY <1>1, <2>3, <3>2
    <3> QED BY <3>1, <3>2
  <2> QED BY <2>2, <2>4
<1>3. CASE r \notin 1..Len(asked)
  <2>1. more = asked
    BY <1>1, <1>3
  <2> QED BY <1>1, <1>3, <2>1
<1> QED BY <1>2, <1>3

\* The subscriptions and the requests keep their types,
LEMMA StepRadio ==
  ASSUME TypeOK, [Next]_vars
  PROVE  RadioOK'
<1> USE DEF TypeOK, RadioOK, Sub, Request, Null
<1>1. CASE Subscribe
    BY <1>1 DEF Subscribe, NoSession, subscription, client, gate, upstreams, world
<1>2. CASE PumpDelivers
  <2>1. Head(outbound) \in {Null} \cup Request
    BY <1>2 DEF PumpDelivers, StreamsOK
  <2>2. got' \subseteq Request /\ UNCHANGED <<asked, partial, subscription>>
    BY <1>2, <2>1 DEF PumpDelivers
  <2> QED BY <2>2 DEF subscription
<1>3. CASE WriteTimesOut
    BY <1>3 DEF WriteTimesOut, poolOthers, Stage, Connection, subscription, client, gate,
       upstreams, world
<1>4. CASE TakeChunk
    BY <1>4 DEF TakeChunk, Dispatch, Serve, Stage, CallOf, LaneOf, Unlocked, subscription,
       client, gate, upstreams, world
<1>5. CASE TakeNoise
    BY <1>5 DEF TakeNoise, Return, subscription, client, gate, upstreams, world
<1>6. CASE TakeReply
    BY <1>6 DEF TakeReply, Stage, subscription, client, gate, upstreams, world
<1>7. CASE SendLine
    BY <1>7 DEF SendLine, Return, SpentTries, subscription, client, gate, upstreams, world
<1>8. CASE CheckPin
    BY <1>8 DEF CheckPin, Stage, WrongPin, subscription, client, gate, upstreams, world
<1>9. CASE Connect
    BY <1>9 DEF Connect, Stage, Connection, poolOthers, subscription, client, gate, upstreams, world
<1>10. CASE Write
    BY <1>10 DEF Write, poolOthers, subscription, client, gate, upstreams, world
<1>11. CASE WriteIntoDead
    BY <1>11 DEF WriteIntoDead, poolOthers, Stage, Connection, subscription, client, gate,
       upstreams, world
<1>12. CASE \E l \in Lanes : Answer(l)
    BY <1>12 DEF Answer, Forward, daemonOthers, subscription, client, gate, upstreams, world
<1>13. CASE \E l \in Lanes : Notify(l)
    BY <1>13 DEF Notify, Forward, daemonOthers, subscription, client, gate, upstreams, world
<1>14. CASE \E r \in adrift : AnswerAdrift(r)
    BY <1>14 DEF AnswerAdrift, Forward, daemonOthers, subscription, client, gate, upstreams, world
<1>15. CASE \E l \in Lanes : Restart(Service[l])
    BY <1>15 DEF Restart, subscription, client, gate, upstreams, world
<1>16. CASE SetPin
    BY <1>16 DEF SetPin, subscription, client, gate, upstreams, world
<1>17. CASE \E s \in Sub : Leave(s)
    BY <1>17 DEF Leave, subscription, client, gate, upstreams, world
<1>18. CASE \E s \in Sub : WriteTail(s)
  <2>0. PICK s \in Sub : WriteTail(s)
    BY <1>18
  <2> DEFINE r == partial[s]
  <2>1. /\ r \in Nat /\ partial' \in [Sub -> {Null} \cup Request]
        /\ asked' = [asked EXCEPT ![r] = [asked[r] EXCEPT !.whole = TRUE]]
        /\ UNCHANGED <<subs, slot, pumps, here, got>>
    BY <2>0 DEF WriteTail, Accepts, subscription
  <2>2. asked' \in Seq([call : Call, whole : BOOLEAN]) /\ Len(asked') = Len(asked)
    BY <2>1, AskedWhole
  <2> QED BY <2>1, <2>2
<1>19. CASE \E s \in Sub : WriteNoise(s)
    BY <1>19 DEF WriteNoise, Accepts, Noise, subscription, client, gate, upstreams, world
<1>20. CASE \E s \in Sub : \E call \in Call : WriteHead(s, call)
    BY <1>20 DEF WriteHead, Accepts, subscription, client, gate, upstreams, world
<1>21. CASE \E s \in Sub : PumpEnds(s)
    BY <1>21 DEF PumpEnds, NoSession, ClearSlot, subscription, client, gate, upstreams, world
<1>22. CASE UNCHANGED vars
    BY <1>22 DEF vars, subscription, client, gate, upstreams, world
<1> QED BY <1>1, <1>2, <1>3, <1>4, <1>5, <1>6, <1>7, <1>8, <1>9, <1>10, <1>11, <1>12, <1>13,
       <1>14, <1>15, <1>16, <1>17, <1>18, <1>19, <1>20, <1>21, <1>22, NextActions

\* A central's request is given the next number.
LEMMA Grows ==
  ASSUME TypeOK, NEW s \in Sub, NEW call \in Call, WriteHead(s, call)
  PROVE  /\ Len(asked') = Len(asked) + 1 /\ Len(asked') \in Request /\ Len(asked) \in Nat
         /\ asked'[Len(asked')] = [call |-> call, whole |-> FALSE]
         /\ \A r \in 1..Len(asked) : asked'[r] = asked[r]
<1>1. asked' = Append(asked, [call |-> call, whole |-> FALSE]) /\ s \in here /\ Len(asked) + subs <= MaxRequests
  BY DEF WriteHead
<1>2. subs \in Nat /\ subs >= 1 /\ asked \in Seq([call : Call, whole : BOOLEAN])
  BY <1>1 DEF TypeOK, RadioOK
<1> QED BY <1>1, <1>2 DEF Request

\* A chunk that the write callback accepts.
LEMMA Arrives ==
  ASSUME TypeOK, NEW chunk \in Chunk, Accepts(chunk)
  PROVE  StreamsOK'
BY DEF Accepts, TypeOK, StreamsOK

\* so do the queues,
LEMMA StepStreams ==
  ASSUME TypeOK, [Next]_vars
  PROVE  StreamsOK'
<1> USE DEF TypeOK, StreamsOK
<1>1. CASE Subscribe
    BY <1>1 DEF Subscribe, NoSession, subscription, client, gate, upstreams, world
<1>2. CASE PumpDelivers
    BY <1>2 DEF PumpDelivers, subscription, client, gate, upstreams, world
<1>3. CASE WriteTimesOut
    BY <1>3 DEF WriteTimesOut, poolOthers, Stage, Connection, subscription, client, gate,
       upstreams, world
<1>4. CASE TakeChunk
  <2>1. inbound # <<>> /\ inbound' = Tail(inbound) /\ UNCHANGED <<replies, outbound>>
    BY <1>4 DEF TakeChunk
  <2>2. buffer' = <<>> \/ buffer' = Append(buffer, Head(inbound))
    BY <1>4 DEF TakeChunk
  <2>3. inbound' \in Seq(Chunk) /\ Len(inbound') = Len(inbound) - 1 /\ Head(inbound) \in Chunk
    BY <2>1
  <2>4. buffer' \in Seq(Chunk)
    <3>1. Append(buffer, Head(inbound)) \in Seq(Chunk)
      BY <2>3
    <3>2. <<>> \in Seq(Chunk)
      OBVIOUS
    <3> QED BY <2>2, <3>1, <3>2
  <2> QED BY <2>1, <2>3, <2>4
<1>5. CASE TakeNoise
    BY <1>5 DEF TakeNoise, Return, subscription, client, gate, upstreams, world
<1>6. CASE TakeReply
    BY <1>6 DEF TakeReply, Stage, subscription, client, gate, upstreams, world
<1>7. CASE SendLine
  <2>1. outbound' = Append(outbound, at.on) /\ Len(outbound) < Chunks /\ at.on \in {Null} \cup Request
    BY <1>7 DEF SendLine, TaskOK
  <2>2. UNCHANGED <<inbound, buffer, replies>> \/ (inbound' = <<>> /\ buffer' = <<>> /\ replies' = <<>>)
    BY <1>7 DEF SendLine, Return
  <2>3. outbound' \in Seq({Null} \cup Request) /\ Len(outbound') <= Chunks
    BY <2>1
  <2>4. CASE UNCHANGED <<inbound, buffer, replies>>
    BY <2>3, <2>4
  <2>5. CASE inbound' = <<>> /\ buffer' = <<>> /\ replies' = <<>>
    BY <2>3, <2>5, Sizes
  <2> QED BY <2>2, <2>4, <2>5
<1>8. CASE CheckPin
    BY <1>8 DEF CheckPin, Stage, WrongPin, subscription, client, gate, upstreams, world
<1>9. CASE Connect
    BY <1>9 DEF Connect, Stage, Connection, poolOthers, subscription, client, gate, upstreams, world
<1>10. CASE Write
    BY <1>10 DEF Write, poolOthers, subscription, client, gate, upstreams, world
<1>11. CASE WriteIntoDead
    BY <1>11 DEF WriteIntoDead, poolOthers, Stage, Connection, subscription, client, gate,
       upstreams, world
<1>12. CASE \E l \in Lanes : Answer(l)
  <2>0. PICK l \in Lanes : Answer(l)
    BY <1>12
  <2>1. Head(wire[l]) \in {Null} \cup Request /\ Forward(Head(wire[l])) /\ UNCHANGED <<inbound, buffer, outbound>>
    BY <2>0 DEF Answer, daemonOthers, PoolOK
  <2> QED BY <2>1 DEF Forward
<1>13. CASE \E l \in Lanes : Notify(l)
    BY <1>13 DEF Notify, Forward, daemonOthers, subscription, client, gate, upstreams, world
<1>14. CASE \E r \in adrift : AnswerAdrift(r)
  <2>0. PICK r \in adrift : AnswerAdrift(r)
    BY <1>14
  <2>1. r \in {Null} \cup Request /\ Forward(r) /\ UNCHANGED <<inbound, buffer, outbound>>
    BY <2>0 DEF AnswerAdrift, daemonOthers, PoolOK
  <2> QED BY <2>1 DEF Forward
<1>15. CASE \E l \in Lanes : Restart(Service[l])
    BY <1>15 DEF Restart, subscription, client, gate, upstreams, world
<1>16. CASE SetPin
    BY <1>16 DEF SetPin, subscription, client, gate, upstreams, world
<1>17. CASE \E s \in Sub : Leave(s)
    BY <1>17 DEF Leave, subscription, client, gate, upstreams, world
<1>18. CASE \E s \in Sub : WriteTail(s)
  <2>0. PICK s \in Sub : WriteTail(s)
    BY <1>18
  <2>1. [by |-> s, of |-> partial[s], half |-> "tail"] \in Chunk
    BY <2>0 DEF WriteTail, Chunk, Half, RadioOK
  <2> QED BY <2>0, <2>1, Arrives DEF WriteTail
<1>19. CASE \E s \in Sub : WriteNoise(s)
  <2>0. PICK s \in Sub : WriteNoise(s)
    BY <1>19
  <2>1. Noise \in Chunk
    BY DEF Chunk
  <2> QED BY <2>0, <2>1, Arrives DEF WriteNoise
<1>20. CASE \E s \in Sub : \E call \in Call : WriteHead(s, call)
  <2>0. PICK s \in Sub, call \in Call : WriteHead(s, call)
    BY <1>20
  <2>1. Len(asked') \in Request
    BY <2>0, Grows DEF WriteHead
  <2>2. [by |-> s, of |-> Len(asked'), half |-> "head"] \in Chunk
    BY <2>1 DEF Chunk, Half
  <2> QED BY <2>0, <2>2, Arrives DEF WriteHead
<1>21. CASE \E s \in Sub : PumpEnds(s)
  <2>0. PICK s \in Sub : PumpEnds(s)
    BY <1>21
  <2>1. \/ UNCHANGED <<inbound, buffer, replies, outbound>>
        \/ inbound' = <<>> /\ buffer' = <<>> /\ replies' = <<>> /\ outbound' = <<>>
    BY <2>0 DEF PumpEnds, NoSession
  <2>2. CASE UNCHANGED <<inbound, buffer, replies, outbound>>
    BY <2>2
  <2>3. CASE inbound' = <<>> /\ buffer' = <<>> /\ replies' = <<>> /\ outbound' = <<>>
    BY <2>3
  <2> QED BY <2>1, <2>2, <2>3
<1>22. CASE UNCHANGED vars
    BY <1>22 DEF vars, subscription, client, gate, upstreams, world
<1> QED BY <1>1, <1>2, <1>3, <1>4, <1>5, <1>6, <1>7, <1>8, <1>9, <1>10, <1>11, <1>12, <1>13,
       <1>14, <1>15, <1>16, <1>17, <1>18, <1>19, <1>20, <1>21, <1>22, NextActions

\* What was asked is a call.
LEMMA Entries ==
  ASSUME TypeOK, NEW r \in 1..Len(asked)
  PROVE  CallOf(r) \in Call /\ asked[r].whole \in BOOLEAN
<1> DEFINE Entry == [call : Call, whole : BOOLEAN]
<1>1. asked \in Seq(Entry)
  BY DEF TypeOK, RadioOK
<1>2. asked[r] \in Entry
  <2> HIDE DEF Entry
  <2> QED BY <1>1
<1> QED BY <1>2 DEF CallOf

\* A call that is served goes to one of the lanes.
LEMMA ServedHasALane ==
  ASSUME TypeOK, NEW r, Served(r)
  PROVE  r \in Request /\ LaneOf(r) \in Lanes
<1>1. r \in 1..Len(asked) /\ asked \in Seq([call : Call, whole : BOOLEAN]) /\ Len(asked) <= MaxRequests
  BY DEF Served, TypeOK, RadioOK
<1>2. r \in Request
  BY <1>1 DEF Request
<1>3. CallOf(r) \in Call /\ CallOf(r).kind \in {"hello", "permitted"}
  BY <1>1, Entries DEF Served
<1>4. LaneOf(r) \in Lanes
  BY <1>3 DEF LaneOf, Call
<1> QED BY <1>2, <1>4

\* What a line makes the session do: it serves the request whose chunks these are, or
\* answers.
LEMMA Dispatches ==
  ASSUME TypeOK, ChunksOK, inbound # <<>>, Head(inbound) # Noise,
         Dispatch(Append(buffer, Head(inbound)))
  PROVE  LET r == Head(inbound).of IN
         /\ at' \in [doing : Doing, on : {Null} \cup Request]
         /\ at'.doing \in {"reply", "pin", "connect", "write"}
         /\ (at'.on = Null /\ at'.doing = "reply") \/ (at'.on = r /\ r \in 1..Len(asked))
         /\ at'.doing \in {"connect", "write"} => Served(r)
<1> DEFINE line == Append(buffer, Head(inbound))
           r == Head(inbound).of
<1>1. /\ inbound \in Seq(Chunk) /\ Head(inbound) = inbound[1] /\ Len(inbound) \in Nat /\ Len(inbound) >= 1
      /\ buffer \in Seq(Chunk) /\ Len(buffer) \in Nat
  BY DEF TypeOK, StreamsOK
<1>2. r \in 1..Len(asked)
  BY <1>1, InTail DEF ChunksOK, ChunkOK
<1>3. r \in Request
  BY <1>2 DEF TypeOK, RadioOK, Request
<1>4. CASE ~(Len(line) = 2 /\ line[1].half = "head" /\ line[1].of = line[2].of)
  BY <1>2, <1>3, <1>4 DEF Dispatch, Stage, Doing
<1>5. CASE Len(line) = 2 /\ line[1].half = "head" /\ line[1].of = line[2].of
  <2>1. line[2] = Head(inbound) /\ line[1].of = r
    BY <1>1, <1>5
  <2>2. Serve(r)
    BY <1>5, <2>1 DEF Dispatch
  <2>3. CallOf(r) \in Call
    BY <1>2, Entries
  <2>4. at'.on = r /\ at'.doing \in {"reply", "pin", "connect", "write"} /\ at' = [doing |-> at'.doing, on |-> r]
    BY <2>2 DEF Serve, Stage
  <2>5. at'.doing \in {"connect", "write"} => Served(r)
    BY <1>2, <2>2, <2>3 DEF Serve, Stage, Served, Call, Unlocked, CallOf
  <2> QED BY <1>2, <1>3, <2>4, <2>5 DEF Doing
<1> QED BY <1>4, <1>5

\* the session,
LEMMA StepTask ==
  ASSUME TypeOK, GateOK, StageOK, ChunksOK, [Next]_vars
  PROVE  TaskOK'
<1> USE DEF TypeOK, TaskOK
<1>1. CASE Subscribe
  <2>1. Idle \in [doing : Doing, on : {Null} \cup Request]
    BY DEF Idle, Doing
  <2>2. left' \in 0..Attempts /\ wrong' \in 0..Attempts
    BY <1>1, Sizes DEF Subscribe, NoSession
  <2>3. open' \in BOOLEAN /\ authenticated' \in BOOLEAN /\ at' \in [doing : Doing, on : {Null} \cup Request]
    BY <1>1, <2>1 DEF Subscribe, NoSession
  <2>4. UNCHANGED <<pin, faults>>
    BY <1>1 DEF Subscribe, world
  <2> QED BY <2>2, <2>3, <2>4
<1>2. CASE PumpDelivers
    BY <1>2 DEF PumpDelivers, Doing, Idle, subscription, client, gate, upstreams, world
<1>3. CASE WriteTimesOut
    BY <1>3 DEF WriteTimesOut, poolOthers, Stage, Connection, Doing, Idle, subscription, client,
       gate, upstreams, world
<1>4. CASE TakeChunk
  <2>1. UNCHANGED <<open, gate, world>>
    BY <1>4 DEF TakeChunk
  <2>2. at' = at \/ Dispatch(Append(buffer, Head(inbound)))
    BY <1>4 DEF TakeChunk
  <2>3. at' \in [doing : Doing, on : {Null} \cup Request]
    BY <1>4, <2>2, Dispatches DEF TakeChunk
  <2> QED BY <2>1, <2>3 DEF gate, world
<1>5. CASE TakeNoise
    BY <1>5 DEF TakeNoise, Return, Doing, Idle, subscription, client, gate, upstreams, world
<1>6. CASE TakeReply
  <2>1. Head(replies) \in {Null} \cup Request
    BY <1>6 DEF TakeReply, StreamsOK
  <2>2. at' \in [doing : Doing, on : {Null} \cup Request]
    BY <1>6, <2>1 DEF TakeReply, Stage, Doing
  <2> QED BY <1>6, <2>2 DEF TakeReply, gate, world
<1>7. CASE SendLine
  <2>1. Idle \in [doing : Doing, on : {Null} \cup Request]
    BY DEF Idle, Doing
  <2>2. at' = Idle /\ open' \in BOOLEAN /\ UNCHANGED <<gate, world>>
    BY <1>7 DEF SendLine, Return
  <2> QED BY <2>1, <2>2 DEF gate, world
<1>8. CASE CheckPin
  <2>1. at' \in [doing : Doing, on : {Null} \cup Request]
    BY <1>8 DEF CheckPin, Stage, Doing
  <2>2. left > 0
    BY <1>8 DEF CheckPin, GateOK
  <2>3. UNCHANGED <<open, pin, faults>>
    BY <1>8 DEF CheckPin, world
  <2>4. /\ authenticated' \in BOOLEAN
        /\ UNCHANGED <<left, wrong>> \/ (left' = left - 1 /\ wrong' = wrong + 1)
    BY <1>8 DEF CheckPin, WrongPin, gate
  <2>5. left' \in 0..Attempts /\ wrong' \in 0..Attempts
    BY <2>2, <2>4 DEF GateOK
  <2> QED BY <2>1, <2>3, <2>4, <2>5
<1>9. CASE Connect
    BY <1>9 DEF Connect, Stage, Connection, poolOthers, Doing, Idle, subscription, client, gate,
       upstreams, world
<1>10. CASE Write
    BY <1>10 DEF Write, poolOthers, Doing, Idle, subscription, client, gate, upstreams, world
<1>11. CASE WriteIntoDead
    BY <1>11 DEF WriteIntoDead, poolOthers, Stage, Connection, Doing, Idle, subscription,
       client, gate, upstreams, world
<1>12. CASE \E l \in Lanes : Answer(l)
    BY <1>12 DEF Answer, Forward, daemonOthers, Doing, Idle, subscription, client, gate,
       upstreams, world
<1>13. CASE \E l \in Lanes : Notify(l)
    BY <1>13 DEF Notify, Forward, daemonOthers, Doing, Idle, subscription, client, gate,
       upstreams, world
<1>14. CASE \E r \in adrift : AnswerAdrift(r)
    BY <1>14 DEF AnswerAdrift, Forward, daemonOthers, Doing, Idle, subscription, client, gate,
       upstreams, world
<1>15. CASE \E l \in Lanes : Restart(Service[l])
    BY <1>15 DEF Restart, Doing, Idle, subscription, client, gate, upstreams, world
<1>16. CASE SetPin
    BY <1>16 DEF SetPin, Doing, Idle, subscription, client, gate, upstreams, world
<1>17. CASE \E s \in Sub : Leave(s)
    BY <1>17 DEF Leave, Doing, Idle, subscription, client, gate, upstreams, world
<1>18. CASE \E s \in Sub : WriteTail(s)
    BY <1>18 DEF WriteTail, Accepts, Doing, Idle, subscription, client, gate, upstreams, world
<1>19. CASE \E s \in Sub : WriteNoise(s)
    BY <1>19 DEF WriteNoise, Accepts, Noise, Doing, Idle, subscription, client, gate, upstreams,
       world
<1>20. CASE \E s \in Sub : \E call \in Call : WriteHead(s, call)
    BY <1>20 DEF WriteHead, Accepts, Doing, Idle, subscription, client, gate, upstreams, world
<1>21. CASE \E s \in Sub : PumpEnds(s)
  <2>0. PICK s \in Sub : PumpEnds(s)
    BY <1>21
  <2>1. Idle \in [doing : Doing, on : {Null} \cup Request]
    BY DEF Idle, Doing
  <2>2. left' \in 0..Attempts /\ wrong' \in 0..Attempts
    BY <2>0, Sizes DEF PumpEnds, NoSession, gate
  <2>3. open' \in BOOLEAN /\ authenticated' \in BOOLEAN /\ at' \in [doing : Doing, on : {Null} \cup Request]
    BY <2>0, <2>1 DEF PumpEnds, NoSession, gate
  <2>4. UNCHANGED <<pin, faults>>
    BY <2>0 DEF PumpEnds, world
  <2> QED BY <2>2, <2>3, <2>4
<1>22. CASE UNCHANGED vars
    BY <1>22 DEF vars, subscription, client, gate, upstreams, world, Doing, Idle
<1> QED BY <1>1, <1>2, <1>3, <1>4, <1>5, <1>6, <1>7, <1>8, <1>9, <1>10, <1>11, <1>12, <1>13,
       <1>14, <1>15, <1>16, <1>17, <1>18, <1>19, <1>20, <1>21, <1>22, NextActions

\* and the pool.
LEMMA StepPool ==
  ASSUME TypeOK, StageOK, [Next]_vars
  PROVE  PoolOK'
<1> USE DEF TypeOK, PoolOK
<1>1. CASE Subscribe
    BY <1>1 DEF Subscribe, NoSession, subscription, client, gate, upstreams, world
<1>2. CASE PumpDelivers
    BY <1>2 DEF PumpDelivers, subscription, client, gate, upstreams, world
<1>3. CASE WriteTimesOut
  <2> DEFINE l0 == LaneOf(at.on)
  <2>1. l0 \in Lanes
    BY <1>3, ServedHasALane DEF WriteTimesOut, StageOK
  <2>2. /\ conns' = [conns EXCEPT ![l0] = "none"] /\ wire' = [wire EXCEPT ![l0] = <<>>]
        /\ adrift' = adrift \cup ToSet(wire[l0])
    BY <1>3 DEF WriteTimesOut, Connection
  <2>3. ToSet(wire[l0]) \subseteq Request
    BY <2>1, InSeq
  <2> QED BY <2>1, <2>2, <2>3
<1>4. CASE TakeChunk
    BY <1>4 DEF TakeChunk, Dispatch, Serve, Stage, CallOf, LaneOf, Unlocked, subscription,
       client, gate, upstreams, world
<1>5. CASE TakeNoise
    BY <1>5 DEF TakeNoise, Return, subscription, client, gate, upstreams, world
<1>6. CASE TakeReply
    BY <1>6 DEF TakeReply, Stage, subscription, client, gate, upstreams, world
<1>7. CASE SendLine
  <2>1. \/ UNCHANGED upstreams
        \/ conns' = [l \in Lanes |-> "none"] /\ wire' = [l \in Lanes |-> <<>>] /\ adrift' = {}
    BY <1>7 DEF SendLine, Return
  <2>2. CASE UNCHANGED upstreams
    BY <2>2 DEF upstreams
  <2>3. CASE conns' = [l \in Lanes |-> "none"] /\ wire' = [l \in Lanes |-> <<>>] /\ adrift' = {}
    BY <2>3
  <2> QED BY <2>1, <2>2, <2>3
<1>8. CASE CheckPin
    BY <1>8 DEF CheckPin, Stage, WrongPin, subscription, client, gate, upstreams, world
<1>9. CASE Connect
    BY <1>9 DEF Connect, Stage, Connection, poolOthers, subscription, client, gate, upstreams, world
<1>10. CASE Write
  <2>1. at.on \in Request /\ LaneOf(at.on) \in Lanes
    BY <1>10, ServedHasALane DEF Write, StageOK
  <2>2. wire' = [wire EXCEPT ![LaneOf(at.on)] = Append(@, at.on)] /\ UNCHANGED <<conns, adrift>>
    BY <1>10 DEF Write
  <2> QED BY <2>1, <2>2
<1>11. CASE WriteIntoDead
    BY <1>11 DEF WriteIntoDead, poolOthers, Stage, Connection, subscription, client, gate,
       upstreams, world
<1>12. CASE \E l \in Lanes : Answer(l)
    BY <1>12 DEF Answer, Forward, daemonOthers, subscription, client, gate, upstreams, world
<1>13. CASE \E l \in Lanes : Notify(l)
    BY <1>13 DEF Notify, Forward, daemonOthers, subscription, client, gate, upstreams, world
<1>14. CASE \E r \in adrift : AnswerAdrift(r)
    BY <1>14 DEF AnswerAdrift, Forward, daemonOthers, subscription, client, gate, upstreams, world
<1>15. CASE \E l \in Lanes : Restart(Service[l])
    BY <1>15 DEF Restart, subscription, client, gate, upstreams, world
<1>16. CASE SetPin
    BY <1>16 DEF SetPin, subscription, client, gate, upstreams, world
<1>17. CASE \E s \in Sub : Leave(s)
    BY <1>17 DEF Leave, subscription, client, gate, upstreams, world
<1>18. CASE \E s \in Sub : WriteTail(s)
    BY <1>18 DEF WriteTail, Accepts, subscription, client, gate, upstreams, world
<1>19. CASE \E s \in Sub : WriteNoise(s)
    BY <1>19 DEF WriteNoise, Accepts, Noise, subscription, client, gate, upstreams, world
<1>20. CASE \E s \in Sub : \E call \in Call : WriteHead(s, call)
    BY <1>20 DEF WriteHead, Accepts, subscription, client, gate, upstreams, world
<1>21. CASE \E s \in Sub : PumpEnds(s)
  <2>0. PICK s \in Sub : PumpEnds(s)
    BY <1>21
  <2>1. \/ UNCHANGED upstreams
        \/ conns' = [l \in Lanes |-> "none"] /\ wire' = [l \in Lanes |-> <<>>] /\ adrift' = {}
    BY <2>0 DEF PumpEnds, NoSession
  <2>2. CASE UNCHANGED upstreams
    BY <2>2 DEF upstreams
  <2>3. CASE conns' = [l \in Lanes |-> "none"] /\ wire' = [l \in Lanes |-> <<>>] /\ adrift' = {}
    BY <2>3
  <2> QED BY <2>1, <2>2, <2>3
<1>22. CASE UNCHANGED vars
    BY <1>22 DEF vars, subscription, client, gate, upstreams, world
<1> QED BY <1>1, <1>2, <1>3, <1>4, <1>5, <1>6, <1>7, <1>8, <1>9, <1>10, <1>11, <1>12, <1>13,
       <1>14, <1>15, <1>16, <1>17, <1>18, <1>19, <1>20, <1>21, <1>22, NextActions


-----------------------------------------------------------------------------
(* The parts that speak of requests.                                       *)

\* What daemons have was permitted, each on the lane of its call; what is answered was asked.
DaemonsOK ==
  /\ \A r \in adrift : Served(r)
  /\ \A l \in Lanes : \A r \in ToSet(wire[l]) : Served(r) /\ LaneOf(r) = l

AnswersOK ==
  /\ ToSet(replies) \subseteq 0..Len(asked) /\ ToSet(outbound) \subseteq 0..Len(asked)
  /\ got \subseteq 1..Len(asked)

\* A request whose head alone was written is the affair of one central.
PartialOK ==
  \A s \in Sub : partial[s] # Null =>
    /\ partial[s] \in 1..Len(asked) /\ ~asked[partial[s]].whole
    /\ \A t \in Sub : partial[t] = partial[s] => t = s

\* The PIN gate goes on counting.
LEMMA StepGate ==
  ASSUME TypeOK, GateOK, [Next]_vars
  PROVE  GateOK'
<1> USE DEF TypeOK, TaskOK, GateOK
<1>1. CASE Subscribe
    BY <1>1 DEF Subscribe, NoSession, Idle, subscription, client, gate, upstreams, world
<1>2. CASE PumpDelivers
    BY <1>2 DEF PumpDelivers, Idle, subscription, client, gate, upstreams, world
<1>3. CASE WriteTimesOut
    BY <1>3 DEF WriteTimesOut, poolOthers, Stage, Connection, Idle, subscription, client, gate,
       upstreams, world
<1>4. CASE TakeChunk
    BY <1>4 DEF TakeChunk, Dispatch, Serve, Stage, CallOf, LaneOf, Unlocked, Idle, subscription,
       client, gate, upstreams, world
<1>5. CASE TakeNoise
    BY <1>5 DEF TakeNoise, Return, Idle, subscription, client, gate, upstreams, world
<1>6. CASE TakeReply
    BY <1>6 DEF TakeReply, Stage, Idle, subscription, client, gate, upstreams, world
<1>7. CASE SendLine
    BY <1>7 DEF SendLine, Return, SpentTries, Idle, subscription, client, gate, upstreams, world
<1>8. CASE CheckPin
    BY <1>8 DEF CheckPin, Stage, WrongPin, Idle, subscription, client, gate, upstreams, world
<1>9. CASE Connect
    BY <1>9 DEF Connect, Stage, Connection, poolOthers, Idle, subscription, client, gate,
       upstreams, world
<1>10. CASE Write
    BY <1>10 DEF Write, poolOthers, Idle, subscription, client, gate, upstreams, world
<1>11. CASE WriteIntoDead
    BY <1>11 DEF WriteIntoDead, poolOthers, Stage, Connection, Idle, subscription, client, gate,
       upstreams, world
<1>12. CASE \E l \in Lanes : Answer(l)
    BY <1>12 DEF Answer, Forward, daemonOthers, Idle, subscription, client, gate, upstreams, world
<1>13. CASE \E l \in Lanes : Notify(l)
    BY <1>13 DEF Notify, Forward, daemonOthers, Idle, subscription, client, gate, upstreams, world
<1>14. CASE \E r \in adrift : AnswerAdrift(r)
    BY <1>14 DEF AnswerAdrift, Forward, daemonOthers, Idle, subscription, client, gate,
       upstreams, world
<1>15. CASE \E l \in Lanes : Restart(Service[l])
    BY <1>15 DEF Restart, Idle, subscription, client, gate, upstreams, world
<1>16. CASE SetPin
    BY <1>16 DEF SetPin, Idle, subscription, client, gate, upstreams, world
<1>17. CASE \E s \in Sub : Leave(s)
    BY <1>17 DEF Leave, Idle, subscription, client, gate, upstreams, world
<1>18. CASE \E s \in Sub : WriteTail(s)
    BY <1>18 DEF WriteTail, Accepts, Idle, subscription, client, gate, upstreams, world
<1>19. CASE \E s \in Sub : WriteNoise(s)
    BY <1>19 DEF WriteNoise, Accepts, Noise, Idle, subscription, client, gate, upstreams, world
<1>20. CASE \E s \in Sub : \E call \in Call : WriteHead(s, call)
    BY <1>20 DEF WriteHead, Accepts, Idle, subscription, client, gate, upstreams, world
<1>21. CASE \E s \in Sub : PumpEnds(s)
    BY <1>21 DEF PumpEnds, NoSession, ClearSlot, Idle, subscription, client, gate, upstreams, world
<1>22. CASE UNCHANGED vars
    BY <1>22 DEF vars, subscription, client, gate, upstreams, world, Idle
<1> QED BY <1>1, <1>2, <1>3, <1>4, <1>5, <1>6, <1>7, <1>8, <1>9, <1>10, <1>11, <1>12, <1>13,
       <1>14, <1>15, <1>16, <1>17, <1>18, <1>19, <1>20, <1>21, <1>22, NextActions

\* What was asked is asked still, and more may be.
SameCalls == /\ Len(asked') >= Len(asked) /\ Len(asked') \in Nat
             /\ \A r \in 1..Len(asked) : asked'[r].call = asked[r].call

\* A head begins a new request and changes none,
LEMMA HeadSameCalls ==
  ASSUME TypeOK, NEW s \in Sub, NEW call \in Call, WriteHead(s, call)
  PROVE  SameCalls
<1>1. /\ Len(asked') = Len(asked) + 1 /\ Len(asked) \in Nat
      /\ \A r \in 1..Len(asked) : asked'[r] = asked[r]
  BY Grows
<1>2. Len(asked') \in Nat /\ Len(asked') >= Len(asked)
  BY <1>1
<1>3. \A r \in 1..Len(asked) : asked'[r].call = asked[r].call
  BY <1>1
<1> QED BY <1>2, <1>3 DEF SameCalls

\* and a tail completes one.
LEMMA TailSameCalls ==
  ASSUME TypeOK, NEW s \in Sub, WriteTail(s)
  PROVE  /\ SameCalls /\ Len(asked') = Len(asked) /\ partial[s] \in Nat
         /\ \A r \in 1..Len(asked) : asked'[r].whole = (r = partial[s] \/ asked[r].whole)
<1>1. /\ partial[s] \in Nat
      /\ asked' = [asked EXCEPT ![partial[s]] = [asked[partial[s]] EXCEPT !.whole = TRUE]]
  BY DEF WriteTail, TypeOK, RadioOK, Request
<1>2. asked \in Seq([call : Call, whole : BOOLEAN])
  BY DEF TypeOK, RadioOK
<1>3. /\ Len(asked') = Len(asked)
      /\ \A q \in 1..Len(asked) : /\ asked'[q].call = asked[q].call
                                 /\ asked'[q].whole = (q = partial[s] \/ asked[q].whole)
  BY <1>1, AskedWhole
<1>4. Len(asked) \in Nat
  BY <1>2
<1>5. Len(asked') >= Len(asked) /\ Len(asked') \in Nat
  BY <1>3, <1>4
<1>6. SameCalls
  BY <1>3, <1>5 DEF SameCalls
<1> QED BY <1>1, <1>3, <1>6

\* Most steps touch none.
LEMMA NoSameCalls ==
  ASSUME TypeOK, asked' = asked
  PROVE  SameCalls
BY DEF TypeOK, RadioOK, SameCalls

\* What was served may be served still.
LEMMA StillServed ==
  ASSUME TypeOK, SameCalls, authenticated => authenticated', NEW r, Served(r)
  PROVE  Served(r)' /\ CallOf(r)' = CallOf(r) /\ LaneOf(r)' = LaneOf(r)
<1>1. Len(asked) \in Nat
  BY DEF TypeOK, RadioOK
<1>2. r \in 1..Len(asked) => r \in 1..Len(asked') /\ asked'[r].call = asked[r].call
  BY <1>1 DEF SameCalls
<1> QED BY <1>2 DEF Served, CallOf, LaneOf

\* The chunks of a session that take nothing else in.
LEMMA ChunksStay ==
  ASSUME TypeOK, ChunksOK, SameCalls, NEW new,
         ToSet(inbound') \subseteq ToSet(inbound) \cup {new},
         new = Noise \/ (new.of \in 1..Len(asked') /\ new.by # Null),
         \A chunk \in ToSet(buffer') :
            chunk \in ToSet(buffer) \/ (chunk \in ToSet(inbound) /\ chunk.half = "head")
  PROVE  ChunksOK'
<1>1. Len(asked) \in Nat
  BY DEF TypeOK, RadioOK
<1> QED BY <1>1 DEF ChunksOK, ChunkOK, SameCalls

\* Chunks stay chunks of requests that were asked,
LEMMA StepChunks ==
  ASSUME TypeOK, ChunksOK, PartialOK, [Next]_vars
  PROVE  ChunksOK'
<1>0. ASSUME UNCHANGED <<asked, inbound, buffer>> PROVE ChunksOK'
  BY <1>0, ChunksStay, NoSameCalls
<1>e. ASSUME inbound' = <<>>, buffer' = <<>> PROVE ChunksOK'
  BY <1>e, InNone DEF ChunksOK
<1>1. CASE Subscribe
    BY <1>1, <1>e DEF Subscribe, NoSession
<1>2. CASE PumpDelivers
    BY <1>2, <1>0 DEF PumpDelivers, subscription, client, gate, upstreams, world
<1>3. CASE WriteTimesOut
    BY <1>3, <1>0 DEF WriteTimesOut, poolOthers, Stage, Connection, subscription, client, gate,
       upstreams, world
<1>4. CASE TakeChunk
  <2>1. /\ inbound # <<>> /\ inbound' = Tail(inbound) /\ asked' = asked
        /\ buffer' = <<>> \/ (buffer' = Append(buffer, Head(inbound)) /\ Head(inbound).half # "tail")
    BY <1>4 DEF TakeChunk, client
  <2>2. /\ inbound \in Seq(Chunk) /\ buffer \in Seq(Chunk)
    BY DEF TypeOK, StreamsOK
  <2>3. ToSet(inbound') \subseteq ToSet(inbound) /\ Head(inbound) \in ToSet(inbound) /\ Head(inbound) \in Chunk
    BY <2>1, <2>2, InTail
  <2>4. Head(inbound).half # "tail" => Head(inbound).half = "head"
    BY <2>3 DEF Chunk, Half, Noise
  <2>5. ToSet(buffer') \subseteq ToSet(buffer) \cup (IF Head(inbound).half = "head" THEN {Head(inbound)} ELSE {})
    <3>1. CASE buffer' = <<>>
      BY <3>1, InNone
    <3>2. CASE buffer' = Append(buffer, Head(inbound)) /\ Head(inbound).half # "tail"
      <4>1. ToSet(buffer') = ToSet(buffer) \cup {Head(inbound)}
        BY <3>2, <2>2, <2>3, InAppend
      <4> QED BY <4>1, <3>2, <2>4
    <3> QED BY <2>1, <3>1, <3>2
  <2> QED BY <2>1, <2>3, <2>5, NoSameCalls, ChunksStay
<1>5. CASE TakeNoise
    BY <1>5, <1>e DEF TakeNoise, Return
<1>6. CASE TakeReply
    BY <1>6, <1>0 DEF TakeReply, Stage, subscription, client, gate, upstreams, world
<1>7. CASE SendLine
  <2>1. CASE inbound' = <<>> /\ buffer' = <<>>
    BY <2>1, <1>e
  <2>2. CASE ~(inbound' = <<>> /\ buffer' = <<>>)
    BY <1>7, <2>2, <1>0 DEF SendLine, Return, SpentTries, client
  <2> QED BY <2>1, <2>2
<1>8. CASE CheckPin
    BY <1>8, <1>0 DEF CheckPin, Stage, WrongPin, subscription, client, gate, upstreams, world
<1>9. CASE Connect
    BY <1>9, <1>0 DEF Connect, Stage, Connection, poolOthers, subscription, client, gate,
       upstreams, world
<1>10. CASE Write
    BY <1>10, <1>0 DEF Write, poolOthers, subscription, client, gate, upstreams, world
<1>11. CASE WriteIntoDead
    BY <1>11, <1>0 DEF WriteIntoDead, poolOthers, Stage, Connection, subscription, client, gate,
       upstreams, world
<1>12. CASE \E l \in Lanes : Answer(l)
    BY <1>12, <1>0 DEF Answer, Forward, daemonOthers, subscription, client, gate, upstreams, world
<1>13. CASE \E l \in Lanes : Notify(l)
    BY <1>13, <1>0 DEF Notify, Forward, daemonOthers, subscription, client, gate, upstreams, world
<1>14. CASE \E r \in adrift : AnswerAdrift(r)
    BY <1>14, <1>0 DEF AnswerAdrift, Forward, daemonOthers, subscription, client, gate,
       upstreams, world
<1>15. CASE \E l \in Lanes : Restart(Service[l])
    BY <1>15, <1>0 DEF Restart, subscription, client, gate, upstreams, world
<1>16. CASE SetPin
    BY <1>16, <1>0 DEF SetPin, subscription, client, gate, upstreams, world
<1>17. CASE \E s \in Sub : Leave(s)
    BY <1>17, <1>0 DEF Leave, subscription, client, gate, upstreams, world
<1>18. CASE \E s \in Sub : WriteTail(s)
  <2>0. PICK s \in Sub : WriteTail(s)
    BY <1>18
  <2>a. partial[s] \in Request /\ partial[s] \in 1..Len(asked)
    BY <2>0 DEF WriteTail, TypeOK, RadioOK, PartialOK
  <2> DEFINE new == [by |-> s, of |-> partial[s], half |-> "tail"]
  <2>c. Len(asked') = Len(asked) /\ SameCalls
    BY <2>0, TailSameCalls
  <2>b. new \in Chunk /\ new.by # Null /\ new.of \in 1..Len(asked')
    BY <2>a, <2>c DEF Chunk, Half, Sub, Null
  <2>1. inbound' = Append(inbound, new) /\ buffer' = buffer
    BY <2>0 DEF WriteTail, Accepts
  <2> HIDE DEF new
  <2>2. ToSet(inbound') = ToSet(inbound) \cup {new}
    BY <2>1, <2>b, InAppend DEF TypeOK, StreamsOK
  <2> QED BY <2>0, <2>1, <2>2, <2>b, <2>c, ChunksStay
<1>19. CASE \E s \in Sub : WriteNoise(s)
  <2>0. PICK s \in Sub : WriteNoise(s)
    BY <1>19
  <2>1. inbound' = Append(inbound, Noise) /\ buffer' = buffer /\ asked' = asked /\ Noise \in Chunk
    BY <2>0 DEF WriteNoise, Accepts, Chunk
  <2>2. ToSet(inbound') = ToSet(inbound) \cup {Noise}
    BY <2>1, InAppend DEF TypeOK, StreamsOK
  <2> QED BY <2>1, <2>2, NoSameCalls, ChunksStay
<1>20. CASE \E s \in Sub : \E call \in Call : WriteHead(s, call)
  <2>0. PICK s \in Sub, call \in Call : WriteHead(s, call)
    BY <1>20
  <2>a. Len(asked') \in Request
    BY <2>0, Grows
  <2> DEFINE new == [by |-> s, of |-> Len(asked'), half |-> "head"]
  <2>b. new \in Chunk /\ new.by # Null /\ new.of \in 1..Len(asked')
    BY <2>a DEF Chunk, Half, Sub, Request, Null
  <2>1. inbound' = Append(inbound, new) /\ buffer' = buffer
    BY <2>0 DEF WriteHead, Accepts
  <2> HIDE DEF new
  <2>2. ToSet(inbound') = ToSet(inbound) \cup {new}
    BY <2>1, <2>b, InAppend DEF TypeOK, StreamsOK
  <2> QED BY <2>0, <2>1, <2>2, <2>b, HeadSameCalls, ChunksStay
<1>21. CASE \E s \in Sub : PumpEnds(s)
  <2>0. PICK s \in Sub : PumpEnds(s)
    BY <1>21
  <2>1. CASE inbound' = <<>> /\ buffer' = <<>>
    BY <2>1, <1>e
  <2>2. CASE ~(inbound' = <<>> /\ buffer' = <<>>)
    BY <2>0, <2>2, <1>0 DEF PumpEnds, NoSession, ClearSlot, client
  <2> QED BY <2>1, <2>2
<1>22. CASE UNCHANGED vars
    BY <1>22, <1>0 DEF vars, subscription, client, gate, upstreams, world
<1> QED BY <1>1, <1>2, <1>3, <1>4, <1>5, <1>6, <1>7, <1>8, <1>9, <1>10, <1>11, <1>12, <1>13,
       <1>14, <1>15, <1>16, <1>17, <1>18, <1>19, <1>20, <1>21, <1>22, NextActions

\* The session at a stage that needs no more than before.
LEMMA StepStage ==
  ASSUME TypeOK, GateOK, StageOK, ChunksOK, AnswersOK, [Next]_vars
  PROVE  StageOK'
<1>0. ASSUME at' = at, SameCalls, authenticated => authenticated' PROVE StageOK'
  <2>1. Len(asked) \in Nat
    BY DEF TypeOK, RadioOK
  <2>2. at.doing \in {"connect", "write", "reconnect", "rewrite"} => Served(at.on)
    BY DEF StageOK
  <2> QED BY <1>0, <2>1, <2>2 DEF StageOK, Served, CallOf, SameCalls
<1>q. ASSUME UNCHANGED <<at, asked, authenticated>> PROVE StageOK'
  BY <1>0, <1>q, NoSameCalls
<1>i. ASSUME at' = Idle, Len(asked') \in Nat PROVE StageOK'
  BY <1>i DEF StageOK, Idle, Null
<1>n. Len(asked) \in Nat
  BY DEF TypeOK, RadioOK
<1>1. CASE Subscribe
    BY <1>1, <1>i DEF Subscribe, NoSession
<1>2. CASE PumpDelivers
    BY <1>2, <1>q DEF PumpDelivers, subscription, client, gate, upstreams, world
<1>3. CASE WriteTimesOut
    BY <1>3, <1>n DEF WriteTimesOut, Stage, poolOthers, client, gate, StageOK, Served, CallOf
<1>4. CASE TakeChunk
  <2>1. UNCHANGED <<asked, authenticated>>
    BY <1>4 DEF TakeChunk, client, gate
  <2>2. CASE at' = at
    BY <2>1, <2>2, <1>q
  <2>3. CASE at' # at
    <3>1. inbound # <<>> /\ Head(inbound) # Noise /\ Dispatch(Append(buffer, Head(inbound)))
      BY <1>4, <2>3 DEF TakeChunk
    <3>2. LET r == Head(inbound).of IN
         /\ at'.doing \in {"reply", "pin", "connect", "write"}
         /\ (at'.on = Null /\ at'.doing = "reply") \/ (at'.on = r /\ r \in 1..Len(asked))
         /\ at'.doing \in {"connect", "write"} => Served(r)
      BY <3>1, Dispatches
    <3> QED BY <2>1, <3>2, <1>n DEF StageOK, Served, CallOf, Null
  <2> QED BY <2>2, <2>3
<1>5. CASE TakeNoise
    BY <1>5, <1>i, <1>n DEF TakeNoise, Return, client
<1>6. CASE TakeReply
  <2>1. Head(replies) \in 0..Len(asked) /\ at' = [doing |-> "reply", on |-> Head(replies)] /\ asked' = asked
    BY <1>6, InTail DEF TakeReply, Stage, AnswersOK, client, TypeOK, StreamsOK
  <2> QED BY <2>1 DEF StageOK
<1>7. CASE SendLine
    BY <1>7, <1>i, <1>n DEF SendLine, Return, client
<1>8. CASE CheckPin
    BY <1>8, <1>n DEF CheckPin, Stage, client, StageOK, TypeOK, TaskOK
<1>9. CASE Connect
    BY <1>9, <1>n DEF Connect, Stage, poolOthers, client, gate, StageOK, Served, CallOf
<1>10. CASE Write
    BY <1>10, <1>i, <1>n DEF Write, poolOthers, client
<1>11. CASE WriteIntoDead
    BY <1>11, <1>n DEF WriteIntoDead, Stage, poolOthers, client, gate, StageOK, Served, CallOf
<1>12. CASE \E l \in Lanes : Answer(l)
    BY <1>12, <1>q DEF Answer, Forward, daemonOthers, subscription, client, gate, upstreams, world
<1>13. CASE \E l \in Lanes : Notify(l)
    BY <1>13, <1>q DEF Notify, Forward, daemonOthers, subscription, client, gate, upstreams, world
<1>14. CASE \E r \in adrift : AnswerAdrift(r)
    BY <1>14, <1>q DEF AnswerAdrift, Forward, daemonOthers, subscription, client, gate,
       upstreams, world
<1>15. CASE \E l \in Lanes : Restart(Service[l])
    BY <1>15, <1>q DEF Restart, subscription, client, gate, upstreams, world
<1>16. CASE SetPin
    BY <1>16, <1>q DEF SetPin, subscription, client, gate, upstreams, world
<1>17. CASE \E s \in Sub : Leave(s)
    BY <1>17, <1>q DEF Leave, subscription, client, gate, upstreams, world
<1>18. CASE \E s \in Sub : WriteTail(s)
  <2>0. PICK s \in Sub : WriteTail(s)
    BY <1>18
  <2> QED BY <2>0, <1>0, TailSameCalls DEF WriteTail, Accepts, gate
<1>19. CASE \E s \in Sub : WriteNoise(s)
    BY <1>19, <1>q DEF WriteNoise, Accepts, Noise, subscription, client, gate, upstreams, world
<1>20. CASE \E s \in Sub : \E call \in Call : WriteHead(s, call)
  <2>0. PICK s \in Sub, call \in Call : WriteHead(s, call)
    BY <1>20
  <2> QED BY <2>0, <1>0, HeadSameCalls DEF WriteHead, Accepts, gate
<1>21. CASE \E s \in Sub : PumpEnds(s)
  <2>0. PICK s \in Sub : PumpEnds(s)
    BY <1>21
  <2>1. CASE at' = Idle /\ asked' = asked
    BY <2>1, <1>i, <1>n
  <2>2. CASE ~(at' = Idle /\ asked' = asked)
    BY <2>0, <2>2, <1>q DEF PumpEnds, NoSession, ClearSlot, client, gate
  <2> QED BY <2>1, <2>2
<1>22. CASE UNCHANGED vars
    BY <1>22, <1>q DEF vars, subscription, client, gate, upstreams, world
<1> QED BY <1>1, <1>2, <1>3, <1>4, <1>5, <1>6, <1>7, <1>8, <1>9, <1>10, <1>11, <1>12, <1>13,
       <1>14, <1>15, <1>16, <1>17, <1>18, <1>19, <1>20, <1>21, <1>22, NextActions

\* A daemon gets nothing but what was served.
LEMMA StepDaemons ==
  ASSUME TypeOK, StageOK, DaemonsOK, [Next]_vars
  PROVE  DaemonsOK'
<1>0. ASSUME SameCalls, authenticated => authenticated', adrift' \subseteq adrift,
             \A l \in Lanes : ToSet(wire'[l]) \subseteq ToSet(wire[l])
      PROVE  DaemonsOK'
  BY <1>0, StillServed DEF DaemonsOK
<1>q. ASSUME UNCHANGED <<asked, authenticated, adrift, wire>> PROVE DaemonsOK'
  BY <1>0, <1>q, NoSameCalls
<1>e. ASSUME adrift' = {}, wire' = [l \in Lanes |-> <<>>] PROVE DaemonsOK'
  BY <1>e, InNone DEF DaemonsOK
<1>w. wire \in [Lanes -> Seq(Request)]
  BY DEF TypeOK, PoolOK
<1>1. CASE Subscribe
    BY <1>1, <1>e DEF Subscribe, NoSession
<1>2. CASE PumpDelivers
    BY <1>2, <1>q DEF PumpDelivers, subscription, client, gate, upstreams, world
<1>3. CASE WriteTimesOut
  <2> DEFINE r0 == at.on
             l0 == LaneOf(r0)
  <2>1. l0 \in Lanes
    BY <1>3, ServedHasALane DEF WriteTimesOut, StageOK
  <2>2. /\ wire' = [wire EXCEPT ![l0] = <<>>] /\ adrift' = adrift \cup ToSet(wire[l0])
        /\ UNCHANGED <<asked, authenticated>>
    BY <1>3 DEF WriteTimesOut, poolOthers, client, gate
  <2>3. ToSet(wire'[l0]) = {} /\ \A l \in Lanes : l # l0 => wire'[l] = wire[l]
    BY <2>1, <2>2, <1>w, InNone
  <2> QED BY <2>1, <2>2, <2>3 DEF DaemonsOK, Served, LaneOf, CallOf
<1>4. CASE TakeChunk
    BY <1>4, <1>q DEF TakeChunk, Dispatch, Serve, Stage, CallOf, LaneOf, Unlocked, subscription,
       client, gate, upstreams, world
<1>5. CASE TakeNoise
    BY <1>5, <1>e DEF TakeNoise, Return
<1>6. CASE TakeReply
    BY <1>6, <1>q DEF TakeReply, Stage, subscription, client, gate, upstreams, world
<1>7. CASE SendLine
  <2>1. CASE adrift' = {} /\ wire' = [l \in Lanes |-> <<>>]
    BY <2>1, <1>e
  <2>2. CASE ~(adrift' = {} /\ wire' = [l \in Lanes |-> <<>>])
    BY <1>7, <2>2, <1>q DEF SendLine, Return, SpentTries, client, gate, upstreams
  <2> QED BY <2>1, <2>2
<1>8. CASE CheckPin
    BY <1>8, <1>0, NoSameCalls DEF CheckPin, gate, client, upstreams
<1>9. CASE Connect
    BY <1>9, <1>q DEF Connect, Stage, Connection, poolOthers, subscription, client, gate,
       upstreams, world
<1>10. CASE Write
  <2> DEFINE r0 == at.on
             l0 == LaneOf(r0)
  <2>1. Served(r0) /\ r0 \in Request /\ l0 \in Lanes
    BY <1>10, ServedHasALane DEF Write, StageOK
  <2>2. wire' = [wire EXCEPT ![l0] = Append(wire[l0], r0)] /\ UNCHANGED <<asked, authenticated, adrift>>
    BY <1>10 DEF Write, poolOthers, client, gate
  <2>3. ToSet(wire'[l0]) = ToSet(wire[l0]) \cup {r0} /\ \A l \in Lanes : l # l0 => wire'[l] = wire[l]
    BY <2>1, <2>2, <1>w, InAppend
  <2> QED BY <2>1, <2>2, <2>3 DEF DaemonsOK, Served, LaneOf, CallOf
<1>11. CASE WriteIntoDead
    BY <1>11, <1>q DEF WriteIntoDead, poolOthers, Stage, Connection, subscription, client, gate,
       upstreams, world
<1>12. CASE \E l \in Lanes : Answer(l)
  <2>0. PICK l \in Lanes : Answer(l)
    BY <1>12
  <2>1. /\ wire[l] # <<>> /\ wire' = [wire EXCEPT ![l] = Tail(wire[l])]
        /\ UNCHANGED <<asked, authenticated, adrift>>
    BY <2>0 DEF Answer, daemonOthers, client, gate
  <2>2. \A k \in Lanes : ToSet(wire'[k]) \subseteq ToSet(wire[k])
    BY <2>1, <1>w, InTail
  <2> QED BY <2>1, <2>2, <1>0, NoSameCalls
<1>13. CASE \E l \in Lanes : Notify(l)
    BY <1>13, <1>q DEF Notify, Forward, daemonOthers, subscription, client, gate, upstreams, world
<1>14. CASE \E r \in adrift : AnswerAdrift(r)
  <2>0. PICK r \in adrift : AnswerAdrift(r)
    BY <1>14
  <2>1. adrift' \subseteq adrift /\ UNCHANGED <<asked, authenticated, wire>>
    BY <2>0 DEF AnswerAdrift, daemonOthers, client, gate
  <2> QED BY <2>1, <1>0, NoSameCalls
<1>15. CASE \E l \in Lanes : Restart(Service[l])
  <2>0. PICK l0 \in Lanes : Restart(Service[l0])
    BY <1>15
  <2>1. adrift' \subseteq adrift /\ UNCHANGED <<asked, authenticated>>
    BY <2>0 DEF Restart, client, gate
  <2>2. \A k \in Lanes : wire'[k] = <<>> \/ wire'[k] = wire[k]
    BY <2>0 DEF Restart
  <2>3. \A k \in Lanes : ToSet(wire'[k]) \subseteq ToSet(wire[k])
    BY <2>2, InNone
  <2> QED BY <2>1, <2>3, <1>0, NoSameCalls
<1>16. CASE SetPin
    BY <1>16, <1>q DEF SetPin, subscription, client, gate, upstreams, world
<1>17. CASE \E s \in Sub : Leave(s)
    BY <1>17, <1>q DEF Leave, subscription, client, gate, upstreams, world
<1>18. CASE \E s \in Sub : WriteTail(s)
  <2>0. PICK s \in Sub : WriteTail(s)
    BY <1>18
  <2> QED BY <2>0, <1>0, TailSameCalls DEF WriteTail, Accepts, gate, upstreams
<1>19. CASE \E s \in Sub : WriteNoise(s)
    BY <1>19, <1>q DEF WriteNoise, Accepts, Noise, subscription, client, gate, upstreams, world
<1>20. CASE \E s \in Sub : \E call \in Call : WriteHead(s, call)
  <2>0. PICK s \in Sub, call \in Call : WriteHead(s, call)
    BY <1>20
  <2> QED BY <2>0, <1>0, HeadSameCalls DEF WriteHead, Accepts, gate, upstreams
<1>21. CASE \E s \in Sub : PumpEnds(s)
  <2>0. PICK s \in Sub : PumpEnds(s)
    BY <1>21
  <2>1. CASE adrift' = {} /\ wire' = [l \in Lanes |-> <<>>]
    BY <2>1, <1>e
  <2>2. CASE ~(adrift' = {} /\ wire' = [l \in Lanes |-> <<>>])
    BY <2>0, <2>2, <1>q DEF PumpEnds, NoSession, ClearSlot, client, gate, upstreams
  <2> QED BY <2>1, <2>2
<1>22. CASE UNCHANGED vars
    BY <1>22, <1>q DEF vars, subscription, client, gate, upstreams, world
<1> QED BY <1>1, <1>2, <1>3, <1>4, <1>5, <1>6, <1>7, <1>8, <1>9, <1>10, <1>11, <1>12, <1>13,
       <1>14, <1>15, <1>16, <1>17, <1>18, <1>19, <1>20, <1>21, <1>22, NextActions

\* answers are of requests that were asked,
LEMMA StepAnswers ==
  ASSUME TypeOK, StageOK, DaemonsOK, AnswersOK, [Next]_vars
  PROVE  AnswersOK'
<1>n. Len(asked) \in Nat
  BY DEF TypeOK, RadioOK
<1>0. ASSUME Len(asked') >= Len(asked), Len(asked') \in Nat,
             ToSet(replies') \subseteq ToSet(replies) \cup 0..Len(asked),
             ToSet(outbound') \subseteq ToSet(outbound) \cup 0..Len(asked),
             got' \subseteq got \cup 1..Len(asked)
      PROVE  AnswersOK'
  BY <1>0, <1>n DEF AnswersOK
<1>q. ASSUME UNCHANGED <<asked, replies, outbound, got>> PROVE AnswersOK'
  BY <1>0, <1>q, <1>n
<1>f. ASSUME NEW line \in 0..Len(asked), line \in {Null} \cup Request, Forward(line), UNCHANGED <<asked, outbound, got>>
      PROVE  AnswersOK'
  <2>1. ToSet(replies') \subseteq ToSet(replies) \cup {line}
    <3>1. replies \in Seq({Null} \cup Request)
      BY DEF TypeOK, StreamsOK
    <3>2. ToSet(Append(replies, line)) = ToSet(replies) \cup {line}
      BY <1>f, <3>1, InAppend
    <3> QED BY <1>f, <3>2 DEF Forward
  <2> QED BY <1>f, <1>n, <2>1, <1>0
<1>1. CASE Subscribe
  <2>1. replies' = <<>> /\ outbound' = <<>> /\ got' = {} /\ asked' = <<>>
    BY <1>1 DEF Subscribe, NoSession
  <2> QED BY <2>1, InNone DEF AnswersOK
<1>2. CASE PumpDelivers
  <2>1. outbound # <<>> /\ outbound' = Tail(outbound) /\ got' = got \cup ({Head(outbound)} \ {Null})
        /\ UNCHANGED <<asked, replies>>
    BY <1>2 DEF PumpDelivers
  <2>2. ToSet(outbound') \subseteq ToSet(outbound) /\ Head(outbound) \in ToSet(outbound)
    BY <2>1, InTail DEF TypeOK, StreamsOK
  <2>3. Head(outbound) \in 0..Len(asked)
    BY <2>2 DEF AnswersOK
  <2>4. got' \subseteq got \cup 1..Len(asked)
    BY <2>1, <2>3, <1>n DEF Null
  <2> QED BY <2>1, <2>2, <2>4, <1>0, <1>n
<1>3. CASE WriteTimesOut
    BY <1>3, <1>q DEF WriteTimesOut, poolOthers, Stage, Connection, subscription, client, gate,
       upstreams, world
<1>4. CASE TakeChunk
    BY <1>4, <1>q DEF TakeChunk, Dispatch, Serve, Stage, CallOf, LaneOf, Unlocked, subscription,
       client, gate, upstreams, world
<1>5. CASE TakeNoise
  <2>1. replies' = <<>> /\ UNCHANGED <<asked, outbound, got>>
    BY <1>5 DEF TakeNoise, Return, client
  <2> QED BY <2>1, <1>0, <1>n, InNone
<1>6. CASE TakeReply
  <2>1. ToSet(replies') \subseteq ToSet(replies) /\ UNCHANGED <<asked, outbound, got>>
    BY <1>6, InTail DEF TakeReply, client, TypeOK, StreamsOK
  <2> QED BY <2>1, <1>0, <1>n
<1>7. CASE SendLine
  <2>1. outbound' = Append(outbound, at.on) /\ at.on \in 0..Len(asked) /\ at.on \in {Null} \cup Request
    BY <1>7 DEF SendLine, StageOK, TypeOK, TaskOK
  <2>2. ToSet(outbound') = ToSet(outbound) \cup {at.on}
    <3>1. outbound \in Seq({Null} \cup Request)
      BY DEF TypeOK, StreamsOK
    <3> QED BY <2>1, <3>1, InAppend
  <2>3. (replies' = replies \/ replies' = <<>>) /\ UNCHANGED <<asked, got>>
    BY <1>7 DEF SendLine, Return, client
  <2>4. ToSet(replies') \subseteq ToSet(replies)
    BY <2>3, InNone
  <2> QED BY <2>1, <2>2, <2>3, <2>4, <1>0, <1>n
<1>8. CASE CheckPin
    BY <1>8, <1>q DEF CheckPin, Stage, WrongPin, subscription, client, gate, upstreams, world
<1>9. CASE Connect
    BY <1>9, <1>q DEF Connect, Stage, Connection, poolOthers, subscription, client, gate,
       upstreams, world
<1>10. CASE Write
    BY <1>10, <1>q DEF Write, poolOthers, subscription, client, gate, upstreams, world
<1>11. CASE WriteIntoDead
    BY <1>11, <1>q DEF WriteIntoDead, poolOthers, Stage, Connection, subscription, client, gate,
       upstreams, world
<1>12. CASE \E l \in Lanes : Answer(l)
  <2>0. PICK l \in Lanes : Answer(l)
    BY <1>12
  <2>1. wire[l] # <<>> /\ wire[l] \in Seq(Request) /\ Forward(Head(wire[l])) /\ UNCHANGED <<asked, outbound, got>>
    BY <2>0 DEF Answer, daemonOthers, client, TypeOK, PoolOK
  <2>2. Head(wire[l]) \in ToSet(wire[l]) /\ Head(wire[l]) \in Request
    BY <2>1, InTail
  <2>3. Head(wire[l]) \in 0..Len(asked)
    BY <2>2, <1>n DEF DaemonsOK, Served
  <2> QED BY <2>1, <2>2, <2>3, <1>f
<1>13. CASE \E l \in Lanes : Notify(l)
  <2>0. PICK l \in Lanes : Notify(l)
    BY <1>13
  <2>1. Forward(Null) /\ UNCHANGED <<asked, outbound, got>> /\ Null \in 0..Len(asked)
    BY <2>0, <1>n DEF Notify, daemonOthers, client, Null
  <2> QED BY <2>1, <1>f
<1>14. CASE \E r \in adrift : AnswerAdrift(r)
  <2>0. PICK r \in adrift : AnswerAdrift(r)
    BY <1>14
  <2>1. Forward(r) /\ UNCHANGED <<asked, outbound, got>> /\ r \in Request
    BY <2>0 DEF AnswerAdrift, daemonOthers, client, TypeOK, PoolOK
  <2>2. r \in 0..Len(asked)
    BY <2>0, <1>n DEF DaemonsOK, Served
  <2> QED BY <2>1, <2>2, <1>f
<1>15. CASE \E l \in Lanes : Restart(Service[l])
    BY <1>15, <1>q DEF Restart, subscription, client, gate, upstreams, world
<1>16. CASE SetPin
    BY <1>16, <1>q DEF SetPin, subscription, client, gate, upstreams, world
<1>17. CASE \E s \in Sub : Leave(s)
    BY <1>17, <1>q DEF Leave, subscription, client, gate, upstreams, world
<1>18. CASE \E s \in Sub : WriteTail(s)
  <2>0. PICK s \in Sub : WriteTail(s)
    BY <1>18
  <2>1. UNCHANGED <<replies, outbound, got>> /\ SameCalls
    BY <2>0, TailSameCalls DEF WriteTail, Accepts
  <2> QED BY <2>1, <1>0 DEF SameCalls
<1>19. CASE \E s \in Sub : WriteNoise(s)
    BY <1>19, <1>q DEF WriteNoise, Accepts, Noise, subscription, client, gate, upstreams, world
<1>20. CASE \E s \in Sub : \E call \in Call : WriteHead(s, call)
  <2>0. PICK s \in Sub, call \in Call : WriteHead(s, call)
    BY <1>20
  <2>1. UNCHANGED <<replies, outbound, got>> /\ SameCalls
    BY <2>0, HeadSameCalls DEF WriteHead, Accepts
  <2> QED BY <2>1, <1>0 DEF SameCalls
<1>21. CASE \E s \in Sub : PumpEnds(s)
  <2>0. PICK s \in Sub : PumpEnds(s)
    BY <1>21
  <2>1. /\ (UNCHANGED <<replies, outbound>> \/ (replies' = <<>> /\ outbound' = <<>>))
        /\ UNCHANGED <<asked, got>>
    BY <2>0 DEF PumpEnds, NoSession, client
  <2>2. ToSet(replies') \subseteq ToSet(replies) /\ ToSet(outbound') \subseteq ToSet(outbound)
    BY <2>1, InNone
  <2> QED BY <2>1, <2>2, <1>0, <1>n
<1>22. CASE UNCHANGED vars
    BY <1>22, <1>q DEF vars, subscription, client, gate, upstreams, world
<1> QED BY <1>1, <1>2, <1>3, <1>4, <1>5, <1>6, <1>7, <1>8, <1>9, <1>10, <1>11, <1>12, <1>13,
       <1>14, <1>15, <1>16, <1>17, <1>18, <1>19, <1>20, <1>21, <1>22, NextActions

\* and halves stay one central's.
LEMMA StepPartial ==
  ASSUME TypeOK, PartialOK, [Next]_vars
  PROVE  PartialOK'
<1>q. ASSUME UNCHANGED <<asked, partial>> PROVE PartialOK'
  BY <1>q DEF PartialOK
<1>1. CASE Subscribe
    BY <1>1 DEF Subscribe, PartialOK
<1>2. CASE PumpDelivers
    BY <1>2, <1>q DEF PumpDelivers, subscription, client, gate, upstreams, world
<1>3. CASE WriteTimesOut
    BY <1>3, <1>q DEF WriteTimesOut, poolOthers, Stage, Connection, subscription, client, gate,
       upstreams, world
<1>4. CASE TakeChunk
    BY <1>4, <1>q DEF TakeChunk, Dispatch, Serve, Stage, CallOf, LaneOf, Unlocked, subscription,
       client, gate, upstreams, world
<1>5. CASE TakeNoise
    BY <1>5, <1>q DEF TakeNoise, Return, subscription, client, gate, upstreams, world
<1>6. CASE TakeReply
    BY <1>6, <1>q DEF TakeReply, Stage, subscription, client, gate, upstreams, world
<1>7. CASE SendLine
    BY <1>7, <1>q DEF SendLine, Return, SpentTries, subscription, client, gate, upstreams, world
<1>8. CASE CheckPin
    BY <1>8, <1>q DEF CheckPin, Stage, WrongPin, subscription, client, gate, upstreams, world
<1>9. CASE Connect
    BY <1>9, <1>q DEF Connect, Stage, Connection, poolOthers, subscription, client, gate,
       upstreams, world
<1>10. CASE Write
    BY <1>10, <1>q DEF Write, poolOthers, subscription, client, gate, upstreams, world
<1>11. CASE WriteIntoDead
    BY <1>11, <1>q DEF WriteIntoDead, poolOthers, Stage, Connection, subscription, client, gate,
       upstreams, world
<1>12. CASE \E l \in Lanes : Answer(l)
    BY <1>12, <1>q DEF Answer, Forward, daemonOthers, subscription, client, gate, upstreams, world
<1>13. CASE \E l \in Lanes : Notify(l)
    BY <1>13, <1>q DEF Notify, Forward, daemonOthers, subscription, client, gate, upstreams, world
<1>14. CASE \E r \in adrift : AnswerAdrift(r)
    BY <1>14, <1>q DEF AnswerAdrift, Forward, daemonOthers, subscription, client, gate,
       upstreams, world
<1>15. CASE \E l \in Lanes : Restart(Service[l])
    BY <1>15, <1>q DEF Restart, subscription, client, gate, upstreams, world
<1>16. CASE SetPin
    BY <1>16, <1>q DEF SetPin, subscription, client, gate, upstreams, world
<1>17. CASE \E s \in Sub : Leave(s)
    BY <1>17, <1>q DEF Leave, subscription, client, gate, upstreams, world
<1>18. CASE \E s \in Sub : WriteTail(s)
  <2>0. PICK s \in Sub : WriteTail(s)
    BY <1>18
  <2>1. partial' = [partial EXCEPT ![s] = Null] /\ partial \in [Sub -> {Null} \cup Request] /\ partial[s] # Null
    BY <2>0 DEF WriteTail, TypeOK, RadioOK
  <2>2. /\ Len(asked') = Len(asked)
        /\ \A r \in 1..Len(asked) : asked'[r].whole = (r = partial[s] \/ asked[r].whole)
    BY <2>0, TailSameCalls
  <2>3. ASSUME NEW t \in Sub, partial'[t] # Null
        PROVE  /\ partial'[t] \in 1..Len(asked') /\ ~asked'[partial'[t]].whole
               /\ \A u \in Sub : partial'[u] = partial'[t] => u = t
    <3>1. t # s /\ partial'[t] = partial[t]
      BY <2>1, <2>3
    <3>2. partial[t] # partial[s] /\ partial[t] \in 1..Len(asked) /\ ~asked[partial[t]].whole
      BY <2>1, <2>3, <3>1 DEF PartialOK
    <3>3. ~asked'[partial[t]].whole
      BY <2>2, <3>2
    <3>4. \A u \in Sub : partial'[u] = partial'[t] => u = t
      BY <2>1, <2>3, <3>1 DEF PartialOK
    <3> QED BY <2>2, <3>1, <3>2, <3>3, <3>4
  <2> QED BY <2>3 DEF PartialOK
<1>19. CASE \E s \in Sub : WriteNoise(s)
    BY <1>19, <1>q DEF WriteNoise, Accepts, Noise, subscription, client, gate, upstreams, world
<1>20. CASE \E s \in Sub : \E call \in Call : WriteHead(s, call)
  <2>0. PICK s \in Sub, call \in Call : WriteHead(s, call)
    BY <1>20
  <2>1. partial' = [partial EXCEPT ![s] = Len(asked')] /\ partial \in [Sub -> {Null} \cup Request]
    BY <2>0 DEF WriteHead, TypeOK, RadioOK
  <2>2. /\ Len(asked') = Len(asked) + 1 /\ Len(asked) \in Nat /\ ~asked'[Len(asked')].whole
        /\ \A r \in 1..Len(asked) : asked'[r] = asked[r]
    <3>1. asked'[Len(asked')] = [call |-> call, whole |-> FALSE]
      BY <2>0, Grows
    <3> QED BY <2>0, <3>1, Grows
  <2> QED BY <2>1, <2>2 DEF PartialOK
<1>21. CASE \E s \in Sub : PumpEnds(s)
    BY <1>21, <1>q DEF PumpEnds, NoSession, ClearSlot, subscription, client, gate, upstreams, world
<1>22. CASE UNCHANGED vars
    BY <1>22, <1>q DEF vars, subscription, client, gate, upstreams, world
<1> QED BY <1>1, <1>2, <1>3, <1>4, <1>5, <1>6, <1>7, <1>8, <1>9, <1>10, <1>11, <1>12, <1>13,
       <1>14, <1>15, <1>16, <1>17, <1>18, <1>19, <1>20, <1>21, <1>22, NextActions

-----------------------------------------------------------------------------
(* The PIN gate.                                                           *)

IInv == TypeOK /\ GateOK /\ StageOK /\ ChunksOK /\ DaemonsOK /\ AnswersOK /\ PartialOK

\* At the start nothing was asked.
LEMMA InitIInv == Init => IInv
<1> SUFFICES ASSUME Init PROVE IInv
  OBVIOUS
<1>1. TypeOK
  BY InitType
<1>2. GateOK
  BY Sizes DEF Init, GateOK
<1>3. StageOK /\ ChunksOK /\ AnswersOK /\ PartialOK
  BY InNone DEF Init, StageOK, ChunksOK, AnswersOK, PartialOK, Idle, Null
<1>4. DaemonsOK
  BY InNone DEF Init, DaemonsOK
<1> QED BY <1>1, <1>2, <1>3, <1>4 DEF IInv

\* Every step keeps the parts.
LEMMA StepIInv ==
  ASSUME IInv, [Next]_vars
  PROVE  IInv'
<1>1. TypeOK /\ GateOK /\ StageOK /\ ChunksOK /\ DaemonsOK /\ AnswersOK /\ PartialOK
  BY DEF IInv
<1>2. TypeOK'
  BY <1>1, StepRadio, StepStreams, StepTask, StepPool DEF TypeOK
<1> QED BY <1>1, <1>2, StepGate, StepStage, StepChunks, StepDaemons, StepAnswers, StepPartial
        DEF IInv

\* The inductive invariant behind the others.
THEOREM Invariance == Spec => []IInv
<1>1. IInv /\ UNCHANGED vars => IInv'
  BY StepIInv
<1> QED BY InitIInv, StepIInv, <1>1, PTL DEF Spec

\* Every variable keeps its type, for any lanes, PINs, bounds and habits.
THEOREM TypeCorrect == Spec => []TypeOK
<1>1. IInv => TypeOK
  BY DEF IInv
<1> QED BY Invariance, <1>1, PTL

\* Nothing but hello reaches a daemon from a session that has not proved the PIN, and a
\* session that was told of its last wrong PIN serves nothing more, whatever centrals and
\* daemons do (session.rs, the PIN gate and PIN_ATTEMPTS).
THEOREM PinIsFirst == Spec => []PinFirst
<1>1. ASSUME IInv PROVE PinFirst
  <2>1. ASSUME ~authenticated, NEW r \in WithDaemon
        PROVE  CallOf(r).kind = "hello"
    BY <1>1, <2>1 DEF IInv, DaemonsOK, WithDaemon, Served
  <2>2. wrong \in Nat /\ wrong <= Attempts
    BY <1>1, Sizes DEF IInv, TypeOK, TaskOK
  <2>3. wrong = Attempts /\ open => at.doing = "reply"
    BY <1>1, Sizes DEF IInv, TypeOK, TaskOK, GateOK
  <2> QED BY <2>1, <2>2, <2>3 DEF PinFirst
<1> QED BY Invariance, <1>1, PTL

-----------------------------------------------------------------------------
(* Whose chunks a session reads.                                           *)

\* One central at a time, and the session reads what that one wrote.
OwnOK ==
  /\ here \subseteq {subs}
  /\ \A chunk \in ToSet(inbound) : chunk.by \in {subs, Noise.by}
  /\ \A chunk \in ToSet(buffer) : chunk.by \in {subs, Noise.by}

\* With one central at a time no chunk of another is ever queued.
LEMMA StepOwn ==
  ASSUME "together" \notin Habits, TypeOK, OwnOK, [Next]_vars
  PROVE  OwnOK'
<1>n. /\ subs \in Nat /\ inbound \in Seq(Chunk) /\ buffer \in Seq(Chunk)
  BY DEF TypeOK, RadioOK, StreamsOK
<1>0. ASSUME NEW new, new.by \in {subs, Noise.by}, subs' = subs, here' \subseteq here,
             ToSet(inbound') \subseteq ToSet(inbound) \cup {new},
             ToSet(buffer') \subseteq ToSet(buffer) \cup ToSet(inbound)
      PROVE  OwnOK'
  BY <1>0 DEF OwnOK
<1>q. ASSUME UNCHANGED <<subs, here, inbound, buffer>> PROVE OwnOK'
  BY <1>q DEF OwnOK
<1>e. ASSUME here' \subseteq {subs'}, inbound' = <<>>, buffer' = <<>> PROVE OwnOK'
  BY <1>e, InNone DEF OwnOK
<1>1. CASE Subscribe
    BY <1>1, <1>n, <1>e DEF Subscribe, NoSession
<1>2. CASE PumpDelivers
    BY <1>2, <1>q DEF PumpDelivers, subscription, client, gate, upstreams, world
<1>3. CASE WriteTimesOut
    BY <1>3, <1>q DEF WriteTimesOut, poolOthers, Stage, Connection, subscription, client, gate,
       upstreams, world
<1>4. CASE TakeChunk
  <2>1. inbound # <<>> /\ inbound' = Tail(inbound) /\ UNCHANGED <<subs, here>>
    BY <1>4 DEF TakeChunk, subscription
  <2>2. buffer' = <<>> \/ buffer' = Append(buffer, Head(inbound))
    BY <1>4 DEF TakeChunk
  <2>3. ToSet(inbound') \subseteq ToSet(inbound) /\ Head(inbound) \in ToSet(inbound) /\ Head(inbound) \in Chunk
    BY <2>1, <1>n, InTail
  <2>4. ToSet(Append(buffer, Head(inbound))) = ToSet(buffer) \cup {Head(inbound)}
    BY <2>3, <1>n, InAppend
  <2>5. ToSet(buffer') \subseteq ToSet(buffer) \cup ToSet(inbound)
    BY <2>2, <2>3, <2>4, InNone
  <2> QED BY <2>1, <2>3, <2>5 DEF OwnOK
<1>5. CASE TakeNoise
    BY <1>5, <1>e DEF TakeNoise, Return, subscription, OwnOK
<1>6. CASE TakeReply
    BY <1>6, <1>q DEF TakeReply, Stage, subscription, client, gate, upstreams, world
<1>7. CASE SendLine
  <2>1. CASE inbound' = <<>> /\ buffer' = <<>>
    BY <1>7, <2>1, <1>e DEF SendLine, subscription, OwnOK
  <2>2. CASE ~(inbound' = <<>> /\ buffer' = <<>>)
    BY <1>7, <2>2, <1>q DEF SendLine, Return, subscription
  <2> QED BY <2>1, <2>2
<1>8. CASE CheckPin
    BY <1>8, <1>q DEF CheckPin, Stage, WrongPin, subscription, client, gate, upstreams, world
<1>9. CASE Connect
    BY <1>9, <1>q DEF Connect, Stage, Connection, poolOthers, subscription, client, gate,
       upstreams, world
<1>10. CASE Write
    BY <1>10, <1>q DEF Write, poolOthers, subscription, client, gate, upstreams, world
<1>11. CASE WriteIntoDead
    BY <1>11, <1>q DEF WriteIntoDead, poolOthers, Stage, Connection, subscription, client, gate,
       upstreams, world
<1>12. CASE \E l \in Lanes : Answer(l)
    BY <1>12, <1>q DEF Answer, Forward, daemonOthers, subscription, client, gate, upstreams, world
<1>13. CASE \E l \in Lanes : Notify(l)
    BY <1>13, <1>q DEF Notify, Forward, daemonOthers, subscription, client, gate, upstreams, world
<1>14. CASE \E r \in adrift : AnswerAdrift(r)
    BY <1>14, <1>q DEF AnswerAdrift, Forward, daemonOthers, subscription, client, gate,
       upstreams, world
<1>15. CASE \E l \in Lanes : Restart(Service[l])
    BY <1>15, <1>q DEF Restart, subscription, client, gate, upstreams, world
<1>16. CASE SetPin
    BY <1>16, <1>q DEF SetPin, subscription, client, gate, upstreams, world
<1>17. CASE \E s \in Sub : Leave(s)
  <2>0. PICK s \in Sub : Leave(s)
    BY <1>17
  <2>1. here' \subseteq here /\ UNCHANGED <<subs, inbound, buffer>>
    BY <2>0 DEF Leave
  <2> QED BY <2>1 DEF OwnOK
<1>18. CASE \E s \in Sub : WriteTail(s)
  <2>0. PICK s \in Sub : WriteTail(s)
    BY <1>18
  <2> DEFINE new == [by |-> s, of |-> partial[s], half |-> "tail"]
  <2>a. new \in Chunk
    BY <2>0 DEF Chunk, Half, WriteTail, TypeOK, RadioOK
  <2>1. inbound' = Append(inbound, new) /\ UNCHANGED <<subs, here, buffer>> /\ s \in here /\ new.by = s
    BY <2>0 DEF WriteTail, Accepts, subscription
  <2> HIDE DEF new
  <2>2. ToSet(inbound') = ToSet(inbound) \cup {new}
    BY <2>1, <2>a, <1>n, InAppend
  <2> QED BY <2>1, <2>2 DEF OwnOK
<1>19. CASE \E s \in Sub : WriteNoise(s)
  <2>0. PICK s \in Sub : WriteNoise(s)
    BY <1>19
  <2>1. /\ inbound' = Append(inbound, Noise) /\ Noise \in Chunk /\ UNCHANGED <<subs, here, buffer>>
        /\ s \in here
    BY <2>0 DEF WriteNoise, Accepts, subscription, Chunk
  <2>2. ToSet(inbound') = ToSet(inbound) \cup {Noise}
    BY <2>1, <1>n, InAppend
  <2> QED BY <2>1, <2>2 DEF OwnOK
<1>20. CASE \E s \in Sub : \E call \in Call : WriteHead(s, call)
  <2>0. PICK s \in Sub, call \in Call : WriteHead(s, call)
    BY <1>20
  <2> DEFINE new == [by |-> s, of |-> Len(asked'), half |-> "head"]
  <2>a. new \in Chunk
    BY <2>0, Grows DEF Chunk, Half
  <2>1. inbound' = Append(inbound, new) /\ UNCHANGED <<subs, here, buffer>> /\ s \in here /\ new.by = s
    BY <2>0 DEF WriteHead, Accepts, subscription
  <2> HIDE DEF new
  <2>2. ToSet(inbound') = ToSet(inbound) \cup {new}
    BY <2>1, <2>a, <1>n, InAppend
  <2> QED BY <2>1, <2>2 DEF OwnOK
<1>21. CASE \E s \in Sub : PumpEnds(s)
  <2>0. PICK s \in Sub : PumpEnds(s)
    BY <1>21
  <2>1. CASE inbound' = <<>> /\ buffer' = <<>>
    BY <2>0, <2>1, <1>e DEF PumpEnds, OwnOK
  <2>2. CASE ~(inbound' = <<>> /\ buffer' = <<>>)
    BY <2>0, <2>2, <1>q DEF PumpEnds, NoSession
  <2> QED BY <2>1, <2>2
<1>22. CASE UNCHANGED vars
    BY <1>22, <1>q DEF vars, subscription, client, gate, upstreams, world
<1> QED BY <1>1, <1>2, <1>3, <1>4, <1>5, <1>6, <1>7, <1>8, <1>9, <1>10, <1>11, <1>12, <1>13,
       <1>14, <1>15, <1>16, <1>17, <1>18, <1>19, <1>20, <1>21, <1>22, NextActions

\* The slot is the newest session's for as long as its central stays.
LEMMA StepSlot ==
  ASSUME TypeOK, SlotIsNewest, [Next]_vars
  PROVE  SlotIsNewest'
<1> USE DEF SlotIsNewest
<1>1. CASE Subscribe
    BY <1>1 DEF Subscribe, NoSession, subscription, client, gate, upstreams, world
<1>2. CASE PumpDelivers
    BY <1>2 DEF PumpDelivers, subscription, client, gate, upstreams, world
<1>3. CASE WriteTimesOut
    BY <1>3 DEF WriteTimesOut, poolOthers, Stage, Connection, subscription, client, gate,
       upstreams, world
<1>4. CASE TakeChunk
    BY <1>4 DEF TakeChunk, Dispatch, Serve, Stage, CallOf, LaneOf, Unlocked, subscription,
       client, gate, upstreams, world
<1>5. CASE TakeNoise
    BY <1>5 DEF TakeNoise, Return, subscription, client, gate, upstreams, world
<1>6. CASE TakeReply
    BY <1>6 DEF TakeReply, Stage, subscription, client, gate, upstreams, world
<1>7. CASE SendLine
    BY <1>7 DEF SendLine, Return, SpentTries, subscription, client, gate, upstreams, world
<1>8. CASE CheckPin
    BY <1>8 DEF CheckPin, Stage, WrongPin, subscription, client, gate, upstreams, world
<1>9. CASE Connect
    BY <1>9 DEF Connect, Stage, Connection, poolOthers, subscription, client, gate, upstreams, world
<1>10. CASE Write
    BY <1>10 DEF Write, poolOthers, subscription, client, gate, upstreams, world
<1>11. CASE WriteIntoDead
    BY <1>11 DEF WriteIntoDead, poolOthers, Stage, Connection, subscription, client, gate,
       upstreams, world
<1>12. CASE \E l \in Lanes : Answer(l)
    BY <1>12 DEF Answer, Forward, daemonOthers, subscription, client, gate, upstreams, world
<1>13. CASE \E l \in Lanes : Notify(l)
    BY <1>13 DEF Notify, Forward, daemonOthers, subscription, client, gate, upstreams, world
<1>14. CASE \E r \in adrift : AnswerAdrift(r)
    BY <1>14 DEF AnswerAdrift, Forward, daemonOthers, subscription, client, gate, upstreams, world
<1>15. CASE \E l \in Lanes : Restart(Service[l])
    BY <1>15 DEF Restart, subscription, client, gate, upstreams, world
<1>16. CASE SetPin
    BY <1>16 DEF SetPin, subscription, client, gate, upstreams, world
<1>17. CASE \E s \in Sub : Leave(s)
    BY <1>17 DEF Leave, subscription, client, gate, upstreams, world
<1>18. CASE \E s \in Sub : WriteTail(s)
    BY <1>18 DEF WriteTail, Accepts, subscription, client, gate, upstreams, world
<1>19. CASE \E s \in Sub : WriteNoise(s)
    BY <1>19 DEF WriteNoise, Accepts, Noise, subscription, client, gate, upstreams, world
<1>20. CASE \E s \in Sub : \E call \in Call : WriteHead(s, call)
    BY <1>20 DEF WriteHead, Accepts, subscription, client, gate, upstreams, world
<1>21. CASE \E s \in Sub : PumpEnds(s)
    BY <1>21 DEF PumpEnds, NoSession, ClearSlot, subscription, client, gate, upstreams, world
<1>22. CASE UNCHANGED vars
    BY <1>22 DEF vars, subscription, client, gate, upstreams, world
<1> QED BY <1>1, <1>2, <1>3, <1>4, <1>5, <1>6, <1>7, <1>8, <1>9, <1>10, <1>11, <1>12, <1>13,
       <1>14, <1>15, <1>16, <1>17, <1>18, <1>19, <1>20, <1>21, <1>22, NextActions

-----------------------------------------------------------------------------
(* Each request is in one place.                                           *)

\* The requests whose tails are among the chunks.
Tails(seq) == {chunk.of : chunk \in {c \in ToSet(seq) : c.half = "tail"}}
DistinctTails(seq) ==
  \A i \in 1..Len(seq) : \A j \in 1..Len(seq) :
    i # j /\ seq[i].half = "tail" /\ seq[j].half = "tail" /\ seq[i].of = seq[j].of => seq[i].of = Null

\* The places: with its central, its tail unwritten or its answer there; among the chunks;
\* in the session's hand; on the way to a daemon or back.
Where == [unwritten |-> {r \in 1..Len(asked) : ~asked[r].whole}, coming |-> Tails(inbound),
          session |-> {at.on}, wire |-> UNION {ToSet(wire[l]) : l \in Lanes}, adrift |-> adrift,
          replies |-> ToSet(replies), outbound |-> ToSet(outbound), central |-> got]
Place == {"unwritten", "coming", "session", "wire", "adrift", "replies", "outbound", "central"}

Apart == \A p \in Place : \A q \in Place : \A r \in Where[p] \cap Where[q] : r = Null \/ p = q

DistinctOK ==
  /\ DistinctTails(inbound) /\ Distinct(replies) /\ Distinct(outbound)
  /\ \A l \in Lanes : Distinct(wire[l])

\* A queue of chunks that gets one more.
LEMMA TailsAppend ==
  ASSUME NEW seq \in Seq(Chunk), NEW chunk \in Chunk
  PROVE  /\ Tails(Append(seq, chunk)) = Tails(seq) \cup (IF chunk.half = "tail" THEN {chunk.of} ELSE {})
         /\ DistinctTails(seq) /\ (chunk.half = "tail" => chunk.of = Null \/ chunk.of \notin Tails(seq))
              => DistinctTails(Append(seq, chunk))
<1> DEFINE more == Append(seq, chunk)
<1>1. /\ Len(seq) \in Nat /\ Len(more) = Len(seq) + 1 /\ more[Len(seq) + 1] = chunk
      /\ \A i \in 1..Len(seq) : more[i] = seq[i]
  OBVIOUS
<1>2. \A i \in 1..Len(more) : i \in 1..Len(seq) \/ i = Len(seq) + 1
  BY <1>1
<1>3. ToSet(more) = ToSet(seq) \cup {chunk}
  BY InAppend
<1>4. \A i \in 1..Len(seq) : seq[i] \in ToSet(seq)
  BY InSeq
<1> HIDE DEF more
<1>5. Tails(more) = Tails(seq) \cup (IF chunk.half = "tail" THEN {chunk.of} ELSE {})
  BY <1>3 DEF Tails
<1>6. ASSUME DistinctTails(seq), chunk.half = "tail" => chunk.of = Null \/ chunk.of \notin Tails(seq)
      PROVE  DistinctTails(more)
  <2>1. \A i \in 1..Len(seq) : seq[i].half = "tail" => seq[i].of \in Tails(seq)
    BY <1>4 DEF Tails
  <2> SUFFICES ASSUME NEW i \in 1..Len(more), NEW j \in 1..Len(more), i # j,
                      more[i].half = "tail", more[j].half = "tail", more[i].of = more[j].of
               PROVE  more[i].of = Null
    BY DEF DistinctTails
  <2>2. CASE i \in 1..Len(seq) /\ j \in 1..Len(seq)
    BY <1>1, <1>6, <2>2 DEF DistinctTails
  <2>3. CASE i \in 1..Len(seq) /\ j = Len(seq) + 1
    BY <1>1, <1>6, <2>1, <2>3
  <2>4. CASE j \in 1..Len(seq) /\ i = Len(seq) + 1
    BY <1>1, <1>6, <2>1, <2>4
  <2> QED BY <1>2, <2>2, <2>3, <2>4
<1> QED BY <1>5, <1>6 DEF more

\* A queue of chunks that loses its first.
LEMMA TailsTail ==
  ASSUME NEW seq \in Seq(Chunk), seq # <<>>
  PROVE  /\ Tails(Tail(seq)) \subseteq Tails(seq)
         /\ Head(seq).half = "tail" => Head(seq).of \in Tails(seq)
         /\ DistinctTails(seq) =>
              /\ DistinctTails(Tail(seq))
              /\ Head(seq).half = "tail" => Head(seq).of = Null \/ Head(seq).of \notin Tails(Tail(seq))
<1>1. /\ Len(seq) \in Nat /\ Len(seq) >= 1 /\ Head(seq) = seq[1] /\ Len(Tail(seq)) = Len(seq) - 1
      /\ Tail(seq) \in Seq(Chunk) /\ \A i \in 1..Len(Tail(seq)) : Tail(seq)[i] = seq[i + 1]
  OBVIOUS
<1>2. \A i \in 1..Len(Tail(seq)) : i + 1 \in 1..Len(seq) /\ i + 1 # 1
  BY <1>1
<1>3. ToSet(Tail(seq)) \subseteq ToSet(seq) /\ Head(seq) \in ToSet(seq)
  BY InTail
<1>4. Tails(Tail(seq)) \subseteq Tails(seq) /\ (Head(seq).half = "tail" => Head(seq).of \in Tails(seq))
  BY <1>3 DEF Tails
<1>5. ASSUME DistinctTails(seq)
      PROVE  DistinctTails(Tail(seq))
  <2> SUFFICES ASSUME NEW i \in 1..Len(Tail(seq)), NEW j \in 1..Len(Tail(seq)), i # j,
                      Tail(seq)[i].half = "tail", Tail(seq)[j].half = "tail",
                      Tail(seq)[i].of = Tail(seq)[j].of
               PROVE  Tail(seq)[i].of = Null
    BY DEF DistinctTails
  <2>1. i + 1 # j + 1
    BY <1>1
  <2> QED BY <2>1, <1>1, <1>2, <1>5 DEF DistinctTails
<1>6. ASSUME DistinctTails(seq), Head(seq).half = "tail", Head(seq).of \in Tails(Tail(seq))
      PROVE  Head(seq).of = Null
  <2>1. PICK chunk \in ToSet(Tail(seq)) : chunk.half = "tail" /\ chunk.of = Head(seq).of
    BY <1>6 DEF Tails
  <2>2. PICK i \in 1..Len(Tail(seq)) : Tail(seq)[i] = chunk
    BY <1>1, InSeq
  <2>3. i + 1 \in 1..Len(seq) /\ i + 1 # 1 /\ 1 \in 1..Len(seq) /\ seq[i + 1] = chunk /\ seq[1] = Head(seq)
    BY <1>1, <1>2, <2>2
  <2> QED BY <2>1, <2>3, <1>6 DEF DistinctTails
<1> QED BY <1>4, <1>5, <1>6

\* The empty queue of chunks.
LEMMA TailsNone == Tails(<<>>) = {} /\ DistinctTails(<<>>)
BY InNone DEF Tails, DistinctTails

\* Requests that leave one place for another, where they are nowhere else, stay apart.
LEMMA Moved ==
  ASSUME Apart, NEW A \in Place, NEW B \in Place, NEW R,
         \A p \in Place : Where'[p] \subseteq Where[p] \cup {Null} \cup (IF p = B THEN R ELSE {}),
         \A r \in R : r = Null \/ /\ \A p \in Place : r \in Where[p] => p = A
                                  /\ A = B \/ r \notin Where'[A]
  PROVE  Apart'
<1> SUFFICES ASSUME NEW p \in Place, NEW q \in Place, NEW r \in Where'[p] \cap Where'[q], r # Null
             PROVE  p = q
  BY DEF Apart
<1>1. CASE r \notin R
  <2>1. r \in Where[p] /\ r \in Where[q]
    BY <1>1
  <2> QED BY <2>1 DEF Apart
<1>2. CASE r \in R
  <2>1. \A w \in Place : r \in Where'[w] => w = B
    BY <1>2
  <2> QED BY <2>1
<1> QED BY <1>1, <1>2

\* The same, from where each of them is now.
LEMMA Moves ==
  ASSUME Apart, NEW A \in Place, NEW B \in Place, NEW R, R \subseteq Where[A],
         \A p \in Place : Where'[p] \subseteq Where[p] \cup {Null} \cup (IF p = B THEN R ELSE {}),
         \A r \in R : r = Null \/ r \notin Where'[A]
  PROVE  Apart'
<1>1. \A r \in R : r = Null \/ \A p \in Place : r \in Where[p] => p = A
  BY DEF Apart
<1> QED BY <1>1, Moved

\* The same, for one request.
LEMMA OneMoves ==
  ASSUME Apart, NEW A \in Place, NEW B \in Place, NEW r0, r0 \in Where[A],
         \A p \in Place : Where'[p] \subseteq Where[p] \cup {Null, r0},
         \A p \in Place : p = B \/ Where'[p] \subseteq Where[p] \cup {Null},
         r0 = Null \/ r0 \notin Where'[A]
  PROVE  Apart'
<1> DEFINE R == {r0}
<1>1. /\ R \subseteq Where[A] /\ \A r \in R : r = Null \/ r \notin Where'[A]
      /\ \A p \in Place : Where'[p] \subseteq Where[p] \cup {Null} \cup (IF p = B THEN R ELSE {})
  OBVIOUS
<1> HIDE DEF R
<1> QED BY <1>1, Moves

\* A new request joins one place.
LEMMA OneJoins ==
  ASSUME Apart, NEW B, NEW r0, \A p \in Place : r0 \notin Where[p],
         \A p \in Place : Where'[p] \subseteq Where[p] \cup {Null, r0},
         \A p \in Place : p = B \/ Where'[p] \subseteq Where[p] \cup {Null}
  PROVE  Apart'
<1> SUFFICES ASSUME NEW p \in Place, NEW q \in Place, NEW r \in Where'[p] \cap Where'[q], r # Null
             PROVE  p = q
  BY DEF Apart
<1>1. CASE r # r0
  <2>1. r \in Where[p] /\ r \in Where[q]
    BY <1>1
  <2> QED BY <2>1 DEF Apart
<1>2. CASE r = r0
  BY <1>2
<1> QED BY <1>1, <1>2

\* Requests that only leave places.
LEMMA Leaves ==
  ASSUME Apart, \A p \in Place : Where'[p] \subseteq Where[p] \cup {Null}
  PROVE  Apart'
<1> SUFFICES ASSUME NEW p \in Place, NEW q \in Place, NEW r \in Where'[p] \cap Where'[q], r # Null
             PROVE  p = q
  BY DEF Apart
<1>1. r \in Where[p] /\ r \in Where[q]
  OBVIOUS
<1> QED BY <1>1 DEF Apart

\* The places, one by one.
LEMMA Places8 ==
  /\ Where["unwritten"] = {r \in 1..Len(asked) : ~asked[r].whole}
  /\ Where["coming"] = Tails(inbound)
  /\ Where["session"] = {at.on}
  /\ Where["wire"] = UNION {ToSet(wire[l]) : l \in Lanes}
  /\ Where["adrift"] = adrift
  /\ Where["replies"] = ToSet(replies)
  /\ Where["outbound"] = ToSet(outbound)
  /\ Where["central"] = got
BY DEF Where

\* The same after a step.
LEMMA Places8Next ==
  /\ Where'["unwritten"] = {r \in 1..Len(asked') : ~asked'[r].whole}
  /\ Where'["coming"] = Tails(inbound')
  /\ Where'["session"] = {at'.on}
  /\ Where'["wire"] = UNION {ToSet(wire'[l]) : l \in Lanes}
  /\ Where'["adrift"] = adrift'
  /\ Where'["replies"] = ToSet(replies')
  /\ Where'["outbound"] = ToSet(outbound')
  /\ Where'["central"] = got'
BY DEF Where

\* A place whose variable stays, and one that is emptied.
LEMMA PlacesKept ==
  /\ asked' = asked => Where'["unwritten"] = Where["unwritten"]
  /\ inbound' = inbound => Where'["coming"] = Where["coming"]
  /\ at'.on = at.on => Where'["session"] = Where["session"]
  /\ wire' = wire => Where'["wire"] = Where["wire"]
  /\ adrift' = adrift => Where'["adrift"] = Where["adrift"]
  /\ replies' = replies => Where'["replies"] = Where["replies"]
  /\ outbound' = outbound => Where'["outbound"] = Where["outbound"]
  /\ got' = got => Where'["central"] = Where["central"]
BY Places8, Places8Next

\* A place whose variable is emptied.
LEMMA PlacesEmptied ==
  /\ asked' = <<>> => Where'["unwritten"] = {}
  /\ inbound' = <<>> => Where'["coming"] = {}
  /\ at' = Idle => Where'["session"] = {Null}
  /\ (\A l \in Lanes : wire'[l] = <<>>) => Where'["wire"] = {}
  /\ adrift' = {} => Where'["adrift"] = {}
  /\ replies' = <<>> => Where'["replies"] = {}
  /\ outbound' = <<>> => Where'["outbound"] = {}
  /\ got' = {} => Where'["central"] = {}
BY Places8Next, InNone, TailsNone DEF Idle

\* What the daemons have is on one lane's connection.
LEMMA WireOf ==
  ASSUME NEW r, NEW l0 \in Lanes, r \in ToSet(wire[l0]), DaemonsOK, r \notin ToSet(wire'[l0]),
         \A l \in Lanes : l # l0 => wire'[l] = wire[l]
  PROVE  r \notin Where'["wire"]
<1>1. \A l \in Lanes : r \notin ToSet(wire'[l])
  BY DEF DaemonsOK
<1> QED BY <1>1, Places8Next

\* Daemons that are left with less.
LEMMA WireLess ==
  ASSUME \A l \in Lanes : ToSet(wire'[l]) \subseteq ToSet(wire[l])
  PROVE  Where'["wire"] \subseteq Where["wire"]
BY Places8, Places8Next

\* What a daemon says goes to the session's queue, or is dropped.
LEMMA Forwards ==
  ASSUME TypeOK, NEW line \in {Null} \cup Request, Forward(line)
  PROVE  /\ Where'["replies"] \subseteq Where["replies"] \cup {line}
         /\ Distinct(replies) /\ (line = Null \/ line \notin Where["replies"]) => Distinct(replies')
<1>1. replies \in Seq({Null} \cup Request)
  BY DEF TypeOK, StreamsOK
<1>2. replies' = replies \/ replies' = Append(replies, line)
  BY DEF Forward
<1>3. CASE replies' = replies
  BY <1>3, Places8, Places8Next
<1>4. CASE replies' = Append(replies, line)
  BY <1>1, <1>4, Places8, Places8Next, InAppend
<1> QED BY <1>2, <1>3, <1>4

\* The steps by which requests go from place to place.
LEMMA StepApart ==
  ASSUME IInv, Apart, DistinctOK, [Next]_vars
  PROVE  Apart'
<1>i. /\ TypeOK /\ StageOK /\ ChunksOK /\ DaemonsOK /\ AnswersOK /\ PartialOK
      /\ inbound \in Seq(Chunk) /\ replies \in Seq({Null} \cup Request)
      /\ outbound \in Seq({Null} \cup Request) /\ wire \in [Lanes -> Seq(Request)]
      /\ at.on \in {Null} \cup Request /\ Len(asked) \in Nat
  BY DEF IInv, TypeOK, RadioOK, StreamsOK, TaskOK, PoolOK
<1>d. /\ DistinctTails(inbound) /\ Distinct(replies) /\ Distinct(outbound)
      /\ \A l \in Lanes : Distinct(wire[l])
  BY DEF DistinctOK
<1>q. ASSUME UNCHANGED <<asked, inbound, wire, adrift, replies, outbound, got>>, at'.on = at.on
      PROVE  Apart'
  BY <1>q, PlacesKept, Leaves DEF Place
<1>e. ASSUME inbound' = <<>>, at' = Idle, \A l \in Lanes : wire'[l] = <<>>, adrift' = {},
             replies' = <<>>, outbound' \in {<<>>, outbound}, asked' \in {<<>>, asked}, got' \in {{}, got}
      PROVE  Apart'
  <2>1. \A p \in Place : Where'[p] \subseteq Where[p] \cup {Null}
    BY <1>e, PlacesKept, PlacesEmptied DEF Place
  <2> QED BY <2>1, Leaves
<1>1. CASE Subscribe
    BY <1>1, <1>e DEF Subscribe, NoSession
<1>2. CASE PumpDelivers
  <2>1. /\ outbound # <<>> /\ outbound' = Tail(outbound) /\ got' = got \cup ({Head(outbound)} \ {Null})
        /\ UNCHANGED <<asked, inbound, at, wire, adrift, replies>>
    BY <1>2 DEF PumpDelivers, upstreams
  <2>2. /\ ToSet(outbound') \subseteq ToSet(outbound) /\ Head(outbound) \in ToSet(outbound)
        /\ Head(outbound) = Null \/ Head(outbound) \notin ToSet(outbound')
    BY <2>1, <1>i, <1>d, InTail
  <2>3. Where'["outbound"] \subseteq Where["outbound"] /\ Where'["central"] \subseteq Where["central"] \cup {Head(outbound)}
    BY <2>1, <2>2, Places8, Places8Next
  <2> DEFINE r0 == Head(outbound)
  <2>n. r0 \in Where["outbound"] /\ (r0 = Null \/ r0 \notin Where'["outbound"])
    BY <2>1, <2>2, <2>3, Places8, Places8Next
  <2> HIDE DEF r0
  <2>m. \A p \in Place : /\ Where'[p] \subseteq Where[p] \cup {Null, r0}
                         /\ p = "central" \/ Where'[p] \subseteq Where[p] \cup {Null}
    BY <2>1, <2>2, <2>3, PlacesKept, PlacesEmptied DEF Place, r0
  <2>p. "outbound" \in Place /\ "central" \in Place
    BY DEF Place
  <2> QED BY <2>m, <2>n, <2>p, OneMoves
<1>3. CASE WriteTimesOut
  <2> DEFINE l0 == LaneOf(at.on)
             R == ToSet(wire[l0])
  <2>1. l0 \in Lanes
    BY <1>3, <1>i, ServedHasALane DEF WriteTimesOut, StageOK
  <2>2. /\ wire' = [wire EXCEPT ![l0] = <<>>] /\ adrift' = adrift \cup R /\ at'.on = at.on
        /\ UNCHANGED <<asked, inbound, replies, outbound, got>>
    BY <1>3 DEF WriteTimesOut, poolOthers, client, Stage
  <2> HIDE DEF l0
  <2>3. wire'[l0] = <<>> /\ \A l \in Lanes : l # l0 => wire'[l] = wire[l]
    BY <2>1, <2>2, <1>i
  <2>4. R \subseteq Where["wire"] /\ Where'["adrift"] = Where["adrift"] \cup R
    BY <2>1, <2>2, Places8, Places8Next
  <2>5. ToSet(wire'[l0]) = {} /\ \A l \in Lanes : ToSet(wire'[l]) \subseteq ToSet(wire[l])
    BY <2>3, InNone
  <2>6. Where'["wire"] \subseteq Where["wire"]
    BY <2>5, WireLess
  <2>o. \A r \in R : r \notin Where'["wire"]
    BY <2>1, <2>3, <2>5, <1>i, WireOf
  <2> HIDE DEF R
  <2>m. \A p \in Place : Where'[p] \subseteq Where[p] \cup {Null} \cup (IF p = "adrift" THEN R ELSE {})
    BY <2>2, <2>4, <2>6, PlacesKept DEF Place
  <2>p. "wire" \in Place /\ "adrift" \in Place
    BY DEF Place
  <2> QED BY <2>4, <2>m, <2>o, <2>p, Moves
<1>4. CASE TakeChunk
  <2> DEFINE r0 == Head(inbound).of
  <2>1. /\ inbound # <<>> /\ inbound' = Tail(inbound) /\ at = Idle
        /\ UNCHANGED <<asked, wire, adrift, replies, outbound, got>>
        /\ IF Head(inbound).half = "tail" THEN Dispatch(Append(buffer, Head(inbound))) ELSE at' = at
    BY <1>4 DEF TakeChunk, client, upstreams
  <2>2. /\ Where'["coming"] \subseteq Where["coming"]
        /\ Head(inbound).half = "tail" => /\ r0 \in Where["coming"]
                                          /\ r0 = Null \/ r0 \notin Where'["coming"]
    BY <2>1, <1>i, <1>d, TailsTail, Places8, Places8Next
  <2>3. CASE Head(inbound).half = "tail"
    <3>1. inbound # <<>> /\ Head(inbound) # Noise /\ Dispatch(Append(buffer, Head(inbound)))
      BY <1>4, <2>3 DEF TakeChunk
    <3>2. at'.on = Null \/ at'.on = r0
      BY <3>1, <1>i, Dispatches
    <3>3. Where'["session"] \subseteq {Null} \cup {r0}
      BY <3>2, Places8Next
    <3> HIDE DEF r0
    <3>m. \A p \in Place : /\ Where'[p] \subseteq Where[p] \cup {Null, r0}
                           /\ p = "session" \/ Where'[p] \subseteq Where[p] \cup {Null}
      BY <2>1, <2>2, <3>3, PlacesKept DEF Place
    <3>n. r0 \in Where["coming"] /\ (r0 = Null \/ r0 \notin Where'["coming"])
      BY <2>2, <2>3
    <3>p. "coming" \in Place /\ "session" \in Place
      BY DEF Place
    <3> QED BY <3>m, <3>n, <3>p, OneMoves
  <2>4. CASE Head(inbound).half # "tail"
    <3>1. at' = at
      BY <2>1, <2>4
    <3>m. \A p \in Place : Where'[p] \subseteq Where[p] \cup {Null}
      BY <2>1, <2>2, <3>1, PlacesKept DEF Place
    <3> QED BY <3>m, Leaves
  <2> QED BY <2>3, <2>4
<1>5. CASE TakeNoise
    BY <1>5, <1>e DEF TakeNoise, Return, client
<1>6. CASE TakeReply
  <2>1. /\ replies # <<>> /\ replies' = Tail(replies) /\ at'.on = Head(replies)
        /\ UNCHANGED <<asked, inbound, wire, adrift, outbound, got>>
    BY <1>6 DEF TakeReply, Stage, upstreams, client
  <2>2. /\ ToSet(replies') \subseteq ToSet(replies) /\ Head(replies) \in ToSet(replies)
        /\ Head(replies) = Null \/ Head(replies) \notin ToSet(replies')
    BY <2>1, <1>i, <1>d, InTail
  <2>3. Where'["replies"] \subseteq Where["replies"] /\ Where'["session"] = {Head(replies)}
    BY <2>1, <2>2, Places8, Places8Next
  <2> DEFINE r0 == Head(replies)
  <2>n. r0 \in Where["replies"] /\ (r0 = Null \/ r0 \notin Where'["replies"])
    BY <2>1, <2>2, <2>3, Places8, Places8Next
  <2> HIDE DEF r0
  <2>m. \A p \in Place : /\ Where'[p] \subseteq Where[p] \cup {Null, r0}
                         /\ p = "session" \/ Where'[p] \subseteq Where[p] \cup {Null}
    BY <2>1, <2>2, <2>3, PlacesKept, PlacesEmptied DEF Place, r0
  <2>p. "replies" \in Place /\ "session" \in Place
    BY DEF Place
  <2> QED BY <2>m, <2>n, <2>p, OneMoves
<1>7. CASE SendLine
  <2>1. /\ outbound' = Append(outbound, at.on) /\ at' = Idle /\ UNCHANGED <<asked, got>>
    BY <1>7 DEF SendLine, Return, client
  <2>2. \/ UNCHANGED <<inbound, wire, adrift, replies>>
        \/ inbound' = <<>> /\ replies' = <<>> /\ adrift' = {} /\ \A l \in Lanes : wire'[l] = <<>>
    BY <1>7 DEF SendLine, Return, upstreams
  <2>3. Where'["outbound"] = Where["outbound"] \cup {at.on}
    BY <2>1, <1>i, InAppend, Places8, Places8Next
  <2>4. /\ Where'["coming"] \subseteq Where["coming"] /\ Where'["wire"] \subseteq Where["wire"]
        /\ Where'["adrift"] \subseteq Where["adrift"] /\ Where'["replies"] \subseteq Where["replies"]
    BY <2>2, PlacesKept, PlacesEmptied
  <2> DEFINE r0 == at.on
  <2>n. r0 \in Where["session"] /\ (r0 = Null \/ r0 \notin Where'["session"])
    BY <2>1, <2>3, <2>4, Places8, Places8Next DEF Idle
  <2> HIDE DEF r0
  <2>m. \A p \in Place : /\ Where'[p] \subseteq Where[p] \cup {Null, r0}
                         /\ p = "outbound" \/ Where'[p] \subseteq Where[p] \cup {Null}
    BY <2>1, <2>3, <2>4, PlacesKept, PlacesEmptied DEF Place, r0
  <2>p. "session" \in Place /\ "outbound" \in Place
    BY DEF Place
  <2> QED BY <2>m, <2>n, <2>p, OneMoves
<1>8. CASE CheckPin
    BY <1>8, <1>q DEF CheckPin, Stage, client, upstreams
<1>9. CASE Connect
    BY <1>9, <1>q DEF Connect, Stage, poolOthers, client
<1>10. CASE Write
  <2> DEFINE r0 == at.on
             l0 == LaneOf(r0)
  <2>1. r0 \in Request /\ l0 \in Lanes
    BY <1>10, <1>i, ServedHasALane DEF Write, StageOK
  <2>2. /\ wire' = [wire EXCEPT ![l0] = Append(wire[l0], r0)] /\ at' = Idle
        /\ UNCHANGED <<asked, inbound, adrift, replies, outbound, got>>
    BY <1>10 DEF Write, poolOthers, client
  <2> HIDE DEF l0
  <2>3. ToSet(wire'[l0]) = ToSet(wire[l0]) \cup {r0} /\ \A l \in Lanes : l # l0 => wire'[l] = wire[l]
    BY <2>1, <2>2, <1>i, InAppend
  <2>4. \A l \in Lanes : ToSet(wire'[l]) \subseteq ToSet(wire[l]) \cup {r0}
    BY <2>3
  <2>5. Where'["wire"] \subseteq Where["wire"] \cup {r0}
    BY <2>4, Places8, Places8Next
  <2>6. Where["session"] = {r0} /\ Where'["session"] = {Null}
    BY <2>2, Places8, PlacesEmptied DEF r0
  <2> HIDE DEF r0
  <2>m. \A p \in Place : /\ Where'[p] \subseteq Where[p] \cup {Null, r0}
                         /\ p = "wire" \/ Where'[p] \subseteq Where[p] \cup {Null}
    BY <2>2, <2>5, <2>6, PlacesKept DEF Place
  <2>n. r0 \in Where["session"] /\ (r0 = Null \/ r0 \notin Where'["session"])
    BY <2>6
  <2>p. "session" \in Place /\ "wire" \in Place
    BY DEF Place
  <2> QED BY <2>m, <2>n, <2>p, OneMoves
<1>11. CASE WriteIntoDead
    BY <1>11, <1>q DEF WriteIntoDead, Stage, poolOthers, client
<1>12. CASE \E l \in Lanes : Answer(l)
  <2>0. PICK l \in Lanes : Answer(l)
    BY <1>12
  <2> DEFINE r0 == Head(wire[l])
  <2>1. /\ wire[l] # <<>> /\ wire' = [wire EXCEPT ![l] = Tail(wire[l])] /\ Forward(r0)
        /\ UNCHANGED <<asked, inbound, at, adrift, outbound, got>>
    BY <2>0 DEF Answer, daemonOthers, client
  <2>2. /\ r0 \in Request /\ r0 \in ToSet(wire[l]) /\ ToSet(wire'[l]) \subseteq ToSet(wire[l])
        /\ r0 = Null \/ r0 \notin ToSet(wire'[l])
        /\ \A k \in Lanes : k # l => wire'[k] = wire[k]
    BY <2>1, <1>i, <1>d, InTail
  <2> HIDE DEF r0
  <2>3. Where'["wire"] \subseteq Where["wire"]
    BY <2>2, WireLess
  <2>4. Where'["replies"] \subseteq Where["replies"] \cup {r0}
    BY <2>1, <2>2, <1>i, Forwards
  <2>m. \A p \in Place : /\ Where'[p] \subseteq Where[p] \cup {Null, r0}
                         /\ p = "replies" \/ Where'[p] \subseteq Where[p] \cup {Null}
    BY <2>1, <2>3, <2>4, PlacesKept DEF Place
  <2>n. r0 \in Where["wire"]
    BY <2>2, Places8
  <2>o. r0 = Null \/ r0 \notin Where'["wire"]
    BY <2>2, <1>i, WireOf
  <2>p. "wire" \in Place /\ "replies" \in Place
    BY DEF Place
  <2> QED BY <2>m, <2>n, <2>o, <2>p, OneMoves
<1>13. CASE \E l \in Lanes : Notify(l)
  <2>0. PICK l \in Lanes : Notify(l)
    BY <1>13
  <2>1. Forward(Null) /\ UNCHANGED <<asked, inbound, at, wire, adrift, outbound, got>>
    BY <2>0 DEF Notify, daemonOthers, client
  <2>2. Where'["replies"] \subseteq Where["replies"] \cup {Null}
    BY <2>1, <1>i, Forwards
  <2>m. \A p \in Place : Where'[p] \subseteq Where[p] \cup {Null}
    BY <2>1, <2>2, PlacesKept DEF Place
  <2> QED BY <2>m, Leaves
<1>14. CASE \E r \in adrift : AnswerAdrift(r)
  <2>0. PICK r \in adrift : AnswerAdrift(r)
    BY <1>14
  <2>1. /\ adrift' = adrift \ {r} /\ Forward(r) /\ r \in Request
        /\ UNCHANGED <<asked, inbound, at, wire, outbound, got>>
    BY <2>0, <1>i DEF AnswerAdrift, daemonOthers, client, TypeOK, PoolOK
  <2>2. Where'["replies"] \subseteq Where["replies"] \cup {r} /\ Where'["adrift"] = Where["adrift"] \ {r}
    BY <2>1, <1>i, Forwards, Places8, Places8Next
  <2>m. \A p \in Place : /\ Where'[p] \subseteq Where[p] \cup {Null, r}
                         /\ p = "replies" \/ Where'[p] \subseteq Where[p] \cup {Null}
    BY <2>1, <2>2, PlacesKept DEF Place
  <2>n. r \in Where["adrift"] /\ (r = Null \/ r \notin Where'["adrift"])
    BY <2>2, Places8
  <2>p. "adrift" \in Place /\ "replies" \in Place
    BY DEF Place
  <2> QED BY <2>m, <2>n, <2>p, OneMoves
<1>15. CASE \E l \in Lanes : Restart(Service[l])
  <2>0. PICK l0 \in Lanes : Restart(Service[l0])
    BY <1>15
  <2>1. adrift' \subseteq adrift /\ UNCHANGED <<asked, inbound, at, replies, outbound, got>>
    BY <2>0 DEF Restart, client
  <2>2. \A k \in Lanes : wire'[k] = <<>> \/ wire'[k] = wire[k]
    BY <2>0 DEF Restart
  <2>3. \A k \in Lanes : ToSet(wire'[k]) \subseteq ToSet(wire[k])
    BY <2>2, InNone
  <2>4. Where'["wire"] \subseteq Where["wire"] /\ Where'["adrift"] \subseteq Where["adrift"]
    BY <2>1, <2>3, WireLess, Places8, Places8Next
  <2>m. \A p \in Place : Where'[p] \subseteq Where[p] \cup {Null}
    BY <2>1, <2>4, PlacesKept DEF Place
  <2> QED BY <2>m, Leaves
<1>16. CASE SetPin
    BY <1>16, <1>q DEF SetPin, subscription, client, gate, upstreams, world
<1>17. CASE \E s \in Sub : Leave(s)
    BY <1>17, <1>q DEF Leave, subscription, client, gate, upstreams, world
<1>18. CASE \E s \in Sub : WriteTail(s)
  <2>0. PICK s \in Sub : WriteTail(s)
    BY <1>18
  <2> DEFINE r0 == partial[s]
             new == [by |-> s, of |-> r0, half |-> "tail"]
  <2>1. /\ inbound' = Append(inbound, new) /\ r0 # Null
        /\ UNCHANGED <<at, wire, adrift, replies, outbound, got>>
    BY <2>0 DEF WriteTail, Accepts, upstreams
  <2>2. r0 \in Request /\ r0 \in 1..Len(asked) /\ ~asked[r0].whole
    BY <2>1, <1>i DEF TypeOK, RadioOK, PartialOK
  <2>3. /\ Len(asked') = Len(asked)
        /\ \A r \in 1..Len(asked) : asked'[r].whole = (r = r0 \/ asked[r].whole)
    BY <2>0, <1>i, TailSameCalls
  <2>4. new \in Chunk /\ new.of = r0 /\ new.half = "tail"
    BY <2>2 DEF Chunk, Half
  <2> HIDE DEF new, r0
  <2>5. Tails(inbound') = Tails(inbound) \cup {r0}
    BY <2>1, <2>4, <1>i, TailsAppend
  <2>6. Where'["unwritten"] = Where["unwritten"] \ {r0} /\ r0 \in Where["unwritten"]
    BY <2>2, <2>3, Places8, Places8Next
  <2>7. Where'["coming"] = Where["coming"] \cup {r0}
    BY <2>5, Places8, Places8Next
  <2>m. \A p \in Place : /\ Where'[p] \subseteq Where[p] \cup {Null, r0}
                         /\ p = "coming" \/ Where'[p] \subseteq Where[p] \cup {Null}
    BY <2>1, <2>6, <2>7, PlacesKept DEF Place
  <2>p. "unwritten" \in Place /\ "coming" \in Place
    BY DEF Place
  <2> QED BY <2>6, <2>m, <2>p, OneMoves
<1>19. CASE \E s \in Sub : WriteNoise(s)
  <2>0. PICK s \in Sub : WriteNoise(s)
    BY <1>19
  <2>1. inbound' = Append(inbound, Noise) /\ UNCHANGED <<asked, at, wire, adrift, replies, outbound, got>>
    BY <2>0 DEF WriteNoise, Accepts, upstreams
  <2>2. Noise \in Chunk /\ Noise.of = Null
    BY DEF Chunk, Noise
  <2>3. Tails(inbound') \subseteq Tails(inbound) \cup {Null}
    BY <2>1, <2>2, <1>i, TailsAppend
  <2>4. Where'["coming"] \subseteq Where["coming"] \cup {Null}
    BY <2>3, Places8, Places8Next
  <2>m. \A p \in Place : Where'[p] \subseteq Where[p] \cup {Null}
    BY <2>1, <2>4, PlacesKept DEF Place
  <2> QED BY <2>m, Leaves
<1>20. CASE \E s \in Sub : \E call \in Call : WriteHead(s, call)
  <2>0. PICK s \in Sub, call \in Call : WriteHead(s, call)
    BY <1>20
  <2> DEFINE r0 == Len(asked')
             new == [by |-> s, of |-> r0, half |-> "head"]
  <2>1. inbound' = Append(inbound, new) /\ UNCHANGED <<at, wire, adrift, replies, outbound, got>>
    BY <2>0 DEF WriteHead, Accepts, upstreams
  <2>2. r0 \in Request /\ r0 = Len(asked) + 1 /\ \A r \in 1..Len(asked) : asked'[r] = asked[r]
    BY <2>0, <1>i, Grows
  <2>3. new \in Chunk /\ new.half # "tail"
    BY <2>2 DEF Chunk, Half
  <2> HIDE DEF new
  <2>a. Tails(inbound') = Tails(inbound)
    BY <2>1, <2>3, <1>i, TailsAppend
  <2>4. Where'["coming"] = Where["coming"]
    BY <2>a, Places8, Places8Next
  <2>5. Where'["unwritten"] \subseteq Where["unwritten"] \cup {r0}
    <3>1. \A r \in 1..r0 : r = r0 \/ r \in 1..Len(asked)
      BY <2>2, <1>i
    <3> QED BY <3>1, <2>2, Places8, Places8Next
  <2>6. r0 \notin 0..Len(asked)
    BY <2>2, <1>i
  <2>7. \A p \in Place : r0 \notin Where[p]
    <3>1. r0 \notin Where["unwritten"] /\ r0 \notin Where["session"]
      BY <2>6, <1>i, Places8 DEF StageOK
    <3>2. r0 \notin Where["wire"] /\ r0 \notin Where["adrift"]
      BY <2>6, <1>i, Places8 DEF DaemonsOK, Served
    <3>3. r0 \notin Where["replies"] /\ r0 \notin Where["outbound"] /\ r0 \notin Where["central"]
      BY <2>6, <1>i, Places8 DEF AnswersOK
    <3>4. r0 # Null /\ Noise.of = Null
      BY <2>2 DEF Null, Request, Noise
    <3>5. \A chunk \in ToSet(inbound) : chunk.of # r0
      BY <2>6, <3>4, <1>i DEF ChunksOK, ChunkOK
    <3>6. r0 \notin Where["coming"]
      BY <3>5, Places8 DEF Tails
    <3> QED BY <3>1, <3>2, <3>3, <3>6 DEF Place
  <2> HIDE DEF r0
  <2>m. \A p \in Place : /\ Where'[p] \subseteq Where[p] \cup {Null, r0}
                         /\ p = "unwritten" \/ Where'[p] \subseteq Where[p] \cup {Null}
    BY <2>1, <2>4, <2>5, PlacesKept DEF Place
  <2> QED BY <2>m, <2>7, OneJoins
<1>21. CASE \E s \in Sub : PumpEnds(s)
  <2>0. PICK s \in Sub : PumpEnds(s)
    BY <1>21
  <2>1. \/ UNCHANGED <<asked, inbound, at, wire, adrift, replies, outbound, got>>
        \/ /\ inbound' = <<>> /\ at' = Idle /\ wire' = [l \in Lanes |-> <<>>] /\ adrift' = {}
           /\ replies' = <<>> /\ outbound' = <<>> /\ UNCHANGED <<asked, got>>
    BY <2>0 DEF PumpEnds, NoSession, client, upstreams
  <2> QED BY <2>1, <1>q, <1>e
<1>22. CASE UNCHANGED vars
    BY <1>22, <1>q DEF vars, subscription, client, gate, upstreams, world
<1> QED BY <1>1, <1>2, <1>3, <1>4, <1>5, <1>6, <1>7, <1>8, <1>9, <1>10, <1>11, <1>12, <1>13,
       <1>14, <1>15, <1>16, <1>17, <1>18, <1>19, <1>20, <1>21, <1>22, NextActions

\* No queue names a request twice.
LEMMA StepDistinct ==
  ASSUME IInv, Apart, DistinctOK, [Next]_vars
  PROVE  DistinctOK'
<1>i. /\ TypeOK /\ StageOK /\ DaemonsOK /\ PartialOK
      /\ inbound \in Seq(Chunk) /\ replies \in Seq({Null} \cup Request)
      /\ outbound \in Seq({Null} \cup Request) /\ wire \in [Lanes -> Seq(Request)]
      /\ at.on \in {Null} \cup Request
  BY DEF IInv, TypeOK, RadioOK, StreamsOK, TaskOK, PoolOK
<1>d. /\ DistinctTails(inbound) /\ Distinct(replies) /\ Distinct(outbound)
      /\ \A l \in Lanes : Distinct(wire[l])
  BY DEF DistinctOK
<1>q. ASSUME UNCHANGED <<inbound, wire, replies, outbound>>
      PROVE  DistinctOK'
  BY <1>q DEF DistinctOK
<1>e. ASSUME inbound' = <<>>, \A l \in Lanes : wire'[l] = <<>>,
             replies' = <<>>, Distinct(outbound')
      PROVE  DistinctOK'
  BY <1>e, InNone, TailsNone DEF DistinctOK
<1>1. CASE Subscribe
    BY <1>1, <1>e, InNone DEF Subscribe, NoSession
<1>2. CASE PumpDelivers
  <2>1. outbound # <<>> /\ outbound' = Tail(outbound) /\ UNCHANGED <<inbound, wire, replies>>
    BY <1>2 DEF PumpDelivers, upstreams
  <2>2. Distinct(outbound')
    BY <2>1, <1>i, <1>d, InTail
  <2> QED BY <2>1, <2>2, <1>d DEF DistinctOK
<1>3. CASE WriteTimesOut
  <2> DEFINE l0 == LaneOf(at.on)
  <2>1. wire' = [wire EXCEPT ![l0] = <<>>] /\ UNCHANGED <<inbound, replies, outbound>>
    BY <1>3 DEF WriteTimesOut, poolOthers
  <2> HIDE DEF l0
  <2>2. \A l \in Lanes : wire'[l] = <<>> \/ wire'[l] = wire[l]
    BY <2>1, <1>i
  <2> QED BY <2>1, <2>2, <1>d, InNone DEF DistinctOK
<1>4. CASE TakeChunk
  <2>1. inbound # <<>> /\ inbound' = Tail(inbound) /\ UNCHANGED <<wire, replies, outbound>>
    BY <1>4 DEF TakeChunk, upstreams
  <2>2. DistinctTails(inbound')
    BY <2>1, <1>i, <1>d, TailsTail
  <2> QED BY <2>1, <2>2, <1>d DEF DistinctOK
<1>5. CASE TakeNoise
    BY <1>5, <1>e, <1>d DEF TakeNoise, Return
<1>6. CASE TakeReply
  <2>1. replies # <<>> /\ replies' = Tail(replies) /\ UNCHANGED <<inbound, wire, outbound>>
    BY <1>6 DEF TakeReply, upstreams
  <2>2. Distinct(replies')
    BY <2>1, <1>i, <1>d, InTail
  <2> QED BY <2>1, <2>2, <1>d DEF DistinctOK
<1>7. CASE SendLine
  <2>1. outbound' = Append(outbound, at.on)
    BY <1>7 DEF SendLine
  <2>2. at.on = Null \/ at.on \notin ToSet(outbound)
    <3>1. "session" \in Place /\ "outbound" \in Place /\ "session" # "outbound"
      BY DEF Place
    <3>2. at.on \in Where["session"] /\ Where["outbound"] = ToSet(outbound)
      BY Places8
    <3> QED BY <3>1, <3>2 DEF Apart
  <2>3. Distinct(outbound')
    BY <2>1, <2>2, <1>i, <1>d, InAppend
  <2>4. UNCHANGED <<inbound, wire, replies>> \/ (inbound' = <<>> /\ replies' = <<>> /\ \A l \in Lanes : wire'[l] = <<>>)
    BY <1>7 DEF SendLine, Return, upstreams
  <2>5. CASE UNCHANGED <<inbound, wire, replies>>
    BY <2>3, <2>5, <1>d DEF DistinctOK
  <2> QED BY <2>3, <2>4, <2>5, <1>e
<1>8. CASE CheckPin
    BY <1>8, <1>q DEF CheckPin, upstreams
<1>9. CASE Connect
    BY <1>9, <1>q DEF Connect, Stage, Connection, poolOthers, subscription, client, gate,
       upstreams, world
<1>10. CASE Write
  <2> DEFINE r0 == at.on
             l0 == LaneOf(r0)
  <2>1. r0 \in Request /\ l0 \in Lanes
    BY <1>10, <1>i, ServedHasALane DEF Write, StageOK
  <2>2. wire' = [wire EXCEPT ![l0] = Append(wire[l0], r0)] /\ UNCHANGED <<inbound, replies, outbound>>
    BY <1>10 DEF Write, poolOthers
  <2>3. r0 = Null \/ r0 \notin ToSet(wire[l0])
    <3>1. "session" \in Place /\ "wire" \in Place /\ "session" # "wire"
      BY DEF Place
    <3>2. r0 \in Where["session"] /\ ToSet(wire[l0]) \subseteq Where["wire"]
      BY <2>1, Places8
    <3> QED BY <3>1, <3>2 DEF Apart
  <2> HIDE DEF l0, r0
  <2>4. Distinct(Append(wire[l0], r0))
    BY <2>1, <2>3, <1>i, <1>d, InAppend
  <2>5. \A l \in Lanes : wire'[l] = wire[l] \/ wire'[l] = Append(wire[l0], r0)
    BY <2>1, <2>2, <1>i
  <2> QED BY <2>2, <2>4, <2>5, <1>d DEF DistinctOK
<1>11. CASE WriteIntoDead
    BY <1>11, <1>q DEF WriteIntoDead, poolOthers, Stage, Connection, subscription, client, gate,
       upstreams, world
<1>12. CASE \E l \in Lanes : Answer(l)
  <2>0. PICK l \in Lanes : Answer(l)
    BY <1>12
  <2> DEFINE r0 == Head(wire[l])
  <2>1. /\ wire[l] # <<>> /\ wire' = [wire EXCEPT ![l] = Tail(wire[l])] /\ Forward(r0)
        /\ UNCHANGED <<inbound, outbound>>
    BY <2>0 DEF Answer, daemonOthers
  <2>2. r0 \in Request /\ r0 \in ToSet(wire[l]) /\ Distinct(Tail(wire[l]))
    BY <2>1, <1>i, <1>d, InTail
  <2>3. r0 = Null \/ r0 \notin Where["replies"]
    <3>1. "replies" \in Place /\ "wire" \in Place /\ "replies" # "wire"
      BY DEF Place
    <3>2. r0 \in Where["wire"]
      BY <2>2, Places8
    <3> QED BY <3>1, <3>2 DEF Apart
  <2> HIDE DEF r0
  <2>4. Distinct(replies')
    BY <2>1, <2>2, <2>3, <1>i, <1>d, Forwards
  <2>5. \A k \in Lanes : wire'[k] = wire[k] \/ wire'[k] = Tail(wire[l])
    BY <2>1, <1>i
  <2> QED BY <2>1, <2>2, <2>4, <2>5, <1>d DEF DistinctOK
<1>13. CASE \E l \in Lanes : Notify(l)
  <2>0. PICK l \in Lanes : Notify(l)
    BY <1>13
  <2>1. Forward(Null) /\ UNCHANGED <<inbound, wire, outbound>>
    BY <2>0 DEF Notify, daemonOthers
  <2>2. Distinct(replies')
    BY <2>1, <1>i, <1>d, Forwards
  <2> QED BY <2>1, <2>2, <1>d DEF DistinctOK
<1>14. CASE \E r \in adrift : AnswerAdrift(r)
  <2>0. PICK r \in adrift : AnswerAdrift(r)
    BY <1>14
  <2>1. r \in Request /\ Forward(r) /\ UNCHANGED <<inbound, wire, outbound>>
    BY <2>0, <1>i DEF AnswerAdrift, daemonOthers, TypeOK, PoolOK
  <2>2. r = Null \/ r \notin Where["replies"]
    <3>1. "replies" \in Place /\ "adrift" \in Place /\ "replies" # "adrift"
      BY DEF Place
    <3>2. r \in Where["adrift"]
      BY <2>0, Places8 DEF AnswerAdrift
    <3> QED BY <3>1, <3>2 DEF Apart
  <2>3. Distinct(replies')
    BY <2>1, <2>2, <1>i, <1>d, Forwards
  <2> QED BY <2>1, <2>3, <1>d DEF DistinctOK
<1>15. CASE \E l \in Lanes : Restart(Service[l])
  <2>0. PICK l0 \in Lanes : Restart(Service[l0])
    BY <1>15
  <2>1. UNCHANGED <<inbound, replies, outbound>> /\ \A k \in Lanes : wire'[k] = <<>> \/ wire'[k] = wire[k]
    BY <2>0 DEF Restart
  <2> QED BY <2>1, <1>d, InNone DEF DistinctOK
<1>16. CASE SetPin
    BY <1>16, <1>q DEF SetPin, subscription, client, gate, upstreams, world
<1>17. CASE \E s \in Sub : Leave(s)
    BY <1>17, <1>q DEF Leave, subscription, client, gate, upstreams, world
<1>18. CASE \E s \in Sub : WriteTail(s)
  <2>0. PICK s \in Sub : WriteTail(s)
    BY <1>18
  <2> DEFINE r0 == partial[s]
             new == [by |-> s, of |-> r0, half |-> "tail"]
  <2>1. inbound' = Append(inbound, new) /\ r0 # Null /\ UNCHANGED <<wire, replies, outbound>>
    BY <2>0 DEF WriteTail, Accepts, upstreams
  <2>2. r0 \in Request /\ r0 \in 1..Len(asked) /\ ~asked[r0].whole
    BY <2>1, <1>i DEF TypeOK, RadioOK, PartialOK
  <2>3. r0 \notin Tails(inbound)
    <3>1. "unwritten" \in Place /\ "coming" \in Place /\ "unwritten" # "coming"
      BY DEF Place
    <3>2. r0 \in Where["unwritten"] /\ Where["coming"] = Tails(inbound)
      BY <2>2, Places8
    <3> QED BY <3>1, <3>2, <2>1 DEF Apart
  <2>4. new \in Chunk /\ new.of = r0
    BY <2>2 DEF Chunk, Half
  <2> HIDE DEF new, r0
  <2>5. DistinctTails(inbound')
    BY <2>1, <2>3, <2>4, <1>i, <1>d, TailsAppend
  <2> QED BY <2>1, <2>5, <1>d DEF DistinctOK
<1>19. CASE \E s \in Sub : WriteNoise(s)
  <2>0. PICK s \in Sub : WriteNoise(s)
    BY <1>19
  <2>1. inbound' = Append(inbound, Noise) /\ UNCHANGED <<wire, replies, outbound>>
    BY <2>0 DEF WriteNoise, Accepts, upstreams
  <2>2. Noise \in Chunk /\ Noise.of = Null
    BY DEF Chunk, Noise
  <2>3. DistinctTails(inbound')
    BY <2>1, <2>2, <1>i, <1>d, TailsAppend
  <2> QED BY <2>1, <2>3, <1>d DEF DistinctOK
<1>20. CASE \E s \in Sub : \E call \in Call : WriteHead(s, call)
  <2>0. PICK s \in Sub, call \in Call : WriteHead(s, call)
    BY <1>20
  <2> DEFINE new == [by |-> s, of |-> Len(asked'), half |-> "head"]
  <2>1. inbound' = Append(inbound, new) /\ UNCHANGED <<wire, replies, outbound>>
    BY <2>0 DEF WriteHead, Accepts, upstreams
  <2>2. Len(asked') \in Request
    BY <2>0, <1>i, Grows
  <2>3. new \in Chunk /\ new.half # "tail"
    BY <2>2 DEF Chunk, Half
  <2> HIDE DEF new
  <2>4. DistinctTails(inbound')
    BY <2>1, <2>3, <1>i, <1>d, TailsAppend
  <2> QED BY <2>1, <2>4, <1>d DEF DistinctOK
<1>21. CASE \E s \in Sub : PumpEnds(s)
  <2>0. PICK s \in Sub : PumpEnds(s)
    BY <1>21
  <2>1. \/ UNCHANGED <<inbound, wire, replies, outbound>>
        \/ /\ inbound' = <<>> /\ wire' = [l \in Lanes |-> <<>>]
           /\ replies' = <<>> /\ outbound' = <<>>
    BY <2>0 DEF PumpEnds, NoSession, upstreams
  <2> QED BY <2>1, <1>q, <1>e, InNone
<1>22. CASE UNCHANGED vars
    BY <1>22, <1>q DEF vars, subscription, client, gate, upstreams, world
<1> QED BY <1>1, <1>2, <1>3, <1>4, <1>5, <1>6, <1>7, <1>8, <1>9, <1>10, <1>11, <1>12, <1>13,
       <1>14, <1>15, <1>16, <1>17, <1>18, <1>19, <1>20, <1>21, <1>22, NextActions

\* A request that has a place in the session, at a daemon or on its way back has one.
LEMMA OnePlace ==
  ASSUME IInv, Apart, DistinctOK
  PROVE  AnsweredOnce
<1>i. /\ replies \in Seq({Null} \cup Request) /\ outbound \in Seq({Null} \cup Request)
      /\ wire \in [Lanes -> Seq(Request)] /\ DaemonsOK
  BY DEF IInv, TypeOK, StreamsOK, PoolOK
<1> SUFFICES ASSUME NEW r \in 1..Len(asked), NEW p \in Places(r), NEW q \in Places(r)
             PROVE  p = q
  BY DEF AnsweredOnce
<1>n. r # Null
  BY DEF Null
<1> DEFINE
      Single(x) == \/ x = <<"session", 0>> /\ r \in Where["session"]
                   \/ x = <<"adrift", 0>> /\ r \in Where["adrift"]
                   \/ x = <<"central", 0>> /\ r \in Where["central"]
      InReplies(x) == \E i \in 1..Len(replies) : replies[i] = r /\ x = <<"replies", i>>
      InOutbound(x) == \E i \in 1..Len(outbound) : outbound[i] = r /\ x = <<"outbound", i>>
      OnWire(x) == \E l \in Lanes : \E i \in 1..Len(wire[l]) : wire[l][i] = r /\ x = <<l, i>>
<1>1. \A x \in Places(r) : Single(x) \/ InReplies(x) \/ InOutbound(x) \/ OnWire(x)
  BY Places8 DEF Places
<1>2. /\ \A x : InReplies(x) => r \in Where["replies"]
      /\ \A x : InOutbound(x) => r \in Where["outbound"]
    BY <1>i, Places8, InSeq
<1>3. \A x : OnWire(x) => r \in Where["wire"]
  <2>1. \A l \in Lanes : \A i \in 1..Len(wire[l]) : wire[l][i] \in ToSet(wire[l])
    BY <1>i, InSeq
  <2> QED BY <2>1, Places8
<1>4. \A a \in Place : \A b \in Place : r \in Where[a] /\ r \in Where[b] => a = b
  BY <1>n DEF Apart
<1>5. Single(p) /\ Single(q) => p = q
  BY <1>4 DEF Place
<1>6. InReplies(p) /\ InReplies(q) => p = q
  BY <1>n DEF DistinctOK, Distinct
<1>7. InOutbound(p) /\ InOutbound(q) => p = q
  BY <1>n DEF DistinctOK, Distinct
<1>8. OnWire(p) /\ OnWire(q) => p = q
  <2> SUFFICES ASSUME NEW l \in Lanes, NEW i \in 1..Len(wire[l]), wire[l][i] = r, p = <<l, i>>,
                      NEW k \in Lanes, NEW j \in 1..Len(wire[k]), wire[k][j] = r, q = <<k, j>>
               PROVE  p = q
    OBVIOUS
  <2>1. r \in ToSet(wire[l]) /\ r \in ToSet(wire[k])
    BY <1>i, InSeq
  <2>2. l = k
    BY <2>1, <1>i DEF DaemonsOK
  <2>3. i = j
    BY <2>2, <1>n DEF DistinctOK, Distinct
  <2> QED BY <2>2, <2>3
<1>9. /\ "session" \in Place /\ "adrift" \in Place /\ "central" \in Place
      /\ "replies" \in Place /\ "outbound" \in Place /\ "wire" \in Place
  BY DEF Place
<1>10. /\ Single(p) => ~InReplies(q) /\ ~InOutbound(q) /\ ~OnWire(q)
       /\ Single(q) => ~InReplies(p) /\ ~InOutbound(p) /\ ~OnWire(p)
  BY <1>2, <1>3, <1>4, <1>9
<1>11. /\ InReplies(p) => ~InOutbound(q) /\ ~OnWire(q)
       /\ InReplies(q) => ~InOutbound(p) /\ ~OnWire(p)
  BY <1>2, <1>3, <1>4, <1>9
<1>12. (InOutbound(p) => ~OnWire(q)) /\ (InOutbound(q) => ~OnWire(p))
  BY <1>2, <1>3, <1>4, <1>9
<1> HIDE DEF Single, InReplies, InOutbound, OnWire
<1> QED BY <1>1, <1>5, <1>6, <1>7, <1>8, <1>10, <1>11, <1>12

\* At the start nothing has a place but the session's empty hand.
LEMMA InitApart == Init => Apart /\ DistinctOK
<1> SUFFICES ASSUME Init PROVE Apart /\ DistinctOK
  OBVIOUS
<1>1. /\ asked = <<>> /\ inbound = <<>> /\ at.on = Null /\ adrift = {} /\ replies = <<>>
      /\ outbound = <<>> /\ got = {} /\ \A l \in Lanes : wire[l] = <<>>
  BY DEF Init, Idle
<1>2. \A p \in Place : Where[p] \subseteq {Null}
  BY <1>1, Places8, InNone, TailsNone DEF Place
<1>3. Apart
  BY <1>2 DEF Apart
<1>4. DistinctOK
  BY <1>1, InNone, TailsNone DEF DistinctOK
<1> QED BY <1>3, <1>4

\* A request is in one place at a time, so that it is sent to one daemon once and answered
\* once, whatever write times out, whichever daemon restarts, however many centrals come and
\* go (upstream.rs, the one retry of `send`).
THEOREM OnceAnswered == Spec => []AnsweredOnce
<1>1. IInv /\ Apart /\ DistinctOK /\ [Next]_vars => (Apart /\ DistinctOK)'
  BY StepApart, StepDistinct
<1>2. IInv /\ Apart /\ DistinctOK => AnsweredOnce
  BY OnePlace
<1> QED BY InitApart, Invariance, <1>1, <1>2, PTL DEF Spec

\* While one central at a time is subscribed, a session's lines are its central's own, each in
\* one place, and writes go to the newest session (bluez.rs, "nothing from a previous central
\* can leak into this one" and "only clear the slot if it is still ours").
THEOREM LinesOwned == "together" \notin Habits => (Spec => []LinesAreOwn)
<1> SUFFICES ASSUME "together" \notin Habits PROVE Spec => []LinesAreOwn
  OBVIOUS
<1>1. Init => OwnOK /\ SlotIsNewest
  BY InNone DEF Init, OwnOK, SlotIsNewest
<1>2. IInv /\ OwnOK /\ SlotIsNewest /\ [Next]_vars => (OwnOK /\ SlotIsNewest)'
  BY StepOwn, StepSlot DEF IInv
<1>3. ASSUME IInv, OwnOK PROVE OwnLines
  <2>1. inbound \in Seq(Chunk) /\ buffer \in Seq(Chunk)
    BY <1>3 DEF IInv, TypeOK, StreamsOK
  <2>2. \A i \in 1..Len(inbound \o buffer) : (inbound \o buffer)[i] \in ToSet(inbound) \cup ToSet(buffer)
    <3> SUFFICES ASSUME NEW i \in 1..Len(inbound \o buffer)
                 PROVE  (inbound \o buffer)[i] \in ToSet(inbound) \cup ToSet(buffer)
      OBVIOUS
    <3>1. /\ Len(inbound) \in Nat /\ Len(buffer) \in Nat
          /\ Len(inbound \o buffer) = Len(inbound) + Len(buffer)
      BY <2>1
    <3>2. CASE i <= Len(inbound)
      <4>1. i \in 1..Len(inbound) /\ (inbound \o buffer)[i] = inbound[i]
        BY <3>1, <3>2, <2>1
      <4> QED BY <4>1, <2>1, InSeq
    <3>3. CASE i > Len(inbound)
      <4>1. i - Len(inbound) \in 1..Len(buffer) /\ (inbound \o buffer)[i] = buffer[i - Len(inbound)]
        BY <3>1, <3>3, <2>1
      <4> QED BY <4>1, <2>1, InSeq
    <3> QED BY <3>1, <3>2, <3>3
  <2>3. inbound \o buffer \in Seq(Chunk)
    BY <2>1
  <2>4. ToSet(inbound \o buffer) \subseteq ToSet(inbound) \cup ToSet(buffer)
    <3> DEFINE all == inbound \o buffer
    <3>1. all \in Seq(Chunk) /\ \A i \in 1..Len(all) : all[i] \in ToSet(inbound) \cup ToSet(buffer)
      BY <2>2, <2>3
    <3> HIDE DEF all
    <3>2. \A x \in ToSet(all) : \E i \in 1..Len(all) : all[i] = x
      BY <3>1, InSeq
    <3>3. ToSet(all) \subseteq ToSet(inbound) \cup ToSet(buffer)
      BY <3>1, <3>2
    <3> QED BY <3>3 DEF all
  <2> QED BY <2>4, <1>3 DEF OwnOK, OwnLines
<1>4. AnsweredOnce /\ OwnLines /\ SlotIsNewest => LinesAreOwn
  BY DEF LinesAreOwn
<1> QED BY <1>1, <1>2, <1>3, <1>4, Invariance, OnceAnswered, PTL DEF Spec

=============================================================================

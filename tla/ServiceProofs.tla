--------------------------- MODULE ServiceProofs ---------------------------
(***************************************************************************)
(* Proofs about Service: what is applied with no client attached was       *)
(* vetted, and progress is told in order and to the end.                   *)
(***************************************************************************)
EXTENDS Service, SequenceTheorems, TLAPS

USE ServiceAssumption

-----------------------------------------------------------------------------
(* Queues of lines.                                                        *)

UpTo(a, b) == a = b \/ Before(a, b)
Rising(queue) == \A i \in 1..Len(queue) : \A j \in 1..Len(queue) :
                    i < j => Before(queue[i], queue[j])

\* A client that has seen `seen` and is to be shown `queue`, when the last line passed
\* on is `last`: what it is shown next is newer, and nothing is newer than `last`.
Told(seen, queue, last) ==
    /\ Rising(queue)
    /\ \A i \in 1..Len(queue) : /\ last # None /\ UpTo(queue[i], last)
                                /\ seen # None => Before(seen, queue[i])
    /\ seen # None => last # None /\ UpTo(seen, last)

\* Progress is ordered: lines of one update by number, updates by theirs.
LEMMA Order ==
  ASSUME NEW a \in Line, NEW b \in Line, NEW c \in Line
  PROVE  /\ Before(a, b) /\ UpTo(b, c) => Before(a, c)
         /\ UpTo(a, b) /\ Before(b, c) => Before(a, c)
         /\ ~Before(a, a)
BY DEF Line, Before, UpTo

\* A client that is shown the head of its queue is to be shown the rest.
LEMMA ToldShow ==
  ASSUME NEW seen \in Line \cup {None}, NEW queue \in Seq(Line), NEW last \in Line \cup {None},
         Told(seen, queue, last), queue # <<>>
  PROVE  /\ Told(Head(queue), Tail(queue), last)
         /\ seen # None => Before(seen, Head(queue))
         /\ Head(queue) \in Line /\ Tail(queue) \in Seq(Line)
<1>1. /\ Len(queue) \in Nat /\ Len(queue) >= 1
      /\ Head(queue) = queue[1] /\ Head(queue) \in Line
      /\ Tail(queue) \in Seq(Line) /\ Len(Tail(queue)) = Len(queue) - 1
      /\ \A i \in 1..Len(Tail(queue)) : Tail(queue)[i] = queue[i + 1]
  OBVIOUS
<1>2. Rising(Tail(queue))
  BY <1>1 DEF Told, Rising
<1>3. \A i \in 1..Len(Tail(queue)) : Before(Head(queue), Tail(queue)[i])
  BY <1>1 DEF Told, Rising
<1>4. \A i \in 1..Len(Tail(queue)) : last # None /\ UpTo(Tail(queue)[i], last)
  BY <1>1 DEF Told
<1>5. last # None /\ UpTo(Head(queue), last)
  BY <1>1 DEF Told
<1>6. seen # None => Before(seen, Head(queue))
  BY <1>1 DEF Told
<1> QED BY <1>1, <1>2, <1>3, <1>4, <1>5, <1>6 DEF Told

\* A queue that loses its oldest line still tells.
LEMMA ToldTail ==
  ASSUME NEW seen \in Line \cup {None}, NEW queue \in Seq(Line), NEW last \in Line \cup {None},
         Told(seen, queue, last), queue # <<>>
  PROVE  Told(seen, Tail(queue), last) /\ Tail(queue) \in Seq(Line)
<1>1. /\ Len(queue) \in Nat /\ Len(queue) >= 1
      /\ Tail(queue) \in Seq(Line) /\ Len(Tail(queue)) = Len(queue) - 1
      /\ \A i \in 1..Len(Tail(queue)) : Tail(queue)[i] = queue[i + 1]
  OBVIOUS
<1>2. Rising(Tail(queue))
  BY <1>1 DEF Told, Rising
<1>3. \A i \in 1..Len(Tail(queue)) : /\ last # None /\ UpTo(Tail(queue)[i], last)
                                     /\ seen # None => Before(seen, Tail(queue)[i])
  BY <1>1 DEF Told
<1> QED BY <1>1, <1>2, <1>3 DEF Told

\* A newer line may be queued behind the others, and nothing else becomes untrue.
LEMMA ToldMore ==
  ASSUME NEW seen \in Line \cup {None}, NEW queue \in Seq(Line), NEW last \in Line \cup {None},
         Told(seen, queue, last), NEW line \in Line, last # None => Before(last, line)
  PROVE  Told(seen, queue, line) /\ Told(seen, Append(queue, line), line)
<1> DEFINE more == Append(queue, line)
<1>1. /\ Len(queue) \in Nat /\ Len(more) = Len(queue) + 1
      /\ more[Len(queue) + 1] = line
      /\ \A i \in 1..Len(queue) : more[i] = queue[i] /\ queue[i] \in Line
  OBVIOUS
<1>2. \A i \in 1..Len(queue) : Before(queue[i], line)
  BY <1>1, Order DEF Told
<1>3. seen # None => Before(seen, line)
  BY Order DEF Told
<1>4. line # None
  OBVIOUS
<1>5. Told(seen, queue, line)
  BY <1>2, <1>3, <1>4 DEF Told, UpTo
<1>6. \A i \in 1..Len(more) : i \in 1..Len(queue) \/ i = Len(queue) + 1
  BY <1>1
<1> HIDE DEF more
<1>7. Rising(more)
  <2> SUFFICES ASSUME NEW i \in 1..Len(more), NEW j \in 1..Len(more), i < j
               PROVE  Before(more[i], more[j])
    BY DEF Rising
  <2>1. i \in 1..Len(queue)
    BY <1>1, <1>6
  <2> QED BY <2>1, <1>1, <1>2, <1>6 DEF Told, Rising
<1>8. \A i \in 1..Len(more) : UpTo(more[i], line) /\ (seen # None => Before(seen, more[i]))
  BY <1>1, <1>2, <1>3, <1>6 DEF Told, UpTo
<1>9. Told(seen, more, line)
  BY <1>3, <1>4, <1>7, <1>8 DEF Told, UpTo
<1> QED BY <1>5, <1>9 DEF more

\* With nothing queued.
LEMMA ToldNone ==
  ASSUME NEW seen, NEW queue, NEW last, Told(seen, queue, last)
  PROVE  Told(seen, <<>>, last)
BY DEF Told, Rising

-----------------------------------------------------------------------------
(* The invariant.                                                          *)

\* Who holds the engine, and what the scheduler and an update may be doing then.
RunOK ==
    /\ engine = None => pump = "off"
    /\ sched = "checking" <=> (engine = Scheduler /\ pump = "off")
    /\ sched = "checked" => engine # Scheduler /\ candidate # None /\ Permitted(candidate)
    /\ pump = "on" /\ phase > 0 => target # None
    /\ engine \notin Caller => local = <<>>

\* How many lines of the newest update that said anything were passed on.
Passed == IF phase = 0 THEN Lines ELSE phase - Len(rx)

\* What is waiting for the pump are the newest lines, and the latest is older.
QueueOK ==
    /\ pump = "off" => rx = <<>> /\ phase \in {0, Lines}
    /\ Len(rx) <= phase
    /\ \A i \in 1..Len(rx) : rx[i] = [job |-> job, n |-> phase - Len(rx) + i]
    /\ phase > 0 => job > 0
    /\ latest # None => latest.job < job \/ (latest.job = job /\ latest.n <= Passed)

IInv == TypeOK /\ RunOK /\ QueueOK

-----------------------------------------------------------------------------
(* The invariant holds whatever the circumstances.                         *)

\* updaterd starts with the engine free and nothing to tell.
LEMMA InitIInv == Init => IInv
<1> SUFFICES ASSUME Init PROVE IInv OBVIOUS
<1>1. TypeOK
  BY DEF Init, TypeOK, ScheduleOK, UpdateOK, LinesOK, SocketsOK
<1>2. RunOK /\ QueueOK
  BY DEF Init, RunOK, QueueOK
<1> QED BY <1>1, <1>2 DEF IInv

\* The actions of Next, one by one.
LEMMA NextActions ==
  ASSUME [Next]_vars
  PROVE  \/ Wake
         \/ Available
         \/ NotNow
         \/ StandsDown
         \/ ApplyUnattended
         \/ Fetch
         \/ Report
         \/ End
         \/ Answer
         \/ Refuse
         \/ PassOn
         \/ \E r \in Release : Move(r)
         \/ \E c \in Caller : Apply(c)
         \/ \E c \in Caller : WriteToCaller(c)
         \/ \E s \in Subscriber : Subscribe(s)
         \/ \E s \in Subscriber : LockLatest(s)
         \/ \E s \in Subscriber : NothingToReplay(s)
         \/ \E s \in Subscriber : Replay(s)
         \/ \E s \in Subscriber : Stream(s)
         \/ \E s \in Subscriber : StreamEnds(s)
         \/ \E c \in Client : ReadAll(c)
         \/ \E c \in Client : StopReading(c)
         \/ \E c \in Client : HangUp(c)
         \/ UNCHANGED vars
BY Zenon DEF Next, Check, Run, Subscribed


\* The scheduler and the lock keep their types,
LEMMA StepSchedule ==
  ASSUME TypeOK, RunOK, [Next]_vars
  PROVE  ScheduleOK'
<1> USE DEF TypeOK, ScheduleOK
<1>1. CASE Wake
    BY <1>1 DEF Wake, schedule, update, lines, sockets
<1>2. CASE Available
    BY <1>2 DEF Available, Permitted, schedule, update, lines, sockets
<1>3. CASE NotNow
    BY <1>3 DEF NotNow, schedule, update, lines, sockets
<1>4. CASE StandsDown
    BY <1>4 DEF StandsDown, schedule, update, lines, sockets
<1>5. CASE ApplyUnattended
    BY <1>5 DEF ApplyUnattended, Begin, schedule, update, lines, sockets
<1>6. CASE Fetch
    BY <1>6 DEF Fetch, Polled, schedule, update, lines, sockets
<1>7. CASE Report
    BY <1>7 DEF Report, Polled, schedule, update, lines, sockets
<1>8. CASE End
    BY <1>8 DEF End, Polled, RunOK, UpdateOK, lines, sockets
<1>9. CASE Answer
    BY <1>9 DEF Answer, schedule, update, lines, sockets
<1>10. CASE Refuse
    BY <1>10 DEF Refuse, Polled, schedule, update, lines, sockets
<1>11. CASE PassOn
    BY <1>11 DEF PassOn, Posted, schedule, update, lines, sockets
<1>12. CASE \E r \in Release : Move(r)
    BY <1>12 DEF Move, schedule, update, lines, sockets
<1>13. CASE \E c \in Caller : Apply(c)
    BY <1>13 DEF Apply, Begin, schedule, update, lines, sockets
<1>14. CASE \E c \in Caller : WriteToCaller(c)
    BY <1>14 DEF WriteToCaller, Written, schedule, update, lines, sockets
<1>15. CASE \E s \in Subscriber : Subscribe(s)
    BY <1>15 DEF Subscribe, schedule, update, lines, sockets
<1>16. CASE \E s \in Subscriber : LockLatest(s)
    BY <1>16 DEF LockLatest, schedule, update, lines, sockets
<1>17. CASE \E s \in Subscriber : NothingToReplay(s)
    BY <1>17 DEF NothingToReplay, schedule, update, lines, sockets
<1>18. CASE \E s \in Subscriber : Replay(s)
    BY <1>18 DEF Replay, Written, schedule, update, lines, sockets
<1>19. CASE \E s \in Subscriber : Stream(s)
    BY <1>19 DEF Stream, Written, schedule, update, lines, sockets
<1>20. CASE \E s \in Subscriber : StreamEnds(s)
    BY <1>20 DEF StreamEnds, schedule, update, lines, sockets
<1>21. CASE \E c \in Client : ReadAll(c)
    BY <1>21 DEF ReadAll, schedule, update, lines, sockets
<1>22. CASE \E c \in Client : StopReading(c)
    BY <1>22 DEF StopReading, schedule, update, lines, sockets
<1>23. CASE \E c \in Client : HangUp(c)
    BY <1>23 DEF HangUp, schedule, update, lines, sockets
<1>24. CASE UNCHANGED vars
    BY <1>24 DEF vars, schedule, update, lines, sockets
<1> QED BY <1>1, <1>2, <1>3, <1>4, <1>5, <1>6, <1>7, <1>8, <1>9, <1>10, <1>11, <1>12, <1>13,
       <1>14, <1>15, <1>16, <1>17, <1>18, <1>19, <1>20, <1>21, <1>22, <1>23, <1>24,
       NextActions

\* so do the update under way,
LEMMA StepUpdate ==
  ASSUME TypeOK, RunOK, [Next]_vars
  PROVE  UpdateOK'
<1> USE DEF TypeOK, UpdateOK, ScheduleOK
<1>1. CASE Wake
    BY <1>1 DEF Wake, schedule, update, lines, sockets
<1>2. CASE Available
    BY <1>2 DEF Available, Permitted, schedule, update, lines, sockets
<1>3. CASE NotNow
    BY <1>3 DEF NotNow, schedule, update, lines, sockets
<1>4. CASE StandsDown
    BY <1>4 DEF StandsDown, schedule, update, lines, sockets
<1>5. CASE ApplyUnattended
    BY <1>5 DEF ApplyUnattended, Begin, schedule, update, lines, sockets
<1>6. CASE Fetch
    BY <1>6 DEF Fetch, Polled, schedule, update, lines, sockets
<1>7. CASE Report
    BY <1>7 DEF Report, Polled, schedule, update, lines, sockets
<1>8. CASE End
    BY <1>8 DEF End, Polled, schedule, update, lines, sockets
<1>9. CASE Answer
    BY <1>9 DEF Answer, schedule, update, lines, sockets
<1>10. CASE Refuse
    BY <1>10 DEF Refuse, Polled, schedule, update, lines, sockets
<1>11. CASE PassOn
    BY <1>11 DEF PassOn, Posted, schedule, update, lines, sockets
<1>12. CASE \E r \in Release : Move(r)
    BY <1>12 DEF Move, schedule, update, lines, sockets
<1>13. CASE \E c \in Caller : Apply(c)
    BY <1>13 DEF Apply, Begin, schedule, update, lines, sockets
<1>14. CASE \E c \in Caller : WriteToCaller(c)
    BY <1>14 DEF WriteToCaller, Written, schedule, update, lines, sockets
<1>15. CASE \E s \in Subscriber : Subscribe(s)
    BY <1>15 DEF Subscribe, schedule, update, lines, sockets
<1>16. CASE \E s \in Subscriber : LockLatest(s)
    BY <1>16 DEF LockLatest, schedule, update, lines, sockets
<1>17. CASE \E s \in Subscriber : NothingToReplay(s)
    BY <1>17 DEF NothingToReplay, schedule, update, lines, sockets
<1>18. CASE \E s \in Subscriber : Replay(s)
    BY <1>18 DEF Replay, Written, schedule, update, lines, sockets
<1>19. CASE \E s \in Subscriber : Stream(s)
    BY <1>19 DEF Stream, Written, schedule, update, lines, sockets
<1>20. CASE \E s \in Subscriber : StreamEnds(s)
    BY <1>20 DEF StreamEnds, schedule, update, lines, sockets
<1>21. CASE \E c \in Client : ReadAll(c)
    BY <1>21 DEF ReadAll, schedule, update, lines, sockets
<1>22. CASE \E c \in Client : StopReading(c)
    BY <1>22 DEF StopReading, schedule, update, lines, sockets
<1>23. CASE \E c \in Client : HangUp(c)
    BY <1>23 DEF HangUp, schedule, update, lines, sockets
<1>24. CASE UNCHANGED vars
    BY <1>24 DEF vars, schedule, update, lines, sockets
<1> QED BY <1>1, <1>2, <1>3, <1>4, <1>5, <1>6, <1>7, <1>8, <1>9, <1>10, <1>11, <1>12, <1>13,
       <1>14, <1>15, <1>16, <1>17, <1>18, <1>19, <1>20, <1>21, <1>22, <1>23, <1>24,
       NextActions

\* the queues a line passes,
LEMMA StepLines ==
  ASSUME TypeOK, [Next]_vars
  PROVE  LinesOK'
<1> USE DEF TypeOK, LinesOK
<1>1. CASE Wake
    BY <1>1 DEF Wake, schedule, update, lines, sockets
<1>2. CASE Available
    BY <1>2 DEF Available, Permitted, schedule, update, lines, sockets
<1>3. CASE NotNow
    BY <1>3 DEF NotNow, schedule, update, lines, sockets
<1>4. CASE StandsDown
    BY <1>4 DEF StandsDown, schedule, update, lines, sockets
<1>5. CASE ApplyUnattended
    BY <1>5 DEF ApplyUnattended, Begin, schedule, update, lines, sockets
<1>6. CASE Fetch
    BY <1>6 DEF Fetch, Polled, schedule, update, lines, sockets
<1>7. CASE Report
  <2>1. job' \in Nat /\ phase + 1 \in 1..Lines
    BY <1>7 DEF Report, UpdateOK
  <2>2. [job |-> job', n |-> phase + 1] \in Line
    BY <2>1 DEF Line
  <2> QED BY <1>7, <2>2 DEF Report
<1>8. CASE End
    BY <1>8 DEF End, Polled, schedule, update, lines, sockets
<1>9. CASE Answer
    BY <1>9 DEF Answer, schedule, update, lines, sockets
<1>10. CASE Refuse
    BY <1>10 DEF Refuse, Polled, schedule, update, lines, sockets
<1>11. CASE PassOn
    BY <1>11 DEF PassOn, Posted, schedule, update, lines, sockets
<1>12. CASE \E r \in Release : Move(r)
    BY <1>12 DEF Move, schedule, update, lines, sockets
<1>13. CASE \E c \in Caller : Apply(c)
    BY <1>13 DEF Apply, Begin, schedule, update, lines, sockets
<1>14. CASE \E c \in Caller : WriteToCaller(c)
    BY <1>14 DEF WriteToCaller, Written, schedule, update, lines, sockets
<1>15. CASE \E s \in Subscriber : Subscribe(s)
    BY <1>15 DEF Subscribe, schedule, update, lines, sockets
<1>16. CASE \E s \in Subscriber : LockLatest(s)
    BY <1>16 DEF LockLatest, schedule, update, lines, sockets
<1>17. CASE \E s \in Subscriber : NothingToReplay(s)
    BY <1>17 DEF NothingToReplay, schedule, update, lines, sockets
<1>18. CASE \E s \in Subscriber : Replay(s)
    BY <1>18 DEF Replay, Written, schedule, update, lines, sockets
<1>19. CASE \E s \in Subscriber : Stream(s)
    BY <1>19 DEF Stream, Written, schedule, update, lines, sockets
<1>20. CASE \E s \in Subscriber : StreamEnds(s)
    BY <1>20 DEF StreamEnds, schedule, update, lines, sockets
<1>21. CASE \E c \in Client : ReadAll(c)
    BY <1>21 DEF ReadAll, schedule, update, lines, sockets
<1>22. CASE \E c \in Client : StopReading(c)
    BY <1>22 DEF StopReading, schedule, update, lines, sockets
<1>23. CASE \E c \in Client : HangUp(c)
    BY <1>23 DEF HangUp, schedule, update, lines, sockets
<1>24. CASE UNCHANGED vars
    BY <1>24 DEF vars, schedule, update, lines, sockets
<1> QED BY <1>1, <1>2, <1>3, <1>4, <1>5, <1>6, <1>7, <1>8, <1>9, <1>10, <1>11, <1>12, <1>13,
       <1>14, <1>15, <1>16, <1>17, <1>18, <1>19, <1>20, <1>21, <1>22, <1>23, <1>24,
       NextActions

\* and the connections.
LEMMA StepSockets ==
  ASSUME TypeOK, [Next]_vars
  PROVE  SocketsOK'
<1> USE DEF TypeOK, SocketsOK, LinesOK
<1>0. ASSUME NEW c \in Client, NEW line \in Line \cup {None}, Written(c, line)
      PROVE  SocketsOK'
  <2>1. unread' \in [Client -> 0..Room]
    BY <1>0 DEF Written
  <2> QED BY <1>0, <2>1 DEF Written
<1>1. CASE Wake
    BY <1>1 DEF Wake, schedule, update, lines, sockets
<1>2. CASE Available
    BY <1>2 DEF Available, Permitted, schedule, update, lines, sockets
<1>3. CASE NotNow
    BY <1>3 DEF NotNow, schedule, update, lines, sockets
<1>4. CASE StandsDown
    BY <1>4 DEF StandsDown, schedule, update, lines, sockets
<1>5. CASE ApplyUnattended
    BY <1>5 DEF ApplyUnattended, Begin, schedule, update, lines, sockets
<1>6. CASE Fetch
    BY <1>6 DEF Fetch, Polled, schedule, update, lines, sockets
<1>7. CASE Report
    BY <1>7 DEF Report, Polled, schedule, update, lines, sockets
<1>8. CASE End
    BY <1>8 DEF End, Polled, schedule, update, lines, sockets
<1>9. CASE Answer
    BY <1>9 DEF Answer, schedule, update, lines, sockets
<1>10. CASE Refuse
    BY <1>10 DEF Refuse, Polled, schedule, update, lines, sockets
<1>11. CASE PassOn
    BY <1>11 DEF PassOn, Posted, schedule, update, lines, sockets
<1>12. CASE \E r \in Release : Move(r)
    BY <1>12 DEF Move, schedule, update, lines, sockets
<1>13. CASE \E c \in Caller : Apply(c)
    BY <1>13 DEF Apply, Begin, schedule, update, lines, sockets
<1>14. CASE \E c \in Caller : WriteToCaller(c)
  <2>1. PICK c \in Caller : WriteToCaller(c)
    BY <1>14
  <2>2. c \in Client /\ Head(local) \in Line \cup {None} /\ Written(c, Head(local))
    BY <2>1 DEF WriteToCaller, Client
  <2> QED BY <1>0, <2>2
<1>15. CASE \E s \in Subscriber : Subscribe(s)
    BY <1>15 DEF Subscribe, schedule, update, lines, sockets
<1>16. CASE \E s \in Subscriber : LockLatest(s)
    BY <1>16 DEF LockLatest, schedule, update, lines, sockets
<1>17. CASE \E s \in Subscriber : NothingToReplay(s)
    BY <1>17 DEF NothingToReplay, schedule, update, lines, sockets
<1>18. CASE \E s \in Subscriber : Replay(s)
  <2>1. PICK s \in Subscriber : Replay(s)
    BY <1>18
  <2>2. s \in Client /\ latest \in Line \cup {None} /\ Written(s, latest)
    BY <2>1 DEF Replay, Client
  <2> QED BY <1>0, <2>2
<1>19. CASE \E s \in Subscriber : Stream(s)
  <2>1. PICK s \in Subscriber : Stream(s)
    BY <1>19
  <2>2. s \in Client /\ Head(mail[s]) \in Line \cup {None} /\ Written(s, Head(mail[s]))
    BY <2>1 DEF Stream, Client
  <2> QED BY <1>0, <2>2
<1>20. CASE \E s \in Subscriber : StreamEnds(s)
    BY <1>20 DEF StreamEnds, schedule, update, lines, sockets
<1>21. CASE \E c \in Client : ReadAll(c)
    BY <1>21 DEF ReadAll, schedule, update, lines, sockets
<1>22. CASE \E c \in Client : StopReading(c)
    BY <1>22 DEF StopReading, schedule, update, lines, sockets
<1>23. CASE \E c \in Client : HangUp(c)
    BY <1>23 DEF HangUp, schedule, update, lines, sockets
<1>24. CASE UNCHANGED vars
    BY <1>24 DEF vars, schedule, update, lines, sockets
<1> QED BY <1>1, <1>2, <1>3, <1>4, <1>5, <1>6, <1>7, <1>8, <1>9, <1>10, <1>11, <1>12, <1>13,
       <1>14, <1>15, <1>16, <1>17, <1>18, <1>19, <1>20, <1>21, <1>22, <1>23, <1>24,
       NextActions

\* Who holds the engine follows from what runs.
LEMMA StepRun ==
  ASSUME TypeOK, RunOK, [Next]_vars
  PROVE  RunOK'
<1> USE DEF TypeOK, RunOK, ScheduleOK, UpdateOK, Permitted
<1>1. CASE Wake
    BY <1>1 DEF Wake, schedule, update, lines, sockets
<1>2. CASE Available
    BY <1>2 DEF Available, Permitted, schedule, update, lines, sockets
<1>3. CASE NotNow
    BY <1>3 DEF NotNow, schedule, update, lines, sockets
<1>4. CASE StandsDown
    BY <1>4 DEF StandsDown, schedule, update, lines, sockets
<1>5. CASE ApplyUnattended
    BY <1>5 DEF ApplyUnattended, Begin, schedule, update, lines, sockets
<1>6. CASE Fetch
    BY <1>6 DEF Fetch, Polled, schedule, update, lines, sockets
<1>7. CASE Report
    BY <1>7 DEF Report, Polled, schedule, update, lines, sockets
<1>8. CASE End
    BY <1>8 DEF End, Polled, schedule, update, lines, sockets
<1>9. CASE Answer
    BY <1>9 DEF Answer, schedule, update, lines, sockets
<1>10. CASE Refuse
    BY <1>10 DEF Refuse, Polled, schedule, update, lines, sockets
<1>11. CASE PassOn
    BY <1>11 DEF PassOn, Posted, schedule, update, lines, sockets
<1>12. CASE \E r \in Release : Move(r)
    BY <1>12 DEF Move, schedule, update, lines, sockets
<1>13. CASE \E c \in Caller : Apply(c)
    BY <1>13 DEF Apply, Begin, schedule, update, lines, sockets
<1>14. CASE \E c \in Caller : WriteToCaller(c)
    BY <1>14 DEF WriteToCaller, Written, schedule, update, lines, sockets
<1>15. CASE \E s \in Subscriber : Subscribe(s)
    BY <1>15 DEF Subscribe, schedule, update, lines, sockets
<1>16. CASE \E s \in Subscriber : LockLatest(s)
    BY <1>16 DEF LockLatest, schedule, update, lines, sockets
<1>17. CASE \E s \in Subscriber : NothingToReplay(s)
    BY <1>17 DEF NothingToReplay, schedule, update, lines, sockets
<1>18. CASE \E s \in Subscriber : Replay(s)
    BY <1>18 DEF Replay, Written, schedule, update, lines, sockets
<1>19. CASE \E s \in Subscriber : Stream(s)
    BY <1>19 DEF Stream, Written, schedule, update, lines, sockets
<1>20. CASE \E s \in Subscriber : StreamEnds(s)
    BY <1>20 DEF StreamEnds, schedule, update, lines, sockets
<1>21. CASE \E c \in Client : ReadAll(c)
    BY <1>21 DEF ReadAll, schedule, update, lines, sockets
<1>22. CASE \E c \in Client : StopReading(c)
    BY <1>22 DEF StopReading, schedule, update, lines, sockets
<1>23. CASE \E c \in Client : HangUp(c)
    BY <1>23 DEF HangUp, schedule, update, lines, sockets
<1>24. CASE UNCHANGED vars
    BY <1>24 DEF vars, schedule, update, lines, sockets
<1> QED BY <1>1, <1>2, <1>3, <1>4, <1>5, <1>6, <1>7, <1>8, <1>9, <1>10, <1>11, <1>12, <1>13,
       <1>14, <1>15, <1>16, <1>17, <1>18, <1>19, <1>20, <1>21, <1>22, <1>23, <1>24,
       NextActions

\* A queue that is not empty is its first line and the rest.
LEMMA FirstAndRest ==
  ASSUME rx # <<>>, rx \in Seq(Line)
  PROVE  /\ Len(rx) \in Nat /\ Len(rx) >= 1 /\ Head(rx) = rx[1] /\ Len(Tail(rx)) = Len(rx) - 1
         /\ \A i \in 1..Len(Tail(rx)) : Tail(rx)[i] = rx[i + 1]
OBVIOUS

\* The lines of an update are reported in order.
LEMMA StepQueue ==
  ASSUME TypeOK, RunOK, QueueOK, [Next]_vars
  PROVE  QueueOK'
<1> USE DEF TypeOK, RunOK, QueueOK, UpdateOK, LinesOK, Passed
<1>1. CASE Wake
    BY <1>1 DEF Wake, schedule, update, lines, sockets
<1>2. CASE Available
    BY <1>2 DEF Available, Permitted, schedule, update, lines, sockets
<1>3. CASE NotNow
    BY <1>3 DEF NotNow, schedule, update, lines, sockets
<1>4. CASE StandsDown
    BY <1>4 DEF StandsDown, schedule, update, lines, sockets
<1>5. CASE ApplyUnattended
    BY <1>5 DEF ApplyUnattended, Begin, schedule, update, lines, sockets
<1>6. CASE Fetch
    BY <1>6 DEF Fetch, Polled, schedule, update, lines, sockets
<1>7. CASE Report
  <2>1. /\ Len(rx') = Len(rx) + 1 /\ Len(rx) \in Nat
        /\ rx'[Len(rx) + 1] = [job |-> job', n |-> phase + 1]
        /\ \A i \in 1..Len(rx) : rx'[i] = rx[i]
    BY <1>7 DEF Report
  <2>2. phase' = phase + 1 /\ phase \in Nat /\ job \in Nat /\ latest' = latest /\ pump = "on" /\ pump' = pump
    BY <1>7 DEF Report, Polled
  <2>3. CASE phase = 0
    <3>1. Len(rx) = 0 /\ job' = job + 1
      BY <1>7, <2>3, <2>1 DEF Report
    <3>2. Len(rx') = 1 /\ phase' = 1 /\ rx'[1] = [job |-> job', n |-> 1]
      BY <2>1, <2>2, <2>3, <3>1
    <3>3. \A i \in 1..Len(rx') : rx'[i] = [job |-> job', n |-> phase' - Len(rx') + i]
      BY <3>2
    <3>4. latest' # None => latest' \in Line /\ latest'.job < job'
      BY <2>2, <3>1 DEF Line
    <3>5. job' > 0 /\ pump' # "off" /\ phase' - Len(rx') = 0
      BY <2>2, <3>1, <3>2
    <3> QED
      <4> HIDE DEF TypeOK, RunOK, UpdateOK, LinesOK
      <4> QED BY <3>2, <3>3, <3>4, <3>5
  <2>4. CASE phase # 0
    <3>1. job' = job
      BY <1>7, <2>4 DEF Report
    <3>2. \A i \in 1..Len(rx') : rx'[i] = [job |-> job', n |-> phase' - Len(rx') + i]
      <4>1. phase' - Len(rx') = phase - Len(rx) /\ phase - Len(rx) + (Len(rx) + 1) = phase + 1
        BY <2>1, <2>2
      <4>2. \A i \in 1..Len(rx') : i \in 1..Len(rx) \/ i = Len(rx) + 1
        BY <2>1
      <4>3. \A i \in 1..Len(rx) : rx'[i] = [job |-> job', n |-> phase' - Len(rx') + i]
        BY <2>1, <3>1, <4>1
      <4>4. rx'[Len(rx) + 1] = [job |-> job', n |-> phase' - Len(rx') + (Len(rx) + 1)]
        BY <2>1, <4>1
      <4> QED BY <4>2, <4>3, <4>4
    <3> QED BY <2>1, <2>2, <2>4, <3>1, <3>2
  <2> QED BY <2>3, <2>4
<1>8. CASE End
  <2>1. pump' = "off" /\ rx' = <<>> /\ phase' = phase /\ phase = Lines /\ job' = job /\ latest' = latest
    BY <1>8 DEF End, Polled
  <2>2. Lines \in Nat /\ Lines > 0 /\ Len(rx) \in Nat /\ phase' - Len(rx') = Lines
    BY <2>1
  <2>3. latest # None => latest \in Line /\ latest.n <= Lines
    BY DEF Line
  <2> QED BY <2>1, <2>2, <2>3
<1>9. CASE Answer
    BY <1>9 DEF Answer, schedule, update, lines, sockets
<1>10. CASE Refuse
    BY <1>10 DEF Refuse, Polled, schedule, update, lines, sockets
<1>11. CASE PassOn
  <2>1. /\ rx # <<>> /\ Len(rx) \in Nat /\ Len(rx) >= 1 /\ Head(rx) = rx[1]
        /\ Len(Tail(rx)) = Len(rx) - 1
        /\ \A i \in 1..Len(Tail(rx)) : Tail(rx)[i] = rx[i + 1]
    BY <1>11, FirstAndRest DEF PassOn
  <2>2. /\ rx' = Tail(rx) /\ latest' = Head(rx) /\ phase' = phase /\ job' = job
        /\ pump = "on" /\ pump' = pump /\ phase \in Nat /\ phase > 0
    BY <1>11, <2>1 DEF PassOn, update
  <2>3. Head(rx) = [job |-> job, n |-> phase - Len(rx) + 1]
    BY <2>1
  <2>4. \A i \in 1..Len(rx') : rx'[i] = [job |-> job, n |-> phase - Len(rx') + i]
    <3> SUFFICES ASSUME NEW i \in 1..Len(rx')
                 PROVE  rx'[i] = [job |-> job, n |-> phase - Len(rx') + i]
      OBVIOUS
    <3>1. i + 1 \in 1..Len(rx) /\ rx'[i] = rx[i + 1]
      BY <2>1, <2>2
    <3>2. phase - Len(rx') + i = phase - Len(rx) + (i + 1)
      BY <2>1, <2>2
    <3> QED BY <3>1, <3>2
  <2> QED BY <2>1, <2>2, <2>3, <2>4
<1>12. CASE \E r \in Release : Move(r)
    BY <1>12 DEF Move, schedule, update, lines, sockets
<1>13. CASE \E c \in Caller : Apply(c)
    BY <1>13 DEF Apply, Begin, schedule, update, lines, sockets
<1>14. CASE \E c \in Caller : WriteToCaller(c)
    BY <1>14 DEF WriteToCaller, Written, schedule, update, lines, sockets
<1>15. CASE \E s \in Subscriber : Subscribe(s)
    BY <1>15 DEF Subscribe, schedule, update, lines, sockets
<1>16. CASE \E s \in Subscriber : LockLatest(s)
    BY <1>16 DEF LockLatest, schedule, update, lines, sockets
<1>17. CASE \E s \in Subscriber : NothingToReplay(s)
    BY <1>17 DEF NothingToReplay, schedule, update, lines, sockets
<1>18. CASE \E s \in Subscriber : Replay(s)
    BY <1>18 DEF Replay, Written, schedule, update, lines, sockets
<1>19. CASE \E s \in Subscriber : Stream(s)
    BY <1>19 DEF Stream, Written, schedule, update, lines, sockets
<1>20. CASE \E s \in Subscriber : StreamEnds(s)
    BY <1>20 DEF StreamEnds, schedule, update, lines, sockets
<1>21. CASE \E c \in Client : ReadAll(c)
    BY <1>21 DEF ReadAll, schedule, update, lines, sockets
<1>22. CASE \E c \in Client : StopReading(c)
    BY <1>22 DEF StopReading, schedule, update, lines, sockets
<1>23. CASE \E c \in Client : HangUp(c)
    BY <1>23 DEF HangUp, schedule, update, lines, sockets
<1>24. CASE UNCHANGED vars
    BY <1>24 DEF vars, schedule, update, lines, sockets
<1> QED BY <1>1, <1>2, <1>3, <1>4, <1>5, <1>6, <1>7, <1>8, <1>9, <1>10, <1>11, <1>12, <1>13,
       <1>14, <1>15, <1>16, <1>17, <1>18, <1>19, <1>20, <1>21, <1>22, <1>23, <1>24,
       NextActions

\* Every step keeps the parts.
LEMMA StepIInv == ASSUME IInv, [Next]_vars PROVE IInv'
BY StepSchedule, StepUpdate, StepLines, StepSockets, StepRun, StepQueue DEF IInv, TypeOK

\* The inductive invariant behind the others, with no hypothesis.
THEOREM Invariance == Spec => []IInv
<1>1. IInv /\ UNCHANGED vars => IInv'
  BY StepIInv
<1> QED BY InitIInv, StepIInv, <1>1, PTL DEF Spec

\* Every variable of the service keeps its type, for any clients, policy and source.
THEOREM TypeCorrect == Spec => []TypeOK
<1>1. IInv => TypeOK
  BY DEF IInv
<1> QED BY Invariance, <1>1, PTL

-----------------------------------------------------------------------------
(* What is applied unattended: the check is not stale.                     *)

\* A release the policy covers, and that has not failed here.
Vetted(r) == r \notin bad /\ Permitted(r)

\* The check's finding is still the newest release, until the update has fetched it.
VettedOK ==
    /\ sched = "checked" => candidate = head
    /\ engine = Scheduler /\ pump = "on" =>
          IF target = None THEN candidate = head /\ Vetted(candidate) ELSE Vetted(target)

\* No step makes a finding stale unless the index moves.
LEMMA StepVetted ==
  ASSUME "moves" \notin Habits, IInv, VettedOK, [Next]_vars
  PROVE  VettedOK'
<1> USE DEF IInv, TypeOK, RunOK, ScheduleOK, UpdateOK, VettedOK, Vetted, Permitted
<1>1. CASE Wake
    BY <1>1 DEF Wake, schedule, update, lines, sockets
<1>2. CASE Available
    BY <1>2 DEF Available, Permitted, schedule, update, lines, sockets
<1>3. CASE NotNow
    BY <1>3 DEF NotNow, schedule, update, lines, sockets
<1>4. CASE StandsDown
    BY <1>4 DEF StandsDown, schedule, update, lines, sockets
<1>5. CASE ApplyUnattended
    BY <1>5 DEF ApplyUnattended, Begin, schedule, update, lines, sockets
<1>6. CASE Fetch
    BY <1>6 DEF Fetch, Polled, schedule, update, lines, sockets
<1>7. CASE Report
    BY <1>7 DEF Report, Polled, schedule, update, lines, sockets
<1>8. CASE End
    BY <1>8 DEF End, Polled, schedule, update, lines, sockets
<1>9. CASE Answer
    BY <1>9 DEF Answer, schedule, update, lines, sockets
<1>10. CASE Refuse
    BY <1>10 DEF Refuse, Polled, schedule, update, lines, sockets
<1>11. CASE PassOn
    BY <1>11 DEF PassOn, Posted, schedule, update, lines, sockets
<1>12. CASE \E r \in Release : Move(r)
    BY <1>12 DEF Move, schedule, update, lines, sockets
<1>13. CASE \E c \in Caller : Apply(c)
    BY <1>13 DEF Apply, Begin, schedule, update, lines, sockets
<1>14. CASE \E c \in Caller : WriteToCaller(c)
    BY <1>14 DEF WriteToCaller, Written, schedule, update, lines, sockets
<1>15. CASE \E s \in Subscriber : Subscribe(s)
    BY <1>15 DEF Subscribe, schedule, update, lines, sockets
<1>16. CASE \E s \in Subscriber : LockLatest(s)
    BY <1>16 DEF LockLatest, schedule, update, lines, sockets
<1>17. CASE \E s \in Subscriber : NothingToReplay(s)
    BY <1>17 DEF NothingToReplay, schedule, update, lines, sockets
<1>18. CASE \E s \in Subscriber : Replay(s)
    BY <1>18 DEF Replay, Written, schedule, update, lines, sockets
<1>19. CASE \E s \in Subscriber : Stream(s)
    BY <1>19 DEF Stream, Written, schedule, update, lines, sockets
<1>20. CASE \E s \in Subscriber : StreamEnds(s)
    BY <1>20 DEF StreamEnds, schedule, update, lines, sockets
<1>21. CASE \E c \in Client : ReadAll(c)
    BY <1>21 DEF ReadAll, schedule, update, lines, sockets
<1>22. CASE \E c \in Client : StopReading(c)
    BY <1>22 DEF StopReading, schedule, update, lines, sockets
<1>23. CASE \E c \in Client : HangUp(c)
    BY <1>23 DEF HangUp, schedule, update, lines, sockets
<1>24. CASE UNCHANGED vars
    BY <1>24 DEF vars, schedule, update, lines, sockets
<1> QED BY <1>1, <1>2, <1>3, <1>4, <1>5, <1>6, <1>7, <1>8, <1>9, <1>10, <1>11, <1>12, <1>13,
       <1>14, <1>15, <1>16, <1>17, <1>18, <1>19, <1>20, <1>21, <1>22, <1>23, <1>24,
       NextActions

\* With no client attached, nothing is applied that failed here before or that the policy
\* does not cover, provided the newest release does not change between the scheduler's
\* check and the fetch of its update (ipc.rs, `apply_unattended`).
THEOREM UnattendedVetted == "moves" \notin Habits => (Spec => []UnattendedIsVetted)
<1> SUFFICES ASSUME "moves" \notin Habits PROVE Spec => []UnattendedIsVetted
  OBVIOUS
<1>1. Init => VettedOK
  BY DEF Init, VettedOK
<1>2. IInv /\ VettedOK /\ [Next]_vars => VettedOK'
  BY StepVetted
<1>3. VettedOK => UnattendedIsVetted
  BY DEF VettedOK, UnattendedIsVetted, Vetted
<1> QED BY Invariance, <1>1, <1>2, <1>3, PTL DEF Spec

-----------------------------------------------------------------------------
(* Progress: the last line is kept.                                        *)

LatestOK == job > 0 /\ Passed > 0 => latest = [job |-> job, n |-> Passed]

\* No step forgets the last line unless the pump is cut short.
LEMMA StepLatest ==
  ASSUME "pumpLags" \notin Habits, IInv, LatestOK, [Next]_vars
  PROVE  LatestOK'
<1> USE DEF IInv, TypeOK, RunOK, QueueOK, UpdateOK, LinesOK, Passed, LatestOK
<1>1. CASE Wake
    BY <1>1 DEF Wake, schedule, update, lines, sockets
<1>2. CASE Available
    BY <1>2 DEF Available, Permitted, schedule, update, lines, sockets
<1>3. CASE NotNow
    BY <1>3 DEF NotNow, schedule, update, lines, sockets
<1>4. CASE StandsDown
    BY <1>4 DEF StandsDown, schedule, update, lines, sockets
<1>5. CASE ApplyUnattended
    BY <1>5 DEF ApplyUnattended, Begin, schedule, update, lines, sockets
<1>6. CASE Fetch
    BY <1>6 DEF Fetch, Polled, schedule, update, lines, sockets
<1>7. CASE Report
    BY <1>7 DEF Report, Polled, schedule, update, lines, sockets
<1>8. CASE End
    BY <1>8 DEF End, Polled, schedule, update, lines, sockets
<1>9. CASE Answer
    BY <1>9 DEF Answer, schedule, update, lines, sockets
<1>10. CASE Refuse
    BY <1>10 DEF Refuse, Polled, schedule, update, lines, sockets
<1>11. CASE PassOn
  <2>1. Len(rx) \in Nat /\ Len(rx) >= 1 /\ Head(rx) = rx[1] /\ Len(Tail(rx)) = Len(rx) - 1
    BY <1>11, FirstAndRest DEF PassOn
  <2>2. latest' = [job |-> job, n |-> phase - Len(rx) + 1]
    BY <1>11, <2>1 DEF PassOn
  <2>3. rx' = Tail(rx) /\ phase' = phase /\ job' = job /\ phase \in Nat /\ phase > 0
    BY <1>11, <2>1 DEF PassOn, update
  <2>4. Passed' = phase - Len(rx) + 1
    BY <2>1, <2>3
  <2> QED BY <2>2, <2>3, <2>4
<1>12. CASE \E r \in Release : Move(r)
    BY <1>12 DEF Move, schedule, update, lines, sockets
<1>13. CASE \E c \in Caller : Apply(c)
    BY <1>13 DEF Apply, Begin, schedule, update, lines, sockets
<1>14. CASE \E c \in Caller : WriteToCaller(c)
    BY <1>14 DEF WriteToCaller, Written, schedule, update, lines, sockets
<1>15. CASE \E s \in Subscriber : Subscribe(s)
    BY <1>15 DEF Subscribe, schedule, update, lines, sockets
<1>16. CASE \E s \in Subscriber : LockLatest(s)
    BY <1>16 DEF LockLatest, schedule, update, lines, sockets
<1>17. CASE \E s \in Subscriber : NothingToReplay(s)
    BY <1>17 DEF NothingToReplay, schedule, update, lines, sockets
<1>18. CASE \E s \in Subscriber : Replay(s)
    BY <1>18 DEF Replay, Written, schedule, update, lines, sockets
<1>19. CASE \E s \in Subscriber : Stream(s)
    BY <1>19 DEF Stream, Written, schedule, update, lines, sockets
<1>20. CASE \E s \in Subscriber : StreamEnds(s)
    BY <1>20 DEF StreamEnds, schedule, update, lines, sockets
<1>21. CASE \E c \in Client : ReadAll(c)
    BY <1>21 DEF ReadAll, schedule, update, lines, sockets
<1>22. CASE \E c \in Client : StopReading(c)
    BY <1>22 DEF StopReading, schedule, update, lines, sockets
<1>23. CASE \E c \in Client : HangUp(c)
    BY <1>23 DEF HangUp, schedule, update, lines, sockets
<1>24. CASE UNCHANGED vars
    BY <1>24 DEF vars, schedule, update, lines, sockets
<1> QED BY <1>1, <1>2, <1>3, <1>4, <1>5, <1>6, <1>7, <1>8, <1>9, <1>10, <1>11, <1>12, <1>13,
       <1>14, <1>15, <1>16, <1>17, <1>18, <1>19, <1>20, <1>21, <1>22, <1>23, <1>24,
       NextActions

\* When no update runs, the line a new subscriber is shown first is the last of the last
\* update, provided an update ends after its last lines were passed on (ipc.rs,
\* `pump.abort()`).
THEOREM LastLineIsKept == "pumpLags" \notin Habits => (Spec => []LatestIsLast)
<1> SUFFICES ASSUME "pumpLags" \notin Habits PROVE Spec => []LatestIsLast
  OBVIOUS
<1>1. Init => LatestOK
  BY DEF Init, LatestOK
<1>2. IInv /\ LatestOK /\ [Next]_vars => LatestOK'
  BY StepLatest
<1>3. IInv /\ LatestOK => LatestIsLast
  BY DEF IInv, TypeOK, UpdateOK, RunOK, QueueOK, Passed, LatestOK, LatestIsLast
<1> QED BY Invariance, <1>1, <1>2, <1>3, PTL DEF Spec

-----------------------------------------------------------------------------
(* Progress: nobody is shown it going backwards.                           *)

\* A connection collects lines only once it streams, and replays only under the lock.
StreamOK ==
    /\ \A s \in Subscriber : sub[s] # "streaming" => mail[s] = <<>>
    /\ holder # None => latest # None /\ sub[holder] = "replaying"

\* A replay holds the lock, and nothing is collected before it.
LEMMA StepStream ==
  ASSUME "overtaken" \notin Habits, TypeOK, StreamOK, [Next]_vars
  PROVE  StreamOK'
<1> USE DEF TypeOK, LinesOK, StreamOK
<1>1. CASE Wake
    BY <1>1 DEF Wake, schedule, update, lines, sockets
<1>2. CASE Available
    BY <1>2 DEF Available, Permitted, schedule, update, lines, sockets
<1>3. CASE NotNow
    BY <1>3 DEF NotNow, schedule, update, lines, sockets
<1>4. CASE StandsDown
    BY <1>4 DEF StandsDown, schedule, update, lines, sockets
<1>5. CASE ApplyUnattended
    BY <1>5 DEF ApplyUnattended, Begin, schedule, update, lines, sockets
<1>6. CASE Fetch
    BY <1>6 DEF Fetch, Polled, schedule, update, lines, sockets
<1>7. CASE Report
    BY <1>7 DEF Report, Polled, schedule, update, lines, sockets
<1>8. CASE End
    BY <1>8 DEF End, Polled, schedule, update, lines, sockets
<1>9. CASE Answer
    BY <1>9 DEF Answer, schedule, update, lines, sockets
<1>10. CASE Refuse
    BY <1>10 DEF Refuse, Polled, schedule, update, lines, sockets
<1>11. CASE PassOn
  <2>1. /\ \A s \in Subscriber : sub[s] # "replaying"
        /\ mail' = [s \in Subscriber |-> Posted(s, Head(rx))] /\ holder = None
        /\ UNCHANGED <<sub, holder>>
    BY <1>11 DEF PassOn
  <2>2. \A s \in Subscriber : sub[s] # "streaming" => mail'[s] = <<>>
    <3> SUFFICES ASSUME NEW s \in Subscriber, sub[s] # "streaming"
                 PROVE  mail'[s] = <<>>
      OBVIOUS
    <3>1. sub[s] = "off"
      BY <2>1
    <3>2. Posted(s, Head(rx)) = <<>>
      BY <3>1 DEF Posted
    <3> QED BY <2>1, <3>2
  <2> QED BY <2>1, <2>2
<1>12. CASE \E r \in Release : Move(r)
    BY <1>12 DEF Move, schedule, update, lines, sockets
<1>13. CASE \E c \in Caller : Apply(c)
    BY <1>13 DEF Apply, Begin, schedule, update, lines, sockets
<1>14. CASE \E c \in Caller : WriteToCaller(c)
    BY <1>14 DEF WriteToCaller, Written, schedule, update, lines, sockets
<1>15. CASE \E s \in Subscriber : Subscribe(s)
    BY <1>15 DEF Subscribe, schedule, update, lines, sockets
<1>16. CASE \E s \in Subscriber : LockLatest(s)
    BY <1>16 DEF LockLatest, schedule, update, lines, sockets
<1>17. CASE \E s \in Subscriber : NothingToReplay(s)
    BY <1>17 DEF NothingToReplay, schedule, update, lines, sockets
<1>18. CASE \E s \in Subscriber : Replay(s)
    BY <1>18 DEF Replay, Written, schedule, update, lines, sockets
<1>19. CASE \E s \in Subscriber : Stream(s)
    BY <1>19 DEF Stream, Written, schedule, update, lines, sockets
<1>20. CASE \E s \in Subscriber : StreamEnds(s)
    BY <1>20 DEF StreamEnds, schedule, update, lines, sockets
<1>21. CASE \E c \in Client : ReadAll(c)
    BY <1>21 DEF ReadAll, schedule, update, lines, sockets
<1>22. CASE \E c \in Client : StopReading(c)
    BY <1>22 DEF StopReading, schedule, update, lines, sockets
<1>23. CASE \E c \in Client : HangUp(c)
    BY <1>23 DEF HangUp, schedule, update, lines, sockets
<1>24. CASE UNCHANGED vars
    BY <1>24 DEF vars, schedule, update, lines, sockets
<1> QED BY <1>1, <1>2, <1>3, <1>4, <1>5, <1>6, <1>7, <1>8, <1>9, <1>10, <1>11, <1>12, <1>13,
       <1>14, <1>15, <1>16, <1>17, <1>18, <1>19, <1>20, <1>21, <1>22, <1>23, <1>24,
       NextActions

\* What a caller has yet to be shown; none but the one that holds the engine has anything.
Passing(c) == IF engine = c THEN local ELSE <<>>

ToldOK ==
    /\ \A s \in Subscriber : Told(shown[s], mail[s], latest)
    /\ \A c \in Caller : Told(shown[c], Passing(c), latest)

\* The line the pump takes is newer than the one it took before.
LEMMA HeadIsNewer ==
  ASSUME TypeOK, QueueOK, rx # <<>>
  PROVE  Head(rx) \in Line /\ (latest # None => Before(latest, Head(rx)))
<1>1. Len(rx) \in Nat /\ Len(rx) >= 1 /\ Head(rx) = rx[1] /\ Head(rx) \in Line
  BY DEF TypeOK, LinesOK
<1>2. Head(rx) = [job |-> job, n |-> phase - Len(rx) + 1]
  <2>1. 1 \in 1..Len(rx)
    BY <1>1
  <2> QED BY <1>1, <2>1 DEF QueueOK
<1>3. phase \in Nat /\ phase > 0 /\ job \in Nat
  BY <1>1 DEF TypeOK, UpdateOK, QueueOK
<1>4. latest # None => latest \in Line
  BY DEF TypeOK, LinesOK
<1> QED BY <1>1, <1>2, <1>3, <1>4 DEF QueueOK, Passed, Before, Line

\* A step that passes nothing on and shows nobody anything.
LEMMA Untold ==
  ASSUME ToldOK, UNCHANGED <<shown, latest>>,
         \A s \in Subscriber : mail'[s] = mail[s] \/ mail'[s] = <<>>,
         \A c \in Caller : engine' = c => local' = <<>> \/ (engine = c /\ local' = local)
  PROVE  ToldOK' /\ ShownInOrder
<1>1. \A s \in Subscriber : Told(shown[s], mail'[s], latest)
  BY ToldNone DEF ToldOK
<1>2. \A c \in Caller : Told(shown[c], IF engine' = c THEN local' ELSE <<>>, latest)
  BY ToldNone DEF ToldOK, Passing
<1>3. ToldOK'
  BY <1>1, <1>2 DEF ToldOK, Passing
<1> QED BY <1>3 DEF ShownInOrder

\* A step that shows client d a line and takes it off what d has yet to be shown.
LEMMA Shows ==
  ASSUME TypeOK, ToldOK, NEW d \in Client, NEW line \in Line, Written(d, line), latest' = latest,
         shown[d] # None /\ shown[d] # line => Before(shown[d], line),
         d \in Subscriber => Told(line, mail'[d], latest),
         d \in Caller => Told(line, (IF engine' = d THEN local' ELSE <<>>), latest),
         \A s \in Subscriber : s # d => mail'[s] = mail[s],
         \A c \in Caller : c # d /\ engine' = c => engine = c /\ local' = local,
         engine' = engine
  PROVE  ToldOK' /\ ShownInOrder
<1>1. shown' = [shown EXCEPT ![d] = line] /\ shown \in [Client -> Line \cup {None}]
  BY DEF Written, TypeOK, SocketsOK
<1>2. \A s \in Subscriber : Told(shown'[s], mail'[s], latest)
  BY <1>1 DEF ToldOK, Client
<1>3. \A c \in Caller : Told(shown'[c], IF engine' = c THEN local' ELSE <<>>, latest)
  BY <1>1 DEF ToldOK, Client, Passing
<1>4. ToldOK'
  BY <1>2, <1>3 DEF ToldOK, Passing
<1>5. ShownInOrder
  BY <1>1 DEF ShownInOrder
<1> QED BY <1>4, <1>5

\* No step shows a client an older line, and each is owed newer ones only.
LEMMA StepTold ==
  ASSUME IInv, StreamOK, ToldOK, [Next]_vars
  PROVE  ToldOK' /\ ShownInOrder
<1> USE DEF IInv
<1>1. CASE Wake
    BY <1>1, Untold DEF Wake, schedule, update, lines, sockets
<1>2. CASE Available
    BY <1>2, Untold DEF Available, Permitted, schedule, update, lines, sockets
<1>3. CASE NotNow
    BY <1>3, Untold DEF NotNow, schedule, update, lines, sockets
<1>4. CASE StandsDown
    BY <1>4, Untold DEF StandsDown, schedule, update, lines, sockets
<1>5. CASE ApplyUnattended
    BY <1>5, Untold DEF ApplyUnattended, Begin, schedule, update, lines, sockets
<1>6. CASE Fetch
    BY <1>6, Untold DEF Fetch, Polled, schedule, update, lines, sockets
<1>7. CASE Report
    BY <1>7, Untold DEF Report, Polled, schedule, update, lines, sockets
<1>8. CASE End
    BY <1>8, Untold DEF End, Polled, schedule, update, lines, sockets
<1>9. CASE Answer
    BY <1>9, Untold DEF Answer, schedule, update, lines, sockets
<1>10. CASE Refuse
    BY <1>10, Untold DEF Refuse, Polled, schedule, update, lines, sockets
<1>11. CASE PassOn
  <2>1. /\ rx # <<>> /\ latest' = Head(rx) /\ shown' = shown /\ engine' = engine
        /\ mail' = [s \in Subscriber |-> Posted(s, Head(rx))]
        /\ local' = IF engine \in Caller THEN Append(local, Head(rx)) ELSE local
    BY <1>11 DEF PassOn, update, sockets
  <2>2. Head(rx) \in Line /\ (latest # None => Before(latest, Head(rx)))
    BY <2>1, HeadIsNewer
  <2>3. /\ \A c \in Client : shown[c] \in Line \cup {None}
        /\ \A s \in Subscriber : mail[s] \in Seq(Line)
        /\ local \in Seq(Line) /\ latest \in Line \cup {None}
    BY DEF TypeOK, LinesOK, SocketsOK
  <2>4. ASSUME NEW s \in Subscriber
        PROVE  Told(shown[s], Posted(s, Head(rx)), Head(rx))
    <3>1. Told(shown[s], mail[s], latest) /\ shown[s] \in Line \cup {None} /\ mail[s] \in Seq(Line)
      BY <2>3 DEF ToldOK, Client
    <3>2. Told(shown[s], Append(mail[s], Head(rx)), Head(rx)) /\ Told(shown[s], mail[s], Head(rx))
      BY <2>2, <2>3, <3>1, ToldMore
    <3>3. Told(shown[s], <<>>, Head(rx))
      BY <3>2, ToldNone
    <3>4. CASE Len(mail[s]) >= Buffer
      <4>1. mail[s] # <<>>
        BY <3>1, <3>4
      <4>2. Told(shown[s], Tail(mail[s]), latest) /\ Tail(mail[s]) \in Seq(Line)
        BY <2>3, <3>1, <4>1, ToldTail
      <4>3. Told(shown[s], Append(Tail(mail[s]), Head(rx)), Head(rx))
        BY <2>2, <2>3, <3>1, <4>2, ToldMore
      <4> QED BY <3>2, <3>3, <4>3 DEF Posted
    <3>5. CASE ~(Len(mail[s]) >= Buffer)
      <4>1. Len(mail[s]) < Buffer
        BY <3>1, <3>5
      <4> QED BY <3>2, <3>3, <4>1 DEF Posted
    <3> QED BY <3>4, <3>5
  <2>5. ASSUME NEW c \in Caller
        PROVE  Told(shown[c], IF engine = c THEN local' ELSE <<>>, Head(rx))
    <3>1. Told(shown[c], Passing(c), latest) /\ shown[c] \in Line \cup {None} /\ Passing(c) \in Seq(Line)
      BY <2>3 DEF ToldOK, Client, Passing
    <3>2. Told(shown[c], Append(Passing(c), Head(rx)), Head(rx)) /\ Told(shown[c], Passing(c), Head(rx))
      BY <2>2, <2>3, <3>1, ToldMore
    <3> QED BY <2>1, <3>2, ToldNone DEF Passing
  <2>6. ToldOK'
    BY <2>1, <2>4, <2>5 DEF ToldOK, Passing
  <2> QED BY <2>1, <2>6 DEF ShownInOrder
<1>12. CASE \E r \in Release : Move(r)
    BY <1>12, Untold DEF Move, schedule, update, lines, sockets
<1>13. CASE \E c \in Caller : Apply(c)
    BY <1>13, Untold DEF Apply, Begin, schedule, update, lines, sockets
<1>14. CASE \E c \in Caller : WriteToCaller(c)
  <2>1. PICK c \in Caller : WriteToCaller(c)
    BY <1>14
  <2>2. /\ engine = c /\ local # <<>> /\ Written(c, Head(local)) /\ local' = Tail(local)
        /\ UNCHANGED <<engine, latest, mail>>
    BY <2>1 DEF WriteToCaller, update
  <2>3. /\ c \in Client /\ shown[c] \in Line \cup {None} /\ local \in Seq(Line)
        /\ latest \in Line \cup {None}
    BY DEF TypeOK, LinesOK, SocketsOK, Client
  <2>4. Told(shown[c], local, latest)
    BY <2>2 DEF ToldOK, Passing
  <2>5. /\ Told(Head(local), Tail(local), latest) /\ Head(local) \in Line
        /\ (shown[c] # None => Before(shown[c], Head(local)))
    BY <2>2, <2>3, <2>4, ToldShow
  <2>6. c \notin Subscriber
    OBVIOUS
  <2> QED BY <2>2, <2>3, <2>5, <2>6, Shows
<1>15. CASE \E s \in Subscriber : Subscribe(s)
    BY <1>15, Untold DEF Subscribe, schedule, update, lines, sockets
<1>16. CASE \E s \in Subscriber : LockLatest(s)
    BY <1>16, Untold DEF LockLatest, schedule, update, lines, sockets
<1>17. CASE \E s \in Subscriber : NothingToReplay(s)
    BY <1>17, Untold DEF NothingToReplay, schedule, update, lines, sockets
<1>18. CASE \E s \in Subscriber : Replay(s)
  <2>1. PICK s \in Subscriber : Replay(s)
    BY <1>18
  <2>2. /\ holder = s /\ Written(s, latest)
        /\ UNCHANGED <<engine, local, latest, mail>>
    BY <2>1 DEF Replay, update
  <2>3. /\ s \in Client /\ shown[s] \in Line \cup {None} /\ s # None /\ s \notin Caller
    BY DEF TypeOK, SocketsOK, Client
  <2>4. mail[s] = <<>> /\ Told(shown[s], mail[s], latest)
    BY <2>2, <2>3 DEF StreamOK, ToldOK
  <2>5. latest \in Line
    BY <2>2, <2>3 DEF StreamOK, TypeOK, LinesOK
  <2>6. Told(latest, mail[s], latest) /\ (shown[s] # None /\ shown[s] # latest => Before(shown[s], latest))
    BY <2>4, <2>5 DEF Told, Rising, UpTo
  <2> QED BY <2>2, <2>3, <2>5, <2>6, Shows
<1>19. CASE \E s \in Subscriber : Stream(s)
  <2>1. PICK s \in Subscriber : Stream(s)
    BY <1>19
  <2>2. /\ mail[s] # <<>> /\ Written(s, Head(mail[s])) /\ mail' = [mail EXCEPT ![s] = Tail(@)]
        /\ UNCHANGED <<engine, local, latest>>
    BY <2>1 DEF Stream, update
  <2>3. /\ s \in Client /\ shown[s] \in Line \cup {None} /\ s \notin Caller
        /\ mail \in [Subscriber -> Seq(Line)] /\ latest \in Line \cup {None}
    BY DEF TypeOK, LinesOK, SocketsOK, Client
  <2>4. /\ Told(Head(mail[s]), Tail(mail[s]), latest) /\ Head(mail[s]) \in Line
        /\ (shown[s] # None => Before(shown[s], Head(mail[s])))
    BY <2>2, <2>3, ToldShow DEF ToldOK
  <2>5. mail'[s] = Tail(mail[s]) /\ \A t \in Subscriber : t # s => mail'[t] = mail[t]
    BY <2>2, <2>3
  <2> QED BY <2>2, <2>3, <2>4, <2>5, Shows
<1>20. CASE \E s \in Subscriber : StreamEnds(s)
  <2>1. PICK s \in Subscriber : StreamEnds(s)
    BY <1>20
  <2>2. mail' = [mail EXCEPT ![s] = <<>>] /\ UNCHANGED <<engine, local, latest, shown>>
    BY <2>1 DEF StreamEnds, update, sockets
  <2> QED BY <2>2, Untold DEF TypeOK, LinesOK
<1>21. CASE \E c \in Client : ReadAll(c)
    BY <1>21, Untold DEF ReadAll, schedule, update, lines, sockets
<1>22. CASE \E c \in Client : StopReading(c)
    BY <1>22, Untold DEF StopReading, schedule, update, lines, sockets
<1>23. CASE \E c \in Client : HangUp(c)
    BY <1>23, Untold DEF HangUp, schedule, update, lines, sockets
<1>24. CASE UNCHANGED vars
  <2>1. UNCHANGED <<shown, latest, mail, engine, local>>
    BY <1>24 DEF vars, update, lines, sockets
  <2> QED BY <2>1, Untold
<1> QED BY <1>1, <1>2, <1>3, <1>4, <1>5, <1>6, <1>7, <1>8, <1>9, <1>10, <1>11, <1>12, <1>13,
       <1>14, <1>15, <1>16, <1>17, <1>18, <1>19, <1>20, <1>21, <1>22, <1>23, <1>24,
       NextActions

\* Nobody is shown progress going backwards, provided no line is passed on between a
\* subscription and its replay.
THEOREM NeverBackwards == "overtaken" \notin Habits => (Spec => [][ShownInOrder]_vars)
<1> SUFFICES ASSUME "overtaken" \notin Habits PROVE Spec => [][ShownInOrder]_vars
  OBVIOUS
<1>1. Init => StreamOK /\ ToldOK
  BY DEF Init, StreamOK, ToldOK, Told, Rising, Passing, Client
<1>2. IInv /\ StreamOK /\ ToldOK /\ [Next]_vars => (StreamOK /\ ToldOK)' /\ ShownInOrder
  BY StepStream, StepTold DEF IInv
<1> QED BY Invariance, <1>1, <1>2, PTL DEF Spec

\* Progress is told in order and to the end, in the two circumstances of the run.
THEOREM ToldInOrder ==
  {"pumpLags", "overtaken"} \cap Habits = {} => (Spec => ProgressIsTold)
<1> SUFFICES ASSUME {"pumpLags", "overtaken"} \cap Habits = {} PROVE Spec => ProgressIsTold
  OBVIOUS
<1>1. Spec => []LatestIsLast
  BY LastLineIsKept
<1>2. Spec => [][ShownInOrder]_vars
  BY NeverBackwards
<1> QED BY <1>1, <1>2, PTL DEF ProgressIsTold

=============================================================================

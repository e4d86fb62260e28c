------------------------------ MODULE Service ------------------------------
(***************************************************************************)
(* The service interface of `updaterd` (`ipc.rs`): one engine behind a     *)
(* mutex that everybody only tries, a scheduler that applies releases with *)
(* no client attached, and the progress of an update on its way to the     *)
(* client that asked for it and to those who subscribed.                   *)
(*                                                                         *)
(* What an operation does to the store is `Updater`; here it is a release  *)
(* fetched, some lines of progress and an outcome.                         *)
(***************************************************************************)
EXTENDS Integers, Sequences, FiniteSets

CONSTANTS
    Release,
    Good,         \* the releases that pass their health gate
    Mandatory,    \* those below the minimum supported version say: update at once
    Permits,      \* AutoApply::permits: the urgencies the policy covers
    Caller,       \* connections that ask for updates
    Subscriber,   \* connections that ask for progress
    None,         \* no holder, no release, no line
    Scheduler,    \* the scheduler as a holder of the engine
    Lines,        \* bound: lines of progress in an update
    Room,         \* bound: lines a connection's socket holds unread
    Buffer,       \* PROGRESS_BUFFER
    MaxCalls,     \* bound: updates asked for by callers
    MaxMoves,     \* bound: times the newest release changes
    Habits        \* the circumstances considered, of Circumstances

\* "moves":     the newest release changes between a check and the update after it.
\* "stops":     a client that asked for an update, or has yet to be shown the latest
\*              line, stops reading and keeps its connection.
\* "pumpLags":  an update ends before its last lines were passed on.
\* "overtaken": a line is passed on between a subscription and its replay.
Circumstances == {"moves", "stops", "pumpLags", "overtaken"}

\* A line of progress: which update's, and which of its lines.
Line == [job : Nat, n : 1..Lines]

ASSUME ServiceAssumption ==
    /\ Good \cup Mandatory \subseteq Release /\ Permits \subseteq BOOLEAN
    /\ None \notin Release \cup Caller \cup Subscriber \cup {Scheduler} \cup Line
    /\ Scheduler \notin Caller /\ Caller \cap Subscriber = {}
    /\ {Lines, Room, Buffer} \subseteq Nat \ {0}
    /\ {MaxCalls, MaxMoves} \subseteq Nat
    /\ Habits \subseteq Circumstances

Client == Caller \cup Subscriber

VARIABLES
    head,       \* the newest release its source has
    installed,
    bad,        \* known_bad
    moves,      \* so far
    engine,     \* who holds it
    sched,      \* the scheduler: "asleep", "checking", or "checked"
    candidate,  \* and what its check found
    target,     \* the release the running update fetched
    job,        \* how many updates have reported anything
    phase,      \* the lines the running one has reported
    rx,         \* reported, and not yet taken by the pump
    pump,       \* "off" or "on"
    latest,     \* the line a new subscriber is shown first
    holder,     \* who holds the lock on it
    local,      \* passed on to the caller's connection
    calls,      \* so far
    client,     \* a client's side: "reads", "stopped" or "gone"
    unread,     \* lines in its socket
    sub,        \* a subscriber's connection: "off", "replaying" or "streaming"
    mail,       \* what the broadcast holds for it
    shown       \* the last line written to a client

schedule == <<head, installed, bad, moves, sched, candidate>>
update   == <<engine, target, job, phase, calls>>
lines    == <<rx, pump, latest, holder, local, mail, sub>>
sockets  == <<client, unread, shown>>
vars     == <<schedule, update, lines, sockets>>

Before(a, b) == a.job < b.job \/ (a.job = b.job /\ a.n < b.n)

ScheduleOK ==
    /\ head \in Release /\ installed \in Release /\ bad \subseteq Release
    /\ moves \in 0..MaxMoves
    /\ sched \in {"asleep", "checking", "checked"}
    /\ candidate \in Release \cup {None}

UpdateOK ==
    /\ engine \in Caller \cup {None, Scheduler}
    /\ target \in Release \cup {None}
    /\ job \in Nat /\ phase \in 0..Lines /\ calls \in 0..MaxCalls

LinesOK ==
    /\ rx \in Seq(Line) /\ local \in Seq(Line) /\ pump \in {"off", "on"}
    /\ latest \in Line \cup {None} /\ holder \in Subscriber \cup {None}
    /\ sub \in [Subscriber -> {"off", "replaying", "streaming"}]
    /\ mail \in [Subscriber -> Seq(Line)]
    /\ \A s \in Subscriber : Len(mail[s]) <= Buffer

SocketsOK ==
    /\ client \in [Client -> {"reads", "stopped", "gone"}]
    /\ unread \in [Client -> 0..Room]
    /\ shown \in [Client -> Line \cup {None}]

TypeOK == ScheduleOK /\ UpdateOK /\ LinesOK /\ SocketsOK

Init ==
    /\ head \in Release /\ installed \in Release /\ bad = {} /\ moves = 0
    /\ engine = None /\ sched = "asleep" /\ candidate = None
    /\ target = None /\ job = 0 /\ phase = 0 /\ calls = 0
    /\ rx = <<>> /\ pump = "off" /\ latest = None /\ holder = None /\ local = <<>>
    /\ client = [c \in Client |-> "reads"]
    /\ unread = [c \in Client |-> 0]
    /\ sub = [s \in Subscriber |-> "off"]
    /\ mail = [s \in Subscriber |-> <<>>]
    /\ shown = [c \in Client |-> None]

-----------------------------------------------------------------------------
(* The scheduler.                                                          *)

\* The engine is held across the check's requests.
Wake ==
    /\ sched = "asleep" /\ engine = None
    /\ engine' = Scheduler /\ sched' = "checking"
    /\ UNCHANGED <<head, installed, bad, moves, candidate, target, job, phase, calls, lines, sockets>>

Permitted(r) == (r \in Mandatory) \in Permits

Available ==
    /\ sched = "checking"
    /\ head # installed /\ Permitted(head)
    /\ engine' = None /\ sched' = "checked" /\ candidate' = head
    /\ UNCHANGED <<head, installed, bad, moves, target, job, phase, calls, lines, sockets>>

\* Up to date, incompatible, not covered by the policy, or the source is unreachable.
NotNow ==
    /\ sched = "checking"
    /\ engine' = None /\ sched' = "asleep"
    /\ UNCHANGED <<head, installed, bad, moves, candidate, target, job, phase, calls, lines, sockets>>

\* Mutant of StandsDown: a release that failed here stops every other one.
StandsDownForAny ==
    /\ sched = "checked"
    /\ engine # None \/ bad # {}
    /\ sched' = "asleep" /\ candidate' = None
    /\ UNCHANGED <<head, installed, bad, moves, update, lines, sockets>>

\* Somebody else's update, or a release that already failed here.
StandsDown ==
    /\ sched = "checked"
    /\ engine # None \/ candidate \in bad
    /\ sched' = "asleep" /\ candidate' = None
    /\ UNCHANGED <<head, installed, bad, moves, update, lines, sockets>>

Begin(who) ==
    /\ engine = None
    /\ engine' = who
    /\ phase' = 0 /\ target' = None
    /\ pump' = "on" /\ rx' = <<>> /\ local' = <<>>
    /\ UNCHANGED <<head, installed, bad, moves, job, latest, holder, mail, sub, sockets>>

\* Mutant of ApplyUnattended: what failed before is tried again.
ApplyAgain ==
    /\ sched = "checked"
    /\ Begin(Scheduler)
    /\ sched' = "asleep"
    /\ UNCHANGED <<candidate, calls>>

ApplyUnattended ==
    /\ sched = "checked"
    /\ candidate \notin bad
    /\ Begin(Scheduler)
    /\ sched' = "asleep"
    /\ UNCHANGED <<candidate, calls>>

\* A client's own request: what failed before may be tried again.
Apply(c) ==
    /\ client[c] # "gone" /\ calls < MaxCalls
    /\ calls' = calls + 1
    /\ Begin(c)
    /\ UNCHANGED <<sched, candidate>>

-----------------------------------------------------------------------------
(* The update: Engine::apply, polled by run_mutating or apply_unattended.  *)

\* The source publishes another release, or withdraws one.
Move(r) ==
    /\ moves < MaxMoves
    /\ "moves" \in Habits \/ (sched # "checked" /\ ~(engine = Scheduler /\ pump = "on" /\ target = None))
    /\ moves' = moves + 1
    /\ r # head /\ head' = r
    /\ UNCHANGED <<installed, bad, sched, candidate, update, lines, sockets>>

\* The caller's connection writes what it was passed before it polls the update again.
Polled == /\ pump = "on"
          /\ engine \in Caller => local = <<>> \/ client[engine] = "gone"

\* Target::Latest: the index is asked again.
Fetch ==
    /\ Polled /\ target = None
    /\ target' = head
    /\ UNCHANGED <<schedule, engine, job, phase, calls, lines, sockets>>

Report ==
    /\ Polled /\ target # None /\ phase < Lines
    /\ phase' = phase + 1
    /\ job' = IF phase = 0 THEN job + 1 ELSE job
    /\ rx' = Append(rx, [job |-> job', n |-> phase + 1])
    /\ UNCHANGED <<schedule, engine, target, calls, pump, latest, holder, local, mail, sub, sockets>>

\* Mutant of End: the last step of a release that fails is tried again.
EndRetries ==
    /\ Polled /\ phase = Lines
    /\ "pumpLags" \in Habits \/ rx = <<>>
    /\ IF target \in Good
       THEN pump' = "off" /\ engine' = None /\ installed' = target /\ UNCHANGED phase
       ELSE phase' = Lines - 1 /\ UNCHANGED <<pump, engine, installed>>
    /\ UNCHANGED <<head, moves, bad, candidate, sched, target, job, calls, rx, latest, holder, local, mail, sub, sockets>>

\* The outcome, and pump.abort(): what it has not taken is dropped.
End ==
    /\ Polled /\ phase = Lines
    /\ "pumpLags" \in Habits \/ rx = <<>>
    /\ pump' = "off" /\ rx' = <<>>
    /\ IF target \in Good THEN installed' = target /\ UNCHANGED bad
                          ELSE bad' = bad \cup {target} /\ UNCHANGED installed
    /\ engine' = IF engine = Scheduler THEN None ELSE engine
    /\ candidate' = IF engine = Scheduler THEN None ELSE candidate
    /\ UNCHANGED <<head, moves, sched, target, job, phase, calls, latest, holder, local, mail, sub, sockets>>

\* The fetch, the download or the verification fails: nothing was touched.
Refuse ==
    /\ Polled /\ target # None /\ phase = 0
    /\ pump' = "off"
    /\ engine' = IF engine = Scheduler THEN None ELSE engine
    /\ candidate' = IF engine = Scheduler THEN None ELSE candidate
    /\ UNCHANGED <<head, installed, bad, moves, sched, target, job, phase, calls,
                   rx, latest, holder, local, mail, sub, sockets>>

\* The answer, once what was passed on is written; the engine is held until then.
Answer ==
    /\ engine \in Caller /\ pump = "off"
    /\ local = <<>> \/ client[engine] = "gone"
    /\ engine' = None /\ local' = <<>>
    /\ UNCHANGED <<schedule, target, job, phase, calls, rx, pump, latest, holder, mail, sub, sockets>>

-----------------------------------------------------------------------------
(* Progress.                                                               *)

\* Mutant of Posted: a connection collects lines before it subscribes.
PostedEarly(s, line) == IF Len(mail[s]) < Buffer THEN Append(mail[s], line)
                        ELSE Append(Tail(mail[s]), line)

\* A subscriber that lags loses the oldest.
Posted(s, line) ==
    IF sub[s] = "off" THEN <<>>
    ELSE Append(IF Len(mail[s]) < Buffer THEN mail[s] ELSE Tail(mail[s]), line)

\* Mutant of PassOn: the latest line is not kept.
PassOnOnly ==
    /\ pump = "on" /\ rx # <<>>
    /\ holder = None
    /\ "overtaken" \in Habits \/ \A s \in Subscriber : sub[s] # "replaying"
    /\ rx' = Tail(rx)
    /\ mail' = [s \in Subscriber |-> Posted(s, Head(rx))]
    /\ local' = IF engine \in Caller THEN Append(local, Head(rx)) ELSE local
    /\ UNCHANGED <<schedule, update, pump, latest, holder, sub, sockets>>

\* The pump: latest, then the broadcast, then the caller's connection.
PassOn ==
    /\ pump = "on" /\ rx # <<>>
    /\ holder = None
    /\ "overtaken" \in Habits \/ \A s \in Subscriber : sub[s] # "replaying"
    /\ rx' = Tail(rx)
    /\ latest' = Head(rx)
    /\ mail' = [s \in Subscriber |-> Posted(s, Head(rx))]
    /\ local' = IF engine \in Caller THEN Append(local, Head(rx)) ELSE local
    /\ UNCHANGED <<schedule, update, pump, holder, sub, sockets>>

Written(c, line) ==
    /\ client[c] # "gone" /\ unread[c] < Room
    /\ unread' = [unread EXCEPT ![c] = @ + 1]
    /\ shown' = [shown EXCEPT ![c] = line]
    /\ UNCHANGED client

WriteToCaller(c) ==
    /\ engine = c /\ local # <<>>
    /\ Written(c, Head(local))
    /\ local' = Tail(local)
    /\ UNCHANGED <<schedule, update, rx, pump, latest, holder, mail, sub>>

Subscribe(s) ==
    /\ sub[s] = "off" /\ client[s] # "gone"
    /\ sub' = [sub EXCEPT ![s] = "replaying"]
    /\ UNCHANGED <<schedule, update, rx, pump, latest, holder, local, mail, sockets>>

LockLatest(s) ==
    /\ sub[s] = "replaying" /\ holder = None /\ latest # None
    /\ holder' = s
    /\ UNCHANGED <<schedule, update, rx, pump, latest, local, mail, sub, sockets>>

NothingToReplay(s) ==
    /\ sub[s] = "replaying" /\ holder = None /\ latest = None
    /\ sub' = [sub EXCEPT ![s] = "streaming"]
    /\ UNCHANGED <<schedule, update, rx, pump, latest, holder, local, mail, sockets>>

\* The lock is held while the line is written.
Replay(s) ==
    /\ holder = s
    /\ Written(s, latest)
    /\ holder' = None
    /\ sub' = [sub EXCEPT ![s] = "streaming"]
    /\ UNCHANGED <<schedule, update, rx, pump, latest, local, mail>>

Stream(s) ==
    /\ sub[s] = "streaming" /\ mail[s] # <<>>
    /\ Written(s, Head(mail[s]))
    /\ mail' = [mail EXCEPT ![s] = Tail(@)]
    /\ UNCHANGED <<schedule, update, rx, pump, latest, holder, local, sub>>

\* A write to a client that is gone ends its stream.
StreamEnds(s) ==
    /\ client[s] = "gone"
    /\ holder = s \/ (sub[s] = "streaming" /\ mail[s] # <<>>)
    /\ sub' = [sub EXCEPT ![s] = "off"]
    /\ mail' = [mail EXCEPT ![s] = <<>>]
    /\ holder' = IF holder = s THEN None ELSE holder
    /\ UNCHANGED <<schedule, update, rx, pump, latest, local, sockets>>

-----------------------------------------------------------------------------
(* The clients.                                                            *)

ReadAll(c) ==
    /\ client[c] = "reads" /\ unread[c] > 0
    /\ unread' = [unread EXCEPT ![c] = 0]
    /\ UNCHANGED <<schedule, update, lines, client, shown>>

StopReading(c) ==
    /\ client[c] = "reads"
    /\ "stops" \in Habits \/ (c \in Subscriber /\ sub[c] = "streaming")
    /\ client' = [client EXCEPT ![c] = "stopped"]
    /\ UNCHANGED <<schedule, update, lines, unread, shown>>

HangUp(c) ==
    /\ client[c] # "gone"
    /\ client' = [client EXCEPT ![c] = "gone"]
    /\ UNCHANGED <<schedule, update, lines, unread, shown>>

Check    == Available \/ NotNow \/ StandsDown \/ ApplyUnattended
Run      == Fetch \/ Report \/ End \/ Answer
Subscribed(s) == LockLatest(s) \/ NothingToReplay(s) \/ Replay(s) \/ Stream(s) \/ StreamEnds(s)

Next == \/ Wake \/ Check \/ Run \/ Refuse \/ PassOn
        \/ \E r \in Release : Move(r)
        \/ \E c \in Caller : Apply(c) \/ WriteToCaller(c)
        \/ \E s \in Subscriber : Subscribe(s) \/ Subscribed(s)
        \/ \E c \in Client : ReadAll(c) \/ StopReading(c) \/ HangUp(c)

Spec == Init /\ [][Next]_vars

\* The interval passes, tasks are scheduled, a client that reads goes on reading, and
\* a source that is asked again and again answers and serves in the end.
FairSpec ==
    /\ Spec
    /\ WF_vars(Wake) /\ WF_vars(Check) /\ WF_vars(Run) /\ WF_vars(PassOn)
    /\ SF_vars(Available) /\ SF_vars(Report)
    /\ \A c \in Caller : WF_vars(WriteToCaller(c))
    /\ \A s \in Subscriber : WF_vars(Subscribed(s))
    /\ \A c \in Client : WF_vars(ReadAll(c))

-----------------------------------------------------------------------------
(* Properties.                                                             *)

\* With no client attached, nothing is applied that failed here before, or that the
\* policy does not cover.
UnattendedIsVetted ==
    engine = Scheduler /\ pump = "on" /\ target # None
        => target \notin bad /\ Permitted(target)

\* When no update runs, a client that subscribes is shown how the last one ended.
LatestIsLast == engine = None /\ job > 0 => latest = [job |-> job, n |-> Lines]

\* Nobody is shown progress going backwards.
ShownInOrder == \A c \in Client : shown'[c] # shown[c] /\ shown[c] # None
                                     => Before(shown[c], shown'[c])

\* Progress is told in order and to the end.
ProgressIsTold == [][LatestIsLast' /\ ShownInOrder]_vars

\* An update ends, and frees the engine, whoever watches and whoever hangs up.
UpdateEnds == engine # None ~> engine = None

\* A mandatory release reaches a robot nobody attends to.
MandatoryIsApplied ==
    \A r \in Good \cap Mandatory :
        TRUE \in Permits /\ <>[](head = r) => <>[](installed = r)

=============================================================================

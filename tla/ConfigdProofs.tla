--------------------------- MODULE ConfigdProofs ---------------------------
(***************************************************************************)
(* What is proved of Configd: for any networks, pads and number of calls,  *)
(* restarts, power cuts and failed bus calls, while clients keep to the    *)
(* habits that a theorem names.                                            *)
(***************************************************************************)
EXTENDS Configd, SequenceTheorems, WellFoundedInduction, TLAPS

Op(n) == calls[n].ask.op
Both(m, n, s) == IsAbout(m, s) /\ IsAbout(n, s) /\ m # n

-----------------------------------------------------------------------------
(* Networks. *)

\* Nothing about a network runs beside a connect, or comes while it runs.
OneAtATime ==
  \A n \in Running, m \in DOMAIN calls, s \in Ssids :
    Both(m, n, s) /\ "connect" \in {Op(m), Op(n)} => m < n /\ m \notin Running

\* A call's profile is one that it has added, for the network it is about.
Adds(id) == At(id, "poll") \/ At(id, "cleanUp") \/ At(id, "done") \/ At(id, "lost")
Known(id) == id \in Old \/ (Adds(id) /\ Op(id) = "connect")
IsFor(p) == IF p.id \in Old THEN p.ssid = OldSsid[p.id] ELSE IsAbout(p.id, p.ssid)
ProfilesOK ==
  /\ \A p \in profiles : Known(p.id) /\ IsFor(p)
  /\ \A n \in DOMAIN calls, s \in Ssids : IsAbout(n, s) =>
       \A id \in calls[n].found : Known(id) /\ \A p \in profiles : p.id = id => p.ssid = s

\* What a running call has yet to delete, and what is saved once it has: beside
\* what it failed to delete.
Deleting(n, s) ==
  /\ At(n, "delete") => SavedConnections(s) \subseteq calls[n].found \cup calls[n].left
  /\ At(n, "add") => SavedConnections(s) \subseteq calls[n].left
  /\ At(n, "poll") \/ At(n, "cleanUp")
       => n \in SavedConnections(s) /\ SavedConnections(s) \subseteq {n} \cup calls[n].left

\* A call that was answered, and that no later one has gone beyond.
Stands(n, s) ==
  /\ IsAbout(n, s) /\ At(n, "done") /\ calls[n].answer # "refused"
  /\ \A m \in DOMAIN calls : IsAbout(m, s) /\ m > n => At(m, "scan") \/ calls[m].answer = "refused"

Own(n) == IF calls[n].answer = "connected" THEN {n} ELSE {}
Left(n, s) ==
  Own(n) \subseteq SavedConnections(s) /\ SavedConnections(s) \subseteq Own(n) \cup calls[n].left

NetOK == "oneNetwork" \notin Habits =>
  /\ OneAtATime
  /\ \A s \in Ssids, n \in DOMAIN calls :
       /\ IsAbout(n, s) => Deleting(n, s)
       /\ Stands(n, s) => Left(n, s)

-----------------------------------------------------------------------------
(* The file. *)

\* One set at a time, and it is the last.
OneWriter ==
  \A n \in Running, m \in DOMAIN calls : Op(n) = "set" /\ Op(m) = "set" => m <= n

\* A field holds what a call that set it stored, and no older one than was answered for.
Holds(store) ==
  \A f \in Field :
    /\ store[f] = 0 \/ (store[f] \in DOMAIN calls /\ Sets(store[f], f))
    /\ \A n \in DOMAIN calls : Sets(n, f) /\ calls[n].answer = "stored" => n <= store[f]

StoreOK == "oneFile" \notin Habits =>
  /\ OneWriter
  /\ Holds(file) /\ Holds(disk)
  /\ \A n \in DOMAIN calls :
       /\ At(n, "write") => calls[n].config = file
       /\ At(n, "sync") => file[calls[n].ask.field] = n

-----------------------------------------------------------------------------
(* Pads. *)

Locked == Step("pair") \ {"lock"}
Answering == {"connect", "settle", "bond", "trust", "withdraw", "withdrawFailed"}
OfPad == Answering \cup {"agent", "agentBonded", "reread"}

\* The mutex is held through a pairing, the radio through the part that needs it.
RadioOK ==
  /\ \A n \in DOMAIN calls : Op(n) = "pair" =>
       /\ calls[n].at \in Locked => n = pairing
       /\ calls[n].at \in OfPad \/ calls[n].answer = "paired" => Pad(n) \in Pads
  /\ pairing # 0 => pairing \in DOMAIN calls /\ Op(pairing) = "pair" /\ calls[pairing].at \in Locked
  /\ radio.scanning => pairing # 0 /\ At(pairing, "find")
  /\ radio.agent # 0 => pairing # 0 /\ calls[pairing].at \in Answering /\ radio.agent = Pad(pairing)

\* Nothing is forgotten beside a pairing.
PairOrDrop ==
  \A n \in Running, m \in DOMAIN calls :
    {Op(n), Op(m)} = {"pair", "drop"} => m < n /\ m \notin Running

TrustOK == "onePad" \notin Habits =>
  /\ PairOrDrop
  /\ \A n \in DOMAIN calls :
       Op(n) = "pair" /\ (At(n, "withdraw") \/ At(n, "reread"))
         => pads[Pad(n)].bonded /\ pads[Pad(n)].trusted
  /\ PairedIsTrusted

IInv == TypeOK /\ ProfilesOK /\ NetOK /\ StoreOK /\ RadioOK /\ TrustOK
USE ConfigdAssumption DEF ConfigdAssumption
-----------------------------------------------------------------------------
(* The least and the largest of a set of numbers.                          *)

Less == {ss \in Nat \X Nat : ss[1] < ss[2]}

LEMMA LessIsWellFounded == IsWellFoundedOn(Less, Nat)
BY NatLessThanWellFounded, Zenon DEF OpToRel, Less

LEMMA HasMin ==
  ASSUME NEW S, S \subseteq Nat, S # {}
  PROVE  \E x \in S : \A y \in S : x <= y
<1>1. PICK x \in S : \A y \in S : <<y, x>> \notin Less
  BY LessIsWellFounded, WFMin, Zenon
<1>2. ASSUME NEW y \in S PROVE x <= y
  <2>1. x \in Nat /\ y \in Nat
    OBVIOUS
  <2>2. y < x => <<y, x>> \in Less
    BY <2>1 DEF Less
  <2> QED BY <1>1, <2>1, <2>2
<1> QED BY <1>2

LEMMA MinIsIn ==
  ASSUME NEW S, S \subseteq Nat, S # {}
  PROVE  Min(S) \in S
BY HasMin, Zenon DEF Min

LEMMA MaxIsIn ==
  ASSUME NEW N \in Nat, NEW S, S \subseteq 1..N, S # {}
  PROVE  Max(S) \in S /\ \A y \in S : y <= Max(S)
<1> DEFINE T == {N - x : x \in S}
<1>1. PICK x \in T : \A y \in T : x <= y
  <2>1. \A x \in S : N - x \in Nat
    OBVIOUS
  <2>2. T \subseteq Nat /\ T # {}
    BY <2>1
  <2> HIDE DEF T
  <2> QED BY <2>2, HasMin, Zenon
<1>2. PICK z \in S : x = N - z
  OBVIOUS
<1>3. \A y \in S : z >= y
  <2> TAKE y \in S
  <2>1. x <= N - y
    BY <1>1
  <2> QED BY <1>2, <2>1
<1>4. Max(S) \in S /\ \A y \in S : Max(S) >= y
  BY <1>3, Zenon DEF Max
<1>5. \A y \in S : y \in Nat
  OBVIOUS
<1> QED BY <1>4, <1>5

-----------------------------------------------------------------------------
(* How a call moves.                                                       *)

Moves(n) ==
  /\ n \in Running /\ DOMAIN calls' = DOMAIN calls
  /\ \A m \in DOMAIN calls : m # n => calls'[m] = calls[m]
  /\ calls'[n].ask = calls[n].ask

LEMMA AskIs ==
  ASSUME NEW ask \in Ask
  PROVE  /\ ask.op \in Kind
         /\ ask.op \in {"connect", "forget"} => ask.ssid \in Ssids
         /\ ask.op = "connect" => ask.key \in {"right", "wrong"}
         /\ ask.op = "set" => ask.field \in Field
         /\ ask.op = "drop" => ask.pad \in Pads /\ ask = [op |-> "drop", pad |-> ask.pad]
BY DEF Ask, Kind

LEMMA KindIs ==
  ASSUME NEW n, calls[n] \in Call
  PROVE  Op(n) \in Kind
<1>1. calls[n].ask \in Ask
  BY DEF Call
<1> QED BY <1>1, AskIs DEF Op

LEMMA CallIs ==
  ASSUME CallsOK, NEW n \in DOMAIN calls
  PROVE  /\ n \in Number /\ calls[n] \in Call
         /\ calls[n].at \in Step(Op(n)) \cup Ended
         /\ calls[n].answer \in IF calls[n].at = "done" THEN Reply(Op(n)) ELSE {"none"}
<1>1. calls \in Seq(Call) /\ DOMAIN calls = 1..Len(calls) /\ Len(calls) \in 0..MaxCalls
  BY DEF CallsOK
<1>2. n \in Number /\ calls[n] \in Call
  BY <1>1 DEF Number
<1> QED BY <1>2 DEF CallsOK, At, Op

LEMMA Becomes ==
  ASSUME CallsOK, NEW n \in Running, NEW c \in Call, calls' = [calls EXCEPT ![n] = c],
         c.ask = calls[n].ask, c.at \in Step(Op(n)) \cup Ended,
         c.answer \in IF c.at = "done" THEN Reply(Op(n)) ELSE {"none"}
  PROVE  CallsOK' /\ Moves(n) /\ calls'[n] = c
<1>1. n \in DOMAIN calls /\ calls \in Seq(Call) /\ DOMAIN calls = 1..Len(calls)
  BY DEF CallsOK, Running
<1>2. calls' \in Seq(Call) /\ Len(calls') = Len(calls)
  BY <1>1, ExceptSeq
<1>3. DOMAIN calls' = DOMAIN calls /\ calls'[n] = c /\ \A m \in DOMAIN calls : m # n => calls'[m] = calls[m]
  BY <1>1
<1>4. Moves(n)
  BY <1>1, <1>3 DEF Moves
<1>5. ASSUME NEW m \in DOMAIN calls'
      PROVE  /\ calls'[m].at \in Step(calls'[m].ask.op) \cup Ended
             /\ calls'[m].answer \in IF At(m, "done")' THEN Reply(calls'[m].ask.op) ELSE {"none"}
  <2>1. CASE m = n
    BY <1>3, <2>1 DEF At, Op
  <2>2. CASE m # n
    BY <1>3, <2>2 DEF At, CallsOK
  <2> QED BY <2>1, <2>2
<1> QED BY <1>2, <1>3, <1>4, <1>5 DEF CallsOK

LEMMA GoesOn ==
  ASSUME CallsOK, NEW n \in Running, NEW step \in Step(Op(n)), Goes(n, step)
  PROVE  /\ CallsOK' /\ Moves(n)
         /\ calls'[n] = [calls[n] EXCEPT !.at = step]
<1> DEFINE c == [calls[n] EXCEPT !.at = step]
<1>1. n \in DOMAIN calls /\ calls[n] \in Call /\ calls[n].answer = "none"
  BY CallIs DEF Running, Ended
<1>2. step \in (UNION {Step(op) : op \in Kind}) \cup Ended /\ step # "done"
  BY <1>1, KindIs DEF Step, Kind
<1>3. c \in Call /\ c.ask = calls[n].ask /\ c.at = step /\ c.answer = "none"
  BY <1>1, <1>2 DEF Call
<1>4. calls' = [calls EXCEPT ![n] = c]
  BY DEF Goes
<1> HIDE DEF c
<1>5. CallsOK' /\ Moves(n) /\ calls'[n] = c
  BY <1>2, <1>3, <1>4, Becomes
<1> QED BY <1>5 DEF c

LEMMA IsAnswered ==
  ASSUME CallsOK, NEW n \in Running, NEW what \in Reply(Op(n)), Answer(n, what)
  PROVE  /\ CallsOK' /\ Moves(n)
         /\ calls'[n] = [calls[n] EXCEPT !.at = "done", !.answer = what, !.found = {}]
<1> DEFINE c == [calls[n] EXCEPT !.at = "done", !.answer = what, !.found = {}]
<1>1. n \in DOMAIN calls /\ calls[n] \in Call
  BY CallIs DEF Running
<1>2. what \in (UNION {Reply(op) : op \in Kind}) \cup {"none"}
  BY <1>1, KindIs
<1>3. c \in Call /\ c.ask = calls[n].ask /\ c.at = "done" /\ c.answer = what
  BY <1>1, <1>2 DEF Call, Ended
<1>4. calls' = [calls EXCEPT ![n] = c]
  BY DEF Answer
<1> HIDE DEF c
<1>5. CallsOK' /\ Moves(n) /\ calls'[n] = c
  BY <1>3, <1>4, Becomes DEF Ended
<1> QED BY <1>5 DEF c

LEMMA IsAnsweredLeaving ==
  ASSUME CallsOK, NEW n \in Running, NEW what \in Reply(Op(n)), AnswerLeaving(n, what)
  PROVE  /\ CallsOK' /\ Moves(n)
         /\ calls'[n] = [calls[n] EXCEPT !.at = "done", !.answer = what, !.found = {},
                                          !.left = @ \cup {n}]
<1> DEFINE c == [calls[n] EXCEPT !.at = "done", !.answer = what, !.found = {}, !.left = @ \cup {n}]
<1>1. n \in DOMAIN calls /\ calls[n] \in Call /\ n \in Id
  BY CallIs DEF Running, Id
<1>2. what \in (UNION {Reply(op) : op \in Kind}) \cup {"none"}
  BY <1>1, KindIs
<1>3. c \in Call /\ c.ask = calls[n].ask /\ c.at = "done" /\ c.answer = what
  BY <1>1, <1>2 DEF Call, Ended
<1>4. calls' = [calls EXCEPT ![n] = c]
  BY DEF AnswerLeaving
<1> HIDE DEF c
<1>5. CallsOK' /\ Moves(n) /\ calls'[n] = c
  BY <1>3, <1>4, Becomes DEF Ended
<1> QED BY <1>5 DEF c

(* A list or a delete fails: what was to be deleted stays.                 *)
LEMMA Leaves ==
  ASSUME CallsOK, NEW n \in Running, Op(n) \in {"connect", "forget"},
         NEW ids \in SUBSET Id, LeavesAll(n, ids)
  PROVE  /\ CallsOK' /\ Moves(n)
         /\ calls'[n].found = {} /\ calls'[n].left = calls[n].left \cup ids
         /\ IF Op(n) = "forget" THEN calls'[n].at = "done" /\ calls'[n].answer = "error"
                                ELSE calls'[n].at = "add" /\ calls'[n].answer = "none"
<1> DEFINE step == IF Op(n) = "forget" THEN "done" ELSE "add"
           what == IF Op(n) = "forget" THEN "error" ELSE "none"
           c == [calls[n] EXCEPT !.at = step, !.answer = what, !.found = {}, !.left = @ \cup ids]
<1>1. n \in DOMAIN calls /\ calls[n] \in Call
  BY CallIs DEF Running
<1>2. step \in Step(Op(n)) \cup Ended /\ what \in IF step = "done" THEN Reply(Op(n)) ELSE {"none"}
  BY DEF Step, Ended, Reply
<1>3. step \in (UNION {Step(op) : op \in Kind}) \cup Ended
  BY <1>1, <1>2, KindIs
<1>4. what \in (UNION {Reply(op) : op \in Kind}) \cup {"none"}
  BY <1>1, <1>2, KindIs
<1>5. calls' = [calls EXCEPT ![n] = c]
  BY DEF LeavesAll, Op
<1> HIDE DEF step, what
<1>6. /\ c \in Call /\ c.ask = calls[n].ask /\ c.at = step /\ c.answer = what
      /\ c.found = {} /\ c.left = calls[n].left \cup ids
  BY <1>1, <1>3, <1>4 DEF Call
<1> HIDE DEF c
<1>7. CallsOK' /\ Moves(n) /\ calls'[n] = c
  BY <1>2, <1>5, <1>6, Becomes
<1> QED BY <1>6, <1>7 DEF step, what

LEMMA StepTells ==
  ASSUME CallsOK, NEW n \in DOMAIN calls
  PROVE  /\ calls[n].at = "scan" => Op(n) = "connect"
         /\ calls[n].at \in {"list", "delete"} => Op(n) \in {"connect", "forget"}
         /\ calls[n].at \in {"add", "poll", "cleanUp"} => Op(n) = "connect"
         /\ calls[n].at \in {"read", "write", "sync"} => Op(n) = "set"
         /\ calls[n].at \in Step("pair") => Op(n) = "pair"
         /\ calls[n].at = "drop" => Op(n) = "drop"
BY CallIs, KindIs DEF Step, Ended, Kind

LEMMA NetMoves ==
  ASSUME CallsOK, profiles \subseteq Profile, NEW n \in Number, OfNet(n)
  PROVE  CallsOK' /\ Moves(n) /\ Op(n) \in {"connect", "forget"}
<1>0. At(n, calls[n].at) /\ n \in DOMAIN calls /\ calls[n].at \in {"scan", "list", "delete", "add", "poll", "cleanUp"}
  BY Zenon DEF OfNet, Refuse, Scan, List, ListSkips, ListFails, DeleteSaved, DeleteFails,
         Forgotten, Replaced, AddFails, AddAndActivate, Connected, StatusFails, NotConnected,
         ConnectTimeout, CleanUp, CleanUpFails, Net, NetAt, NetFails, At
<1>1. Op(n) \in {"connect", "forget"} /\ n \in Running /\ calls[n] \in Call
  BY <1>0, StepTells, CallIs DEF Running, Ended
<1>2. CASE Refuse(n)
  BY <1>1, <1>2, StepTells, IsAnswered DEF Refuse, Net, NetAt, At, Reply
<1>3. CASE Scan(n)
  BY <1>1, <1>3, StepTells, GoesOn DEF Scan, Net, NetAt, At, Step
<1>4. CASE List(n)
  <2> DEFINE saved == SavedConnections(calls[n].ask.ssid)
             c == [calls[n] EXCEPT !.at = "delete", !.found = saved]
  <2>1. saved \in SUBSET Id
    BY DEF SavedConnections, Profile
  <2>2. calls' = [calls EXCEPT ![n] = c]
    BY <1>4 DEF List
  <2>3. "delete" \in Step(Op(n)) /\ calls[n].answer = "none"
    BY <1>0, <1>1, CallIs DEF Step
  <2> HIDE DEF saved
  <2>5. "delete" \in (UNION {Step(op) : op \in Kind}) \cup Ended
    BY <1>1, <2>3, KindIs
  <2>4. c \in Call /\ c.ask = calls[n].ask /\ c.at = "delete" /\ c.answer = "none"
    BY <1>1, <2>1, <2>3, <2>5 DEF Call
  <2> HIDE DEF c
  <2> QED BY <1>1, <2>2, <2>3, <2>4, Becomes
<1>5. CASE DeleteSaved(n)
  <2>1. PICK id \in calls[n].found : calls' = [calls EXCEPT ![n].found = @ \ {id}]
    BY <1>5 DEF DeleteSaved
  <2> DEFINE c == [calls[n] EXCEPT !.found = @ \ {id}]
  <2>2. calls' = [calls EXCEPT ![n] = c]
    BY <2>1
  <2>3. c \in Call /\ c.ask = calls[n].ask /\ c.at = calls[n].at /\ c.answer = calls[n].answer
    BY <1>1 DEF Call
  <2>4. c.at \in Step(Op(n)) \cup Ended /\ c.answer \in IF c.at = "done" THEN Reply(Op(n)) ELSE {"none"}
    BY <1>0, <2>3, CallIs
  <2> HIDE DEF c
  <2> QED BY <1>1, <2>2, <2>3, <2>4, Becomes
<1>6. CASE DeleteFails(n)
  <2>1. calls[n].found \in SUBSET Id
    BY <1>1 DEF Call
  <2> QED BY <1>1, <1>6, <2>1, Leaves DEF DeleteFails
<1>15. CASE ListFails(n)
  <2>1. SavedConnections(calls[n].ask.ssid) \in SUBSET Id
    BY DEF SavedConnections, Profile
  <2> QED BY <1>1, <1>15, <2>1, Leaves DEF ListFails
<1>16. CASE ListSkips(n)
  <2> DEFINE saved == SavedConnections(calls[n].ask.ssid)
             c(id) == [calls[n] EXCEPT !.at = "delete", !.found = saved \ {id}, !.left = {id}]
  <2>1. saved \in SUBSET Id
    BY DEF SavedConnections, Profile
  <2>2. PICK id \in saved : calls' = [calls EXCEPT ![n] = c(id)]
    BY <1>16 DEF ListSkips
  <2>3. "delete" \in Step(Op(n)) /\ calls[n].answer = "none"
    BY <1>0, <1>1, CallIs DEF Step
  <2> HIDE DEF saved
  <2>4. "delete" \in (UNION {Step(op) : op \in Kind}) \cup Ended
    BY <1>1, <2>3, KindIs
  <2>5. c(id) \in Call /\ c(id).ask = calls[n].ask /\ c(id).at = "delete" /\ c(id).answer = "none"
    BY <1>1, <2>1, <2>2, <2>3, <2>4 DEF Call
  <2> HIDE DEF c
  <2> QED BY <1>1, <2>2, <2>3, <2>5, Becomes
<1>17. CASE StatusFails(n)
  BY <1>1, <1>17, StepTells, IsAnsweredLeaving DEF StatusFails, NetFails, NetAt, At, Reply
<1>18. CASE CleanUpFails(n)
  BY <1>1, <1>18, StepTells, IsAnsweredLeaving DEF CleanUpFails, NetFails, NetAt, At, Reply
<1>7. CASE Forgotten(n)
  BY <1>1, <1>7, IsAnswered DEF Forgotten, Op, Reply
<1>8. CASE Replaced(n)
  BY <1>1, <1>8, GoesOn DEF Replaced, Op, Step
<1>9. CASE AddFails(n)
  BY <1>1, <1>9, StepTells, IsAnswered DEF AddFails, Net, NetAt, At, Reply
<1>10. CASE AddAndActivate(n)
  BY <1>1, <1>10, StepTells, GoesOn DEF AddAndActivate, Net, NetAt, At, Step
<1>11. CASE Connected(n)
  BY <1>1, <1>11, StepTells, IsAnswered DEF Connected, Net, NetAt, At, Reply
<1>12. CASE NotConnected(n)
  BY <1>1, <1>12, StepTells, GoesOn DEF NotConnected, NetFails, Net, NetAt, At, Step
<1>13. CASE ConnectTimeout(n)
  BY <1>1, <1>13, StepTells, GoesOn DEF ConnectTimeout, Net, NetAt, At, Step
<1>14. CASE CleanUp(n)
  BY <1>1, <1>14, StepTells, IsAnswered DEF CleanUp, Net, NetAt, At, Reply
<1> QED BY <1>2, <1>3, <1>4, <1>5, <1>6, <1>7, <1>8, <1>9, <1>10, <1>11, <1>12, <1>13, <1>14,
           <1>15, <1>16, <1>17, <1>18 DEF OfNet

LEMMA StoreMoves ==
  ASSUME CallsOK, file \in Config, NEW n \in Number, OfStore(n)
  PROVE  CallsOK' /\ Moves(n) /\ Op(n) = "set"
<1>1. n \in DOMAIN calls /\ n \in Running /\ calls[n] \in Call /\ Op(n) = "set"
         /\ calls[n].at \in {"read", "write", "sync"} /\ calls[n].answer = "none"
  BY StepTells, CallIs DEF OfStore, ReadFile, Rename, SyncDirectory, Store, At, Running, Ended
<1>2. CASE ReadFile(n)
  <2> DEFINE c == [calls[n] EXCEPT !.at = "write", !.config = file]
  <2>1. calls' = [calls EXCEPT ![n] = c]
    BY <1>2 DEF ReadFile
  <2>2. "write" \in Step(Op(n)) /\ "write" \in (UNION {Step(op) : op \in Kind}) \cup Ended
    BY <1>1, KindIs DEF Step
  <2>3. c \in Call /\ c.ask = calls[n].ask /\ c.at = "write" /\ c.answer = "none"
    BY <1>1, <2>2 DEF Call
  <2> HIDE DEF c
  <2> QED BY <1>1, <2>1, <2>2, <2>3, Becomes
<1>3. CASE Rename(n)
  BY <1>1, <1>3, GoesOn DEF Rename, Step
<1>4. CASE SyncDirectory(n)
  BY <1>1, <1>4, IsAnswered DEF SyncDirectory, Reply
<1> QED BY <1>2, <1>3, <1>4 DEF OfStore

LEMMA CandidatesArePads ==
  ASSUME TypeOK
  PROVE  Candidates \subseteq Pads
<1>1. Bonded \subseteq Nat /\ (Bonded # {} => Min(Bonded) \in Bonded)
  BY MinIsIn DEF Bonded
<1> QED BY <1>1 DEF Candidates, Unbonded, Bonded

LEMMA PadMoves ==
  ASSUME TypeOK, NEW n \in Number, OfPads(n)
  PROVE  CallsOK' /\ Moves(n) /\ Op(n) \in {"pair", "drop"}
<1>0. CallsOK /\ n \in DOMAIN calls /\ calls[n].at \in Step("pair") \cup Step("drop")
  BY DEF OfPads, Lock, NoAdapter, StartDiscovery, Found, NotFound, RegisterAgent, Connect,
         ConnectFails, Settled, AskToPair, BondSeen, BondFails, SetTrusted, Withdraw, Paired,
         ForgetPad, Blue, At, Step, TypeOK
<1>1. n \in Running /\ calls[n] \in Call /\ calls[n].answer = "none" /\ Op(n) \in {"pair", "drop"}
  BY <1>0, StepTells, CallIs DEF Running, Ended, Step
<1>p. ASSUME calls[n].at # "drop" PROVE Op(n) = "pair"
  BY <1>0, <1>p, StepTells DEF Step
<1>2. CASE Lock(n)
  BY <1>0, <1>1, <1>p, <1>2, GoesOn DEF Lock, Blue, At, Step
<1>3. CASE NoAdapter(n)
  BY <1>0, <1>1, <1>p, <1>3, IsAnswered DEF NoAdapter, FailPair, Blue, At, Reply
<1>4. CASE StartDiscovery(n)
  BY <1>0, <1>1, <1>p, <1>4, GoesOn DEF StartDiscovery, Blue, At, Step
<1>5. CASE Found(n)
  <2>1. PICK d \in Candidates :
          calls' = [calls EXCEPT ![n].pad = d,
                                 ![n].at = IF pads[d].bonded THEN "agentBonded" ELSE "agent"]
    BY <1>5 DEF Found
  <2> DEFINE step == IF pads[d].bonded THEN "agentBonded" ELSE "agent"
             c == [calls[n] EXCEPT !.pad = d, !.at = step]
  <2>2. calls' = [calls EXCEPT ![n] = c]
    BY <2>1
  <2>3. Op(n) = "pair" /\ step \in Step(Op(n)) /\ step # "done"
    BY <1>p, <1>5 DEF Found, Blue, At, Step
  <2>4. step \in (UNION {Step(op) : op \in Kind}) \cup Ended
    BY <1>1, <2>3, KindIs
  <2> HIDE DEF step
  <2>5. d \in Pads
    BY CandidatesArePads
  <2>6. c \in Call /\ c.ask = calls[n].ask /\ c.at = step /\ c.answer = "none"
    BY <1>1, <2>4, <2>5 DEF Call
  <2> HIDE DEF c
  <2> QED BY <1>0, <1>1, <2>2, <2>3, <2>6, Becomes
<1>6. CASE NotFound(n)
  BY <1>0, <1>1, <1>p, <1>6, IsAnswered DEF NotFound, FailPair, Blue, At, Reply
<1>7. CASE RegisterAgent(n)
  BY <1>0, <1>1, <1>p, <1>7, GoesOn DEF RegisterAgent, Blue, At, Step
<1>8. CASE Connect(n)
  BY <1>0, <1>1, <1>p, <1>8, GoesOn DEF Connect, Blue, At, Step
<1>9. CASE ConnectFails(n)
  BY <1>0, <1>1, <1>p, <1>9, GoesOn DEF ConnectFails, Blue, At, Step
<1>10. CASE Settled(n)
  BY <1>0, <1>1, <1>p, <1>10, GoesOn DEF Settled, Blue, At, Step
<1>11. CASE AskToPair(n)
  BY <1>0, <1>1, <1>p, <1>11, GoesOn DEF AskToPair, Blue, At, Step
<1>12. CASE BondSeen(n)
  BY <1>0, <1>1, <1>p, <1>12, GoesOn DEF BondSeen, Blue, At, Step
<1>13. CASE BondFails(n)
  BY <1>0, <1>1, <1>p, <1>13, GoesOn DEF BondFails, Blue, At, Step
<1>14. CASE SetTrusted(n)
  BY <1>0, <1>1, <1>p, <1>14, GoesOn DEF SetTrusted, Blue, At, Step
<1>15. CASE Withdraw(n)
  BY <1>0, <1>1, <1>p, <1>15, GoesOn, IsAnswered DEF Withdraw, FailPair, Blue, At, Step, Reply
<1>16. CASE Paired(n)
  BY <1>0, <1>1, <1>p, <1>16, IsAnswered DEF Paired, Blue, At, Reply
<1>17. CASE ForgetPad(n)
  BY <1>0, <1>1, <1>17, StepTells, IsAnswered DEF ForgetPad, Blue, At, Reply
<1> QED BY <1>2, <1>3, <1>4, <1>5, <1>6, <1>7, <1>8, <1>9, <1>10, <1>11, <1>12, <1>13, <1>14,
           <1>15, <1>16, <1>17 DEF OfPads

-----------------------------------------------------------------------------
(* Types.                                                                  *)

PadState == [bonded : BOOLEAN, trusted : BOOLEAN, bonding : BOOLEAN, ready : BOOLEAN]

LEMMA RequestTypes ==
  ASSUME CallsOK, NEW ask \in Ask, Request(ask)
  PROVE  /\ CallsOK' /\ DOMAIN calls' = DOMAIN calls \cup {Len(calls) + 1}
         /\ Len(calls) + 1 \in Number /\ Len(calls) + 1 \notin DOMAIN calls
         /\ \A m \in DOMAIN calls : calls'[m] = calls[m] /\ m < Len(calls) + 1
         /\ calls'[Len(calls) + 1] = [ask |-> ask, at |-> FirstStep(ask), found |-> {}, left |-> {},
                                      config |-> Fresh, pad |-> 0, answer |-> "none"]
<1> DEFINE k == Len(calls) + 1
           c == [ask |-> ask, at |-> FirstStep(ask), found |-> {}, left |-> {},
                 config |-> Fresh, pad |-> 0, answer |-> "none"]
<1>1. ask.op \in Kind /\ FirstStep(ask) \in Step(ask.op) /\ FirstStep(ask) # "done"
  BY AskIs DEF FirstStep, Step, Kind
<1>2. FirstStep(ask) \in (UNION {Step(op) : op \in Kind}) \cup Ended
  BY <1>1
<1>3. Fresh \in Config
  BY DEF Fresh, Config, Field
<1>4. c \in Call
  BY <1>2, <1>3 DEF Call
<1>5. calls \in Seq(Call) /\ Len(calls) \in Nat /\ DOMAIN calls = 1..Len(calls) /\ Len(calls) < MaxCalls
  BY DEF CallsOK, Request
<1>6. calls' = Append(calls, c)
  BY DEF Request
<1>7. c.ask = ask /\ c.at = FirstStep(ask) /\ c.answer = "none"
  OBVIOUS
<1> HIDE DEF c
<1>8. /\ calls' \in Seq(Call) /\ Len(calls') = k
      /\ \A m \in 1..Len(calls) : calls'[m] = calls[m]
      /\ calls'[k] = c
  BY <1>4, <1>5, <1>6, AppendProperties
<1>9. DOMAIN calls' = 1..k /\ k \in Number /\ \A m \in DOMAIN calls : m < k
  BY <1>5, <1>8 DEF Number
<1>10. DOMAIN calls' = DOMAIN calls \cup {k} /\ k \notin DOMAIN calls
  BY <1>5, <1>9
<1>11. ASSUME NEW m \in DOMAIN calls'
       PROVE  /\ calls'[m].at \in Step(calls'[m].ask.op) \cup Ended
              /\ calls'[m].answer \in IF At(m, "done")' THEN Reply(calls'[m].ask.op) ELSE {"none"}
  <2>1. CASE m = k
    BY <1>1, <1>7, <1>8, <2>1 DEF At
  <2>2. CASE m \in DOMAIN calls
    BY <1>5, <1>8, <2>2 DEF At, CallsOK
  <2> QED BY <1>10, <2>1, <2>2
<1>12. CallsOK'
  BY <1>5, <1>8, <1>11 DEF CallsOK
<1> QED BY <1>5, <1>8, <1>9, <1>10, <1>12 DEF c

LEMMA FailsTypes ==
  ASSUME CallsOK, Fails
  PROVE  /\ CallsOK' /\ DOMAIN calls' = DOMAIN calls
         /\ \A n \in Running : calls'[n] = [calls[n] EXCEPT !.at = "lost", !.found = {}]
         /\ \A n \in DOMAIN calls \ Running : calls'[n] = calls[n]
<1>1. calls \in Seq(Call) /\ Len(calls) \in Nat /\ DOMAIN calls = 1..Len(calls) /\ Len(calls) <= MaxCalls
  BY DEF CallsOK
<1> DEFINE c(n) == IF n \in Running THEN [calls[n] EXCEPT !.at = "lost", !.found = {}] ELSE calls[n]
<1>2. calls' = [n \in 1..Len(calls) |-> c(n)]
  BY <1>1 DEF Fails
<1>3. ASSUME NEW n \in DOMAIN calls
      PROVE  c(n) \in Call /\ c(n).ask = calls[n].ask
  <2>1. calls[n] \in Call /\ {} \in SUBSET Id
    BY CallIs
  <2>2. [calls[n] EXCEPT !.at = "lost", !.found = {}] \in Call
    BY <2>1 DEF Call, Ended
  <2>3. [calls[n] EXCEPT !.at = "lost", !.found = {}].ask = calls[n].ask
    BY <2>1 DEF Call
  <2> QED BY <2>1, <2>2, <2>3
<1>4. calls' \in Seq(Call) /\ Len(calls') = Len(calls)
  <2> HIDE DEF c
  <2> QED BY <1>1, <1>2, <1>3
<1>5. \A n \in DOMAIN calls : calls'[n] = c(n)
  BY <1>1, <1>2
<1>6. ASSUME NEW n \in DOMAIN calls
      PROVE  /\ calls'[n].at \in Step(calls'[n].ask.op) \cup Ended
             /\ calls'[n].answer \in IF At(n, "done")' THEN Reply(calls'[n].ask.op) ELSE {"none"}
  <2>0. n \in DOMAIN calls'
    BY <1>1, <1>2
  <2>1. CASE n \in Running
    <3>1. calls'[n] = [calls[n] EXCEPT !.at = "lost", !.found = {}]
      BY <1>5, <2>1
    <3>2. calls[n] \in Call /\ calls[n].answer = "none"
      BY <2>1, CallIs DEF Running, Ended
    <3>3. calls'[n].at = "lost" /\ calls'[n].answer = "none"
      BY <3>1, <3>2 DEF Call
    <3> QED BY <3>3 DEF At, Ended
  <2>2. CASE n \notin Running
    BY <1>5, <2>0, <2>2 DEF At, CallsOK
  <2> QED BY <2>1, <2>2
<1>7. CallsOK' /\ DOMAIN calls' = DOMAIN calls
  BY <1>1, <1>2, <1>4, <1>6 DEF CallsOK
<1> QED BY <1>5, <1>7 DEF Running

LEMMA NetLeaves ==
  ASSUME NEW n, OfNet(n)
  PROVE  /\ UNCHANGED <<settings, bluetooth>>
         /\ UNCHANGED faults \/ (faults < MaxFaults /\ faults' = faults + 1)
BY DEF OfNet, Refuse, Scan, List, ListSkips, ListFails, DeleteSaved, DeleteFails, Forgotten,
       Replaced, AddFails, AddAndActivate, Connected, StatusFails, NotConnected,
       ConnectTimeout, CleanUp, CleanUpFails, Net, NetAt, NetFails

LEMMA NetTypes ==
  ASSUME TypeOK, NEW n \in Number, OfNet(n)
  PROVE  TypeOK'
<1>0. CallsOK' /\ n \in DOMAIN calls /\ UNCHANGED <<settings, bluetooth>>
  BY NetMoves, NetLeaves DEF TypeOK, Moves, Running
<1>5. faults' \in 0..MaxFaults
  BY NetLeaves DEF TypeOK
<1>1. ASSUME NEW id, Without(id) PROVE profiles' \subseteq Profile /\ device' \in Device
  BY <1>1 DEF Without, TypeOK, Device, Down
<1>2. ASSUME AddAndActivate(n) PROVE profiles' \subseteq Profile /\ device' \in Device
  <2>1. calls[n].ask \in Ask /\ n \in Id /\ Op(n) = "connect"
    BY <1>0, <1>2, CallIs, StepTells DEF TypeOK, Call, AddAndActivate, Net, NetAt, At, Id
  <2>2. calls[n].ask.ssid \in Ssids /\ calls[n].ask.key \in {"right", "wrong"}
    BY <2>1, AskIs DEF Op
  <2>3. [id |-> n, ssid |-> calls[n].ask.ssid, key |-> calls[n].ask.key] \in Profile
    BY <2>1, <2>2 DEF Profile
  <2>4. [profile |-> n, own |-> TRUE, state |-> "activating"] \in Device
    BY <2>1 DEF Device
  <2> QED BY <1>2, <2>3, <2>4 DEF AddAndActivate, TypeOK
<1>3. ASSUME UNCHANGED network PROVE profiles' \subseteq Profile /\ device' \in Device
  BY <1>3 DEF network, TypeOK
<1>4. profiles' \subseteq Profile /\ device' \in Device
  BY <1>1, <1>2, <1>3 DEF OfNet, Refuse, Scan, List, ListSkips, ListFails, DeleteSaved,
         DeleteFails, Forgotten, Replaced, AddFails, Connected, StatusFails, NotConnected,
         ConnectTimeout, CleanUp, CleanUpFails
<1> QED BY <1>0, <1>4, <1>5 DEF TypeOK, settings, bluetooth

LEMMA StoreTypes ==
  ASSUME TypeOK, NEW n \in Number, OfStore(n)
  PROVE  TypeOK'
<1>0. CallsOK /\ CallsOK' /\ n \in DOMAIN calls /\ UNCHANGED <<network, bluetooth, faults>>
  BY StoreMoves DEF TypeOK, Moves, Running, OfStore, ReadFile, Rename, SyncDirectory, Store
<1>1. calls[n].config \in Config /\ Op(n) = "set" /\ calls[n].ask \in Ask
  BY <1>0, CallIs, StoreMoves DEF TypeOK, Call
<1>2. calls[n].ask.field \in Field
  BY <1>1, AskIs DEF Op
<1>3. [calls[n].config EXCEPT ![calls[n].ask.field] = n] \in Config
  BY <1>1, <1>2 DEF Config, Number
<1>4. file' \in Config /\ disk' \in Config
  BY <1>3 DEF OfStore, ReadFile, Rename, SyncDirectory, settings, TypeOK
<1> QED BY <1>0, <1>4 DEF TypeOK, network, bluetooth

LEMMA PadTypes ==
  ASSUME TypeOK, NEW n \in Number, OfPads(n)
  PROVE  TypeOK'
<1>0. CallsOK /\ CallsOK' /\ n \in DOMAIN calls /\ UNCHANGED <<network, settings, faults>>
  BY PadMoves DEF TypeOK, Moves, Running, OfPads, Lock, NoAdapter, StartDiscovery, Found, NotFound,
         RegisterAgent, Connect, ConnectFails, Settled, AskToPair, BondSeen, BondFails, SetTrusted,
         Withdraw, Paired, ForgetPad, Blue
<1>1. pairing' \in 0..MaxCalls
  <2>1. pairing' \in {pairing, n, 0}
    BY DEF OfPads, Lock, NoAdapter, StartDiscovery, Found, NotFound, RegisterAgent, Connect,
         ConnectFails, Settled, AskToPair, BondSeen, BondFails, SetTrusted, Withdraw, Paired,
         ForgetPad, FailPair
  <2>2. pairing \in 0..MaxCalls /\ n \in 0..MaxCalls
    BY DEF TypeOK, Number
  <2> QED BY <2>1, <2>2
<1>2. radio' \in [scanning : BOOLEAN, agent : Pads \cup {0}]
  <2>1. calls[n].pad \in Pads \cup {0} /\ radio \in [scanning : BOOLEAN, agent : Pads \cup {0}]
    BY <1>0, CallIs DEF Call, TypeOK
  <2>2. ASSUME StartDiscovery(n) \/ Found(n) \/ NotFound(n) \/ RegisterAgent(n) \/ Withdraw(n)
        PROVE  radio' \in [scanning : BOOLEAN, agent : Pads \cup {0}]
    BY <2>1, <2>2 DEF StartDiscovery, Found, NotFound, RegisterAgent, Withdraw, Pad
  <2>3. ASSUME ~ (StartDiscovery(n) \/ Found(n) \/ NotFound(n) \/ RegisterAgent(n) \/ Withdraw(n))
        PROVE  radio' = radio
    BY <2>3 DEF OfPads, Lock, NoAdapter, Connect, ConnectFails, Settled, AskToPair, BondSeen,
         BondFails, SetTrusted, Paired, ForgetPad
  <2> QED BY <2>1, <2>2, <2>3
<1>3. pads' \in [Pads -> PadState]
  <2>0. pads \in [Pads -> PadState]
    <3>1. pads \in [Pads -> [bonded : BOOLEAN, trusted : BOOLEAN, bonding : BOOLEAN, ready : BOOLEAN]]
      BY DEF TypeOK
    <3> QED BY <3>1 DEF PadState
  <2>1. ASSUME NEW d, Starts(d) PROVE pads' \in [Pads -> PadState]
    BY <2>0, <2>1 DEF Starts, PadState
  <2>2. ASSUME SetTrusted(n) PROVE pads' \in [Pads -> PadState]
    <3>1. UNCHANGED pads \/ \E d : pads' = [pads EXCEPT ![d].trusted = TRUE]
      BY <2>2 DEF SetTrusted
    <3> QED BY <2>0, <3>1 DEF PadState
  <2>3. ASSUME ForgetPad(n) PROVE pads' \in [Pads -> PadState]
    <3>1. PICK d : pads' = [pads EXCEPT ![d].bonded = FALSE, ![d].trusted = FALSE, ![d].bonding = FALSE]
      BY <2>3 DEF ForgetPad
    <3> QED BY <2>0, <3>1 DEF PadState
  <2>4. ASSUME UNCHANGED pads PROVE pads' \in [Pads -> PadState]
    BY <2>0, <2>4
  <2> QED BY <2>1, <2>2, <2>3, <2>4 DEF OfPads, Lock, NoAdapter, StartDiscovery, Found, NotFound,
         RegisterAgent, Connect, ConnectFails, Settled, AskToPair, BondSeen, BondFails, Withdraw,
         Paired
<1> QED BY <1>0, <1>1, <1>2, <1>3 DEF TypeOK, network, settings, PadState

(* NetworkManager and the pads change no call.                             *)
OfWorld ==
  \/ Activated \/ GivesUp \/ LinkLost \/ Autoconnect
  \/ \E d \in Pads : EnterPairing(d) \/ LeavePairing(d) \/ BondLands(d)

LEMMA WorldTypes ==
  ASSUME TypeOK, OfWorld
  PROVE  TypeOK' /\ UNCHANGED <<calls, profiles, settings, pairing, radio>>
<1>1. ASSUME Activated \/ GivesUp \/ LinkLost \/ Autoconnect
      PROVE  device' \in Device /\ UNCHANGED <<calls, profiles, settings, bluetooth, faults>>
  <2>1. UNCHANGED <<calls, profiles, settings, bluetooth, faults>>
    BY <1>1 DEF Activated, GivesUp, LinkLost, Autoconnect, World
  <2>2. device' \in Device
    <3>1. device \in Device /\ profiles \subseteq Profile
      BY DEF TypeOK
    <3>2. ASSUME Activated PROVE device' \in Device
      BY <3>1, <3>2 DEF Activated, Device
    <3>3. ASSUME device' = Down PROVE device' \in Device
      BY <3>3 DEF Device, Down
    <3>4. ASSUME Autoconnect PROVE device' \in Device
      <4>1. PICK p \in profiles : device' = [profile |-> p.id, own |-> FALSE, state |-> "activating"]
        BY <3>4 DEF Autoconnect
      <4>2. p.id \in Id
        BY <3>1 DEF Profile
      <4> QED BY <4>1, <4>2 DEF Device
    <3> QED BY <1>1, <3>2, <3>3, <3>4 DEF GivesUp, LinkLost
  <2> QED BY <2>1, <2>2
<1>2. ASSUME NEW d \in Pads, EnterPairing(d) \/ LeavePairing(d) \/ BondLands(d)
      PROVE  pads' \in [Pads -> PadState] /\ UNCHANGED <<calls, network, settings, pairing, radio, faults>>
  <2>0. pads \in [Pads -> PadState]
    BY DEF TypeOK, PadState
  <2>1. ASSUME EnterPairing(d) PROVE pads' \in [Pads -> PadState]
    BY <2>0, <2>1 DEF EnterPairing, PadState
  <2>2. ASSUME LeavePairing(d) PROVE pads' \in [Pads -> PadState]
    BY <2>0, <2>2 DEF LeavePairing, PadState
  <2>3. ASSUME BondLands(d) PROVE pads' \in [Pads -> PadState]
    BY <2>0, <2>3 DEF BondLands, PadState
  <2>4. UNCHANGED <<calls, network, settings, pairing, radio, faults>>
    BY <1>2 DEF EnterPairing, LeavePairing, BondLands, PadsDo
  <2> QED BY <1>2, <2>1, <2>2, <2>3, <2>4
<1>4. CASE Activated \/ GivesUp \/ LinkLost \/ Autoconnect
  BY <1>1, <1>4 DEF TypeOK, CallsOK, At, settings, bluetooth
<1>5. CASE \E d \in Pads : EnterPairing(d) \/ LeavePairing(d) \/ BondLands(d)
  BY <1>2, <1>5 DEF TypeOK, CallsOK, At, network, settings, PadState
<1> QED BY <1>4, <1>5 DEF OfWorld

LEMMA FailTypes ==
  ASSUME TypeOK, Restart \/ PowerCut
  PROVE  TypeOK' /\ Fails /\ UNCHANGED profiles
<1>0. Fails /\ UNCHANGED profiles
  BY DEF Restart, PowerCut, network
<1>1. CallsOK'
  BY <1>0, FailsTypes DEF TypeOK
<1>5. pairing' \in 0..MaxCalls /\ faults' \in 0..MaxFaults
  <2>1. faults \in 0..MaxFaults
    BY DEF TypeOK
  <2>2. faults < MaxFaults /\ faults' = faults + 1 /\ pairing' = 0
    BY <1>0 DEF Fails
  <2> QED BY <2>1, <2>2
<1>2. radio' \in [scanning : BOOLEAN, agent : Pads \cup {0}]
  BY <1>0 DEF Fails, Quiet
<1>3. file' \in Config /\ disk' \in Config
  BY DEF TypeOK, Restart, PowerCut, settings
<1>6. device' \in Device
  <2>1. device \in Device /\ Down \in Device
    BY DEF TypeOK, Device, Down
  <2> QED BY <2>1 DEF Restart, PowerCut, network
<1>4. pads' \in [Pads -> PadState]
  <2>0. pads \in [Pads -> PadState]
    BY DEF TypeOK, PadState
  <2> QED BY <2>0 DEF Restart, PowerCut, PadState
<1> QED BY <1>0, <1>1, <1>2, <1>3, <1>4, <1>5, <1>6 DEF TypeOK, PadState

LEMMA StartTypes == Init => TypeOK
<1> SUFFICES ASSUME Init PROVE TypeOK
  OBVIOUS
<1>1. CallsOK
  <2>1. calls = <<>>
    BY DEF Init
  <2> QED BY <2>1 DEF CallsOK
<1>2. profiles \subseteq Profile /\ device \in Device
  BY DEF Init, Profile, Id, Device, Down
<1>3. file \in Config /\ disk \in Config
  BY DEF Init, Fresh, Config, Field
<1>4. pairing \in 0..MaxCalls /\ radio \in [scanning : BOOLEAN, agent : Pads \cup {0}] /\ faults \in 0..MaxFaults
  BY DEF Init, Quiet
<1>5. pads \in [Pads -> PadState]
  BY DEF Init, Stranger, PadState
<1> QED BY <1>1, <1>2, <1>3, <1>4, <1>5 DEF TypeOK, PadState

(* The kinds of steps, whatever part of configd they are about.             *)
LEMMA StepIs ==
  ASSUME Next
  PROVE  \/ \E ask \in Ask : Request(ask)
         \/ \E n \in Number : OfNet(n)
         \/ \E n \in Number : OfStore(n)
         \/ \E n \in Number : OfPads(n)
         \/ OfWorld
         \/ Restart \/ PowerCut
BY Zenon DEF Next, Task, OfWorld

LEMMA StepTypes ==
  ASSUME TypeOK, Next
  PROVE  TypeOK'
<1>1. ASSUME NEW ask \in Ask, Request(ask) PROVE TypeOK'
  <2>1. CallsOK' /\ UNCHANGED <<network, settings, bluetooth, faults>>
    BY <1>1, RequestTypes DEF TypeOK, Request
  <2> QED BY <2>1 DEF TypeOK, network, settings, bluetooth
<1> QED BY <1>1, NetTypes, StoreTypes, PadTypes, WorldTypes, FailTypes, StepIs

-----------------------------------------------------------------------------
(* What one part of configd does says nothing to the others.               *)

Untouched(kinds) ==
  /\ DOMAIN calls' = DOMAIN calls
  /\ \A n \in DOMAIN calls : /\ calls'[n].ask = calls[n].ask
                             /\ Op(n) \in kinds => calls'[n] = calls[n]

LEMMA MovesAlone ==
  ASSUME NEW n, Moves(n), NEW kinds, Op(n) \notin kinds
  PROVE  Untouched(kinds)
BY DEF Moves, Untouched, Running

LEMMA WorldMovesNone ==
  ASSUME NEW kinds, UNCHANGED calls
  PROVE  Untouched(kinds)
BY DEF Untouched

LEMMA NextStepIs ==
  ASSUME CallsOK, CallsOK', NEW n \in DOMAIN calls, NEW kinds, Untouched(kinds)
  PROVE  /\ Op(n) \in Kind /\ Op(n)' = Op(n)
         /\ calls'[n].at \in Step(Op(n)) \cup Ended
         /\ calls'[n].answer \in IF calls'[n].at = "done" THEN Reply(Op(n)) ELSE {"none"}
BY CallIs, KindIs DEF CallsOK, At, Op, Untouched

LEMMA NetFrame ==
  ASSUME ProfilesOK, NetOK, Untouched({"connect", "forget"}), UNCHANGED profiles
  PROVE  ProfilesOK' /\ NetOK'
<1>1. \A n \in DOMAIN calls : Op(n)' = Op(n) /\ \A s : IsAbout(n, s)' <=> IsAbout(n, s)
  BY DEF Untouched, Op, IsAbout
<1>2. \A n \in DOMAIN calls : \A s : IsAbout(n, s) => calls'[n] = calls[n] /\ Op(n) \in {"connect", "forget"}
  BY DEF Untouched, IsAbout, Op
<1>d. DOMAIN calls' = DOMAIN calls
  BY DEF Untouched
<1>3. \A s : SavedConnections(s)' = SavedConnections(s)
  BY DEF SavedConnections
<1>4. \A id : Known(id) => Known(id)'
  BY <1>1, <1>d DEF Known, Adds, At, Untouched, Op
<1>5. ProfilesOK'
  <2>1. \A q \in profiles : Known(q.id)' /\ IsFor(q)'
    BY <1>1, <1>4 DEF ProfilesOK, Known, Adds, At, IsFor
  <2>2. ASSUME NEW n \in DOMAIN calls, NEW s \in Ssids, IsAbout(n, s)', NEW id \in calls'[n].found
        PROVE  Known(id)' /\ \A q \in profiles : q.id = id => q.ssid = s
    BY <1>1, <1>2, <1>4, <2>2 DEF ProfilesOK
  <2> QED BY <1>d, <2>1, <2>2 DEF ProfilesOK
<1>6. ASSUME "oneNetwork" \notin Habits PROVE OneAtATime'
  <2> SUFFICES ASSUME NEW n \in Running', NEW m \in DOMAIN calls', NEW s \in Ssids,
                      Both(m, n, s)', "connect" \in {Op(m), Op(n)}'
               PROVE  m < n /\ m \notin Running'
    BY DEF OneAtATime
  <2>1. n \in DOMAIN calls /\ m \in DOMAIN calls /\ IsAbout(m, s) /\ IsAbout(n, s) /\ m # n
    BY <1>1, <1>d DEF Both, Running
  <2>2. n \in Running /\ (m \in Running' <=> m \in Running) /\ "connect" \in {Op(m), Op(n)}
    BY <1>1, <1>2, <1>d, <2>1 DEF Running
  <2> QED BY <1>6, <2>1, <2>2 DEF NetOK, OneAtATime, Both
<1>7. ASSUME "oneNetwork" \notin Habits, NEW s \in Ssids, NEW n \in DOMAIN calls, IsAbout(n, s)
      PROVE  Deleting(n, s)'
  BY <1>1, <1>2, <1>3, <1>d, <1>7 DEF NetOK, Deleting, At
<1>8. ASSUME "oneNetwork" \notin Habits, NEW s \in Ssids, NEW n \in DOMAIN calls, Stands(n, s)'
      PROVE  Left(n, s)'
  <2>1. IsAbout(n, s) /\ calls'[n] = calls[n]
    BY <1>1, <1>2, <1>8 DEF Stands
  <2>2. Stands(n, s)
    BY <1>1, <1>2, <1>d, <1>8, <2>1 DEF Stands, At
  <2>3. Left(n, s)
    BY <1>8, <2>2 DEF NetOK
  <2> QED BY <1>3, <2>1, <2>3 DEF Left, Own
<1> QED BY <1>1, <1>5, <1>6, <1>7, <1>8, <1>d DEF NetOK

LEMMA StoreFrame ==
  ASSUME TypeOK, TypeOK', StoreOK, Untouched({"set"}), UNCHANGED settings
  PROVE  StoreOK'
<1> SUFFICES ASSUME "oneFile" \notin Habits
             PROVE  OneWriter' /\ Holds(file)' /\ Holds(disk)' /\
                    \A n \in DOMAIN calls' : /\ At(n, "write")' => calls'[n].config = file'
                                             /\ At(n, "sync")' => file'[calls'[n].ask.field] = n
  BY DEF StoreOK
<1>1. DOMAIN calls' = DOMAIN calls /\ file' = file /\ disk' = disk
  BY DEF Untouched, settings
<1>2. \A n \in DOMAIN calls : /\ Op(n)' = Op(n)
                              /\ Op(n) = "set" => calls'[n] = calls[n]
                              /\ \A f : Sets(n, f)' <=> Sets(n, f)
  BY DEF Untouched, Op, Sets
<1>3. OneWriter'
  BY <1>1, <1>2 DEF OneWriter, StoreOK, Running
<1>4. Holds(file)' /\ Holds(disk)'
  BY <1>1, <1>2 DEF Holds, StoreOK, Sets, Op
<1>5. ASSUME NEW n \in DOMAIN calls
      PROVE  /\ At(n, "write")' => calls'[n].config = file'
             /\ At(n, "sync")' => file'[calls'[n].ask.field] = n
  <2>1. CASE Op(n) = "set"
    BY <1>1, <1>2, <2>1 DEF StoreOK, At
  <2>2. CASE Op(n) # "set"
    <3>1. calls'[n].at \in Step(Op(n)) \cup Ended /\ Op(n) \in Kind
      BY NextStepIs DEF TypeOK
    <3> QED BY <2>2, <3>1 DEF Step, Ended, Kind, At
  <2> QED BY <2>1, <2>2
<1> QED BY <1>1, <1>3, <1>4, <1>5

(* A bond and a trust that are there stay.                                 *)
Keeps == \A d \in Pads : /\ pads[d].bonded => pads'[d].bonded
                         /\ pads[d].trusted => pads'[d].trusted

LEMMA RadioFrame ==
  ASSUME TypeOK, TypeOK', RadioOK, Untouched({"pair"}), UNCHANGED <<pairing, radio>>
  PROVE  RadioOK'
<1>1. DOMAIN calls' = DOMAIN calls
  BY DEF Untouched
<1>2. \A n \in DOMAIN calls : /\ Op(n)' = Op(n)
                              /\ Op(n) = "pair" => calls'[n] = calls[n] /\ Pad(n)' = Pad(n)
  BY DEF Untouched, Op, Pad
<1>3. ASSUME NEW n \in DOMAIN calls, Op(n) = "pair"
      PROVE  /\ calls'[n].at \in Locked => n = pairing
             /\ calls'[n].at \in OfPad \/ calls'[n].answer = "paired" => Pad(n)' \in Pads
  BY <1>2, <1>3 DEF RadioOK
<1>4. pairing # 0 => /\ pairing \in DOMAIN calls /\ Op(pairing) = "pair" /\ calls'[pairing] = calls[pairing]
                     /\ Pad(pairing)' = Pad(pairing)
  BY <1>2 DEF RadioOK
<1> QED BY <1>1, <1>2, <1>3, <1>4 DEF RadioOK, At

LEMMA TrustFrame ==
  ASSUME TypeOK, TypeOK', RadioOK, TrustOK, Untouched({"pair", "drop"}), Keeps
  PROVE  TrustOK'
<1> SUFFICES ASSUME "onePad" \notin Habits
             PROVE  /\ PairOrDrop' /\ PairedIsTrusted'
                    /\ \A n \in DOMAIN calls' :
                         Op(n)' = "pair" /\ (At(n, "withdraw") \/ At(n, "reread"))'
                           => (pads[Pad(n)].bonded /\ pads[Pad(n)].trusted)'
  BY DEF TrustOK
<1>1. DOMAIN calls' = DOMAIN calls
  BY DEF Untouched
<1>2. \A n \in DOMAIN calls : /\ Op(n)' = Op(n) /\ calls'[n].ask = calls[n].ask
                              /\ Op(n) \in {"pair", "drop"} => calls'[n] = calls[n] /\ Pad(n)' = Pad(n)
  BY DEF Untouched, Op, Pad
<1>3. PairOrDrop'
  BY <1>1, <1>2 DEF PairOrDrop, TrustOK, Running
<1>4. ASSUME NEW n \in DOMAIN calls, Op(n) = "pair", (At(n, "withdraw") \/ At(n, "reread"))'
      PROVE  pads'[Pad(n)'].bonded /\ pads'[Pad(n)'].trusted
  <2>1. At(n, "withdraw") \/ At(n, "reread")
    BY <1>1, <1>2, <1>4 DEF At
  <2>2. pads[Pad(n)].bonded /\ pads[Pad(n)].trusted /\ Pad(n)' = Pad(n)
    BY <1>2, <1>4, <2>1 DEF TrustOK
  <2>3. Pad(n) \in Pads
    BY <1>4, <2>1 DEF RadioOK, At, OfPad, Answering
  <2> QED BY <2>2, <2>3 DEF Keeps
<1>5. ASSUME NEW n \in DOMAIN calls, calls'[n].answer = "paired",
             ~ \E m \in DOMAIN calls' : m > n /\ calls'[m].ask = [op |-> "drop", pad |-> Pad(n)']
      PROVE  pads'[Pad(n)'].bonded /\ pads'[Pad(n)'].trusted
  <2>1. Op(n) = "pair"
    <3>1. /\ Op(n) \in Kind
          /\ calls'[n].answer \in IF calls'[n].at = "done" THEN Reply(Op(n)) ELSE {"none"}
      BY NextStepIs DEF TypeOK
    <3> QED BY <1>5, <3>1 DEF Kind, Reply
  <2>2. calls'[n] = calls[n] /\ Pad(n)' = Pad(n)
    BY <1>2, <2>1
  <2>3. pads[Pad(n)].bonded /\ pads[Pad(n)].trusted
    BY <1>1, <1>2, <1>5, <2>2 DEF TrustOK, PairedIsTrusted
  <2>4. Pad(n) \in Pads
    BY <1>5, <2>1, <2>2 DEF RadioOK
  <2> QED BY <2>2, <2>3, <2>4 DEF Keeps
<1> QED BY <1>1, <1>2, <1>3, <1>4, <1>5 DEF PairedIsTrusted

-----------------------------------------------------------------------------
(* A call comes.                                                           *)

Comes(ask, k) ==
  /\ ask \in Ask /\ k = Len(calls) + 1
  /\ Apart(ask) /\ UNCHANGED <<network, settings, bluetooth>>
  /\ k \in Number /\ k \notin DOMAIN calls /\ DOMAIN calls' = DOMAIN calls \cup {k}
  /\ \A m \in DOMAIN calls : calls'[m] = calls[m] /\ m < k
  /\ calls'[k].ask = ask /\ calls'[k].at = FirstStep(ask) /\ calls'[k].answer = "none"
  /\ calls'[k].found = {}

LEMMA RequestComes ==
  ASSUME CallsOK, NEW ask \in Ask, Request(ask)
  PROVE  \E k : Comes(ask, k)
BY RequestTypes DEF Request, Comes

LEMMA ComesSame ==
  ASSUME NEW ask, NEW k, Comes(ask, k)
  PROVE  /\ \A n \in DOMAIN calls : /\ n \in DOMAIN calls' /\ calls'[n] = calls[n] /\ n < k
                                    /\ Op(n)' = Op(n) /\ Pad(n)' = Pad(n)
                                    /\ \A s : IsAbout(n, s)' <=> IsAbout(n, s)
                                    /\ \A f : Sets(n, f)' <=> Sets(n, f)
                                    /\ \A step : At(n, step)' <=> At(n, step)
                                    /\ n \in Running' <=> n \in Running
         /\ Op(k)' = ask.op /\ k \notin DOMAIN calls
         /\ \A n \in DOMAIN calls' : n \in DOMAIN calls \/ n = k
BY DEF Comes, Op, Pad, IsAbout, Sets, At, Running

LEMMA FirstStepIs ==
  ASSUME NEW ask \in Ask
  PROVE  /\ FirstStep(ask) \in {"scan", "list", "read", "lock", "drop"}
         /\ FirstStep(ask) \in Step(ask.op)
BY AskIs DEF FirstStep, Step, Kind

LEMMA ComesNet ==
  ASSUME ProfilesOK, NetOK, CallsOK, NEW ask, NEW k, Comes(ask, k)
  PROVE  ProfilesOK' /\ NetOK'
<1>1. /\ \A n \in DOMAIN calls : /\ n \in DOMAIN calls' /\ calls'[n] = calls[n] /\ n < k
                                 /\ Op(n)' = Op(n)
                                 /\ \A s : IsAbout(n, s)' <=> IsAbout(n, s)
                                 /\ \A step : At(n, step)' <=> At(n, step)
                                 /\ n \in Running' <=> n \in Running
      /\ Op(k)' = ask.op /\ k \notin DOMAIN calls
      /\ \A n \in DOMAIN calls' : n \in DOMAIN calls \/ n = k
  BY ComesSame
<1>2. profiles' = profiles /\ \A s : SavedConnections(s)' = SavedConnections(s)
  BY DEF Comes, network, SavedConnections
<1>3. /\ calls'[k].found = {} /\ calls'[k].answer = "none" /\ calls'[k].ask = ask /\ ask \in Ask
      /\ calls'[k].at \in {"scan", "list", "read", "lock", "drop"}
  BY FirstStepIs DEF Comes
<1>4. \A id : Known(id) => Known(id)'
  BY <1>1 DEF Known, Adds, At
<1>5. ProfilesOK'
  <2>1. \A q \in profiles : Known(q.id)' /\ IsFor(q)'
    BY <1>1, <1>4 DEF ProfilesOK, Known, Adds, At, IsFor
  <2>2. ASSUME NEW n \in DOMAIN calls', NEW s \in Ssids, IsAbout(n, s)', NEW id \in calls'[n].found
        PROVE  Known(id)' /\ \A q \in profiles : q.id = id => q.ssid = s
    BY <1>1, <1>3, <1>4, <2>2 DEF ProfilesOK
  <2> QED BY <1>2, <2>1, <2>2 DEF ProfilesOK
<1>6. ASSUME "oneNetwork" \notin Habits PROVE OneAtATime'
  <2> SUFFICES ASSUME NEW n \in Running', NEW m \in DOMAIN calls', NEW s \in Ssids,
                      Both(m, n, s)', "connect" \in {Op(m), Op(n)}'
               PROVE  m < n /\ m \notin Running'
    BY DEF OneAtATime
  <2>0. n \in DOMAIN calls' /\ IsAbout(m, s)' /\ IsAbout(n, s)' /\ m # n
    BY DEF Both, Running
  <2>1. CASE n \in DOMAIN calls /\ m \in DOMAIN calls
    <3>1. Both(m, n, s) /\ "connect" \in {Op(m), Op(n)} /\ n \in Running
      BY <1>1, <2>0, <2>1 DEF Both
    <3> QED BY <1>1, <1>6, <2>1, <3>1 DEF NetOK, OneAtATime
  <2>2. ASSUME NEW o \in Running, IsAbout(o, s), ask.op \in {"connect", "forget"}, ask.ssid = s,
               "connect" \in {ask.op, Op(o)}
        PROVE  FALSE
    BY <1>6, <2>2 DEF Comes, Apart, Part, Op
  <2>3. IsAbout(k, s)' => ask.op \in {"connect", "forget"} /\ ask.ssid = s
    BY <1>3 DEF IsAbout
  <2>4. CASE n = k
    <3>1. m \in DOMAIN calls /\ m < k /\ IsAbout(m, s) /\ (m \in Running' <=> m \in Running) /\ Op(m)' = Op(m)
      BY <1>1, <2>0, <2>4
    <3>2. m \notin Running
      BY <1>1, <2>0, <2>2, <2>3, <2>4, <3>1
    <3> QED BY <2>4, <3>1, <3>2
  <2>5. CASE m = k
    <3>1. n \in DOMAIN calls /\ IsAbout(n, s) /\ n \in Running /\ Op(n)' = Op(n)
      BY <1>1, <2>0, <2>5
    <3> QED BY <1>1, <2>0, <2>2, <2>3, <2>5, <3>1
  <2> QED BY <1>1, <2>0, <2>1, <2>4, <2>5
<1>7. ASSUME "oneNetwork" \notin Habits, NEW s \in Ssids, NEW n \in DOMAIN calls', IsAbout(n, s)'
      PROVE  Deleting(n, s)'
  <2>1. CASE n = k
    BY <1>3, <2>1 DEF Deleting, At
  <2>2. CASE n \in DOMAIN calls
    BY <1>1, <1>2, <1>7, <2>2 DEF NetOK, Deleting
  <2> QED BY <1>1, <2>1, <2>2
<1>8. ASSUME "oneNetwork" \notin Habits, NEW s \in Ssids, NEW n \in DOMAIN calls', Stands(n, s)'
      PROVE  Left(n, s)'
  <2>1. n \in DOMAIN calls
    BY <1>1, <1>3, <1>8 DEF Stands, At
  <2>2. Stands(n, s)
    BY <1>1, <1>8, <2>1 DEF Stands
  <2>3. Left(n, s)
    BY <1>8, <2>1, <2>2 DEF NetOK
  <2> QED BY <1>1, <1>2, <2>1, <2>3 DEF Left, Own
<1> QED BY <1>5, <1>6, <1>7, <1>8 DEF NetOK

LEMMA ComesStore ==
  ASSUME TypeOK, StoreOK, NEW ask, NEW k, Comes(ask, k)
  PROVE  StoreOK'
<1> SUFFICES ASSUME "oneFile" \notin Habits
             PROVE  OneWriter' /\ Holds(file)' /\ Holds(disk)' /\
                    \A n \in DOMAIN calls' : /\ At(n, "write")' => calls'[n].config = file'
                                             /\ At(n, "sync")' => file'[calls'[n].ask.field] = n
  BY DEF StoreOK
<1>1. /\ \A n \in DOMAIN calls : /\ n \in DOMAIN calls' /\ calls'[n] = calls[n] /\ n < k
                                 /\ Op(n)' = Op(n)
                                 /\ \A f : Sets(n, f)' <=> Sets(n, f)
                                 /\ \A step : At(n, step)' <=> At(n, step)
                                 /\ n \in Running' <=> n \in Running
      /\ Op(k)' = ask.op /\ k \notin DOMAIN calls
      /\ \A n \in DOMAIN calls' : n \in DOMAIN calls \/ n = k
  BY ComesSame
<1>2. file' = file /\ disk' = disk /\ k \in Nat
  BY DEF Comes, settings, Number
<1>3. /\ calls'[k].answer = "none"
      /\ calls'[k].at \in {"scan", "list", "read", "lock", "drop"}
  BY FirstStepIs DEF Comes
<1>4. OneWriter'
  <2> SUFFICES ASSUME NEW n \in Running', NEW m \in DOMAIN calls', Op(n)' = "set", Op(m)' = "set"
               PROVE  m <= n
    BY DEF OneWriter
  <2>0. n \in DOMAIN calls'
    BY DEF Running
  <2>1. CASE n \in DOMAIN calls /\ m \in DOMAIN calls
    BY <1>1, <2>1 DEF StoreOK, OneWriter
  <2>2. CASE n = k
    BY <1>1, <1>2, <2>2, CallIs DEF TypeOK, Number
  <2>3. CASE m = k /\ n \in DOMAIN calls
    BY <1>1, <2>3 DEF Comes, Apart, Op
  <2> QED BY <1>1, <2>0, <2>1, <2>2, <2>3
<1>5. ASSUME NEW store, Holds(store)
      PROVE  Holds(store)'
  BY <1>1, <1>3, <1>5 DEF Holds
<1>6. ASSUME NEW n \in DOMAIN calls'
      PROVE  /\ At(n, "write")' => calls'[n].config = file'
             /\ At(n, "sync")' => file'[calls'[n].ask.field] = n
  BY <1>1, <1>2, <1>3 DEF StoreOK, At
<1> QED BY <1>2, <1>4, <1>5, <1>6 DEF StoreOK

LEMMA ComesPads ==
  ASSUME TypeOK, RadioOK, TrustOK, NEW ask, NEW k, Comes(ask, k)
  PROVE  RadioOK' /\ TrustOK'
<1>1. /\ \A n \in DOMAIN calls : /\ n \in DOMAIN calls' /\ calls'[n] = calls[n] /\ n < k
                                 /\ Op(n)' = Op(n) /\ Pad(n)' = Pad(n)
                                 /\ \A step : At(n, step)' <=> At(n, step)
                                 /\ n \in Running' <=> n \in Running
      /\ Op(k)' = ask.op /\ k \notin DOMAIN calls
      /\ \A n \in DOMAIN calls' : n \in DOMAIN calls \/ n = k
  BY ComesSame
<1>2. pairing' = pairing /\ radio' = radio /\ pads' = pads
  BY DEF Comes, bluetooth
<1>3. /\ calls'[k].answer = "none"
      /\ calls'[k].at \in {"scan", "list", "read", "lock", "drop"}
      /\ k \in DOMAIN calls'
  BY FirstStepIs DEF Comes
<1>4. RadioOK'
  <2>1. ASSUME NEW n \in DOMAIN calls', Op(n)' = "pair"
        PROVE  /\ calls'[n].at \in Locked => n = pairing
               /\ calls'[n].at \in OfPad \/ calls'[n].answer = "paired" => Pad(n)' \in Pads
    <3>1. CASE n = k
      BY <1>3, <3>1 DEF Locked, OfPad, Answering, Step
    <3>2. CASE n \in DOMAIN calls
      BY <1>1, <2>1, <3>2 DEF RadioOK
    <3> QED BY <1>1, <3>1, <3>2
  <2>2. pairing # 0 => /\ pairing \in DOMAIN calls' /\ Op(pairing)' = "pair" /\ calls'[pairing] = calls[pairing]
                       /\ Pad(pairing)' = Pad(pairing) /\ pairing \in DOMAIN calls
    BY <1>1, <1>2 DEF RadioOK
  <2> QED BY <1>2, <2>1, <2>2 DEF RadioOK, At
<1>5. ASSUME "onePad" \notin Habits PROVE PairOrDrop'
  <2> SUFFICES ASSUME NEW n \in Running', NEW m \in DOMAIN calls', {Op(n), Op(m)}' = {"pair", "drop"}
               PROVE  m < n /\ m \notin Running'
    BY DEF PairOrDrop
  <2>0. n \in DOMAIN calls'
    BY DEF Running
  <2>1. CASE n \in DOMAIN calls /\ m \in DOMAIN calls
    <3>1. {Op(n), Op(m)} = {"pair", "drop"} /\ n \in Running
      BY <1>1, <2>1
    <3> QED BY <1>1, <1>5, <2>1, <3>1 DEF TrustOK, PairOrDrop
  <2>2. ASSUME NEW o \in Running, {ask.op, Op(o)} = {"pair", "drop"} PROVE FALSE
    BY <1>5, <2>2 DEF Comes, Apart, Op
  <2>3. CASE n = k /\ m \in DOMAIN calls
    <3>1. {ask.op, Op(m)} = {"pair", "drop"}
      BY <1>1, <2>3
    <3> QED BY <1>1, <2>2, <2>3, <3>1
  <2>4. CASE m = k /\ n \in DOMAIN calls
    <3>1. {ask.op, Op(n)} = {"pair", "drop"} /\ n \in Running
      BY <1>1, <2>4
    <3> QED BY <2>2, <3>1
  <2>5. CASE m = k /\ n = k
    <3>1. {ask.op} = {"pair", "drop"}
      BY <1>1, <2>5
    <3>2. ask.op = "pair" /\ ask.op = "drop"
      BY <3>1, Zenon
    <3> QED BY <3>2
  <2> QED BY <1>1, <2>0, <2>1, <2>3, <2>4, <2>5
<1>6. ASSUME "onePad" \notin Habits, NEW n \in DOMAIN calls', Op(n)' = "pair", (At(n, "withdraw") \/ At(n, "reread"))'
      PROVE  (pads[Pad(n)].bonded /\ pads[Pad(n)].trusted)'
  <2>1. n # k
    BY <1>3, <1>6 DEF At
  <2> QED BY <1>1, <1>2, <1>6, <2>1 DEF TrustOK
<1>7. ASSUME "onePad" \notin Habits PROVE PairedIsTrusted'
  <2> SUFFICES ASSUME NEW n \in DOMAIN calls', calls'[n].answer = "paired",
                      ~ \E m \in DOMAIN calls' : m > n /\ calls'[m].ask = [op |-> "drop", pad |-> Pad(n)']
               PROVE  pads'[Pad(n)'].bonded /\ pads'[Pad(n)'].trusted
    BY DEF PairedIsTrusted
  <2>1. n \in DOMAIN calls
    BY <1>1, <1>3
  <2>2. ~ \E m \in DOMAIN calls : m > n /\ calls[m].ask = [op |-> "drop", pad |-> Pad(n)]
    BY <1>1, <2>1
  <2> QED BY <1>1, <1>2, <1>7, <2>1, <2>2 DEF TrustOK, PairedIsTrusted
<1> QED BY <1>4, <1>5, <1>6, <1>7 DEF TrustOK

-----------------------------------------------------------------------------
(* configd or the board starts again.                                      *)

LEMMA LostSame ==
  ASSUME CallsOK, Fails
  PROVE  /\ DOMAIN calls' = DOMAIN calls /\ Running' = {}
         /\ \A n \in DOMAIN calls : /\ Op(n)' = Op(n) /\ Pad(n)' = Pad(n)
                                    /\ calls'[n].ask = calls[n].ask
                                    /\ calls'[n].answer = calls[n].answer
                                    /\ calls'[n].left = calls[n].left
                                    /\ \A s : IsAbout(n, s)' <=> IsAbout(n, s)
                                    /\ \A f : Sets(n, f)' <=> Sets(n, f)
                                    /\ calls'[n].found \subseteq calls[n].found
                                    /\ calls'[n].at \in Ended
                                    /\ At(n, "done")' <=> At(n, "done")
                                    /\ Adds(n) => Adds(n)'
<1>1. DOMAIN calls' = DOMAIN calls
  BY FailsTypes
<1>2. ASSUME NEW n \in DOMAIN calls
      PROVE  /\ calls'[n].ask = calls[n].ask /\ calls'[n].answer = calls[n].answer
             /\ calls'[n].pad = calls[n].pad /\ calls'[n].left = calls[n].left
             /\ calls'[n].found \subseteq calls[n].found
             /\ calls'[n].at = IF n \in Running THEN "lost" ELSE calls[n].at
  <2>1. calls[n] \in Call
    BY CallIs
  <2>2. CASE n \in Running
    <3>1. calls'[n] = [calls[n] EXCEPT !.at = "lost", !.found = {}]
      BY <2>2, FailsTypes
    <3> QED BY <2>1, <2>2, <3>1 DEF Call
  <2>3. CASE n \notin Running
    BY <2>3, FailsTypes
  <2> QED BY <2>2, <2>3
<1>3. \A n \in DOMAIN calls : calls'[n].at \in Ended
  BY <1>2 DEF Running, Ended
<1>4. \A n \in DOMAIN calls : At(n, "done")' <=> At(n, "done")
  BY <1>1, <1>2 DEF At, Running, Ended
<1>5. \A n \in DOMAIN calls : Adds(n)'
  BY <1>1, <1>3 DEF Adds, At, Ended
<1>6. Running' = {}
  BY <1>1, <1>3 DEF Running
<1> QED BY <1>1, <1>2, <1>3, <1>4, <1>5, <1>6 DEF Op, Pad, IsAbout, Sets

LEMMA LostNet ==
  ASSUME CallsOK, Fails, UNCHANGED profiles, ProfilesOK, NetOK
  PROVE  ProfilesOK' /\ NetOK'
<1>1. /\ DOMAIN calls' = DOMAIN calls /\ Running' = {}
      /\ \A n \in DOMAIN calls : /\ Op(n)' = Op(n) /\ calls'[n].answer = calls[n].answer
                                 /\ calls'[n].left = calls[n].left
                                 /\ \A s : IsAbout(n, s)' <=> IsAbout(n, s)
                                 /\ calls'[n].found \subseteq calls[n].found
                                 /\ calls'[n].at \in Ended
                                 /\ At(n, "done")' <=> At(n, "done")
                                 /\ Adds(n) => Adds(n)'
  BY LostSame
<1>2. \A s : SavedConnections(s)' = SavedConnections(s)
  BY DEF SavedConnections
<1>3. ASSUME NEW id, Known(id) PROVE Known(id)'
  <2>1. CASE id \in Old
    BY <2>1 DEF Known
  <2>2. CASE Adds(id) /\ Op(id) = "connect"
    <3>1. id \in DOMAIN calls
      BY <2>2 DEF Adds, At
    <3> QED BY <1>1, <2>2, <3>1 DEF Known
  <2> QED BY <1>3, <2>1, <2>2 DEF Known
<1>4. ProfilesOK'
  <2>1. ASSUME NEW q \in profiles PROVE Known(q.id)' /\ IsFor(q)'
    <3>1. Known(q.id) /\ IsFor(q) /\ (q.id \notin Old => q.id \in DOMAIN calls)
      BY DEF ProfilesOK, Known, Adds, At
    <3> QED BY <1>1, <1>3, <3>1 DEF IsFor
  <2>2. ASSUME NEW n \in DOMAIN calls', NEW s \in Ssids, IsAbout(n, s)', NEW id \in calls'[n].found
        PROVE  Known(id)' /\ \A q \in profiles : q.id = id => q.ssid = s
    BY <1>1, <1>3, <2>2 DEF ProfilesOK
  <2> QED BY <2>1, <2>2 DEF ProfilesOK
<1>5. OneAtATime'
  BY <1>1 DEF OneAtATime
<1>6. ASSUME NEW s \in Ssids, NEW n \in DOMAIN calls' PROVE Deleting(n, s)'
  BY <1>1 DEF Deleting, At, Ended
<1>7. ASSUME "oneNetwork" \notin Habits, NEW s \in Ssids, NEW n \in DOMAIN calls', Stands(n, s)'
      PROVE  Left(n, s)'
  <2>1. n \in DOMAIN calls /\ Stands(n, s)
    BY <1>1, <1>7 DEF Stands, At, Ended
  <2>2. Left(n, s)
    BY <1>7, <2>1 DEF NetOK
  <2> QED BY <1>1, <1>2, <2>1, <2>2 DEF Left, Own
<1> QED BY <1>4, <1>5, <1>6, <1>7 DEF NetOK

LEMMA LostStore ==
  ASSUME CallsOK, Fails, UNCHANGED settings \/ (file' \in {file, disk} /\ disk' = file'), StoreOK
  PROVE  StoreOK'
<1> SUFFICES ASSUME "oneFile" \notin Habits
             PROVE  OneWriter' /\ Holds(file)' /\ Holds(disk)' /\
                    \A n \in DOMAIN calls' : /\ At(n, "write")' => calls'[n].config = file'
                                             /\ At(n, "sync")' => file'[calls'[n].ask.field] = n
  BY DEF StoreOK
<1>1. /\ DOMAIN calls' = DOMAIN calls /\ Running' = {}
      /\ \A n \in DOMAIN calls : /\ calls'[n].answer = calls[n].answer
                                 /\ \A f : Sets(n, f)' <=> Sets(n, f)
                                 /\ calls'[n].at \in Ended
  BY LostSame
<1>2. ASSUME NEW store, Holds(store)
      PROVE  Holds(store)'
  BY <1>1, <1>2 DEF Holds
<1>3. Holds(file)' /\ Holds(disk)'
  <2>1. file' \in {file, disk} /\ disk' \in {file, disk}
    BY DEF settings
  <2>2. Holds(file) /\ Holds(disk)
    BY DEF StoreOK
  <2> QED BY <1>2, <2>1, <2>2
<1>4. OneWriter'
  BY <1>1 DEF OneWriter
<1>5. \A n \in DOMAIN calls' : ~ At(n, "write")' /\ ~ At(n, "sync")'
  BY <1>1 DEF At, Ended
<1> QED BY <1>3, <1>4, <1>5

LEMMA LostPads ==
  ASSUME TypeOK, Fails, Keeps, RadioOK, TrustOK
  PROVE  RadioOK' /\ TrustOK'
<1>1. /\ DOMAIN calls' = DOMAIN calls /\ Running' = {}
      /\ \A n \in DOMAIN calls : /\ Op(n)' = Op(n) /\ Pad(n)' = Pad(n)
                                 /\ calls'[n].ask = calls[n].ask
                                 /\ calls'[n].answer = calls[n].answer
                                 /\ calls'[n].at \in Ended
  BY LostSame DEF TypeOK
<1>2. pairing' = 0 /\ radio' = Quiet
  BY DEF Fails
<1>3. RadioOK'
  <2>1. ASSUME NEW n \in DOMAIN calls', Op(n)' = "pair"
        PROVE  /\ calls'[n].at \in Locked => n = pairing'
               /\ calls'[n].at \in OfPad \/ calls'[n].answer = "paired" => Pad(n)' \in Pads
    BY <1>1, <2>1 DEF RadioOK, Ended, Locked, OfPad, Answering, Step
  <2> QED BY <1>2, <2>1 DEF RadioOK, Quiet
<1>4. PairOrDrop'
  BY <1>1 DEF PairOrDrop
<1>5. \A n \in DOMAIN calls' : ~ At(n, "withdraw")' /\ ~ At(n, "reread")'
  BY <1>1 DEF At, Ended
<1>6. ASSUME "onePad" \notin Habits, NEW n \in DOMAIN calls', calls'[n].answer = "paired",
             ~ \E m \in DOMAIN calls' : m > n /\ calls'[m].ask = [op |-> "drop", pad |-> Pad(n)']
      PROVE  pads'[Pad(n)'].bonded /\ pads'[Pad(n)'].trusted
  <2>1. pads[Pad(n)].bonded /\ pads[Pad(n)].trusted
    BY <1>1, <1>6 DEF TrustOK, PairedIsTrusted
  <2>2. Op(n) = "pair"
    <3>1. Op(n) \in Kind /\ calls[n].answer \in IF calls[n].at = "done" THEN Reply(Op(n)) ELSE {"none"}
      BY <1>1, CallIs, KindIs DEF TypeOK
    <3> QED BY <1>1, <1>6, <3>1 DEF Kind, Reply
  <2>3. Pad(n) \in Pads
    BY <1>1, <1>6, <2>2 DEF RadioOK
  <2> QED BY <1>1, <2>1, <2>3 DEF Keeps
<1> QED BY <1>3, <1>4, <1>5, <1>6 DEF TrustOK, PairedIsTrusted

-----------------------------------------------------------------------------
(* Networks: what a call about one does.                                   *)

LEMMA MovesSame ==
  ASSUME NEW n, Moves(n)
  PROVE  /\ n \in DOMAIN calls /\ n \in Running /\ DOMAIN calls' = DOMAIN calls
         /\ \A m \in DOMAIN calls : /\ Op(m)' = Op(m) /\ calls'[m].ask = calls[m].ask
                                    /\ \A s : IsAbout(m, s)' <=> IsAbout(m, s)
                                    /\ \A f : Sets(m, f)' <=> Sets(m, f)
         /\ \A m \in DOMAIN calls : m # n => /\ calls'[m] = calls[m] /\ Pad(m)' = Pad(m)
                                             /\ \A step : At(m, step)' <=> At(m, step)
                                             /\ m \in Running' <=> m \in Running
BY DEF Moves, Running, Op, IsAbout, Sets, At, Pad

LEMMA SavedIs ==
  ASSUME ProfilesOK, NEW p \in profiles, NEW q \in profiles, p.id = q.id
  PROVE  p.ssid = q.ssid
BY DEF ProfilesOK, IsFor, IsAbout

LEMMA ProfilesStep ==
  ASSUME CallsOK, ProfilesOK, NEW n, Moves(n), Adds(n) => Adds(n)',
         \A p \in profiles' : p \in profiles \/ (/\ p.id = n /\ ~ Adds(n) /\ Adds(n)'
                                                 /\ Op(n) = "connect" /\ IsAbout(n, p.ssid)),
         \/ calls'[n].found \subseteq calls[n].found
         \/ calls'[n].found \subseteq SavedConnections(calls[n].ask.ssid) /\ UNCHANGED profiles
  PROVE  ProfilesOK'
<1>1. /\ n \in DOMAIN calls /\ DOMAIN calls' = DOMAIN calls
      /\ \A m \in DOMAIN calls : Op(m)' = Op(m) /\ \A s : IsAbout(m, s)' <=> IsAbout(m, s)
      /\ \A m \in DOMAIN calls : m # n => calls'[m] = calls[m] /\ \A step : At(m, step)' <=> At(m, step)
  BY MovesSame
<1>2. ASSUME NEW id, Known(id) PROVE Known(id)'
  <2>1. CASE id \in Old
    BY <2>1 DEF Known
  <2>2. CASE Adds(id) /\ Op(id) = "connect"
    <3>1. id \in DOMAIN calls
      BY <2>2 DEF Adds, At
    <3>2. Adds(id)'
      BY <1>1, <2>2, <3>1 DEF Adds
    <3> QED BY <1>1, <2>2, <3>1, <3>2 DEF Known
  <2> QED BY <1>2, <2>1, <2>2 DEF Known
<1>3. n \in Number /\ n \notin Old
  BY <1>1, CallIs DEF Number
<1>4. ASSUME NEW p \in profiles' PROVE Known(p.id)' /\ IsFor(p)'
  <2>1. CASE p \in profiles
    <3>1. Known(p.id) /\ IsFor(p) /\ (p.id \notin Old => p.id \in DOMAIN calls)
      BY <2>1 DEF ProfilesOK, Known, Adds, At
    <3> QED BY <1>1, <1>2, <3>1 DEF IsFor
  <2>2. CASE p.id = n /\ Adds(n)' /\ Op(n) = "connect" /\ IsAbout(n, p.ssid)
    BY <1>1, <1>3, <2>2 DEF Known, IsFor
  <2> QED BY <2>1, <2>2
<1>5. ASSUME NEW m \in DOMAIN calls', NEW s \in Ssids, IsAbout(m, s)', NEW id \in calls'[m].found
      PROVE  Known(id)' /\ \A p \in profiles' : p.id = id => p.ssid = s
  <2>1. IsAbout(m, s) /\ m \in DOMAIN calls
    BY <1>1, <1>5
  <2>2. CASE id \in calls[m].found
    <3>1. Known(id) /\ \A p \in profiles : p.id = id => p.ssid = s
      BY <2>1, <2>2 DEF ProfilesOK
    <3>2. id = n => Adds(n)
      BY <1>3, <3>1 DEF Known
    <3> QED BY <1>2, <3>1, <3>2
  <2>3. CASE id \in SavedConnections(s) /\ UNCHANGED profiles
    <3>1. PICK q \in profiles : q.ssid = s /\ q.id = id
      BY <2>3 DEF SavedConnections
    <3>2. Known(id)
      BY <3>1 DEF ProfilesOK
    <3>3. \A p \in profiles : p.id = id => p.ssid = s
      BY <3>1, SavedIs
    <3> QED BY <1>2, <2>3, <3>2, <3>3
  <2> QED BY <1>1, <1>5, <2>1, <2>2, <2>3 DEF IsAbout
<1> QED BY <1>4, <1>5 DEF ProfilesOK

(* What a step of one call about a network may do to what is said of the   *)
(* other calls.                                                            *)
LEMMA NetStep ==
  ASSUME CallsOK, NetOK, "oneNetwork" \notin Habits,
         NEW n, Moves(n), NEW s \in Ssids, IsAbout(n, s),
         \A t \in Ssids \ {s} : SavedConnections(t)' = SavedConnections(t),
         Op(n) = "connect" \/ SavedConnections(s)' \subseteq SavedConnections(s),
         \/ calls'[n].at # "scan" /\ calls'[n].answer # "refused"
         \/ At(n, "scan") /\ UNCHANGED profiles,
         Deleting(n, s)',
         Stands(n, s)' => Left(n, s)'
  PROVE  NetOK'
<1>1. /\ n \in DOMAIN calls /\ n \in Running /\ DOMAIN calls' = DOMAIN calls
      /\ \A m \in DOMAIN calls : Op(m)' = Op(m) /\ \A t : IsAbout(m, t)' <=> IsAbout(m, t)
      /\ \A m \in DOMAIN calls : m # n => /\ calls'[m] = calls[m]
                                          /\ \A step : At(m, step)' <=> At(m, step)
                                          /\ m \in Running' <=> m \in Running
  BY MovesSame
<1>2. \A m \in DOMAIN calls : m \in Nat
  BY CallIs DEF Number
<1>3. \A m \in DOMAIN calls : \A t, u : IsAbout(m, t) /\ IsAbout(m, u) => t = u
  BY DEF IsAbout
<1>4. OneAtATime
  BY DEF NetOK
<1>5. OneAtATime'
  <2> SUFFICES ASSUME NEW k \in Running', NEW m \in DOMAIN calls', NEW t \in Ssids,
                      Both(m, k, t)', "connect" \in {Op(m), Op(k)}'
               PROVE  m < k /\ m \notin Running'
    BY DEF OneAtATime
  <2>1. k \in DOMAIN calls /\ m \in DOMAIN calls /\ Both(m, k, t) /\ "connect" \in {Op(m), Op(k)}
    BY <1>1 DEF Both, Running
  <2>2. k \in Running /\ (m \in Running' => m \in Running)
    BY <1>1, <2>1
  <2> QED BY <1>4, <2>1, <2>2 DEF OneAtATime
<1>6. ASSUME NEW m \in DOMAIN calls, m # n, NEW t \in Ssids, IsAbout(m, t)
      PROVE  Deleting(m, t)'
  <2>1. Deleting(m, t)
    BY <1>6 DEF NetOK
  <2>2. CASE t # s
    BY <1>1, <1>6, <2>1, <2>2 DEF Deleting
  <2>3. CASE t = s /\ "connect" \in {Op(m), Op(n)}
    <3>1. m \notin Running
      BY <1>1, <1>4, <1>6, <2>3 DEF OneAtATime, Both
    <3>2. calls'[m].at \in Ended
      BY <1>1, <1>6, <3>1 DEF Running
    <3> QED BY <3>2 DEF Deleting, At, Ended
  <2>4. CASE t = s /\ "connect" \notin {Op(m), Op(n)}
    <3>1. ~ At(m, "add") /\ ~ At(m, "poll") /\ ~ At(m, "cleanUp")
      BY <2>4, StepTells DEF At
    <3>2. SavedConnections(s)' \subseteq SavedConnections(s)
      BY <2>4
    <3> QED BY <1>1, <1>6, <2>1, <2>4, <3>1, <3>2 DEF Deleting
  <2> QED BY <2>2, <2>3, <2>4
<1>7. ASSUME NEW m \in DOMAIN calls, m # n, NEW t \in Ssids, Stands(m, t)'
      PROVE  Left(m, t)'
  <2>0. IsAbout(m, t) /\ calls'[m] = calls[m]
    BY <1>1, <1>7 DEF Stands
  <2>1. \A k \in DOMAIN calls : k # n /\ IsAbout(k, t) /\ k > m => At(k, "scan") \/ calls[k].answer = "refused"
    BY <1>1, <1>7 DEF Stands
  <2>2. IsAbout(m, t) /\ At(m, "done") /\ calls[m].answer # "refused"
    BY <1>1, <1>7 DEF Stands
  <2>3. Stands(m, t) => Left(m, t)
    BY DEF NetOK
  <2>4. CASE t # s
    <3>1. Stands(m, t)
      BY <1>1, <1>3, <2>1, <2>2, <2>4 DEF Stands
    <3> QED BY <2>0, <2>3, <2>4, <3>1 DEF Left, Own
  <2>5. CASE t = s /\ n > m
    <3>1. At(n, "scan")' \/ calls'[n].answer = "refused"
      BY <1>1, <1>7, <2>5 DEF Stands
    <3>2. At(n, "scan") /\ UNCHANGED profiles
      BY <1>1, <3>1 DEF At
    <3>3. Stands(m, t)
      BY <2>1, <2>2, <3>2 DEF Stands
    <3> QED BY <2>0, <2>3, <3>2, <3>3 DEF Left, Own, SavedConnections
  <2>6. CASE t = s /\ m > n
    <3>1. "connect" \notin {Op(m), Op(n)}
      BY <1>1, <1>2, <1>4, <2>0, <2>6 DEF OneAtATime, Both
    <3>2. calls[m].answer # "connected"
      <4>1. Op(m) \in Kind /\ calls[m].answer \in IF calls[m].at = "done" THEN Reply(Op(m)) ELSE {"none"}
        BY CallIs, KindIs
      <4> QED BY <3>1, <4>1 DEF Kind, Reply
    <3>3. Stands(m, t)
      BY <1>1, <1>2, <2>1, <2>2, <2>6 DEF Stands
    <3>4. SavedConnections(s) \subseteq calls[m].left /\ SavedConnections(s)' \subseteq SavedConnections(s)
      BY <2>3, <2>6, <3>1, <3>2, <3>3 DEF Left, Own
    <3> QED BY <2>0, <2>6, <3>2, <3>4 DEF Left, Own
  <2> QED BY <1>1, <1>2, <1>7, <2>4, <2>5, <2>6
<1>8. \A t \in Ssids : IsAbout(n, t)' => t = s
  BY <1>1, <1>3
<1>9. ASSUME NEW t \in Ssids, NEW m \in DOMAIN calls', IsAbout(m, t)' PROVE Deleting(m, t)'
  BY <1>1, <1>6, <1>8, <1>9
<1>10. ASSUME NEW t \in Ssids, NEW m \in DOMAIN calls', Stands(m, t)' PROVE Left(m, t)'
  <2>1. m = n => t = s
    BY <1>8, <1>10 DEF Stands
  <2> QED BY <1>1, <1>7, <1>10, <2>1
<1> QED BY <1>5, <1>9, <1>10 DEF NetOK

LEMMA CallGoes ==
  ASSUME NEW n \in DOMAIN calls, calls[n] \in Call, NEW step, Goes(n, step)
  PROVE  /\ calls'[n].at = step /\ calls'[n].found = calls[n].found /\ calls'[n].left = calls[n].left
         /\ calls'[n].answer = calls[n].answer /\ calls'[n].config = calls[n].config
         /\ calls'[n].pad = calls[n].pad
         /\ DOMAIN calls' = DOMAIN calls
BY DEF Goes, Call

LEMMA CallAnswered ==
  ASSUME NEW n \in DOMAIN calls, calls[n] \in Call, NEW what, Answer(n, what)
  PROVE  /\ calls'[n].at = "done" /\ calls'[n].found = {} /\ calls'[n].left = calls[n].left
         /\ calls'[n].answer = what /\ calls'[n].pad = calls[n].pad
         /\ DOMAIN calls' = DOMAIN calls
BY DEF Answer, Call

LEMMA WithoutIt ==
  ASSUME NEW id, Without(id)
  PROVE  \A t : SavedConnections(t)' = SavedConnections(t) \ {id}
BY DEF Without, SavedConnections

LEMMA NetKept ==
  ASSUME TypeOK, ProfilesOK, NetOK, NEW n \in Number, OfNet(n)
  PROVE  ProfilesOK' /\ NetOK'
<1>0. CallsOK /\ Moves(n) /\ n \in DOMAIN calls /\ Op(n) \in {"connect", "forget"}
  BY NetMoves DEF TypeOK, Moves, Running
<1>1. calls[n] \in Call /\ calls[n].ask \in Ask
  BY <1>0, CallIs DEF Call
<1>2. PICK s \in Ssids : s = calls[n].ask.ssid /\ IsAbout(n, s)
  BY <1>0, <1>1, AskIs DEF Op, IsAbout
<1>3. DOMAIN calls' = DOMAIN calls
  BY <1>0 DEF Moves
<1>4. n \in Running /\ calls[n].answer = "none"
  BY <1>0, CallIs DEF Moves, Running, Ended
<1>g. ASSUME NEW step, Goes(n, step)
      PROVE  /\ calls'[n].at = step /\ calls'[n].found = calls[n].found /\ calls'[n].answer = "none"
             /\ calls'[n].left = calls[n].left
  BY <1>0, <1>1, <1>4, <1>g, CallGoes
<1>a. ASSUME NEW what, Answer(n, what)
      PROVE  /\ calls'[n].at = "done" /\ calls'[n].found = {} /\ calls'[n].answer = what
             /\ calls'[n].left = calls[n].left
  BY <1>0, <1>1, <1>a, CallAnswered
<1>f. ASSUME NEW t, NEW id \in SavedConnections(t), id \in calls[n].found PROVE t = s
  <2>1. PICK q \in profiles : q.id = id /\ q.ssid = t
    BY <1>f DEF SavedConnections
  <2> QED BY <1>0, <1>2, <1>f, <2>1 DEF ProfilesOK
<1>n. "oneNetwork" \notin Habits => Deleting(n, s)
  BY <1>0, <1>2 DEF NetOK
<1>q. ASSUME UNCHANGED network, Adds(n) => Adds(n)',
             \/ calls'[n].found \subseteq calls[n].found
             \/ calls'[n].found \subseteq SavedConnections(calls[n].ask.ssid),
             (calls'[n].at # "scan" /\ calls'[n].answer # "refused") \/ At(n, "scan"),
             "oneNetwork" \notin Habits => Deleting(n, s)' /\ (Stands(n, s)' => Left(n, s)')
      PROVE  ProfilesOK' /\ NetOK'
  <2>1. profiles' = profiles /\ \A t : SavedConnections(t)' = SavedConnections(t)
    BY <1>q DEF network, SavedConnections
  <2>2. ProfilesOK'
    BY <1>0, <1>q, <2>1, ProfilesStep
  <2>3. CASE "oneNetwork" \notin Habits
    <3>1. \A t \in Ssids \ {s} : SavedConnections(t)' = SavedConnections(t)
      BY <2>1
    <3>2. SavedConnections(s)' \subseteq SavedConnections(s)
      BY <2>1
    <3>3. Deleting(n, s)' /\ (Stands(n, s)' => Left(n, s)')
      BY <1>q, <2>3
    <3>4. (calls'[n].at # "scan" /\ calls'[n].answer # "refused") \/ (At(n, "scan") /\ UNCHANGED profiles)
      BY <1>q, <2>1
    <3> QED BY <1>0, <1>2, <2>2, <2>3, <3>1, <3>2, <3>3, <3>4, NetStep
  <2>4. CASE "oneNetwork" \in Habits
    BY <2>2, <2>4 DEF NetOK
  <2> QED BY <2>2, <2>3, <2>4
<1>w. ASSUME NEW id, Without(id), id \in calls[n].found \/ (id = n /\ Adds(n)),
             Adds(n) => Adds(n)', calls'[n].found \subseteq calls[n].found,
             calls'[n].at # "scan" /\ calls'[n].answer # "refused",
             "oneNetwork" \notin Habits => Deleting(n, s)' /\ (Stands(n, s)' => Left(n, s)')
      PROVE  ProfilesOK' /\ NetOK'
  <2>1. \A t : SavedConnections(t)' = SavedConnections(t) \ {id}
    BY <1>w, WithoutIt
  <2>2. \A p \in profiles' : p \in profiles
    BY <1>w DEF Without
  <2>3. ProfilesOK'
    BY <1>0, <1>w, <2>2, ProfilesStep
  <2>4. ASSUME NEW t \in Ssids, t # s PROVE SavedConnections(t)' = SavedConnections(t)
    <3>1. id \notin SavedConnections(t)
      <4>1. CASE id \in calls[n].found
        BY <1>f, <2>4, <4>1
      <4>2. CASE id = n
        <5>1. n \notin Old
          BY <1>0, CallIs DEF Number
        <5>2. \A p \in profiles : p.id = n => IsAbout(n, p.ssid)
          BY <5>1 DEF ProfilesOK, IsFor
        <5> QED BY <1>2, <2>4, <4>2, <5>2 DEF SavedConnections, IsAbout
      <4> QED BY <1>w, <4>1, <4>2
    <3> QED BY <2>1, <3>1
  <2>5. CASE "oneNetwork" \notin Habits
    <3>1. SavedConnections(s)' \subseteq SavedConnections(s)
      BY <2>1
    <3>2. Deleting(n, s)' /\ (Stands(n, s)' => Left(n, s)')
      BY <1>w, <2>5
    <3> QED BY <1>0, <1>2, <1>w, <2>3, <2>4, <2>5, <3>1, <3>2, NetStep
  <2>6. CASE "oneNetwork" \in Habits
    BY <2>3, <2>6 DEF NetOK
  <2> QED BY <2>3, <2>5, <2>6
<1>r1. CASE Refuse(n)
  <2>1. /\ At(n, "scan") /\ UNCHANGED network
        /\ calls'[n].at = "done" /\ calls'[n].found = {} /\ calls'[n].answer = "refused"
    BY <1>a, <1>r1 DEF Refuse, Net, NetAt
  <2>2. Deleting(n, s)' /\ ~ Stands(n, s)' /\ Adds(n)'
    BY <1>0, <1>3, <2>1 DEF Deleting, Stands, At, Adds
  <2> QED BY <1>q, <2>1, <2>2
<1>r2. CASE Scan(n)
  <2>1. /\ At(n, "scan") /\ UNCHANGED network
        /\ calls'[n].at = "list" /\ calls'[n].found = calls[n].found /\ calls'[n].answer = "none"
    BY <1>g, <1>r2 DEF Scan, Net, NetAt
  <2>2. Deleting(n, s)' /\ ~ Stands(n, s)' /\ ~ Adds(n)
    BY <1>0, <1>3, <2>1 DEF Deleting, Stands, At, Adds
  <2> QED BY <1>q, <2>1, <2>2
<1>r3. CASE List(n)
  <2>1. /\ At(n, "list") /\ UNCHANGED network
        /\ calls'[n].at = "delete" /\ calls'[n].found = SavedConnections(calls[n].ask.ssid)
        /\ calls'[n].answer = "none" /\ calls'[n].left = calls[n].left
    BY <1>0, <1>1, <1>4, <1>r3 DEF List, Net, NetAt, Call
  <2>2. Deleting(n, s)' /\ ~ Stands(n, s)' /\ ~ Adds(n)
    BY <1>0, <1>2, <1>3, <2>1 DEF Deleting, Stands, At, Adds, network, SavedConnections
  <2> QED BY <1>q, <2>1, <2>2
<1>r4. CASE DeleteSaved(n)
  <2>1. PICK id \in calls[n].found : /\ At(n, "delete") /\ Without(id)
                                     /\ calls' = [calls EXCEPT ![n].found = @ \ {id}]
    BY <1>r4 DEF DeleteSaved, Net, NetAt
  <2>2. /\ calls'[n].at = "delete" /\ calls'[n].found = calls[n].found \ {id}
        /\ calls'[n].answer = "none" /\ calls'[n].left = calls[n].left
    BY <1>0, <1>1, <1>4, <2>1 DEF Call, At
  <2>3. SavedConnections(s)' = SavedConnections(s) \ {id}
    BY <2>1, WithoutIt
  <2>4. "oneNetwork" \notin Habits => Deleting(n, s)'
    BY <1>0, <1>3, <1>n, <2>1, <2>2, <2>3, MovesSame DEF Deleting, At
  <2>5. ~ Stands(n, s)' /\ ~ Adds(n)
    BY <1>0, <1>3, <2>1, <2>2 DEF Stands, At, Adds
  <2> QED BY <1>w, <2>1, <2>2, <2>4, <2>5
<1>l. ASSUME NEW ids \in SUBSET Id, LeavesAll(n, ids), At(n, "list") \/ At(n, "delete"),
             UNCHANGED network,
             "oneNetwork" \notin Habits => SavedConnections(s) \subseteq calls[n].left \cup ids
      PROVE  ProfilesOK' /\ NetOK'
  <2>1. /\ calls'[n].found = {} /\ calls'[n].left = calls[n].left \cup ids
        /\ IF Op(n) = "forget" THEN calls'[n].at = "done" /\ calls'[n].answer = "error"
                               ELSE calls'[n].at = "add" /\ calls'[n].answer = "none"
    BY <1>0, <1>4, <1>l, Leaves
  <2>2. SavedConnections(s)' = SavedConnections(s)
    BY <1>l DEF network, SavedConnections
  <2>3. ~ Adds(n)
    BY <1>l DEF At, Adds
  <2>4. "oneNetwork" \notin Habits => SavedConnections(s)' \subseteq calls'[n].left
    BY <1>l, <2>1, <2>2
  <2>5. "oneNetwork" \notin Habits => Deleting(n, s)'
    BY <1>0, <1>3, <2>1, <2>4 DEF Deleting, At
  <2>6. "oneNetwork" \notin Habits => Left(n, s)'
    BY <2>1, <2>4 DEF Left, Own
  <2>7. calls'[n].at # "scan" /\ calls'[n].answer # "refused"
    BY <2>1
  <2> QED BY <1>l, <1>q, <2>1, <2>3, <2>5, <2>6, <2>7
<1>v. ASSUME NEW what, what # "refused", what # "connected", AnswerLeaving(n, what),
             At(n, "poll") \/ At(n, "cleanUp"), UNCHANGED network
      PROVE  ProfilesOK' /\ NetOK'
  <2>1. /\ calls'[n].at = "done" /\ calls'[n].found = {} /\ calls'[n].answer = what
        /\ calls'[n].left = calls[n].left \cup {n}
    BY <1>0, <1>1, <1>v DEF AnswerLeaving, Call
  <2>2. Deleting(n, s)' /\ Adds(n)'
    BY <1>0, <1>3, <2>1 DEF Deleting, At, Adds
  <2>3. "oneNetwork" \notin Habits => SavedConnections(s) \subseteq calls'[n].left
    BY <1>n, <1>v, <2>1 DEF Deleting
  <2>4. "oneNetwork" \notin Habits => Left(n, s)'
    BY <1>v, <2>1, <2>3 DEF Left, Own, SavedConnections, network
  <2> QED BY <1>v, <1>q, <2>1, <2>2, <2>4
<1>r5. CASE DeleteFails(n)
  <2>1. At(n, "delete") /\ UNCHANGED network /\ LeavesAll(n, calls[n].found)
    BY <1>r5 DEF DeleteFails, Net, NetAt, NetFails
  <2>2. calls[n].found \in SUBSET Id
    BY <1>1 DEF Call
  <2>3. "oneNetwork" \notin Habits => SavedConnections(s) \subseteq calls[n].left \cup calls[n].found
    BY <1>n, <2>1 DEF Deleting
  <2> QED BY <1>l, <2>1, <2>2, <2>3
<1>r13. CASE ListFails(n)
  <2>1. At(n, "list") /\ UNCHANGED network /\ LeavesAll(n, SavedConnections(s))
    BY <1>2, <1>r13 DEF ListFails, NetFails, NetAt
  <2>2. SavedConnections(s) \in SUBSET Id
    BY DEF SavedConnections, Profile, TypeOK
  <2> QED BY <1>l, <2>1, <2>2
<1>r14. CASE ListSkips(n)
  <2>1. PICK id \in SavedConnections(s) :
          calls' = [calls EXCEPT ![n].at = "delete", ![n].found = SavedConnections(s) \ {id},
                                 ![n].left = {id}]
    BY <1>2, <1>r14 DEF ListSkips
  <2>2. /\ calls'[n].at = "delete" /\ calls'[n].found = SavedConnections(s) \ {id}
        /\ calls'[n].left = {id} /\ calls'[n].answer = "none"
    BY <1>0, <1>1, <1>4, <2>1 DEF Call
  <2>3. At(n, "list") /\ UNCHANGED network
    BY <1>r14 DEF ListSkips, NetFails, NetAt
  <2>4. ~ Stands(n, s)' /\ ~ Adds(n)
    BY <1>0, <1>3, <2>2, <2>3 DEF Stands, At, Adds
  <2>5. SavedConnections(s)' = SavedConnections(s)
    BY <2>3 DEF network, SavedConnections
  <2>6. Deleting(n, s)'
    BY <1>0, <1>3, <2>2, <2>5 DEF Deleting, At
  <2>7. calls'[n].found \subseteq SavedConnections(calls[n].ask.ssid)
    BY <1>2, <2>2
  <2> QED BY <1>q, <2>2, <2>3, <2>4, <2>6, <2>7
<1>r15. CASE StatusFails(n)
  <2>1. At(n, "poll") /\ UNCHANGED network /\ AnswerLeaving(n, "error")
    BY <1>r15 DEF StatusFails, NetFails, NetAt
  <2> QED BY <1>v, <2>1
<1>r16. CASE CleanUpFails(n)
  <2>1. At(n, "cleanUp") /\ UNCHANGED network /\ AnswerLeaving(n, "failed")
    BY <1>r16 DEF CleanUpFails, NetFails, NetAt
  <2> QED BY <1>v, <2>1
<1>r6. CASE Forgotten(n)
  <2>1. /\ At(n, "delete") /\ UNCHANGED network /\ calls[n].found = {}
        /\ calls'[n].at = "done" /\ calls'[n].found = {} /\ calls'[n].answer = "forgotten"
        /\ calls'[n].left = calls[n].left
    BY <1>a, <1>r6 DEF Forgotten, Net, NetAt
  <2>2. Deleting(n, s)' /\ Adds(n)'
    BY <1>0, <1>3, <2>1 DEF Deleting, At, Adds
  <2>3. "oneNetwork" \notin Habits => Left(n, s)'
    BY <1>n, <2>1 DEF Deleting, Left, Own, SavedConnections, network
  <2> QED BY <1>q, <2>1, <2>2, <2>3
<1>r7. CASE Replaced(n)
  <2>1. /\ At(n, "delete") /\ UNCHANGED network /\ calls[n].found = {}
        /\ calls'[n].at = "add" /\ calls'[n].found = {} /\ calls'[n].answer = "none"
        /\ calls'[n].left = calls[n].left
    BY <1>g, <1>r7 DEF Replaced, Net, NetAt
  <2>2. ~ Stands(n, s)' /\ ~ Adds(n)
    BY <1>0, <1>3, <2>1 DEF Stands, At, Adds
  <2>3. "oneNetwork" \notin Habits => Deleting(n, s)'
    BY <1>n, <2>1 DEF Deleting, SavedConnections, network, At
  <2> QED BY <1>q, <2>1, <2>2, <2>3
<1>r8. CASE AddFails(n)
  <2>1. /\ At(n, "add") /\ UNCHANGED network
        /\ calls'[n].at = "done" /\ calls'[n].found = {} /\ calls'[n].answer = "failed"
        /\ calls'[n].left = calls[n].left
    BY <1>a, <1>r8 DEF AddFails, Net, NetAt
  <2>2. Deleting(n, s)' /\ Adds(n)'
    BY <1>0, <1>3, <2>1 DEF Deleting, At, Adds
  <2>3. "oneNetwork" \notin Habits => Left(n, s)'
    BY <1>n, <2>1 DEF Deleting, Left, Own, SavedConnections, network
  <2> QED BY <1>q, <2>1, <2>2, <2>3
<1>r9. CASE AddAndActivate(n)
  <2>1. /\ At(n, "add") /\ Op(n) = "connect"
        /\ profiles' = profiles \cup {[id |-> n, ssid |-> s, key |-> calls[n].ask.key]}
        /\ calls'[n].at = "poll" /\ calls'[n].found = calls[n].found /\ calls'[n].answer = "none"
        /\ calls'[n].left = calls[n].left
    BY <1>0, <1>2, <1>g, <1>r9, StepTells DEF AddAndActivate, Net, NetAt, At
  <2>2. ~ Adds(n) /\ Adds(n)' /\ ~ Stands(n, s)'
    BY <1>0, <1>3, <2>1 DEF Stands, At, Adds
  <2>3. \A p \in profiles' : p \in profiles \/ (p.id = n /\ IsAbout(n, p.ssid))
    BY <1>2, <2>1
  <2>4. ProfilesOK'
    BY <1>0, <2>1, <2>2, <2>3, ProfilesStep
  <2>5. \A t : SavedConnections(t)' = IF t = s THEN SavedConnections(t) \cup {n} ELSE SavedConnections(t)
    <3> DEFINE new == [id |-> n, ssid |-> s, key |-> calls[n].ask.key]
    <3>1. profiles' = profiles \cup {new} /\ new.id = n /\ new.ssid = s
      BY <2>1
    <3> HIDE DEF new
    <3> TAKE t
    <3>2. \A x : x \in SavedConnections(t)' <=> x \in SavedConnections(t) \/ (t = s /\ x = n)
      BY <3>1 DEF SavedConnections
    <3> QED BY <3>2
  <2>6. CASE "oneNetwork" \notin Habits
    <3>1. Deleting(n, s)'
      BY <1>n, <2>1, <2>5, <2>6 DEF Deleting, At
    <3>2. \A t \in Ssids \ {s} : SavedConnections(t)' = SavedConnections(t)
      BY <2>5
    <3> QED BY <1>0, <1>2, <2>1, <2>2, <2>4, <2>6, <3>1, <3>2, NetStep
  <2>7. CASE "oneNetwork" \in Habits
    BY <2>4, <2>7 DEF NetOK
  <2> QED BY <2>4, <2>6, <2>7
<1>r10. CASE Connected(n)
  <2>1. /\ At(n, "poll") /\ UNCHANGED network
        /\ calls'[n].at = "done" /\ calls'[n].found = {} /\ calls'[n].answer = "connected"
        /\ calls'[n].left = calls[n].left
    BY <1>a, <1>r10 DEF Connected, Net, NetAt
  <2>2. Deleting(n, s)' /\ Adds(n)'
    BY <1>0, <1>3, <2>1 DEF Deleting, At, Adds
  <2>3. "oneNetwork" \notin Habits => Left(n, s)'
    BY <1>n, <2>1 DEF Deleting, Left, Own, SavedConnections, network
  <2> QED BY <1>q, <2>1, <2>2, <2>3
<1>r11. CASE NotConnected(n) \/ ConnectTimeout(n)
  <2>1. /\ At(n, "poll") /\ UNCHANGED network
        /\ calls'[n].at = "cleanUp" /\ calls'[n].found = calls[n].found /\ calls'[n].answer = "none"
        /\ calls'[n].left = calls[n].left
    BY <1>g, <1>r11 DEF NotConnected, ConnectTimeout, NetFails, Net, NetAt
  <2>2. ~ Stands(n, s)' /\ Adds(n)'
    BY <1>0, <1>3, <2>1 DEF Stands, At, Adds
  <2>3. "oneNetwork" \notin Habits => Deleting(n, s)'
    BY <1>n, <2>1 DEF Deleting, SavedConnections, network, At
  <2> QED BY <1>q, <2>1, <2>2, <2>3
<1>r12. CASE CleanUp(n)
  <2>1. /\ At(n, "cleanUp") /\ Without(n)
        /\ calls'[n].at = "done" /\ calls'[n].found = {} /\ calls'[n].answer = "failed"
        /\ calls'[n].left = calls[n].left
    BY <1>a, <1>r12 DEF CleanUp, Net, NetAt
  <2>2. Deleting(n, s)' /\ Adds(n)' /\ Adds(n)
    BY <1>0, <1>3, <2>1 DEF Deleting, At, Adds
  <2>3. SavedConnections(s)' = SavedConnections(s) \ {n}
    BY <2>1, WithoutIt
  <2>4. "oneNetwork" \notin Habits => Left(n, s)'
    BY <1>n, <2>1, <2>3 DEF Deleting, Left, Own
  <2> QED BY <1>w, <2>1, <2>2, <2>4
<1> QED BY <1>r1, <1>r2, <1>r3, <1>r4, <1>r5, <1>r6, <1>r7, <1>r8, <1>r9, <1>r10, <1>r11, <1>r12,
           <1>r13, <1>r14, <1>r15, <1>r16 DEF OfNet

-----------------------------------------------------------------------------
(* The file: what a call that sets a field does.                           *)

LEMMA StoreKept ==
  ASSUME TypeOK, StoreOK, NEW n \in Number, OfStore(n)
  PROVE  StoreOK'
<1> SUFFICES ASSUME "oneFile" \notin Habits
             PROVE  OneWriter' /\ Holds(file)' /\ Holds(disk)' /\
                    \A m \in DOMAIN calls' : /\ At(m, "write")' => calls'[m].config = file'
                                             /\ At(m, "sync")' => file'[calls'[m].ask.field] = m
  BY DEF StoreOK
<1>0. CallsOK /\ Moves(n) /\ Op(n) = "set" /\ OneWriter /\ Holds(file) /\ Holds(disk)
  BY StoreMoves DEF TypeOK, StoreOK
<1>1. /\ n \in DOMAIN calls /\ n \in Running /\ DOMAIN calls' = DOMAIN calls
      /\ \A m \in DOMAIN calls : Op(m)' = Op(m) /\ \A f : Sets(m, f)' <=> Sets(m, f)
      /\ \A m \in DOMAIN calls : m # n => /\ calls'[m] = calls[m]
                                          /\ \A step : At(m, step)' <=> At(m, step)
                                          /\ m \in Running' <=> m \in Running
  BY <1>0, MovesSame
<1>2. calls[n] \in Call /\ calls[n].ask \in Ask /\ calls[n].answer = "none" /\ n \in Nat
  BY <1>0, <1>1, CallIs DEF Call, Running, Ended, Number
<1>3. calls[n].ask.field \in Field /\ calls'[n].ask = calls[n].ask
  BY <1>0, <1>2, AskIs DEF Op, Moves
<1>4. OneWriter'
  BY <1>0, <1>1 DEF OneWriter, Running
<1>5. ASSUME NEW m \in DOMAIN calls, m # n
      PROVE  ~ At(m, "write")' /\ ~ At(m, "sync")'
  <2>1. Op(m) = "set" => m \notin Running
    <3>1. m \in Nat
      BY CallIs, <1>0 DEF Number
    <3> QED BY <1>0, <1>1, <1>2, <1>5, <3>1 DEF OneWriter
  <2>2. ~ At(m, "write") /\ ~ At(m, "sync")
    BY <1>0, <2>1, StepTells DEF At, Running, Ended
  <2> QED BY <1>1, <1>5, <2>2
<1>6. ASSUME NEW store, Holds(store), calls'[n].answer # "stored"
      PROVE  Holds(store)'
  BY <1>1, <1>6 DEF Holds
<1>7. \A m \in DOMAIN calls : Op(m) = "set" => m <= n
  BY <1>0, <1>1 DEF OneWriter
<1>8. CASE ReadFile(n)
  <2>1. /\ calls'[n].at = "write" /\ calls'[n].config = file /\ calls'[n].answer = "none"
        /\ file' = file /\ disk' = disk
    BY <1>1, <1>2, <1>8 DEF ReadFile, Call, settings
  <2>2. \A m \in DOMAIN calls' : /\ At(m, "write")' => calls'[m].config = file'
                                 /\ At(m, "sync")' => file'[calls'[m].ask.field] = m
    BY <1>1, <1>5, <2>1 DEF At
  <2> QED BY <1>0, <1>4, <1>6, <2>1, <2>2
<1>9. CASE Rename(n)
  <2>1. /\ At(n, "write") /\ calls'[n].at = "sync" /\ calls'[n].answer = "none"
        /\ file' = [calls[n].config EXCEPT ![calls[n].ask.field] = n] /\ disk' = disk
    BY <1>1, <1>2, <1>9, CallGoes DEF Rename, Store
  <2>2. file \in [Field -> 0..MaxCalls] /\ file' = [file EXCEPT ![calls[n].ask.field] = n]
    BY <1>1, <2>1 DEF StoreOK, TypeOK, Config
  <2>3. \A f \in Field : file'[f] = IF f = calls[n].ask.field THEN n ELSE file[f]
    BY <2>2
  <2>4. Holds(file)'
    <3> SUFFICES ASSUME NEW f \in Field
                 PROVE  /\ file'[f] = 0 \/ (file'[f] \in DOMAIN calls /\ Sets(file[f], f)')
                        /\ \A m \in DOMAIN calls : Sets(m, f) /\ calls'[m].answer = "stored" => m <= file'[f]
      BY <1>1 DEF Holds
    <3>1. CASE f = calls[n].ask.field
      <4>1. Sets(n, f) /\ file'[f] = n
        BY <1>0, <2>3, <3>1 DEF Sets, Op
      <4>2. Sets(file[f], f)'
        BY <1>1, <1>3, <3>1, <4>1 DEF Sets, Op
      <4> QED BY <1>1, <1>7, <4>1, <4>2 DEF Sets, Op
    <3>2. CASE f # calls[n].ask.field
      <4>1. file'[f] = file[f] /\ ~ Sets(n, f)
        BY <2>3, <3>2 DEF Sets
      <4>2. file[f] = 0 \/ (file[f] \in DOMAIN calls /\ Sets(file[f], f))
        BY <1>0 DEF Holds
      <4>3. file'[f] = 0 \/ (file'[f] \in DOMAIN calls /\ Sets(file[f], f)')
        BY <1>1, <4>1, <4>2, <1>3 DEF Sets, Moves
      <4> QED BY <1>0, <1>1, <4>1, <4>3 DEF Holds
    <3> QED BY <3>1, <3>2
  <2>5. \A m \in DOMAIN calls' : /\ At(m, "write")' => calls'[m].config = file'
                                 /\ At(m, "sync")' => file'[calls'[m].ask.field] = m
    BY <1>1, <1>3, <1>5, <2>1, <2>3 DEF At
  <2> QED BY <1>0, <1>4, <1>6, <2>1, <2>4, <2>5
<1>10. CASE SyncDirectory(n)
  <2>1. /\ At(n, "sync") /\ calls'[n].at = "done" /\ calls'[n].answer = "stored"
        /\ file' = file /\ disk' = file
    BY <1>1, <1>2, <1>10, CallAnswered DEF SyncDirectory, Store
  <2>2. file[calls[n].ask.field] = n
    BY <1>1, <2>1 DEF StoreOK
  <2>3. ASSUME NEW store, Holds(store), store[calls[n].ask.field] = n
        PROVE  Holds(store)'
    <3>1. \A f \in Field : Sets(n, f) => n <= store[f]
      BY <1>2, <2>3 DEF Sets
    <3> QED BY <1>1, <2>3, <3>1 DEF Holds
  <2>4. Holds(file)' /\ Holds(disk)'
    BY <1>0, <2>1, <2>2, <2>3
  <2>5. \A m \in DOMAIN calls' : ~ At(m, "write")' /\ ~ At(m, "sync")'
    BY <1>1, <1>5, <2>1 DEF At
  <2> QED BY <1>4, <2>4, <2>5
<1> QED BY <1>8, <1>9, <1>10 DEF OfStore

-----------------------------------------------------------------------------
(* Pads: what a pairing, and a call that forgets a pad, does.              *)

LEMMA RadioStep ==
  ASSUME TypeOK, RadioOK, NEW n, Moves(n), Op(n) = "pair", pairing \in {0, n},
         pairing' = IF calls'[n].at \in Locked THEN n ELSE 0,
         calls'[n].at \in OfPad \/ calls'[n].answer = "paired" => Pad(n)' \in Pads,
         radio'.scanning => calls'[n].at = "find",
         radio'.agent # 0 => calls'[n].at \in Answering /\ radio'.agent = Pad(n)'
  PROVE  RadioOK'
<1>1. /\ n \in DOMAIN calls /\ DOMAIN calls' = DOMAIN calls
      /\ \A m \in DOMAIN calls : Op(m)' = Op(m)
      /\ \A m \in DOMAIN calls : m # n => calls'[m] = calls[m] /\ Pad(m)' = Pad(m)
  BY MovesSame
<1>2. \A m \in DOMAIN calls : m # 0
  BY CallIs DEF TypeOK, Number
<1>3. ASSUME NEW m \in DOMAIN calls, Op(m) = "pair"
      PROVE  /\ calls'[m].at \in Locked => m = pairing'
             /\ calls'[m].at \in OfPad \/ calls'[m].answer = "paired" => Pad(m)' \in Pads
  <2>1. CASE m = n
    BY <2>1
  <2>2. CASE m # n
    BY <1>1, <1>2, <1>3, <2>2 DEF RadioOK
  <2> QED BY <2>1, <2>2
<1>4. "find" \in Locked /\ Answering \subseteq Locked
  BY DEF Locked, Answering, Step
<1>5. pairing' # 0 => pairing' = n /\ calls'[n].at \in Locked
  OBVIOUS
<1>6. radio'.scanning => pairing' = n /\ calls'[n].at = "find"
  BY <1>4
<1>7. radio'.agent # 0 => pairing' = n /\ calls'[n].at \in Answering /\ radio'.agent = Pad(n)'
  BY <1>4
<1>8. n # 0 /\ n \in DOMAIN calls'
  BY <1>1, <1>2
<1>9. pairing' # 0 => pairing' \in DOMAIN calls' /\ Op(pairing)' = "pair" /\ calls'[pairing'].at \in Locked
  BY <1>1, <1>5 DEF Op
<1>10. radio'.scanning => pairing' # 0 /\ At(pairing, "find")'
  BY <1>6, <1>8 DEF At
<1>11. radio'.agent # 0 => pairing' # 0 /\ calls'[pairing'].at \in Answering /\ radio'.agent = Pad(pairing)'
  BY <1>7, <1>8 DEF Pad
<1> QED BY <1>1, <1>3, <1>9, <1>10, <1>11 DEF RadioOK

LEMMA PairOrDropKept ==
  ASSUME PairOrDrop, NEW n, Moves(n)
  PROVE  PairOrDrop'
<1> SUFFICES ASSUME NEW k \in Running', NEW m \in DOMAIN calls', {Op(k), Op(m)}' = {"pair", "drop"}
             PROVE  m < k /\ m \notin Running'
  BY DEF PairOrDrop
<1>1. k \in DOMAIN calls /\ m \in DOMAIN calls /\ {Op(k), Op(m)} = {"pair", "drop"}
  BY MovesSame DEF Running
<1>2. k \in Running /\ (m \in Running' => m \in Running)
  BY <1>1, MovesSame
<1> QED BY <1>1, <1>2 DEF PairOrDrop

LEMMA TrustStep ==
  ASSUME TypeOK, RadioOK, TrustOK, NEW n, Moves(n), Op(n) = "pair", Keeps,
         "onePad" \notin Habits =>
            (calls'[n].at \in {"withdraw", "reread"} \/ calls'[n].answer = "paired"
              => pads'[Pad(n)'].bonded /\ pads'[Pad(n)'].trusted)
  PROVE  TrustOK'
<1> SUFFICES ASSUME "onePad" \notin Habits
             PROVE  /\ PairOrDrop' /\ PairedIsTrusted'
                    /\ \A m \in DOMAIN calls' :
                         Op(m)' = "pair" /\ (At(m, "withdraw") \/ At(m, "reread"))'
                           => (pads[Pad(m)].bonded /\ pads[Pad(m)].trusted)'
  BY DEF TrustOK
<1>1. /\ n \in DOMAIN calls /\ DOMAIN calls' = DOMAIN calls
      /\ \A m \in DOMAIN calls : Op(m)' = Op(m) /\ calls'[m].ask = calls[m].ask
      /\ \A m \in DOMAIN calls : m # n => /\ calls'[m] = calls[m] /\ Pad(m)' = Pad(m)
                                          /\ \A step : At(m, step)' <=> At(m, step)
  BY MovesSame
<1>2. PairOrDrop'
  BY PairOrDropKept DEF TrustOK
<1>3. ASSUME NEW m \in DOMAIN calls, Op(m) = "pair", At(m, "withdraw")' \/ At(m, "reread")'
      PROVE  (pads[Pad(m)].bonded /\ pads[Pad(m)].trusted)'
  <2>1. CASE m = n
    BY <1>3, <2>1 DEF At
  <2>2. CASE m # n
    <3>1. At(m, "withdraw") \/ At(m, "reread")
      BY <1>1, <1>3, <2>2
    <3>2. pads[Pad(m)].bonded /\ pads[Pad(m)].trusted /\ Pad(m)' = Pad(m)
      BY <1>1, <1>3, <2>2, <3>1 DEF TrustOK
    <3>3. Pad(m) \in Pads
      BY <1>3, <3>1 DEF RadioOK, At, OfPad, Answering
    <3> QED BY <3>2, <3>3 DEF Keeps
  <2> QED BY <2>1, <2>2
<1>4. ASSUME NEW m \in DOMAIN calls, calls'[m].answer = "paired",
             ~ \E k \in DOMAIN calls' : k > m /\ calls'[k].ask = [op |-> "drop", pad |-> Pad(m)']
      PROVE  pads'[Pad(m)'].bonded /\ pads'[Pad(m)'].trusted
  <2>1. CASE m = n
    BY <1>4, <2>1
  <2>2. CASE m # n
    <3>1. pads[Pad(m)].bonded /\ pads[Pad(m)].trusted /\ Pad(m)' = Pad(m)
      BY <1>1, <1>4, <2>2 DEF TrustOK, PairedIsTrusted
    <3>2. Op(m) = "pair"
      <4>1. Op(m) \in Kind /\ calls[m].answer \in IF calls[m].at = "done" THEN Reply(Op(m)) ELSE {"none"}
        BY CallIs, KindIs DEF TypeOK
      <4> QED BY <1>1, <1>4, <2>2, <4>1 DEF Kind, Reply
    <3>3. Pad(m) \in Pads
      BY <1>1, <1>4, <2>2, <3>2 DEF RadioOK
    <3> QED BY <3>1, <3>3 DEF Keeps
  <2> QED BY <2>1, <2>2
<1> QED BY <1>1, <1>2, <1>3, <1>4 DEF PairedIsTrusted

LEMMA PadForgotten ==
  ASSUME TypeOK, RadioOK, TrustOK, NEW n \in Number, ForgetPad(n), OfPads(n)
  PROVE  RadioOK' /\ TrustOK'
<1>0. CallsOK /\ Moves(n) /\ CallsOK' /\ TypeOK'
  BY PadMoves, PadTypes DEF TypeOK
<1>1. /\ n \in DOMAIN calls /\ n \in Running /\ DOMAIN calls' = DOMAIN calls
      /\ \A m \in DOMAIN calls : Op(m)' = Op(m) /\ calls'[m].ask = calls[m].ask
      /\ \A m \in DOMAIN calls : m # n => /\ calls'[m] = calls[m] /\ Pad(m)' = Pad(m)
                                          /\ \A step : At(m, step)' <=> At(m, step)
                                          /\ m \in Running' <=> m \in Running
  BY <1>0, MovesSame
<1>2. Op(n) = "drop" /\ calls[n] \in Call /\ calls[n].ask \in Ask /\ n \in Nat
  BY <1>0, <1>1, StepTells, CallIs DEF ForgetPad, Blue, At, Call, Number
<1>3. RadioOK'
  <2>1. Untouched({"pair"})
    BY <1>0, <1>2, MovesAlone
  <2>2. UNCHANGED <<pairing, radio>>
    BY DEF ForgetPad
  <2> QED BY <1>0, <2>1, <2>2, RadioFrame
<1>4. PICK d \in Pads : /\ calls[n].ask = [op |-> "drop", pad |-> d]
                        /\ \A e \in Pads : e # d => pads'[e] = pads[e]
  <2>1. calls[n].ask.pad \in Pads /\ calls[n].ask = [op |-> "drop", pad |-> calls[n].ask.pad]
    BY <1>2, AskIs DEF Op
  <2>2. \A e \in Pads : e # calls[n].ask.pad => pads'[e] = pads[e]
    BY DEF ForgetPad, TypeOK
  <2> QED BY <2>1, <2>2
<1>5. ASSUME "onePad" \notin Habits, NEW m \in DOMAIN calls, Op(m) = "pair"
      PROVE  m < n /\ m \notin Running /\ m # n
  <2>1. {Op(n), Op(m)} = {"pair", "drop"}
    BY <1>2, <1>5
  <2> QED BY <1>1, <1>2, <1>5, <2>1 DEF TrustOK, PairOrDrop
<1>6. ASSUME "onePad" \notin Habits PROVE PairOrDrop'
  BY <1>0, <1>6, PairOrDropKept DEF TrustOK
<1>7. ASSUME "onePad" \notin Habits, NEW m \in DOMAIN calls, Op(m) = "pair"
      PROVE  ~ At(m, "withdraw")' /\ ~ At(m, "reread")'
  BY <1>1, <1>5, <1>7 DEF Running, At, Ended
<1>8. ASSUME "onePad" \notin Habits, NEW m \in DOMAIN calls', calls'[m].answer = "paired",
             ~ \E k \in DOMAIN calls' : k > m /\ calls'[k].ask = [op |-> "drop", pad |-> Pad(m)']
      PROVE  pads'[Pad(m)'].bonded /\ pads'[Pad(m)'].trusted
  <2>1. calls'[n].answer = "forgotten"
    BY <1>1, <1>2, CallAnswered DEF ForgetPad
  <2>2. m # n /\ calls'[m] = calls[m] /\ Pad(m)' = Pad(m)
    BY <1>1, <1>8, <2>1
  <2>3. pads[Pad(m)].bonded /\ pads[Pad(m)].trusted
    BY <1>1, <1>8, <2>2 DEF TrustOK, PairedIsTrusted
  <2>4. Op(m) = "pair"
    <3>1. Op(m) \in Kind /\ calls[m].answer \in IF calls[m].at = "done" THEN Reply(Op(m)) ELSE {"none"}
      BY <1>0, <1>1, CallIs, KindIs
    <3> QED BY <1>8, <2>2, <3>1 DEF Kind, Reply
  <2>5. Pad(m) \in Pads
    BY <1>1, <1>8, <2>2, <2>4 DEF RadioOK
  <2>6. m < n
    BY <1>1, <1>5, <1>8, <2>4
  <2>7. n > m
    BY <1>0, <1>1, <1>2, <2>6, CallIs DEF Number
  <2>8. Pad(m) # d
    BY <1>1, <1>4, <1>8, <2>2, <2>7
  <2> QED BY <1>4, <2>2, <2>3, <2>5, <2>8
<1> QED BY <1>1, <1>3, <1>6, <1>7, <1>8 DEF TrustOK, PairedIsTrusted

LEMMA PadsKept ==
  ASSUME TypeOK, RadioOK, TrustOK, NEW n \in Number, OfPads(n)
  PROVE  RadioOK' /\ TrustOK'
<1>1. CASE ForgetPad(n)
  BY <1>1, PadForgotten
<1>2. ASSUME ~ ForgetPad(n) PROVE RadioOK' /\ TrustOK'
  <2>0. CallsOK /\ Moves(n) /\ n \in DOMAIN calls /\ DOMAIN calls' = DOMAIN calls
    BY PadMoves DEF TypeOK, Moves, Running
  <2>1. calls[n].at \in Step("pair") /\ Op(n) = "pair"
    <3>1. calls[n].at \in Step("pair")
      BY <1>2 DEF OfPads, Lock, NoAdapter, StartDiscovery, Found, NotFound, RegisterAgent, Connect,
         ConnectFails, Settled, AskToPair, BondSeen, BondFails, SetTrusted, Withdraw, Paired,
         Blue, At, Step
    <3> QED BY <2>0, <3>1, StepTells
  <2>2. calls[n] \in Call /\ calls[n].answer = "none" /\ n # 0
    BY <2>0, CallIs DEF Moves, Running, Ended, Number
  <2>3. calls[n].at # "lock" => /\ pairing = n
                                /\ radio.scanning => calls[n].at = "find"
                                /\ radio.agent # 0 => calls[n].at \in Answering /\ radio.agent = Pad(n)
    BY <2>0, <2>1, <2>2 DEF RadioOK, Locked, At
  <2>4. calls[n].at \in OfPad => Pad(n) \in Pads
    BY <2>0, <2>1 DEF RadioOK
  <2>5. pads \in [Pads -> PadState] /\ radio \in [scanning : BOOLEAN, agent : Pads \cup {0}]
    BY DEF TypeOK, PadState
  <2>6. "onePad" \notin Habits /\ calls[n].at \in {"withdraw", "reread"}
          => pads[Pad(n)].bonded /\ pads[Pad(n)].trusted
    BY <2>0, <2>1 DEF TrustOK, At
  <2>g. ASSUME NEW step, Goes(n, step)
        PROVE  calls'[n].at = step /\ calls'[n].answer = "none" /\ Pad(n)' = Pad(n)
    BY <2>0, <2>2, <2>g, CallGoes DEF Pad
  <2>a. ASSUME NEW what, Answer(n, what)
        PROVE  calls'[n].at = "done" /\ calls'[n].answer = what /\ Pad(n)' = Pad(n)
    BY <2>0, <2>2, <2>a, CallAnswered DEF Pad
  <2>k. ASSUME UNCHANGED pads PROVE Keeps
    BY <2>k DEF Keeps
  <2>s. ASSUME NEW d, Starts(d)
        PROVE  Keeps
    BY <2>5, <2>s DEF Starts, Keeps, PadState
  <2>r. ASSUME pairing \in {0, n},
               pairing' = IF calls'[n].at \in Locked THEN n ELSE 0,
               calls'[n].at \in OfPad \/ calls'[n].answer = "paired" => Pad(n)' \in Pads,
               radio'.scanning => calls'[n].at = "find",
               radio'.agent # 0 => calls'[n].at \in Answering /\ radio'.agent = Pad(n)',
               Keeps,
               "onePad" \notin Habits =>
                  (calls'[n].at \in {"withdraw", "reread"} \/ calls'[n].answer = "paired"
                    => pads'[Pad(n)'].bonded /\ pads'[Pad(n)'].trusted)
        PROVE  RadioOK' /\ TrustOK'
    BY <2>0, <2>1, <2>r, RadioStep, TrustStep
  <2>9. CASE Lock(n)
    <3>1. /\ pairing = 0 /\ pairing' = n /\ radio' = radio /\ UNCHANGED pads
          /\ calls'[n].at = "adapter" /\ calls'[n].answer = "none"
      BY <2>g, <2>9 DEF Lock
    <3>2. ~ radio.scanning /\ radio.agent = 0
      BY <3>1 DEF RadioOK
    <3> QED BY <2>k, <2>r, <3>1, <3>2 DEF Locked, OfPad, Answering, Step
  <2>10. CASE NoAdapter(n)
    <3>1. /\ calls[n].at = "adapter" /\ pairing' = 0 /\ radio' = radio /\ UNCHANGED pads
          /\ calls'[n].at = "done" /\ calls'[n].answer = "failed"
      BY <2>a, <2>10 DEF NoAdapter, FailPair, Blue, At
    <3> QED BY <2>3, <2>k, <2>r, <3>1 DEF Locked, OfPad, Answering, Step
  <2>11. CASE StartDiscovery(n)
    <3>1. /\ calls[n].at = "adapter" /\ pairing' = pairing /\ UNCHANGED pads
          /\ radio'.agent = radio.agent
          /\ calls'[n].at = "find" /\ calls'[n].answer = "none"
      BY <2>5, <2>g, <2>11 DEF StartDiscovery, Blue, At
    <3> QED BY <2>3, <2>k, <2>r, <3>1 DEF Locked, OfPad, Answering, Step
  <2>12. CASE Found(n)
    <3>1. PICK d \in Pads :
            calls' = [calls EXCEPT ![n].pad = d,
                                   ![n].at = IF pads[d].bonded THEN "agentBonded" ELSE "agent"]
      BY <2>12, CandidatesArePads DEF Found
    <3>2. /\ calls'[n].at \in {"agent", "agentBonded"} /\ calls'[n].answer = "none" /\ Pad(n)' = d
      BY <2>0, <2>2, <3>1 DEF Call, Pad
    <3>3. /\ calls[n].at = "find" /\ pairing' = pairing /\ UNCHANGED pads
          /\ ~ radio'.scanning /\ radio'.agent = radio.agent
      BY <2>5, <2>12 DEF Found, Blue, At
    <3> QED BY <2>3, <2>k, <2>r, <3>2, <3>3 DEF Locked, OfPad, Answering, Step
  <2>13. CASE NotFound(n)
    <3>1. /\ calls[n].at = "find" /\ pairing' = 0 /\ UNCHANGED pads
          /\ ~ radio'.scanning /\ radio'.agent = radio.agent
          /\ calls'[n].at = "done" /\ calls'[n].answer = "failed"
      BY <2>5, <2>a, <2>13 DEF NotFound, FailPair, Blue, At
    <3> QED BY <2>3, <2>k, <2>r, <3>1 DEF Locked, OfPad, Answering, Step
  <2>14. CASE RegisterAgent(n)
    <3>1. /\ calls[n].at \in {"agent", "agentBonded"} /\ pairing' = pairing /\ UNCHANGED pads
          /\ radio'.scanning = radio.scanning /\ radio'.agent = Pad(n)
          /\ calls'[n].at \in {"connect", "trust"} /\ calls'[n].answer = "none" /\ Pad(n)' = Pad(n)
      BY <2>5, <2>g, <2>14 DEF RegisterAgent, Blue, At
    <3> QED BY <2>3, <2>4, <2>k, <2>r, <3>1 DEF Locked, OfPad, Answering, Step
  <2>15. CASE Connect(n) \/ ConnectFails(n) \/ AskToPair(n)
    <3>1. /\ calls[n].at \in {"connect", "settle"} /\ pairing' = pairing /\ radio' = radio
          /\ calls'[n].at \in {"settle", "bond"} /\ calls'[n].answer = "none" /\ Pad(n)' = Pad(n)
      BY <2>g, <2>15 DEF Connect, ConnectFails, AskToPair, Blue, At
    <3>2. Keeps
      BY <2>k, <2>s, <2>15 DEF Connect, ConnectFails, AskToPair
    <3> QED BY <2>3, <2>4, <2>r, <3>1, <3>2 DEF Locked, OfPad, Answering, Step
  <2>16. CASE Settled(n) \/ BondSeen(n) \/ BondFails(n)
    <3>1. /\ calls[n].at \in {"settle", "bond"} /\ pairing' = pairing /\ radio' = radio /\ UNCHANGED pads
          /\ calls'[n].at \in {"trust", "withdrawFailed"} /\ calls'[n].answer = "none" /\ Pad(n)' = Pad(n)
      BY <2>g, <2>16 DEF Settled, BondSeen, BondFails, Blue, At
    <3> QED BY <2>3, <2>4, <2>k, <2>r, <3>1 DEF Locked, OfPad, Answering, Step
  <2>17. CASE SetTrusted(n)
    <3>1. calls[n].at = "trust" /\ pairing' = pairing /\ radio' = radio /\ Pad(n) \in Pads
      BY <2>4, <2>17 DEF SetTrusted, Blue, At, OfPad, Answering
    <3>2. CASE pads[Pad(n)].bonded
      <4>1. /\ pads' = [pads EXCEPT ![Pad(n)].trusted = TRUE]
            /\ calls'[n].at = "withdraw" /\ calls'[n].answer = "none" /\ Pad(n)' = Pad(n)
        BY <2>g, <2>17, <3>2 DEF SetTrusted
      <4>2. Keeps /\ pads'[Pad(n)].bonded /\ pads'[Pad(n)].trusted
        BY <2>5, <3>1, <3>2, <4>1 DEF Keeps, PadState
      <4> QED BY <2>3, <2>r, <3>1, <4>1, <4>2 DEF Locked, OfPad, Answering, Step
    <3>3. CASE ~ pads[Pad(n)].bonded
      <4>1. /\ UNCHANGED pads
            /\ calls'[n].at = "withdrawFailed" /\ calls'[n].answer = "none" /\ Pad(n)' = Pad(n)
        BY <2>g, <2>17, <3>3 DEF SetTrusted
      <4> QED BY <2>3, <2>k, <2>r, <3>1, <4>1 DEF Locked, OfPad, Answering, Step
    <3> QED BY <3>2, <3>3
  <2>18. CASE Withdraw(n)
    <3>1. /\ calls[n].at \in {"withdraw", "withdrawFailed"} /\ UNCHANGED pads
          /\ radio'.scanning = radio.scanning /\ radio'.agent = 0
      BY <2>5, <2>18 DEF Withdraw, Blue, At
    <3>2. CASE At(n, "withdraw")
      <4>1. /\ pairing' = pairing /\ calls[n].at = "withdraw"
            /\ calls'[n].at = "reread" /\ calls'[n].answer = "none" /\ Pad(n)' = Pad(n)
        BY <2>g, <2>18, <3>2 DEF Withdraw, At
      <4>2. "onePad" \notin Habits => pads'[Pad(n)'].bonded /\ pads'[Pad(n)'].trusted
        BY <2>6, <3>1, <4>1
      <4> QED BY <2>3, <2>4, <2>k, <2>r, <3>1, <4>1, <4>2 DEF Locked, OfPad, Answering, Step
    <3>3. CASE ~ At(n, "withdraw")
      <4>1. pairing' = 0 /\ calls'[n].at = "done" /\ calls'[n].answer = "failed"
        BY <2>a, <2>18, <3>3 DEF Withdraw, FailPair
      <4> QED BY <2>3, <2>k, <2>r, <3>1, <4>1 DEF Locked, OfPad, Answering, Step
    <3> QED BY <3>2, <3>3
  <2>19. CASE Paired(n)
    <3>1. /\ calls[n].at = "reread" /\ pairing' = 0 /\ radio' = radio /\ UNCHANGED pads
          /\ calls'[n].at = "done" /\ calls'[n].answer = "paired" /\ Pad(n)' = Pad(n)
      BY <2>a, <2>19 DEF Paired, Blue, At
    <3>2. "onePad" \notin Habits => pads'[Pad(n)'].bonded /\ pads'[Pad(n)'].trusted
      BY <2>6, <3>1
    <3> QED BY <2>3, <2>4, <2>k, <2>r, <3>1, <3>2 DEF Locked, OfPad, Answering, Step
  <2> QED BY <1>2, <2>9, <2>10, <2>11, <2>12, <2>13, <2>14, <2>15, <2>16, <2>17, <2>18, <2>19 DEF OfPads
<1> QED BY <1>1, <1>2

-----------------------------------------------------------------------------
(* The invariant holds.                                                    *)

LEMMA Start == Init => IInv
<1> SUFFICES ASSUME Init PROVE IInv
  OBVIOUS
<1>1. calls = <<>> /\ DOMAIN calls = {}
  BY DEF Init
<1>2. TypeOK
  BY StartTypes
<1>3. ProfilesOK
  <2>1. \A p \in profiles : p.id \in Old /\ p.ssid = OldSsid[p.id]
    BY DEF Init
  <2> QED BY <1>1, <2>1 DEF ProfilesOK, Known, IsFor
<1>4. NetOK
  BY <1>1 DEF NetOK, OneAtATime, Running
<1>5. StoreOK
  BY <1>1 DEF StoreOK, OneWriter, Holds, Running, Init, Fresh, Field
<1>6. RadioOK
  BY <1>1 DEF RadioOK, Init, Quiet
<1>7. TrustOK
  BY <1>1 DEF TrustOK, PairOrDrop, PairedIsTrusted, Running
<1> QED BY <1>2, <1>3, <1>4, <1>5, <1>6, <1>7 DEF IInv

LEMMA Kept ==
  ASSUME IInv, Next
  PROVE  IInv'
<1>0. TypeOK /\ CallsOK /\ TypeOK' /\ CallsOK'
  BY StepTypes DEF IInv, TypeOK
<1>1. ASSUME NEW ask \in Ask, Request(ask) PROVE IInv'
  <2>1. PICK k : Comes(ask, k)
    BY <1>0, <1>1, RequestComes
  <2> QED BY <1>0, <2>1, ComesNet, ComesStore, ComesPads DEF IInv
<1>2. ASSUME NEW n \in Number, OfNet(n) PROVE IInv'
  <2>1. Moves(n) /\ Op(n) \in {"connect", "forget"}
    BY <1>0, <1>2, NetMoves DEF TypeOK
  <2>2. UNCHANGED <<settings, bluetooth>>
    BY <1>2, NetLeaves
  <2>3. Untouched({"set"}) /\ Untouched({"pair"}) /\ Untouched({"pair", "drop"})
    BY <2>1, MovesAlone
  <2>4. ProfilesOK' /\ NetOK'
    BY <1>2, NetKept DEF IInv
  <2>5. StoreOK'
    BY <1>0, <2>2, <2>3, StoreFrame DEF IInv
  <2>6. RadioOK' /\ TrustOK'
    BY <1>0, <2>2, <2>3, RadioFrame, TrustFrame DEF IInv, bluetooth, Keeps
  <2> QED BY <1>0, <2>4, <2>5, <2>6 DEF IInv
<1>3. ASSUME NEW n \in Number, OfStore(n) PROVE IInv'
  <2>1. Moves(n) /\ Op(n) = "set"
    BY <1>0, <1>3, StoreMoves DEF TypeOK
  <2>2. UNCHANGED <<network, bluetooth>>
    BY <1>3 DEF OfStore, ReadFile, Rename, SyncDirectory, Store
  <2>3. Untouched({"connect", "forget"}) /\ Untouched({"pair"}) /\ Untouched({"pair", "drop"})
    BY <2>1, MovesAlone
  <2>4. ProfilesOK' /\ NetOK'
    BY <2>2, <2>3, NetFrame DEF IInv, network
  <2>5. StoreOK'
    BY <1>3, StoreKept DEF IInv
  <2>6. RadioOK' /\ TrustOK'
    BY <1>0, <2>2, <2>3, RadioFrame, TrustFrame DEF IInv, bluetooth, Keeps
  <2> QED BY <1>0, <2>4, <2>5, <2>6 DEF IInv
<1>4. ASSUME NEW n \in Number, OfPads(n) PROVE IInv'
  <2>1. Moves(n) /\ Op(n) \in {"pair", "drop"}
    BY <1>0, <1>4, PadMoves
  <2>2. UNCHANGED <<network, settings>>
    BY <1>4 DEF OfPads, Lock, NoAdapter, StartDiscovery, Found, NotFound, RegisterAgent, Connect,
         ConnectFails, Settled, AskToPair, BondSeen, BondFails, SetTrusted, Withdraw, Paired,
         ForgetPad, Blue
  <2>3. Untouched({"connect", "forget"}) /\ Untouched({"set"})
    BY <2>1, MovesAlone
  <2>4. ProfilesOK' /\ NetOK'
    BY <2>2, <2>3, NetFrame DEF IInv, network
  <2>5. StoreOK'
    BY <1>0, <2>2, <2>3, StoreFrame DEF IInv
  <2>6. RadioOK' /\ TrustOK'
    BY <1>4, PadsKept DEF IInv
  <2> QED BY <1>0, <2>4, <2>5, <2>6 DEF IInv
<1>5. ASSUME OfWorld PROVE IInv'
  <2>1. UNCHANGED <<calls, profiles, settings, pairing, radio>>
    BY <1>0, <1>5, WorldTypes
  <2>2. Keeps
    <3>1. ASSUME Activated \/ GivesUp \/ LinkLost \/ Autoconnect PROVE Keeps
      BY <3>1 DEF Activated, GivesUp, LinkLost, Autoconnect, World, bluetooth, Keeps
    <3>2. ASSUME NEW d \in Pads, EnterPairing(d) \/ LeavePairing(d) \/ BondLands(d) PROVE Keeps
      <4>1. pads \in [Pads -> PadState]
        BY <1>0 DEF TypeOK, PadState
      <4> QED BY <3>2, <4>1 DEF EnterPairing, LeavePairing, BondLands, Keeps, PadState
    <3> QED BY <1>5, <3>1, <3>2 DEF OfWorld
  <2>3. /\ Untouched({"connect", "forget"}) /\ Untouched({"set"})
        /\ Untouched({"pair"}) /\ Untouched({"pair", "drop"})
    BY <2>1, WorldMovesNone
  <2>4. ProfilesOK' /\ NetOK'
    BY <2>1, <2>3, NetFrame DEF IInv
  <2>5. StoreOK'
    BY <1>0, <2>1, <2>3, StoreFrame DEF IInv
  <2>6. RadioOK' /\ TrustOK'
    BY <1>0, <2>1, <2>2, <2>3, RadioFrame, TrustFrame DEF IInv
  <2> QED BY <1>0, <2>4, <2>5, <2>6 DEF IInv
<1>6. ASSUME Restart \/ PowerCut PROVE IInv'
  <2>1. Fails /\ UNCHANGED profiles
    BY <1>0, <1>6, FailTypes
  <2>2. UNCHANGED settings \/ (file' \in {file, disk} /\ disk' = file')
    BY <1>6 DEF Restart, PowerCut
  <2>3. Keeps
    <3>1. pads \in [Pads -> PadState]
      BY <1>0 DEF TypeOK, PadState
    <3> QED BY <1>6, <3>1 DEF Restart, PowerCut, Keeps, PadState
  <2>4. ProfilesOK' /\ NetOK'
    BY <1>0, <2>1, LostNet DEF IInv
  <2>5. StoreOK'
    BY <1>0, <2>1, <2>2, LostStore DEF IInv
  <2>6. RadioOK' /\ TrustOK'
    BY <1>0, <2>1, <2>3, LostPads DEF IInv
  <2> QED BY <1>0, <2>4, <2>5, <2>6 DEF IInv
<1> QED BY <1>1, <1>2, <1>3, <1>4, <1>5, <1>6, StepIs

LEMMA Stutters ==
  ASSUME IInv, UNCHANGED vars
  PROVE  IInv'
<1>1. UNCHANGED <<calls, profiles, device, file, disk, pairing, radio, pads, faults>>
  BY DEF vars, network, settings, bluetooth
<1>2. TypeOK'
  BY <1>1 DEF IInv, TypeOK, CallsOK, At
<1>3. /\ Untouched({"connect", "forget"}) /\ Untouched({"set"})
      /\ Untouched({"pair"}) /\ Untouched({"pair", "drop"})
  BY <1>1, WorldMovesNone
<1>4. ProfilesOK' /\ NetOK'
  BY <1>1, <1>3, NetFrame DEF IInv
<1>5. StoreOK'
  BY <1>1, <1>2, <1>3, StoreFrame DEF IInv, settings
<1>6. RadioOK' /\ TrustOK'
  BY <1>1, <1>2, <1>3, RadioFrame, TrustFrame DEF IInv, Keeps
<1> QED BY <1>2, <1>4, <1>5, <1>6 DEF IInv

(* What the theorems below rest on: the invariant, in every reachable state. *)
THEOREM Invariance == Spec => []IInv
<1>1. IInv /\ [Next]_vars => IInv'
  BY Kept, Stutters
<1> QED BY <1>1, Start, PTL DEF Spec

(* Every call, saved network, stored setting and pad is of its type: a call  *)
(* is only ever at a step of its own kind (main.rs, `dispatch`).             *)
THEOREM TypeCorrect == Spec => []TypeOK
<1>1. IInv => TypeOK
  BY DEF IInv
<1> QED BY <1>1, Invariance, PTL

(* What NetworkManager has saved is what the last call about a network was   *)
(* answered, beside what that call itself could not delete, whatever failed  *)
(* in it or in an earlier one; while no client has a call about a network    *)
(* run beside a join of it (nm.rs, `connect`).                               *)
THEOREM LastAnswerHolds ==
  ASSUME "oneNetwork" \notin Habits
  PROVE  Spec => []ProfileIsTheAnswer
<1>1. ASSUME IInv PROVE ProfileIsTheAnswer
  <2>0. CallsOK
    BY <1>1 DEF IInv, TypeOK
  <2> SUFFICES ASSUME NEW s \in Ssids,
                      NEW about, about = {n \in DOMAIN calls : IsAbout(n, s) /\ calls[n].answer # "refused"},
                      about # {}, At(Max(about), "done")
               PROVE  Left(Max(about), s)
    BY DEF ProfileIsTheAnswer, Left, Own
  <2>1. about \subseteq 1..MaxCalls
    BY <2>0, CallIs DEF Number
  <2>2. Max(about) \in about /\ \A m \in about : m <= Max(about)
    BY <2>1, MaxIsIn
  <2>3. ASSUME NEW m \in DOMAIN calls, IsAbout(m, s), m > Max(about)
        PROVE  calls[m].answer = "refused"
    <3>1. m \in Nat /\ Max(about) \in Nat
      BY <2>0, <2>2, CallIs DEF Number
    <3> QED BY <2>2, <2>3, <3>1
  <2>4. Stands(Max(about), s) /\ Max(about) \in DOMAIN calls
    BY <2>2, <2>3 DEF Stands
  <2> QED BY <1>1, <2>4 DEF IInv, NetOK
<1> QED BY <1>1, Invariance, PTL

(* A name or PIN that was reported as stored is neither undone by an older   *)
(* one nor lost with the power, while a name and a PIN are not stored at the *)
(* same time (store.rs, `write`).                                            *)
THEOREM StoredForGood ==
  ASSUME "oneFile" \notin Habits
  PROVE  Spec => []SettingIsKept
<1>1. ASSUME IInv PROVE SettingIsKept
  <2>0. CallsOK
    BY <1>1 DEF IInv, TypeOK
  <2> SUFFICES ASSUME NEW f \in Field,
                      NEW stored, stored = {n \in DOMAIN calls : Sets(n, f) /\ calls[n].answer = "stored"},
                      stored # {}
               PROVE  /\ file[f] \in {n \in DOMAIN calls : Sets(n, f) /\ n >= Max(stored)}
                      /\ disk[f] \in {n \in DOMAIN calls : Sets(n, f) /\ n >= Max(stored)}
    BY DEF SettingIsKept
  <2>1. stored \subseteq 1..MaxCalls
    BY <2>0, CallIs DEF Number
  <2>2. Max(stored) \in stored /\ Max(stored) \in Nat \ {0}
    BY <2>1, MaxIsIn
  <2>3. ASSUME NEW store, Holds(store)
        PROVE  store[f] \in {n \in DOMAIN calls : Sets(n, f) /\ n >= Max(stored)}
    <3>1. Max(stored) <= store[f] /\ (store[f] = 0 \/ (store[f] \in DOMAIN calls /\ Sets(store[f], f)))
      BY <2>2, <2>3 DEF Holds
    <3>2. store[f] \in DOMAIN calls /\ Sets(store[f], f) /\ store[f] \in Nat
      BY <2>0, <2>2, <3>1, CallIs DEF Number
    <3> QED BY <2>2, <3>1, <3>2
  <2> QED BY <1>1, <2>3 DEF IInv, StoreOK
<1> QED BY <1>1, Invariance, PTL

(* Every exit from a pairing, also one that fails or is cut short, leaves    *)
(* discovery off and the default agent withdrawn (bluez.rs, `pair`).         *)
THEOREM RadioIsGivenBack == Spec => []RadioIsOfThePairing
<1>1. ASSUME IInv PROVE RadioIsOfThePairing
  <2>1. radio \in [scanning : BOOLEAN, agent : Pads \cup {0}] /\ RadioOK
    BY <1>1 DEF IInv, TypeOK
  <2>2. radio # Quiet => radio.scanning \/ radio.agent # 0
    BY <2>1 DEF Quiet
  <2>3. radio.scanning => /\ pairing # 0 /\ calls[pairing].at \notin {"lock", "adapter"} \cup Ended
                          /\ radio.agent \in {0, Pad(pairing)}
    BY <2>1 DEF RadioOK, At, Ended
  <2>4. radio.agent # 0 => /\ pairing # 0 /\ calls[pairing].at \notin {"lock", "adapter"} \cup Ended
                           /\ radio.agent \in {0, Pad(pairing)}
    BY <2>1 DEF RadioOK, Answering, Ended
  <2> QED BY <2>2, <2>3, <2>4 DEF RadioIsOfThePairing
<1> QED BY <1>1, Invariance, PTL

(* A pad that was reported as paired is bonded and trusted, until it is      *)
(* forgotten, while no pad is forgotten beside a pairing (bluez.rs, `bond`). *)
THEOREM PairedForGood ==
  ASSUME "onePad" \notin Habits
  PROVE  Spec => []PairingIsSound
<1>1. IInv => PairedIsTrusted
  BY DEF IInv, TrustOK
<1>2. Spec => []PairedIsTrusted
  BY <1>1, Invariance, PTL
<1> QED BY <1>2, RadioIsGivenBack, PTL DEF PairingIsSound

=============================================================================

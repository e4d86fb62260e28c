------------------------------ MODULE Configd ------------------------------
(***************************************************************************)
(* configd: joining a network, the name and PIN file, and pairing a        *)
(* gamepad (configd/src/main.rs, nm.rs, store.rs, bluez.rs).               *)
(*                                                                         *)
(* Every connection is served by a task of its own, so calls run beside    *)
(* one another; a call is the sequence of the bus calls and file           *)
(* operations between which another may come.  What NetworkManager and     *)
(* bluetoothd do by themselves (associate, give up, reconnect, finish a    *)
(* bond late) are the world's steps.                                       *)
(*                                                                         *)
(* A call is known by its number, and so are the profile it adds and the   *)
(* value it stores.  A pad's address is a number, as configd orders them.  *)
(***************************************************************************)
EXTENDS Naturals, Sequences, FiniteSets, FiniteSetsExt

CONSTANTS
  Ssids,
  Old,          \* profiles saved before configd: their ids (numbers above MaxCalls)
  OldSsid,      \* what they are for
  Pads,         \* gamepad addresses
  MaxCalls,     \* bound: calls made
  MaxFaults,    \* bound: restarts, power cuts, bus calls about networks that fail
  Habits        \* what else clients may do, see below

(***************************************************************************)
(* "oneNetwork": a network joined while another call about it runs.       *)
(* "oneFile": a name and a PIN stored at the same time.                   *)
(* "onePad": a pad forgotten while one is paired.                         *)
(* "mixed": calls to different parts of configd, which share no state.     *)
(***************************************************************************)
ASSUME ConfigdAssumption ==
  /\ Pads \subseteq Nat \ {0} /\ MaxCalls \in Nat /\ MaxFaults \in Nat
  /\ Old \subseteq Nat \ (0..MaxCalls) /\ OldSsid \in [Old -> Ssids]
  /\ Habits \subseteq {"oneNetwork", "oneFile", "onePad", "mixed"}

Field == {"name", "pin"}
Number == 1..MaxCalls

Ask == [op : {"connect"}, ssid : Ssids, key : {"right", "wrong"}]
         \cup [op : {"forget"}, ssid : Ssids]
         \cup [op : {"set"}, field : Field]
         \cup [op : {"pair"}]
         \cup [op : {"drop"}, pad : Pads]       \* pad.forget

VARIABLES
  calls,      \* in the order they came: the request, where its task is, what it knows,
              \* and `left`: the profiles it could not delete or vouch for
  profiles,   \* the saved networks: [id, ssid, key]
  device,     \* the profile the radio uses; `own`: by the attempt of that call
  file,       \* the config file as processes read it
  disk,       \* as it would be after a power cut
  pairing,    \* the mutex: the call that holds it, or 0
  radio,      \* discovery is running; the pad the default agent answers for, or 0
  pads,       \* what bluetoothd knows of each
  faults

network == <<profiles, device>>
settings == <<file, disk>>
bluetooth == <<pairing, radio, pads>>
vars == <<calls, network, settings, bluetooth, faults>>

Down == [profile |-> 0, own |-> FALSE, state |-> "down"]
Quiet == [scanning |-> FALSE, agent |-> 0]
Stranger == [bonded |-> FALSE, trusted |-> FALSE, bonding |-> FALSE, ready |-> FALSE]
Fresh == [name |-> 0, pin |-> 0]

Init ==
  /\ calls = <<>>
  /\ profiles = {[id |-> p, ssid |-> OldSsid[p], key |-> "right"] : p \in Old}
  /\ device = Down
  /\ file = Fresh /\ disk = Fresh
  /\ pairing = 0 /\ radio = Quiet /\ pads = [d \in Pads |-> Stranger]
  /\ faults = 0

-----------------------------------------------------------------------------
(* Calls. *)

Ended == {"done", "lost"}
At(n, step) == n \in DOMAIN calls /\ calls[n].at = step
Running == {n \in DOMAIN calls : calls[n].at \notin Ended}
Goes(n, step) == calls' = [calls EXCEPT ![n].at = step]
Answer(n, what) ==
  calls' = [calls EXCEPT ![n].at = "done", ![n].answer = what, ![n].found = {}]

AnswerLeaving(n, what) ==       \* its own profile
  calls' = [calls EXCEPT ![n].at = "done", ![n].answer = what, ![n].found = {},
                         ![n].left = @ \cup {n}]

IsAbout(n, s) == calls[n].ask.op \in {"connect", "forget"} /\ calls[n].ask.ssid = s
Sets(n, f) == calls[n].ask.op = "set" /\ calls[n].ask.field = f

FirstStep(ask) ==
  CASE ask.op = "connect" -> "scan" [] ask.op = "forget" -> "list"
    [] ask.op = "set" -> "read" [] ask.op = "pair" -> "lock" [] ask.op = "drop" -> "drop"

Part(op) == CASE op \in {"connect", "forget"} -> "network" [] op = "set" -> "store"
              [] op \in {"pair", "drop"} -> "pads"

Apart(ask) ==
  /\ \A n \in DOMAIN calls : Part(calls[n].ask.op) = Part(ask.op) \/ "mixed" \in Habits
  /\ \A n \in Running : LET other == calls[n].ask IN
    /\ Part(ask.op) = "network" /\ IsAbout(n, ask.ssid) /\ "connect" \in {ask.op, other.op}
         => "oneNetwork" \in Habits
    /\ ask.op = "set" /\ other.op = "set" => "oneFile" \in Habits
    /\ {ask.op, other.op} = {"pair", "drop"} => "onePad" \in Habits

Request(ask) ==
  /\ Len(calls) < MaxCalls
  /\ Apart(ask)
  /\ calls' = Append(calls, [ask |-> ask, at |-> FirstStep(ask), found |-> {}, left |-> {},
                             config |-> Fresh, pad |-> 0, answer |-> "none"])
  /\ UNCHANGED <<network, settings, bluetooth, faults>>

-----------------------------------------------------------------------------
(* net.connect and net.forget. *)

NetAt(n, step) == At(n, step) /\ UNCHANGED <<settings, bluetooth>>
Net(n, step) == NetAt(n, step) /\ UNCHANGED faults

(* A call of the bus fails, or the object it is about. *)
NetFails(n, step) == NetAt(n, step) /\ faults < MaxFaults /\ faults' = faults + 1

Refuse(n) ==        \* not in range, enterprise, without its key, or no scan
  Net(n, "scan") /\ Answer(n, "refused") /\ UNCHANGED network

Scan(n) == Net(n, "scan") /\ Goes(n, "list") /\ UNCHANGED network

SavedConnections(s) == {p.id : p \in {q \in profiles : q.ssid = s}}

ListFirst(n) ==                 \* defect: one of them, as if there were no others
  /\ Net(n, "list")
  /\ LET saved == SavedConnections(calls[n].ask.ssid) IN
       calls' = [calls EXCEPT ![n].at = "delete",
                              ![n].found = IF saved = {} THEN {} ELSE {Min(saved)}]
  /\ UNCHANGED network

List(n) ==
  /\ Net(n, "list")
  /\ calls' = [calls EXCEPT ![n].at = "delete",
                            ![n].found = SavedConnections(calls[n].ask.ssid)]
  /\ UNCHANGED network

Without(id) ==
  /\ profiles' = {p \in profiles : p.id # id}
  /\ device' = IF device.profile = id THEN Down ELSE device

Saved(id) == \E p \in profiles : p.id = id

DeleteSaved(n) ==
  /\ Net(n, "delete")
  /\ \E id \in calls[n].found :
       /\ Saved(id)
       /\ calls' = [calls EXCEPT ![n].found = @ \ {id}]
       /\ Without(id)

(* The first failure ends the deletions: forget fails, connect goes on. *)
LeavesAll(n, ids) ==
  LET ends == calls[n].ask.op = "forget" IN
    calls' = [calls EXCEPT ![n].at = IF ends THEN "done" ELSE "add",
                           ![n].answer = IF ends THEN "error" ELSE "none",
                           ![n].found = {}, ![n].left = @ \cup ids]

ListFails(n) ==
  /\ NetFails(n, "list")
  /\ LeavesAll(n, SavedConnections(calls[n].ask.ssid))
  /\ UNCHANGED network

(* A profile whose settings cannot be read is passed over. *)
ListSkips(n) ==
  /\ NetFails(n, "list")
  /\ LET saved == SavedConnections(calls[n].ask.ssid) IN
       \E id \in saved :
         calls' = [calls EXCEPT ![n].at = "delete", ![n].found = saved \ {id},
                                ![n].left = {id}]
  /\ UNCHANGED network

DeleteFails(n) ==
  /\ \/ Net(n, "delete") /\ (\E id \in calls[n].found : ~Saved(id))  \* deleted by another
     \/ NetFails(n, "delete") /\ calls[n].found # {}
  /\ LeavesAll(n, calls[n].found)
  /\ UNCHANGED network

Forgotten(n) ==
  /\ Net(n, "delete") /\ calls[n].found = {} /\ calls[n].ask.op = "forget"
  /\ Answer(n, "forgotten")
  /\ UNCHANGED network

Replaced(n) ==
  /\ Net(n, "delete") /\ calls[n].found = {} /\ calls[n].ask.op = "connect"
  /\ Goes(n, "add")
  /\ UNCHANGED network

AddFails(n) ==      \* or what comes before it: no profile is added either way
  Net(n, "add") /\ Answer(n, "failed") /\ UNCHANGED network

AddAndActivate(n) ==
  /\ Net(n, "add")
  /\ profiles' = profiles \cup
       {[id |-> n, ssid |-> calls[n].ask.ssid, key |-> calls[n].ask.key]}
  /\ device' = [profile |-> n, own |-> TRUE, state |-> "activating"]
  /\ Goes(n, "poll")

(* The state of the attempt, not the device's: it is gone once another began. *)
Attempt(n) == IF device.profile = n /\ device.own THEN device.state ELSE "down"

Connected(n) ==
  /\ Net(n, "poll") /\ Attempt(n) = "activated"
  /\ Answer(n, "connected")
  /\ UNCHANGED network

(* No proxy for the attempt, or no status once it is up: the profile stays. *)
StatusFails(n) ==
  /\ NetFails(n, "poll")
  /\ AnswerLeaving(n, "error")
  /\ UNCHANGED network

NotConnected(n) ==  \* torn down, or its state cannot be read
  /\ \/ Net(n, "poll") /\ Attempt(n) = "down"
     \/ NetFails(n, "poll")
  /\ Goes(n, "cleanUp")
  /\ UNCHANGED network

NoConnectTimeout(n) == FALSE /\ At(n, "poll") /\ UNCHANGED vars   \* defect: no deadline

ConnectTimeout(n) ==
  /\ Net(n, "poll") /\ Attempt(n) = "activating"
  /\ Goes(n, "cleanUp")
  /\ UNCHANGED network

CleanUp(n) ==
  /\ Net(n, "cleanUp")
  /\ Without(n)
  /\ Answer(n, "failed")

(* The result of the delete is not looked at. *)
CleanUpFails(n) ==
  /\ NetFails(n, "cleanUp")
  /\ AnswerLeaving(n, "failed")
  /\ UNCHANGED network

-----------------------------------------------------------------------------
(* NetworkManager, external. *)

KeyIsRight == \E p \in profiles : p.id = device.profile /\ p.key = "right"

World == UNCHANGED <<calls, settings, bluetooth, faults, profiles>>

Activated ==
  /\ World /\ device.state = "activating" /\ KeyIsRight
  /\ device' = [device EXCEPT !.state = "activated"]

GivesUp == World /\ device.state = "activating" /\ device' = Down

LinkLost == World /\ device.state = "activated" /\ device' = Down

Autoconnect ==
  /\ World /\ device = Down
  /\ \E p \in profiles : device' = [profile |-> p.id, own |-> FALSE, state |-> "activating"]

-----------------------------------------------------------------------------
(* system.setName and system.setPairingPin: the lock is taken in `write`,  *)
(* after the file was read.                                                *)

Store(n, step) == At(n, step) /\ UNCHANGED <<network, bluetooth, faults>>

ReadFile(n) ==
  /\ Store(n, "read")
  /\ calls' = [calls EXCEPT ![n].at = "write", ![n].config = file]
  /\ UNCHANGED settings

Rename(n) ==
  /\ Store(n, "write")
  /\ ~ \E m \in DOMAIN calls : At(m, "sync")        \* flock
  /\ file' = [calls[n].config EXCEPT ![calls[n].ask.field] = n]
  /\ Goes(n, "sync")
  /\ UNCHANGED disk

SyncNothing(n) == Store(n, "sync") /\ Answer(n, "stored") /\ UNCHANGED settings   \* defect

SyncDirectory(n) ==
  /\ Store(n, "sync")
  /\ disk' = file
  /\ Answer(n, "stored")
  /\ UNCHANGED file

-----------------------------------------------------------------------------
(* pad.pair and pad.forget. *)

Blue(n, step) == At(n, step) /\ UNCHANGED <<network, settings, faults>>
Pad(n) == calls[n].pad

Lock(n) ==
  /\ Blue(n, "lock") /\ pairing = 0
  /\ \A m \in DOMAIN calls : At(m, "lock") => n <= m     \* a fair mutex
  /\ pairing' = n
  /\ Goes(n, "adapter")
  /\ UNCHANGED <<radio, pads>>

FailPair(n) == Answer(n, "failed") /\ pairing' = 0

NoAdapter(n) == Blue(n, "adapter") /\ FailPair(n) /\ UNCHANGED <<radio, pads>>

StartDiscovery(n) ==
  /\ Blue(n, "adapter")
  /\ radio' = [radio EXCEPT !.scanning = TRUE]
  /\ Goes(n, "find")
  /\ UNCHANGED <<pairing, pads>>

Unbonded == {d \in Pads : pads[d].ready /\ ~pads[d].bonded}
Bonded == {d \in Pads : pads[d].bonded}
Candidates ==          \* an unbonded pad wins; of the bonded ones, the first address
  IF Unbonded # {} THEN Unbonded ELSE IF Bonded = {} THEN {} ELSE {Min(Bonded)}

Found(n) ==
  /\ Blue(n, "find") /\ Cardinality(Candidates) = 1
  /\ \E d \in Candidates :
       calls' = [calls EXCEPT ![n].pad = d,
                              ![n].at = IF pads[d].bonded THEN "agentBonded" ELSE "agent"]
  /\ radio' = [radio EXCEPT !.scanning = FALSE]
  /\ UNCHANGED <<pairing, pads>>

NotFoundScanning(n) ==          \* defect: discovery is left running
  /\ Blue(n, "find") /\ Cardinality(Candidates) # 1
  /\ FailPair(n)
  /\ UNCHANGED <<radio, pads>>

NotFound(n) ==      \* none at the deadline, or two pads in pairing mode
  /\ Blue(n, "find") /\ Cardinality(Candidates) # 1
  /\ radio' = [radio EXCEPT !.scanning = FALSE]
  /\ FailPair(n)
  /\ UNCHANGED pads

RegisterAgent(n) ==
  /\ Blue(n, "agent") \/ Blue(n, "agentBonded")
  /\ radio' = [radio EXCEPT !.agent = Pad(n)]
  /\ Goes(n, IF At(n, "agent") THEN "connect" ELSE "trust")
  /\ UNCHANGED <<pairing, pads>>

Starts(d) == pads' = [pads EXCEPT ![d].bonding = pads[d].ready /\ ~pads[d].bonded]

Connect(n) ==
  /\ Blue(n, "connect")
  /\ Starts(Pad(n))
  /\ Goes(n, "settle")
  /\ UNCHANGED <<pairing, radio>>

ConnectFails(n) ==
  /\ Blue(n, "connect")
  /\ Goes(n, "settle")
  /\ UNCHANGED <<pairing, radio, pads>>

SettledIsDone(n) ==             \* defect: what bonded by itself is not trusted
  /\ Blue(n, "settle") /\ pads[Pad(n)].bonded
  /\ Goes(n, "withdraw")
  /\ UNCHANGED <<pairing, radio, pads>>

Settled(n) ==
  /\ Blue(n, "settle") /\ pads[Pad(n)].bonded
  /\ Goes(n, "trust")
  /\ UNCHANGED <<pairing, radio, pads>>

AskToPair(n) ==
  /\ Blue(n, "settle") /\ ~pads[Pad(n)].bonded
  /\ Starts(Pad(n))
  /\ Goes(n, "bond")
  /\ UNCHANGED <<pairing, radio>>

BondSeen(n) ==
  /\ Blue(n, "bond") /\ pads[Pad(n)].bonded
  /\ Goes(n, "trust")
  /\ UNCHANGED <<pairing, radio, pads>>

BondFails(n) ==     \* rejected, or no bond within BOND_TIMEOUT
  /\ Blue(n, "bond") /\ ~pads[Pad(n)].bonded
  /\ Goes(n, "withdrawFailed")
  /\ UNCHANGED <<pairing, radio, pads>>

SetTrusted(n) ==
  /\ Blue(n, "trust")
  /\ IF pads[Pad(n)].bonded
     THEN /\ pads' = [pads EXCEPT ![Pad(n)].trusted = TRUE]
          /\ Goes(n, "withdraw")
     ELSE Goes(n, "withdrawFailed") /\ UNCHANGED pads
  /\ UNCHANGED <<pairing, radio>>

Withdraw(n) ==
  /\ Blue(n, "withdraw") \/ Blue(n, "withdrawFailed")
  /\ radio' = [radio EXCEPT !.agent = 0]
  /\ IF At(n, "withdraw") THEN Goes(n, "reread") /\ UNCHANGED pairing ELSE FailPair(n)
  /\ UNCHANGED pads

(* A pad that is no longer there is reported as paired and trusted all the same. *)
Paired(n) ==
  /\ Blue(n, "reread")
  /\ Answer(n, "paired")
  /\ pairing' = 0
  /\ UNCHANGED <<radio, pads>>

ForgetPad(n) ==
  /\ Blue(n, "drop")
  /\ LET d == calls[n].ask.pad IN
       pads' = [pads EXCEPT ![d].bonded = FALSE, ![d].trusted = FALSE, ![d].bonding = FALSE]
  /\ Answer(n, "forgotten")
  /\ UNCHANGED <<pairing, radio>>

(* The pads, external. *)

PadsDo == UNCHANGED <<calls, network, settings, pairing, radio, faults>>

EnterPairing(d) ==
  /\ PadsDo /\ ~pads[d].ready
  /\ \E n \in Running : calls[n].ask.op = "pair"
  /\ pads' = [pads EXCEPT ![d].ready = TRUE]
LeavePairing(d) == PadsDo /\ pads[d].ready /\ pads' = [pads EXCEPT ![d].ready = FALSE]
BondLands(d) ==
  /\ PadsDo /\ pads[d].bonding
  /\ pads' = [pads EXCEPT ![d].bonded = TRUE, ![d].bonding = FALSE, ![d].ready = FALSE]

-----------------------------------------------------------------------------
(* A restart of configd, or of the board: the bus forgets what it asked for. *)

Fails ==
  /\ faults < MaxFaults /\ faults' = faults + 1
  /\ calls' = [n \in DOMAIN calls |->
                 IF n \in Running THEN [calls[n] EXCEPT !.at = "lost", !.found = {}]
                 ELSE calls[n]]
  /\ pairing' = 0 /\ radio' = Quiet

Restart == Fails /\ UNCHANGED <<network, settings, pads>>

PowerCut ==
  /\ Fails
  /\ file' \in {file, disk} /\ disk' = file'
  /\ device' = Down
  /\ pads' = [d \in Pads |-> [pads[d] EXCEPT !.bonding = FALSE]]
  /\ UNCHANGED profiles

-----------------------------------------------------------------------------
OfNet(n) ==
  \/ Refuse(n) \/ Scan(n) \/ List(n) \/ ListSkips(n) \/ ListFails(n)
  \/ DeleteSaved(n) \/ DeleteFails(n) \/ Forgotten(n) \/ Replaced(n)
  \/ AddFails(n) \/ AddAndActivate(n) \/ Connected(n) \/ StatusFails(n)
  \/ NotConnected(n) \/ ConnectTimeout(n) \/ CleanUp(n) \/ CleanUpFails(n)
OfStore(n) == ReadFile(n) \/ Rename(n) \/ SyncDirectory(n)
OfPads(n) ==
  \/ Lock(n) \/ NoAdapter(n) \/ StartDiscovery(n) \/ Found(n) \/ NotFound(n)
  \/ RegisterAgent(n) \/ Connect(n) \/ ConnectFails(n) \/ Settled(n)
  \/ AskToPair(n) \/ BondSeen(n) \/ BondFails(n) \/ SetTrusted(n)
  \/ Withdraw(n) \/ Paired(n) \/ ForgetPad(n)
Task(n) == OfNet(n) \/ OfStore(n) \/ OfPads(n)

Next ==
  \/ \E ask \in Ask : Request(ask)
  \/ \E n \in Number : Task(n)
  \/ Activated \/ GivesUp \/ LinkLost \/ Autoconnect
  \/ \E d \in Pads : EnterPairing(d) \/ LeavePairing(d) \/ BondLands(d)
  \/ Restart \/ PowerCut

Spec == Init /\ [][Next]_vars

(* Each call's task is run: bus calls return, and every wait has a deadline. *)
FairSpec == Spec /\ \A n \in Number : WF_vars(Task(n))
-----------------------------------------------------------------------------
Step(op) ==
  CASE op = "connect" -> {"scan", "list", "delete", "add", "poll", "cleanUp"}
    [] op = "forget"  -> {"list", "delete"}
    [] op = "set"     -> {"read", "write", "sync"}
    [] op = "pair"    -> {"lock", "adapter", "find", "agent", "agentBonded", "connect", "settle",
                          "bond", "trust", "withdraw", "withdrawFailed", "reread"}
    [] op = "drop"    -> {"drop"}

Kind == {"connect", "forget", "set", "pair", "drop"}
Reply(op) ==
  CASE op = "connect" -> {"refused", "error", "failed", "connected"}
    [] op = "forget"  -> {"error", "forgotten"}
    [] op = "set"     -> {"stored"}
    [] op = "pair"    -> {"failed", "paired"}
    [] op = "drop"    -> {"forgotten"}

Config == [Field -> 0..MaxCalls]
Id == Number \cup Old
Profile == [id : Id, ssid : Ssids, key : {"right", "wrong"}]
Device == [profile : Id \cup {0}, own : BOOLEAN, state : {"down", "activating", "activated"}]
Call == [ask : Ask, at : (UNION {Step(op) : op \in Kind}) \cup Ended, found : SUBSET Id,
         left : SUBSET Id, config : Config, pad : Pads \cup {0},
         answer : (UNION {Reply(op) : op \in Kind}) \cup {"none"}]

CallsOK ==
  /\ calls \in Seq(Call) /\ Len(calls) <= MaxCalls
  /\ \A n \in DOMAIN calls : LET op == calls[n].ask.op IN
       /\ calls[n].at \in Step(op) \cup Ended
       /\ calls[n].answer \in IF At(n, "done") THEN Reply(op) ELSE {"none"}

(* Every call, profile and pad is what the other definitions take it for. *)
TypeOK ==
  /\ CallsOK
  /\ profiles \subseteq Profile /\ device \in Device
  /\ file \in Config /\ disk \in Config
  /\ pairing \in 0..MaxCalls /\ radio \in [scanning : BOOLEAN, agent : Pads \cup {0}]
  /\ pads \in [Pads -> [bonded : BOOLEAN, trusted : BOOLEAN, bonding : BOOLEAN, ready : BOOLEAN]]
  /\ faults \in 0..MaxFaults

(* What NetworkManager has saved for a network is what the last call about it *)
(* was answered: its own profile once it connected, none once it failed or    *)
(* forgot it, however many were there before and whatever was interrupted.   *)
(* Beside that, only what this very call could not delete, or was answered   *)
(* an error after adding, is saved: what an earlier call has left behind is  *)
(* taken by the next one (nm.rs, `connect`: "it has to be idempotent in the   *)
(* profile it leaves"; "a stale profile is a problem for the next boot").    *)
ProfileIsTheAnswer ==
  \A s \in Ssids :
    LET about == {n \in DOMAIN calls : IsAbout(n, s) /\ calls[n].answer # "refused"}
        last == Max(about)
        own == IF calls[last].answer = "connected" THEN {last} ELSE {}
    IN about # {} /\ At(last, "done")
         => /\ own \subseteq SavedConnections(s)
            /\ SavedConnections(s) \subseteq own \cup calls[last].left

(* A name or PIN that a caller was told is stored is not undone by an older *)
(* one, nor lost with the power (store.rs, `write`).                        *)
SettingIsKept ==
  \A f \in Field :
    LET stored == {n \in DOMAIN calls : Sets(n, f) /\ calls[n].answer = "stored"}
        since == {n \in DOMAIN calls : Sets(n, f) /\ n >= Max(stored)}
    IN stored # {} => file[f] \in since /\ disk[f] \in since

(* A pad reported as paired is bonded and trusted until it is forgotten, also *)
(* when its bond landed by itself, or in an attempt that had timed out        *)
(* (bluez.rs, `bond`).                                                        *)
PairedIsTrusted ==
  \A n \in DOMAIN calls :
    calls[n].answer = "paired"
      /\ ~ (\E m \in DOMAIN calls : m > n /\ calls[m].ask = [op |-> "drop", pad |-> Pad(n)])
    => pads[Pad(n)].bonded /\ pads[Pad(n)].trusted

(* Discovery runs, and the default agent is ours, only while a pairing needs *)
(* it, and the agent answers for the pad of that pairing alone.              *)
RadioIsOfThePairing ==
  radio # Quiet => /\ pairing # 0 /\ calls[pairing].at \notin {"lock", "adapter"} \cup Ended
                   /\ radio.agent \in {0, Pad(pairing)}

(* Every exit from a pairing leaves the radio as it was, and what it answered *)
(* is what bluetoothd knows.                                                  *)
PairingIsSound == PairedIsTrusted /\ RadioIsOfThePairing

(* Every call is answered, whatever NetworkManager, the pads and the other *)
(* callers do, or configd has been restarted.                             *)
CallIsAnswered == \A n \in Number : n \in Running ~> n \notin Running
=============================================================================

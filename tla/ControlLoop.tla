---------------------------- MODULE ControlLoop ----------------------------
(***************************************************************************)
(* robotd: the 50 Hz control loop and the clients that talk to it.         *)
(*                                                                         *)
(* Clients write intents -- single-slot atomics -- from the IPC threads;   *)
(* the loop takes each slot once per tick, in a fixed order.  One tick is  *)
(* the sequence of steps named by `pc`, and with "midTick" a request may   *)
(* land between any two of them.  The networks of a policy change load on  *)
(* a thread of their own.                                                  *)
(*                                                                         *)
(* Joint angles, the gait and the clock are not here: a ramp, a sit, a     *)
(* scripted move and a load end at some tick, a fall is a choice.          *)
(***************************************************************************)
EXTENDS Naturals, FiniteSets

CONSTANTS
    None,           \* "nothing pending"
    SeatedBoot,     \* the robot was switched on sitting
    Asks,           \* the requests that clients make
    Habits,         \* what clients and the bus may do, see below
    MaxRequests,    \* bound: requests in a behaviour
    MaxFaults       \* bound: torque transactions that a servo does not answer

Mode == {"walk", "roller"}
Slot == {"walk", "sitstand"}

\* What a slot may name: this robot's own network, another file, or "none".
File == {f \in [Slot -> {"own", "custom", "none"}] : f["walk"] # "none" /\ f["sitstand"] # "custom"}

RequestKinds == {"enable", "init", "relax", "rebootMotors", "sitToggle", "move", "shutdown",
                 "setMode", "loadPolicy", "reset", "reload"}

(***************************************************************************)
(* Circumstances that nothing in robotd rules out; a run admits some.      *)
(***************************************************************************)
HabitKinds == {
    "midTick",          \* a request lands between two steps of a tick
    "modeWhileDown",    \* setMode on a robot that is not up, or about to go limp
    "modeOverChange",   \* setMode and a policy change in flight together
    "changeOverChange", \* a policy change while another is in flight, or after a failed one
    "moveOverChange",   \* a sit or a move asked for while a change is in flight
    "changeAtShutdown", \* a mode or policy change once a shutdown was asked for
    "seatOff",          \* the sitstand slot is switched off
    "fileLost",         \* a reload finds a policy file gone, or a config that does not parse
    "blind" }           \* the bus is silent for longer than the loop coasts

VARIABLES
    \* The intents: written by clients, taken by the loop.
    enabled, power, reboot, skills, shutdown, modeSwitch, policyChange,
    file,        \* the slots as the config file has them
    published,   \* the mode and slots that clients are told of
    homed,       \* published: the policy can drive
    errors,      \* published: slots in error, "policy", "change"
    \* The loop's own.
    pc, sample, snapshot, bringup, seatedBoot, running, controller, modeChange, swap,
    slotErrors,  \* slots in error, published with the next report
    wasDriving, shutdownSit, poweredOff, limpFall,
    \* The robot, and the bounds.
    torque,      \* "on", "off", or "some" after a transaction that failed
    relaxed,     \* the last word on power was to cut it (history)
    requests, faults

intents == <<enabled, power, reboot, skills, shutdown, modeSwitch, policyChange, file,
             relaxed, requests>>
status  == <<published, homed, errors>>
networks == <<running, swap, slotErrors>>
gait    == <<networks, controller>>
ending  == <<shutdownSit, poweredOff>>
vars    == <<intents, status, pc, sample, snapshot, bringup, seatedBoot, gait, modeChange,
             wasDriving, ending, limpFall, torque, faults>>

Config == [mode : Mode, slots : File]
Own    == [slot \in Slot |-> "own"]

Change == [kind : {"slot"}, slot : {"walk"}, to : {"own", "custom"}]
          \cup [kind : {"slot"}, slot : {"sitstand"}, to : {"own", "none"}]
          \cup {[kind |-> "reset"], [kind |-> "reload"]}

\* A controller: the networks it was built from, where it is in the sit-stand
\* cycle, whether a scripted move runs, and the network that drove last.
Controller == [config : Config, sit : {"up", "sitting", "rising"}, move : BOOLEAN,
               net : {None, "walk", "stand", "sitstand", "move"}]

Fresh(config) == [config |-> config, sit |-> "up", move |-> FALSE, net |-> None]

\* A policy change in flight; `built` is what the loading thread came back with.
PendingSwap == [change : Change, config : Config, disturbs : BOOLEAN,
                built : {"loading", "ok", "failed"}]

ASSUME ControlAssumption ==
    /\ None \notin Mode \cup Change \cup Controller \cup PendingSwap
    /\ SeatedBoot \in BOOLEAN
    /\ Asks \subseteq RequestKinds
    /\ Habits \subseteq HabitKinds
    /\ MaxRequests \in Nat /\ MaxFaults \in Nat

CutTries == 3   \* POWEROFF_TORQUE_ATTEMPTS

Steps == {"read", "power", "reboot", "skills", "mode", "change", "shutdown", "limpFall",
          "bringup", "home", "swap", "drive"}

IntentsOK ==
    /\ enabled \in BOOLEAN /\ power \in {"none", "init", "relax"} /\ reboot \in BOOLEAN
    /\ skills \subseteq {"sitToggle", "move"} /\ shutdown \in BOOLEAN
    /\ modeSwitch \in Mode \cup {None} /\ policyChange \in Change \cup {None}
    /\ file \in File /\ relaxed \in BOOLEAN /\ requests \in 0..MaxRequests
StatusOK ==
    published \in Config /\ homed \in BOOLEAN /\ errors \subseteq Slot \cup {"policy", "change"}
NetworksOK ==
    /\ running \in Config /\ controller \in Controller \cup {None}
    /\ swap \in PendingSwap \cup {None} /\ slotErrors \subseteq Slot
LoopOK ==
    /\ pc \in Steps /\ sample \in {"none", "warming", "good"} /\ snapshot \in BOOLEAN
    /\ bringup \in {"limp", "homing", "ready"} /\ seatedBoot \in BOOLEAN
    /\ modeChange \in Mode \cup {None} /\ wasDriving \in BOOLEAN
    /\ shutdownSit \in BOOLEAN /\ poweredOff \in BOOLEAN
    /\ limpFall \in {"idle", "limp", "posing"}
RobotOK == torque \in {"on", "off", "some"} /\ faults \in 0..MaxFaults

TypeOK == IntentsOK /\ StatusOK /\ NetworksOK /\ LoopOK /\ RobotOK

\* A board just switched on: torque is off, its own policies loaded or would not.
Init ==
    /\ enabled = FALSE /\ power = "none" /\ reboot = FALSE /\ skills = {}
    /\ shutdown = FALSE /\ modeSwitch = None /\ policyChange = None
    /\ file = Own /\ running = [mode |-> "walk", slots |-> Own] /\ published = running
    /\ homed = FALSE
    /\ \/ controller = Fresh(running) /\ errors = {}
       \/ controller = None /\ errors = {"policy"}
    /\ pc = "read" /\ sample = "none" /\ snapshot = FALSE
    /\ bringup = "limp" /\ seatedBoot = SeatedBoot
    /\ modeChange = None /\ swap = None /\ slotErrors = {}
    /\ wasDriving = FALSE /\ shutdownSit = FALSE /\ poweredOff = FALSE
    /\ limpFall = "idle" /\ torque = "off" /\ relaxed = TRUE
    /\ requests = 0 /\ faults = 0

-----------------------------------------------------------------------------
(* Clients.  `dispatch` answers at once; the loop acts later.              *)

Client(kind) ==
    /\ kind \in Asks
    /\ pc = "read" \/ "midTick" \in Habits
    /\ requests < MaxRequests /\ requests' = requests + 1
    /\ UNCHANGED <<status, pc, sample, snapshot, bringup, seatedBoot, gait, modeChange,
                   wasDriving, ending, limpFall, torque, faults>>

ShuttingDown   == shutdown \/ shutdownSit \/ poweredOff
ChangeInFlight == policyChange # None \/ swap # None
ModeInFlight   == modeSwitch # None \/ modeChange # None

\* `toggle` flips the flag as robotd has it.
Enable ==
    /\ Client("enable")
    /\ enabled' = ~enabled
    /\ relaxed' = (relaxed /\ ~enabled')
    /\ UNCHANGED <<power, reboot, skills, shutdown, modeSwitch, policyChange, file>>

RequestInit ==
    /\ Client("init")
    /\ power' = "init" /\ relaxed' = FALSE
    /\ UNCHANGED <<enabled, reboot, skills, shutdown, modeSwitch, policyChange, file>>

MayGoLimp == ~ModeInFlight \/ "modeWhileDown" \in Habits

\* Fault, for testing the properties: the policy stays enabled.
RelaxLeavesEnabled ==
    /\ Client("relax") /\ MayGoLimp
    /\ power' = "relax" /\ relaxed' = TRUE
    /\ UNCHANGED <<enabled, reboot, skills, shutdown, modeSwitch, policyChange, file>>

\* Both clear `enabled`, or the next tick would bring the robot back up.
RequestRelax ==
    /\ Client("relax") /\ MayGoLimp
    /\ enabled' = FALSE /\ power' = "relax" /\ relaxed' = TRUE
    /\ UNCHANGED <<reboot, skills, shutdown, modeSwitch, policyChange, file>>

RequestRebootMotors ==
    /\ Client("rebootMotors") /\ MayGoLimp
    /\ enabled' = FALSE /\ reboot' = TRUE /\ relaxed' = TRUE
    /\ UNCHANGED <<power, skills, shutdown, modeSwitch, policyChange, file>>

\* robot.do: refused unless the policy drives and, for a sit, has the network.
RequestSkill(skill) ==
    /\ Client(skill)
    /\ ~ChangeInFlight \/ "moveOverChange" \in Habits
    /\ enabled /\ homed
    /\ skill = "sitToggle" => published.slots["sitstand"] # "none"
    /\ skills' = skills \cup {skill}
    /\ UNCHANGED <<enabled, power, reboot, shutdown, modeSwitch, policyChange, file, relaxed>>

RequestShutdown ==
    /\ Client("shutdown")
    /\ ~(ModeInFlight \/ ChangeInFlight) \/ "changeAtShutdown" \in Habits
    /\ shutdown' = TRUE
    /\ UNCHANGED <<enabled, power, reboot, skills, modeSwitch, policyChange, file, relaxed>>

RequestMode ==
    /\ Client("setMode")
    /\ (bringup = "ready" /\ power = "none" /\ ~reboot) \/ "modeWhileDown" \in Habits
    /\ ~ChangeInFlight \/ "modeOverChange" \in Habits
    /\ ~ShuttingDown \/ "changeAtShutdown" \in Habits
    /\ \E mode \in Mode : modeSwitch' = mode
    /\ UNCHANGED <<enabled, power, reboot, skills, shutdown, policyChange, file, relaxed>>

MayChangePolicy ==
    /\ ~ModeInFlight \/ "modeOverChange" \in Habits
    /\ (~ChangeInFlight /\ "change" \notin errors) \/ "changeOverChange" \in Habits
    /\ ~ShuttingDown \/ "changeAtShutdown" \in Habits

\* already_loaded: a slot in error never is, and no report says "none".
Settled(slot, to) ==
    slot \notin errors /\ published.slots[slot] = to /\ to # "none"

\* robot.loadPolicy writes the config file before anything else.
LoadPolicy ==
    /\ Client("loadPolicy") /\ MayChangePolicy
    /\ \E slot \in Slot, to \in {"own", "custom", "none"} :
        /\ [file EXCEPT ![slot] = to] \in File
        /\ to = "none" => "seatOff" \in Habits
        /\ file' = [file EXCEPT ![slot] = to]
        /\ policyChange' = IF Settled(slot, to) THEN policyChange
                           ELSE [kind |-> "slot", slot |-> slot, to |-> to]
    /\ UNCHANGED <<enabled, power, reboot, skills, shutdown, modeSwitch, relaxed>>

ResetPolicies ==
    /\ Client("reset") /\ MayChangePolicy
    /\ file' = Own
    /\ policyChange' = IF \A slot \in Slot : Settled(slot, "own") THEN policyChange
                       ELSE [kind |-> "reset"]
    /\ UNCHANGED <<enabled, power, reboot, skills, shutdown, modeSwitch, relaxed>>

ReloadPolicies ==
    /\ Client("reload") /\ MayChangePolicy
    /\ policyChange' = [kind |-> "reload"]
    /\ UNCHANGED <<enabled, power, reboot, skills, shutdown, modeSwitch, file, relaxed>>

-----------------------------------------------------------------------------
(* A tick, up to the last intent it takes.                                 *)

Then(step) == pc' = step

\* One transaction with every servo: all answer ...
SetTorque(goal) == torque' = goal /\ UNCHANGED faults

\* ... or one does not; none, some or all of them took it.
TorqueFails(goal) ==
    /\ faults < MaxFaults /\ faults' = faults + 1
    /\ torque' \in IF torque = goal THEN {goal} ELSE {torque, "some", goal}

\* The sample, read or coasted over, and whether the orientation has converged.
Read ==
    /\ pc = "read" /\ Then("power")
    /\ sample' \in {"warming", "good"} \cup (IF "blind" \in Habits THEN {"none"} ELSE {})
    /\ snapshot' = enabled
    /\ UNCHANGED <<intents, status, bringup, seatedBoot, gait, modeChange, wasDriving, ending,
                   limpFall, torque, faults>>

HasSitStand == controller # None /\ controller.config.slots["sitstand"] # "none"

\* Torque is on: a robot switched on sitting rises, any other ramps home.
ComeUp ==
    IF seatedBoot /\ HasSitStand
    THEN /\ seatedBoot' = FALSE
         /\ controller' = [controller EXCEPT !.sit = "rising"]
         /\ bringup' = "ready"
    ELSE bringup' = "homing" /\ UNCHANGED <<seatedBoot, controller>>

StayDown == UNCHANGED <<bringup, seatedBoot, controller>>

PowerUp == \/ SetTorque("on") /\ ComeUp
           \/ TorqueFails("on") /\ StayDown

\* Fault: torque goes, and the loop still believes the robot is up.
GoLimpUnnoticed == wasDriving' = FALSE /\ UNCHANGED bringup

GoLimp == bringup' = "limp" /\ wasDriving' = FALSE

TakePower ==
    /\ pc = "power" /\ Then("reboot")
    /\ power' = "none"
    /\ CASE power = "init" /\ ~poweredOff /\ sample # "none" /\ bringup = "limp" ->
              PowerUp /\ UNCHANGED wasDriving
         [] power = "init" /\ ~poweredOff /\ sample # "none" /\ bringup = "ready" ->
              bringup' = "homing"
              /\ UNCHANGED <<torque, faults, seatedBoot, controller, wasDriving>>
         [] power = "relax" ->
              /\ \/ SetTorque("off") /\ GoLimp
                 \/ TorqueFails("off") /\ UNCHANGED <<bringup, wasDriving>>
              /\ UNCHANGED <<seatedBoot, controller>>
         [] OTHER -> StayDown /\ UNCHANGED <<torque, faults, wasDriving>>
    /\ UNCHANGED <<enabled, reboot, skills, shutdown, modeSwitch, policyChange, file, relaxed,
                   requests, status, sample, snapshot, networks, modeChange, ending, limpFall>>

\* Torque off, then the servos reboot; whatever failed, the robot is limp.
TakeReboot ==
    /\ pc = "reboot" /\ Then("skills")
    /\ reboot' = FALSE
    /\ IF reboot THEN (SetTorque("off") \/ TorqueFails("off")) /\ GoLimp
                 ELSE UNCHANGED <<torque, faults, bringup, wasDriving>>
    /\ UNCHANGED <<enabled, power, skills, shutdown, modeSwitch, policyChange, file, relaxed,
                   requests, status, sample, snapshot, seatedBoot, gait, modeChange, ending,
                   limpFall>>

Toggled == CASE controller.sit = "up" /\ HasSitStand -> "sitting"
             [] controller.sit = "sitting"           -> "rising"
             [] OTHER                                -> controller.sit

\* Fault: a button is heeded during the last sit.
TakeSkillsAlways ==
    /\ pc = "skills" /\ Then("mode")
    /\ skills' = {}
    /\ IF controller # None /\ snapshot /\ bringup = "ready"
       THEN controller' = [controller EXCEPT
                !.sit  = IF "sitToggle" \in skills THEN Toggled ELSE @,
                !.move = @ \/ "move" \in skills]
       ELSE UNCHANGED controller
    /\ UNCHANGED <<enabled, power, reboot, shutdown, modeSwitch, policyChange, file, relaxed,
                   requests, status, sample, snapshot, bringup, seatedBoot, networks,
                   modeChange, wasDriving, ending, limpFall, torque, faults>>

TakeSkills ==
    /\ pc = "skills" /\ Then("mode")
    /\ skills' = {}
    /\ IF controller # None /\ snapshot /\ bringup = "ready" /\ ~shutdownSit
       THEN controller' = [controller EXCEPT
                !.sit  = IF "sitToggle" \in skills THEN Toggled ELSE @,
                !.move = @ \/ "move" \in skills]
       ELSE UNCHANGED controller
    /\ UNCHANGED <<enabled, power, reboot, shutdown, modeSwitch, policyChange, file, relaxed,
                   requests, status, sample, snapshot, bringup, seatedBoot, networks,
                   modeChange, wasDriving, ending, limpFall, torque, faults>>

\* The robot goes home first, and the other mode's networks load there.
TakeMode ==
    /\ pc = "mode" /\ Then("change")
    /\ modeSwitch' = None
    /\ IF modeSwitch \notin {None, running.mode} /\ modeChange = None
       THEN /\ modeChange' = modeSwitch
            /\ bringup' = IF sample # "none" THEN "homing" ELSE bringup
       ELSE UNCHANGED <<modeChange, bringup>>
    /\ UNCHANGED <<enabled, power, reboot, skills, shutdown, policyChange, file, relaxed,
                   requests, status, sample, snapshot, seatedBoot, gait, wasDriving, ending,
                   limpFall, torque, faults>>

\* Fault: a reload keeps the paths, as it did before it re-read the file.
CandidateNotRead(change, lost) ==
    [running EXCEPT !.slots = CASE change.kind = "slot"   -> [@ EXCEPT ![change.slot] = change.to]
                                [] change.kind = "reset"  -> Own
                                [] change.kind = "reload" -> @]

\* What the change asks for, a reload with the lost files' slots at their default.
Candidate(change, lost) ==
    [running EXCEPT !.slots = CASE change.kind = "slot"   -> [@ EXCEPT ![change.slot] = change.to]
                                [] change.kind = "reset"  -> Own
                                [] change.kind = "reload" -> [slot \in Slot |->
                                                IF slot \in lost THEN "own" ELSE file[slot]]]

\* drop_unloadable_overrides: files that somebody named, and that are not there.
Losses(change) == IF change.kind = "reload" /\ "fileLost" \in Habits
                  THEN SUBSET {slot \in Slot : file[slot] = "custom"} ELSE {{}}

\* Does the change replace the network that has the robot?  Nothing disturbs a
\* seated one; a reload disturbs any other, its files may have moved.
Disturbs(change) ==
    /\ wasDriving /\ controller # None /\ controller.net # None
    /\ ~(controller.net = "sitstand" /\ controller.sit = "sitting")
    /\ \/ change.kind = "reload"
       \/ controller.net \in Slot
          /\ Candidate(change, {}).slots[controller.net] # running.slots[controller.net]

Poll(pending) ==
    IF pending = None THEN {None}
    ELSE IF pending.built # "loading" THEN {pending}
    ELSE {[pending EXCEPT !.built = b] : b \in {"loading", "ok", "failed"}}

ChangeStep ==
    /\ pc = "change" /\ Then("shutdown")
    /\ policyChange' = None
    /\ UNCHANGED <<enabled, power, reboot, skills, shutdown, modeSwitch, file, relaxed, requests,
                   status, sample, snapshot, seatedBoot, running, controller, modeChange,
                   wasDriving, ending, limpFall, torque, faults>>

\* Nothing to take, or a change that is ignored: one is in flight already, or the
\* config that it re-reads does not parse.
PollChange ==
    /\ ChangeStep
    /\ policyChange # None /\ modeChange = None /\ swap = None
          => policyChange.kind = "reload" /\ "fileLost" \in Habits
    /\ swap' \in Poll(swap)
    /\ UNCHANGED <<bringup, slotErrors>>

BeginChange ==
    /\ ChangeStep
    /\ policyChange # None /\ modeChange = None /\ swap = None
    /\ \E lost \in Losses(policyChange) :
        /\ slotErrors' = slotErrors \cup lost
        /\ swap' \in Poll([change |-> policyChange, config |-> Candidate(policyChange, lost),
                           disturbs |-> Disturbs(policyChange), built |-> "loading"])
    /\ bringup' = IF Disturbs(policyChange) /\ bringup = "ready" /\ sample # "none"
                  THEN "homing" ELSE bringup

\* The cut before the power goes is tried until it lands, CutTries times at most.
CutTorque ==
    \E failed \in 0..CutTries :
        /\ faults + failed <= MaxFaults /\ faults' = faults + failed
        /\ torque' \in IF failed < CutTries \/ torque = "off" THEN {"off"}
                       ELSE {torque, "some", "off"}

PowerOff ==
    /\ CutTorque
    /\ enabled' = FALSE /\ bringup' = "limp" /\ poweredOff' = TRUE

ShutdownStep ==
    /\ pc = "shutdown" /\ Then("limpFall")
    /\ UNCHANGED <<power, reboot, skills, modeSwitch, policyChange, file, relaxed, requests,
                   status, sample, snapshot, seatedBoot, networks, modeChange, wasDriving,
                   limpFall>>

NoShutdown ==
    /\ ShutdownStep
    /\ poweredOff \/ shutdownSit \/ ~shutdown
    /\ UNCHANGED <<enabled, shutdown, bringup, controller, ending, torque, faults>>

\* Fault: nothing remembers that the sit is the one before the power goes.
SitDownForgotten ==
    /\ ShutdownStep
    /\ ~poweredOff /\ ~shutdownSit /\ shutdown
    /\ snapshot /\ bringup = "ready" /\ HasSitStand
    /\ shutdown' = FALSE /\ UNCHANGED shutdownSit
    /\ controller' = [controller EXCEPT !.sit = "sitting"]
    /\ UNCHANGED <<enabled, bringup, poweredOff, torque, faults>>

\* A robot that can sits down first ...
SitDown ==
    /\ ShutdownStep
    /\ ~poweredOff /\ ~shutdownSit /\ shutdown
    /\ snapshot /\ bringup = "ready" /\ HasSitStand
    /\ shutdown' = FALSE /\ shutdownSit' = TRUE
    /\ controller' = [controller EXCEPT !.sit = "sitting"]
    /\ UNCHANGED <<enabled, bringup, poweredOff, torque, faults>>

\* ... and one that cannot, or is down, is switched off as it is.
PowerOffAtOnce ==
    /\ ShutdownStep
    /\ ~poweredOff /\ ~shutdownSit /\ shutdown
    /\ PowerOff
    /\ shutdown' = FALSE
    /\ UNCHANGED <<shutdownSit, controller>>

SitComplete ==
    /\ ShutdownStep
    /\ shutdownSit /\ ~poweredOff
    /\ PowerOff
    /\ UNCHANGED <<shutdown, shutdownSit, controller>>

-----------------------------------------------------------------------------
(* The rest of the tick.                                                   *)

\* The fall is caught only from a policy that drives, and not from a move.
Eligible == /\ wasDriving /\ ~shutdownSit /\ ~poweredOff /\ sample = "good"
            /\ controller # None /\ controller.sit = "up" /\ ~controller.move

LimpFallPhase ==
    IF limpFall # "idle" /\ ~(snapshot /\ bringup = "ready" /\ ~shutdownSit /\ ~poweredOff)
    THEN "idle" ELSE limpFall

LimpFall ==
    /\ pc = "limpFall" /\ Then("bringup")
    /\ limpFall' \in CASE LimpFallPhase = "idle"   -> {"idle"} \cup (IF Eligible THEN {"limp"} ELSE {})
                       [] LimpFallPhase = "limp"   -> {"limp", "posing"}
                       [] LimpFallPhase = "posing" -> {"posing", "idle"}
    /\ UNCHANGED <<intents, status, sample, snapshot, bringup, seatedBoot, gait, modeChange,
                   wasDriving, ending, torque, faults>>

\* Fault: `enabled` was read before the power went.
BringUpRegardless ==
    /\ pc = "bringup" /\ Then("home")
    /\ IF bringup = "limp" /\ snapshot /\ controller # None /\ sample # "none"
       THEN PowerUp
       ELSE StayDown /\ UNCHANGED <<torque, faults>>
    /\ UNCHANGED <<intents, status, sample, snapshot, networks, modeChange, wasDriving,
                   ending, limpFall>>

BringUp ==
    /\ pc = "bringup" /\ Then("home")
    /\ IF bringup = "limp" /\ snapshot /\ controller # None /\ sample # "none" /\ ~poweredOff
       THEN PowerUp
       ELSE StayDown /\ UNCHANGED <<torque, faults>>
    /\ UNCHANGED <<intents, status, sample, snapshot, networks, modeChange, wasDriving,
                   ending, limpFall>>

HomeStep ==
    /\ pc = "home" /\ Then("swap")
    /\ UNCHANGED <<intents, homed, sample, snapshot, seatedBoot, swap, slotErrors, wasDriving, ending,
                   limpFall, torque, faults>>

\* Limp, ready, still ramping, or at home for a swap that is still loading.
NotHome ==
    /\ HomeStep
    /\ UNCHANGED <<published, errors, bringup, running, controller, modeChange>>

\* Fault: the robot holds at home for a swap that has loaded, and that waits for it.
ArrivedWithoutSwap == bringup = "homing" /\ ~(swap # None /\ swap.disturbs)

Arrived == bringup = "homing" /\ ~(swap # None /\ swap.disturbs /\ swap.built = "loading")

ArriveHome ==
    /\ HomeStep
    /\ Arrived /\ modeChange = None
    /\ bringup' = "ready"
    /\ UNCHANGED <<published, errors, running, controller, modeChange>>

\* A mode switch that does not load leaves the robot without a policy.
SwitchMode ==
    /\ HomeStep
    /\ Arrived /\ modeChange # None
    /\ bringup' = "ready" /\ modeChange' = None
    /\ running' = [running EXCEPT !.mode = modeChange]
    /\ published' = running'
    /\ \/ controller' = Fresh(running') /\ errors' = slotErrors \cup (errors \cap {"change"})
       \/ controller' = None /\ errors' = slotErrors \cup (errors \cap {"change"}) \cup {"policy"}

\* Fault: a new controller starts standing, whatever the old one did.
FreshAlways(config) == Fresh(config)

\* carry_over: the seat, the move and the network that drives go across.
CarryOver(config) == IF controller = None THEN Fresh(config)
                     ELSE [controller EXCEPT !.config = config]

SwapStep ==
    /\ pc = "swap" /\ Then("drive")
    /\ UNCHANGED <<intents, homed, sample, snapshot, bringup, seatedBoot, modeChange, wasDriving,
                   ending, limpFall, torque, faults>>

SwapReady == bringup # "homing" /\ swap # None /\ swap.built # "loading"

NoSwap ==
    /\ SwapStep
    /\ ~SwapReady
    /\ UNCHANGED <<published, errors, gait>>

\* The slots that a change has answered: its own, or every one.
Answered(change) == IF change.kind = "slot" THEN {change.slot} ELSE Slot

\* Fault: the policy error of an earlier mode switch stays.
ErrorsLeftWithPolicy(change) == (slotErrors \ Answered(change)) \cup (errors \cap {"policy"})

\* What is in error once a change took; "policy" and "change" are not.
ErrorsLeft(change) == slotErrors \ Answered(change)

\* Fault: what is reported stays what it was.
SwapUnpublished ==
    /\ SwapStep
    /\ SwapReady /\ swap.built = "ok"
    /\ controller' = IF swap.disturbs THEN Fresh(swap.config) ELSE CarryOver(swap.config)
    /\ running' = swap.config
    /\ UNCHANGED published
    /\ slotErrors' = slotErrors \ Answered(swap.change)
    /\ errors' = ErrorsLeft(swap.change)
    /\ swap' = None

\* The mode is not published here: a change does not move it.
Swap ==
    /\ SwapStep
    /\ SwapReady /\ swap.built = "ok"
    /\ controller' = IF swap.disturbs THEN Fresh(swap.config) ELSE CarryOver(swap.config)
    /\ running' = swap.config
    /\ published' = [published EXCEPT !.slots = swap.config.slots]
    /\ slotErrors' = slotErrors \ Answered(swap.change)
    /\ errors' = ErrorsLeft(swap.change)
    /\ swap' = None

\* Whatever was running runs on, and the report says why.
SwapFails ==
    /\ SwapStep
    /\ SwapReady /\ swap.built = "failed"
    /\ IF swap.change.kind = "slot"
       THEN /\ slotErrors' = slotErrors \cup {swap.change.slot}
            /\ errors' = slotErrors' \cup (errors \ Slot)
       ELSE errors' = errors \cup {"change"} /\ UNCHANGED slotErrors
    /\ swap' = None
    /\ UNCHANGED <<published, running, controller>>

Driving ==
    /\ snapshot /\ bringup = "ready" /\ controller # None /\ limpFall = "idle"
    /\ sample = "good" /\ ~poweredOff

\* The controller's step: windows expire, then move > sit > stand or walk.
StepController ==
    \E move \in BOOLEAN, sit \in {controller.sit, "up"},
       net \in {"walk", "stand", "sitstand", "move"} :
        /\ move => controller.move
        /\ sit # controller.sit => controller.sit = "rising"
        /\ net = "move" <=> move
        /\ ~move => (net = "sitstand" <=> sit # "up")
        /\ controller' = [controller EXCEPT !.move = move, !.sit = sit, !.net = net]

Drive ==
    /\ pc = "drive" /\ Then("read")
    /\ homed' = (bringup = "ready")
    /\ wasDriving' = Driving
    /\ IF Driving THEN StepController ELSE UNCHANGED controller
    /\ sample' = "none" /\ snapshot' = FALSE
    /\ UNCHANGED <<intents, published, errors, bringup, seatedBoot, networks, modeChange,
                   ending, limpFall, torque, faults>>

-----------------------------------------------------------------------------
Request ==
    \/ Enable \/ RequestInit \/ RequestRelax \/ RequestRebootMotors
    \/ RequestSkill("sitToggle") \/ RequestSkill("move") \/ RequestShutdown
    \/ RequestMode \/ LoadPolicy \/ ResetPolicies \/ ReloadPolicies

Tick == \/ Read \/ TakePower \/ TakeReboot \/ TakeSkills \/ TakeMode \/ PollChange \/ BeginChange
        \/ NoShutdown \/ SitDown \/ PowerOffAtOnce \/ SitComplete
        \/ LimpFall \/ BringUp \/ NotHome \/ ArriveHome \/ SwitchMode
        \/ NoSwap \/ Swap \/ SwapFails \/ Drive

Next == Request \/ Tick

Spec == Init /\ [][Next]_vars

-----------------------------------------------------------------------------
(* What the loop promises.  "read" is the gap between two ticks.            *)

\* A robot that is powering off has no torque and gets none back, whatever was
\* enabled or asked for when the sit completed, unless every try at cutting it
\* went unanswered.
PowerOffIsTorqueless == poweredOff /\ faults < CutTries => torque = "off"

\* The update gate's verdict: unhealthy exactly when there is no policy to run.
UnhealthyIsNoPolicy == pc = "read" => ("policy" \in errors <=> controller = None)

\* A client who relaxed the robot, and asked for nothing since, has a robot with
\* no torque (request_relax, and the order of the takes in a tick), unless a servo
\* did not answer.
RelaxWins ==
    pc = "read" /\ relaxed /\ power # "relax" /\ ~reboot => torque = "off" \/ faults > 0

\* The policy drives servos that have power, unless one did not answer: a relax
\* that some servo missed leaves the robot up as far as the loop knows.
DrivingIsPowered == pc = "read" /\ wasDriving => torque = "on" \/ faults > 0

\* Clients are told of the mode and the networks that run.
RunningIsPublished ==
    pc = "read" =>
        /\ published = running
        /\ controller # None => controller.config = running

\* Once nothing is in flight, a slot that is not in error runs what the config
\* file says: the next restart changes nothing.
FileIsRunning ==
    pc = "read" /\ ~ChangeInFlight /\ "change" \notin errors =>
        \A slot \in Slot \ errors : file[slot] = running.slots[slot]

\* What clients are told and what the file says is what drives the robot, through
\* mode switches, changes and swaps that overlap.
RobotIsAsSaid == RunningIsPublished /\ FileIsRunning

\* A robot that the sitstand network holds in the seat gets up because someone
\* asked it to, or at the home pose: no change to its networks stands it up.
RisesWhenAsked ==
    controller # None /\ controller' # None /\ controller.net = "sitstand"
        /\ controller.sit = "sitting" /\ controller'.sit = "up" => pc = "home"

\* The sit before the power goes is seen through.
SitsToTheEnd ==
    shutdownSit /\ ~poweredOff /\ controller # None => controller.sit = "sitting"

\* A seated robot stays seated until someone, or the end of its shutdown, says otherwise.
SeatIsKept == [][RisesWhenAsked /\ SitsToTheEnd']_vars

\* The posture flag is fed to the network that was trained on it.
SeatHasItsNetwork ==
    pc = "read" /\ wasDriving /\ controller.net = "sitstand" => HasSitStand

-----------------------------------------------------------------------------
(* Progress.  The ticker runs on; a sit, a ramp and a load take as long as  *)
(* they take, and end.                                                      *)

Fairness ==
    /\ WF_vars(Tick)
    /\ SF_vars(SitComplete)
    /\ SF_vars(ArriveHome \/ SwitchMode)
    /\ SF_vars(PollChange /\ swap # None /\ swap' # swap)

FairSpec == Spec /\ Fairness

\* A shutdown that was asked for happens, whatever else is asked.
ShutdownIsDone == shutdown ~> poweredOff

\* A policy change is decided: it takes, or the report says that it did not.
ChangeIsDecided == swap # None ~> swap = None

\* Neither waits for the other, or for a robot that is on its way home, for ever.
AskedIsDone == ShutdownIsDone /\ ChangeIsDecided
=============================================================================

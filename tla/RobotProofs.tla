---------------------------- MODULE RobotProofs -----------------------------
(***************************************************************************)
(* What is proved of ControlLoop, for any number of requests of any kind,  *)
(* any faults on the bus, and the habits of clients that a theorem names;  *)
(* and of Pad, for any number of requests, losses and ticks, of padd and   *)
(* of other clients, in the circumstances that a theorem names.            *)
(***************************************************************************)
EXTENDS Pad, TLAPS

-----------------------------------------------------------------------------
(* The control loop.                                                       *)

\* The published error follows the controller at every step of a tick, not only
\* between ticks.
ErrorFollowsController == "policy" \in errors <=> controller = None

\* Clients that switch modes on a robot that is up, and leave its power alone
\* until it has switched: the loop sends no limp robot home.
ModeFindsItUp ==
    ~poweredOff =>
        /\ modeSwitch # None => bringup # "limp"
        /\ ModeInFlight => power # "relax" /\ ~reboot
PoweredWhenUp ==
    /\ bringup # "limp" /\ ~poweredOff => torque = "on" \/ faults > 0
    /\ pc = "read" /\ wasDriving => bringup = "ready" /\ ~poweredOff
UpIsPowered == "modeWhileDown" \notin Habits => ModeFindsItUp /\ PoweredWhenUp

\* Requests between ticks only: neither the flag nor the tick's copy of it
\* outlives a relax, and an init that a reboot overtook is taken before it.
RelaxedStaysDown ==
    /\ pc \notin {"read", "power"} => power = "none"
    /\ relaxed =>
        /\ ~enabled
        /\ pc # "read" => ~snapshot
        /\ power = "init" => reboot
        /\ power # "relax" /\ ~reboot => torque = "off" \/ faults > 0
RelaxedIsDown == "midTick" \notin Habits => RelaxedStaysDown

IInv == TypeOK /\ ErrorFollowsController /\ PowerOffIsTorqueless /\ UpIsPowered /\ RelaxedIsDown
USE ControlAssumption DEF ControlAssumption

-----------------------------------------------------------------------------
(* Types. *)

(* What a controller becomes has a controller's type: built anew, or the    *)
(* state of another one carried over.                                       *)
LEMMA FreshIsController ==
    ASSUME NEW config \in Config PROVE Fresh(config) \in Controller
BY DEF Fresh, Controller

\* What a swap leaves of the controller is a controller (carry_over).
LEMMA CarriedIsController ==
    ASSUME NEW config \in Config, controller \in Controller \cup {None}
    PROVE  CarryOver(config) \in Controller
BY FreshIsController DEF CarryOver, Controller

(* The networks that a change asks for are networks that the slots may      *)
(* name, whichever files a reload finds gone.                               *)
LEMMA CandidateIsConfig ==
    ASSUME NEW change \in Change, NEW lost, running \in Config, file \in File
    PROVE  Candidate(change, lost) \in Config
<1>1. Own \in File
    BY DEF Own, File, Slot
<1>2. CASE change.kind = "slot"
    <2>1. [running.slots EXCEPT ![change.slot] = change.to] \in File
        BY <1>2 DEF Change, Config, File, Slot
    <2> QED BY <1>2, <2>1 DEF Candidate, Config
<1>3. CASE change.kind = "reset"
    BY <1>1, <1>3 DEF Candidate, Config
<1>4. CASE change.kind = "reload"
    <2>1. [slot \in Slot |-> IF slot \in lost THEN "own" ELSE file[slot]] \in File
        BY DEF File, Slot
    <2> QED BY <1>4, <2>1 DEF Candidate, Config
<1> QED BY <1>2, <1>3, <1>4 DEF Change

USE DEF intents, status, networks, gait, ending, vars, Then

(* A board just switched on is well typed.                                  *)
LEMMA InitType == Init => TypeOK
<1> SUFFICES ASSUME Init PROVE TypeOK
    OBVIOUS
<1>1. Own \in File
    BY DEF Own, File, Slot
<1>2. running \in Config
    BY <1>1 DEF Init, Config, Mode
<1>3. controller \in Controller \cup {None}
    BY <1>2, FreshIsController DEF Init
<1>4. IntentsOK
    <2>1. requests \in 0..MaxRequests
        BY DEF Init
    <2>2. skills \subseteq {"sitToggle", "move"}
        BY DEF Init
    <2> QED BY <1>1, <2>1, <2>2 DEF Init, IntentsOK
<1>5. StatusOK
    BY <1>2 DEF Init, StatusOK
<1>6. NetworksOK
    BY <1>2, <1>3 DEF Init, NetworksOK
<1>7. LoopOK
    BY DEF Init, LoopOK, Steps
<1>8. RobotOK
    BY DEF Init, RobotOK
<1> QED BY <1>4, <1>5, <1>6, <1>7, <1>8 DEF TypeOK

(* A request leaves everything but the intents alone ...                    *)
LEMMA ClientType ==
    ASSUME TypeOK, NEW kind, Client(kind)
    PROVE  StatusOK' /\ NetworksOK' /\ LoopOK' /\ RobotOK' /\ requests' \in 0..MaxRequests
<1>1. StatusOK'
    BY DEF Client, TypeOK, StatusOK
<1>2. NetworksOK'
    BY DEF Client, TypeOK, NetworksOK
<1>3. LoopOK'
    BY DEF Client, TypeOK, LoopOK
<1>4. RobotOK' /\ requests' \in 0..MaxRequests
    BY DEF Client, TypeOK, RobotOK, IntentsOK
<1> QED BY <1>1, <1>2, <1>3, <1>4

(* ... and makes intents of them.                                           *)
LEMMA RequestType == TypeOK /\ Request => TypeOK'
<1> SUFFICES ASSUME TypeOK, Request PROVE TypeOK'
    OBVIOUS
<1>0. PICK kind : Client(kind)
    BY ZenonT(20)
    DEF Request, Enable, RequestInit, RequestRelax, RequestRebootMotors, RequestSkill,
        RequestShutdown, RequestMode, LoadPolicy, ResetPolicies, ReloadPolicies
<1>a. requests' \in 0..MaxRequests
    BY <1>0, ClientType
<1> SUFFICES IntentsOK'
    BY <1>0, ClientType DEF TypeOK
<1> USE <1>a DEF IntentsOK, TypeOK
<1>1. CASE Enable
    BY <1>1 DEF Enable
<1>2. CASE RequestInit
    BY <1>2 DEF RequestInit
<1>3. CASE RequestRelax
    BY <1>3 DEF RequestRelax
<1>4. CASE RequestRebootMotors
    BY <1>4 DEF RequestRebootMotors
<1>5. CASE RequestSkill("sitToggle") \/ RequestSkill("move")
    BY <1>5 DEF RequestSkill
<1>6. CASE RequestShutdown
    BY <1>6 DEF RequestShutdown
<1>7. CASE RequestMode
    BY <1>7 DEF RequestMode
<1>8. CASE LoadPolicy
    <2>1. PICK slot \in Slot, to \in {"own", "custom", "none"} :
            /\ [file EXCEPT ![slot] = to] \in File
            /\ file' = [file EXCEPT ![slot] = to]
            /\ policyChange' = IF Settled(slot, to) THEN policyChange
                               ELSE [kind |-> "slot", slot |-> slot, to |-> to]
        BY <1>8 DEF LoadPolicy
    <2>2. [kind |-> "slot", slot |-> slot, to |-> to] \in Change
        BY <2>1 DEF Change, File, Slot
    <2> QED BY <1>8, <2>1, <2>2 DEF LoadPolicy
<1>9. CASE ResetPolicies
    <2>1. Own \in File /\ [kind |-> "reset"] \in Change
        BY DEF Own, File, Slot, Change
    <2> QED BY <1>9, <2>1 DEF ResetPolicies
<1>10. CASE ReloadPolicies
    <2>1. [kind |-> "reload"] \in Change
        BY DEF Change
    <2> QED BY <1>10, <2>1 DEF ReloadPolicies
<1> QED
    BY <1>1, <1>2, <1>3, <1>4, <1>5, <1>6, <1>7, <1>8, <1>9, <1>10 DEF Request

(* Turning the sit, the move or the network of a controller leaves one.     *)
LEMMA TurnedIsController ==
    ASSUME NEW c \in Controller,
           NEW sit \in {"up", "sitting", "rising"}, NEW move \in BOOLEAN,
           NEW net \in {None, "walk", "stand", "sitstand", "move"}
    PROVE  /\ [c EXCEPT !.sit = sit] \in Controller
           /\ [c EXCEPT !.sit = sit, !.move = move] \in Controller
           /\ [c EXCEPT !.move = move, !.sit = sit, !.net = net] \in Controller
BY DEF Controller

(* What powers the robot up, or fails to, keeps types.                      *)
LEMMA PowerUpType ==
    ASSUME TypeOK, PowerUp
    PROVE  /\ RobotOK' /\ bringup' \in {"limp", "homing", "ready"} /\ seatedBoot' \in BOOLEAN
           /\ controller' \in Controller \cup {None}
<1> USE DEF TypeOK, RobotOK, LoopOK, NetworksOK
<1>1. CASE SetTorque("on") /\ ComeUp
    <2>1. controller' \in Controller \cup {None}
        BY <1>1, TurnedIsController DEF ComeUp, HasSitStand
    <2> QED BY <1>1, <2>1 DEF SetTorque, ComeUp
<1>2. CASE TorqueFails("on") /\ StayDown
    BY <1>2 DEF TorqueFails, StayDown
<1> QED BY <1>1, <1>2 DEF PowerUp

(* So does the cut before the power goes.                                   *)
LEMMA CutTorqueType == ASSUME TypeOK, CutTorque PROVE RobotOK'
BY DEF CutTorque, CutTries, TypeOK, RobotOK

(* What a skill and the controller's own step make of it is a controller.   *)
LEMMA SkilledIsController ==
    ASSUME TypeOK, controller # None
    PROVE  [controller EXCEPT
                !.sit  = IF "sitToggle" \in skills THEN Toggled ELSE @,
                !.move = @ \/ "move" \in skills] \in Controller
<1>1. controller \in Controller
    BY DEF TypeOK, NetworksOK
<1>2. Toggled \in {"up", "sitting", "rising"}
    BY <1>1 DEF Toggled, Controller
<1> QED BY <1>1, <1>2 DEF Controller

\* What a policy step leaves of it is one.
LEMMA SteppedIsController ==
    ASSUME TypeOK, controller # None, StepController PROVE controller' \in Controller
<1>1. PICK move \in BOOLEAN, sit \in {controller.sit, "up"},
           net \in {"walk", "stand", "sitstand", "move"} :
        controller' = [controller EXCEPT !.move = move, !.sit = sit, !.net = net]
    BY DEF StepController
<1>2. controller \in Controller
    BY DEF TypeOK, NetworksOK
<1>3. sit \in {"up", "sitting", "rising"}
    BY <1>2 DEF Controller
<1> QED BY <1>1, <1>2, <1>3, TurnedIsController

(* Each step of a tick keeps types.                                         *)
LEMMA TickType == TypeOK /\ Tick => TypeOK'
<1> SUFFICES ASSUME TypeOK, Tick PROVE TypeOK'
    OBVIOUS
<1> USE DEF TypeOK
<1>1. CASE Read
    <2>1. IntentsOK'
        BY <1>1 DEF Read, IntentsOK
    <2>2. StatusOK'
        BY <1>1 DEF Read, StatusOK
    <2>3. NetworksOK'
        BY <1>1 DEF Read, NetworksOK
    <2>4. LoopOK'
        <3>1. sample' \in {"none", "warming", "good"}
            BY <1>1 DEF Read
        <3>2. snapshot' \in BOOLEAN
            BY <1>1 DEF Read, IntentsOK
        <3> QED BY <1>1, <3>1, <3>2 DEF Read, LoopOK, Steps
    <2>5. RobotOK'
        BY <1>1 DEF Read, RobotOK
    <2> QED BY <2>1, <2>2, <2>3, <2>4, <2>5
<1>2. CASE TakePower
    <2>1. IntentsOK'
        BY <1>2 DEF TakePower, IntentsOK
    <2>2. StatusOK'
        BY <1>2 DEF TakePower, StatusOK
    <2>3. CASE power = "init" /\ ~poweredOff /\ sample # "none" /\ bringup = "limp"
        <3>1. PowerUp /\ UNCHANGED wasDriving
            BY <1>2, <2>3 DEF TakePower
        <3>2. NetworksOK' /\ LoopOK' /\ RobotOK'
            BY <1>2, <3>1, PowerUpType DEF TakePower, NetworksOK, LoopOK, Steps
        <3> QED BY <2>1, <2>2, <3>2
    <2>4. CASE ~(power = "init" /\ ~poweredOff /\ sample # "none" /\ bringup = "limp")
        <3>1. NetworksOK'
            BY <1>2, <2>4 DEF TakePower, NetworksOK, StayDown
        <3>2. LoopOK'
            <4>1. UNCHANGED <<sample, snapshot, modeChange, shutdownSit, poweredOff, limpFall>>
                  /\ pc' \in Steps
                BY <1>2 DEF TakePower, Steps
            <4>2. bringup' \in {"limp", "homing", bringup} /\ seatedBoot' = seatedBoot
                BY <1>2, <2>4 DEF TakePower, GoLimp, StayDown
            <4>3. wasDriving' = wasDriving \/ wasDriving' = FALSE
                BY <1>2, <2>4, Zenon DEF TakePower, GoLimp, StayDown
            <4>4. bringup' \in {"limp", "homing", "ready"}
                BY <4>2 DEF LoopOK
            <4>5. wasDriving' \in BOOLEAN
                BY <4>3 DEF LoopOK
            <4> QED BY <4>1, <4>2, <4>4, <4>5, Zenon DEF LoopOK
        <3>3. RobotOK'
            BY <1>2, <2>4 DEF TakePower, RobotOK, SetTorque, TorqueFails
        <3> QED BY <2>1, <2>2, <3>1, <3>2, <3>3
    <2> QED BY <2>3, <2>4
<1>3. CASE TakeReboot
    <2>1. IntentsOK'
        BY <1>3 DEF TakeReboot, IntentsOK
    <2>2. StatusOK'
        BY <1>3 DEF TakeReboot, StatusOK
    <2>3. NetworksOK'
        BY <1>3 DEF TakeReboot, NetworksOK
    <2>4. LoopOK'
        BY <1>3 DEF TakeReboot, LoopOK, Steps, GoLimp
    <2>5. RobotOK'
        BY <1>3 DEF TakeReboot, RobotOK, SetTorque, TorqueFails
    <2> QED BY <2>1, <2>2, <2>3, <2>4, <2>5
<1>4. CASE TakeSkills
    <2>1. controller' \in Controller \cup {None}
        BY <1>4, SkilledIsController DEF TakeSkills, NetworksOK
    <2>2. IntentsOK'
        BY <1>4 DEF TakeSkills, IntentsOK
    <2>3. StatusOK'
        BY <1>4 DEF TakeSkills, StatusOK
    <2>4. NetworksOK'
        BY <1>4, <2>1 DEF TakeSkills, NetworksOK
    <2>5. LoopOK'
        BY <1>4 DEF TakeSkills, LoopOK, Steps
    <2>6. RobotOK'
        BY <1>4 DEF TakeSkills, RobotOK
    <2> QED BY <2>2, <2>3, <2>4, <2>5, <2>6
<1>5. CASE TakeMode
    <2>1. IntentsOK'
        BY <1>5 DEF TakeMode, IntentsOK
    <2>2. StatusOK'
        BY <1>5 DEF TakeMode, StatusOK
    <2>3. NetworksOK'
        BY <1>5 DEF TakeMode, NetworksOK
    <2>4. LoopOK'
        <3>1. modeChange' \in Mode \cup {None}
            BY <1>5 DEF TakeMode, LoopOK, IntentsOK
        <3>2. bringup' \in {"limp", "homing", "ready"}
            BY <1>5 DEF TakeMode, LoopOK
        <3> QED BY <1>5, <3>1, <3>2 DEF TakeMode, LoopOK, Steps
    <2>5. RobotOK'
        BY <1>5 DEF TakeMode, RobotOK
    <2> QED BY <2>1, <2>2, <2>3, <2>4, <2>5
<1>6. CASE PollChange
    <2>1. swap' \in PendingSwap \cup {None}
        BY <1>6 DEF PollChange, Poll, NetworksOK, PendingSwap
    <2>2. IntentsOK'
        BY <1>6 DEF PollChange, ChangeStep, IntentsOK
    <2>3. StatusOK'
        BY <1>6 DEF PollChange, ChangeStep, StatusOK
    <2>4. NetworksOK'
        BY <1>6, <2>1 DEF PollChange, ChangeStep, NetworksOK
    <2>5. LoopOK'
        BY <1>6 DEF PollChange, ChangeStep, LoopOK, Steps
    <2>6. RobotOK'
        BY <1>6 DEF PollChange, ChangeStep, RobotOK
    <2> QED BY <2>2, <2>3, <2>4, <2>5, <2>6
<1>7. CASE BeginChange
    <2>1. PICK lost \in Losses(policyChange) :
            /\ slotErrors' = slotErrors \cup lost
            /\ swap' \in Poll([change |-> policyChange, config |-> Candidate(policyChange, lost),
                               disturbs |-> Disturbs(policyChange), built |-> "loading"])
        BY <1>7 DEF BeginChange
    <2>2. lost \subseteq Slot
        BY <2>1 DEF Losses
    <2>3. policyChange \in Change
        BY <1>7 DEF BeginChange, IntentsOK
    <2>4. Candidate(policyChange, lost) \in Config
        BY <2>3, CandidateIsConfig DEF NetworksOK, IntentsOK
    <2>5. Disturbs(policyChange) \in BOOLEAN
        BY DEF Disturbs, LoopOK
    <2>6. [change |-> policyChange, config |-> Candidate(policyChange, lost),
           disturbs |-> Disturbs(policyChange), built |-> "loading"] \in PendingSwap
        BY <2>3, <2>4, <2>5 DEF PendingSwap
    <2>7. swap' \in PendingSwap
        <3> DEFINE pending == [change |-> policyChange, config |-> Candidate(policyChange, lost),
                               disturbs |-> Disturbs(policyChange), built |-> "loading"]
        <3>1. pending \in PendingSwap /\ swap' \in Poll(pending)
            BY <2>1, <2>6
        <3> HIDE DEF pending
        <3> QED BY <3>1 DEF Poll, PendingSwap
    <2>8. IntentsOK'
        BY <1>7 DEF BeginChange, ChangeStep, IntentsOK
    <2>9. StatusOK'
        BY <1>7 DEF BeginChange, ChangeStep, StatusOK
    <2>10. NetworksOK'
        BY <1>7, <2>1, <2>2, <2>7 DEF BeginChange, ChangeStep, NetworksOK
    <2>11. LoopOK'
        BY <1>7 DEF BeginChange, ChangeStep, LoopOK, Steps
    <2>12. RobotOK'
        BY <1>7 DEF BeginChange, ChangeStep, RobotOK
    <2> QED BY <2>8, <2>9, <2>10, <2>11, <2>12
<1>8. CASE NoShutdown
    <2>1. IntentsOK'
        BY <1>8 DEF NoShutdown, ShutdownStep, IntentsOK
    <2>2. StatusOK'
        BY <1>8 DEF NoShutdown, ShutdownStep, StatusOK
    <2>3. NetworksOK'
        BY <1>8 DEF NoShutdown, ShutdownStep, NetworksOK
    <2>4. LoopOK'
        BY <1>8 DEF NoShutdown, ShutdownStep, LoopOK, Steps
    <2>5. RobotOK'
        BY <1>8 DEF NoShutdown, ShutdownStep, RobotOK
    <2> QED BY <2>1, <2>2, <2>3, <2>4, <2>5
<1>9. CASE SitDown
    <2>1. controller' \in Controller
        BY <1>9, TurnedIsController DEF SitDown, HasSitStand, NetworksOK
    <2>2. IntentsOK'
        BY <1>9 DEF SitDown, ShutdownStep, IntentsOK
    <2>3. StatusOK'
        BY <1>9 DEF SitDown, ShutdownStep, StatusOK
    <2>4. NetworksOK'
        BY <1>9, <2>1 DEF SitDown, ShutdownStep, NetworksOK
    <2>5. LoopOK'
        BY <1>9 DEF SitDown, ShutdownStep, LoopOK, Steps
    <2>6. RobotOK'
        BY <1>9 DEF SitDown, ShutdownStep, RobotOK
    <2> QED BY <2>2, <2>3, <2>4, <2>5, <2>6
<1>10. CASE PowerOffAtOnce
    <2>1. IntentsOK'
        BY <1>10 DEF PowerOffAtOnce, ShutdownStep, PowerOff, IntentsOK
    <2>2. StatusOK'
        BY <1>10 DEF PowerOffAtOnce, ShutdownStep, PowerOff, StatusOK
    <2>3. NetworksOK'
        BY <1>10 DEF PowerOffAtOnce, ShutdownStep, PowerOff, NetworksOK
    <2>4. LoopOK'
        BY <1>10 DEF PowerOffAtOnce, ShutdownStep, PowerOff, LoopOK, Steps
    <2>5. RobotOK'
        BY <1>10, CutTorqueType DEF PowerOffAtOnce, ShutdownStep, PowerOff, RobotOK
    <2> QED BY <2>1, <2>2, <2>3, <2>4, <2>5
<1>11. CASE SitComplete
    <2>1. IntentsOK'
        BY <1>11 DEF SitComplete, ShutdownStep, PowerOff, IntentsOK
    <2>2. StatusOK'
        BY <1>11 DEF SitComplete, ShutdownStep, PowerOff, StatusOK
    <2>3. NetworksOK'
        BY <1>11 DEF SitComplete, ShutdownStep, PowerOff, NetworksOK
    <2>4. LoopOK'
        BY <1>11 DEF SitComplete, ShutdownStep, PowerOff, LoopOK, Steps
    <2>5. RobotOK'
        BY <1>11, CutTorqueType DEF SitComplete, ShutdownStep, PowerOff, RobotOK
    <2> QED BY <2>1, <2>2, <2>3, <2>4, <2>5
<1>12. CASE LimpFall
    <2>1. IntentsOK'
        BY <1>12 DEF LimpFall, IntentsOK
    <2>2. StatusOK'
        BY <1>12 DEF LimpFall, StatusOK
    <2>3. NetworksOK'
        BY <1>12 DEF LimpFall, NetworksOK
    <2>4. LoopOK'
        BY <1>12 DEF LimpFall, LoopOK, Steps, LimpFallPhase
    <2>5. RobotOK'
        BY <1>12 DEF LimpFall, RobotOK
    <2> QED BY <2>1, <2>2, <2>3, <2>4, <2>5
<1>13. CASE BringUp
    <2>1. CASE PowerUp
        BY <1>13, <2>1, PowerUpType
        DEF BringUp, IntentsOK, StatusOK, NetworksOK, LoopOK, Steps
    <2>2. CASE StayDown /\ UNCHANGED <<torque, faults>>
        BY <1>13, <2>2
        DEF BringUp, StayDown, IntentsOK, StatusOK, NetworksOK, LoopOK, RobotOK, Steps
    <2> QED BY <1>13, <2>1, <2>2 DEF BringUp
<1>14. CASE NotHome
    <2>1. IntentsOK'
        BY <1>14 DEF NotHome, HomeStep, IntentsOK
    <2>2. StatusOK'
        BY <1>14 DEF NotHome, HomeStep, StatusOK
    <2>3. NetworksOK'
        BY <1>14 DEF NotHome, HomeStep, NetworksOK
    <2>4. LoopOK'
        BY <1>14 DEF NotHome, HomeStep, LoopOK, Steps
    <2>5. RobotOK'
        BY <1>14 DEF NotHome, HomeStep, RobotOK
    <2> QED BY <2>1, <2>2, <2>3, <2>4, <2>5
<1>15. CASE ArriveHome
    <2>1. IntentsOK'
        BY <1>15 DEF ArriveHome, HomeStep, IntentsOK
    <2>2. StatusOK'
        BY <1>15 DEF ArriveHome, HomeStep, StatusOK
    <2>3. NetworksOK'
        BY <1>15 DEF ArriveHome, HomeStep, NetworksOK
    <2>4. LoopOK'
        BY <1>15 DEF ArriveHome, HomeStep, LoopOK, Steps
    <2>5. RobotOK'
        BY <1>15 DEF ArriveHome, HomeStep, RobotOK
    <2> QED BY <2>1, <2>2, <2>3, <2>4, <2>5
<1>16. CASE SwitchMode
    <2>1. running' \in Config
        BY <1>16 DEF SwitchMode, Config, NetworksOK, LoopOK
    <2>2. controller' \in Controller \cup {None}
        BY <1>16, <2>1, FreshIsController DEF SwitchMode
    <2>3. IntentsOK'
        BY <1>16 DEF SwitchMode, HomeStep, IntentsOK
    <2>4. StatusOK'
        BY <1>16, <2>1 DEF SwitchMode, HomeStep, StatusOK, NetworksOK
    <2>5. NetworksOK'
        BY <1>16, <2>1, <2>2 DEF SwitchMode, HomeStep, NetworksOK
    <2>6. LoopOK'
        BY <1>16 DEF SwitchMode, HomeStep, LoopOK, Steps
    <2>7. RobotOK'
        BY <1>16 DEF SwitchMode, HomeStep, RobotOK
    <2> QED BY <2>3, <2>4, <2>5, <2>6, <2>7
<1>17. CASE NoSwap
    <2>1. IntentsOK'
        BY <1>17 DEF NoSwap, SwapStep, IntentsOK
    <2>2. StatusOK'
        BY <1>17 DEF NoSwap, SwapStep, StatusOK
    <2>3. NetworksOK'
        BY <1>17 DEF NoSwap, SwapStep, NetworksOK
    <2>4. LoopOK'
        BY <1>17 DEF NoSwap, SwapStep, LoopOK, Steps
    <2>5. RobotOK'
        BY <1>17 DEF NoSwap, SwapStep, RobotOK
    <2> QED BY <2>1, <2>2, <2>3, <2>4, <2>5
<1>18. CASE Swap
    <2>1. swap \in PendingSwap
        BY <1>18 DEF Swap, SwapReady, NetworksOK
    <2>2. swap.config \in Config /\ published' \in Config
        BY <1>18, <2>1 DEF Swap, PendingSwap, Config, StatusOK
    <2>3. controller' \in Controller
        BY <1>18, <2>2, FreshIsController, CarriedIsController DEF Swap, NetworksOK
    <2>4. IntentsOK'
        BY <1>18 DEF Swap, SwapStep, IntentsOK
    <2>5. StatusOK'
        BY <1>18, <2>2 DEF Swap, SwapStep, StatusOK, ErrorsLeft, NetworksOK
    <2>6. NetworksOK'
        BY <1>18, <2>2, <2>3 DEF Swap, SwapStep, NetworksOK
    <2>7. LoopOK'
        BY <1>18 DEF Swap, SwapStep, LoopOK, Steps
    <2>8. RobotOK'
        BY <1>18 DEF Swap, SwapStep, RobotOK
    <2> QED BY <2>4, <2>5, <2>6, <2>7, <2>8
<1>19. CASE SwapFails
    <2>1. swap \in PendingSwap
        BY <1>19 DEF SwapFails, SwapReady, NetworksOK
    <2>2. swap.change.kind = "slot" => swap.change.slot \in Slot
        BY <2>1 DEF PendingSwap, Change, Slot
    <2>3. IntentsOK'
        BY <1>19 DEF SwapFails, SwapStep, IntentsOK
    <2>4. StatusOK'
        BY <1>19, <2>2 DEF SwapFails, SwapStep, StatusOK, NetworksOK
    <2>5. NetworksOK'
        BY <1>19, <2>2 DEF SwapFails, SwapStep, NetworksOK
    <2>6. LoopOK'
        BY <1>19 DEF SwapFails, SwapStep, LoopOK, Steps
    <2>7. RobotOK'
        BY <1>19 DEF SwapFails, SwapStep, RobotOK
    <2> QED BY <2>3, <2>4, <2>5, <2>6, <2>7
<1>20. CASE Drive
    <2>1. Driving \in BOOLEAN
        BY DEF Driving, LoopOK
    <2>2. controller' \in Controller \cup {None}
        BY <1>20, SteppedIsController DEF Drive, Driving, NetworksOK
    <2>3. IntentsOK'
        BY <1>20 DEF Drive, IntentsOK
    <2>4. StatusOK'
        BY <1>20 DEF Drive, StatusOK
    <2>5. NetworksOK'
        BY <1>20, <2>2 DEF Drive, NetworksOK
    <2>6. LoopOK'
        BY <1>20, <2>1 DEF Drive, LoopOK, Steps
    <2>7. RobotOK'
        BY <1>20 DEF Drive, RobotOK
    <2> QED BY <2>3, <2>4, <2>5, <2>6, <2>7
<1> QED
    BY <1>1, <1>2, <1>3, <1>4, <1>5, <1>6, <1>7, <1>8, <1>9, <1>10, <1>11, <1>12, <1>13,
       <1>14, <1>15, <1>16, <1>17, <1>18, <1>19, <1>20
    DEF Tick

(* Every step of the program keeps types.                                   *)
LEMMA StepType == TypeOK /\ [Next]_vars => TypeOK'
<1>1. ASSUME TypeOK, UNCHANGED vars PROVE TypeOK'
    BY <1>1 DEF TypeOK, IntentsOK, StatusOK, NetworksOK, LoopOK, RobotOK
<1> QED BY <1>1, RequestType, TickType DEF Next

-----------------------------------------------------------------------------
(* Health. *)

(* A step replaces the controller and the policy error together: only a     *)
(* mode switch and a swap change either.                                    *)
LEMMA ErrorStep ==
    ASSUME TypeOK, TypeOK', ErrorFollowsController, Next
    PROVE  ErrorFollowsController'
<1> USE DEF TypeOK, NetworksOK, StatusOK, ErrorFollowsController
<1>1. CASE Request
    <2>1. PICK kind : Client(kind)
        BY <1>1, ZenonT(20)
        DEF Request, Enable, RequestInit, RequestRelax, RequestRebootMotors, RequestSkill,
            RequestShutdown, RequestMode, LoadPolicy, ResetPolicies, ReloadPolicies
    <2> QED BY <2>1 DEF Client
<1>2. CASE SwitchMode
    <2>1. running' \in Config /\ "policy" \notin slotErrors
        BY DEF Slot
    <2>2. Fresh(running') # None
        BY <2>1, FreshIsController
    <2> QED BY <1>2, <2>1, <2>2 DEF SwitchMode
<1>3. CASE Swap
    <2>1. swap \in PendingSwap
        BY <1>3 DEF Swap, SwapReady
    <2>2. swap.config \in Config
        BY <2>1 DEF PendingSwap
    <2>3. controller' \in Controller
        BY <1>3, <2>2, FreshIsController, CarriedIsController DEF Swap
    <2>4. "policy" \notin errors'
        BY <1>3 DEF Swap, ErrorsLeft, Slot
    <2> QED BY <2>3, <2>4
<1>4. CASE SwapFails
    <2>1. "policy" \in errors' <=> "policy" \in errors
        BY <1>4 DEF SwapFails, Slot
    <2> QED BY <1>4, <2>1 DEF SwapFails
<1>5. ASSUME UNCHANGED errors,
             controller # None => controller' \in Controller,
             controller = None => controller' = None
      PROVE  ErrorFollowsController'
    BY <1>5
<1>6. CASE Read \/ TakeReboot \/ TakeMode \/ PollChange \/ BeginChange \/ NoShutdown
           \/ PowerOffAtOnce \/ SitComplete \/ LimpFall \/ NotHome \/ ArriveHome \/ NoSwap
    BY <1>6
    DEF Read, TakeReboot, TakeMode, PollChange, BeginChange, ChangeStep, NoShutdown,
        ShutdownStep, PowerOffAtOnce, SitComplete, LimpFall, NotHome, ArriveHome,
        HomeStep, NoSwap, SwapStep
<1>7. CASE TakePower \/ BringUp
    <2>1. UNCHANGED errors
        BY <1>7 DEF TakePower, BringUp
    <2>2. UNCHANGED controller \/ ComeUp
        BY <1>7 DEF TakePower, BringUp, PowerUp, StayDown
    <2>3. CASE ComeUp
        BY <1>5, <2>1, <2>3, TurnedIsController DEF ComeUp, HasSitStand
    <2> QED BY <2>1, <2>2, <2>3
<1>8. CASE TakeSkills
    BY <1>5, <1>8, SkilledIsController DEF TakeSkills
<1>9. CASE SitDown
    BY <1>5, <1>9, TurnedIsController DEF SitDown, ShutdownStep, HasSitStand
<1>10. CASE Drive
    BY <1>5, <1>10, SteppedIsController DEF Drive, Driving
<1> QED
    BY <1>1, <1>2, <1>3, <1>4, <1>6, <1>7, <1>8, <1>9, <1>10 DEF Next, Tick

-----------------------------------------------------------------------------
(* Power. *)

(* A request does nothing to the servos.                                    *)
LEMMA RequestLeavesRobot ==
    ASSUME Request
    PROVE  UNCHANGED <<pc, snapshot, bringup, modeChange, wasDriving, poweredOff, torque, faults>>
BY ZenonT(20)
DEF Request, Enable, RequestInit, RequestRelax, RequestRebootMotors, RequestSkill,
    RequestShutdown, RequestMode, LoadPolicy, ResetPolicies, ReloadPolicies, Client

(* Once the power-off has begun, a transaction can only cut torque.         *)
LEMMA PowerOffStep ==
    ASSUME TypeOK, PowerOffIsTorqueless, Next
    PROVE  PowerOffIsTorqueless'
<1> USE DEF TypeOK, RobotOK, LoopOK, PowerOffIsTorqueless, CutTries
<1>1. CASE Request
    BY <1>1, RequestLeavesRobot
<1>2. CASE TakePower
    <2>1. CASE PowerUp
        BY <1>2, <2>1 DEF TakePower, SetTorque, TorqueFails
    <2>2. CASE ~PowerUp
        BY <1>2, <2>2 DEF TakePower, SetTorque, TorqueFails, StayDown
    <2> QED BY <2>1, <2>2
<1>3. CASE TakeReboot
    BY <1>3 DEF TakeReboot, SetTorque, TorqueFails
<1>4. CASE PowerOffAtOnce
    BY <1>4 DEF PowerOffAtOnce, ShutdownStep, PowerOff, CutTorque
<1>5. CASE SitComplete
    BY <1>5 DEF SitComplete, ShutdownStep, PowerOff, CutTorque
<1>6. CASE BringUp
    BY <1>6 DEF BringUp, StayDown
<1>7. CASE Read \/ TakeSkills \/ TakeMode \/ PollChange \/ BeginChange \/ NoShutdown \/ SitDown
           \/ LimpFall \/ NotHome \/ ArriveHome \/ SwitchMode \/ NoSwap \/ Swap \/ SwapFails \/ Drive
    BY <1>7
    DEF Read, TakeSkills, TakeMode, PollChange, BeginChange, ChangeStep, NoShutdown, SitDown,
        ShutdownStep, LimpFall, NotHome, ArriveHome, SwitchMode, HomeStep, NoSwap, Swap,
        SwapFails, SwapStep, Drive
<1> QED BY <1>1, <1>2, <1>3, <1>4, <1>5, <1>6, <1>7 DEF Next, Tick

(* Faults are counted, never forgotten.                                     *)
LEMMA TorqueSteps ==
    ASSUME TypeOK
    PROVE  /\ \A goal : SetTorque(goal) => torque' = goal /\ faults' = faults
           /\ \A goal : TorqueFails(goal) => faults' > 0
           /\ CutTorque => torque' = "off" \/ faults' > 0
           /\ CutTorque /\ faults > 0 => faults' > 0
<1> USE DEF TypeOK, RobotOK
<1>1. \A goal : SetTorque(goal) => torque' = goal /\ faults' = faults
    BY DEF SetTorque
<1>2. \A goal : TorqueFails(goal) => faults' > 0
    BY DEF TorqueFails
<1>3. CutTorque => torque' = "off" \/ faults' > 0
    BY DEF CutTorque, CutTries
<1>4. CutTorque /\ faults > 0 => faults' > 0
    BY DEF CutTorque, CutTries
<1> QED BY <1>1, <1>2, <1>3, <1>4

(* If modes are switched on a robot that is up, a robot that the loop takes *)
(* for up has power, or some servo did not answer.                          *)
LEMMA UpStep ==
    ASSUME "modeWhileDown" \notin Habits, TypeOK, ModeFindsItUp, PoweredWhenUp, Next
    PROVE  ModeFindsItUp' /\ PoweredWhenUp'
<1> USE DEF ModeFindsItUp, PoweredWhenUp, ModeInFlight
<1>1. CASE Request
    <2>1. PoweredWhenUp'
        BY <1>1, RequestLeavesRobot
    <2>2. ModeFindsItUp'
        <3>1. CASE RequestMode
            BY <3>1 DEF RequestMode, Client
        <3>2. CASE RequestRelax \/ RequestRebootMotors
            BY <3>2 DEF RequestRelax, RequestRebootMotors, MayGoLimp, Client
        <3>3. CASE Enable \/ RequestInit \/ RequestSkill("sitToggle") \/ RequestSkill("move")
                   \/ RequestShutdown \/ LoadPolicy \/ ResetPolicies \/ ReloadPolicies
            <4>1. UNCHANGED <<modeSwitch, reboot>> /\ (UNCHANGED power \/ power' = "init")
                BY <3>3
                DEF Enable, RequestInit, RequestSkill, RequestShutdown, LoadPolicy,
                    ResetPolicies, ReloadPolicies
            <4> QED BY <1>1, <4>1, RequestLeavesRobot
        <3> QED BY <1>1, <3>1, <3>2, <3>3 DEF Request
    <2> QED BY <2>1, <2>2
<1>2. CASE TakePower
    <2>1. CASE power = "init" /\ ~poweredOff /\ sample # "none" /\ bringup = "limp"
        BY <1>2, <2>1, TorqueSteps DEF TakePower, PowerUp, ComeUp, StayDown
    <2>2. CASE power = "relax"
        BY <1>2, <2>2, TorqueSteps DEF TakePower, GoLimp
    <2>3. CASE power # "relax"
               /\ ~(power = "init" /\ ~poweredOff /\ sample # "none" /\ bringup = "limp")
        BY <1>2, <2>3 DEF TakePower, StayDown
    <2> QED BY <2>1, <2>2, <2>3
<1>3. CASE TakeReboot
    BY <1>3, TorqueSteps DEF TakeReboot, GoLimp
<1>4. CASE TakeMode
    BY <1>4 DEF TakeMode
<1>5. CASE BeginChange
    BY <1>5 DEF BeginChange, ChangeStep
<1>6. CASE PowerOffAtOnce \/ SitComplete
    BY <1>6 DEF PowerOffAtOnce, SitComplete, ShutdownStep, PowerOff
<1>7. CASE BringUp
    <2>1. CASE PowerUp
        BY <1>7, <2>1, TorqueSteps DEF BringUp, PowerUp, ComeUp, StayDown
    <2>2. CASE StayDown /\ UNCHANGED <<torque, faults>>
        BY <1>7, <2>2 DEF BringUp, StayDown
    <2> QED BY <1>7, <2>1, <2>2 DEF BringUp
<1>8. CASE ArriveHome \/ SwitchMode
    BY <1>8 DEF ArriveHome, SwitchMode, HomeStep, Arrived
<1>9. CASE Drive
    BY <1>9 DEF Drive, Driving
<1>10. CASE Read \/ TakeSkills \/ PollChange \/ NoShutdown \/ SitDown \/ LimpFall \/ NotHome
            \/ NoSwap \/ Swap \/ SwapFails
    BY <1>10
    DEF Read, TakeSkills, PollChange, ChangeStep, NoShutdown, SitDown, ShutdownStep,
        LimpFall, NotHome, HomeStep, NoSwap, Swap, SwapFails, SwapStep
<1> QED
    BY <1>1, <1>2, <1>3, <1>4, <1>5, <1>6, <1>7, <1>8, <1>9, <1>10 DEF Next, Tick

(* If requests land between ticks, neither the flag, nor the tick's copy of *)
(* it, nor an older init brings a relaxed robot back up.                    *)
LEMMA RelaxStep ==
    ASSUME "midTick" \notin Habits, TypeOK, RelaxedStaysDown, Next
    PROVE  RelaxedStaysDown'
<1> USE DEF RelaxedStaysDown, TypeOK, IntentsOK, RobotOK, LoopOK
<1>1. CASE Request
    <2>1. PICK kind : Client(kind)
        BY <1>1, ZenonT(20)
        DEF Request, Enable, RequestInit, RequestRelax, RequestRebootMotors, RequestSkill,
            RequestShutdown, RequestMode, LoadPolicy, ResetPolicies, ReloadPolicies
    <2>2. pc = "read" /\ UNCHANGED <<pc, torque, faults>>
        BY <2>1 DEF Client
    <2>3. CASE Enable
        BY <2>2, <2>3 DEF Enable
    <2>4. CASE RequestInit \/ RequestRelax \/ RequestRebootMotors
        BY <2>2, <2>4 DEF RequestInit, RequestRelax, RequestRebootMotors
    <2>5. CASE RequestSkill("sitToggle") \/ RequestSkill("move") \/ RequestShutdown
               \/ RequestMode \/ LoadPolicy \/ ResetPolicies \/ ReloadPolicies
        <3>1. UNCHANGED <<enabled, power, reboot, relaxed>>
            BY <2>5
            DEF RequestSkill, RequestShutdown, RequestMode, LoadPolicy, ResetPolicies,
                ReloadPolicies
        <3> QED BY <2>2, <3>1
    <2> QED BY <1>1, <2>3, <2>4, <2>5 DEF Request
<1>2. CASE Read
    BY <1>2 DEF Read
<1>3. CASE TakePower
    <2>1. UNCHANGED <<relaxed, enabled, snapshot, reboot>> /\ power' = "none" /\ pc' = "reboot"
        BY <1>3 DEF TakePower
    <2>2. CASE power = "relax"
        <3>1. torque' = "off" \/ faults' > 0
            BY <1>3, <2>2, TorqueSteps DEF TakePower
        <3> QED BY <1>3, <2>1, <3>1 DEF TakePower
    <2>3. CASE power = "init"
        BY <1>3, <2>1, <2>3 DEF TakePower
    <2>4. CASE power = "none"
        BY <1>3, <2>1, <2>4 DEF TakePower
    <2> QED BY <2>2, <2>3, <2>4
<1>4. CASE TakeReboot
    BY <1>4, TorqueSteps DEF TakeReboot
<1>5. CASE PowerOffAtOnce \/ SitComplete
    BY <1>5, TorqueSteps DEF PowerOffAtOnce, SitComplete, ShutdownStep, PowerOff
<1>6. CASE BringUp
    BY <1>6 DEF BringUp, StayDown
<1>7. CASE Drive
    BY <1>7 DEF Drive
<1>8. CASE TakeSkills \/ TakeMode \/ PollChange \/ BeginChange \/ NoShutdown \/ SitDown
           \/ LimpFall \/ NotHome \/ ArriveHome \/ SwitchMode \/ NoSwap \/ Swap \/ SwapFails
    BY <1>8
    DEF TakeSkills, TakeMode, PollChange, BeginChange, ChangeStep, NoShutdown, SitDown,
        ShutdownStep, LimpFall, NotHome, ArriveHome, SwitchMode, HomeStep, NoSwap, Swap,
        SwapFails, SwapStep
<1> QED BY <1>1, <1>2, <1>3, <1>4, <1>5, <1>6, <1>7, <1>8 DEF Next, Tick

-----------------------------------------------------------------------------
(* Publication, the config file, and the seat.                             *)

Without(habits) == \A habit \in habits : habit \notin Habits

\* A mode switch and a policy change keep out of each other's way, so the mode that a
\* change was built for is the one that runs when it lands.
SaidOK == Without({"modeOverChange"}) =>
    /\ ~(ModeInFlight /\ ChangeInFlight)
    /\ published = running
    /\ controller # None => controller.config = running
    /\ swap # None => swap.config.mode = running.mode

\* The slots that a change in flight will answer for.
Underway == IF policyChange # None THEN Answered(policyChange)
            ELSE IF swap # None THEN Answered(swap.change) ELSE {}

\* One change at a time, of files that are there: it asks for what was written to the
\* file when it was taken, and every other slot runs what the file says.
FileOK == Without({"modeOverChange", "changeOverChange", "fileLost"}) =>
    /\ errors \cap Slot = slotErrors
    /\ "change" \in errors => ~ChangeInFlight
    /\ policyChange # None =>
          /\ swap = None
          /\ policyChange.kind = "slot"  => file[policyChange.slot] = policyChange.to
          /\ policyChange.kind = "reset" => file = Own
    /\ swap # None =>
          \A slot \in Slot :
             swap.config.slots[slot] = IF slot \in Answered(swap.change) THEN file[slot]
                                       ELSE running.slots[slot]
    /\ "change" \notin errors =>
          \A slot \in Slot \ (errors \cup Underway) : file[slot] = running.slots[slot]

\* A robot switched on standing, whose bus answers and that is not told to change
\* anything on its way down: the swap that would stand it up waits until it is home.
Standing == ~SeatedBoot /\ Without({"changeAtShutdown", "blind"})
SeatOK == Standing =>
    /\ ~seatedBoot
    /\ pc # "read" => sample # "none"
    /\ ShuttingDown => ~ModeInFlight /\ ~ChangeInFlight
    /\ SitsToTheEnd
    /\ swap # None /\ swap.disturbs =>
          /\ bringup = "ready" => pc = "swap" /\ swap.built # "loading"
          /\ controller # None => ~(controller.net = "sitstand" /\ controller.sit = "sitting")

(* A request leaves the loop's state alone.                                 *)
LEMMA RequestLeavesLoop ==
    ASSUME Request
    PROVE  UNCHANGED <<published, errors, pc, sample, bringup, seatedBoot, running, swap,
                       slotErrors, controller, modeChange, wasDriving, shutdownSit, poweredOff>>
BY ZenonT(20)
DEF Request, Enable, RequestInit, RequestRelax, RequestRebootMotors, RequestSkill,
    RequestShutdown, RequestMode, LoadPolicy, ResetPolicies, ReloadPolicies, Client

(* A change of posture leaves the rest of a controller as it was.           *)
LEMMA SitOnly ==
    ASSUME NEW c \in Controller, NEW sit
    PROVE  /\ [c EXCEPT !.sit = sit].config = c.config
           /\ [c EXCEPT !.sit = sit].sit = sit
           /\ [c EXCEPT !.sit = sit].net = c.net
BY DEF Controller

\* What an update of some fields of a controller leaves of the others.
LEMMA PostureOnly ==
    ASSUME NEW c \in Controller, NEW sit, NEW move, NEW net
    PROVE  /\ [c EXCEPT !.sit = sit, !.move = move].config = c.config
           /\ [c EXCEPT !.sit = sit, !.move = move].sit = sit
           /\ [c EXCEPT !.sit = sit, !.move = move].net = c.net
           /\ [c EXCEPT !.move = move, !.sit = sit, !.net = net].config = c.config
           /\ [c EXCEPT !.move = move, !.sit = sit, !.net = net].sit = sit
           /\ [c EXCEPT !.move = move, !.sit = sit, !.net = net].net = net
BY DEF Controller

(* Powering up leaves the controller alone, or turns a seated robot's.      *)
LEMMA PowerUpRises ==
    ASSUME PowerUp
    PROVE  \/ UNCHANGED controller
           \/ seatedBoot /\ controller # None /\ controller' = [controller EXCEPT !.sit = "rising"]
BY DEF PowerUp, ComeUp, StayDown, HasSitStand

(* A step of the tick that turns, toggles or drives the controller keeps    *)
(* the networks that it was built from.                                     *)
LEMMA ConfigKept ==
    ASSUME TypeOK, TakePower \/ TakeSkills \/ BringUp \/ SitDown \/ Drive
    PROVE  /\ UNCHANGED <<published, running, swap, policyChange, modeSwitch, modeChange>>
           /\ controller' = None <=> controller = None
           /\ controller # None => controller'.config = controller.config
<1>0. controller \in Controller \cup {None}
    BY DEF TypeOK, NetworksOK
<1>1. CASE TakePower
    <2>1. \/ UNCHANGED controller
          \/ controller # None /\ controller' = [controller EXCEPT !.sit = "rising"]
        <3>1. PowerUp \/ UNCHANGED controller
            BY <1>1 DEF TakePower, StayDown
        <3> QED BY <3>1, PowerUpRises
    <2>2. controller # None =>
             /\ [controller EXCEPT !.sit = "rising"] \in Controller
             /\ [controller EXCEPT !.sit = "rising"].config = controller.config
        BY <1>0, SitOnly, TurnedIsController
    <2> QED BY <1>1, <2>1, <2>2 DEF TakePower
<1>2. CASE TakeSkills
    <2> DEFINE sit  == IF "sitToggle" \in skills THEN Toggled ELSE controller.sit
               move == controller.move \/ "move" \in skills
    <2>1. controller # None => [controller EXCEPT !.sit = sit, !.move = move] \in Controller
        BY SkilledIsController
    <2>2. controller # None =>
             [controller EXCEPT !.sit = sit, !.move = move].config = controller.config
        BY <1>0, PostureOnly
    <2>3. UNCHANGED controller \/ (controller # None
             /\ controller' = [controller EXCEPT !.sit = sit, !.move = move])
        BY <1>2 DEF TakeSkills
    <2> HIDE DEF sit, move
    <2> QED BY <1>2, <2>1, <2>2, <2>3 DEF TakeSkills
<1>3. CASE BringUp
    <2>1. \/ UNCHANGED controller
          \/ controller # None /\ controller' = [controller EXCEPT !.sit = "rising"]
        <3>1. PowerUp \/ UNCHANGED controller
            BY <1>3 DEF BringUp, StayDown
        <3> QED BY <3>1, PowerUpRises
    <2>2. controller # None =>
             /\ [controller EXCEPT !.sit = "rising"] \in Controller
             /\ [controller EXCEPT !.sit = "rising"].config = controller.config
        BY <1>0, SitOnly, TurnedIsController
    <2> QED BY <1>3, <2>1, <2>2 DEF BringUp
<1>4. CASE SitDown
    BY <1>0, <1>4, SitOnly, TurnedIsController DEF SitDown, ShutdownStep, HasSitStand
<1>5. CASE Drive
    <2>1. CASE Driving
        <3>1. controller # None /\ StepController
            BY <1>5, <2>1 DEF Drive, Driving
        <3>2. PICK move \in BOOLEAN, sit \in {controller.sit, "up"},
                   net \in {"walk", "stand", "sitstand", "move"} :
                controller' = [controller EXCEPT !.move = move, !.sit = sit, !.net = net]
            BY <3>1 DEF StepController
        <3>3. controller'.config = controller.config
            BY <1>0, <3>1, <3>2, PostureOnly
        <3>4. controller' # None
            BY <3>1, SteppedIsController
        <3> QED BY <1>5, <3>1, <3>3, <3>4 DEF Drive
    <2> QED BY <1>5, <2>1 DEF Drive
<1> QED BY <1>1, <1>2, <1>3, <1>4, <1>5

(* Where mode switches and changes do not overlap, the report follows every *)
(* network that takes the robot.                                            *)
LEMMA SaidStep == TypeOK /\ TypeOK' /\ SaidOK /\ Next => SaidOK'
<1> SUFFICES ASSUME TypeOK, TypeOK', SaidOK, Next, Without({"modeOverChange"})
             PROVE  SaidOK'
    BY DEF SaidOK
<1> USE DEF SaidOK, Without, ModeInFlight, ChangeInFlight
<1>1. CASE Request
    <2>1. /\ (modeSwitch' # None => modeSwitch # None \/ ~ChangeInFlight)
          /\ (policyChange' # None => policyChange # None \/ ~ModeInFlight)
          /\ (UNCHANGED modeSwitch \/ UNCHANGED policyChange)
        BY <1>1, ZenonT(30)
        DEF Request, Enable, RequestInit, RequestRelax, RequestRebootMotors, RequestSkill,
            RequestShutdown, RequestMode, LoadPolicy, ResetPolicies, ReloadPolicies,
            MayChangePolicy
    <2> QED BY <1>1, <2>1, RequestLeavesLoop
<1>2. CASE TakeMode
    BY <1>2 DEF TakeMode
<1>3. CASE PollChange
    BY <1>3 DEF PollChange, ChangeStep, Poll, TypeOK, NetworksOK, PendingSwap
<1>4. CASE BeginChange
    <2>1. PICK lost :
             swap' \in Poll([change |-> policyChange, config |-> Candidate(policyChange, lost),
                             disturbs |-> Disturbs(policyChange), built |-> "loading"])
        BY <1>4 DEF BeginChange
    <2>2. swap'.config = Candidate(policyChange, lost)
        <3> HIDE DEF Candidate, Disturbs
        <3> QED BY <2>1 DEF Poll
    <2>3. Candidate(policyChange, lost).mode = running.mode
        BY DEF Candidate, TypeOK, NetworksOK, Config
    <2> QED BY <1>4, <2>2, <2>3 DEF BeginChange, ChangeStep
<1>5. CASE SwitchMode
    BY <1>5 DEF SwitchMode, HomeStep, Fresh
<1>6. CASE Swap
    <2>1. swap # None /\ swap.config \in Config /\ published \in Config
        BY <1>6 DEF Swap, SwapReady, TypeOK, NetworksOK, StatusOK, PendingSwap
    <2>2. published' = running' /\ running' = swap.config
        BY <1>6, <2>1 DEF Swap, Config
    <2>3. controller'.config = swap.config
        BY <1>6, <2>1 DEF Swap, Fresh, CarryOver, TypeOK, NetworksOK, Controller
    <2> QED BY <1>6, <2>2, <2>3 DEF Swap, SwapStep
<1>7. CASE SwapFails
    BY <1>7 DEF SwapFails, SwapStep
<1>8. CASE TakePower \/ TakeSkills \/ BringUp \/ SitDown \/ Drive
    BY <1>8, ConfigKept
<1>9. CASE Read \/ TakeReboot \/ NoShutdown \/ PowerOffAtOnce \/ SitComplete \/ LimpFall
           \/ NotHome \/ ArriveHome \/ NoSwap
    BY <1>9
    DEF Read, TakeReboot, NoShutdown, ShutdownStep, PowerOffAtOnce, SitComplete, LimpFall,
        NotHome, ArriveHome, HomeStep, NoSwap, SwapStep
<1> QED
    BY <1>1, <1>2, <1>3, <1>4, <1>5, <1>6, <1>7, <1>8, <1>9 DEF Next, Tick

(* A request for a change is about the file that it has just written.       *)
LEMMA RequestFile ==
    ASSUME TypeOK, SaidOK, FileOK, Without({"modeOverChange", "changeOverChange", "fileLost"}),
           Request
    PROVE  FileOK'
<1> USE DEF Without
<1>0. /\ published = running /\ Own \in File
      /\ \A slot \in Slot : \A to : [file EXCEPT ![slot] = to][slot] = to
      /\ \A slot, other \in Slot : \A to :
            other # slot => [file EXCEPT ![slot] = to][other] = file[other]
    BY DEF SaidOK, TypeOK, IntentsOK, File, Own, Slot
<1>1. CASE LoadPolicy
    <2>1. ~ChangeInFlight /\ "change" \notin errors
        BY <1>1 DEF LoadPolicy, MayChangePolicy
    <2>2. PICK slot \in Slot, to \in {"own", "custom", "none"} :
             /\ [file EXCEPT ![slot] = to] \in File
             /\ file' = [file EXCEPT ![slot] = to]
             /\ policyChange' = IF Settled(slot, to) THEN policyChange
                                ELSE [kind |-> "slot", slot |-> slot, to |-> to]
        BY <1>1 DEF LoadPolicy
    <2>3. file'[slot] = to /\ \A other \in Slot : other # slot => file'[other] = file[other]
        BY <1>0, <2>2
    <2>4. CASE Settled(slot, to)
        BY <1>0, <1>1, <2>1, <2>2, <2>3, <2>4, RequestLeavesLoop
        DEF FileOK, Underway, ChangeInFlight, Settled, Request
    <2>5. CASE ~Settled(slot, to)
        <3>1. /\ policyChange' # None /\ policyChange'.kind = "slot"
              /\ policyChange'.slot = slot /\ policyChange'.to = to
            <4>1. [kind |-> "slot", slot |-> slot, to |-> to] \in Change
                BY <1>0, <2>2 DEF Change, File, Slot
            <4> QED BY <2>2, <2>5, <4>1
        <3> QED BY <1>0, <1>1, <2>1, <2>3, <3>1, RequestLeavesLoop
            DEF FileOK, Underway, ChangeInFlight, Answered, Request
    <2> QED BY <2>4, <2>5
<1>2. CASE ResetPolicies
    <2>1. ~ChangeInFlight /\ "change" \notin errors /\ file' = Own
        BY <1>2 DEF ResetPolicies, MayChangePolicy
    <2>2. CASE \A slot \in Slot : Settled(slot, "own")
        <3>1. UNCHANGED policyChange /\ \A slot \in Slot : file'[slot] = running.slots[slot]
            BY <1>0, <1>2, <2>1, <2>2 DEF ResetPolicies, Settled, Own
        <3> QED BY <1>2, <2>1, <3>1, RequestLeavesLoop DEF FileOK, Underway, ChangeInFlight, Request
    <2>3. CASE ~(\A slot \in Slot : Settled(slot, "own"))
        <3>1. policyChange' # None /\ policyChange'.kind = "reset"
            <4>1. [kind |-> "reset"] \in Change
                BY DEF Change
            <4> QED BY <1>2, <2>3, <4>1 DEF ResetPolicies
        <3> QED BY <1>2, <2>1, <3>1, RequestLeavesLoop
            DEF FileOK, Underway, ChangeInFlight, Answered, Request
    <2> QED BY <2>2, <2>3
<1>3. CASE ReloadPolicies
    BY <1>0, <1>3, RequestLeavesLoop
    DEF ReloadPolicies, MayChangePolicy, FileOK, Underway, ChangeInFlight, Answered, Request
<1>4. CASE Enable \/ RequestInit \/ RequestRelax \/ RequestRebootMotors
           \/ RequestSkill("sitToggle") \/ RequestSkill("move") \/ RequestShutdown \/ RequestMode
    <2>1. UNCHANGED <<file, policyChange>>
        BY <1>4
        DEF Enable, RequestInit, RequestRelax, RequestRebootMotors, RequestSkill,
            RequestShutdown, RequestMode
    <2> QED BY <2>1, RequestLeavesLoop DEF FileOK, Underway, ChangeInFlight
<1> QED BY <1>1, <1>2, <1>3, <1>4 DEF Request

(* What is taken, loaded and swapped in is what the file says.              *)
LEMMA FileStep == TypeOK /\ TypeOK' /\ SaidOK /\ FileOK /\ Next => FileOK'
<1> SUFFICES ASSUME TypeOK, TypeOK', SaidOK, FileOK, Next,
                    Without({"modeOverChange", "changeOverChange", "fileLost"})
             PROVE  FileOK'
    BY DEF FileOK
<1>0. ~(ModeInFlight /\ ChangeInFlight) /\ published = running
    BY DEF SaidOK, Without
<1> USE DEF FileOK, Underway, ChangeInFlight
<1>1. CASE Request
    BY <1>1, RequestFile
<1>2. CASE TakeMode
    BY <1>2 DEF TakeMode
<1>3. CASE PollChange
    <2>1. policyChange = None /\ policyChange' = None
        BY <1>0, <1>3 DEF PollChange, ChangeStep, ModeInFlight, ChangeInFlight, Without
    <2>2. (swap = None /\ swap' = None)
          \/ (swap # None /\ swap' # None /\ swap'.change = swap.change
              /\ swap'.config = swap.config)
        BY <1>3 DEF PollChange, Poll, TypeOK, NetworksOK, PendingSwap
    <2> QED BY <1>3, <2>1, <2>2 DEF PollChange, ChangeStep, Answered
<1>4. CASE BeginChange
    <2>1. Losses(policyChange) = {{}}
        BY DEF Losses, Without
    <2>2. slotErrors' = slotErrors /\ swap = None /\ policyChange # None /\ policyChange' = None
        BY <1>4, <2>1 DEF BeginChange, ChangeStep
    <2>3. swap' \in Poll([change |-> policyChange, config |-> Candidate(policyChange, {}),
                          disturbs |-> Disturbs(policyChange), built |-> "loading"])
        BY <1>4, <2>1 DEF BeginChange
    <2>4. swap'.config = Candidate(policyChange, {}) /\ swap'.change = policyChange
        <3> HIDE DEF Candidate, Disturbs
        <3> QED BY <2>3 DEF Poll
    <2>5. policyChange \in Change /\ running \in Config /\ file \in File
        BY <2>2 DEF TypeOK, IntentsOK, NetworksOK
    <2>6. \A slot \in Slot :
             Candidate(policyChange, {}).slots[slot] =
                IF slot \in Answered(policyChange) THEN file[slot] ELSE running.slots[slot]
        <3>1. CASE policyChange.kind = "slot"
            BY <2>2, <2>5, <3>1 DEF Candidate, Answered, Config, File
        <3>2. CASE policyChange.kind = "reset"
            BY <2>2, <2>5, <3>2 DEF Candidate, Answered, Config, File
        <3>3. CASE policyChange.kind = "reload"
            BY <2>2, <2>5, <3>3 DEF Candidate, Answered, Config, File
        <3> QED BY <2>5, <3>1, <3>2, <3>3 DEF Change
    <2>7. swap' # None => Underway' = Underway
        BY <2>2, <2>4
    <2>8. swap' # None
        <3> DEFINE pending == [change |-> policyChange, config |-> Candidate(policyChange, {}),
                               disturbs |-> Disturbs(policyChange), built |-> "loading"]
        <3>1. Candidate(policyChange, {}) \in Config
            BY <2>5, CandidateIsConfig
        <3>2. Disturbs(policyChange) \in BOOLEAN
            BY DEF Disturbs, TypeOK, LoopOK
        <3>3. pending \in PendingSwap /\ swap' \in Poll(pending)
            BY <2>3, <2>5, <3>1, <3>2 DEF PendingSwap
        <3> HIDE DEF pending
        <3>4. swap' \in PendingSwap
            BY <3>3 DEF Poll, PendingSwap
        <3> QED BY <3>4, ControlAssumption
    <2> QED BY <1>4, <2>2, <2>4, <2>6, <2>7, <2>8 DEF BeginChange, ChangeStep
<1>5. CASE SwitchMode
    <2>1. swap = None /\ policyChange = None
        BY <1>0, <1>5 DEF SwitchMode, ModeInFlight, ChangeInFlight
    <2>2. running'.slots = running.slots
        BY <1>5 DEF SwitchMode, TypeOK, NetworksOK, Config
    <2>3. errors' \cap Slot = slotErrors /\ ("change" \in errors' <=> "change" \in errors)
        BY <1>5 DEF SwitchMode, TypeOK, NetworksOK, StatusOK, Slot
    <2> QED BY <1>5, <2>1, <2>2, <2>3 DEF SwitchMode, HomeStep
<1>6. CASE Swap
    <2>1. swap # None /\ policyChange = None
        BY <1>6 DEF Swap, SwapReady
    <2>2. \A slot \in Slot : running'.slots[slot] = swap.config.slots[slot]
        BY <1>6 DEF Swap
    <2>3. errors' = slotErrors \ Answered(swap.change) /\ slotErrors' = errors'
        BY <1>6 DEF Swap, ErrorsLeft
    <2>4. errors' \cap Slot = slotErrors'
        BY <2>3 DEF TypeOK, NetworksOK
    <2>5. ASSUME NEW slot \in Slot \ errors' PROVE file[slot] = running'.slots[slot]
        BY <2>1, <2>2, <2>3, <2>5 DEF Answered, ChangeInFlight
    <2>6. swap' = None /\ policyChange' = None /\ UNCHANGED file
        BY <1>6, <2>1 DEF Swap, SwapStep
    <2>7. "change" \notin errors'
        BY <2>3 DEF TypeOK, NetworksOK, Slot
    <2> QED BY <2>1, <2>4, <2>5, <2>6, <2>7
<1>7. CASE SwapFails
    <2>1. swap # None /\ policyChange = None
        BY <1>7 DEF SwapFails, SwapReady
    <2>2. CASE swap.change.kind = "slot"
        BY <1>7, <2>1, <2>2 DEF SwapFails, SwapStep, Answered, TypeOK, NetworksOK, Slot
    <2>3. CASE swap.change.kind # "slot"
        BY <1>7, <2>1, <2>3 DEF SwapFails, SwapStep, Slot
    <2> QED BY <2>2, <2>3
<1>8. CASE TakePower \/ TakeSkills \/ BringUp \/ SitDown \/ Drive
    <2>1. UNCHANGED <<file, errors, slotErrors>>
        BY <1>8 DEF TakePower, TakeSkills, BringUp, SitDown, ShutdownStep, Drive
    <2> QED BY <1>8, <2>1, ConfigKept
<1>9. CASE Read \/ TakeReboot \/ NoShutdown \/ PowerOffAtOnce \/ SitComplete \/ LimpFall
           \/ NotHome \/ ArriveHome \/ NoSwap
    BY <1>9
    DEF Read, TakeReboot, NoShutdown, ShutdownStep, PowerOffAtOnce, SitComplete, LimpFall,
        NotHome, ArriveHome, HomeStep, NoSwap, SwapStep
<1> QED
    BY <1>1, <1>2, <1>3, <1>4, <1>5, <1>6, <1>7, <1>8, <1>9 DEF Next, Tick


(* Nothing is asked for on the way down, and what is asked for leaves the   *)
(* seat alone.                                                              *)
LEMMA SeatRequest ==
    ASSUME SeatOK, Standing, Request
    PROVE  SeatOK' /\ RisesWhenAsked
<1> USE DEF Standing, Without
<1>1. ShuttingDown' => ~ModeInFlight' /\ ~ChangeInFlight'
    <2>1. CASE RequestShutdown
        BY <2>1 DEF RequestShutdown, Client, ShuttingDown, ModeInFlight, ChangeInFlight
    <2>2. CASE RequestMode \/ LoadPolicy \/ ResetPolicies \/ ReloadPolicies
        BY <2>2
        DEF RequestMode, LoadPolicy, ResetPolicies, ReloadPolicies, MayChangePolicy, Client,
            ShuttingDown
    <2>3. CASE Enable \/ RequestInit \/ RequestRelax \/ RequestRebootMotors
               \/ RequestSkill("sitToggle") \/ RequestSkill("move")
        <3>1. UNCHANGED <<shutdown, modeSwitch, policyChange>>
            BY <2>3 DEF Enable, RequestInit, RequestRelax, RequestRebootMotors, RequestSkill
        <3> QED BY <3>1, RequestLeavesLoop
            DEF SeatOK, ShuttingDown, ModeInFlight, ChangeInFlight
    <2> QED BY <2>1, <2>2, <2>3 DEF Request
<1>2. UNCHANGED <<pc, sample, bringup, seatedBoot, swap, controller, shutdownSit, poweredOff>>
    BY RequestLeavesLoop
<1> QED BY <1>1, <1>2 DEF SeatOK, RisesWhenAsked, SitsToTheEnd

(* The swap of a network that has the robot finds it home, and standing; no *)
(* other step gets a seated robot up.                                       *)
LEMMA SeatStep == TypeOK /\ SeatOK /\ Standing /\ Next => SeatOK' /\ RisesWhenAsked
<1> SUFFICES ASSUME TypeOK, SeatOK, Standing, Next
             PROVE  SeatOK' /\ RisesWhenAsked
    OBVIOUS
<1>0. /\ ~seatedBoot /\ (pc # "read" => sample # "none")
      /\ ShuttingDown => ~ModeInFlight /\ ~ChangeInFlight
      /\ controller \in Controller \cup {None}
    BY DEF SeatOK, TypeOK, NetworksOK
<1>1. CASE Request
    BY <1>1, SeatRequest
<1>2. CASE TakePower \/ BringUp
    <2>1. UNCHANGED controller /\ UNCHANGED seatedBoot
        BY <1>0, <1>2 DEF TakePower, BringUp, PowerUp, ComeUp, StayDown
    <2>2. bringup' \in {"homing", "limp", bringup}
        BY <1>0, <1>2 DEF TakePower, BringUp, PowerUp, ComeUp, StayDown, GoLimp
    <2>3. /\ UNCHANGED <<shutdown, modeSwitch, policyChange, sample, networks, modeChange, ending>>
          /\ pc \notin {"read", "swap"}
        BY <1>2 DEF TakePower, BringUp, intents
    <2> QED BY <1>0, <2>1, <2>2, <2>3
        DEF SeatOK, RisesWhenAsked, SitsToTheEnd, ShuttingDown, ModeInFlight, ChangeInFlight,
            networks, ending
<1>3. CASE TakeSkills
    <2> DEFINE sit  == IF "sitToggle" \in skills THEN Toggled ELSE controller.sit
               move == controller.move \/ "move" \in skills
    <2>1. \/ UNCHANGED controller
          \/ /\ controller # None /\ bringup = "ready" /\ ~shutdownSit
             /\ controller' = [controller EXCEPT !.sit = sit, !.move = move]
        BY <1>3 DEF TakeSkills
    <2>2. controller # None /\ controller.sit = "sitting" => sit # "up"
        BY DEF Toggled
    <2> HIDE DEF sit, move
    <2>3. RisesWhenAsked
        <3>1. ASSUME controller # None, controller' = [controller EXCEPT !.sit = sit, !.move = move]
              PROVE  controller'.sit = sit
            BY <1>0, <3>1, PostureOnly
        <3> QED BY <2>1, <2>2, <3>1 DEF RisesWhenAsked
    <2>4. /\ UNCHANGED <<shutdown, modeSwitch, policyChange, sample, networks, modeChange, ending,
                         seatedBoot, bringup>>
          /\ pc = "skills" /\ pc' = "mode"
        BY <1>3 DEF TakeSkills
    <2>5. controller = None => UNCHANGED controller
        BY <2>1
    <2> QED BY <1>0, <2>1, <2>3, <2>4, <2>5
        DEF SeatOK, SitsToTheEnd, ShuttingDown, ModeInFlight, ChangeInFlight, networks, ending
<1>4. CASE BeginChange
    <2>1. /\ bringup' = IF Disturbs(policyChange) /\ bringup = "ready" /\ sample # "none"
                        THEN "homing" ELSE bringup
          /\ policyChange # None /\ policyChange' = None /\ pc = "change" /\ pc' = "shutdown"
          /\ UNCHANGED <<shutdown, modeSwitch, sample, modeChange, ending, seatedBoot, controller>>
        BY <1>4 DEF BeginChange, ChangeStep
    <2>2. swap'.disturbs = Disturbs(policyChange)
        <3>1. PICK lost :
                 swap' \in Poll([change |-> policyChange, config |-> Candidate(policyChange, lost),
                                 disturbs |-> Disturbs(policyChange), built |-> "loading"])
            BY <1>4 DEF BeginChange
        <3> HIDE DEF Candidate, Disturbs
        <3> QED BY <3>1 DEF Poll
    <2>3. Disturbs(policyChange) =>
             ~(controller.net = "sitstand" /\ controller.sit = "sitting")
        BY DEF Disturbs
    <2>4. ~ShuttingDown
        BY <1>0, <2>1 DEF ChangeInFlight
    <2> HIDE DEF Disturbs
    <2> QED BY <1>0, <2>1, <2>2, <2>3, <2>4
        DEF SeatOK, RisesWhenAsked, SitsToTheEnd, ShuttingDown, ending
<1>5. CASE PollChange
    <2>1. (swap = None /\ swap' = None)
          \/ (swap # None /\ swap' # None /\ swap'.disturbs = swap.disturbs)
        BY <1>5 DEF PollChange, Poll, TypeOK, NetworksOK, PendingSwap
    <2>2. /\ UNCHANGED <<shutdown, modeSwitch, sample, modeChange, ending, seatedBoot, controller,
                         bringup>>
          /\ pc = "change" /\ pc' = "shutdown" /\ policyChange' = None
        BY <1>5 DEF PollChange, ChangeStep
    <2> QED BY <1>0, <2>1, <2>2
        DEF SeatOK, RisesWhenAsked, SitsToTheEnd, ShuttingDown, ModeInFlight, ChangeInFlight, ending
<1>6. CASE SitDown
    <2>1. /\ controller # None /\ controller' = [controller EXCEPT !.sit = "sitting"]
          /\ shutdown /\ pc = "shutdown" /\ pc' = "limpFall"
          /\ UNCHANGED <<modeSwitch, policyChange, modeChange, swap, seatedBoot, sample>>
        BY <1>6 DEF SitDown, ShutdownStep, HasSitStand, networks
    <2>2. controller'.sit = "sitting"
        BY <1>0, <2>1, SitOnly
    <2>3. ~ModeInFlight /\ ~ChangeInFlight
        BY <1>0, <2>1 DEF ShuttingDown
    <2> QED BY <1>0, <2>1, <2>2, <2>3
        DEF SeatOK, RisesWhenAsked, SitsToTheEnd, ModeInFlight, ChangeInFlight
<1>7. CASE NoShutdown \/ PowerOffAtOnce \/ SitComplete
    <2>1. /\ UNCHANGED <<modeSwitch, policyChange, modeChange, swap, seatedBoot, sample, controller,
                         shutdownSit>>
          /\ pc = "shutdown" /\ pc' = "limpFall" /\ (ShuttingDown' => ShuttingDown)
          /\ bringup' \in {bringup, "limp"} /\ (poweredOff => poweredOff')
        BY <1>7
        DEF NoShutdown, PowerOffAtOnce, SitComplete, PowerOff, ShutdownStep, ShuttingDown, ending,
            networks
    <2> QED BY <1>0, <2>1
        DEF SeatOK, RisesWhenAsked, SitsToTheEnd, ModeInFlight, ChangeInFlight
<1>8. CASE SwitchMode
    <2>1. /\ modeChange # None /\ Arrived /\ pc = "home" /\ pc' = "swap"
          /\ UNCHANGED <<modeSwitch, policyChange, swap, seatedBoot, sample, shutdown, ending>>
          /\ modeChange' = None /\ running' \in Config
          /\ controller' = Fresh(running') \/ controller' = None
        BY <1>8 DEF SwitchMode, HomeStep, intents, TypeOK, NetworksOK, LoopOK, Config
    <2>2. controller' # None => controller'.sit = "up"
        BY <2>1 DEF Fresh
    <2>3. ~ShuttingDown
        BY <1>0, <2>1 DEF ModeInFlight
    <2> QED BY <1>0, <2>1, <2>2, <2>3
        DEF SeatOK, RisesWhenAsked, SitsToTheEnd, ShuttingDown, Arrived, ending
<1>9. CASE ArriveHome
    BY <1>0, <1>9
    DEF ArriveHome, HomeStep, Arrived, SeatOK, RisesWhenAsked, SitsToTheEnd, ShuttingDown,
        ModeInFlight, ChangeInFlight, intents, ending
<1>10. CASE Swap
    <2>1. /\ swap # None /\ pc = "swap" /\ pc' = "drive" /\ swap' = None
          /\ bringup # "homing" /\ swap.built # "loading"
          /\ controller' = IF swap.disturbs THEN Fresh(swap.config) ELSE CarryOver(swap.config)
          /\ UNCHANGED <<modeSwitch, policyChange, modeChange, seatedBoot, sample, shutdown, ending>>
        BY <1>10 DEF Swap, SwapStep, SwapReady, intents
    <2>2. ~ShuttingDown
        BY <1>0, <2>1 DEF ChangeInFlight
    <2>3. RisesWhenAsked
        <3>1. CASE swap.disturbs
            BY <2>1, <3>1 DEF SeatOK, RisesWhenAsked
        <3>2. CASE ~swap.disturbs
            BY <1>0, <2>1, <3>2 DEF CarryOver, RisesWhenAsked, Controller
        <3> QED BY <3>1, <3>2
    <2> QED BY <1>0, <2>1, <2>2, <2>3
        DEF SeatOK, SitsToTheEnd, ShuttingDown, ending
<1>11. CASE SwapFails
    BY <1>0, <1>11
    DEF SwapFails, SwapStep, SeatOK, RisesWhenAsked, SitsToTheEnd, ShuttingDown,
        ModeInFlight, ChangeInFlight, intents, ending
<1>12. CASE NoSwap
    BY <1>0, <1>12
    DEF NoSwap, SwapStep, SwapReady, SeatOK, RisesWhenAsked, SitsToTheEnd, ShuttingDown,
        ModeInFlight, ChangeInFlight, intents, ending, gait, networks
<1>13. CASE Drive
    <2>1. /\ pc = "drive" /\ pc' = "read"
          /\ UNCHANGED <<modeSwitch, policyChange, modeChange, seatedBoot, swap, shutdown, bringup,
                         ending>>
        BY <1>13 DEF Drive, intents, networks
    <2>2. CASE ~Driving
        BY <1>0, <1>13, <2>1, <2>2
        DEF Drive, SeatOK, RisesWhenAsked, SitsToTheEnd, ShuttingDown, ModeInFlight,
            ChangeInFlight, ending
    <2>3. CASE Driving
        <3>1. controller # None /\ bringup = "ready" /\ StepController
            BY <1>13, <2>3 DEF Drive, Driving
        <3>2. PICK move \in BOOLEAN, sit \in {controller.sit, "up"},
                   net \in {"walk", "stand", "sitstand", "move"} :
                /\ sit # controller.sit => controller.sit = "rising"
                /\ controller' = [controller EXCEPT !.move = move, !.sit = sit, !.net = net]
            BY <3>1 DEF StepController
        <3>3. controller'.sit = sit
            BY <1>0, <3>1, <3>2, PostureOnly
        <3>4. ~(swap # None /\ swap.disturbs)
            BY <2>1, <3>1 DEF SeatOK
        <3> QED BY <1>0, <2>1, <3>1, <3>2, <3>3, <3>4
            DEF SeatOK, RisesWhenAsked, SitsToTheEnd, ShuttingDown, ModeInFlight,
                ChangeInFlight, ending
    <2> QED BY <2>2, <2>3
<1>14. CASE Read
    BY <1>0, <1>14
    DEF Read, SeatOK, Standing, Without, RisesWhenAsked, SitsToTheEnd, ShuttingDown,
        ModeInFlight, ChangeInFlight, intents, ending, gait, networks
<1>15. CASE TakeMode
    BY <1>0, <1>15
    DEF TakeMode, SeatOK, RisesWhenAsked, SitsToTheEnd, ShuttingDown,
        ModeInFlight, ChangeInFlight, ending, gait, networks
<1>16. CASE TakeReboot \/ LimpFall \/ NotHome
    BY <1>0, <1>16
    DEF TakeReboot, GoLimp, LimpFall, NotHome, HomeStep, SeatOK, RisesWhenAsked, SitsToTheEnd,
        ShuttingDown, ModeInFlight, ChangeInFlight, intents, ending, gait, networks
<1> QED
    BY <1>1, <1>2, <1>3, <1>4, <1>5, <1>6, <1>7, <1>8, <1>9, <1>10, <1>11, <1>12, <1>13, <1>14,
       <1>15, <1>16
    DEF Next, Tick

-----------------------------------------------------------------------------
(* The theorems. *)

(* A board just switched on satisfies the invariant.                        *)
LEMMA InitIInv == Init => IInv
<1> SUFFICES ASSUME Init PROVE IInv
    OBVIOUS
<1>1. TypeOK
    BY InitType
<1>2. ErrorFollowsController
    <2>1. running \in Config
        BY <1>1 DEF TypeOK, NetworksOK
    <2>2. Fresh(running) # None
        BY <2>1, FreshIsController
    <2> QED BY <2>2 DEF Init, ErrorFollowsController
<1>3. PowerOffIsTorqueless
    BY DEF Init, PowerOffIsTorqueless
<1>4. UpIsPowered
    BY DEF Init, UpIsPowered, ModeFindsItUp, PoweredWhenUp, ModeInFlight
<1>5. RelaxedIsDown
    BY DEF Init, RelaxedIsDown, RelaxedStaysDown
<1> QED BY <1>1, <1>2, <1>3, <1>4, <1>5 DEF IInv

(* Every step keeps it.                                                     *)
LEMMA StepIInv == IInv /\ [Next]_vars => IInv'
<1> SUFFICES ASSUME IInv, [Next]_vars PROVE IInv'
    OBVIOUS
<1>1. TypeOK'
    BY StepType DEF IInv
<1>2. CASE Next
    <2>1. ErrorFollowsController'
        BY <1>1, <1>2, ErrorStep DEF IInv
    <2>2. PowerOffIsTorqueless'
        BY <1>2, PowerOffStep DEF IInv
    <2>3. UpIsPowered'
        BY <1>2, UpStep DEF IInv, UpIsPowered
    <2>4. RelaxedIsDown'
        BY <1>2, RelaxStep DEF IInv, RelaxedIsDown
    <2> QED BY <1>1, <2>1, <2>2, <2>3, <2>4 DEF IInv
<1>3. CASE UNCHANGED vars
    <2>1. ErrorFollowsController' /\ PowerOffIsTorqueless'
        BY <1>3 DEF IInv, ErrorFollowsController, PowerOffIsTorqueless
    <2>2. UpIsPowered'
        BY <1>3 DEF IInv, UpIsPowered, ModeFindsItUp, PoweredWhenUp, ModeInFlight
    <2>3. RelaxedIsDown'
        BY <1>3 DEF IInv, RelaxedIsDown, RelaxedStaysDown
    <2> QED BY <1>1, <2>1, <2>2, <2>3 DEF IInv
<1> QED BY <1>2, <1>3

(* The five parts hold together.                                            *)
THEOREM Invariance == Spec => []IInv
BY InitIInv, StepIInv, PTL DEF Spec

(* Every intent, report, local and network has its type, whatever clients   *)
(* ask for and whenever it lands.                                           *)
THEOREM TypeCorrect == Spec => []TypeOK
<1>1. IInv => TypeOK
    BY DEF IInv
<1> QED BY <1>1, Invariance, PTL

(* The update gate and the operator are told that there is no policy        *)
(* exactly when there is none (policy_error, robot.health).                 *)
THEOREM HealthIsTrue == Spec => []UnhealthyIsNoPolicy
<1>1. IInv => UnhealthyIsNoPolicy
    BY DEF IInv, ErrorFollowsController, UnhealthyIsNoPolicy
<1> QED BY <1>1, Invariance, PTL

(* A robot that is powering off has no torque and gets none back, whatever  *)
(* was enabled or asked for (powered_off, cut_torque_before_poweroff).      *)
THEOREM PoweredOffForGood == Spec => []PowerOffIsTorqueless
<1>1. IInv => PowerOffIsTorqueless
    BY DEF IInv
<1> QED BY <1>1, Invariance, PTL

(* Where modes are switched on robots that are up, the policy drives servos *)
(* that have power; every other habit is allowed.                           *)
THEOREM DrivesPowered == Spec => []("modeWhileDown" \notin Habits => DrivingIsPowered)
<1>1. IInv => ("modeWhileDown" \notin Habits => DrivingIsPowered)
    BY DEF IInv, UpIsPowered, PoweredWhenUp, DrivingIsPowered
<1> QED BY <1>1, Invariance, PTL

(* Where requests land between ticks, a relax is the last word; every other *)
(* habit is allowed, and a request in mid-tick is what the run control_relax *)
(* shows to break it.                                                       *)
THEOREM RelaxIsTheLastWord == Spec => []("midTick" \notin Habits => RelaxWins)
<1>1. IInv => ("midTick" \notin Habits => RelaxWins)
    BY DEF IInv, RelaxedIsDown, RelaxedStaysDown, RelaxWins
<1> QED BY <1>1, Invariance, PTL

-----------------------------------------------------------------------------
(* What clients are told, what the file says, and the seat.                *)

Told == IInv /\ SaidOK /\ FileOK

\* At switch-on what is told, what runs and what the file says are the same.
LEMMA InitTold == Init => Told
<1> SUFFICES ASSUME Init PROVE Told
    OBVIOUS
<1>1. IInv /\ running \in Config
    BY InitIInv DEF IInv, TypeOK, NetworksOK
<1>2. SaidOK
    BY <1>1 DEF Init, SaidOK, ModeInFlight, ChangeInFlight, Fresh
<1>3. FileOK
    BY <1>1 DEF Init, FileOK, Underway, ChangeInFlight, Own, Slot
<1> QED BY <1>1, <1>2, <1>3 DEF Told

\* Every step keeps the reports and the file true.
LEMMA StepTold == Told /\ [Next]_vars => Told'
<1> SUFFICES ASSUME Told, [Next]_vars PROVE Told'
    OBVIOUS
<1>1. IInv' /\ TypeOK /\ TypeOK'
    BY StepIInv, StepType DEF Told, IInv
<1>2. CASE Next
    BY <1>1, <1>2, SaidStep, FileStep DEF Told
<1>3. CASE UNCHANGED vars
    <2>1. SaidOK'
        BY <1>3 DEF Told, SaidOK, ModeInFlight, ChangeInFlight, vars, intents, status, gait,
                    networks
    <2>2. FileOK'
        BY <1>3 DEF Told, FileOK, Underway, ChangeInFlight, vars, intents, status, gait, networks
    <2> QED BY <1>1, <2>1, <2>2 DEF Told
<1> QED BY <1>2, <1>3

(* The reports and the file stay true to the networks.                      *)
THEOREM ToldInvariance == Spec => []Told
BY InitTold, StepTold, PTL DEF Spec

(* Where a mode switch and a policy change are not in flight together,      *)
(* clients are told of the mode and the networks that run, whatever else is *)
(* admitted: the swap publishes the slots and not the mode, and the mode    *)
(* that a change was built for is still the one that runs (robot.status).   *)
THEOREM ReportIsTrue ==
    Without({"modeOverChange"}) => (Spec => []RunningIsPublished)
<1> SUFFICES ASSUME Without({"modeOverChange"})
             PROVE  Spec => []RunningIsPublished
    OBVIOUS
<1>1. Told => RunningIsPublished
    BY DEF Told, SaidOK, RunningIsPublished
<1> QED BY <1>1, ToldInvariance, PTL

(* Where changes are made one at a time and the files stay where they are,  *)
(* the robot runs what clients are told of, and the next restart would load *)
(* the same (load_policy, policy.reset, policy.reload).                     *)
THEOREM SaidIsDone ==
    Without({"modeOverChange", "changeOverChange", "fileLost"}) => (Spec => []RobotIsAsSaid)
<1> SUFFICES ASSUME Without({"modeOverChange", "changeOverChange", "fileLost"})
             PROVE  Spec => []RobotIsAsSaid
    OBVIOUS
<1>1. Told => RobotIsAsSaid
    BY DEF Told, Without, SaidOK, FileOK, Underway, ChangeInFlight, RobotIsAsSaid,
           RunningIsPublished, FileIsRunning
<1> QED BY <1>1, ToldInvariance, PTL

Seated == TypeOK /\ SeatOK

\* At switch-on nothing shuts down and nothing is in flight.
LEMMA InitSeated == Init => Seated
<1> SUFFICES ASSUME Init PROVE Seated
    OBVIOUS
<1> QED BY InitType
    DEF Init, Seated, SeatOK, Standing, ShuttingDown, SitsToTheEnd

\* No step of a standing robot breaks the two parts of SeatIsKept.
LEMMA StepSeated ==
    ASSUME Standing
    PROVE  Seated /\ [Next]_vars => Seated' /\ [RisesWhenAsked /\ SitsToTheEnd']_vars
<1> SUFFICES ASSUME Seated, [Next]_vars
             PROVE  Seated' /\ [RisesWhenAsked /\ SitsToTheEnd']_vars
    OBVIOUS
<1>1. TypeOK /\ TypeOK' /\ SeatOK
    BY StepType DEF Seated
<1>2. CASE Next
    BY <1>1, <1>2, SeatStep DEF Seated, SeatOK
<1>3. CASE UNCHANGED vars
    BY <1>1, <1>3
    DEF Seated, SeatOK, SitsToTheEnd, ShuttingDown, ModeInFlight, ChangeInFlight, vars, intents,
        gait, networks, ending
<1> QED BY <1>2, <1>3

(* A robot switched on standing, whose bus answers and that is not told to  *)
(* change anything on its way down, gets up because someone asked or at the *)
(* home pose, and sees its last sit through: a swap that would stand it up  *)
(* has it home first (carry_over, disturbs, shutdown_sit).  One switched on *)
(* sitting, whose policies come late, may be stood up by its own bring-up.  *)
THEOREM SeatStays == Standing => (Spec => SeatIsKept)
<1> SUFFICES ASSUME Standing PROVE Spec => SeatIsKept
    OBVIOUS
<1>1. Init => Seated
    BY InitSeated
<1>2. Seated /\ [Next]_vars => Seated' /\ [RisesWhenAsked /\ SitsToTheEnd']_vars
    BY StepSeated
<1> QED BY <1>1, <1>2, PTL DEF Spec, SeatIsKept
-----------------------------------------------------------------------------
(* padd, over the control loop.                                            *)

Task == {"start", "skill", "relax", "reboot", "shutdown", "setMode", "frame"}
padAll == <<vars, padVars>>

\* padd's tick is over when its frame has gone out, and the loop waits for it.
TurnOK ==
    /\ todo # {} => pc = "read" /\ pad = "here" /\ ~ticked /\ "frame" \in todo
    /\ pc # "read" => ~ticked

\* The age of a frame is that of the twist it set, and the stick was pushed when the
\* twist came.
SticksOK ==
    /\ frame # None => (twist <=> frame.moves)
    /\ frame # None /\ frameAge < Heartbeat => twistAge = frameAge
    /\ twist /\ twistAge <= Deadman => pushed = twistAge
    /\ pushed = 0 => pc = "read" /\ ticked /\ twist /\ twistAge = 0
    /\ pc = "read" /\ pad = "here" /\ ticked => twistAge < Deadman /\ (twist => twistAge = 0)
    /\ StopsInTime /\ HeldIsHeeded /\ IdleIsNotDead

\* A frame that is left out left nothing undone, for the layer is that of the last one.
PoseOK == PadHabits \cap {"headFromBody", "diesInBody"} = {} =>
    /\ posed => layer = "body" /\ pad # "down"
    /\ todo = {} /\ pad # "down" /\ frame # None => frame.layer = layer
    /\ frame # None => (frame.layer = "body" /\ layer = "body" => posed)
    /\ PoseIsLetGo

\* A count starts and ends with the button.
HoldsOK == "dropsHeld" \notin PadHabits =>
    /\ \A b \in Holds : since[b] = meant[b]
    /\ pad = "gone" => \A b \in Holds : since[b] = 0
    /\ HoldIsMeant

\* The torque is about to be cut.
Cutting == power = "relax" \/ reboot

\* Whatever cuts the torque clears `enabled`, and padd thinks the robot down; the
\* robot it thinks up took a Start, and the one that is enabled took two.
StartsOK == "othersRelax" \notin PadHabits =>
    /\ pc \notin {"read", "power"} => power # "relax"
    /\ pc \notin {"read", "power", "reboot"} => ~reboot
    /\ Cutting => /\ ~enabled /\ ~up
                  /\ pc = "read" => ticked \/ (todo # {} /\ "start" \notin todo)
                  /\ pc # "read" => ~snapshot
    /\ up /\ ~poweredOff => starts > 0
    /\ enabled /\ ~poweredOff => starts = 2
    /\ pc # "read" /\ snapshot /\ ~poweredOff => starts = 2
    /\ wasDriving => starts = 2 \/ (poweredOff /\ pc # "read")

\* The belief is the mode that was asked for last, and with none in flight the mode
\* that runs.
RollerOK == "modeOverChange" \notin Habits /\ PadHabits \cap {"othersMode", "midSwitch"} = {} =>
    /\ modeSwitch # None => (modeSwitch = "roller" <=> roller)
    /\ modeChange # None => (modeChange = "roller" <=> roller)
    /\ ~ModeInFlight => (running.mode = "roller" <=> roller)
    /\ "setMode" \in todo => modeChange = None

PadIInv == PadTypeOK /\ TurnOK /\ SticksOK /\ PoseOK /\ HoldsOK /\ StartsOK /\ RollerOK
USE PadAssumption DEF PadAssumption

-----------------------------------------------------------------------------
(* What the actions have in common. *)

\* The tasks are taken in the order of the code: the frame is the last.
LEMMA FrameIsLast ==
    ASSUME PadTypeOK, NEW task, Turn(task)
    PROVE  /\ task \in todo /\ todo' = todo \ {task} /\ todo \subseteq Task
           /\ task = "frame" => todo = {"frame"}
           /\ "start" \in todo => task = "start"
<1>1. todo \subseteq Task
    BY DEF PadTypeOK, Tasks, Task
<1>2. \A i, j \in 1..7 : Tasks[i] \in todo /\ Tasks[j] = task => j <= i
    BY DEF Turn, Tasks
<1>3. /\ Tasks[1] = "start" /\ Tasks[2] = "skill" /\ Tasks[3] = "relax" /\ Tasks[4] = "reboot"
      /\ Tasks[5] = "shutdown" /\ Tasks[6] = "setMode" /\ Tasks[7] = "frame"
    BY DEF Tasks
<1>4. task \in todo /\ todo' = todo \ {task}
    BY DEF Turn
<1>5. task = "frame" => todo = {"frame"}
    <2> SUFFICES ASSUME task = "frame" PROVE todo \subseteq {"frame"}
        BY <1>4
    <2>1. \A i \in 1..6 : Tasks[i] \notin todo
        <3> SUFFICES ASSUME NEW i \in 1..6, Tasks[i] \in todo PROVE FALSE
            OBVIOUS
        <3>1. 7 <= i
            BY <1>2, <1>3
        <3> QED BY <3>1
    <2> QED BY <1>1, <1>3, <2>1 DEF Task
<1>6. "start" \in todo => task = "start"
    <2> SUFFICES ASSUME "start" \in todo PROVE task = "start"
        OBVIOUS
    <2>1. \A j \in 1..7 : Tasks[j] = task => j = 1
        BY <1>2, <1>3
    <2>2. task \in Task
        BY <1>1, <1>4
    <2> QED BY <1>3, <2>1, <2>2 DEF Task
<1> QED BY <1>1, <1>4, <1>5, <1>6

\* The requests that padd makes, one for each of its tasks but the last.
Press == PressStart \/ PressSkill \/ PressSelect \/ PressDPadRight \/ HoldSelect \/ HoldDPadUp

\* A press asks for something, or not; nothing else of padd moves but its beliefs.
LEMMA PressAsks ==
    ASSUME Press
    PROVE  /\ \E task \in Task \ {"frame"} : Asked(task)
           /\ Request \/ UNCHANGED vars
           /\ up' \in {up, TRUE, FALSE} /\ roller' \in {roller, ~roller}
           /\ starts' \in {starts, UpTo(starts + 1, 2)}
<1>1. CASE PressStart
    BY <1>1 DEF PressStart, Request, Task
<1>2. CASE PressSkill
    BY <1>2 DEF PressSkill, Request, Task, beliefs
<1>3. CASE PressSelect
    BY <1>3 DEF PressSelect, Request, Task
<1>4. CASE PressDPadRight
    BY <1>4 DEF PressDPadRight, Request, Task
<1>5. CASE HoldSelect
    BY <1>5 DEF HoldSelect, Request, Task
<1>6. CASE HoldDPadUp
    BY <1>6 DEF HoldDPadUp, Request, Task
<1> QED BY <1>1, <1>2, <1>3, <1>4, <1>5, <1>6 DEF Press

\* Every step of padd, of its pads and of its rivals is a step of the loop's clients, or
\* leaves the loop alone.
LEMMA PadStep == [PadNext]_padAll => [Next]_vars
<1> SUFFICES ASSUME PadNext PROVE [Next]_vars
    BY DEF padAll
<1>1. CASE Begin \/ SendFrame \/ Lose \/ Return \/ Die \/ Restart
    BY <1>1 DEF Begin, SendFrame, Lose, Return, Die, Restart
<1>2. CASE Press
    BY <1>2, PressAsks DEF Next
<1>3. CASE OtherClient
    BY <1>3 DEF OtherClient, Next, Request
<1>4. CASE LoopReads \/ LoopSteps
    BY <1>4 DEF LoopReads, LoopSteps, Next, Tick
<1> QED BY <1>1, <1>2, <1>3, <1>4 DEF PadNext, PadTick, Press

(* padd and whatever is around it drive the loop as clients may: all that   *)
(* is proved of the loop holds of the two together.                         *)
THEOREM PadIsAClient == PadSpec => Spec
<1>1. PadInit => Init
    BY DEF PadInit
<1>2. [PadNext]_<<vars, padVars>> => [Next]_vars
    BY PadStep DEF padAll
<1> QED BY <1>1, <1>2, PTL DEF PadSpec, Spec

-----------------------------------------------------------------------------
(* Types and turns. *)

\* A press leaves the loop, the sticks and the counts alone, and the frame is still to go.
LEMMA PressFrame ==
    ASSUME PadTypeOK, TurnOK, Press
    PROVE  /\ UNCHANGED <<pc, snapshot, bringup, running, swap, modeChange, wasDriving, poweredOff,
                          published>>
           /\ UNCHANGED <<pad, ticked, since, sticks, slots, command, meant, pushed, losses>>
           /\ todo # {} /\ "frame" \in todo' /\ todo' \subseteq todo /\ "start" \notin todo'
<1>1. Request \/ UNCHANGED vars
    BY PressAsks
<1>2. UNCHANGED <<pc, snapshot, bringup, running, swap, modeChange, wasDriving, poweredOff,
                  published>>
    BY <1>1, RequestLeavesLoop, RequestLeavesRobot DEF vars, intents, status, gait, networks, ending
<1>3. PICK task \in Task \ {"frame"} : Asked(task)
    BY PressAsks
<1>4. UNCHANGED <<pad, ticked, since, sticks, slots, command, meant, pushed, losses>> /\ Turn(task)
    BY <1>3 DEF Asked
<1>5. /\ task \in todo /\ todo' = todo \ {task}
      /\ "start" \in todo => task = "start"
    BY <1>4, FrameIsLast
<1> QED BY <1>2, <1>3, <1>4, <1>5 DEF TurnOK

\* Another client's request leaves the loop and padd alone.
LEMMA OtherFrame ==
    ASSUME OtherClient
    PROVE  /\ UNCHANGED <<pc, snapshot, bringup, running, swap, modeChange, wasDriving, poweredOff,
                          published>>
           /\ UNCHANGED padVars
<1>1. Request
    BY DEF OtherClient, Request
<1> QED BY <1>1, RequestLeavesLoop, RequestLeavesRobot DEF OtherClient

\* A count that is capped stays under its cap.
LEMMA Capped ==
    ASSUME NEW most \in Nat, NEW n \in 0..most
    PROVE  /\ UpTo(n, most) \in 0..most /\ UpTo(n + 1, most) \in 0..most
           /\ UpTo(n + 1, most) = IF n < most THEN n + 1 ELSE most
BY DEF UpTo

\* No button is down.
LEMMA NoCount == [b \in Holds |-> 0] \in [Holds -> 0..Hold + 1]
OBVIOUS

USE DEF beliefs, sticks, slots, history, padVars

\* padd starts with everything of its type.
LEMMA PadInitType == PadInit => PadTypeOK
<1> SUFFICES ASSUME PadInit PROVE PadTypeOK
    OBVIOUS
<1>1. /\ pad \in {"here", "gone", "down"} /\ todo \subseteq {Tasks[i] : i \in DOMAIN Tasks}
      /\ layer \in Layers /\ frame \in {None} /\ frameAge \in 0..Heartbeat
    BY DEF PadInit, Layers
<1>2. /\ twistAge \in 0..Deadman + 1 /\ pushed \in 0..Deadman + 2 /\ starts \in 0..2
      /\ losses \in 0..MaxLosses
    BY DEF PadInit
<1>3. since \in [Holds -> 0..Hold + 1] /\ meant \in [Holds -> 0..Hold + 1]
    BY NoCount DEF PadInit
<1>4. roller \in BOOLEAN
    BY Zenon DEF PadInit
<1>5. /\ ticked \in BOOLEAN /\ up \in BOOLEAN /\ twist \in BOOLEAN /\ posed \in BOOLEAN
      /\ command \in BOOLEAN
    BY DEF PadInit
<1> QED BY <1>1, <1>2, <1>3, <1>4, <1>5 DEF PadTypeOK

(* Each step of padd, of the pads and of the loop keeps the types of padd's *)
(* state.                                                                   *)
LEMMA PadTypeStep == TypeOK /\ PadTypeOK /\ TurnOK /\ PadNext => PadTypeOK'
<1> SUFFICES ASSUME TypeOK, PadTypeOK, TurnOK, PadNext PROVE PadTypeOK'
    OBVIOUS
<1>0. Hold + 1 \in Nat /\ Deadman + 1 \in Nat /\ Deadman + 2 \in Nat
    OBVIOUS
<1>1. CASE Begin
    <2>1. PICK pressed \in {{}} \cup {{b} : b \in Buttons}, down \in SUBSET Holds :
            /\ Counted(down) /\ Turned(pressed) /\ todo' = Drained(pressed)
            /\ meant' = [b \in Holds |-> IF b \in down THEN UpTo(meant[b] + 1, Hold + 1) ELSE 0]
        BY <1>1 DEF Begin
    <2>2. todo' \subseteq {Tasks[i] : i \in DOMAIN Tasks}
        <3>1. todo' \subseteq Task
            BY <2>1 DEF Drained, Task
        <3>2. Task \subseteq {Tasks[i] : i \in DOMAIN Tasks}
            BY DEF Task, Tasks
        <3> QED BY <3>1, <3>2
    <2>3. since' \in [Holds -> 0..Hold + 1] /\ meant' \in [Holds -> 0..Hold + 1]
        <3>1. \A b \in Holds : since[b] \in 0..Hold + 1 /\ meant[b] \in 0..Hold + 1
            BY DEF PadTypeOK
        <3>2. \A b \in Holds : /\ UpTo(since[b] + 1, Hold + 1) \in 0..Hold + 1
                               /\ UpTo(meant[b] + 1, Hold + 1) \in 0..Hold + 1
            BY <1>0, <3>1, Capped
        <3>3. 0 \in 0..Hold + 1
            BY <1>0
        <3> QED BY <2>1, <3>2, <3>3 DEF Counted
    <2>4. layer' \in Layers
        BY <2>1 DEF Turned, Layers, PadTypeOK
    <2>5. posed' \in BOOLEAN
        BY <2>1, Zenon DEF Turned
    <2> QED BY <1>1, <2>2, <2>3, <2>4, <2>5 DEF Begin, PadTypeOK
<1>2. CASE Press
    <2>1. up' \in BOOLEAN /\ roller' \in BOOLEAN
        BY <1>2, PressAsks DEF PadTypeOK
    <2>2. starts' \in 0..2
        BY <1>2, PressAsks, Capped DEF PadTypeOK
    <2> QED BY <1>2, <2>1, <2>2, PressFrame DEF PadTypeOK
<1>3. CASE SendFrame
    <2>1. PICK push \in BOOLEAN :
            LET this == [layer |-> layer, moves |-> push /\ layer = "drive"] IN
            /\ IF MayHold(this)
               THEN UNCHANGED <<frame, frameAge, slots>>
               ELSE /\ frame' = this /\ frameAge' = 0
                    /\ twist' = this.moves /\ twistAge' = 0
                    /\ posed' = (posed \/ layer = "body")
            /\ pushed' = IF this.moves THEN 0 ELSE pushed
        BY <1>3 DEF SendFrame
    <2> DEFINE this == [layer |-> layer, moves |-> push /\ layer = "drive"]
    <2>2. this \in Frame /\ this.moves \in BOOLEAN
        BY DEF PadTypeOK, Frame
    <2> HIDE DEF this
    <2>3. pushed' \in 0..Deadman + 2 /\ todo' \subseteq {Tasks[i] : i \in DOMAIN Tasks}
        BY <1>3, <2>1 DEF this, SendFrame, Turn, PadTypeOK
    <2>4. CASE MayHold(this)
        BY <1>3, <2>1, <2>3, <2>4 DEF this, SendFrame, PadTypeOK
    <2>5. CASE ~MayHold(this)
        <3>1. /\ frame' \in Frame \cup {None} /\ frameAge' \in 0..Heartbeat
              /\ twistAge' \in 0..Deadman + 1
            <4>1. frame' = this /\ frameAge' = 0 /\ twistAge' = 0
                BY <2>1, <2>5 DEF this
            <4> QED BY <2>2, <4>1
        <3>2. twist' \in BOOLEAN /\ posed' \in BOOLEAN
            BY <2>1, <2>2, <2>5, Zenon DEF this
        <3> QED BY <1>3, <2>3, <3>1, <3>2 DEF SendFrame, PadTypeOK
    <2> QED BY <2>4, <2>5
<1>4. CASE Lose \/ Return \/ Die
    <2>1. pad' \in {"here", "gone", "down"} /\ ticked' \in BOOLEAN /\ todo' \subseteq todo
        BY <1>4 DEF Lose, Return, Die, PadTypeOK
    <2>4. losses' \in 0..MaxLosses
        <3>1. losses \in 0..MaxLosses
            BY DEF PadTypeOK
        <3>2. losses' = losses \/ (losses < MaxLosses /\ losses' = losses + 1)
            BY <1>4 DEF Lose, Return, Die
        <3> QED BY <3>1, <3>2
    <2>2. meant' \in [Holds -> 0..Hold + 1]
        BY <1>4, NoCount DEF Lose, Return, Die, PadTypeOK
    <2>3. UNCHANGED <<up, roller, since, layer, frame, frameAge, slots, command, pushed, starts>>
        BY <1>4 DEF Lose, Return, Die
    <2> QED BY <2>1, <2>2, <2>3, <2>4 DEF PadTypeOK
<1>5. CASE Restart
    <2>1. roller' \in BOOLEAN
        BY <1>5, Zenon DEF Restart, Started
    <2>2. since' \in [Holds -> 0..Hold + 1] /\ meant' \in [Holds -> 0..Hold + 1]
        BY <1>5, NoCount DEF Restart, Started
    <2>3. /\ pad' = "here" /\ ticked' = FALSE /\ todo' = {} /\ up' = FALSE /\ layer' \in Layers
          /\ frame' = None /\ frameAge' \in 0..Heartbeat
        BY <1>5 DEF Restart, Started, Layers
    <2>4. UNCHANGED <<slots, command, pushed, starts, losses>>
        BY <1>5 DEF Restart
    <2> QED BY <2>1, <2>2, <2>3, <2>4 DEF PadTypeOK
<1>6. CASE OtherClient
    BY <1>6, OtherFrame DEF PadTypeOK
<1>7. CASE LoopReads
    <2>1. since' \in [Holds -> 0..Hold + 1]
        BY <1>7 DEF LoopReads, PadTypeOK
    <2>2. /\ twistAge' \in 0..Deadman + 1 /\ frameAge' \in 0..Heartbeat
          /\ pushed' \in 0..Deadman + 2
        BY <1>0, <1>7, Capped DEF LoopReads, Gate, PadTypeOK
    <2>3. command' \in BOOLEAN
        BY <1>7, Zenon DEF LoopReads, Gate
    <2> QED BY <1>7, <2>1, <2>2, <2>3 DEF LoopReads, PadTypeOK
<1>8. CASE LoopSteps
    BY <1>8 DEF LoopSteps, PadTypeOK
<1> QED
    BY <1>1, <1>2, <1>3, <1>4, <1>5, <1>6, <1>7, <1>8 DEF PadNext, PadTick, Press

\* padd ticks while the loop waits, and its frame ends the tick.
LEMMA TurnStep == TypeOK /\ PadTypeOK /\ TurnOK /\ PadNext => TurnOK'
<1> SUFFICES ASSUME TypeOK, PadTypeOK, TurnOK, PadNext PROVE TurnOK'
    OBVIOUS
<1>1. CASE Begin
    <2>1. pc' = pc
        BY <1>1 DEF Begin, vars
    <2> QED BY <1>1, <2>1 DEF Begin, Drained, TurnOK
<1>2. CASE Press
    BY <1>2, PressFrame DEF TurnOK
<1>3. CASE SendFrame
    <2>1. todo = {"frame"} /\ todo' = todo \ {"frame"}
        BY <1>3, FrameIsLast DEF SendFrame
    <2>2. pc' = pc
        BY <1>3 DEF SendFrame, vars
    <2> QED BY <1>3, <2>1, <2>2 DEF SendFrame, TurnOK
<1>4. CASE Lose \/ Return \/ Die
    BY <1>4 DEF Lose, Return, Die, TurnOK, vars
<1>5. CASE Restart
    BY <1>5 DEF Restart, Started, TurnOK, vars
<1>6. CASE OtherClient
    BY <1>6, OtherFrame DEF TurnOK
<1>7. CASE LoopReads
    BY <1>7 DEF LoopReads, TurnOK
<1>8. CASE LoopSteps
    BY <1>8 DEF LoopSteps, TurnOK
<1> QED
    BY <1>1, <1>2, <1>3, <1>4, <1>5, <1>6, <1>7, <1>8 DEF PadNext, PadTick, Press

-----------------------------------------------------------------------------
(* The sticks. *)

(* The robot is driven while the stick is, at every step.                   *)
LEMMA SticksStep ==
    TypeOK /\ PadTypeOK /\ PadTypeOK' /\ TurnOK /\ TurnOK' /\ SticksOK /\ PadNext => SticksOK'
<1> SUFFICES ASSUME TypeOK, PadTypeOK, PadTypeOK', TurnOK, TurnOK', SticksOK, PadNext
             PROVE  SticksOK'
    OBVIOUS
<1> USE DEF SticksOK, StopsInTime, HeldIsHeeded, IdleIsNotDead
<1>0. /\ twistAge \in 0..Deadman + 1 /\ pushed \in 0..Deadman + 2 /\ frameAge \in 0..Heartbeat
      /\ twist \in BOOLEAN /\ command \in BOOLEAN
    BY DEF PadTypeOK
<1>1. CASE Begin
    <2>1. UNCHANGED <<pc, pad, ticked, frame, frameAge, twist, twistAge, command, pushed>>
        BY <1>1 DEF Begin, vars
    <2> QED BY <2>1
<1>2. CASE Press
    BY <1>2, PressFrame
<1>3. CASE SendFrame
    <2>0. pc = "read" /\ pc' = "read" /\ ~ticked /\ pad = "here" /\ pad' = pad
        BY <1>3 DEF SendFrame, Turn, TurnOK, vars
    <2>1. PICK push \in BOOLEAN :
            LET this == [layer |-> layer, moves |-> push /\ layer = "drive"] IN
            /\ IF MayHold(this)
               THEN UNCHANGED <<frame, frameAge, slots>>
               ELSE /\ frame' = this /\ frameAge' = 0
                    /\ twist' = this.moves /\ twistAge' = 0
                    /\ posed' = (posed \/ layer = "body")
            /\ pushed' = IF this.moves THEN 0 ELSE pushed
        BY <1>3 DEF SendFrame
    <2> DEFINE this == [layer |-> layer, moves |-> push /\ layer = "drive"]
    <2>2. this \in Frame
        BY DEF PadTypeOK, Frame
    <2> HIDE DEF this
    <2>3. CASE MayHold(this)
        <3>1. this = frame /\ ~this.moves /\ frameAge < Heartbeat
            BY <2>3 DEF MayHold
        <3>2. UNCHANGED <<frame, frameAge, twist, twistAge, pushed, command>> /\ ticked'
            BY <1>3, <2>1, <2>3, <3>1 DEF this, SendFrame
        <3> QED BY <1>0, <2>0, <2>2, <3>1, <3>2
    <2>4. CASE ~MayHold(this)
        <3>1. /\ frame' = this /\ frameAge' = 0 /\ twistAge' = 0 /\ ticked' /\ (twist' <=> this.moves)
              /\ pushed' = IF this.moves THEN 0 ELSE pushed
            BY <1>3, <2>1, <2>4 DEF this, SendFrame
        <3> QED BY <1>0, <2>0, <3>1
    <2> QED BY <2>3, <2>4
<1>4. CASE Lose \/ Return \/ Die
    <2>1. /\ UNCHANGED <<pc, frame, frameAge, twist, twistAge, command, pushed>>
          /\ pc = "read"
          /\ ticked' = ticked \/ ticked'
          /\ pad' = "here" => ~ticked'
        BY <1>4 DEF Lose, Return, Die, vars
    <2> QED BY <1>0, <2>1
<1>5. CASE Restart
    <2>1. /\ UNCHANGED <<pc, twist, twistAge, command, pushed>> /\ frame' = None
          /\ pc = "read" /\ ~ticked /\ ~ticked'
        BY <1>5 DEF Restart, Started, vars
    <2> QED BY <1>0, <2>1
<1>6. CASE OtherClient
    BY <1>6, OtherFrame
<1>7. CASE LoopReads
    <2>3. command' <=> (twist /\ twistAge' <= Deadman)
        BY <1>7, Zenon DEF LoopReads, Gate
    <2>1. /\ twistAge' = UpTo(twistAge + 1, Deadman + 1)
          /\ frameAge' = UpTo(frameAge + 1, Heartbeat)
          /\ pushed' = UpTo(pushed + 1, Deadman + 2)
          /\ UNCHANGED <<frame, twist, pad>> /\ ~ticked'
          /\ pc = "read" /\ pc' = "power" /\ (pad = "here" => ticked)
        BY <1>7 DEF LoopReads, Gate, Read, Then
    <2>2. /\ twistAge' = IF twistAge <= Deadman THEN twistAge + 1 ELSE Deadman + 1
          /\ frameAge' = IF frameAge < Heartbeat THEN frameAge + 1 ELSE Heartbeat
          /\ pushed' = IF pushed <= Deadman + 1 THEN pushed + 1 ELSE Deadman + 2
        BY <1>0, <2>1 DEF UpTo
    <2> QED BY <1>0, <2>1, <2>2, <2>3
<1>8. CASE LoopSteps
    <2>1. /\ UNCHANGED <<pad, ticked, frame, frameAge, twist, twistAge, command, pushed>>
          /\ pc # "read" /\ ~ticked
        BY <1>8 DEF LoopSteps, TurnOK
    <2> QED BY <2>1
<1> QED
    BY <1>1, <1>2, <1>3, <1>4, <1>5, <1>6, <1>7, <1>8 DEF PadNext, PadTick, Press

\* Where the button turns the sticks to.
LEMMA ButtonTurns ==
    ASSUME NEW pressed \in {{}} \cup {{b} : b \in Buttons}, Turned(pressed)
    PROVE  /\ "head" \in pressed => layer' # "body" /\ (layer = "body" => "headFromBody" \in PadHabits)
           /\ "body" \in pressed => layer' = (IF layer = "body" THEN "drive" ELSE "body")
           /\ "head" \notin pressed /\ "body" \notin pressed => layer' = layer
           /\ posed' <=> (posed /\ ~("body" \in pressed /\ layer = "body"))
<1>1. ~("head" \in pressed /\ "body" \in pressed)
    OBVIOUS
<1>2. "head" \in pressed => layer' = (IF layer = "head" THEN "drive" ELSE "head")
    BY <1>1 DEF Turned
<1>3. "body" \in pressed => layer' = (IF layer = "body" THEN "drive" ELSE "body")
    BY <1>1 DEF Turned
<1>4. "head" \notin pressed /\ "body" \notin pressed => layer' = layer
    BY DEF Turned
<1>5. posed' <=> (posed /\ ~("body" \in pressed /\ layer = "body"))
    BY Zenon DEF Turned
<1>6. "head" \in pressed /\ layer = "body" => "headFromBody" \in PadHabits
    BY DEF Turned
<1> QED BY <1>2, <1>3, <1>4, <1>5, <1>6

(* The body is posed while the sticks are on it: no frame that would say    *)
(* otherwise is left out, and the pad that dies in it is not the case.      *)
LEMMA PoseStep == TypeOK /\ PadTypeOK /\ TurnOK /\ PoseOK /\ PadNext => PoseOK'
<1> SUFFICES ASSUME TypeOK, PadTypeOK, TurnOK, PoseOK, PadNext,
                    PadHabits \cap {"headFromBody", "diesInBody"} = {}
             PROVE  PoseOK'
    BY DEF PoseOK
<1> USE DEF PoseOK, PoseIsLetGo
<1>0. posed \in BOOLEAN
    BY DEF PadTypeOK
<1>1. CASE Begin
    <2>1. PICK pressed \in {{}} \cup {{b} : b \in Buttons} : Turned(pressed) /\ todo' = Drained(pressed)
        BY <1>1 DEF Begin
    <2>2. /\ pad = "here" /\ todo = {} /\ ~ticked /\ UNCHANGED <<pad, frame, ticked>>
          /\ "frame" \in todo'
        BY <1>1, <2>1 DEF Begin, Drained
    <2> HIDE DEF PoseIsLetGo
    <2>3. posed' => layer' = "body"
        BY <1>0, <2>1, ButtonTurns
    <2>4. frame' # None => (frame'.layer = "body" /\ layer' = "body" => posed')
        BY <1>0, <2>1, <2>2, ButtonTurns
    <2> QED BY <2>2, <2>3, <2>4 DEF PoseIsLetGo
<1>2. CASE Press
    BY <1>2, PressFrame
<1>3. CASE SendFrame
    <2>0. ~ticked /\ pad = "here" /\ pad' = pad /\ layer' = layer /\ ticked' /\ todo = {"frame"} /\ todo' = {}
        BY <1>3, FrameIsLast DEF SendFrame, TurnOK
    <2>1. PICK push \in BOOLEAN :
            LET this == [layer |-> layer, moves |-> push /\ layer = "drive"] IN
            IF MayHold(this)
            THEN UNCHANGED <<frame, frameAge, slots>>
            ELSE frame' = this /\ (posed' <=> (posed \/ layer = "body"))
        BY <1>3 DEF SendFrame
    <2> DEFINE this == [layer |-> layer, moves |-> push /\ layer = "drive"]
    <2>2. this \in Frame /\ this.layer = layer
        BY DEF PadTypeOK, Frame
    <2> HIDE DEF this
    <2>3. CASE MayHold(this)
        <3>1. this = frame /\ UNCHANGED <<frame, posed>>
            BY <2>1, <2>3 DEF this, MayHold
        <3> QED BY <1>0, <2>0, <2>2, <3>1
    <2>4. CASE ~MayHold(this)
        <3>1. frame' = this /\ (posed' <=> (posed \/ layer = "body"))
            BY <2>1, <2>4 DEF this
        <3> QED BY <1>0, <2>0, <2>2, <3>1
    <2> QED BY <2>3, <2>4
<1>4. CASE Lose \/ Return \/ Die
    <2>1. UNCHANGED <<posed, layer, frame>> /\ (pad' = "here" => ~ticked') /\ pad # "down"
          /\ (pad' # "down" => todo' = todo) /\ (pad' = "down" => ~posed)
        BY <1>4 DEF Lose, Return, Die
    <2> QED BY <1>0, <2>1
<1>5. CASE Restart
    <2>1. posed' = posed /\ pad = "down" /\ frame' = None /\ ~ticked'
        BY <1>5 DEF Restart, Started
    <2> QED BY <1>0, <2>1
<1>6. CASE OtherClient
    BY <1>6, OtherFrame
<1>7. CASE LoopReads
    BY <1>7 DEF LoopReads
<1>8. CASE LoopSteps
    BY <1>8 DEF LoopSteps
<1> QED
    BY <1>1, <1>2, <1>3, <1>4, <1>5, <1>6, <1>7, <1>8 DEF PadNext, PadTick, Press

-----------------------------------------------------------------------------
(* The buttons. *)

\* The counts and what was meant run together.
LEMMA HoldsStep == TypeOK /\ PadTypeOK /\ TurnOK /\ HoldsOK /\ PadNext => HoldsOK'
<1> SUFFICES ASSUME TypeOK, PadTypeOK, TurnOK, HoldsOK, PadNext, "dropsHeld" \notin PadHabits
             PROVE  HoldsOK'
    BY DEF HoldsOK
<1> USE DEF HoldsOK, HoldIsMeant
<1>1. CASE Begin
    <2>1. PICK pressed \in {{}} \cup {{b} : b \in Buttons}, down \in SUBSET Holds :
            /\ Counted(down) /\ todo' = Drained(pressed)
            /\ meant' = [b \in Holds |-> IF b \in down THEN UpTo(meant[b] + 1, Hold + 1) ELSE 0]
        BY <1>1 DEF Begin
    <2>2. pad' = "here"
        BY <1>1 DEF Begin
    <2>3. \A b \in Holds : since'[b] = meant'[b]
        BY <2>1 DEF Counted
    <2>4. /\ "shutdown" \in todo' => since'["select"] = Hold + 1
          /\ "setMode" \in todo' => since'["dpadUp"] = Hold + 1
        BY <2>1 DEF Drained, Due
    <2> QED BY <2>2, <2>3, <2>4 DEF Holds
<1>2. CASE Press
    BY <1>2, PressFrame
<1>3. CASE SendFrame
    BY <1>3 DEF SendFrame, Turn
<1>4. CASE Lose
    BY <1>4 DEF Lose
<1>5. CASE Return \/ Die
    BY <1>5 DEF Return, Die
<1>6. CASE Restart
    BY <1>6 DEF Restart, Started
<1>7. CASE OtherClient
    BY <1>7, OtherFrame
<1>8. CASE LoopReads
    <2>1. UNCHANGED <<pad, meant, todo>>
        BY <1>8 DEF LoopReads
    <2>2. \A b \in Holds : since'[b] = since[b]
        BY <1>8 DEF LoopReads, PadTypeOK
    <2> QED BY <2>1, <2>2
<1>9. CASE LoopSteps
    BY <1>9 DEF LoopSteps
<1> QED
    BY <1>1, <1>2, <1>3, <1>4, <1>5, <1>6, <1>7, <1>8, <1>9 DEF PadNext, PadTick, Press

-----------------------------------------------------------------------------
(* The drive mode. *)

\* Of padd's presses only the one that switches modes changes what it takes the robot for.
LEMMA PressMode ==
    ASSUME Press
    PROVE  \/ UNCHANGED <<modeSwitch, roller>>
           \/ HoldDPadUp
<1>1. CASE PressStart
    BY <1>1 DEF PressStart, Enable, RequestInit
<1>2. CASE PressSkill
    BY <1>2 DEF PressSkill, RequestSkill, vars, intents
<1>3. CASE PressSelect \/ PressDPadRight \/ HoldSelect
    BY <1>3 DEF PressSelect, PressDPadRight, HoldSelect, RequestRelax, RequestRebootMotors,
                RequestShutdown
<1> QED BY <1>1, <1>2, <1>3 DEF Press

\* The steps of a tick that take a mode, switch to one, or swap the networks ...
ModeMoves == TakeMode \/ SwitchMode \/ Swap

\* ... and what the other steps leave alone.
LEMMA ModeStays ==
    ASSUME TypeOK, Tick, ~ModeMoves
    PROVE  UNCHANGED <<modeSwitch, modeChange, running>>
<1>1. CASE TakePower \/ TakeSkills \/ BringUp \/ SitDown \/ Drive
    BY <1>1, ConfigKept
<1>2. CASE Read \/ TakeReboot \/ PollChange \/ BeginChange \/ NoShutdown \/ PowerOffAtOnce
           \/ SitComplete \/ LimpFall \/ NotHome \/ ArriveHome \/ NoSwap \/ SwapFails
    BY <1>2
    DEF Read, TakeReboot, PollChange, BeginChange, ChangeStep, NoShutdown, ShutdownStep,
        PowerOffAtOnce, SitComplete, LimpFall, NotHome, ArriveHome, HomeStep, NoSwap, SwapStep,
        SwapFails, intents, gait, networks
<1> QED BY <1>1, <1>2 DEF Tick, ModeMoves

\* The loop follows what it was asked for last.
LEMMA ModeTick ==
    ASSUME TypeOK, Told, "modeOverChange" \notin Habits, roller \in BOOLEAN, Tick,
           modeSwitch # None => (modeSwitch = "roller" <=> roller),
           modeChange # None => (modeChange = "roller" <=> roller),
           ~ModeInFlight => (running.mode = "roller" <=> roller)
    PROVE  /\ modeSwitch' # None => (modeSwitch' = "roller" <=> roller)
           /\ modeChange' # None => (modeChange' = "roller" <=> roller)
           /\ ~ModeInFlight' => (running'.mode = "roller" <=> roller)
<1>0. running \in Config /\ running.mode \in Mode
    BY DEF TypeOK, NetworksOK, Config
<1>1. CASE TakeMode
    <2>1. modeSwitch' = None /\ running' = running
        BY <1>1 DEF TakeMode, gait, networks
    <2>2. CASE modeSwitch \notin {None, running.mode} /\ modeChange = None
        <3>1. modeChange' = modeSwitch
            BY <1>1, <2>2 DEF TakeMode
        <3> QED BY <2>1, <2>2, <3>1 DEF ModeInFlight
    <2>3. CASE ~(modeSwitch \notin {None, running.mode} /\ modeChange = None)
        <3>1. modeChange' = modeChange
            BY <1>1, <2>3 DEF TakeMode
        <3> QED BY <2>1, <2>3, <3>1 DEF ModeInFlight
    <2> QED BY <2>2, <2>3
<1>2. CASE SwitchMode
    <2>1. running'.mode = modeChange /\ modeChange # None /\ modeChange' = None
        BY <1>0, <1>2 DEF SwitchMode, Config
    <2>2. modeSwitch' = modeSwitch
        BY <1>2 DEF SwitchMode, HomeStep, intents
    <2> QED BY <2>1, <2>2 DEF ModeInFlight
<1>3. CASE Swap
    <2>1. running'.mode = running.mode
        BY <1>3 DEF Swap, SwapReady, Told, SaidOK, Without
    <2>2. UNCHANGED <<modeSwitch, modeChange>>
        BY <1>3 DEF Swap, SwapStep, intents
    <2> QED BY <2>1, <2>2 DEF ModeInFlight
<1>4. CASE ~ModeMoves
    BY <1>4, ModeStays DEF ModeInFlight
<1> QED BY <1>1, <1>2, <1>3, <1>4 DEF ModeMoves

(* padd's belief follows the mode that the robot was asked for.             *)
LEMMA RollerStep ==
    TypeOK /\ Told /\ PadTypeOK /\ TurnOK /\ RollerOK /\ PadNext => RollerOK'
<1> SUFFICES ASSUME TypeOK, Told, PadTypeOK, TurnOK, RollerOK, PadNext,
                    "modeOverChange" \notin Habits,
                    PadHabits \cap {"othersMode", "midSwitch"} = {}
             PROVE  RollerOK'
    BY DEF RollerOK
<1>0. roller \in BOOLEAN
    BY DEF PadTypeOK
<1> USE DEF RollerOK
<1>1. CASE Begin
    <2>1. UNCHANGED <<modeSwitch, modeChange, running, roller>>
        BY <1>1 DEF Begin, vars, intents, gait, networks
    <2>2. "setMode" \in todo' => ~ModeInFlight
        BY <1>1 DEF Begin
    <2> QED BY <2>1, <2>2 DEF ModeInFlight
<1>2. CASE Press
    <2>1. UNCHANGED <<modeChange, running>> /\ todo' \subseteq todo
        BY <1>2, PressFrame
    <2>2. CASE UNCHANGED <<modeSwitch, roller>>
        BY <2>1, <2>2 DEF ModeInFlight
    <2>3. CASE HoldDPadUp
        <3>1. "setMode" \in todo
            BY <2>3, FrameIsLast DEF HoldDPadUp, Asked
        <3>2. modeSwitch' = (IF roller THEN "walk" ELSE "roller") /\ (roller' <=> ~roller)
            BY <2>3 DEF HoldDPadUp
        <3>3. modeSwitch' # None /\ (modeSwitch' = "roller" <=> roller')
            BY <1>0, <3>2, ControlAssumption DEF Mode
        <3> QED BY <2>1, <3>1, <3>3 DEF ModeInFlight
    <2> QED BY <1>2, <2>2, <2>3, PressMode
<1>3. CASE SendFrame \/ Lose \/ Return \/ Die
    <2>1. UNCHANGED <<modeSwitch, modeChange, running, roller>> /\ todo' \subseteq todo
        BY <1>3 DEF SendFrame, Turn, Lose, Return, Die, vars, intents, gait, networks
    <2> QED BY <2>1 DEF ModeInFlight
<1>4. CASE Restart
    <2>1. UNCHANGED <<modeSwitch, modeChange, running>> /\ todo' = {} /\ ~ModeInFlight
        BY <1>4 DEF Restart, Started, vars, intents, gait, networks
    <2>2. roller' <=> published.mode = "roller"
        BY <1>4, Zenon DEF Restart, Started
    <2>3. published = running
        BY DEF Told, SaidOK, Without
    <2> QED BY <2>1, <2>2, <2>3 DEF ModeInFlight
<1>5. CASE OtherClient
    <2>1. UNCHANGED <<modeChange, running, roller, todo>>
        BY <1>5, OtherFrame
    <2>2. CASE modeSwitch' = modeSwitch
        BY <2>1, <2>2 DEF ModeInFlight
    <2>3. CASE RequestMode /\ (modeSwitch' = "roller" <=> roller)
        <3>1. modeSwitch' # None
            BY <2>3, ControlAssumption DEF RequestMode
        <3> QED BY <2>1, <2>3, <3>1 DEF ModeInFlight
    <2>4. modeSwitch' = modeSwitch \/ (RequestMode /\ (modeSwitch' = "roller" <=> roller))
        <3>1. CASE RequestInit \/ RequestShutdown \/ RequestRelax \/ RequestRebootMotors
            BY <3>1 DEF RequestInit, RequestShutdown, RequestRelax, RequestRebootMotors
        <3>2. CASE RequestMode /\ (modeSwitch' = "roller") = roller
            BY <1>0, <3>2
        <3> QED BY <1>5, <3>1, <3>2 DEF OtherClient
    <2> QED BY <2>2, <2>3, <2>4
<1>6. CASE LoopReads \/ LoopSteps
    <2>1. Tick /\ todo' = todo /\ roller' = roller
        BY <1>6 DEF LoopReads, LoopSteps, Tick
    <2>2. todo = {}
        BY <1>6 DEF LoopReads, LoopSteps, TurnOK
    <2> QED BY <1>0, <2>1, <2>2, ModeTick
<1> QED BY <1>1, <1>2, <1>3, <1>4, <1>5, <1>6 DEF PadNext, PadTick, Press

-----------------------------------------------------------------------------
(* Two presses of Start. *)

\* Where the robot goes limp: what a tick does to the power that clients asked for.
LEMMA PowerTick ==
    ASSUME TypeOK, Tick, pc # "read"
    PROVE  /\ (enabled' => enabled) /\ (reboot' => reboot) /\ (snapshot' => snapshot)
           /\ power' = power \/ power' = "none"
           /\ pc = "power"  => power' = "none" /\ pc' = "reboot"
           /\ pc = "reboot" => ~reboot' /\ pc' = "skills"
           /\ pc \notin {"power", "reboot"} => pc' \notin {"power", "reboot"}
           /\ pc' = "read" => pc = "drive"
           /\ poweredOff => poweredOff'
           /\ bringup # "limp" /\ bringup' = "limp" =>
                 Cutting \/ (poweredOff' /\ pc = "shutdown")
           /\ bringup # "limp" /\ bringup' = "limp" /\ ~poweredOff' => ~wasDriving'
           /\ pc = "drive" => /\ wasDriving' => snapshot /\ ~poweredOff
                              /\ UNCHANGED <<bringup, poweredOff>>
           /\ pc # "drive" => (wasDriving' => wasDriving)
<1> USE DEF Then, intents, status, networks, gait, ending, Cutting
<1>0. wasDriving \in BOOLEAN /\ enabled \in BOOLEAN /\ snapshot \in BOOLEAN /\ reboot \in BOOLEAN
    BY DEF TypeOK, LoopOK, IntentsOK
<1>1. CASE TakePower
    <2>1. /\ pc = "power" /\ pc' = "reboot" /\ power' = "none"
          /\ UNCHANGED <<enabled, reboot, snapshot, poweredOff>>
        BY <1>1 DEF TakePower
    <2>2. CASE power = "relax"
        <3>1. UNCHANGED wasDriving \/ ~wasDriving'
            BY <1>1, <2>2, Zenon DEF TakePower, GoLimp
        <3>2. bringup' # bringup => ~wasDriving'
            BY <1>1, <2>2 DEF TakePower, GoLimp
        <3> QED BY <1>0, <2>1, <2>2, <3>1, <3>2
    <2>3. CASE power # "relax"
        <3>1. bringup' \in {bringup, "homing", "ready"}
            BY <1>1, <2>3, Zenon DEF TakePower, PowerUp, ComeUp, StayDown
        <3>2. UNCHANGED wasDriving
            BY <1>1, <2>3, Zenon DEF TakePower
        <3> QED BY <1>0, <2>1, <3>1, <3>2
    <2> QED BY <2>2, <2>3
<1>2. CASE TakeReboot
    <2>1. /\ pc = "reboot" /\ pc' = "skills" /\ ~reboot'
          /\ UNCHANGED <<enabled, power, snapshot, poweredOff>>
        BY <1>2 DEF TakeReboot
    <2>2. IF reboot THEN ~wasDriving' ELSE UNCHANGED <<bringup, wasDriving>>
        BY <1>2 DEF TakeReboot, GoLimp
    <2> QED BY <1>0, <2>1, <2>2
<1>3. CASE TakeSkills \/ PollChange
    BY <1>0, <1>3 DEF TakeSkills, PollChange, ChangeStep
<1>4. CASE TakeMode
    <2>1. bringup' \in {bringup, "homing"}
        BY <1>4 DEF TakeMode
    <2> QED BY <1>0, <1>4, <2>1 DEF TakeMode
<1>5. CASE BeginChange
    <2>1. bringup' \in {bringup, "homing"}
        BY <1>5 DEF BeginChange
    <2> QED BY <1>0, <1>5, <2>1 DEF BeginChange, ChangeStep
<1>6. CASE NoShutdown \/ SitDown
    BY <1>0, <1>6 DEF NoShutdown, SitDown, ShutdownStep
<1>7. CASE PowerOffAtOnce \/ SitComplete
    BY <1>0, <1>7 DEF PowerOffAtOnce, SitComplete, PowerOff, ShutdownStep
<1>8. CASE LimpFall
    BY <1>0, <1>8 DEF LimpFall
<1>9. CASE BringUp
    <2>1. bringup' \in {bringup, "homing", "ready"}
        BY <1>9 DEF BringUp, PowerUp, ComeUp, StayDown
    <2> QED BY <1>0, <1>9, <2>1 DEF BringUp
<1>10. CASE NotHome \/ ArriveHome \/ SwitchMode
    BY <1>0, <1>10 DEF NotHome, ArriveHome, SwitchMode, HomeStep
<1>11. CASE NoSwap \/ Swap \/ SwapFails
    BY <1>0, <1>11 DEF NoSwap, Swap, SwapFails, SwapStep
<1>12. CASE Drive
    <2>1. wasDriving' => snapshot /\ ~poweredOff
        BY <1>12 DEF Drive, Driving
    <2> QED BY <1>0, <1>12, <2>1 DEF Drive
<1>13. CASE Read
    BY <1>13 DEF Read
<1> QED
    BY <1>1, <1>2, <1>3, <1>4, <1>5, <1>6, <1>7, <1>8, <1>9, <1>10, <1>11, <1>12, <1>13 DEF Tick

\* What the presses ask of the power.
LEMMA PressPower ==
    ASSUME Press
    PROVE  \/ /\ PressStart /\ "start" \in todo /\ up' /\ starts' = UpTo(starts + 1, 2)
              /\ reboot' = reboot
              /\ \/ up /\ power' = power /\ (enabled' <=> ~enabled)
                 \/ ~up /\ power' = "init" /\ enabled' = enabled
           \/ /\ starts' = starts /\ ~up' /\ ~enabled'
              /\ power' \in {power, "relax"} /\ (reboot' = reboot \/ reboot')
           \/ /\ starts' = starts /\ (up' = up \/ ~up') /\ UNCHANGED <<enabled, power, reboot>>
<1>1. CASE PressStart
    BY <1>1 DEF PressStart, Asked, Turn, Enable, RequestInit
<1>2. CASE PressSkill
    BY <1>2 DEF PressSkill, RequestSkill, vars, intents, beliefs
<1>3. CASE PressSelect
    BY <1>3 DEF PressSelect, RequestRelax
<1>4. CASE PressDPadRight
    BY <1>4 DEF PressDPadRight, RequestRebootMotors
<1>5. CASE HoldSelect
    BY <1>5 DEF HoldSelect, RequestShutdown
<1>6. CASE HoldDPadUp
    BY <1>6 DEF HoldDPadUp, RequestMode
<1> QED BY <1>1, <1>2, <1>3, <1>4, <1>5, <1>6 DEF Press

(* A robot that was limp has taken a Start to stand and one to go.          *)
LEMMA StartsStep == TypeOK /\ PadTypeOK /\ TurnOK /\ StartsOK /\ PadNext => StartsOK'
<1> SUFFICES ASSUME TypeOK, PadTypeOK, TurnOK, StartsOK, PadNext, "othersRelax" \notin PadHabits
             PROVE  StartsOK'
    BY DEF StartsOK
<1>0. /\ enabled \in BOOLEAN /\ reboot \in BOOLEAN /\ snapshot \in BOOLEAN /\ wasDriving \in BOOLEAN
      /\ poweredOff \in BOOLEAN /\ up \in BOOLEAN /\ starts \in 0..2
    BY DEF TypeOK, IntentsOK, LoopOK, PadTypeOK
<1> USE DEF StartsOK, Cutting
<1>1. CASE Begin
    <2>1. UNCHANGED <<pc, power, reboot, enabled, up, snapshot, poweredOff, starts, wasDriving>>
        BY <1>1 DEF Begin, vars, intents, ending
    <2>2. pc = "read" /\ ~ticked /\ todo = {}
        BY <1>1 DEF Begin
    <2> QED BY <2>1, <2>2
<1>2. CASE Press
    <2>1. /\ UNCHANGED <<pc, snapshot, wasDriving, poweredOff, ticked>> /\ pc = "read" /\ ~ticked
          /\ todo # {} /\ "frame" \in todo' /\ "start" \notin todo'
        BY <1>2, PressFrame, PressFrame DEF TurnOK
    <2>2. UpTo(starts + 1, 2) = (IF starts < 2 THEN starts + 1 ELSE 2)
        BY <1>0 DEF UpTo
    <2>3. CASE /\ "start" \in todo /\ up' /\ starts' = UpTo(starts + 1, 2) /\ reboot' = reboot
               /\ \/ up /\ power' = power /\ (enabled' <=> ~enabled)
                  \/ ~up /\ power' = "init" /\ enabled' = enabled
        <3>1. ~Cutting
            BY <2>1, <2>3
        <3> QED BY <1>0, <2>1, <2>2, <2>3, <3>1
    <2>4. CASE /\ starts' = starts /\ ~up' /\ ~enabled'
               /\ power' \in {power, "relax"} /\ (reboot' = reboot \/ reboot')
        BY <1>0, <2>1, <2>4
    <2>5. CASE /\ starts' = starts /\ (up' = up \/ ~up') /\ UNCHANGED <<enabled, power, reboot>>
        BY <1>0, <2>1, <2>5
    <2> QED BY <1>2, <2>3, <2>4, <2>5, PressPower
<1>3. CASE SendFrame \/ Lose \/ Die
    <2>1. UNCHANGED <<pc, power, reboot, enabled, up, snapshot, poweredOff, starts, wasDriving>>
        BY <1>3 DEF SendFrame, Lose, Die, vars, intents, ending
    <2>2. ticked'
        BY <1>3 DEF SendFrame, Lose, Die
    <2> QED BY <2>1, <2>2
<1>4. CASE Return \/ Restart
    <2>1. /\ UNCHANGED <<pc, power, reboot, enabled, snapshot, poweredOff, starts, wasDriving>>
          /\ up' = up \/ ~up'
        BY <1>4 DEF Return, Restart, Started, vars, intents, ending
    <2>2. pc = "read" /\ ~ticked /\ todo = {}
        BY <1>4 DEF Return, Restart, TurnOK
    <2> QED BY <2>1, <2>2
<1>5. CASE OtherClient
    <2>1. UNCHANGED <<pc, snapshot, poweredOff, wasDriving, ticked, todo, up, starts>>
        BY <1>5, OtherFrame
    <2>2. CASE RequestInit
        <3>1. power' = "init" /\ UNCHANGED <<enabled, reboot>>
            BY <2>2 DEF RequestInit
        <3> QED BY <2>1, <3>1
    <2>3. CASE RequestShutdown \/ RequestMode
        <3>1. UNCHANGED <<enabled, power, reboot>>
            BY <2>3 DEF RequestShutdown, RequestMode
        <3> QED BY <2>1, <3>1
    <2>4. CASE (RequestRelax \/ RequestRebootMotors) /\ ~up /\ ticked
        <3>1. ~enabled' /\ pc = "read"
            BY <2>4 DEF RequestRelax, RequestRebootMotors, TurnOK
        <3> QED BY <1>0, <2>1, <2>4, <3>1
    <2> QED BY <1>5, <2>2, <2>3, <2>4 DEF OtherClient
<1>6. CASE LoopReads
    <2>1. /\ UNCHANGED <<power, reboot, enabled, up, poweredOff, starts, wasDriving>>
          /\ pc = "read" /\ pc' = "power" /\ snapshot' = enabled
        BY <1>6 DEF LoopReads, Read, Then, intents, ending
    <2> QED BY <1>0, <2>1
<1>7. CASE LoopSteps
    <2>1. /\ Tick /\ pc # "read" /\ up' = up
          /\ starts' = IF bringup # "limp" /\ bringup' = "limp" THEN 0 ELSE starts
        BY <1>7 DEF LoopSteps
    <2>2. /\ pc' \notin {"read", "power"} => power' # "relax"
          /\ pc' \notin {"read", "power", "reboot"} => ~reboot'
          /\ Cutting' => Cutting
          /\ pc' = "read" => ~Cutting
        BY <2>1, PowerTick
    <2>3. CASE bringup # "limp" /\ bringup' = "limp"
        <3>1. \/ Cutting
              \/ poweredOff' /\ pc = "shutdown"
            BY <2>1, <2>3, PowerTick
        <3>2. ~poweredOff' => ~up /\ ~enabled /\ ~snapshot /\ ~wasDriving'
            BY <2>1, <2>3, <3>1, PowerTick
        <3>3. wasDriving' => poweredOff' /\ pc' # "read"
            BY <2>1, <2>3, <3>2, PowerTick
        <3> QED BY <1>0, <2>1, <2>2, <2>3, <3>2, <3>3, PowerTick
    <2>4. CASE ~(bringup # "limp" /\ bringup' = "limp")
        <3>1. starts' = starts
            BY <2>1, <2>4
        <3>2. wasDriving' => starts = 2 \/ (poweredOff' /\ pc' # "read")
            BY <2>1, PowerTick
        <3> QED BY <1>0, <2>1, <2>2, <3>1, <3>2, PowerTick
    <2> QED BY <2>3, <2>4
<1> QED BY <1>1, <1>2, <1>3, <1>4, <1>5, <1>6, <1>7 DEF PadNext, PadTick, Press

-----------------------------------------------------------------------------
(* The invariant, and the properties it gives. *)

\* padd starts with a robot that is down, and with nothing asked of it.
LEMMA InitPadIInv == PadInit => PadIInv
<1> SUFFICES ASSUME PadInit PROVE PadIInv
    OBVIOUS
<1>1. PadTypeOK
    BY PadInitType
<1>2. TurnOK
    BY DEF PadInit, Init, TurnOK
<1>3. SticksOK
    BY DEF PadInit, Init, SticksOK, StopsInTime, HeldIsHeeded, IdleIsNotDead
<1>4. PoseOK
    BY DEF PadInit, PoseOK, PoseIsLetGo
<1>5. HoldsOK
    BY DEF PadInit, HoldsOK, HoldIsMeant
<1>6. StartsOK
    BY DEF PadInit, Init, StartsOK, Cutting
<1>7. RollerOK
    <2>1. roller <=> running.mode = "roller"
        BY Zenon DEF PadInit, Init
    <2> QED BY <2>1 DEF PadInit, Init, RollerOK, ModeInFlight
<1> QED BY <1>1, <1>2, <1>3, <1>4, <1>5, <1>6, <1>7 DEF PadIInv

\* Every step of either keeps it.
LEMMA StepPadIInv == Told /\ PadIInv /\ [PadNext]_padAll => PadIInv'
<1> SUFFICES ASSUME Told, PadIInv, [PadNext]_padAll PROVE PadIInv'
    OBVIOUS
<1>0. TypeOK
    BY DEF Told, IInv
<1>1. CASE PadNext
    BY <1>0, <1>1, PadTypeStep, TurnStep, SticksStep, PoseStep, HoldsStep, StartsStep, RollerStep
    DEF PadIInv
<1>2. CASE UNCHANGED padAll
    <2> USE <1>2 DEF padAll, vars, intents, status, gait, networks, ending
    <2>1. PadTypeOK' /\ TurnOK'
        BY DEF PadIInv, PadTypeOK, TurnOK
    <2>2. SticksOK'
        BY DEF PadIInv, SticksOK, StopsInTime, HeldIsHeeded, IdleIsNotDead
    <2>3. PoseOK' /\ HoldsOK'
        BY DEF PadIInv, PoseOK, PoseIsLetGo, HoldsOK, HoldIsMeant
    <2>4. StartsOK' /\ RollerOK'
        BY DEF PadIInv, StartsOK, Cutting, RollerOK, ModeInFlight
    <2> QED BY <2>1, <2>2, <2>3, <2>4 DEF PadIInv
<1> QED BY <1>1, <1>2

\* What holds of the loop alone holds of it with padd, and padd's own with it.
LEMMA PadInvariance == PadSpec => [](Told /\ PadIInv)
<1>1. PadInit => PadIInv
    BY InitPadIInv
<1>2. Told /\ PadIInv /\ [PadNext]_<<vars, padVars>> => PadIInv'
    BY StepPadIInv DEF padAll
<1>3. PadSpec => []Told
    BY PadIsAClient, ToldInvariance, PTL
<1> QED BY <1>1, <1>2, <1>3, PTL DEF PadSpec

(* padd's counts, beliefs, frames and ages have their types, whatever is    *)
(* pressed, lost or restarted (padd/src/main.rs).                           *)
THEOREM PadTypeCorrect == PadSpec => []PadTypeOK
<1>1. PadIInv => PadTypeOK
    BY DEF PadIInv
<1> QED BY <1>1, PadInvariance, PTL

(* In every circumstance: a robot whose stick was let go of, or whose pad   *)
(* or padd was lost, stops within the deadman; a stick that is held drives  *)
(* at every tick; and a pad that lies untouched is not taken for a dead one *)
(* (padd's may_hold and heartbeat against robotd's deadman).                *)
THEOREM DrivenWhileHeld == PadSpec => [](StopsInTime /\ HeldIsHeeded /\ IdleIsNotDead)
<1>1. PadIInv => StopsInTime /\ HeldIsHeeded /\ IdleIsNotDead
    BY DEF PadIInv, SticksOK
<1> QED BY <1>1, PadInvariance, PTL

(* The body is let go of too where padd does not die, and the head button   *)
(* is not pressed, while the sticks pose it (padd's layers, robotd's pose   *)
(* slot, which has no deadman).                                             *)
THEOREM SticksHeeded ==
    PadHabits \cap {"headFromBody", "diesInBody"} = {} => (PadSpec => []SticksAreHeeded)
<1> SUFFICES ASSUME PadHabits \cap {"headFromBody", "diesInBody"} = {}
             PROVE  PadSpec => []SticksAreHeeded
    OBVIOUS
<1>1. PadIInv => SticksAreHeeded
    BY DEF PadIInv, SticksOK, PoseOK, SticksAreHeeded
<1> QED BY <1>1, PadInvariance, PTL

(* Where no pad is lost with a button down, and nobody else cuts the torque *)
(* of a robot that padd thinks is up: a shutdown and a mode switch take a   *)
(* button held for Hold ticks without a break, and a robot that was limp    *)
(* takes two presses of Start to set off (padd's holds and Start).          *)
THEOREM PressesMeant ==
    PadHabits \cap {"dropsHeld", "othersRelax"} = {} => (PadSpec => []PressesAreMeant)
<1> SUFFICES ASSUME PadHabits \cap {"dropsHeld", "othersRelax"} = {}
             PROVE  PadSpec => []PressesAreMeant
    OBVIOUS
<1>1. Told /\ PadIInv => PressesAreMeant
    BY DEF PadIInv, HoldsOK, StartsOK, PressesAreMeant, TwoStarts
<1> QED BY <1>1, PadInvariance, PTL

(* Where mode switches and policy changes do not overlap, nobody else       *)
(* switches against padd and it does not switch twice over, the sticks are  *)
(* shaped for the mode that runs (padd's `roller`, robotd's setMode).       *)
THEOREM ShapedForTheRobot ==
    "modeOverChange" \notin Habits /\ PadHabits \cap {"othersMode", "midSwitch"} = {} =>
        (PadSpec => []RollerIsTheRobots)
<1> SUFFICES ASSUME "modeOverChange" \notin Habits, PadHabits \cap {"othersMode", "midSwitch"} = {}
             PROVE  PadSpec => []RollerIsTheRobots
    OBVIOUS
<1>1. PadIInv => RollerIsTheRobots
    <2> SUFFICES ASSUME PadIInv, ~ModeInFlight PROVE roller = (running.mode = "roller")
        BY DEF RollerIsTheRobots
    <2>1. roller \in BOOLEAN /\ (running.mode = "roller" <=> roller)
        BY DEF PadIInv, PadTypeOK, RollerOK
    <2> QED BY <2>1
<1> QED BY <1>1, PadInvariance, PTL

=============================================================================

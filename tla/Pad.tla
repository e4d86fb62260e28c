-------------------------------- MODULE Pad --------------------------------
(***************************************************************************)
(* padd, the gamepad's daemon, driving the control loop of ControlLoop.    *)
(*                                                                         *)
(* padd ticks as often as the loop does: it drains the button presses,     *)
(* makes one request after another, each answered at once, and ends with   *)
(* the frame of its sticks -- which it leaves out while that says nothing  *)
(* new.  It keeps beliefs of its own: that the robot is up, and what drive *)
(* mode it is in.  A pad goes out of range and comes back, padd dies and   *)
(* is started again, and other clients make requests in between.           *)
(***************************************************************************)
EXTENDS ControlLoop

CONSTANTS
    Hold,        \* ticks a button is held before it shuts down, or switches mode
    Heartbeat,   \* ticks a frame that says nothing new may go unsent
    Deadman,     \* ticks after which robotd stops a robot nobody steers
    MaxLosses,   \* bound: pads out of range and deaths of padd
    PadHabits    \* what happens around the pad, see below

(***************************************************************************)
(* Circumstances that padd does not rule out; a run admits some.           *)
(***************************************************************************)
PadHabitKinds == {
    "dropsHeld",     \* the pad is lost while a button is held
    "diesInBody",    \* padd dies while the sticks pose the body
    "headFromBody",  \* the head button while the sticks pose the body
    "othersRelax",   \* another client cuts the torque when the pad thinks, or may come to
                     \* think before the loop acts, that the robot is up
    "othersMode",    \* another client asks for the other drive mode
    "midSwitch" }    \* a second mode switch, or a start of padd, before the first has landed

Buttons == {"start", "head", "body", "dpadDown", "select", "dpadRight"}
Holds   == {"select", "dpadUp"}
Layers  == {"drive", "head", "body"}
Frame   == [layer : Layers, moves : BOOLEAN]

\* One tick of padd, in the order of its code.
Tasks == <<"start", "skill", "relax", "reboot", "shutdown", "setMode", "frame">>

ASSUME PadAssumption ==
    /\ Hold \in Nat \ {0} /\ Heartbeat \in Nat /\ Deadman \in Nat \ {0} /\ MaxLosses \in Nat
    /\ Heartbeat <= Deadman
    /\ None \notin Frame
    /\ PadHabits \subseteq PadHabitKinds

VARIABLES
    pad,        \* "here", "gone" (padd sees none), "down" (padd does not run)
    ticked,     \* padd has ticked since the loop did
    todo,       \* what is left of this tick
    up, roller, \* beliefs: the robot stands, and rolls
    since,      \* ticks since a button that is held went down, Hold + 1 once acted on
    layer,      \* what the sticks drive
    frame,      \* the last frame on the wire, or None, ...
    frameAge,   \* ... and its age
    \* robotd's side of it.
    twist, twistAge, posed,
    command,    \* the robot was asked to move, as the deadman let it through
    \* History, and the bound.
    meant,      \* ticks in which padd saw the button down without a break
    pushed,     \* ticks of the loop since a stick was pushed
    starts,     \* presses of Start since the robot last went limp
    losses

beliefs == <<up, roller>>
sticks  == <<layer, frame, frameAge>>
slots   == <<twist, twistAge, posed>>
history == <<meant, pushed, starts>>
padVars == <<pad, ticked, todo, beliefs, since, sticks, slots, command, history, losses>>

PadTypeOK ==
    /\ pad \in {"here", "gone", "down"} /\ ticked \in BOOLEAN
    /\ todo \subseteq {Tasks[i] : i \in DOMAIN Tasks}
    /\ up \in BOOLEAN /\ roller \in BOOLEAN
    /\ since \in [Holds -> 0..Hold + 1] /\ meant \in [Holds -> 0..Hold + 1]
    /\ layer \in Layers
    /\ frame \in Frame \cup {None} /\ frameAge \in 0..Heartbeat
    /\ twist \in BOOLEAN /\ twistAge \in 0..Deadman + 1 /\ posed \in BOOLEAN
    /\ command \in BOOLEAN /\ pushed \in 0..Deadman + 2 /\ starts \in 0..2
    /\ losses \in 0..MaxLosses

UpTo(n, most) == IF n < most THEN n ELSE most

\* Fault: whether the robot rolls is not asked again.
StartedWalking ==
    /\ pad' = "here" /\ ticked' = FALSE /\ todo' = {}
    /\ up' = FALSE /\ roller' = FALSE
    /\ since' = [b \in Holds |-> 0] /\ meant' = [b \in Holds |-> 0]
    /\ layer' = "drive" /\ frame' = None /\ frameAge' = 0

\* padd as it starts: whether the robot rolls is asked once, that it is down is assumed.
Started ==
    /\ pad' = "here" /\ ticked' = FALSE /\ todo' = {}
    /\ up' = FALSE /\ roller' = (published.mode = "roller")
    /\ since' = [b \in Holds |-> 0] /\ meant' = [b \in Holds |-> 0]
    /\ layer' = "drive" /\ frame' = None /\ frameAge' = 0

PadInit ==
    /\ Init
    /\ pad = "here" /\ ticked = FALSE /\ todo = {}
    /\ up = FALSE /\ roller = (published.mode = "roller")
    /\ since = [b \in Holds |-> 0] /\ meant = [b \in Holds |-> 0]
    /\ layer = "drive" /\ frame = None /\ frameAge = 0
    /\ twist = FALSE /\ twistAge = Deadman + 1 /\ posed = FALSE /\ command = FALSE
    /\ pushed = Deadman + 2 /\ starts = 0 /\ losses = 0

-----------------------------------------------------------------------------
(* A tick of padd.                                                         *)

\* Faults: a count that goes on after the button was let go.
CountedOn(down) ==
    since' = [b \in Holds |-> IF b \in down THEN UpTo(since[b] + 1, Hold + 1) ELSE since[b]]

Counted(down) ==
    since' = [b \in Holds |-> IF b \in down THEN UpTo(since[b] + 1, Hold + 1) ELSE 0]

\* Held long enough, and not acted on yet.
Due(b) == since'[b] = Hold + 1 /\ since[b] # Hold + 1

\* The head button leaves the body posed; only the body button lets go of it.
Turned(pressed) ==
    /\ layer' = CASE "head" \in pressed -> (IF layer = "head" THEN "drive" ELSE "head")
                  [] "body" \in pressed -> (IF layer = "body" THEN "drive" ELSE "body")
                  [] OTHER              -> layer
    /\ posed' = (posed /\ ~("body" \in pressed /\ layer = "body"))
    /\ "head" \in pressed /\ layer = "body" => "headFromBody" \in PadHabits

\* What the presses and holds of this tick ask for.
Drained(pressed) ==
    {"frame"} \cup {t \in {"start", "skill", "relax", "reboot", "shutdown", "setMode"} :
        CASE t = "start"    -> "start" \in pressed
          [] t = "skill"    -> "dpadDown" \in pressed
          [] t = "relax"    -> "select" \in pressed
          [] t = "reboot"   -> "dpadRight" \in pressed
          [] t = "shutdown" -> Due("select")
          [] t = "setMode"  -> Due("dpadUp")}

Requests(tasks) == Cardinality(tasks \ {"frame"})

\* At most one press in a tick of 20 ms, and no release and press within one.
Begin ==
    /\ pc = "read" /\ pad = "here" /\ ~ticked /\ todo = {}
    /\ \E pressed \in {{}} \cup {{b} : b \in Buttons}, down \in SUBSET Holds :
        /\ "select" \in pressed => "select" \in down /\ (since["select"] = 0 \/ meant["select"] = 0)
        /\ "select" \in down => "select" \in pressed \/ meant["select"] > 0
        /\ Counted(down)
        /\ Turned(pressed)
        /\ todo' = Drained(pressed)
        /\ meant' = [b \in Holds |-> IF b \in down THEN UpTo(meant[b] + 1, Hold + 1) ELSE 0]
        /\ requests + Requests(todo') <= MaxRequests
        /\ "setMode" \in todo' /\ ModeInFlight => "midSwitch" \in PadHabits
    /\ UNCHANGED <<vars, pad, ticked, beliefs, frame, frameAge, twist, twistAge, command,
                   pushed, starts, losses>>

Turn(task) ==
    /\ task \in todo
    /\ \A i, j \in DOMAIN Tasks : Tasks[i] \in todo /\ Tasks[j] = task => j <= i
    /\ todo' = todo \ {task}

Asked(task) ==
    Turn(task) /\ UNCHANGED <<pad, ticked, since, sticks, slots, command, meant, pushed, losses>>

\* Start stands the robot up, and once it is thought to be up toggles the policy.
PressStart ==
    /\ Asked("start")
    /\ IF up THEN Enable ELSE RequestInit
    /\ up' = TRUE /\ starts' = UpTo(starts + 1, 2)
    /\ UNCHANGED roller

\* The binding of D-pad down; the answer is only logged.
PressSkill ==
    /\ Asked("skill")
    /\ IF enabled /\ homed /\ published.slots["sitstand"] # "none"
       THEN RequestSkill("sitToggle") ELSE UNCHANGED vars
    /\ UNCHANGED <<beliefs, starts>>

\* Fault: the belief is not taken back.
PressSelectAndBelieve ==
    /\ Asked("relax") /\ RequestRelax
    /\ UNCHANGED <<beliefs, starts>>

PressSelect ==
    /\ Asked("relax") /\ RequestRelax
    /\ up' = FALSE
    /\ UNCHANGED <<roller, starts>>

PressDPadRight ==
    /\ Asked("reboot") /\ RequestRebootMotors
    /\ up' = FALSE
    /\ UNCHANGED <<roller, starts>>

HoldSelect ==
    /\ Asked("shutdown") /\ RequestShutdown
    /\ up' = FALSE
    /\ UNCHANGED <<roller, starts>>

\* The mode is named, not toggled, from the belief; every switch is accepted.
HoldDPadUp ==
    /\ Asked("setMode") /\ RequestMode
    /\ modeSwitch' = IF roller THEN "walk" ELSE "roller"
    /\ roller' = ~roller
    /\ UNCHANGED <<up, starts>>

\* Fault: a frame that says something new is left out like any other.
MayHoldAny(this) == frame # None /\ frameAge < Heartbeat

\* may_hold: nothing new, nothing that moves, and not for long.
MayHold(this) == this = frame /\ ~this.moves /\ frameAge < Heartbeat

\* The sticks drive the robot in one layer only; in the others it is told to stand.
SendFrame ==
    /\ Turn("frame") /\ ticked' = TRUE
    /\ \E push \in BOOLEAN :
        LET this == [layer |-> layer, moves |-> push /\ layer = "drive"] IN
        /\ IF MayHold(this)
           THEN UNCHANGED <<frame, frameAge, slots>>
           ELSE /\ frame' = this /\ frameAge' = 0
                /\ twist' = this.moves /\ twistAge' = 0
                /\ posed' = (posed \/ layer = "body")
        /\ pushed' = IF this.moves THEN 0 ELSE pushed
    /\ UNCHANGED <<vars, pad, beliefs, since, layer, command, meant, starts, losses>>

PadTick == \/ Begin \/ PressStart \/ PressSkill \/ PressSelect \/ PressDPadRight
           \/ HoldSelect \/ HoldDPadUp \/ SendFrame

-----------------------------------------------------------------------------
(* Around padd.                                                            *)

\* One that is gone sends nothing, and its counts run on: they are times.
Lose ==
    /\ pc = "read" /\ pad = "here" /\ todo = {}
    /\ losses < MaxLosses /\ losses' = losses + 1
    /\ (\A b \in Holds : since[b] = 0) \/ "dropsHeld" \in PadHabits
    /\ pad' = "gone" /\ ticked' = TRUE
    /\ meant' = [b \in Holds |-> 0]
    /\ UNCHANGED <<vars, todo, beliefs, since, sticks, slots, command, pushed, starts>>

\* padd sleeps between two looks for a pad, and systemd before a start: the loop ticks.
Return ==
    /\ pc = "read" /\ pad = "gone" /\ ~ticked /\ pad' = "here"
    /\ UNCHANGED <<vars, ticked, todo, beliefs, since, sticks, slots, command, history, losses>>

\* At any point of its tick.
Die ==
    /\ pc = "read" /\ pad # "down"
    /\ losses < MaxLosses /\ losses' = losses + 1
    /\ ~posed \/ "diesInBody" \in PadHabits
    /\ pad' = "down" /\ ticked' = TRUE /\ todo' = {}
    /\ UNCHANGED <<vars, beliefs, since, sticks, slots, command, history>>

Restart ==
    /\ pc = "read" /\ pad = "down" /\ ~ticked
    /\ ~ModeInFlight \/ "midSwitch" \in PadHabits
    /\ Started
    /\ UNCHANGED <<vars, slots, command, pushed, starts, losses>>

\* Requests of other clients, between two of padd's.
OtherClient ==
    /\ requests + Requests(todo) < MaxRequests
    /\ \/ RequestInit
       \/ RequestShutdown
       \/ (RequestRelax \/ RequestRebootMotors) /\ ((~up /\ ticked) \/ "othersRelax" \in PadHabits)
       \/ RequestMode /\ ((modeSwitch' = "roller") = roller \/ "othersMode" \in PadHabits)
    /\ UNCHANGED padVars

\* Fault: the last twist is what the robot does.
GateNothing ==
    /\ twistAge' = UpTo(twistAge + 1, Deadman + 1)
    /\ command' = twist

\* The deadman: a twist too old is no twist, and nothing else is touched.
Gate ==
    /\ twistAge' = UpTo(twistAge + 1, Deadman + 1)
    /\ command' = (twist /\ twistAge' <= Deadman)

\* The loop's tick begins after padd's, if there is a pad.
LoopReads ==
    /\ Read
    /\ pad = "here" => ticked
    /\ Gate
    /\ ticked' = FALSE
    /\ since' = IF pad = "gone" THEN [b \in Holds |-> IF since[b] \in 1..Hold - 1
                                                      THEN since[b] + 1 ELSE since[b]]
                ELSE since
    /\ frameAge' = UpTo(frameAge + 1, Heartbeat)
    /\ pushed' = UpTo(pushed + 1, Deadman + 2)
    /\ UNCHANGED <<pad, todo, beliefs, layer, frame, twist, posed, meant, starts, losses>>

LoopSteps ==
    /\ pc # "read" /\ Tick
    /\ starts' = IF bringup # "limp" /\ bringup' = "limp" THEN 0 ELSE starts
    /\ UNCHANGED <<pad, ticked, todo, beliefs, since, sticks, slots, command, meant, pushed,
                   losses>>

PadNext == \/ PadTick \/ Lose \/ Return \/ Die \/ Restart \/ OtherClient
           \/ LoopReads \/ LoopSteps

PadSpec == PadInit /\ [][PadNext]_<<vars, padVars>>

-----------------------------------------------------------------------------
(* Properties.                                                             *)

\* The robot moves while a stick is pushed, and for no longer than the deadman if the
\* pad or padd is lost with it.
StopsInTime ==
    pc # "read" /\ command => pushed = 1 \/ (pad # "here" /\ pushed <= Deadman)

\* A stick that is held drives in every tick.
HeldIsHeeded == pc # "read" /\ pushed = 1 => command

\* A pad that lies untouched is never taken for a driver who went away.
IdleIsNotDead == pc # "read" /\ pad = "here" => twistAge <= Deadman

\* The body is posed while the sticks pose it, and let go of afterwards.
PoseIsLetGo == pad = "here" /\ ticked => (posed <=> layer = "body")

\* What the sticks say is what the robot does, through frames that are left out, pads
\* that are lost and daemons that die.
SticksAreHeeded == StopsInTime /\ HeldIsHeeded /\ IdleIsNotDead /\ PoseIsLetGo

\* Nothing is done to the robot for a button that was not held for it.
HoldIsMeant == /\ "shutdown" \in todo => meant["select"] > Hold
               /\ "setMode" \in todo => meant["dpadUp"] > Hold

\* "Start once stands up, Start again toggles the policy": a robot that was limp does
\* not set off at a single press.
TwoStarts == pc = "read" /\ wasDriving => starts = 2

\* A press does what its label says, whatever became of the robot in the meantime.
PressesAreMeant == HoldIsMeant /\ TwoStarts

\* The sticks are shaped for the mode that the robot is in.
RollerIsTheRobots ==
    pc = "read" /\ pad # "down" /\ ~ModeInFlight => roller = (running.mode = "roller")
=============================================================================

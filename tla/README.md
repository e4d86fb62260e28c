# Formal models of the Microduck daemons

This directory holds TLA+ models of the parts of `src/microduck` that decide
what code a robot runs, whether its motors have power, and who may talk to it:
`updaterd`, which replaces releases on a robot that nobody can reach with a
keyboard, the control loop of `robotd` and the gamepad that drives it, the choir
of several robots, and the daemons in front of a phone (`btd`), a remote peer
(`mediad`) and the board's own services (`configd`). The models are translated from
the Rust sources and the two shell scripts of the rescue path; TLC checks them on
small instances, and TLAPS proves their safety properties for every instance, in the
circumstances that each theorem names.

```
tlc -config updater_any.cfg MCUpdater.tla        # one of the runs below
tlapm UpdaterProofs.tla                          # the proofs about one component
```

`PROJECT.json` is the index: components, runs, the source lines behind every
definition, hazards, findings and theorems.

## The system

Everything runs on one board. The daemons are separate processes that talk
newline-delimited JSON over Unix sockets.

| Part | State it keeps | Operations | Talks to |
|---|---|---|---|
| `updater` (`updaterd`) | release directories, the `current` and `golden` symlinks, `pending.json` (the boot counter), `update-log.jsonl`, a lock | apply, rollback, reset-to-golden, select, recovery at start, a scheduler of unattended updates | robotd (health, safe to restart), systemd, the release source |
| `scripts/robot-rescue`, `robot-boot-check` | the `rescued` breadcrumb | put the board on golden when the daemons do not start | the same symlinks, without the lock |
| `robotd` | bring-up state, the controller (sit-stand cycle, moves, last network), the policy slots, a mode, published status | a 50 Hz loop; `dispatch` for clients | the motor bus, the policy files, every client |
| `robotd-params` | `robotd.toml` | read it, edit it | robotd, robotctl |
| `duck-control` | gain cache, torque, fall verdict, deadman | transactions with the servos, inference | the bus |
| `padd` | what it believes of the robot (up or not), the taps' subscribers | gamepad to robotd calls | robotd |
| `btd` | BLE sessions, PIN attempts, upstream connections | route a phone's calls | every daemon |
| `mediad` | relay registration, bridged sessions, exposure of the camera | WebRTC signalling, pipelines | the relay service, robotd |
| `configd` | network, identity, pairing | front D-Bus services | NetworkManager, BlueZ |
| `robotctl`, `duckctl` | none | command lines | every daemon |
| `kinematics`, `odometry`, `tof`, `sounds`, `duck-detect`, `pet-detect` | numeric state | geometry, audio, vision | robotd, mediad |
| `deploy`, `scripts`, `docs`, `k1`, `k3` | none | provisioning, prose, board ports | |

Interactions that matter to the models:

* `updaterd` restarts the other daemons through `current`, so the symlink decides
  what code runs after any restart, wanted or not. It asks `robotd` for its
  health, and takes *degraded* for an answer that a rollback cannot improve.
* A release's own `postinstall` may restart `updaterd` in mid-apply; a power cut
  may come between any two writes. What the next start does is decided from the
  disk alone.
* `robot-rescue` writes the same symlink without the lock.
* Clients of `robotd` write *intents*, single slots of shared memory that the
  loop takes once per tick in a fixed order; a second request before the next
  tick overwrites the first. `dispatch` answers "accepted" at once and the loop
  acts later. Policy networks load on a thread of their own.

What is hard here, and what would make each part correct:

* **updater** -- crashes between durable writes, a second actor on the same link,
  bounded boots, log entries that later decisions are based on. Correct when: no
  release is live without a record of how to leave it; what recovery needs stays
  on disk; a bad release is left; what is reported is where the robot is.
* **update log** -- torn writes, a bound, an order. Correct when: a cut costs at most
  one entry, the releases held bad are those whose last outcome was a rollback.
* **robotd** -- requests landing in mid-tick, results of a loading thread used long
  after they were asked for, bus transactions that fail for some servos. Correct
  when: the last word on power wins; a robot powering off stays off; what runs,
  what is published and what the config file says agree; a seated robot stays
  seated; nothing waits for ever.
* **choir** -- beacons that are lost, counters that restart, no negotiation. Correct
  when: one duck holds the beat, the others sing at its beat, a line each, and
  those that were asked do sing together.
* **updaterd's account** -- tasks that outlive the call that started them, one file
  that three of them write. Correct when: the file says what the owner was told,
  and a logout is the last word until somebody logs in again.
* **updaterd's service** -- a check that is stale when it is used, a client that is
  written to in the loop that polls the update. Correct when: what is applied
  unattended was vetted, progress is told in order and to the end, an update ends.
* **padd** -- beliefs about the robot that go stale, holds and frames across a pad
  that goes out of range. Correct when: a press does what its label says, the
  sticks move the robot they think they move, and nothing moves when they are let go.
* **btd** -- a slot that outlives its session, one queue for answers and progress, a
  connection that dies between a call and its answer. Correct when: nothing passes
  the PIN, a central talks to its own session only, a call is answered once.
* **mediad** -- a lease that runs while the loop waits, a service that forgets, a
  session that ends without the service being told. Correct when: the robot stays
  listed, leaves when it was signed out, and abandons no consumer.
* **configd** -- calls side by side on one network, one file, one adapter; bonds
  and connections that land late. Correct when: what is saved, stored and paired
  is what the callers were told, and every call is answered.
* **duck-control** -- a cached gain that a servo no longer has (not modelled).

## The modules

| Module | What it is |
|---|---|
| `Updater` | one component of `updaterd`, its store, and `robot-rescue` |
| `TrialProtocol` | the abstract specification of the link and the boot counter, which `Updater` implements |
| `UpdateLog` | the log file under power cuts, and `known_bad` |
| `UpdaterProofs` | TLAPS proofs about `Updater` and `UpdateLog` |
| `ControlLoop` | `robotd`'s loop, its clients and the thread that loads policies |
| `Pad` | `padd` and the deadman, composed with `ControlLoop` (EXTENDS) |
| `RobotProofs` | TLAPS proofs about `ControlLoop` and `Pad` |
| `Choir`, `ChoirProofs` | several robots singing one piece: `chorale.rs` and the radio between them |
| `Account`, `AccountProofs` | the account a robot belongs to: `account.rs` |
| `Service`, `ServiceProofs` | `ipc.rs`: the engine behind its lock, the scheduler, progress |
| `Session`, `SessionProofs` | `btd`: subscriptions, a session, its PIN gate and its connections |
| `Relay`, `RelayProofs` | `mediad`: the relay and its bridged session |
| `Configd`, `ConfigdProofs` | `configd`: networks, the settings file, gamepads |
| `MC...` | instances for TLC |

Each of the later modules has a constant `Habits`: circumstances that the code
does not exclude. A passing run admits none of them unless it says so, and each
one is reproduced separately: the tables below name, for every circumstance, the
properties it breaks. A circumstance that breaks a property is either a finding,
where the code's own words promise otherwise, or a limit of what the code promises.

### Updater

| Variable | Code |
|---|---|
| `dirs`, `current`, `goldenLink` | `Store`: `releases/`, the two symlinks |
| `pending` | `PendingUpdate` of this component in `pending.json` |
| `knownBad` | what `Journal::known_bad` returns (the file itself is `UpdateLog`) |
| `rescued`, `rescue` | the breadcrumb, and a `robot-rescue` between its two writes |
| `pc`, `job` | how far `stage_and_swap`, `transition_to` or `recover_on_start` is, and its locals; both are lost when the process dies |
| `stuck` | the last word on the live release was `Stuck` |

One action is one durable write, with the checks before it. `BeginApply` to
`Publish` are the parts of `apply`; `BeginRollback`, `BeginResetToGolden` and
`BeginSelect` those of the transitions; `Arm`, `Swap`, `GatePasses`, `GateFails`,
`Confirm`, `Revert`, `RevertConfirm` are shared, as in the code, with the branch
on `job.kind` where the two functions differ (a transition disarms on a failed
swap, apply does not; only apply prunes). `Start` to `RevertAtBoot` are recovery.
`Kill` and `Restart` end the process, `WriteFails` and the `...Fails` actions are
`?` returns. The gate sees whichever release `current` names at that moment, so
a rescue in mid-update changes its answer. Downloads, signatures and unpacking
only touch the staging directory, which every start removes, so they are one
step; a component's version numbers are naturals in semver's order.

`Events` names circumstances that the code does not exclude: a run says which it
admits. What each one costs, with `rescue` and `ioError` admitted throughout, was
found by adding them to `updater_disciplined` one at a time:

| Circumstance | Properties of `updater_disciplined` that no longer hold |
|---|---|
| `force` (a second rescue over a breadcrumb) | none |
| `reinstall` (apply of a release that is on disk) | `DiskIsKept`, when it is golden that is reinstalled and power fails in between; `BadLiveIsOnTrial`, when the live release is reinstalled and goes on trial against itself |
| `retryOnTrial` (an operation while a trial is open) | `BadLiveIsOnTrial`: the release on trial becomes the `previous` of the next |
| `actionFails` | `BadLiveIsOnTrial`: see the findings |
| `rescueDuringUpdate` | `BadLiveIsOnTrial`, `OutcomeIsTrue` |
| `rescueCut` (power lost between the breadcrumb and the swap) | `BadLiveIsOnTrial`: the next start closes the trial of the release that is still live |

`TypeOK`, `TrialIsAboutTheLive` and the refinement hold under all of them, and are
proved without a hypothesis. `BadLiveIsOnTrial` also needs a golden release: without
one, a robot whose only release is bad has nowhere to go. The proofs of the other
properties name the circumstances they exclude, and those are the rows above.

### UpdateLog

The file is a sequence of lines, each an entry or junk; `unended` says that the
last has no newline, `garbled` that it is not UTF-8 any more. A cut in
`Journal::append` leaves nothing but the newline missing, a piece that does not
parse, or a piece that ends inside a character of several bytes (only reasons
hold such characters). `Parsed` is the filter of `Journal::read_all`. In the last case `read_to_string` fails from then on:
`LogIsSound` is stated for logs that did not meet it, since everything is lost
in those that did. `Scan` and `KnownBad` are the loop of `Journal::known_bad` as
a fold from the newest entry.

### ControlLoop

| Variable | Code |
|---|---|
| `enabled` to `policyChange` | the atomics of `Intents` |
| `file` | the slots in `robotd.toml` |
| `published`, `homed`, `errors` | `RobotState`: mode, policy slots, `homed`, `policy_error`, `policy_change_error` and slot errors |
| `pc` | the step of the tick: the order of the blocks in `control_loop` |
| `sample`, `snapshot` | this tick's sensors, and `enabled` as it was read at its top |
| `bringup`, `seatedBoot`, `modeChange`, `swap`, `slotErrors`, `wasDriving`, `shutdownSit`, `poweredOff`, `limpFall` | the loop's locals |
| `running`, `controller` | `policy_params`, and the `Controller`: its networks, sit-stand state, move, last network |
| `torque` | the servos: on, off, or neither after a transaction that failed |
| `relaxed` | history: the last request about power was to cut it |

A tick is twelve steps. Ramps, moves, sits and loads end at some tick, a fall may
happen at any. Networks are two slots, `walk` and `sitstand`; the other slots
behave as `walk` does, and the skills table is one scripted move. The robot is
switched on with torque off and a config whose policies are enabled; a
`controller` of `None` is a set of networks that did not load. An empty battery
starts the same shutdown as a request. `MaxFaults` bounds torque transactions in
which some servo does not answer.

`Habits` are to this module what `Events` are to `Updater`. Adding each to
`control_disciplined` shows what depends on it:

| Habit | Properties that no longer hold |
|---|---|
| `midTick` (a request between two steps) | `RelaxWins`: a relax after the snapshot is followed by the bring-up of the same tick |
| `modeWhileDown` | `DrivingIsPowered`: a limp robot goes to Ready through Homing with no torque |
| `modeOverChange` | `RobotIsAsSaid` |
| `changeOverChange` | `RobotIsAsSaid`: the second is written to the file and ignored by the loop |
| `changeAtShutdown` | `SeatIsKept`: a mode switch stands the robot up during its last sit |
| `seatOff` | `SeatHasItsNetwork` |
| `fileLost` | `RobotIsAsSaid` |
| `blind` | `SeatIsKept`: a change taken on a tick without a sample does not send the robot home |
| `moveOverChange` | none of these |

`PowerOffIsTorqueless` and `UnhealthyIsNoPolicy` hold with all. What a change would
disturb is decided when it is taken, a second or more before the swap: that no
network is replaced under a gait in motion (control.rs:277) holds with none.

### Pad

`Pad` EXTENDS `ControlLoop`: padd's requests are the loop's own actions, so what a
press does is what `robotd` makes of it.

| Variable | Code |
|---|---|
| `pad`, `ticked`, `todo` | whether a pad is there and padd runs; how far this tick of padd is |
| `up`, `roller` | the two beliefs padd keeps about the robot |
| `since` | `select_held_since`, `dpad_up_held_since` with their `_sent` flags |
| `layer`, `frame`, `frameAge` | `mode`; `LastFrame`, which `may_hold` consults |
| `twist`, `twistAge`, `posed` | the slots of `Intents` that frames write, and `intent_age` |
| `command` | what `Safety::gate` let through in this tick of the loop |
| `meant`, `pushed`, `starts` | history, for the properties |

padd and the loop tick at the same rate: one tick of padd, its requests in the
order of the code, then one of the loop. Presses land anywhere, at most one in
20 ms; a hold is a press with the button down for `Hold` ticks. Other clients make
requests between padd's. `Habits` admits the two of `ControlLoop` that padd itself
brings about (a mode switch on a robot that is down, or during its last sit).

| Circumstance (`PadHabits`) | Broken |
|---|---|
| `dropsHeld` (the pad is lost with a button down) | `PressesAreMeant`: the hold counts on while nobody sees the button |
| `diesInBody`, `headFromBody` | `SticksAreHeeded`: the body stays posed |
| `othersRelax` | `PressesAreMeant`: one press makes a limp robot stand up and drive |
| `othersMode`, `midSwitch` | `RollerIsTheRobots`: the belief names the other mode |

### Choir

| Variable | Code |
|---|---|
| `state`, `since`, `piece`, `roster` | `Chorale::state`, the time in it, `piece_id`, the seats |
| `pos`, `seen`, `lead`, `counter` | the conductor's count, or the follower's estimate, what it rests on, `conductor` and `last_beat` |
| `peers`, `silence` | `peers`, with the time since each was heard |
| `faults` | dismissals and missed beacons so far |
| `phase`, `todo` | the round of a beat: every loop ticks, then every radio listens |

Time is counted in beats (`Settle`, `Stale`, `Lock`); the phase lock is an estimate
that is exact once it has `Lock` observations and lies between what was heard and
what it had before that. The radio is `btd`'s advertising, modelled as what a duck
hears in a round or misses. A duck is a number, which is the id in its beacon; the
casting (`SeatAll`) is the one of `sounds`, by register.

| Circumstance | Broken |
|---|---|
| `late` (a duck asked near the end of a piece) | `SingTogether`: it follows a piece that is over, for ever (`choir_late.cfg`) |
| `leave` (a duck dismissed while it performs) | `SameMusic`: a conductor restarted in its first beats steps back by less than four, and is not noticed (`choir_leave.cfg`) |
| two missed beacons (`MaxFaults` 2) | `OneConductor`: two ducks conduct within `SETTLE` |
| an older build with the lower id | `OneConductor`: it conducts beside a conductor whose piece it does not know (`choir_older.cfg`) |
| a piece of 128 beats and more, played twice | `SameMusic`: the second beginning is not noticed (`choir_long.cfg`) |

### Account

A login is named by its generation, and so is the account that approves it.
`store` is the token file, `generation` and `pending` are the fields of `Account`,
`flow[g]` says where the task `wait_for_approval` of login `g` is, `maintain` is
the record that `refresh_if_due` or `name_if_unknown` holds across its network
call, `starting` a login between its call and its code. `belongs`, `asked` and
`withdrawn` are history: what the owner was told, and when.

| Circumstance | Broken |
|---|---|
| `logoutInStart` | `OwnerWasTold`: the login takes its number after the logout and signs in |
| `loginInWrite` | `OwnerWasTold`: the superseded task deletes the new owner's token |
| `inMaintenance` | `OwnerWasTold`: the maintenance writes back what it read |
| `restartInWrite` | `OwnerWasTold`: nobody is left to discard the token of a withdrawn login |
| `fileStays` (a token file that cannot be removed) | `CodeIsPolled`: a logout that fails has superseded the login whose code stays on show; `OwnerWasTold`: a withdrawn login's token stays |

### Service

`engine` is the mutex everybody only tries and who holds it; `sched` and
`candidate` are the scheduler between its check and its apply; `target`, `phase`,
`job` are the update under way and the lines it has reported. `rx`, `pump`,
`latest`, `holder`, `local`, `mail` are the queues a line passes: the engine's
channel, the pump task, the replayed line and its lock, the caller's channel, the
broadcast. `client`, `unread`, `shown` are the clients' side. What an update does to
the store is `Updater`; here it has an outcome.

| Circumstance | Broken |
|---|---|
| `moves` (the index moves between check and apply) | `UnattendedIsVetted` |
| `stops` (a caller keeps its connection and stops reading) | `UpdateEnds` |
| `pumpLags` (the update ends before its lines are passed on) | `ProgressIsTold` |
| `overtaken` (a line is passed on between a subscription and its replay) | `ProgressIsTold` |

### Session

`slot`, `subs`, `pumps` are the write slot of the characteristic and the tasks of
each subscription; `inbound`, `buffer`, `at` the session: its queue, the
reassembly buffer, the one request it works on and how far; `authenticated`,
`left` the PIN gate; `conns`, `wire`, `adrift` the pool: the connection of each lane,
the requests its daemon has not answered, those on connections that were dropped;
`replies`, `outbound` the way back. A request is written in two chunks, so that
chunks of two centrals can mix; a session that was replaced is not followed, its
pump is.

| Circumstance | Broken |
|---|---|
| `together` (two centrals write at once) | `LinesAreOwn` |
| `behind` (so slow that the replies' queue fills) | `AnswerComes` |
| `diesHolding` (a daemon restarts with unanswered requests) | `AnswerComes` |

### Relay

`at`, `using`, `backoff`, `misses` are the loop of `run` and `session`; `beat`, `poll`,
`spent`, `lease` its clocks, in units of five seconds; `events`, `session`,
`forgotten`, `deaf` the service's side; `bridge`, `queue`, `about` the bridged session
and the channel to it. A request takes up to `Reply` units (the 20 s of
`REQUEST_TIMEOUT`), of a prompt service up to `Prompt`, and the loop sends no
heartbeat meanwhile. `GET /events` alone may never be answered (`Unanswered`), and a
stream may pass nothing any more without being closed (`GoesDeaf`): nothing in the
code ends either. The task of a session posts its `endSession` when `carry` has
returned and its receiver is gone: the post may fail (`HubEndFails`), and a message that
comes meanwhile aborts it (`Feed`). The service and its consumers are modelled from how
`relay.rs` uses them. A poll whose tick was missed is skipped, where tokio's
interval makes it up at once.

What the properties allow is recorded where it happens, by three variables that no
action reads but `deaf`:

| Recorded | What it excuses | Shown by |
|---|---|---|
| `heldUp`: an answer later than `Prompt`, or a wait for room in the channel, since the last heartbeat | a lease that ran out (`LeaseIsHeld`) | `relay_slow.cfg` |
| `untold`: an `endSession` that failed or was aborted | a consumer that is not told (`NoneIsAbandoned`) | `relay_posting.cfg` |
| `deaf`, `at = "unanswered"` (`Stuck`) | a robot that stays unreachable (`ReachableAgain`) | `relay_quiet.cfg`, `relay_unanswered.cfg` |

`SignedOutIsUnlisted` is about a connection that is held, and says nothing of one that
waits for the answer to `GET /events`. A cadence of 60 s, which `HEARTBEAT_BOUNDS`
allows, breaks `LeaseIsHeld` outright (`relay.cfg` with `Cadence = 12`).

### Configd

A call is a record in `calls`: what was asked, the step its task is at, what it has
read, and (`left`) which profiles it could not delete. Steps are bus calls and file operations; NetworkManager, bluetoothd and the
pads take steps of their own (associating, giving up, reconnecting, a bond that
lands after `Pair` timed out). `profiles`, `device`; `file`, `disk`; `pairing`, `radio`,
`pads` are what the three kinds of calls share.

Each call of the bus about a network can fail where the code goes on after it:
`ListFails` and `DeleteFails` (connect goes on to add, forget answers an error),
`ListSkips` (a profile whose settings cannot be read is passed over), `StatusFails` and
`NotConnected`, `CleanUpFails` (nobody looks at the result). What a call had to leave
then is recorded in `left`, which no action reads, and `ProfileIsTheAnswer` allows what the
last call about a network has left itself: a stale profile may outlive the call that met
the failure, not the next one. That `net.forget` reports success over a profile
it passed over is `ForgottenIsGone` in `MCConfigd`, violated by `configd_forget.cfg`.

| Circumstance | Broken |
|---|---|
| `oneNetwork` (two joins of one network at once) | `ProfileIsTheAnswer` |
| `oneFile` (a name and a PIN stored at once) | `SettingIsKept` |
| `onePad` (a pad forgotten while it is paired) | `PairingIsSound` |
| `mixed` (calls to different parts) | none: they share no state, so the run leaves it out |

## The runs

All twelve are expected to pass.

| Run | States | What it asks |
|---|---|---|
| `updater_any` | 234,088 | do link and boot counter follow the protocol, whatever happens? |
| `updater_disciplined` | 40,078 | one operation at a time: is a bad release ever unguarded, is everything recovery needs there, is what is reported true, is the bad release left? |
| `update_log` | 189,183 | what do power cuts and the bound cost the log? |
| `control_any` | 2,806,260 | power-off and the health verdict, whatever clients and bus do |
| `control_disciplined` | 272,816 | posture, power, publication and progress with orderly clients |
| `choir` | 117,621 | one conductor, one beat, one line each; and do they sing? |
| `account` | 74,318 | whose robot is it, and is that what they were told? |
| `service` | 126,866 | what is applied unattended, what is told of it, does it end? |
| `session` | 230,038 | the PIN, whose lines are read, are they answered? |
| `relay` | 322,989 | is the lease kept, is anyone abandoned, does it leave and come back? |
| `configd` | 61,086 | do networks, settings and pads agree with the answers? |
| `pad` | 6,154,827 | do sticks, presses and beliefs agree with the robot? |

The other configurations (`updater_boot_revert`, `updater_failed_action`,
`updater_prune`, `control_relax`, `control_reload`, `control_seat_off`,
`control_mode_swap`, `choir_late`, `choir_leave`, `choir_long`, `choir_older`,
`relay_slow`, `relay_posting`, `relay_quiet`, `relay_unanswered`, `configd_forget`) each
violate one property and reproduce a finding. The type invariant of every module (`TypeOK`, `PadTypeOK`) was checked in the
configuration of its run and in those of the findings; the runs list what is worth
a question of its own.

Several properties are conjunctions of named parts: `DiskIsKept`, `LogIsSound`,
`KnownBadIsLatest`, `RobotIsAsSaid`, `SeatIsKept`, `AskedIsDone`, `SameMusic`,
`OwnerWasTold`, `ProgressIsTold`, `LinesAreOwn`, `PairingIsSound`, `SticksAreHeeded`,
`PressesAreMeant`. A counterexample of TLC names the part.

Bounds, and why they are enough:

* Releases: 1 is golden, 2 works, 3 never becomes healthy, 4 also takes
  `updaterd` down. Every decision of the updater compares at most the live
  release, the one before, golden and one candidate. `updater_any` leaves 4 out.
* `MaxBoots` 2, as `MAX_BOOT_ATTEMPTS` in the code: one boot that does not spend the
  budget, one that does. `KeepPrevious` 1, the default.
* Faults 2 or 3 in the updater: an interrupted operation, an interrupted recovery
  from it, and one failing write.
* `update_log`: two versions tell outcomes of the same and of another release
  apart; four appends to a capacity of two trim twice; two cuts combine a torn
  line with an interrupted trim.
* `control_*`: three or four requests. The properties relate a change, a mode
  switch, a posture and a power request, and every interplay of two of them
  that was found takes at most four. `control_any` starts seated, which is the
  bring-up that needs the controller; the others start standing.
* `pad`: three requests in all, holds of two ticks, a deadman and a heartbeat of
  two, one loss. The real ratios (hold 2 s, deadman and heartbeat tenths of a
  second, tick 20 ms) keep the order Heartbeat <= Deadman that the argument of
  `may_hold` needs, which `PadAssumption` states.
* `choir`: three ducks are a conductor, a follower and a third that may be
  either; two share a register and one knows a single piece. A piece of five
  beats and a lock of three leave two beats to sing. `Byte` is 256, so the
  counter does not wrap within a piece.
* `account`: four generations let a login, a logout and a second login meet a
  third; two ages are a renewal and a restart.
* `service`: release 2 is mandatory and bad, 3 its mandatory fix; two lines per
  update and room for one tell order, loss and a blocked write apart.
* `session`: two lanes to one daemon are the smallest pool in which a long call
  and a prompt one meet; two wrong PINs end a session (three in the code).
* `relay`: units of five seconds give the cadence, poll, lease and request timeout of
  the code; one event on its way at a time and one fault, message or login. The
  safety properties also hold with two of each (2,546,710 states), where the loop
  waits for room in the channel.
* `configd`: two calls at a time and one restart, power cut or failed bus call, two
  saved profiles of one network, two pads. Its safety properties hold as well for two
  faults (131,850 states) and for three calls (1,030,735 states).

Deadlock is checked except where the system may stop: in `updater_any` a board can
really stop (the rescue moves `current` to golden while updaterd has golden's
directory removed to reinstall it, power goes, and the link dangles); in `account`,
`service`, `session`, `relay` and `configd` everything asked has been answered once
the bounded requests are spent.

## Liveness and fairness

`updater_disciplined`: updaterd's steps are weakly fair (`Operate`, `Recover`: every
wait in them has a deadline), systemd starts it when it can be started, a board
with an open trial is restarted sooner or later (by its user, if by nobody else:
the boot budget counts starts, and the code itself does not cause one), and a
board whose daemons do not start is handed to `robot-rescue` by
`robot-boot-check`, which finishes. Faults are bounded by `MaxFaults`. Under this,
`BadIsLeft` and `TrialIsDecided`.

`control_disciplined`: the ticker ticks (`WF` on `Tick`); a ramp, a sit and a load
that have begun end, though other requests may keep them from ending at any
particular tick, hence `SF` on each. Under this, `AskedIsDone`.

`choir`: every loop runs, every radio listens and time passes (`WF` on `Rounds`);
nobody has to be asked, and nobody has to be heard beyond the bound on faults.
Under this, `SingTogether`, for ducks that are all asked and dismissed no more.

`account`: requests have timeouts, codes run out, tasks are scheduled. Hugging Face
need never answer. Under this, `LoginIsSettled`.

`service`: the interval passes, tasks are scheduled, a client that reads goes on
reading. Two strong fairness conditions say that a source asked again and again
answers in the end (`Available`) and serves in the end (`Report`); only
`MandatoryIsApplied` needs them.

`session`: the session loop and the pump run, each of their waits has a timeout;
daemons answer on the lanes that no call holds for minutes. Nothing is assumed
of any central. Under this, `AnswerComes`.

`relay`: a post and a poll time out, the welcome has a deadline, and time passes.
`GET /events` has no timeout: it is answered, or never, and the run has both. The
posts of the bridged session time out, its handshake has a deadline, and the robot's
own signalling server, in the same process, is assumed to read what it is sent.
`select!` picks among ready branches at random, hence `SF` on those that another
branch can disable. The service's events and its failures are not assumed to come or to stop
beyond `MaxFaults`.

`configd`: each call's task runs (`WF` per call): bus calls return, every wait has a
deadline. Nothing is assumed of NetworkManager or of the pads.

`pad` has no liveness property: its three are about every tick.

## What is proved

### Updater

For every finite set of releases, every golden, every set of bad releases,
every configuration, all circumstances and any number of faults
(`UpdaterAssumption` is all that is assumed):

* `TypeCorrect`: `Spec => []TypeOK`;
* `TrialAboutTheLive`: an open trial is about the release that runs, the one it
  came from, or the robot runs golden;
* `Refinement`: `Updater` implements `TrialProtocol`: a trial is opened before its
  release goes live, while it is open the link moves only between the two
  releases it names and golden, and it is closed by a verdict.

All follow from `Invariance`. `TypeOK /\ TrialIsAboutTheLive` is not inductive: a
`Swap` moves the link to whatever the job in memory says, so one must know that
the trial on disk says the same (`TrialOK`: from `swap` to `confirm` the trial is
the job's), that the job at that step names releases at all (`JobOK`), and that
the rescue, which may strike in between, deals in golden only (`GoldenOK`). Before
`Arm`, `current` may have moved to golden under the job; that is why `TrialOK`
says `current \in {job.previous, Golden}` there and why `TrialProtocol!Begin` allows
it. Preservation is proved per group of actions (`RequestIInv`, `OperateIInv`,
`RecoverIInv`, `EnvironmentIInv`), one step per action; the refinement reuses the
same groups, each action mapping to one step of the protocol or to none.

### ControlLoop

For any number of requests of any kind and any number of failing torque
transactions (`ControlAssumption` says only that `None` is no mode, change,
controller or pending swap, and that the bounds are numbers):

* `TypeCorrect`: `Spec => []TypeOK`;
* `HealthIsTrue`: the published policy error and the absence of a controller go
  together;
* `PoweredOffForGood`: once the power-off has begun torque is off and stays off,
  unless every try at cutting it failed;
* `DrivesPowered`: with every habit but `modeWhileDown`, a driving policy has
  power or some servo failed to answer;
* `RelaxIsTheLastWord`: with every habit but `midTick`, a relaxed robot has no
  torque or some servo failed to answer. The run `control_relax` shows that the
  exception is needed. Both theorems go beyond `control_disciplined`, which admits
  no habit and no fault at all.

`IInv` is the conjunction of `TypeOK` and four parts. `PowerOffIsTorqueless` is
inductive beside `TypeOK`. `UnhealthyIsNoPolicy` speaks of the gap between ticks
and becomes `ErrorFollowsController`, which holds at every step. `DrivingIsPowered`
needs to know that the loop takes no robot without power for one that is up
(`PoweredWhenUp`), and for that, that no mode switch finds it limp
(`ModeFindsItUp`). `RelaxWins` needs to know what could still bring the robot up:
the flag, the tick's copy of it, and an init (`RelaxedStaysDown`). TLC checked
`IInv` on an instance with three requests and three faults first.

The other three properties of `updater_disciplined` are stated with the
circumstances they exclude, and hold whatever else happens:

* `NothingNeededIsRemoved`: without `reinstall`, what recovery needs is on disk. The
  invariant (`DiskOK`) adds that an apply makes room only for a release that is
  not there yet, that a job falls back to a release that is installed, and that
  the prune runs with the trial closed;
* `OutcomesAreTrue`: with a gate and without `rescueDuringUpdate`, what is reported is
  where the robot is. `OutcomeOK` follows `current` from step to step;
* `BadIsOnTrial` and `NeverStuck`: one operation at a time on a board with golden and
  a gate (`Orderly`), a release that never becomes healthy is live only on trial, and
  no operation ends with nowhere to go. `BadOK` adds that an operation starts on a
  release that works, that it goes back to one that works, and that a breadcrumb of
  the rescue means golden is, or is about to be, live.

### ControlLoop: reports, the file, the seat

* `ReportIsTrue`: unless a mode switch and a policy change are in flight together
  (`modeOverChange`), clients are told of the mode and the networks that run.
* `SaidIsDone`: without `changeOverChange` and `fileLost` too, the config file would
  load the same. `SaidOK` and `FileOK` say which slots a change in flight answers
  for, and that every other slot runs what the file says.
* `SeatStays`: a robot switched on standing gets up because someone asked or at the
  home pose, and sees its last sit through, without `changeAtShutdown` and `blind`
  (`SeatOK`: a swap that disturbs waits until the robot is home).

### Account

For any number of generations, and under named circumstances only:
`TokenStaysTheOwners` (without `loginInWrite` and `inMaintenance` the token is of the
one who was told it is theirs), `LogoutIsTheLastWord` (without `logoutInStart`,
`inMaintenance` and `restartInWrite` no login from before a logout signs in),
together `OwnerKnows`; and `CodeIsWaitedFor` (without `logoutInStart` a code on show is
polled by the task that counts). All three also exclude `fileStays`. `NumberOK` orders the generations: a login without
a number has none above it. `OwnerOK` says that one task writes at a time, that
the record and the owner agree while none does, and what the writer and the
maintenance have copied.

### Service

`IInv` (`RunOK`, `QueueOK`) needs no hypothesis: who holds the engine follows from what
runs, and the lines waiting for the pump are the newest ones of the newest update,
in order. On it rest:

* `UnattendedVetted`: without `moves`, what the check found is what is applied
  (`VettedOK`: until the update has fetched its manifest the candidate is still the
  head of the index, and the policy and the bad releases are those of the check);
* `LastLineIsKept`: without `pumpLags`, the line replayed to a new subscriber is the
  last one of the last update (`LatestOK`);
* `NeverBackwards`: without `overtaken`, nobody is shown an older line after a newer
  one. `ToldOK` says of each client that what it has seen, what is queued for it and
  the latest line rise, and `StreamOK` that a replay holds the lock on the latest;
* `ToldInOrder`: the last two are `ProgressIsTold`.

### Session

* `PinIsFirst` has no hypothesis: whatever centrals, daemons and owners do, nothing but
  hello reaches a daemon before the PIN was proved, and nothing is served after the
  last wrong one. `GateOK` counts (attempts left and wrong ones are all there are, and
  the last wrong one is being answered); `DaemonsOK` and `StageOK` say that what a
  daemon has, or is about to be sent, was permitted (`Served`), which a session only
  gains. `TypeOK` needs those: a request that is written has a lane at all.
* `OnceAnswered` has none either: a request is in one place at a time. `Apart` names
  eight places, from unwritten to the central, and says that none but the null id is
  in two; `DistinctOK` that no queue names one twice. Every step moves one request, or
  one connection's requests, from a place to another (`Moves`, `OneMoves`, `OneJoins`,
  `Leaves`); requests on different lanes are kept apart by their calls.
* `LinesOwned`: without `together` these are the central's own lines, and writes go to
  the newest session.

### Relay

* `NoneIsLeft` has no hypothesis, for any number of consumers and any failures: a
  consumer that asked is served, is about to be refused, has been told, or has lost its
  `endSession` to a failure or to its own message. `EventsOK` says that each asks once
  and ends after it began, `BridgeOK` that the bridged one was taken.
* `LeaseLasts`: a lease longer than `Cadence + 2 * Prompt + Prompt * (consumers - 1)`, with
  a poll interval longer than `Cadence + Prompt + Prompt * (consumers - 1)`, does not run
  out in the loop unless an answer was later than `Prompt`, or the loop waited for room,
  since the last heartbeat. `LeaseOK` bounds the time until the loop is free to post one
  (`UntilBeat`), `PromptOK` what was spent on the request in flight. TLC finds the bound
  tight. The code does not state it: with requests of up to 20 s, a poll every 30 s
  and a cadence of 1 to 60 s from the service, whether the lease is long enough depends
  on the service and on how many consumers ask between two heartbeats.

### Pad

For any holds, a heartbeat no longer than the deadman and a deadman of at least a
tick (`PadAssumption`; in the code a heartbeat of 100 ms and a deadman of 500):

* `PadIsAClient`: `PadSpec => Spec`. padd does nothing to the loop that a client may not
  do, so every theorem about `ControlLoop` holds of the two together.
* `DrivenWhileHeld` has no further hypothesis: whatever is lost, a stick that was let
  go of stops the robot within the deadman, one that is held drives it, and a pad that
  lies untouched is not taken for a dead one. `SticksOK` relates the two clocks: while
  frames are held back, the age of the last one is the age of the twist in the slot.
* `SticksHeeded` adds the body pose, which has no deadman: without `headFromBody` and
  `diesInBody`, a frame that is held back left nothing undone (`PoseOK`).
* `PressesMeant`, without `dropsHeld` and `othersRelax`: what padd counts is how long the
  button was down (`HoldsOK`), and whatever is about to cut the torque has already
  cleared `enabled` and padd's belief, so that the next Start only stands the robot up
  (`StartsOK`).
* `ShapedForTheRobot`, without `othersMode`, `midSwitch` and the loop's own
  `modeOverChange`: the belief is the mode last asked for (`RollerOK`).

`TurnOK` says whose turn it is: padd's requests go out at the top of a tick of the loop,
the frame last.

### Configd

For any networks, pads and number of calls, restarts, power cuts and failed bus calls. The invariant
has a part per kind of call, and the steps of one kind leave the state of the others
alone (`NetFrame`, `StoreFrame`, `RadioFrame`, `TrustFrame`), so that `mixed` costs nothing:

* `LastAnswerHolds`, without `oneNetwork`: `NetOK` says that no join runs beside another
  call about its network (`OneAtATime`), what a running call has yet to delete
  (`Deleting`), and what a finished one left while no later one has gone beyond its
  scan (`Stands`, `Left`), beside what it could not delete (`left`): that the next call
  takes this too, or accounts for it, is the step from one `left` to the next. `ProfilesOK` needs no hypothesis: a profile that is saved or
  found was there before or was added by a connect, for the network it is about.
* `StoredForGood`, without `oneFile`: what a call is about to write is the file with
  its own field set, and neither file nor disk holds anything older than what was
  answered for (`StoreOK`).
* `RadioIsGivenBack` has no hypothesis: the mutex is held from the adapter to the end of
  a pairing, and radio and agent within that (`RadioOK`).
* `PairedForGood`, without `onePad`: a pad is withdrawn or read again only when it is
  bonded and trusted (`TrustOK`).

`Min` and `Max` are taken by CHOOSE; that they exist is proved from the well-foundedness of
the natural numbers (`HasMin`), without an induction of our own.

### UpdateLog

In `UpdaterProofs`, beside `Updater`: for any versions, capacity, number of appends and of
power cuts (`UpdateLogAssumption`).

* `TheLogIsSound` (`LogIsSound`): a cut costs at most one synced entry, what is read is
  in order, and the log outgrows its capacity by one entry per cut. What is read is not
  what is kept: an entry with no newline is read until the next append spoils it. The
  invariant (`LogInv`) is therefore about the ended lines (`Firm`): they are in order,
  what is read beyond them is one entry newer than all of them and than all that was
  synced, and what was synced and is not on them (`Gone`) was either pushed out by a full
  log of newer entries or is paid for by a cut, where a cut that left an unended line
  has not been spent yet (`CountOK`).
* `TheLatestIsHeld` (`KnownBadIsLatest`, an action property): for a log of any length,
  the releases held bad are those whose latest entry is a rollback; an append moves its
  own release, a trim only forgets. The fold of `KnownBad` is shown to be the closed
  form `Scanned` (`ScansExists`, `ScansUnique`), which `HeldBadAppend` and
  `HeldBadNewest` then follow through an append and a trim.

Both need induction over data: what `Parsed` and `KnownBad` compute for a log of any
length. The library's induction theorems take an operator as a parameter and cannot be
instantiated; the proofs take the least length (the smallest part of the log) for which
the claim fails instead (`LeastNat`, from the well-foundedness of the natural numbers).

### Choir

For any ducks, voices, repertoires, and any number of performances:

* `ChoirTypeCorrect` has no hypothesis; that no roster seats a duck twice is part of the type.
  `ALineEach` follows: two ducks with one roster never sing each other's line.
* `OneHoldsTheBeat` (`OneConductor`), if fewer beacons are missed than `SETTLE` has beats
  (`MaxFaults < Settle`) and the lower of two ids never has the older build
  (`NewestFirst`). `WillingOK` is the argument: of two active ducks each that listens
  has the other's beacon, or has missed one in every beat for which it, or the other,
  has been on the air, and a duck may conduct only after `Settle` of them. `SungOK` is
  the same for a conductor: the lower id then finds a piece that it knows, and joins it.
* `TheSameMusic` (`SameMusic`), if nobody is dismissed while it performs and the piece is
  at least `2 + MaxFaults` and at most 125 beats long (`ToldApart`). What a follower rests
  on (`Rests`) is the performance its conductor gives, as far back as the faults allow
  (`Same`), or one that is over, whose end and successor it can have missed only by
  faults (`Old`): the next beacon it hears then steps back by 4 to 127, and is noticed.

`MaxFaults` bounds the beacons that are missed in a whole run, so the first hypothesis is
stronger than the code's need, which is that not every beacon of a `SETTLE` is missed.
The table of `Choir` names what breaks without each hypothesis, but for the least length
of a piece, which no score comes near; the run `choir` is an instance that satisfies all.

### Only model-checked

All liveness: it is beyond the provers used here under fairness, as is ENABLED. Every
safety property that a run checks is stated by a theorem. Where a theorem excludes a
circumstance, the tables above name the run that shows the property broken in it.

## Findings

Where the code does something other than its own comments or its design document
say. `PROJECT.json` quotes both sides of each; here is what reproduces them.

| Part | What happens | Reproduced by |
|---|---|---|
| updater | the boot revert logs the release it went back to as the failed one | `updater_boot_revert.cfg` |
| updater | a transition whose apply action fails leaves its release live and unguarded | `updater_failed_action.cfg` |
| updater | the prune keeps failed releases at the expense of good ones | `updater_prune.cfg` |
| robotd | a reload forgets the slot error it has just recorded | `control_reload.cfg` |
| robotd | a seated robot can lose the network that seats it | `control_seat_off.cfg` |
| robotd | a policy change can land under a mode that was switched meanwhile | `control_mode_swap.cfg` |
| robotd | a relax that lands while a tick is under way is undone by its bring-up | `control_relax.cfg` |
| choir | two missed beacons and two ducks conduct | `choir.cfg`, `MaxFaults = 2` |
| choir | a duck asked late follows a piece that is over | `choir_late.cfg` |
| choir | a duck that does not know the piece of a conductor conducts beside it | `choir_older.cfg` |
| choir | a new performance is taken for the old one | `choir_leave.cfg`, `choir_long.cfg` |
| account | a logout while a login waits for its code does not withdraw it | `account.cfg`, `logoutInStart` |
| account | the task that was superseded deletes its successor's token | `account.cfg`, `loginInWrite` |
| account | the maintenance writes back a token that was logged out or replaced | `account.cfg`, `inMaintenance` |
| account | a logout that cannot remove the token abandons the login in flight and its code stays | `account.cfg`, `fileStays` |
| service | the release applied unattended is not the one that was checked | `service.cfg`, `moves` |
| service | a caller that stops reading stops the update | `service.cfg`, `stops` |
| service | the last lines of an update are dropped | `service.cfg`, `pumpLags` |
| btd | a second central's session reads the first one's chunks | `session.cfg`, `together` |
| mediad | the lease runs out behind one late answer, or a cadence of twice the lease | `relay_slow.cfg`; `relay.cfg`, `Cadence = 12` |
| mediad | a message during the post of `endSession` aborts it | `relay_posting.cfg` |
| mediad | a stream that is quiet but open is never noticed | `relay_quiet.cfg` |
| mediad | a `GET /events` that is not answered is waited for for ever | `relay_unanswered.cfg` |
| configd | two joins of one network leave two profiles | `configd.cfg`, `oneNetwork` |
| configd | forget reports success over a profile it could not read | `configd_forget.cfg` |
| configd | of two settings stored at once one is lost | `configd.cfg`, `oneFile` |
| configd | a pad that is no longer known is reported as paired and trusted | `configd.cfg`, `onePad` |
| padd | a hold of Select counts on while the pad is out of range | `pad.cfg`, `dropsHeld` |
| padd | the body stays posed when its layer is left by Y, or padd dies | `pad.cfg`, `headFromBody`, `diesInBody` |
| padd | the belief about the drive mode parts from the robot's | `pad.cfg`, `midSwitch`, `othersMode` |
| padd | after another client's relax one press stands the robot up and drives it | `pad.cfg`, `othersRelax` |

One more shows in the table of `Updater`: an apply over an open trial can end on the
release that was on trial, with the trial closed (`retryOnTrial`). And three that no
property states, met while translating: holding Select sends the relax of its press
before the shutdown of its hold, so a robot switched off from the pad goes limp
first and never sits (padd main.rs:540, 181); the backoff of the relay is never reset
by a connection that worked (relay.rs:458-462); and `policy.install`, by its own
comment as long as a small update, is on the prompt lane (duck-ipc-proto
lib.rs:1123), where it delays what `AnswerComes` promises for that lane.

## What is not modelled, and the plan

Not modelled because nothing in it is concurrent or durable, or because it is
numeric: kinematics, odometry, filters, inference, audio synthesis, vision,
command lines (each call of `robotctl` is a request of a client in the modules of
the daemons), serialisation (`duck-ipc-proto`), build tools, provisioning scripts,
the K1 and K3 ports. These are most of the repository's lines: the models cover
what the daemons decide, and leave out what they compute. Write ordering below the
file system is taken at its word: a write that returned is durable, except in
`UpdateLog` and for the settings file of `Configd`.

Left out of components that are modelled in part: the gain cache of `duck-control`
(a reboot that fails part-way keeps it, safety.rs:173), the loop's own pulse in the
health verdict (robotd main.rs:755), a thread for a policy load that cannot be started
(robotd main.rs:2138), the policy channel, `padd`'s tap, mediad's local
signalling and exposure, the reads and unit control of `configd`.

Next:

1. `Choir`: missed beacons bounded per `SETTLE` instead of per run, with the theorems
   restated; the bound of `OneHoldsTheBeat` is then the one the code relies on.
2. `Safety`: the gain cache, with reboots and transactions that fail part-way;
   abstract specification: the gain in force is the one last asked for.

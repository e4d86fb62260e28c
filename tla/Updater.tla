------------------------------ MODULE Updater ------------------------------
(***************************************************************************)
(* One component of `updaterd`: the release store, the boot counter, the   *)
(* verdicts of the update log, and every operation that moves the          *)
(* `current` symlink -- apply, rollback, reset-to-golden, select, recovery *)
(* at start, and the `robot-rescue` script, which runs beside the daemon   *)
(* and takes no lock.                                                      *)
(*                                                                         *)
(* Each durable write is a step of its own, so that the process, or the    *)
(* power, can fail between any two of them.  Reading a manifest, fetching, *)
(* verifying and unpacking touch only the staging directory, which every   *)
(* start removes; they are one step that succeeds or gives up.             *)
(***************************************************************************)
EXTENDS Naturals, FiniteSets

CONSTANTS
    Release,        \* versions that can be published; their order is semver's
    None,           \* "no release": an absent link, an absent `previous`
    Golden,         \* `golden` of updater.toml, or None
    Bad,            \* releases under which robotd never becomes healthy
    DeadUpdater,    \* those of Bad whose updaterd does not start either
    KeepPrevious,   \* `keep_previous` of updater.toml
    MaxBoots,       \* MAX_BOOT_ATTEMPTS
    Health,         \* the gate configured: "socket", "command" or "none"
    Ops,            \* the operations that clients ask for
    Events,         \* what the environment may do, see below
    MaxFaults       \* bound: interruptions in mid-operation, and I/O errors

(***************************************************************************)
(* The circumstances a run may admit or exclude.  None is prevented by the *)
(* code; each names an assumption about the board's surroundings.          *)
(***************************************************************************)
EventKinds == {
    "rescue",              \* robot-rescue runs at all
    "force",               \* ... with --force
    "rescueDuringUpdate",  \* ... while updaterd works, or work follows before a restart
    "rescueCut",           \* ... and loses power between its two writes
    "retryOnTrial",        \* a client starts an operation while a trial is open
    "reinstall",           \* a client applies a release that is on disk already
    "actionFails",         \* the apply action of a transition fails
    "ioError" }            \* the symlink cannot be written

Applies     == {"latest", "exact"}
Transitions == {"rollback", "golden", "select"}

ASSUME UpdaterAssumption ==
    /\ Release \subseteq Nat /\ IsFiniteSet(Release)
    /\ None \notin Release
    /\ Golden \in (Release \ Bad) \cup {None}
    /\ Bad \subseteq Release /\ DeadUpdater \subseteq Bad
    /\ KeepPrevious \in Nat
    /\ MaxBoots \in Nat \ {0}
    /\ Health \in {"socket", "command", "none"}
    /\ Ops \subseteq Applies \cup Transitions
    /\ Events \subseteq EventKinds
    /\ MaxFaults \in Nat

VARIABLES
    dirs,        \* releases with a directory under releases/
    current,     \* target of the `current` symlink
    goldenLink,  \* target of the `golden` symlink
    pending,     \* this component's entry in pending.json, or NoTrial
    knownBad,    \* Journal::known_bad: latest recorded outcome is a rollback
    rescued,     \* the golden named by the `rescued` breadcrumb, or None
    rescue,      \* robot-rescue between its writes: the link it will write
    pc,          \* where updaterd is; "down" when it is not running
    job,         \* the operation it performs: lost when the process dies
    stuck,       \* the live release was reported as Stuck: nothing to revert to
    faults       \* interruptions and I/O errors so far

store == <<dirs, current, goldenLink>>
vars  == <<store, pending, knownBad, rescued, rescue, pc, job, stuck, faults>>

NoTrial == [version |-> None, previous |-> None, boots |-> 0]
NoJob   == [kind |-> "none", version |-> None, installed |-> None,
            previous |-> None, result |-> "none"]

MaybeRelease == Release \cup {None}
Trial == [version : MaybeRelease, previous : MaybeRelease, boots : 0..MaxBoots]
Job   == [kind : Applies \cup Transitions \cup {"recover", "none"},
          version : MaybeRelease, installed : MaybeRelease, previous : MaybeRelease,
          result : {"none", "Applied", "RolledBack", "Stuck"}]

Recovering == {"rescueLog", "rescueConfirm", "rescueClear", "golden", "boot", "verdict"}
Working    == {"manifest", "staged", "publish", "arm", "swap", "action", "gate",
               "confirm", "prune", "revert", "revertConfirm", "record"}

TypeOK ==
    /\ dirs \subseteq Release
    /\ current \in MaybeRelease
    /\ goldenLink \in MaybeRelease
    /\ pending \in Trial
    /\ knownBad \subseteq Release
    /\ rescued \in MaybeRelease
    /\ rescue \in MaybeRelease
    /\ pc \in {"down", "idle"} \cup Recovering \cup Working
    /\ job \in Job
    /\ stuck \in BOOLEAN
    /\ faults \in 0..MaxFaults

\* A board after its first install: a release that works is live, golden is on
\* disk if one is configured, and updaterd has not started yet.
Init ==
    /\ current \in Release \ Bad
    /\ dirs = {current} \cup ({Golden} \ {None})
    /\ goldenLink = None
    /\ pending = NoTrial
    /\ knownBad = {}
    /\ rescued = None /\ rescue = None
    /\ pc = "down" /\ job = NoJob
    /\ stuck = FALSE /\ faults = 0

-----------------------------------------------------------------------------
(* Starting an operation.  The update lock is held from here to `idle`.    *)

MayBegin ==
    /\ pc = "idle"
    /\ pending = NoTrial \/ "retryOnTrial" \in Events
    /\ (rescue = None /\ rescued = None) \/ "rescueDuringUpdate" \in Events

Begin(kind, step, version, previous) ==
    /\ MayBegin
    /\ kind \in Ops
    /\ pc' = step
    /\ job' = [kind |-> kind, version |-> version, installed |-> current,
               previous |-> previous, result |-> "none"]
    /\ UNCHANGED <<store, pending, knownBad, rescued, rescue, stuck, faults>>

BeginApply ==
    \E kind \in Applies, v \in Release :
        /\ v \notin dirs \/ v = current \/ "reinstall" \in Events
        /\ Begin(kind, "manifest", v, None)

\* The newest release that is older than the live one and did not fail last time.
RollbackCandidates == {v \in dirs : (current # None => v < current) /\ v \notin knownBad}

BeginRollback ==
    \E v \in RollbackCandidates :
        /\ \A w \in RollbackCandidates : w <= v
        /\ Begin("rollback", "arm", v, current)

BeginResetToGolden ==
    /\ Golden \in dirs
    /\ Begin("golden", "arm", Golden, current)

BeginSelect ==
    \E v \in dirs \ {current} : Begin("select", "arm", v, current)

Finish == pc' = "idle" /\ job' = NoJob

CountFault == faults < MaxFaults /\ faults' = faults + 1
IoError    == "ioError" \in Events /\ CountFault

-----------------------------------------------------------------------------
(* Apply, up to the moment the release directory is published.             *)

Downgrade == job.kind = "latest" /\ job.installed # None /\ job.version < job.installed

\* Signature, channel, version and compatibility checks passed; `previous` is
\* read again here, by stage_and_swap.
AcceptManifest ==
    /\ pc = "manifest"
    /\ job.version # job.installed
    /\ ~Downgrade
    /\ pc' = "staged"
    /\ job' = [job EXCEPT !.previous = current]
    /\ UNCHANGED <<store, pending, knownBad, rescued, rescue, stuck, faults>>

\* AlreadyCurrent, a dry run, or any refusal or error before the store is touched.
GiveUp ==
    /\ pc \in {"manifest", "staged"}
    /\ Finish
    /\ UNCHANGED <<store, pending, knownBad, rescued, rescue, stuck, faults>>

RemoveReleaseDir ==
    /\ pc = "staged"
    /\ dirs' = dirs \ {job.version}
    /\ pc' = "publish"
    /\ UNCHANGED <<current, goldenLink, pending, knownBad, rescued, rescue, job, stuck, faults>>

Publish ==
    /\ pc = "publish"
    /\ dirs' = dirs \cup {job.version}
    /\ pc' = "arm"
    /\ UNCHANGED <<current, goldenLink, pending, knownBad, rescued, rescue, job, stuck, faults>>

-----------------------------------------------------------------------------
(* What apply and the transitions share: arm, swap, gate, commit or revert. *)

\* Fault, for testing the properties: the swap goes ahead unrecorded.
ArmForgotten ==
    /\ pc = "arm"
    /\ pc' = "swap"
    /\ UNCHANGED <<store, pending, knownBad, rescued, rescue, job, stuck, faults>>

Arm ==
    /\ pc = "arm"
    /\ pending' = [version |-> job.version, previous |-> job.previous, boots |-> 0]
    /\ pc' = "swap"
    /\ UNCHANGED <<store, knownBad, rescued, rescue, job, stuck, faults>>

\* Fault: room is made as soon as the release is live.
SwapThenPrune ==
    /\ pc = "swap"
    /\ job.version \in dirs
    /\ current' = job.version
    /\ dirs' = dirs \cap {job.version, Golden}
    /\ stuck' = FALSE
    /\ pc' = "gate"
    /\ UNCHANGED <<goldenLink, pending, knownBad, rescued, rescue, job, faults>>

Swap ==
    /\ pc = "swap"
    /\ job.version \in dirs
    /\ current' = job.version
    /\ stuck' = FALSE
    /\ pc' = IF job.kind \in Transitions THEN "action" ELSE "gate"
    /\ UNCHANGED <<dirs, goldenLink, pending, knownBad, rescued, rescue, job, faults>>

\* A transition disarms before it returns the error; apply leaves the trial.
SwapFails ==
    /\ pc = "swap"
    /\ IoError \/ (job.version \notin dirs /\ UNCHANGED faults)
    /\ pending' = IF job.kind \in Transitions THEN NoTrial ELSE pending
    /\ Finish
    /\ UNCHANGED <<store, knownBad, rescued, rescue, stuck>>

ActionDone ==
    /\ pc = "action"
    /\ pc' = "gate"
    /\ UNCHANGED <<store, pending, knownBad, rescued, rescue, job, stuck, faults>>

\* The transition returns its error with the new release live, no trial, no entry.
ActionFails ==
    /\ pc = "action"
    /\ "actionFails" \in Events
    /\ pending' = NoTrial
    /\ Finish
    /\ UNCHANGED <<store, knownBad, rescued, rescue, stuck, faults>>

\* Fault: the gate's answer is dropped.
GateIgnored ==
    /\ pc = "gate"
    /\ pc' = "confirm"
    /\ UNCHANGED <<store, pending, knownBad, rescued, rescue, job, stuck, faults>>

\* The gate sees whichever release the restart went through `current` to.
GatePasses ==
    /\ pc = "gate"
    /\ Health = "none" \/ job.version \notin Bad \/ current \notin Bad
    /\ pc' = "confirm"
    /\ UNCHANGED <<store, pending, knownBad, rescued, rescue, job, stuck, faults>>

\* A good release fails too: a hook, a restart or the gate's deadline.
GateFails ==
    /\ pc = "gate"
    /\ Health # "none" \/ job.kind \in Applies
    /\ pc' = "revert"
    /\ UNCHANGED <<store, pending, knownBad, rescued, rescue, job, stuck, faults>>

Confirm ==
    /\ pc = "confirm"
    /\ pending' = NoTrial
    /\ job' = [job EXCEPT !.result = "Applied"]
    /\ pc' = IF job.kind \in Applies THEN "prune" ELSE "record"
    /\ UNCHANGED <<store, knownBad, rescued, rescue, stuck, faults>>

\* Faults: golden, or the live release, is counted like any other.
PrunableWithGolden == dirs \ {current}
PrunableWithLive   == dirs \ {Golden}

\* Everything but the live release, golden and the newest KeepPrevious others.
Prunable == dirs \ {current, Golden}
Doomed   == {v \in Prunable : Cardinality({w \in Prunable : w > v}) >= KeepPrevious}

\* Best effort: a directory that cannot be removed does not fail the update.
Prune ==
    /\ pc = "prune"
    /\ \/ dirs' = dirs \ Doomed /\ UNCHANGED faults
       \/ IoError /\ UNCHANGED dirs
    /\ pc' = "record"
    /\ UNCHANGED <<current, goldenLink, pending, knownBad, rescued, rescue, job, stuck>>

\* rollback_to: back onto `previous`, then clear the trial.
Revert ==
    /\ pc = "revert"
    /\ job.previous \in dirs
    /\ current' = job.previous
    /\ stuck' = FALSE
    /\ pc' = "revertConfirm"
    /\ UNCHANGED <<dirs, goldenLink, pending, knownBad, rescued, rescue, job, faults>>

\* Fault: the trial of a reverted release stays open.
RevertUnconfirmed ==
    /\ pc = "revertConfirm"
    /\ job' = [job EXCEPT !.result = "RolledBack"]
    /\ pc' = "record"
    /\ UNCHANGED <<store, pending, knownBad, rescued, rescue, stuck, faults>>

RevertConfirm ==
    /\ pc = "revertConfirm"
    /\ pending' = NoTrial
    /\ job' = [job EXCEPT !.result = "RolledBack"]
    /\ pc' = "record"
    /\ UNCHANGED <<store, knownBad, rescued, rescue, stuck, faults>>

NothingToRevertTo ==
    /\ pc = "revert"
    /\ job.previous = None
    /\ pending' = NoTrial
    /\ job' = [job EXCEPT !.result = "Stuck"]
    /\ stuck' = TRUE
    /\ pc' = "record"
    /\ UNCHANGED <<store, knownBad, rescued, rescue, faults>>

\* Fault: a rollback that failed disarms, as a failed swap of a transition does.
RevertFailsDisarmed ==
    /\ pc = "revert"
    /\ job.previous # None
    /\ IoError
    /\ pending' = NoTrial
    /\ Finish
    /\ UNCHANGED <<store, knownBad, rescued, rescue, stuck>>

\* RollbackFailed: the trial stays armed for the next start.
RevertFails ==
    /\ pc = "revert"
    /\ job.previous # None
    /\ IoError \/ (job.previous \notin dirs /\ UNCHANGED faults)
    /\ Finish
    /\ UNCHANGED <<store, pending, knownBad, rescued, rescue, stuck>>

\* The update log.  An operation names the release that succeeded or failed; the
\* boot counter's revert names the release it went back to.
Recorded ==
    CASE job.result = "RolledBack" /\ job.kind = "recover" -> knownBad \cup {job.previous}
      [] job.result = "RolledBack" /\ job.kind # "recover" -> knownBad \cup {job.version}
      [] job.result = "Stuck" /\ job.kind = "recover"      -> knownBad
      [] OTHER                                             -> knownBad \ {job.version}

\* Best effort too: the log is advisory.
Record ==
    /\ pc = "record"
    /\ \/ knownBad' = Recorded /\ UNCHANGED faults
       \/ IoError /\ UNCHANGED knownBad
    /\ Finish
    /\ UNCHANGED <<store, pending, rescued, rescue, stuck>>

\* A write or a rename fails: the operation returns there, and whatever it had
\* armed stays armed.
WriteFails ==
    /\ pc \in {"publish", "arm", "confirm", "revertConfirm"}
    /\ IoError
    /\ Finish
    /\ UNCHANGED <<store, pending, knownBad, rescued, rescue, stuck>>

-----------------------------------------------------------------------------
(* Recovery, before updaterd serves.                                       *)

\* systemd starts updaterd through `current`.
Start ==
    /\ pc = "down"
    /\ current \in dirs \ DeadUpdater
    /\ rescue = None \/ "rescueDuringUpdate" \in Events
    /\ pc' = IF rescued # None THEN "rescueLog" ELSE "golden"
    /\ job' = [NoJob EXCEPT !.kind = "recover", !.previous = rescued]
    /\ UNCHANGED <<store, pending, knownBad, rescued, rescue, stuck, faults>>

\* record_rescue: the breadcrumb becomes a log entry about the golden release ...
LogRescue ==
    /\ pc = "rescueLog"
    /\ knownBad' = knownBad \cup {job.previous}
    /\ pc' = "rescueConfirm"
    /\ UNCHANGED <<store, pending, rescued, rescue, job, stuck, faults>>

\* ... any trial is cleared ...
ConfirmRescue ==
    /\ pc = "rescueConfirm"
    /\ pending' = NoTrial
    /\ pc' = "rescueClear"
    /\ UNCHANGED <<store, knownBad, rescued, rescue, job, stuck, faults>>

\* ... and the breadcrumb removed.
ClearBreadcrumb ==
    /\ pc = "rescueClear"
    /\ rescued' = None
    /\ pc' = "golden"
    /\ UNCHANGED <<store, pending, knownBad, rescue, job, stuck, faults>>

RefreshGoldenLink ==
    /\ pc = "golden"
    /\ goldenLink' = IF Golden \in dirs THEN Golden ELSE goldenLink
    /\ pc' = "boot"
    /\ UNCHANGED <<dirs, current, pending, knownBad, rescued, rescue, job, stuck, faults>>

\* Fault: the count is not kept.
NextBootForgotten == pending.boots

\* Boots past MaxBoots are all alike.
NextBoot == IF pending.boots < MaxBoots THEN pending.boots + 1 ELSE MaxBoots

RecordBoot ==
    /\ pc = "boot"
    /\ pending' = IF pending = NoTrial THEN NoTrial ELSE [pending EXCEPT !.boots = NextBoot]
    /\ IF pending # NoTrial /\ NextBoot >= MaxBoots
       THEN pc' = "verdict" /\ UNCHANGED job
       ELSE Finish
    /\ UNCHANGED <<store, knownBad, rescued, rescue, stuck, faults>>

\* The budget is spent, and the robot answers healthy or degraded.
CommitAtBoot ==
    /\ pc = "verdict"
    /\ Health = "socket" /\ current \notin Bad
    /\ pending' = NoTrial
    /\ Finish
    /\ UNCHANGED <<store, knownBad, rescued, rescue, stuck, faults>>

\* Fault: the newest other release, instead of the one the robot came from.
RevertTargetNewest ==
    LET others == dirs \ (knownBad \cup {pending.version})
    IN  IF others = {} THEN None ELSE CHOOSE v \in others : \A w \in others : w <= v

\* The chain previous -> golden; a previous that is gone or known bad is skipped.
RevertTarget ==
    IF pending.previous \in dirs \ knownBad THEN pending.previous
    ELSE IF Golden \in dirs THEN Golden ELSE None

RevertAtBoot ==
    /\ pc = "verdict"
    /\ job' = [NoJob EXCEPT !.kind = "recover", !.version = pending.version,
                            !.previous = RevertTarget]
    /\ pc' = "revert"
    /\ UNCHANGED <<store, pending, knownBad, rescued, rescue, stuck, faults>>

-----------------------------------------------------------------------------
(* robot-rescue.                                                           *)

LeaveBreadcrumb ==
    /\ "rescue" \in Events
    /\ rescue = None
    /\ rescued = None \/ "force" \in Events
    /\ goldenLink \in dirs
    /\ current # goldenLink
    /\ pc \in {"down", "idle"} \/ "rescueDuringUpdate" \in Events
    /\ rescued' = goldenLink
    /\ rescue' = goldenLink
    /\ UNCHANGED <<store, pending, knownBad, pc, job, stuck, faults>>

\* --reboot takes updaterd with it; without, the daemon runs on.
SwapToGolden ==
    /\ rescue # None
    /\ current' = rescue
    /\ rescue' = None
    /\ stuck' = FALSE
    /\ \/ pc' = "down" /\ job' = NoJob
       \/ UNCHANGED <<pc, job>>
    /\ UNCHANGED <<dirs, goldenLink, pending, knownBad, rescued, faults>>

-----------------------------------------------------------------------------
(* Interruptions.                                                          *)

Down == pc' = "down" /\ job' = NoJob

\* A restart or an orderly reboot between operations.
Restart ==
    /\ pc = "idle"
    /\ Down
    /\ UNCHANGED <<store, pending, knownBad, rescued, rescue, stuck, faults>>

\* updaterd dies in the middle of an operation or of recovery.
Kill ==
    /\ pc \notin {"down", "idle"}
    /\ CountFault
    /\ Down
    /\ UNCHANGED <<store, pending, knownBad, rescued, rescue, stuck>>

\* The power fails between the two writes of robot-rescue.
PowerCut ==
    /\ "rescueCut" \in Events
    /\ rescue # None
    /\ CountFault
    /\ Down
    /\ rescue' = None
    /\ UNCHANGED <<store, pending, knownBad, rescued, stuck>>

-----------------------------------------------------------------------------
Request == BeginApply \/ BeginRollback \/ BeginResetToGolden \/ BeginSelect

Operate == \/ AcceptManifest \/ GiveUp \/ RemoveReleaseDir \/ Publish
           \/ Arm \/ Swap \/ SwapFails \/ ActionDone \/ ActionFails
           \/ GatePasses \/ GateFails \/ Confirm \/ Prune
           \/ Revert \/ RevertConfirm \/ NothingToRevertTo \/ RevertFails
           \/ WriteFails \/ Record

Recover == \/ LogRescue \/ ConfirmRescue \/ ClearBreadcrumb \/ RefreshGoldenLink
           \/ RecordBoot \/ CommitAtBoot \/ RevertAtBoot

Rescue == LeaveBreadcrumb \/ SwapToGolden

Next == Request \/ Operate \/ Start \/ Recover \/ Rescue \/ Restart \/ Kill \/ PowerCut

Spec == Init /\ [][Next]_vars

-----------------------------------------------------------------------------
(* What the component promises.                                            *)

Protocol == INSTANCE TrialProtocol WITH live <- current, trial <- pending

\* The store and the boot counter, seen from the disk alone, follow the trial
\* protocol: whatever step the power fails after, recovery finds on record what
\* went live and where the robot came from.  (BootCounter::arm, Store::swap_to,
\* rollback_to, recover_on_start, robot-rescue.)
FollowsProtocol == Protocol!Spec

\* While a trial is open the robot runs the release it names, the one it came
\* from, or golden: the boot counter's verdict is about a release that is live
\* or that never was.
TrialIsAboutTheLive ==
    pending # NoTrial => current \in {pending.version, pending.previous, Golden}

\* A release that never becomes healthy is not left live without the trial that
\* will take the robot off it, unless the board said that it has nowhere to go.
BadLiveIsOnTrial == current \in Bad => stuck \/ pending.version = current

\* The release a trial would fall back to is on disk for as long as it is open.
FallbackIsInstalled == pending.previous # None => pending.previous \in dirs

\* Golden, once on disk, is there for every recovery and for the rescue.
GoldenIsKept == Golden # None => Golden \in dirs

\* An idle board that runs a release which never becomes healthy has a trial to
\* revert it, or has said that it has nowhere to go.
NoUnguardedBadRelease == pc = "idle" /\ current \in Bad => stuck \/ pending # NoTrial

\* What the client is told, and the log will say, is where the robot is.
OutcomeIsTrue ==
    pc = "record" =>
        /\ job.result = "Applied"    => current = job.version /\ current \notin Bad
        /\ job.result = "RolledBack" => current = job.previous

\* The link units are started through never dangles.
LiveIsInstalled == current \in dirs

\* What recovery, the rescue and the next start need of the disk is there,
\* through every prune and every interruption of one.
DiskIsKept == FallbackIsInstalled /\ GoldenIsKept /\ LiveIsInstalled

\* The release the robot settled on is not one the log holds against it: the log
\* is what `rollback` and the unattended updates choose releases by.
LiveIsNotKnownBad == pc = "idle" /\ pending = NoTrial => current \notin knownBad

\* Making room after an update leaves a release for `rollback` to return to.
PruneKeepsAFallback ==
    [][pc = "prune" /\ RollbackCandidates # {} => RollbackCandidates' # {}]_vars

-----------------------------------------------------------------------------
(* Progress.  updaterd's steps end (every wait has a deadline), systemd     *)
(* restarts it, the board is power-cycled as long as an update is open, and *)
(* the boot check hands a board whose daemons do not start to the rescue.   *)

RescueOfDead == current \in DeadUpdater /\ LeaveBreadcrumb

Fairness ==
    /\ WF_vars(Operate)
    /\ WF_vars(Recover)
    /\ WF_vars(Start)
    /\ WF_vars(Restart /\ pending # NoTrial)
    /\ WF_vars(RescueOfDead)
    /\ WF_vars(SwapToGolden)

FairSpec == Spec /\ Fairness

\* The robot does not stay on a release that never becomes healthy.
BadIsLeft == current \in Bad /\ ~stuck ~> current \notin Bad

\* Every trial is decided.
TrialIsDecided == pending # NoTrial ~> pending = NoTrial
=============================================================================

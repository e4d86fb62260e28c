------------------------------ MODULE Account ------------------------------
(***************************************************************************)
(* The Hugging Face account a robot belongs to (`account.rs` of            *)
(* `updaterd`): a login is a code shown to a person and a task that polls  *)
(* until somebody approves it, a logout withdraws whatever is in flight,   *)
(* and a maintenance task renews the token and fills in the name.  They    *)
(* share one file, and only a generation number tells a task that it was   *)
(* superseded.                                                             *)
(*                                                                         *)
(* A login, and the account that approves it, is named by its generation.  *)
(* A restart of updaterd starts them at 0 again, when no task of the       *)
(* earlier ones is left; here they go on.                                  *)
(***************************************************************************)
EXTENDS Integers, FiniteSets

CONSTANTS
    MaxGeneration,  \* bound: logins and logouts
    MaxAges,        \* bound: times a stored token comes due for renewal, and restarts
    None,           \* no record, nothing pending, nothing read
    Asking,         \* a login that waits for its code
    Habits          \* the circumstances considered, of Circumstances

\* "logoutInStart":   a logout while a login waits for its code.
\* "loginInWrite":    a login gets its code while an approved one writes its token.
\* "inMaintenance":   a logout, or an approved login, while the maintenance waits
\*                    for an answer about the token it read.
\* "restartInWrite":  updaterd stops between the token's write and the check after it.
\* "fileStays":       a token file that cannot be removed.
Circumstances == {"logoutInStart", "loginInWrite", "inMaintenance", "restartInWrite", "fileStays"}

Generation == 1..MaxGeneration

\* Stored: whose token, whether its name is known, whether it is due for renewal.
Stored == [owner : Generation, named : BOOLEAN, due : BOOLEAN]

ASSUME AccountAssumption ==
    /\ MaxGeneration \in Nat /\ MaxAges \in Nat
    /\ None \notin Nat \cup Stored /\ Asking \notin Nat \cup {None}
    /\ Habits \subseteq Circumstances

VARIABLES
    store,       \* the token file
    generation,
    pending,     \* the login that status shows
    over,        \* the logins whose code has run out
    starting,    \* the login being started: None, Asking, or the number it took
    flow,        \* flow[g]: where wait_for_approval is
    maintain,    \* the record refresh_if_due or name_if_unknown has read
    ages,        \* so far
    asked,       \* asked[g]: the generation when login g was asked for; asked[0]: when
                 \* the one being started was
    withdrawn,   \* the last logout
    belongs      \* the last login that completed, until a logout

history == <<asked, withdrawn, belongs>>
vars    == <<store, generation, pending, over, starting, flow, maintain, ages, history>>

TypeOK ==
    /\ store \in Stored \cup {None}
    /\ generation \in 0..MaxGeneration
    /\ pending \in Generation \cup {None}
    /\ over \subseteq Generation
    /\ starting \in Generation \cup {None, Asking}
    /\ flow \in [Generation -> {"none", "polling", "writing", "written", "told", "done"}]
    /\ maintain \in Stored \cup {None}
    /\ ages \in 0..MaxAges
    /\ asked \in [0..MaxGeneration -> 0..MaxGeneration]
    /\ withdrawn \in 0..MaxGeneration
    /\ belongs \in Generation \cup {None}

Init ==
    /\ store = None /\ generation = 0 /\ pending = None /\ over = {}
    /\ starting = None
    /\ flow = [g \in Generation |-> "none"]
    /\ maintain = None /\ ages = 0
    /\ asked = [g \in 0..MaxGeneration |-> 0]
    /\ withdrawn = 0 /\ belongs = None

IsCurrent(g) == g = generation
Busy(g)      == flow[g] \in {"writing", "written", "told"}

\* Nobody is between reading the file and writing it.
Quiet == maintain = None /\ \A g \in Generation : ~Busy(g)

\* Is the token file removed?
Clears == IF "fileStays" \in Habits /\ store # None THEN BOOLEAN ELSE {TRUE}

-----------------------------------------------------------------------------
(* account.login                                                           *)

\* The answers AlreadySignedIn and LoginInFlight change nothing.
Login(force) ==
    /\ generation < MaxGeneration
    /\ starting = None
    /\ force \/ (store = None /\ (pending = None \/ pending \in over))
    /\ starting' = Asking
    /\ asked' = [asked EXCEPT ![0] = generation]
    /\ UNCHANGED <<store, generation, pending, over, flow, maintain, ages, withdrawn, belongs>>

\* request_device_code fails.
NoCode ==
    /\ starting = Asking
    /\ starting' = None
    /\ UNCHANGED <<store, generation, pending, over, flow, maintain, ages, history>>

\* The code came: the login takes the next generation, whatever that is by now.
TakeNumber ==
    /\ starting = Asking /\ generation < MaxGeneration
    /\ "loginInWrite" \in Habits \/ \A g \in Generation : ~Busy(g)
    /\ generation' = generation + 1
    /\ asked' = [asked EXCEPT ![generation + 1] = asked[0]]
    /\ starting' = generation + 1
    /\ UNCHANGED <<store, pending, over, flow, maintain, ages, withdrawn, belongs>>

\* A logout in between leaves a code that nobody waits for.
ShowCode ==
    /\ starting \in Generation
    /\ pending' = starting
    /\ flow' = [flow EXCEPT ![starting] = "polling"]
    /\ starting' = None
    /\ UNCHANGED <<store, generation, over, maintain, ages, history>>

-----------------------------------------------------------------------------
(* wait_for_approval                                                       *)

Goes(g, from, to) == /\ flow[g] = from
                     /\ flow' = [flow EXCEPT ![g] = to]
                     /\ UNCHANGED <<generation, over, starting, maintain, ages, asked, withdrawn>>

\* The code's life ends.
RunsOut(g) ==
    /\ flow[g] = "polling" /\ g \notin over
    /\ over' = over \cup {g}
    /\ UNCHANGED <<store, generation, pending, starting, flow, maintain, ages, history>>

\* Mutant of Approved: a withdrawn question's answer is written first and checked after.
ApprovedUnasked(g) ==
    /\ Goes(g, "polling", "writing")
    /\ UNCHANGED <<store, pending, belongs>>

\* The answer to a poll may come after the code ran out.
Approved(g) ==
    /\ IsCurrent(g)
    /\ Goes(g, "polling", "writing")
    /\ UNCHANGED <<store, pending, belongs>>

\* Mutant of NotApproved: the task ends as if it were superseded.
NotApprovedSilent(g) ==
    /\ IsCurrent(g)
    /\ Goes(g, "polling", "done")
    /\ UNCHANGED <<store, pending, belongs>>

\* Refused, or out of time.
NotApproved(g) ==
    /\ IsCurrent(g)
    /\ Goes(g, "polling", "told")
    /\ UNCHANGED <<store, pending, belongs>>

\* The answer, whatever it is, to a question that was withdrawn.
Superseded(g) ==
    /\ ~IsCurrent(g)
    /\ Goes(g, "polling", "done")
    /\ UNCHANGED <<store, pending, belongs>>

\* persist: the name is asked for, and the record lands with it or without.
Persist(g) ==
    /\ Goes(g, "writing", "written")
    /\ "inMaintenance" \in Habits \/ maintain = None
    /\ \E named \in BOOLEAN : store' = [owner |-> g, named |-> named, due |-> FALSE]
    /\ UNCHANGED <<pending, belongs>>

PersistFails(g) ==
    /\ Goes(g, "writing", "told")
    /\ IsCurrent(g)
    /\ UNCHANGED <<store, pending, belongs>>

\* Mutant of Persisted: nothing is asked after the write.
PersistedUnasked(g) ==
    /\ Goes(g, "written", "told")
    /\ belongs' = g
    /\ UNCHANGED <<store, pending>>

Persisted(g) ==
    /\ IsCurrent(g)
    /\ Goes(g, "written", "told")
    /\ belongs' = g
    /\ UNCHANGED <<store, pending>>

\* A logout landed during the write: the record it left behind goes with it.
Discard(g) ==
    /\ ~IsCurrent(g)
    /\ \/ Goes(g, "written", "done")
       \/ Goes(g, "writing", "done")    \* the write failed
    /\ \E cleared \in Clears : store' = IF cleared THEN None ELSE store
    /\ UNCHANGED <<pending, belongs>>

Finish(g) ==
    /\ Goes(g, "told", "done")
    /\ pending' = None
    /\ UNCHANGED <<store, belongs>>

\* Without Hugging Face the task lives on until its code has run out.
WaitForApproval(g) ==
    \/ g \in over /\ (NotApproved(g) \/ Superseded(g))
    \/ Persist(g) \/ PersistFails(g) \/ Persisted(g) \/ Discard(g) \/ Finish(g)

HuggingFace(g) == Approved(g) \/ NotApproved(g) \/ Superseded(g)

-----------------------------------------------------------------------------
(* account.logout, and the maintenance.                                    *)

\* Forgotten first by number: a login that is approved from here on is superseded.
\* When the file stays, so does all else, and the caller is told.
Logout ==
    /\ generation < MaxGeneration
    /\ "logoutInStart" \in Habits \/ starting = None
    /\ "inMaintenance" \in Habits \/ maintain = None
    /\ generation' = generation + 1
    /\ \E cleared \in Clears :
        /\ cleared => /\ store' = None /\ pending' = None
                      /\ withdrawn' = generation + 1 /\ belongs' = None
        /\ ~cleared => UNCHANGED <<store, pending, withdrawn, belongs>>
    /\ UNCHANGED <<over, starting, flow, maintain, ages, asked>>

Ages ==
    /\ store # None /\ ages < MaxAges
    /\ ages' = ages + 1
    /\ store' = [store EXCEPT !.due = TRUE]
    /\ UNCHANGED <<generation, pending, over, starting, flow, maintain, history>>

\* refresh_if_due and name_if_unknown: read, ask the network, write.
Look ==
    /\ maintain = None
    /\ store # None /\ (store.due \/ ~store.named)
    /\ "inMaintenance" \in Habits \/ \A g \in Generation : ~Busy(g)
    /\ maintain' = store
    /\ UNCHANGED <<store, generation, pending, over, starting, flow, ages, history>>

Maintained(record) ==
    /\ maintain # None
    /\ maintain' = None
    /\ store' = record
    /\ UNCHANGED <<generation, pending, over, starting, flow, ages, history>>

Renew    == maintain # None /\ maintain.due /\ Maintained([maintain EXCEPT !.due = FALSE])
FillName == maintain # None /\ ~maintain.named /\ Maintained([maintain EXCEPT !.named = TRUE])
MaintainFails == Maintained(store)

-----------------------------------------------------------------------------
(* updaterd restarts: what is not in the file is gone.                     *)

Restart ==
    /\ ages < MaxAges
    /\ ages' = ages + 1
    /\ "restartInWrite" \in Habits \/ \A g \in Generation : flow[g] # "written"
    /\ pending' = None /\ starting' = None /\ maintain' = None
    /\ flow' = [g \in Generation |-> IF flow[g] = "none" THEN "none" ELSE "done"]
    /\ belongs' = IF store = None THEN None ELSE store.owner
    /\ UNCHANGED <<store, generation, over, asked, withdrawn>>

Start    == NoCode \/ TakeNumber \/ ShowCode
Maintain == Renew \/ FillName \/ MaintainFails

Next == \/ \E force \in BOOLEAN : Login(force)
        \/ Start \/ Logout \/ Ages \/ Look \/ Maintain \/ Restart
        \/ \E g \in Generation : HuggingFace(g) \/ RunsOut(g) \/ WaitForApproval(g)

Spec     == Init /\ [][Next]_vars
\* Requests and their answers time out, a code runs out, and every task is scheduled.
FairSpec == /\ Spec
            /\ WF_vars(Start) /\ WF_vars(Maintain)
            /\ \A g \in Generation : WF_vars(RunsOut(g)) /\ WF_vars(WaitForApproval(g))

-----------------------------------------------------------------------------
(* Properties.                                                             *)

\* Whoever last heard that the robot is theirs still owns it, and nobody does after
\* a logout: no task that was superseded, and no maintenance, puts another token in
\* the file or takes that one away.
TokenIsTheOwners == Quiet => IF belongs = None THEN store = None
                             ELSE store # None /\ store.owner = belongs

\* A robot signed out stays so until a login is asked for afterwards.  ("A login in
\* flight is abandoned with it", and a pending code is one.)
LogoutIsLast == store # None /\ Quiet => asked[store.owner] >= withdrawn

\* Whose robot it is, is what was said last.
OwnerWasTold == TokenIsTheOwners /\ LogoutIsLast

\* A code that status shows is a code that is being polled, by the task whose answer
\* counts: nobody is asked to type one that is no longer waited for.
CodeIsPolled == pending # None /\ pending \notin over /\ starting \notin Generation
                => /\ IsCurrent(pending)
                   /\ flow[pending] \in {"polling", "writing", "written", "told"}

\* And every login in flight is settled: approved, refused, out of time or replaced.
LoginIsSettled == \A g \in Generation : pending = g ~> pending # g

=============================================================================

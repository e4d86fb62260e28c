--------------------------- MODULE AccountProofs ---------------------------
(***************************************************************************)
(* What is proved of Account for any number of logins, logouts, renewals   *)
(* and restarts, and for every set of habits.                              *)
(***************************************************************************)
EXTENDS Account, TLAPS

\* Generations are handed out in order, and only a login that took one has a flow.
NumberOK ==
    /\ withdrawn <= generation
    /\ starting \in Generation =>
          /\ starting <= generation
          /\ \A g \in Generation : g >= starting => flow[g] = "none"
    /\ \A g \in Generation : flow[g] # "none" => g <= generation

Without(habits) == \A habit \in habits : habit \notin Habits

\* A code on show has a task, and a logout does not come between the two.
CodeOK == Without({"logoutInStart", "fileStays"}) =>
    /\ starting \in Generation => starting = generation
    /\ pending # None =>
          \/ pending \in over
          \/ starting \in Generation
          \/ pending = generation /\ flow[pending] \in {"polling", "writing", "written", "told"}

\* asked: what the login in flight, the record and the maintenance rest on was asked
\* for after the last logout, or the task that wrote it will discard it.
AskedSince(g) == asked[g] >= withdrawn
LogoutOK == Without({"logoutInStart", "inMaintenance", "restartInWrite", "fileStays"}) =>
    /\ starting = Asking => AskedSince(0)
    /\ starting \in Generation => starting = generation /\ AskedSince(starting)
    /\ generation \in Generation /\ flow[generation] # "none" => AskedSince(generation)
    /\ maintain # None => AskedSince(maintain.owner)
    /\ store # None => \/ AskedSince(store.owner)
                       \/ flow[store.owner] = "written" /\ ~IsCurrent(store.owner)

\* One task writes at a time, for no login is numbered while it does.
OneWriter == \A g \in Generation : Busy(g) =>
    /\ starting \notin Generation
    /\ \A h \in Generation : h > g => flow[h] = "none"

\* Between two writes the file holds what the owner was told.
Agreed == (\A g \in Generation : flow[g] # "written") =>
    IF belongs = None THEN store = None ELSE store # None /\ store.owner = belongs

\* While a write is on its way: what a logout in it leaves, and what the file holds.
Writing == \A g \in Generation :
    /\ flow[g] \in {"writing", "written"} /\ ~IsCurrent(g) => belongs = None /\ maintain = None
    /\ flow[g] = "written" =>
          /\ maintain = None
          /\ IF store = None THEN ~IsCurrent(g) ELSE store.owner = g

\* The maintenance holds a copy of the record that is there.
Copied == maintain # None => store # None /\ store.owner = maintain.owner

OwnerOK == Without({"loginInWrite", "inMaintenance", "fileStays"}) =>
    OneWriter /\ Agreed /\ Writing /\ Copied

IInv == TypeOK /\ NumberOK /\ CodeOK /\ LogoutOK /\ OwnerOK

USE AccountAssumption DEF AccountAssumption

-----------------------------------------------------------------------------
(* updaterd starts with nobody signed in and nothing in flight.             *)
LEMMA InitIInv == Init => IInv
<1> SUFFICES ASSUME Init PROVE IInv
    OBVIOUS
<1> USE DEF Init, Generation
<1>1. TypeOK
    BY DEF TypeOK
<1>2. NumberOK
    BY DEF NumberOK
<1>3. CodeOK
    BY DEF CodeOK
<1>4. LogoutOK
    BY DEF LogoutOK
<1>5. OwnerOK
    BY DEF OwnerOK, OneWriter, Agreed, Writing, Copied, Busy
<1> QED BY <1>1, <1>2, <1>3, <1>4, <1>5 DEF IInv

USE DEF TypeOK, Stored, Generation, history

(* The markers are no generations, and no record.                           *)
LEMMA Markers == /\ None \notin Generation /\ Asking \notin Generation /\ None # Asking
                 /\ None \notin Stored
OBVIOUS

(* persist writes a record of the login it is called for.                   *)
LEMMA NewRecord ==
    ASSUME NEW g \in Generation, NEW named \in BOOLEAN
    PROVE  LET record == [owner |-> g, named |-> named, due |-> FALSE]
           IN  record \in Stored /\ record # None /\ record.owner = g
<1>1. [owner |-> g, named |-> named, due |-> FALSE] \in Stored
    OBVIOUS
<1> QED BY <1>1, Markers

-----------------------------------------------------------------------------
(* Every step keeps every part of it.                                       *)

(* The file, the numbers and the flows keep their types.                    *)
LEMMA TypeStep == TypeOK /\ Next => TypeOK'
<1> SUFFICES ASSUME TypeOK, Next PROVE TypeOK'
    OBVIOUS
<1>1. CASE \E force \in BOOLEAN : Login(force)
    BY <1>1 DEF Login
<1>2. CASE NoCode
    BY <1>2 DEF NoCode
<1>3. CASE TakeNumber
    <2>1. generation + 1 \in Generation
        BY <1>3 DEF TakeNumber
    <2>2. asked[0] \in 0..MaxGeneration
        OBVIOUS
    <2>3. [asked EXCEPT ![generation + 1] = asked[0]] \in [0..MaxGeneration -> 0..MaxGeneration]
        BY <2>1, <2>2
    <2>4. starting' \in Generation \cup {None, Asking} /\ generation' \in 0..MaxGeneration
        BY <2>1, <1>3 DEF TakeNumber
    <2> QED BY <2>3, <2>4, <1>3 DEF TakeNumber
<1>4. CASE ShowCode
    BY <1>4 DEF ShowCode
<1>5. CASE Logout
    <2>1. \/ store' = store /\ pending' = pending /\ withdrawn' = withdrawn /\ belongs' = belongs
          \/ store' = None /\ pending' = None /\ withdrawn' = generation + 1 /\ belongs' = None
        BY <1>5 DEF Logout, Clears
    <2>2. /\ generation' = generation + 1 /\ generation < MaxGeneration
          /\ over' = over /\ starting' = starting /\ flow' = flow /\ maintain' = maintain
          /\ ages' = ages /\ asked' = asked
        BY <1>5 DEF Logout
    <2>3. CASE store' = store /\ pending' = pending /\ withdrawn' = withdrawn /\ belongs' = belongs
        BY <2>2, <2>3
    <2>4. CASE withdrawn' = generation + 1 /\ store' = None /\ pending' = None /\ belongs' = None
        BY <2>2, <2>4
    <2> QED BY <2>1, <2>3, <2>4
<1>6. CASE Ages
    <2>1. store \in Stored
        BY <1>6 DEF Ages
    <2>2. [store EXCEPT !.due = TRUE] \in Stored
        BY <2>1
    <2>3. ages + 1 \in 0..MaxAges
        BY <1>6 DEF Ages
    <2> QED BY <2>2, <2>3, <1>6 DEF Ages
<1>7. CASE Look
    BY <1>7 DEF Look
<1>8. CASE Renew
    BY <1>8 DEF Renew, Maintained
<1>9. CASE FillName
    BY <1>9 DEF FillName, Maintained
<1>10. CASE MaintainFails
    BY <1>10 DEF MaintainFails, Maintained
<1>11. CASE Restart
    BY <1>11 DEF Restart
<1>12. CASE \E g \in Generation : Approved(g)
    BY <1>12 DEF Approved, Goes
<1>13. CASE \E g \in Generation : NotApproved(g)
    BY <1>13 DEF NotApproved, Goes
<1>14. CASE \E g \in Generation : Superseded(g)
    BY <1>14 DEF Superseded, Goes
<1>15. CASE \E g \in Generation : RunsOut(g)
    <2>1. PICK g \in Generation : RunsOut(g)
        BY <1>15
    <2> QED BY <2>1 DEF RunsOut
<1>16. CASE \E g \in Generation : Persist(g)
    <2>1. PICK g \in Generation : Persist(g)
        BY <1>16
    <2>2. PICK named \in BOOLEAN : store' = [owner |-> g, named |-> named, due |-> FALSE]
        BY <2>1 DEF Persist
    <2>3. store' \in Stored
        BY <2>2
    <2>4. flow' \in [Generation -> {"none", "polling", "writing", "written", "told", "done"}]
        BY <2>1 DEF Persist, Goes
    <2> QED BY <2>1, <2>3, <2>4 DEF Persist, Goes
<1>17. CASE \E g \in Generation : PersistFails(g)
    BY <1>17 DEF PersistFails, Goes
<1>18. CASE \E g \in Generation : Persisted(g)
    <2>1. PICK g \in Generation : Persisted(g)
        BY <1>18
    <2> QED BY <2>1 DEF Persisted, Goes
<1>19. CASE \E g \in Generation : Discard(g)
    BY <1>19 DEF Discard, Clears, Goes
<1>20. CASE \E g \in Generation : Finish(g)
    BY <1>20 DEF Finish, Goes
<1> QED
    BY <1>1, <1>2, <1>3, <1>4, <1>5, <1>6, <1>7, <1>8, <1>9, <1>10, <1>11, <1>12, <1>13, <1>14,
       <1>15, <1>16, <1>17, <1>18, <1>19, <1>20
    DEF Next, Start, Maintain, HuggingFace, WaitForApproval

(* A number is taken once, by the login that has waited for it.             *)
LEMMA NumberStep == TypeOK /\ NumberOK /\ Next => NumberOK'
<1> SUFFICES ASSUME TypeOK, NumberOK, Next PROVE NumberOK'
    OBVIOUS
<1> USE Markers DEF NumberOK
<1>1. CASE \E force \in BOOLEAN : Login(force)
    BY <1>1 DEF Login
<1>2. CASE NoCode
    BY <1>2 DEF NoCode
<1>3. CASE TakeNumber
    BY <1>3, SMTT(30) DEF TakeNumber
<1>4. CASE ShowCode
    BY <1>4 DEF ShowCode
<1>5. CASE Logout
    <2>1. \/ store' = store /\ pending' = pending /\ withdrawn' = withdrawn /\ belongs' = belongs
          \/ store' = None /\ pending' = None /\ withdrawn' = generation + 1 /\ belongs' = None
        BY <1>5 DEF Logout, Clears
    <2>2. /\ generation' = generation + 1 /\ generation < MaxGeneration
          /\ over' = over /\ starting' = starting /\ flow' = flow /\ maintain' = maintain
          /\ ages' = ages /\ asked' = asked
        BY <1>5 DEF Logout
    <2>3. CASE store' = store /\ pending' = pending /\ withdrawn' = withdrawn /\ belongs' = belongs
        BY <2>2, <2>3
    <2>4. CASE withdrawn' = generation + 1 /\ store' = None /\ pending' = None /\ belongs' = None
        BY <2>2, <2>4
    <2> QED BY <2>1, <2>3, <2>4
<1>6. CASE Ages
    BY <1>6 DEF Ages
<1>7. CASE Look
    BY <1>7 DEF Look
<1>8. CASE Renew
    BY <1>8 DEF Renew, Maintained
<1>9. CASE FillName
    BY <1>9 DEF FillName, Maintained
<1>10. CASE MaintainFails
    BY <1>10 DEF MaintainFails, Maintained
<1>11. CASE Restart
    BY <1>11 DEF Restart
<1>12. CASE \E g \in Generation, from, to \in {"polling", "writing", "written", "told", "done"} :
                Goes(g, from, to)
    <2>1. PICK g \in Generation, from, to \in {"polling", "writing", "written", "told", "done"} :
               Goes(g, from, to)
        BY <1>12
    <2>2. \A h \in Generation : flow'[h] # "none" => flow[h] # "none"
        BY <2>1 DEF Goes
    <2> QED BY <2>1, <2>2 DEF Goes
<1>13. CASE \E g \in Generation : RunsOut(g)
    BY <1>13 DEF RunsOut
<1> QED
    BY <1>1, <1>2, <1>3, <1>4, <1>5, <1>6, <1>7, <1>8, <1>9, <1>10, <1>11, <1>12, <1>13
    DEF Next, Start, Maintain, HuggingFace, WaitForApproval, Approved, NotApproved,
        Superseded, Persist, PersistFails, Persisted, Discard, Finish

(* A code that is shown is polled by the task with the latest number.       *)
LEMMA CodeStep == TypeOK /\ NumberOK /\ CodeOK /\ Next => CodeOK'
<1> SUFFICES ASSUME TypeOK, NumberOK, CodeOK, Next, Without({"logoutInStart", "fileStays"}) PROVE CodeOK'
    BY DEF CodeOK
<1> USE Markers DEF Without, CodeOK, NumberOK, IsCurrent
<1>1. CASE \E force \in BOOLEAN : Login(force)
    BY <1>1 DEF Login
<1>2. CASE NoCode
    BY <1>2 DEF NoCode
<1>3. CASE TakeNumber
    BY <1>3 DEF TakeNumber
<1>4. CASE ShowCode
    BY <1>4 DEF ShowCode
<1>5. CASE Logout
    BY <1>5 DEF Logout, Clears
<1>6. CASE Ages
    BY <1>6 DEF Ages
<1>7. CASE Look
    BY <1>7 DEF Look
<1>8. CASE Renew
    BY <1>8 DEF Renew, Maintained
<1>9. CASE FillName
    BY <1>9 DEF FillName, Maintained
<1>10. CASE MaintainFails
    BY <1>10 DEF MaintainFails, Maintained
<1>11. CASE Restart
    BY <1>11 DEF Restart
<1>12. CASE \E g \in Generation : Approved(g)
    BY <1>12 DEF Approved, Goes
<1>13. CASE \E g \in Generation : NotApproved(g)
    BY <1>13 DEF NotApproved, Goes
<1>14. CASE \E g \in Generation : Superseded(g)
    BY <1>14 DEF Superseded, Goes
<1>15. CASE \E g \in Generation : RunsOut(g)
    BY <1>15 DEF RunsOut
<1>16. CASE \E g \in Generation : Persist(g)
    BY <1>16 DEF Persist, Goes
<1>17. CASE \E g \in Generation : PersistFails(g)
    BY <1>17 DEF PersistFails, Goes
<1>18. CASE \E g \in Generation : Persisted(g)
    BY <1>18 DEF Persisted, Goes
<1>19. CASE \E g \in Generation : Discard(g)
    BY <1>19 DEF Discard, Clears, Goes
<1>20. CASE \E g \in Generation : Finish(g)
    BY <1>20 DEF Finish, Goes
<1> QED
    BY <1>1, <1>2, <1>3, <1>4, <1>5, <1>6, <1>7, <1>8, <1>9, <1>10, <1>11, <1>12, <1>13, <1>14,
       <1>15, <1>16, <1>17, <1>18, <1>19, <1>20
    DEF Next, Start, Maintain, HuggingFace, WaitForApproval
(* A login that goes on, and the token it leaves, were asked for after the last  *)
(* logout.                                                                       *)
LEMMA LogoutStep == TypeOK /\ NumberOK /\ LogoutOK /\ Next => LogoutOK'
<1> SUFFICES ASSUME TypeOK, NumberOK, LogoutOK, Next,
                    Without({"logoutInStart", "inMaintenance", "restartInWrite", "fileStays"})
             PROVE  LogoutOK'
    BY DEF LogoutOK
<1> USE Markers DEF Without, LogoutOK, AskedSince, NumberOK, IsCurrent
<1>1. CASE \E force \in BOOLEAN : Login(force)
    <2>1. PICK force \in BOOLEAN : Login(force)
        BY <1>1
    <2>2. asked'[0] = generation /\ \A g \in Generation : asked'[g] = asked[g]
        BY <2>1 DEF Login
    <2> QED BY Markers, <2>1, <2>2 DEF Login
<1>2. CASE NoCode
    BY <1>2 DEF NoCode
<1>3. CASE TakeNumber
    <2>1. generation + 1 \in Generation
        BY <1>3 DEF TakeNumber
    <2>2. /\ asked'[generation + 1] = asked[0]
          /\ \A g \in 0..MaxGeneration : g # generation + 1 => asked'[g] = asked[g]
        BY <2>1, <1>3 DEF TakeNumber
    <2>3. AskedSince(0)
        BY <1>3 DEF TakeNumber, LogoutOK
    <2>4. \A g \in Generation : AskedSince(g) => AskedSince(g)'
        BY <2>2, <2>3, <1>3 DEF TakeNumber, AskedSince
    <2>5. flow[generation + 1] = "none"
        BY <2>1 DEF NumberOK
    <2>6. asked'[generation + 1] >= withdrawn'
        BY <2>2, <2>3, <1>3 DEF TakeNumber, AskedSince
    <2> QED BY <1>3, <2>1, <2>4, <2>5, <2>6
            DEF TakeNumber
<1>4. CASE ShowCode
    BY <1>4 DEF ShowCode
<1>5. CASE Logout
    <2>1. generation' = generation + 1 /\ generation + 1 \in Generation
        BY <1>5 DEF Logout, Clears
    <2>2. flow'[generation'] = "none"
        BY <2>1, <1>5 DEF Logout, Clears, NumberOK
    <2> QED BY <1>5, <2>2 DEF Logout, Clears, LogoutOK
<1>6. CASE Ages
    BY <1>6 DEF Ages
<1>7. CASE Look
    <2>1. maintain' = store /\ store # None /\ \A g \in Generation : ~Busy(g)
        BY <1>7 DEF Look
    <2>2. AskedSince(store.owner)
        BY <2>1 DEF LogoutOK, Busy
    <2> QED BY <1>7, <2>1, <2>2 DEF Look, LogoutOK, AskedSince, IsCurrent
<1>8. CASE Renew
    BY <1>8 DEF Renew, Maintained
<1>9. CASE FillName
    BY <1>9 DEF FillName, Maintained
<1>10. CASE MaintainFails
    BY <1>10 DEF MaintainFails, Maintained
<1>11. CASE Restart
    BY <1>11 DEF Restart
<1>12. CASE \E g \in Generation : Approved(g)
    BY <1>12 DEF Approved, Goes
<1>13. CASE \E g \in Generation : NotApproved(g)
    BY <1>13 DEF NotApproved, Goes
<1>14. CASE \E g \in Generation : Superseded(g)
    <2>1. PICK g \in Generation : Superseded(g)
        BY <1>14
    <2>2. flow[g] \in {"polling", "told"} /\ \A h \in Generation : flow'[h] # flow[h] => h = g
        BY <2>1 DEF Superseded, Goes
    <2>3. flow[g] # "none" /\ UNCHANGED <<store, maintain, generation, asked, withdrawn, starting>>
        BY <2>1, <2>2 DEF Superseded, Goes
    <2>4. store # None /\ flow[store.owner] = "written" => flow'[store.owner] = "written"
        BY <2>2
    <2>5. generation \in Generation /\ flow'[generation] # "none" => flow[generation] # "none"
        BY <2>2
    <2> QED BY Markers, <2>3, <2>4, <2>5 DEF LogoutOK, AskedSince, IsCurrent
<1>15. CASE \E g \in Generation : RunsOut(g)
    BY <1>15 DEF RunsOut
<1>16. CASE \E g \in Generation : Persist(g)
    <2>1. PICK g \in Generation : Persist(g)
        BY <1>16
    <2>2. store' # None /\ store'.owner = g
        <3>1. PICK named \in BOOLEAN : store' = [owner |-> g, named |-> named, due |-> FALSE]
            BY <2>1 DEF Persist
        <3> QED BY <3>1, NewRecord
    <2>3. flow'[g] = "written" /\ \A h \in Generation : h # g => flow'[h] = flow[h]
        BY <2>1 DEF Persist, Goes
    <2>4. IsCurrent(g) => AskedSince(g)
        BY <2>1 DEF Persist, Goes, LogoutOK, IsCurrent
    <2>5. generation \in Generation /\ flow'[generation] # "none" => AskedSince(generation)
        BY <2>1, <2>3 DEF LogoutOK, Persist, Goes
    <2> QED BY Markers, <2>1, <2>2, <2>3, <2>4, <2>5
            DEF Persist, Goes, LogoutOK, AskedSince, IsCurrent
<1>17. CASE \E g \in Generation : PersistFails(g)
    BY <1>17 DEF PersistFails, Goes
<1>18. CASE \E g \in Generation : Persisted(g)
    BY <1>18 DEF Persisted, Goes
<1>19. CASE \E g \in Generation : Discard(g)
    BY <1>19 DEF Discard, Clears, Goes
<1>20. CASE \E g \in Generation : Finish(g)
    <2>1. PICK g \in Generation : Finish(g)
        BY <1>20
    <2>2. flow[g] \in {"polling", "told"} /\ \A h \in Generation : flow'[h] # flow[h] => h = g
        BY <2>1 DEF Finish, Goes
    <2>3. flow[g] # "none" /\ UNCHANGED <<store, maintain, generation, asked, withdrawn, starting>>
        BY <2>1, <2>2 DEF Finish, Goes
    <2>4. store # None /\ flow[store.owner] = "written" => flow'[store.owner] = "written"
        BY <2>2
    <2>5. generation \in Generation /\ flow'[generation] # "none" => flow[generation] # "none"
        BY <2>2
    <2> QED BY Markers, <2>3, <2>4, <2>5 DEF LogoutOK, AskedSince, IsCurrent
<1> QED
    BY <1>1, <1>2, <1>3, <1>4, <1>5, <1>6, <1>7, <1>8, <1>9, <1>10, <1>11, <1>12, <1>13, <1>14,
       <1>15, <1>16, <1>17, <1>18, <1>19, <1>20
    DEF Next, Start, Maintain, HuggingFace, WaitForApproval

(* A poll is answered while nobody writes.                                  *)
LEMMA NobodyWrites ==
    ASSUME TypeOK, NumberOK, OneWriter, NEW g \in Generation, IsCurrent(g), flow[g] = "polling"
    PROVE  /\ starting \notin Generation
           /\ \A h \in Generation : ~Busy(h) /\ (h > g => flow[h] = "none")
<1>1. starting \notin Generation /\ \A h \in Generation : h > g => flow[h] = "none"
    BY DEF NumberOK, IsCurrent
<1>2. ASSUME NEW h \in Generation, Busy(h) PROVE FALSE
    <2>1. h <= g /\ h # g
        BY <1>2 DEF Busy, NumberOK, IsCurrent
    <2> QED BY <2>1, <1>2 DEF OneWriter
<1> QED BY <1>1, <1>2

(* The task that writes is the only one.                                    *)
LEMMA WritesAlone ==
    ASSUME TypeOK, OneWriter, NEW g \in Generation, Busy(g)
    PROVE  \A h \in Generation : Busy(h) => h = g
<1> SUFFICES ASSUME NEW h \in Generation, Busy(h), h # g PROVE FALSE
    OBVIOUS
<1>1. h > g \/ g > h
    OBVIOUS
<1> QED BY <1>1 DEF OneWriter, Busy

(* What the file holds is what the owner was told.                          *)
LEMMA OwnerStep == TypeOK /\ NumberOK /\ OwnerOK /\ Next => OwnerOK'
<1> SUFFICES ASSUME TypeOK, NumberOK, OwnerOK, Next,
                    Without({"loginInWrite", "inMaintenance", "fileStays"})
             PROVE  OwnerOK'
    BY DEF OwnerOK
<1>0. OneWriter /\ Agreed /\ Writing /\ Copied
    BY DEF OwnerOK
<1> USE <1>0, Markers DEF Without, OwnerOK, OneWriter, Agreed, Writing, Copied, Busy, NumberOK,
           IsCurrent
<1>1. CASE \E force \in BOOLEAN : Login(force)
    BY <1>1 DEF Login
<1>2. CASE NoCode
    BY <1>2 DEF NoCode
<1>3. CASE TakeNumber
    BY <1>3 DEF TakeNumber
<1>4. CASE ShowCode
    BY <1>4 DEF ShowCode
<1>5. CASE Logout
    BY <1>5 DEF Logout, Clears
<1>6. CASE Ages
    BY <1>6 DEF Ages
<1>7. CASE Look
    BY <1>7 DEF Look
<1>8. CASE Renew
    BY <1>8 DEF Renew, Maintained
<1>9. CASE FillName
    BY <1>9 DEF FillName, Maintained
<1>10. CASE MaintainFails
    BY <1>10 DEF MaintainFails, Maintained
<1>11. CASE Restart
    BY <1>11 DEF Restart
<1>12. CASE \E g \in Generation : Approved(g)
    <2>1. PICK g \in Generation : Approved(g)
        BY <1>12
    <2>2. \A h \in Generation : h # g => flow'[h] = flow[h]
        BY <2>1 DEF Approved, Goes
    <2>3. /\ starting \notin Generation
          /\ \A h \in Generation : ~Busy(h) /\ (h > g => flow[h] = "none")
        BY <2>1, NobodyWrites DEF Approved, Goes
    <2>4. UNCHANGED belongs \/ (belongs' = g /\ flow[g] = "written")
        BY <2>1 DEF Approved, Goes
    <2>5. OneWriter'
        <3>1. starting' = starting /\ \A h \in Generation : h > g => h # g
            BY <2>1 DEF Approved, Goes
        <3>2. \A h \in Generation : Busy(h)' => h = g
            BY <2>2, <2>3 DEF Busy
        <3> QED
            <4> HIDE DEF TypeOK, NumberOK, Agreed, Writing, Copied, IsCurrent
            <4> QED BY <2>2, <2>3, <3>1, <3>2 DEF OneWriter
    <2>6. Agreed'
        BY <2>1, <2>2, <2>3, <2>4 DEF Approved, Goes
    <2>7. Writing'
        BY <2>1, <2>2, <2>3, <2>4 DEF Approved, Goes
    <2>8. Copied'
        BY <2>1, <2>2, <2>4 DEF Approved, Goes
    <2> QED BY <2>5, <2>6, <2>7, <2>8
<1>13. CASE \E g \in Generation : NotApproved(g)
    <2>1. PICK g \in Generation : NotApproved(g)
        BY <1>13
    <2>2. \A h \in Generation : h # g => flow'[h] = flow[h]
        BY <2>1 DEF NotApproved, Goes
    <2>3. /\ starting \notin Generation
          /\ \A h \in Generation : ~Busy(h) /\ (h > g => flow[h] = "none")
        BY <2>1, NobodyWrites DEF NotApproved, Goes
    <2>4. UNCHANGED belongs \/ (belongs' = g /\ flow[g] = "written")
        BY <2>1 DEF NotApproved, Goes
    <2>5. OneWriter'
        <3>1. starting' = starting /\ \A h \in Generation : h > g => h # g
            BY <2>1 DEF NotApproved, Goes
        <3>2. \A h \in Generation : Busy(h)' => h = g
            BY <2>2, <2>3 DEF Busy
        <3> QED
            <4> HIDE DEF TypeOK, NumberOK, Agreed, Writing, Copied, IsCurrent
            <4> QED BY <2>2, <2>3, <3>1, <3>2 DEF OneWriter
    <2>6. Agreed'
        BY <2>1, <2>2, <2>3, <2>4 DEF NotApproved, Goes
    <2>7. Writing'
        BY <2>1, <2>2, <2>3, <2>4 DEF NotApproved, Goes
    <2>8. Copied'
        BY <2>1, <2>2, <2>4 DEF NotApproved, Goes
    <2> QED BY <2>5, <2>6, <2>7, <2>8
<1>14. CASE \E g \in Generation : Superseded(g)
    <2>1. PICK g \in Generation : Superseded(g)
        BY <1>14
    <2>2. \A h \in Generation : h # g => flow'[h] = flow[h]
        BY <2>1 DEF Superseded, Goes
    <2>3. flow'[g] = "done"
        BY <2>1 DEF Superseded, Goes
    <2>4. UNCHANGED belongs \/ (belongs' = g /\ flow[g] = "written")
        BY <2>1 DEF Superseded, Goes
    <2>5. OneWriter'
        BY <2>1, <2>2, <2>3 DEF Superseded, Goes
    <2>6. Agreed'
        BY <2>1, <2>2, <2>3, <2>4 DEF Superseded, Goes
    <2>7. Writing'
        BY <2>1, <2>2, <2>3, <2>4 DEF Superseded, Goes
    <2>8. Copied'
        BY <2>1, <2>2, <2>4 DEF Superseded, Goes
    <2> QED BY <2>5, <2>6, <2>7, <2>8
<1>15. CASE \E g \in Generation : RunsOut(g)
    BY <1>15 DEF RunsOut
<1>16. CASE \E g \in Generation : Persist(g)
    <2>1. PICK g \in Generation : Persist(g)
        BY <1>16
    <2>2. \A h \in Generation : h # g => flow'[h] = flow[h]
        BY <2>1 DEF Persist, Goes
    <2>3. \A h \in Generation : Busy(h) => h = g
        BY <2>1, WritesAlone DEF Persist, Goes
    <2>4. store' # None /\ store'.owner = g
        <3>1. PICK named \in BOOLEAN : store' = [owner |-> g, named |-> named, due |-> FALSE]
            BY <2>1 DEF Persist
        <3> QED BY <3>1, NewRecord
    <2>5. OneWriter'
        BY <2>1, <2>2, <2>3 DEF Persist, Goes
    <2>6. Agreed'
        BY <2>1, <2>2, <2>3, <2>4 DEF Persist, Goes
    <2>7. Writing'
        BY <2>1, <2>2, <2>3, <2>4 DEF Persist, Goes
    <2>8. Copied'
        BY <2>1, <2>2, <2>4 DEF Persist, Goes
    <2> QED BY <2>5, <2>6, <2>7, <2>8
<1>17. CASE \E g \in Generation : PersistFails(g)
    <2>1. PICK g \in Generation : PersistFails(g)
        BY <1>17
    <2>2. /\ \A h \in Generation : h # g => flow'[h] = flow[h]
          /\ flow'[g] \in {"told", "done"} /\ flow[g] \in {"writing", "told"}
        BY <2>1 DEF PersistFails, Goes
    <2>3. UNCHANGED <<store, belongs, maintain, generation, starting>>
        BY <2>1 DEF PersistFails, Goes
    <2>4. OneWriter' /\ Copied'
        <3> HIDE DEF TypeOK, NumberOK, Agreed, Writing, IsCurrent
        <3> QED BY <2>2, <2>3 DEF OneWriter, Copied, Busy
    <2>5. Agreed' /\ Writing'
        <3> HIDE DEF TypeOK, NumberOK, OneWriter, Copied
        <3> QED BY <2>2, <2>3 DEF Agreed, Writing, IsCurrent
    <2> QED BY <2>4, <2>5
<1>18. CASE \E g \in Generation : Persisted(g)
    <2>1. PICK g \in Generation : Persisted(g)
        BY <1>18
    <2>2. \A h \in Generation : h # g => flow'[h] = flow[h]
        BY <2>1 DEF Persisted, Goes
    <2>3. \A h \in Generation : Busy(h) => h = g
        BY <2>1, WritesAlone DEF Persisted, Goes
    <2>4. UNCHANGED belongs \/ (belongs' = g /\ flow[g] = "written")
        BY <2>1 DEF Persisted, Goes
    <2>5. OneWriter'
        BY <2>1, <2>2, <2>3 DEF Persisted, Goes
    <2>6. Agreed'
        BY <2>1, <2>2, <2>3, <2>4 DEF Persisted, Goes
    <2>7. Writing'
        BY <2>1, <2>2, <2>3, <2>4 DEF Persisted, Goes
    <2>8. Copied'
        BY <2>1, <2>2, <2>4 DEF Persisted, Goes
    <2> QED BY <2>5, <2>6, <2>7, <2>8
<1>19. CASE \E g \in Generation : Discard(g)
    <2>1. PICK g \in Generation : Discard(g)
        BY <1>19
    <2>2. \A h \in Generation : h # g => flow'[h] = flow[h]
        BY <2>1 DEF Discard, Clears, Goes
    <2>3. \A h \in Generation : Busy(h) => h = g
        BY <2>1, WritesAlone DEF Discard, Clears, Goes
    <2>4. UNCHANGED belongs \/ (belongs' = g /\ flow[g] = "written")
        BY <2>1 DEF Discard, Clears, Goes
    <2>5. OneWriter'
        BY <2>1, <2>2, <2>3 DEF Discard, Clears, Goes
    <2>6. Agreed'
        BY <2>1, <2>2, <2>3, <2>4 DEF Discard, Clears, Goes
    <2>7. Writing'
        BY <2>1, <2>2, <2>3, <2>4 DEF Discard, Clears, Goes
    <2>8. Copied'
        BY <2>1, <2>2, <2>4 DEF Discard, Clears, Goes
    <2> QED BY <2>5, <2>6, <2>7, <2>8
<1>20. CASE \E g \in Generation : Finish(g)
    <2>1. PICK g \in Generation : Finish(g)
        BY <1>20
    <2>2. /\ \A h \in Generation : h # g => flow'[h] = flow[h]
          /\ flow'[g] \in {"told", "done"} /\ flow[g] \in {"writing", "told"}
        BY <2>1 DEF Finish, Goes
    <2>3. UNCHANGED <<store, belongs, maintain, generation, starting>>
        BY <2>1 DEF Finish, Goes
    <2>4. OneWriter' /\ Copied'
        <3> HIDE DEF TypeOK, NumberOK, Agreed, Writing, IsCurrent
        <3> QED BY <2>2, <2>3 DEF OneWriter, Copied, Busy
    <2>5. Agreed' /\ Writing'
        <3> HIDE DEF TypeOK, NumberOK, OneWriter, Copied
        <3> QED BY <2>2, <2>3 DEF Agreed, Writing, IsCurrent
    <2> QED BY <2>4, <2>5
<1> QED
    BY <1>1, <1>2, <1>3, <1>4, <1>5, <1>6, <1>7, <1>8, <1>9, <1>10, <1>11, <1>12, <1>13, <1>14,
       <1>15, <1>16, <1>17, <1>18, <1>19, <1>20
    DEF Next, Start, Maintain, HuggingFace, WaitForApproval

-----------------------------------------------------------------------------
(* The invariant, and the properties it gives.                              *)

\* Every step keeps the five parts.
LEMMA StepIInv == IInv /\ [Next]_vars => IInv'
<1> SUFFICES ASSUME IInv, [Next]_vars PROVE IInv'
    OBVIOUS
<1>1. CASE Next
    BY <1>1, TypeStep, NumberStep, CodeStep, LogoutStep, OwnerStep DEF IInv
<1>2. CASE UNCHANGED vars
    BY <1>2 DEF vars, IInv, NumberOK, CodeOK, LogoutOK, AskedSince, OwnerOK, OneWriter,
                Agreed, Writing, Copied, Busy, IsCurrent
<1> QED BY <1>1, <1>2

(* The invariant holds in every run of the account.                         *)
THEOREM Invariance == Spec => []IInv
BY InitIInv, StepIInv, PTL DEF Spec

(* Types: no login is ever given a number that another one has.             *)
THEOREM TypeCorrect == Spec => []TypeOK
<1>1. IInv => TypeOK
    BY DEF IInv
<1> QED BY <1>1, Invariance, PTL

(* If no login gets its code while another writes its token, the maintenance is   *)
(* not interrupted, and the token file can be removed, the file says who was told *)
(* that the robot is theirs.                                                      *)
THEOREM TokenStaysTheOwners ==
    Spec => [](Without({"loginInWrite", "inMaintenance", "fileStays"}) => TokenIsTheOwners)
<1>1. IInv => (Without({"loginInWrite", "inMaintenance", "fileStays"}) => TokenIsTheOwners)
    BY DEF IInv, OwnerOK, Agreed, TokenIsTheOwners, Quiet, Busy
<1> QED BY <1>1, Invariance, PTL

(* If no logout meets a login that waits for its code or a maintenance, updaterd  *)
(* does not stop between a token and the check after it, and the token file can   *)
(* be removed, a robot that was signed out is not signed in by a login from       *)
(* before.                                                                        *)
THEOREM LogoutIsTheLastWord ==
    Spec => [](Without({"logoutInStart", "inMaintenance", "restartInWrite", "fileStays"}) => LogoutIsLast)
<1>1. IInv => (Without({"logoutInStart", "inMaintenance", "restartInWrite", "fileStays"}) => LogoutIsLast)
    BY DEF IInv, LogoutOK, AskedSince, LogoutIsLast, Quiet, Busy
<1> QED BY <1>1, Invariance, PTL

(* With none of the five, whose robot it is is what was said last.                *)
THEOREM OwnerKnows == Spec => [](Habits = {} => OwnerWasTold)
<1>1. Habits = {} => Without({"loginInWrite", "inMaintenance", "fileStays"})
                     /\ Without({"logoutInStart", "inMaintenance", "restartInWrite", "fileStays"})
    BY DEF Without
<1> QED BY <1>1, TokenStaysTheOwners, LogoutIsTheLastWord, PTL DEF OwnerWasTold

(* Unless a logout meets a login that waits for its code, or cannot remove the    *)
(* token file, a code on show is polled by the task whose answer counts.          *)
THEOREM CodeIsWaitedFor == Spec => [](Without({"logoutInStart", "fileStays"}) => CodeIsPolled)
<1>1. IInv => (Without({"logoutInStart", "fileStays"}) => CodeIsPolled)
    BY DEF IInv, CodeOK, CodeIsPolled, IsCurrent
<1> QED BY <1>1, Invariance, PTL

=============================================================================

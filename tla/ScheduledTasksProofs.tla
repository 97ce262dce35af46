------------------------ MODULE ScheduledTasksProofs ------------------------
(***************************************************************************)
(* Proofs about ScheduledTasks, for every set of commands and calls, every *)
(* delay and time of day, and every value of the bounds.                   *)
(***************************************************************************)
EXTENDS ScheduledTasks, FiniteSetTheorems, TLAPS

-----------------------------------------------------------------------------
(* The inductive invariant.                                                *)

Timer == [step : {"waiting", "running", "ran", "deleted", "moving", "moved"},
          task : Task, entry : BOOLEAN]

ClockOK ==
  /\ now \in 0..MaxNow /\ process \in {"up", "stopping", "down"}
  /\ recovery \in {"off", "arming", "inbox", "done"}
  /\ mishaps \in 0..MaxMishaps
StoreOK ==
  /\ rows \subseteq Task /\ issued \in [Sources -> Nat] /\ listed \subseteq Task
  /\ over \subseteq Sources /\ strays \subseteq Sources \X Nat
AsksOK ==
  /\ edits \in {Nobody, Canceller, Mover} \cup [holder : Sources]
  /\ pc \in [Sources -> {"new", "saving", "arming", "replying", "unfinished", "closed"}]
  /\ due \in [Sources -> Nat]
  /\ cancel \in {Idle} \cup [step : {"found", "deleted"}, task : Task]
\* tasks is a map, and a timer that waits is in it while the program runs.
TimersOK ==
  /\ timers \subseteq Timer
  /\ \A a, b \in timers : a.entry /\ b.entry /\ IdOf(a.task) = IdOf(b.task) => a = b

\* Whoever goes by an id was given it.
IdsAreMinted ==
  /\ \A row \in rows : row.id <= issued[row.source]
  /\ \A t \in timers : t.task.id <= issued[t.task.source]
  /\ \A k \in listed : k.id <= issued[k.source]
  /\ cancel # Idle => cancel.task.id <= issued[cancel.task.source]

\* A source has one row, in the store and in the list of it.
OneRowEach ==
  /\ StoredOnce
  /\ \A a, b \in listed : a.source = b.source => a = b

\* A row that is about to be armed is the one that was just saved.
ArmsWhatItSaved ==
  \A s \in Sources : pc[s] = "arming" =>
    \A row \in rows : row.source = s => row.id = issued[s]

\* taskEdits is held by who is in a section that it guards.
EditsAreHeld ==
  /\ cancel # Idle => edits = Canceller
  /\ \A s \in Daily : pc[s] \in {"saving", "arming"} => edits = [holder |-> s]
  /\ \A t \in timers : t.step \in {"moving", "moved"} => edits = Mover /\ IsDaily(t.task)
  /\ \A a, b \in timers :
       a.step \in {"moving", "moved"} /\ b.step \in {"moving", "moved"} => a = b

\* Nothing is listed or resumed by a program that does not run, whose timers
\* are gone when it is down.
StartsAfresh == process # "up" => recovery = "off"

\* What was deleted is not in the store, or was reported.
DeletedIsGone ==
  /\ cancel.step = "deleted" => \A row \in rows : IdOf(row) # IdOf(cancel.task)
  /\ \A t \in timers : t.step = "deleted" =>
       IdOf(t.task) \in strays \/ \A row \in rows : IdOf(row) # IdOf(t.task)

\* A one-off task that ran is over.
RanIsOver ==
  \A t \in timers : t.step \in {"ran", "deleted"} /\ ~IsDaily(t.task) => t.task.source \in over

\* A stored task has a timer or somebody who is about to arm it.
Covered(row) ==
  \/ IdOf(row) \in strays
  \/ pc[row.source] = "arming"
  \/ \E t \in timers :
       IdOf(t.task) = IdOf(row) /\ (t.entry \/ t.step \in {"moving", "moved"})
RowsAreCovered ==
  process = "up" /\ recovery # "off" =>
    \A row \in rows :
      Covered(row) \/ (recovery = "arming" /\ \E k \in listed : IdOf(k) = IdOf(row))

\* Who has counted the daily tasks finds them as it counted them.
DailyRows == {row \in rows : IsDaily(row)}
RoomForDaily ==
  /\ IsFiniteSet(rows) /\ Cardinality(DailyRows) <= MaxDailyTasks
  /\ \A s \in Daily : pc[s] = "saving" => Cardinality(DailyRows) < MaxDailyTasks

IInv ==
  /\ ClockOK /\ StoreOK /\ AsksOK /\ TimersOK
  /\ IdsAreMinted /\ OneRowEach /\ ArmsWhatItSaved /\ EditsAreHeld /\ StartsAfresh
  /\ DeletedIsGone /\ RanIsOver /\ KeptUntilRun
  /\ RowsAreCovered /\ MovedTaskExists /\ RoomForDaily

-----------------------------------------------------------------------------
(* Lemmas.                                                                 *)

\* Those who can hold taskEdits are told apart.
LEMMA HoldersDiffer ==
  /\ Nobody # Canceller /\ Nobody # Mover /\ Canceller # Mover
  /\ \A s \in Sources :
       [holder |-> s] # Nobody /\ [holder |-> s] # Canceller /\ [holder |-> s] # Mover
  /\ \A s, o \in Sources : [holder |-> s] = [holder |-> o] => s = o
  BY SourceKinds DEF Nobody, Canceller, Mover

LEMMA IdleType == Idle.step = "idle" /\ \A task \in Task : [step |-> "found", task |-> task] # Idle
  BY DEF Idle

\* A cancellation is idle or holds a task.
LEMMA CancelKinds ==
  ASSUME cancel \in {Idle} \cup [step : {"found", "deleted"}, task : Task]
  PROVE  /\ cancel.step \in {"idle", "found", "deleted"}
         /\ cancel = Idle <=> cancel.step = "idle"
         /\ cancel # Idle => cancel.task \in Task
  BY DEF Idle

LEMMA NextRunType ==
  ASSUME now \in Nat, NEW s \in Daily
  PROVE  NextDailyRun(s) \in Nat
<1>1. When[s] \in Nat /\ Day \in Nat \ {0} BY TimesFit, SourceKinds
<1>2. now % Day \in 0 .. Day - 1 BY <1>1
<1> DEFINE today == now - (now % Day) + When[s]
<1>3. today \in Int /\ today + Day > 0 BY <1>1, <1>2
<1> HIDE DEF today
<1>4. QED BY <1>1, <1>3 DEF NextDailyRun, today

LEMMA MishapCounts == ASSUME ClockOK, Mishap PROVE mishaps' \in 0..MaxMishaps
  BY BoundsFit DEF ClockOK, Mishap

LEMMA WriteFailsCounts == ASSUME ClockOK, WriteFails PROVE mishaps' \in 0..MaxMishaps
  BY MishapCounts DEF ClockOK, WriteFails

\* Fewer rows of daily tasks are fewer rows.
LEMMA FewerRows ==
  ASSUME IsFiniteSet(rows), NEW less \in SUBSET rows
  PROVE  /\ IsFiniteSet(less) /\ IsFiniteSet(DailyRows)
         /\ Cardinality({row \in less : IsDaily(row)}) \in Nat /\ Cardinality(DailyRows) \in Nat
         /\ Cardinality({row \in less : IsDaily(row)}) <= Cardinality(DailyRows)
<1>1. DailyRows \in SUBSET rows BY DEF DailyRows
<1>2. IsFiniteSet(DailyRows) BY <1>1, FS_Subset
<1>3. {row \in less : IsDaily(row)} \in SUBSET DailyRows BY DEF DailyRows
<1>4. IsFiniteSet({row \in less : IsDaily(row)}) BY <1>2, <1>3, FS_Subset
<1>5. QED BY <1>2, <1>3, <1>4, FS_Subset, FS_CardinalityType

\* Deleting rows leaves room.
LEMMA RoomStays ==
  ASSUME RoomForDaily, rows' \in SUBSET rows, pc' = pc
  PROVE  RoomForDaily'
<1>1. PICK less \in SUBSET rows : less = rows' OBVIOUS
<1>2. IsFiniteSet(rows) BY DEF RoomForDaily
<1>3. /\ IsFiniteSet(less) /\ IsFiniteSet(DailyRows)
      /\ Cardinality({row \in less : IsDaily(row)}) \in Nat /\ Cardinality(DailyRows) \in Nat
      /\ Cardinality({row \in less : IsDaily(row)}) <= Cardinality(DailyRows)
  BY <1>2, FewerRows
<1>4. DailyRows' = {row \in less : IsDaily(row)} BY <1>1 DEF DailyRows
<1>5. Cardinality(DailyRows') \in Nat /\ Cardinality(DailyRows') <= Cardinality(DailyRows)
  BY <1>3, <1>4
<1>6. MaxDailyTasks \in Nat BY BoundsFit
<1>7. QED BY <1>1, <1>3, <1>5, <1>6 DEF RoomForDaily

-----------------------------------------------------------------------------
LEMMA InitOK == Init => IInv
<1> SUFFICES ASSUME Init PROVE IInv OBVIOUS
<1>1. now = 0 /\ MaxNow \in Nat /\ mishaps = 0 /\ MaxMishaps \in Nat BY TimesFit, BoundsFit DEF Init
<1>2. ClockOK BY <1>1 DEF Init, ClockOK
<1>3. StoreOK BY DEF Init, StoreOK
<1>4. AsksOK BY DEF Init, AsksOK
<1>5. TimersOK BY DEF Init, TimersOK
<1>6. IdsAreMinted BY DEF Init, IdsAreMinted
<1>7. OneRowEach /\ ArmsWhatItSaved BY DEF Init, OneRowEach, StoredOnce, ArmsWhatItSaved
<1>8. EditsAreHeld BY SourceKinds DEF Init, EditsAreHeld
<1>9. StartsAfresh /\ RanIsOver /\ MovedTaskExists
  BY DEF Init, StartsAfresh, RanIsOver, MovedTaskExists
<1>10. DeletedIsGone BY DEF Init, DeletedIsGone, Idle
<1>11. KeptUntilRun /\ RowsAreCovered BY DEF Init, KeptUntilRun, RowsAreCovered
<1>12. RoomForDaily
  <2>1. rows = {} /\ DailyRows = {} BY DEF Init, DailyRows
  <2>2. \A s \in Daily : pc[s] # "saving" BY SourceKinds DEF Init
  <2>3. QED BY <2>1, <2>2, FS_EmptySet, BoundsFit DEF RoomForDaily
<1>13. QED
  BY <1>2, <1>3, <1>4, <1>5, <1>6, <1>7, <1>8, <1>9, <1>10, <1>11, <1>12 DEF IInv

-----------------------------------------------------------------------------
(* Steps that leave rows and timers alone.                                 *)

\* Only the clock, the counter and what is listed change.
LEMMA QuietKeeps ==
  ASSUME IInv, UNCHANGED <<store, timers, edits, pc, due, cancel, seen>>,
         ClockOK', StartsAfresh', listed' \in SUBSET rows \/ listed' = listed,
         \/ process' # "up" \/ recovery' = "off"
         \/ process = "up" /\ process' = "up" /\ recovery = recovery' /\ listed' = listed
         \/ process = "up" /\ process' = "up" /\ recovery' = "arming" /\ listed' = rows
         \/ process = "up" /\ process' = "up" /\ recovery = "inbox" /\ recovery' = "done"
  PROVE  IInv'
<1>1. StoreOK' BY DEF IInv, StoreOK, store, seen
<1>2. AsksOK' BY DEF IInv, AsksOK
<1>3. TimersOK' BY DEF IInv, TimersOK
<1>4. IdsAreMinted' BY DEF IInv, IdsAreMinted, store
<1>5. OneRowEach' BY DEF IInv, OneRowEach, StoredOnce, store
<1>6. ArmsWhatItSaved' /\ EditsAreHeld' /\ RanIsOver' /\ DeletedIsGone'
  BY DEF IInv, ArmsWhatItSaved, EditsAreHeld, RanIsOver, DeletedIsGone, store, seen
<1>7. KeptUntilRun' /\ MovedTaskExists' BY DEF IInv, KeptUntilRun, MovedTaskExists, store, seen
<1>8. RoomForDaily' BY DEF IInv, RoomForDaily, DailyRows, store
<1>9. RowsAreCovered' BY DEF IInv, RowsAreCovered, Covered, store, seen
<1>10. QED BY <1>1, <1>2, <1>3, <1>4, <1>5, <1>6, <1>7, <1>8, <1>9 DEF IInv

LEMMA RecoverListStep == ASSUME IInv, RecoverList PROVE IInv'
<1>1. ClockOK' /\ StartsAfresh' BY DEF RecoverList, IInv, ClockOK, StartsAfresh, clock
<1>2. QED BY <1>1, QuietKeeps DEF RecoverList, ListScheduledTasks, clock, asks, store, seen

LEMMA RecoverEndsStep == ASSUME IInv, RecoverEnds PROVE IInv'
<1>1. mishaps' \in 0..MaxMishaps BY MishapCounts DEF RecoverEnds, IInv, ClockOK
<1>2. ClockOK' /\ StartsAfresh' BY <1>1 DEF RecoverEnds, IInv, ClockOK, StartsAfresh, clock
<1>3. listed' \in SUBSET rows BY DEF RecoverEnds
<1>4. UNCHANGED <<store, timers, edits, pc, due, cancel, seen>> BY DEF RecoverEnds, asks
<1>5. process = "up" /\ process' = "up"
      /\ (recovery' = "off" \/ (recovery = "inbox" /\ recovery' = "done"))
  BY DEF RecoverEnds, clock
<1>6. QED BY <1>2, <1>3, <1>4, <1>5, QuietKeeps

LEMMA TickStep == ASSUME IInv, Tick PROVE IInv'
<1>1. ClockOK' /\ StartsAfresh'
  BY TimesFit DEF Tick, IInv, ClockOK, StartsAfresh, startup
<1>2. UNCHANGED <<store, timers, edits, pc, due, cancel, seen, process, recovery, listed>>
  BY DEF Tick, asks, startup
<1>3. process # "up" => recovery = "off" BY DEF IInv, StartsAfresh
<1>4. QED BY <1>1, <1>2, <1>3, QuietKeeps

LEMMA StartStep == ASSUME IInv, Start PROVE IInv'
<1>1. process = "down" /\ process' = "up" /\ recovery = "off"
      /\ UNCHANGED <<now, mishaps, store, timers, edits, pc, due, cancel, seen, recovery, listed>>
  BY DEF Start, asks, startup, IInv, StartsAfresh
<1>2. ClockOK' /\ StartsAfresh' BY <1>1 DEF IInv, ClockOK, StartsAfresh
<1>3. QED BY <1>1, <1>2, QuietKeeps

LEMMA DieKeeps == ASSUME IInv, Die, mishaps' \in 0..MaxMishaps PROVE IInv'
<1>1. \A s \in Sources : Abandoned(s) \in {"new", "unfinished", "closed"}
  BY DEF Abandoned, IInv, AsksOK
<1>2. /\ process' = "down" /\ recovery' = "off" /\ listed' = {} /\ timers' = {} /\ edits' = Nobody
      /\ cancel' = Idle /\ strays' = {} /\ UNCHANGED <<rows, issued, now, due, over>>
      /\ pc' = [s \in Sources |-> Abandoned(s)]
  BY DEF Die, store
<1>3. \A s \in Sources : pc'[s] \in {"new", "unfinished", "closed"} BY <1>1, <1>2
<1>4. ClockOK' BY <1>2 DEF IInv, ClockOK
<1>5. StoreOK' BY <1>2 DEF IInv, StoreOK
<1>6. AsksOK' BY <1>2, <1>3 DEF IInv, AsksOK
<1>7. TimersOK' /\ RanIsOver' /\ MovedTaskExists' BY <1>2 DEF TimersOK, RanIsOver, MovedTaskExists
<1>8. IdsAreMinted' BY <1>2 DEF IInv, IdsAreMinted
<1>9. OneRowEach' /\ KeptUntilRun' BY <1>2 DEF IInv, OneRowEach, StoredOnce, KeptUntilRun
<1>10. ArmsWhatItSaved' BY <1>3 DEF ArmsWhatItSaved
<1>11. EditsAreHeld' BY <1>2, <1>3, SourceKinds DEF EditsAreHeld
<1>12. StartsAfresh' /\ RowsAreCovered' BY <1>2 DEF StartsAfresh, RowsAreCovered
<1>13. DeletedIsGone' BY <1>2, IdleType DEF DeletedIsGone
<1>14. RoomForDaily' BY <1>2, <1>3, SourceKinds DEF IInv, RoomForDaily, DailyRows
<1>15. QED
  BY <1>4, <1>5, <1>6, <1>7, <1>8, <1>9, <1>10, <1>11, <1>12, <1>13, <1>14 DEF IInv

LEMMA CrashStep == ASSUME IInv, Crash PROVE IInv'
  BY DieKeeps, MishapCounts DEF Crash, IInv

LEMMA ExitStep == ASSUME IInv, Exit PROVE IInv'
  BY DieKeeps DEF Exit, IInv, ClockOK

LEMMA StopStep == ASSUME IInv, Stop PROVE IInv'
<1>1. /\ process' = "stopping" /\ recovery' = "off" /\ listed' = {}
      /\ timers' = {[t EXCEPT !.entry = FALSE] : t \in {u \in timers : u.step # "waiting"}}
      /\ UNCHANGED <<rows, issued, pc, due, over, strays, now, edits, cancel>>
  BY DEF Stop, store, asks, seen
<1>2. ASSUME NEW t \in timers'
      PROVE  \E u \in timers : t = [u EXCEPT !.entry = FALSE] /\ u.task = t.task /\ u.step = t.step
             /\ t \in Timer /\ t.entry = FALSE
  <2>1. PICK u \in timers : t = [u EXCEPT !.entry = FALSE] BY <1>1
  <2>2. u \in Timer BY DEF IInv, TimersOK
  <2>3. QED BY <2>1, <2>2 DEF Timer
<1>3. ClockOK' BY <1>1, MishapCounts DEF IInv, ClockOK, Stop
<1>4. StoreOK' BY <1>1 DEF IInv, StoreOK
<1>5. AsksOK' BY <1>1 DEF IInv, AsksOK
<1>6. TimersOK' BY <1>2 DEF TimersOK
<1>7. IdsAreMinted' BY <1>1, <1>2 DEF IInv, IdsAreMinted
<1>8. OneRowEach' /\ KeptUntilRun' BY <1>1 DEF IInv, OneRowEach, StoredOnce, KeptUntilRun
<1>9. ArmsWhatItSaved' BY <1>1 DEF IInv, ArmsWhatItSaved
<1>10. EditsAreHeld'
  <2>1. \A t \in timers' : t.step \in {"moving", "moved"} => edits' = Mover /\ IsDaily(t.task)
    BY <1>1, <1>2 DEF IInv, EditsAreHeld
  <2>2. \A a, b \in timers' :
          a.step \in {"moving", "moved"} /\ b.step \in {"moving", "moved"} => a = b
    <3> SUFFICES ASSUME NEW a \in timers', NEW b \in timers',
                        a.step \in {"moving", "moved"}, b.step \in {"moving", "moved"}
                 PROVE  a = b
      OBVIOUS
    <3>1. PICK u \in timers : a = [u EXCEPT !.entry = FALSE] /\ u.step = a.step BY <1>2
    <3>2. PICK v \in timers : b = [v EXCEPT !.entry = FALSE] /\ v.step = b.step BY <1>2
    <3>3. u = v BY <3>1, <3>2 DEF IInv, EditsAreHeld
    <3>4. QED BY <3>1, <3>2, <3>3
  <2>3. QED BY <1>1, <2>1, <2>2 DEF IInv, EditsAreHeld
<1>11. StartsAfresh' /\ RowsAreCovered' BY <1>1 DEF StartsAfresh, RowsAreCovered
<1>12. DeletedIsGone'
  <2>1. cancel'.step = "deleted" => \A row \in rows' : IdOf(row) # IdOf(cancel'.task)
    BY <1>1 DEF IInv, DeletedIsGone
  <2>2. \A t \in timers' : t.step = "deleted" =>
          IdOf(t.task) \in strays \/ \A row \in rows : IdOf(row) # IdOf(t.task)
    <3> SUFFICES ASSUME NEW t \in timers', t.step = "deleted"
                 PROVE  IdOf(t.task) \in strays \/ \A row \in rows : IdOf(row) # IdOf(t.task)
      OBVIOUS
    <3>1. PICK u \in timers : u.task = t.task /\ u.step = t.step BY <1>2
    <3>2. QED BY <3>1 DEF IInv, DeletedIsGone
  <2>3. QED BY <1>1, <2>1, <2>2 DEF DeletedIsGone
<1>13. RanIsOver' /\ MovedTaskExists'
  <2>1. ASSUME NEW t \in timers', t.step \in {"ran", "deleted"}, ~IsDaily(t.task)
        PROVE  t.task.source \in over
    <3>1. PICK u \in timers : u.task = t.task /\ u.step = t.step BY <1>2
    <3>2. QED BY <2>1, <3>1 DEF IInv, RanIsOver
  <2>2. ASSUME NEW t \in timers', t.step = "moved"
        PROVE  \E row \in rows : IdOf(row) = IdOf(t.task)
    <3>1. PICK u \in timers : u.task = t.task /\ u.step = t.step BY <1>2
    <3>2. QED BY <2>2, <3>1 DEF IInv, MovedTaskExists
  <2>3. QED BY <1>1, <2>1, <2>2 DEF RanIsOver, MovedTaskExists
<1>14. RoomForDaily' BY <1>1 DEF IInv, RoomForDaily, DailyRows
<1>15. QED
  BY <1>3, <1>4, <1>5, <1>6, <1>7, <1>8, <1>9, <1>10, <1>11, <1>12, <1>13, <1>14 DEF IInv

-----------------------------------------------------------------------------
(* Steps of the sources.                                                   *)

\* A source goes on, and rows and timers stay as they are.
LEMMA AskKeeps ==
  ASSUME IInv, NEW s \in Sources, NEW next \in {"saving", "replying", "closed"},
         pc' = [pc EXCEPT ![s] = next], due' \in [Sources -> Nat],
         pc[s] # "arming", mishaps' \in 0..MaxMishaps,
         UNCHANGED <<now, process, store, startup, seen, timers, cancel>>,
         \/ edits' = edits /\ (s \in Daily /\ next = "saving" => edits = [holder |-> s])
         \/ /\ edits = Nobody /\ edits' = [holder |-> s]
         \/ edits = [holder |-> s] /\ edits' = Nobody /\ next # "saving",
         s \in Daily /\ next = "saving" => Cardinality(DailyRows) < MaxDailyTasks
  PROVE  IInv'
<1>1. pc' \in [Sources -> {"new", "saving", "arming", "replying", "unfinished", "closed"}]
      /\ pc'[s] = next /\ \A o \in Sources \ {s} : pc'[o] = pc[o]
  BY DEF IInv, AsksOK
<1>2. UNCHANGED <<rows, issued, recovery, listed, over, strays>> BY DEF store, startup, seen
<1>3. ClockOK' BY <1>2 DEF IInv, ClockOK
<1>4. StoreOK' BY <1>2 DEF IInv, StoreOK
<1>5. AsksOK'
  <2>1. edits' \in {Nobody, Canceller, Mover} \cup [holder : Sources] BY DEF IInv, AsksOK
  <2>2. QED BY <1>1, <2>1 DEF IInv, AsksOK
<1>6. TimersOK' /\ IdsAreMinted' BY <1>2 DEF IInv, TimersOK, IdsAreMinted
<1>7. OneRowEach' /\ KeptUntilRun' BY <1>2 DEF IInv, OneRowEach, StoredOnce, KeptUntilRun
<1>8. ArmsWhatItSaved' BY <1>1, <1>2 DEF IInv, ArmsWhatItSaved
<1>9. EditsAreHeld'
  <2>1. cancel' # Idle => edits' = Canceller BY HoldersDiffer DEF IInv, EditsAreHeld
  <2>2. \A o \in Daily : pc'[o] \in {"saving", "arming"} => edits' = [holder |-> o]
    BY <1>1, HoldersDiffer, SourceKinds DEF IInv, EditsAreHeld
  <2>3. \A t \in timers' : t.step \in {"moving", "moved"} => edits' = Mover /\ IsDaily(t.task)
    BY HoldersDiffer DEF IInv, EditsAreHeld
  <2>4. QED BY <2>1, <2>2, <2>3 DEF IInv, EditsAreHeld
<1>10. StartsAfresh' /\ DeletedIsGone' /\ RanIsOver' /\ MovedTaskExists'
  BY <1>2 DEF IInv, StartsAfresh, DeletedIsGone, RanIsOver, MovedTaskExists
<1>11. RowsAreCovered'
  <2>1. \A row \in rows : row.source \in Sources BY DEF IInv, StoreOK, Task
  <2>2. \A row \in rows : Covered(row) => Covered(row)' BY <1>1, <1>2, <2>1 DEF Covered
  <2>3. QED BY <1>2, <2>2 DEF IInv, RowsAreCovered
<1>12. RoomForDaily' BY <1>1, <1>2, SourceKinds DEF IInv, RoomForDaily, DailyRows
<1>13. QED
  BY <1>3, <1>4, <1>5, <1>6, <1>7, <1>8, <1>9, <1>10, <1>11, <1>12 DEF IInv

LEMMA ScheduleTaskStep == ASSUME IInv, NEW s \in Sources, ScheduleTask(s) PROVE IInv'
<1>1. due' \in [Sources -> Nat]
  <2>1. now \in Nat /\ When[s] \in Nat /\ due \in [Sources -> Nat]
    BY TimesFit DEF IInv, AsksOK, ClockOK
  <2>2. now + When[s] \in Nat /\ due[s] \in Nat BY <2>1
  <2>3. due' = [due EXCEPT ![s] = now + When[s]] \/ due' = [due EXCEPT ![s] = due[s]]
    BY DEF ScheduleTask
  <2>4. QED BY <2>1, <2>2, <2>3
<1>2. pc' = [pc EXCEPT ![s] = "saving"] /\ pc[s] # "arming" /\ s \notin Daily
  BY DEF ScheduleTask, CanStart
<1>3. UNCHANGED <<now, process, store, startup, seen, timers, cancel, edits, mishaps>>
  BY DEF ScheduleTask, clock
<1>4. mishaps' \in 0..MaxMishaps BY <1>3 DEF IInv, ClockOK
<1>5. QED BY <1>1, <1>2, <1>3, <1>4, AskKeeps

LEMMA ScheduleDailyTaskStep == ASSUME IInv, NEW s \in Sources, ScheduleDailyTask(s) PROVE IInv'
<1>1. UNCHANGED <<now, process, store, startup, seen, timers, cancel, mishaps>>
  BY DEF ScheduleDailyTask, clock
<1>2. mishaps' \in 0..MaxMishaps BY <1>1 DEF IInv, ClockOK
<1>3. pc[s] # "arming" /\ s \in Daily /\ edits = Nobody BY DEF ScheduleDailyTask, CanStart
<1>4. CASE Cardinality(DailyRows) >= MaxDailyTasks
  <2>1. pc' = [pc EXCEPT ![s] = Answering(s)] /\ UNCHANGED <<due, edits>>
    BY <1>4 DEF ScheduleDailyTask, ListScheduledTasks, DailyRows
  <2>2. Answering(s) \in {"replying", "closed"} BY DEF Answering
  <2>3. due' \in [Sources -> Nat] BY <2>1 DEF IInv, AsksOK
  <2>4. QED BY <1>1, <1>2, <1>3, <2>1, <2>2, <2>3, AskKeeps
<1>5. CASE ~ (Cardinality(DailyRows) >= MaxDailyTasks)
  <2>1. /\ pc' = [pc EXCEPT ![s] = "saving"] /\ edits' = [holder |-> s]
        /\ due' = [due EXCEPT ![s] = NextDailyRun(s)]
    BY <1>5 DEF ScheduleDailyTask, ListScheduledTasks, DailyRows
  <2>2. due' \in [Sources -> Nat]
    BY <1>3, <2>1, NextRunType DEF IInv, AsksOK, ClockOK
  <2>3. Cardinality(DailyRows) < MaxDailyTasks
    <3>1. IsFiniteSet(rows) /\ rows \in SUBSET rows BY DEF IInv, RoomForDaily
    <3>2. Cardinality(DailyRows) \in Nat BY <3>1, FewerRows
    <3>3. MaxDailyTasks \in Nat BY BoundsFit
    <3>4. QED BY <1>5, <3>2, <3>3
  <2>4. QED BY <1>1, <1>2, <1>3, <2>1, <2>2, <2>3, AskKeeps
<1>6. QED BY <1>4, <1>5

LEMMA ReplyStep == ASSUME IInv, NEW s \in Sources, Reply(s) PROVE IInv'
<1>1. pc' = [pc EXCEPT ![s] = "closed"] /\ pc[s] # "arming" /\ UNCHANGED <<due, edits, mishaps>>
  BY DEF Reply
<1>2. due' \in [Sources -> Nat] /\ mishaps' \in 0..MaxMishaps BY <1>1 DEF IInv, AsksOK, ClockOK
<1>3. UNCHANGED <<now, process, store, startup, seen, timers, cancel>> BY DEF Reply, clock
<1>4. QED BY <1>1, <1>2, <1>3, AskKeeps

LEMMA SaveFailsStep == ASSUME IInv, NEW s \in Sources, SaveFails(s) PROVE IInv'
<1>1. pc' = [pc EXCEPT ![s] = Answering(s)] /\ pc[s] # "arming" /\ due' = due
      /\ edits' = Release(s) /\ UNCHANGED <<now, process, store, startup, seen, timers, cancel>>
  BY DEF SaveFails, clock
<1>2. due' \in [Sources -> Nat] BY <1>1 DEF IInv, AsksOK
<1>3. mishaps' \in 0..MaxMishaps BY WriteFailsCounts DEF SaveFails, IInv
<1>4. Answering(s) \in {"replying", "closed"} BY DEF Answering
<1>5. QED BY <1>1, <1>2, <1>3, <1>4, AskKeeps DEF Release

-----------------------------------------------------------------------------
(* Steps of the timers, and those that arm and stop them.                  *)

\* Rows and sources stay as they are.
LEMMA TimersKeep ==
  ASSUME IInv, UNCHANGED <<clock, store, asks, strays, mishaps>>,
         over \in SUBSET over', over' \in SUBSET Sources, edits' \in {edits, Nobody, Mover},
         cancel' \in {cancel, Idle}, listed' \in SUBSET listed,
         recovery' = recovery \/ (process = "up" /\ recovery' = "inbox"),
         TimersOK', IdsAreMinted', EditsAreHeld', DeletedIsGone', RanIsOver',
         RowsAreCovered', MovedTaskExists'
  PROVE  IInv'
<1>1. UNCHANGED <<now, process, rows, issued, pc, due>> BY DEF clock, store, asks
<1>2. ClockOK' BY <1>1 DEF IInv, ClockOK
<1>3. StoreOK' BY <1>1 DEF IInv, StoreOK
<1>4. AsksOK' BY <1>1 DEF IInv, AsksOK
<1>5. OneRowEach' BY <1>1 DEF IInv, OneRowEach, StoredOnce
<1>6. ArmsWhatItSaved' /\ StartsAfresh' BY <1>1 DEF IInv, ArmsWhatItSaved, StartsAfresh
<1>7. KeptUntilRun' BY <1>1 DEF IInv, KeptUntilRun
<1>8. RoomForDaily' BY <1>1 DEF IInv, RoomForDaily, DailyRows
<1>9. QED BY <1>2, <1>3, <1>4, <1>5, <1>6, <1>7, <1>8 DEF IInv

\* The timer t goes on to the step x, and no other timer changes.
GoesOn(t, x) ==
  /\ TimersOK'
  /\ \A v \in timers' : (v \in timers /\ v # t) \/ (v.task = t.task /\ v.step = x)
  /\ \A v \in timers : v.entry \/ v.step \in {"moving", "moved"} =>
       \E u \in timers' : u.task = v.task /\ (u.entry \/ u.step \in {"moving", "moved"})

LEMMA BecomeKeeps ==
  ASSUME IInv, NEW t \in timers, t.step \in {"waiting", "running", "ran"},
         NEW x \in {"running", "ran", "deleted"},
         timers' = Become(t, [t EXCEPT !.step = x])
  PROVE  GoesOn(t, x)
<1> DEFINE u == [t EXCEPT !.step = x]
<1>1. t \in Timer BY DEF IInv, TimersOK
<1>2. u \in Timer /\ u.step = x /\ u.task = t.task /\ u.entry = t.entry BY <1>1 DEF Timer
<1>3. timers' = (timers \ {t}) \cup {u} BY DEF Become
<1> HIDE DEF u
<1>4. TimersOK' BY <1>2, <1>3 DEF IInv, TimersOK
<1>5. \A v \in timers' : (v \in timers /\ v # t) \/ (v.task = t.task /\ v.step = x) BY <1>2, <1>3
<1>6. \A v \in timers : v.entry \/ v.step \in {"moving", "moved"} =>
        \E w \in timers' : w.task = v.task /\ (w.entry \/ w.step \in {"moving", "moved"})
  <2> SUFFICES ASSUME NEW v \in timers, v.entry \/ v.step \in {"moving", "moved"}
               PROVE  \E w \in timers' : w.task = v.task /\ (w.entry \/ w.step \in {"moving", "moved"})
    OBVIOUS
  <2>1. CASE v = t BY <1>2, <1>3, <2>1
  <2>2. CASE v # t BY <1>3, <2>2
  <2>3. QED BY <2>1, <2>2
<1>7. QED BY <1>4, <1>5, <1>6 DEF GoesOn

\* The timer's entry, or the one who moves it, covers a row.
LEMMA Covers ==
  ASSUME UNCHANGED <<pc, strays>>, NEW row, Covered(row),
         \A v \in timers : v.entry \/ v.step \in {"moving", "moved"} =>
           \/ \E u \in timers' : IdOf(u.task) = IdOf(v.task) /\ (u.entry \/ u.step \in {"moving", "moved"})
           \/ IdOf(v.task) # IdOf(row)
  PROVE  Covered(row)'
<1>1. CASE IdOf(row) \in strays \/ pc[row.source] = "arming" BY <1>1 DEF Covered
<1>2. CASE \E t \in timers : IdOf(t.task) = IdOf(row) /\ (t.entry \/ t.step \in {"moving", "moved"})
  BY <1>2 DEF Covered
<1>3. QED BY <1>1, <1>2 DEF Covered

LEMMA FireTaskStep == ASSUME IInv, NEW t \in timers, FireTask(t) PROVE IInv'
<1>1. UNCHANGED <<clock, store, asks, startup, seen, edits, cancel, mishaps>> BY DEF FireTask
<1>2. UNCHANGED <<process, rows, issued, pc, recovery, listed, over, strays>>
  BY <1>1 DEF clock, store, asks, startup, seen
<1>3. t.step = "waiting" BY DEF FireTask
<1>4. PICK x \in {"running", "ran"} :
        timers' = Become(t, [t EXCEPT !.step = x]) /\ (x = "ran" => IsDaily(t.task))
  BY DEF FireTask
<1>5. GoesOn(t, x)
  <2>1. x \in {"running", "ran", "deleted"} /\ t.step \in {"waiting", "running", "ran"} BY <1>3
  <2>2. timers' = Become(t, [t EXCEPT !.step = x]) BY <1>4
  <2>3. QED BY <2>1, <2>2, BecomeKeeps
<1>6. IdsAreMinted' BY <1>1, <1>2, <1>5 DEF IInv, IdsAreMinted, GoesOn
<1>7. EditsAreHeld' BY <1>1, <1>2, <1>4, <1>5 DEF IInv, EditsAreHeld, GoesOn
<1>8. DeletedIsGone' BY <1>1, <1>2, <1>4, <1>5 DEF IInv, DeletedIsGone, GoesOn
<1>9. RanIsOver' BY <1>2, <1>4, <1>5 DEF IInv, RanIsOver, GoesOn
<1>10. MovedTaskExists' BY <1>2, <1>4, <1>5 DEF IInv, MovedTaskExists, GoesOn
<1>11. RowsAreCovered'
  <2>1. \A row \in rows : Covered(row) => Covered(row)' BY <1>2, <1>5, Covers DEF GoesOn
  <2>2. QED BY <1>2, <2>1 DEF IInv, RowsAreCovered
<1>12. over \in SUBSET over' /\ over' \in SUBSET Sources BY <1>2 DEF IInv, StoreOK
<1>13. QED
  BY <1>1, <1>2, <1>5, <1>6, <1>7, <1>8, <1>9, <1>10, <1>11, <1>12, TimersKeep DEF GoesOn

LEMMA RunTaskStep == ASSUME IInv, NEW t \in timers, RunTask(t) PROVE IInv'
<1>1. UNCHANGED <<clock, store, asks, startup, edits, cancel, strays, mishaps>> BY DEF RunTask
<1>2. UNCHANGED <<process, rows, issued, pc, recovery, listed>>
  BY <1>1 DEF clock, store, asks, startup
<1>3. t.step = "running" /\ t \in Timer BY DEF RunTask, IInv, TimersOK
<1>4. CASE process = "up"
  <2>1. timers' = Become(t, [t EXCEPT !.step = "ran"]) BY <1>4 DEF RunTask
  <2>2. over' = IF IsDaily(t.task) THEN over ELSE over \cup {t.task.source} BY <1>4 DEF RunTask
  <2>3. t.task.source \in Sources BY <1>3 DEF Timer, Task
  <2>4. over \in SUBSET over' /\ over' \in SUBSET Sources /\ (~IsDaily(t.task) => t.task.source \in over')
    BY <2>2, <2>3 DEF IInv, StoreOK
  <2>5. GoesOn(t, "ran")
    BY <1>3, <2>1, BecomeKeeps
  <2>6. IdsAreMinted' BY <1>1, <1>2, <2>5 DEF IInv, IdsAreMinted, GoesOn
  <2>7. EditsAreHeld' BY <1>1, <1>2, <2>5 DEF IInv, EditsAreHeld, GoesOn
  <2>8. DeletedIsGone' BY <1>1, <1>2, <2>5 DEF IInv, DeletedIsGone, GoesOn
  <2>9. RanIsOver' BY <2>4, <2>5 DEF IInv, RanIsOver, GoesOn
  <2>10. MovedTaskExists' BY <1>2, <2>5 DEF IInv, MovedTaskExists, GoesOn
  <2>11. RowsAreCovered'
    <3>1. \A row \in rows : Covered(row) => Covered(row)' BY <1>1, <1>2, <2>5, Covers DEF GoesOn
    <3>2. QED BY <1>2, <3>1 DEF IInv, RowsAreCovered
  <2>12. QED
    BY <1>1, <1>2, <2>4, <2>5, <2>6, <2>7, <2>8, <2>9, <2>10, <2>11, TimersKeep DEF GoesOn
<1>5. CASE process # "up"
  <2>1. timers' \in SUBSET timers /\ over' = over BY <1>5 DEF RunTask
  <2>2. over \in SUBSET over' /\ over' \in SUBSET Sources BY <2>1 DEF IInv, StoreOK
  <2>3. TimersOK' BY <2>1 DEF IInv, TimersOK
  <2>4. IdsAreMinted' BY <1>1, <1>2, <2>1 DEF IInv, IdsAreMinted
  <2>5. EditsAreHeld' BY <1>1, <1>2, <2>1 DEF IInv, EditsAreHeld
  <2>6. DeletedIsGone' BY <1>1, <1>2, <2>1 DEF IInv, DeletedIsGone
  <2>7. RanIsOver' /\ MovedTaskExists' BY <1>2, <2>1 DEF IInv, RanIsOver, MovedTaskExists
  <2>8. RowsAreCovered' BY <1>2, <1>5 DEF RowsAreCovered
  <2>9. QED BY <1>1, <1>2, <2>2, <2>3, <2>4, <2>5, <2>6, <2>7, <2>8, TimersKeep
<1>6. QED BY <1>4, <1>5

\* Timers without the entry of a task.
Disowned(u, task) == IF IdOf(u.task) = IdOf(task) THEN [u EXCEPT !.entry = FALSE] ELSE u

LEMMA DisownedTimer ==
  ASSUME NEW u \in Timer, NEW task
  PROVE  LET v == Disowned(u, task)
         IN  /\ v \in Timer /\ v.task = u.task /\ v.step = u.step
             /\ v.entry => v = u
             /\ IdOf(u.task) # IdOf(task) => v = u
<1>1. [u EXCEPT !.entry = FALSE] \in Timer /\ [u EXCEPT !.entry = FALSE].task = u.task
      /\ [u EXCEPT !.entry = FALSE].step = u.step /\ [u EXCEPT !.entry = FALSE].entry = FALSE
  BY DEF Timer
<1>2. QED BY <1>1 DEF Disowned

LEMMA UnregisterTimers ==
  ASSUME NEW ts \in SUBSET Timer, NEW task,
         \A a, b \in ts : a.entry /\ b.entry /\ IdOf(a.task) = IdOf(b.task) => a = b
  PROVE  /\ Unregister(ts, task) \in SUBSET Timer
         /\ \A a, b \in Unregister(ts, task) :
              a.entry /\ b.entry /\ IdOf(a.task) = IdOf(b.task) => a = b
         /\ \A v \in Unregister(ts, task) :
              \E u \in ts : v = Disowned(u, task) /\ v.task = u.task /\ v.step = u.step
         /\ \A u \in ts : IdOf(u.task) # IdOf(task) => u \in Unregister(ts, task)
         /\ \A u \in ts : \E v \in Unregister(ts, task) : v.task = u.task /\ v.step = u.step
<1> DEFINE after == Unregister(ts, task)
<1>1. after = {Disowned(u, task) : u \in ts} BY DEF Unregister, Disowned
<1> HIDE DEF after
<1>2. \A u \in ts : LET v == Disowned(u, task)
                    IN  /\ v \in Timer /\ v.task = u.task /\ v.step = u.step
                        /\ v.entry => v = u
                        /\ IdOf(u.task) # IdOf(task) => v = u
  BY DisownedTimer
<1>3. after \in SUBSET Timer BY <1>1, <1>2
<1>4. \A v \in after : \E u \in ts : v = Disowned(u, task) /\ v.task = u.task /\ v.step = u.step
                                  /\ (v.entry => v = u)
  BY <1>1, <1>2
<1>5. \A a, b \in after : a.entry /\ b.entry /\ IdOf(a.task) = IdOf(b.task) => a = b
  BY <1>4
<1>6. \A u \in ts : IdOf(u.task) # IdOf(task) => u \in after BY <1>1, <1>2
<1>7. \A u \in ts : \E v \in after : v.task = u.task /\ v.step = u.step BY <1>1, <1>2
<1>8. QED BY <1>3, <1>4, <1>5, <1>6, <1>7 DEF after

LEMMA ForgetStep == ASSUME IInv, NEW t \in timers, Forget(t) PROVE IInv'
<1>1. UNCHANGED <<clock, store, asks, startup, seen, edits, cancel, mishaps>> BY DEF Forget
<1>2. UNCHANGED <<process, rows, issued, pc, recovery, listed, over, strays>>
  BY <1>1 DEF clock, store, asks, startup, seen
<1>3. t.step = "deleted" /\ timers' = Unregister(timers \ {t}, t.task) BY DEF Forget
<1>4. PICK rest \in SUBSET timers : rest = timers \ {t} OBVIOUS
<1>5. rest \in SUBSET Timer
      /\ \A a, b \in rest : a.entry /\ b.entry /\ IdOf(a.task) = IdOf(b.task) => a = b
  BY <1>4 DEF IInv, TimersOK
<1>6. timers' = Unregister(rest, t.task) BY <1>3, <1>4
<1>7. timers' \in SUBSET Timer
      /\ \A a, b \in timers' : a.entry /\ b.entry /\ IdOf(a.task) = IdOf(b.task) => a = b
  BY <1>5, <1>6, UnregisterTimers
<1>8. \A v \in timers' :
        \E u \in timers : v = Disowned(u, t.task) /\ v.task = u.task /\ v.step = u.step
  BY <1>5, <1>6, UnregisterTimers
<1>9. \A u \in timers : u # t /\ IdOf(u.task) # IdOf(t.task) => u \in timers'
  BY <1>4, <1>5, <1>6, UnregisterTimers
<1>10. TimersOK' BY <1>7 DEF TimersOK
<1>11. IdsAreMinted' BY <1>1, <1>2, <1>8 DEF IInv, IdsAreMinted
<1>12. EditsAreHeld'
  <2>1. \A v \in timers' : v.step \in {"moving", "moved"} => edits = Mover /\ IsDaily(v.task)
    BY <1>8 DEF IInv, EditsAreHeld
  <2>2. \A a, b \in timers' :
          a.step \in {"moving", "moved"} /\ b.step \in {"moving", "moved"} => a = b
    BY <1>8 DEF IInv, EditsAreHeld
  <2>3. QED BY <1>1, <1>2, <2>1, <2>2 DEF IInv, EditsAreHeld
<1>13. DeletedIsGone' BY <1>1, <1>2, <1>8 DEF IInv, DeletedIsGone
<1>14. RanIsOver' /\ MovedTaskExists' BY <1>2, <1>8 DEF IInv, RanIsOver, MovedTaskExists
<1>15. RowsAreCovered'
  <2>1. ASSUME NEW row \in rows, Covered(row) PROVE Covered(row)'
    <3>1. CASE IdOf(row) = IdOf(t.task)
      <4>1. IdOf(row) \in strays BY <1>3, <3>1 DEF IInv, DeletedIsGone
      <4>2. QED BY <1>2, <4>1 DEF Covered
    <3>2. CASE IdOf(row) # IdOf(t.task)
      <4>1. \A v \in timers : IdOf(v.task) = IdOf(row) => v \in timers' BY <1>9, <3>2
      <4>2. QED BY <1>2, <2>1, <4>1 DEF Covered
    <3>3. QED BY <3>1, <3>2
  <2>2. QED BY <1>2, <2>1 DEF IInv, RowsAreCovered
<1>16. over \in SUBSET over' /\ over' \in SUBSET Sources BY <1>2 DEF IInv, StoreOK
<1>17. QED
  BY <1>1, <1>2, <1>10, <1>11, <1>12, <1>13, <1>14, <1>15, <1>16, TimersKeep

LEMMA RescheduleDailyStep == ASSUME IInv, NEW t \in timers, RescheduleDaily(t) PROVE IInv'
<1>1. UNCHANGED <<clock, store, asks, startup, seen, cancel, mishaps>> /\ edits' = Mover
  BY DEF RescheduleDaily
<1>2. UNCHANGED <<process, rows, issued, pc, recovery, listed, over, strays>>
  BY <1>1 DEF clock, store, asks, startup, seen
<1>3. t.step = "ran" /\ IsDaily(t.task) /\ edits = Nobody /\ t \in Timer
  BY DEF RescheduleDaily, IInv, TimersOK
<1>4. PICK u : u = [t EXCEPT !.step = "moving"] OBVIOUS
<1>5. u \in Timer /\ u.task = t.task /\ u.entry = t.entry /\ u.step = "moving"
  BY <1>3, <1>4 DEF Timer
<1>6. PICK ts : ts = (timers \ {t}) \cup {u} OBVIOUS
<1>7. ts \in SUBSET Timer
      /\ \A a, b \in ts : a.entry /\ b.entry /\ IdOf(a.task) = IdOf(b.task) => a = b
  BY <1>5, <1>6 DEF IInv, TimersOK
<1>8. timers' = Unregister(ts, t.task) BY <1>4, <1>6 DEF RescheduleDaily, Become
<1>9. timers' \in SUBSET Timer
      /\ \A a, b \in timers' : a.entry /\ b.entry /\ IdOf(a.task) = IdOf(b.task) => a = b
  BY <1>7, <1>8, UnregisterTimers
<1>10. \A v \in timers' :
         \E w \in ts : v = Disowned(w, t.task) /\ v.task = w.task /\ v.step = w.step
  BY <1>7, <1>8, UnregisterTimers
<1>11. \A w \in ts : IdOf(w.task) # IdOf(t.task) => w \in timers'
  BY <1>7, <1>8, UnregisterTimers
<1>12. \E v \in timers' : v.task = t.task /\ v.step = "moving"
  BY <1>5, <1>6, <1>7, <1>8, UnregisterTimers
<1>13. \A v \in timers' : \E w \in timers : v.task = w.task /\ (v.step = w.step \/ v.step = "moving")
  BY <1>5, <1>6, <1>10
<1>14. \A v \in timers : v.step \notin {"moving", "moved"}
  BY <1>3, HoldersDiffer DEF IInv, EditsAreHeld
<1>15. TimersOK' BY <1>9 DEF TimersOK
<1>16. IdsAreMinted' BY <1>1, <1>2, <1>13 DEF IInv, IdsAreMinted
<1>17. EditsAreHeld'
  <2>1. \A w \in ts : w.step \in {"moving", "moved"} => w = u BY <1>6, <1>14
  <2>2. \A v \in timers' : v.step \in {"moving", "moved"} => edits' = Mover /\ IsDaily(v.task)
    BY <1>1, <1>3, <1>5, <1>10, <2>1
  <2>3. \A a, b \in timers' :
          a.step \in {"moving", "moved"} /\ b.step \in {"moving", "moved"} => a = b
    BY <1>10, <2>1
  <2>4. cancel' = Idle BY <1>1, <1>3, HoldersDiffer DEF IInv, EditsAreHeld
  <2>5. \A s \in Daily : pc'[s] \notin {"saving", "arming"}
    BY <1>2, <1>3, HoldersDiffer, SourceKinds DEF IInv, EditsAreHeld
  <2>6. QED BY <2>2, <2>3, <2>4, <2>5 DEF EditsAreHeld
<1>18. DeletedIsGone' BY <1>1, <1>2, <1>13 DEF IInv, DeletedIsGone
<1>19. RanIsOver' BY <1>2, <1>13 DEF IInv, RanIsOver
<1>20. MovedTaskExists' BY <1>2, <1>13, <1>14 DEF MovedTaskExists
<1>21. RowsAreCovered'
  <2>1. ASSUME NEW row \in rows, Covered(row) PROVE Covered(row)'
    <3>1. CASE IdOf(row) = IdOf(t.task) BY <1>12, <3>1 DEF Covered
    <3>2. CASE IdOf(row) # IdOf(t.task)
      <4>1. \A v \in timers : IdOf(v.task) = IdOf(row) => v \in timers' BY <1>6, <1>11, <3>2
      <4>2. QED BY <1>2, <2>1, <4>1 DEF Covered
    <3>3. QED BY <3>1, <3>2
  <2>2. QED BY <1>2, <2>1 DEF IInv, RowsAreCovered
<1>22. over \in SUBSET over' /\ over' \in SUBSET Sources BY <1>2 DEF IInv, StoreOK
<1>23. QED
  BY <1>1, <1>2, <1>15, <1>16, <1>17, <1>18, <1>19, <1>20, <1>21, <1>22, TimersKeep

LEMMA DeleteRunStep == ASSUME IInv, NEW t \in timers, DeleteRun(t) PROVE IInv'
<1>1. UNCHANGED <<now, process, pc, due, recovery, listed, issued, edits, cancel, over>>
  BY DEF DeleteRun, clock, asks, startup
<1>2. t.step = "ran" /\ ~IsDaily(t.task) /\ t \in Timer
      /\ timers' = Become(t, [t EXCEPT !.step = "deleted"])
  BY DEF DeleteRun, IInv, TimersOK
<1>3. GoesOn(t, "deleted")
  BY <1>2, BecomeKeeps
<1>4. t.task.source \in over /\ t.task \in Task BY <1>2 DEF IInv, RanIsOver, Timer
<1>5. rows' \in SUBSET rows /\ strays \in SUBSET strays'
      /\ \A row \in rows : row \in rows' \/ row.source = t.task.source
  BY DEF DeleteRun, DeleteScheduledTask, IdOf
<1>6. IdOf(t.task) \in strays' \/ \A row \in rows' : IdOf(row) # IdOf(t.task)
  BY DEF DeleteRun, DeleteScheduledTask
<1>7. ClockOK'
  <2>1. mishaps' \in 0..MaxMishaps
    BY WriteFailsCounts DEF DeleteRun, IInv, ClockOK
  <2>2. QED BY <1>1, <2>1 DEF IInv, ClockOK
<1>8. StoreOK'
  <2>1. IdOf(t.task) \in Sources \X Nat BY <1>4 DEF Task, IdOf
  <2>2. strays' \in SUBSET (Sources \X Nat) BY <2>1 DEF DeleteRun, IInv, StoreOK
  <2>3. QED BY <1>1, <1>5, <2>2 DEF IInv, StoreOK
<1>9. AsksOK' BY <1>1 DEF IInv, AsksOK
<1>10. IdsAreMinted' BY <1>1, <1>3, <1>5 DEF IInv, IdsAreMinted, GoesOn
<1>11. OneRowEach' BY <1>1, <1>5 DEF IInv, OneRowEach, StoredOnce
<1>12. ArmsWhatItSaved' BY <1>1, <1>5 DEF IInv, ArmsWhatItSaved
<1>13. EditsAreHeld' BY <1>1, <1>3 DEF IInv, EditsAreHeld, GoesOn
<1>14. StartsAfresh' BY <1>1 DEF IInv, StartsAfresh
<1>15. DeletedIsGone'
  <2>1. cancel'.step = "deleted" => \A row \in rows' : IdOf(row) # IdOf(cancel'.task)
    BY <1>1, <1>5 DEF IInv, DeletedIsGone
  <2>2. ASSUME NEW v \in timers', v.step = "deleted"
        PROVE  IdOf(v.task) \in strays' \/ \A row \in rows' : IdOf(row) # IdOf(v.task)
    <3>1. CASE v \in timers BY <1>5, <2>2, <3>1 DEF IInv, DeletedIsGone
    <3>2. CASE v.task = t.task BY <1>6, <3>2
    <3>3. QED BY <1>3, <3>1, <3>2 DEF GoesOn
  <2>3. QED BY <2>1, <2>2 DEF DeletedIsGone
<1>16. RanIsOver' BY <1>1, <1>3, <1>4 DEF IInv, RanIsOver, GoesOn
<1>17. KeptUntilRun' BY <1>1, <1>4, <1>5 DEF IInv, KeptUntilRun
<1>18. RowsAreCovered'
  <2>1. ASSUME NEW row, Covered(row) PROVE Covered(row)'
    <3>1. CASE IdOf(row) \in strays \/ pc[row.source] = "arming" BY <1>1, <1>5, <3>1 DEF Covered
    <3>2. CASE \E v \in timers : IdOf(v.task) = IdOf(row) /\ (v.entry \/ v.step \in {"moving", "moved"})
      BY <1>3, <3>2 DEF Covered, GoesOn
    <3>3. QED BY <2>1, <3>1, <3>2 DEF Covered
  <2>2. QED BY <1>1, <1>5, <2>1 DEF IInv, RowsAreCovered
<1>19. MovedTaskExists'
  <2>1. ASSUME NEW v \in timers', v.step = "moved" PROVE \E row \in rows' : IdOf(row) = IdOf(v.task)
    <3>1. v \in timers /\ IsDaily(v.task) BY <1>3, <2>1 DEF IInv, EditsAreHeld, GoesOn
    <3>2. PICK row \in rows : IdOf(row) = IdOf(v.task) BY <2>1, <3>1 DEF IInv, MovedTaskExists
    <3>3. row.source # t.task.source BY <1>2, <3>1, <3>2 DEF IsDaily, IdOf
    <3>4. QED BY <1>5, <3>2, <3>3
  <2>2. QED BY <2>1 DEF MovedTaskExists
<1>20. RoomForDaily' BY <1>1, <1>5, RoomStays DEF IInv
<1>21. QED
  BY <1>3, <1>7, <1>8, <1>9, <1>10, <1>11, <1>12, <1>13, <1>14, <1>15, <1>16, <1>17, <1>18,
     <1>19, <1>20
  DEF IInv, GoesOn

\* Whoever is armed has an entry, and only one.
LEMMA ArmTimers ==
  ASSUME NEW ts \in SUBSET Timer, NEW tasks \in SUBSET Task,
         \A a, b \in ts : a.entry /\ b.entry /\ IdOf(a.task) = IdOf(b.task) => a = b,
         \A a, b \in tasks : IdOf(a) = IdOf(b) => a = b
  PROVE  /\ Arm(ts, tasks) \in SUBSET Timer
         /\ \A a, b \in Arm(ts, tasks) :
              a.entry /\ b.entry /\ IdOf(a.task) = IdOf(b.task) => a = b
         /\ ts \in SUBSET Arm(ts, tasks)
         /\ \A v \in Arm(ts, tasks) : v \in ts \/ (v.task \in tasks /\ v.step = "waiting")
         /\ process = "up" =>
              \A k \in tasks : \E v \in Arm(ts, tasks) : IdOf(v.task) = IdOf(k) /\ v.entry
<1> DEFINE Armed(k) == [step |-> "waiting", task |-> k, entry |-> TRUE]
           fresh == {k \in tasks : \A t \in ts : IdOf(t.task) = IdOf(k) => ~t.entry}
<1>1. \A k \in tasks : Armed(k) \in Timer /\ Armed(k).task = k /\ Armed(k).step = "waiting" /\ Armed(k).entry
  BY DEF Timer
<1>2. CASE process # "up" BY <1>2 DEF Arm
<1>3. CASE process = "up"
  <2>1. Arm(ts, tasks) = ts \cup {Armed(k) : k \in fresh} BY <1>3 DEF Arm, TimersOf
  <2>2. PICK after : after = Arm(ts, tasks) OBVIOUS
  <2> HIDE DEF Armed
  <2>3. \A v \in after : \/ v \in ts
                        \/ \E k \in tasks : /\ v = Armed(k) /\ v.task = k
                             /\ \A t \in ts : IdOf(t.task) = IdOf(k) => ~t.entry
    BY <1>1, <2>1, <2>2
  <2>4. after \in SUBSET Timer BY <1>1, <2>3
  <2>5. \A a, b \in after : a.entry /\ b.entry /\ IdOf(a.task) = IdOf(b.task) => a = b
    BY <2>3
  <2>6. ts \in SUBSET after BY <2>1, <2>2
  <2>7. \A v \in after : v \in ts \/ (v.task \in tasks /\ v.step = "waiting") BY <1>1, <2>3
  <2>8. \A k \in tasks : \E v \in after : IdOf(v.task) = IdOf(k) /\ v.entry
    <3> SUFFICES ASSUME NEW k \in tasks PROVE \E v \in after : IdOf(v.task) = IdOf(k) /\ v.entry
      OBVIOUS
    <3>1. CASE k \in fresh
      <4>1. Armed(k) \in after BY <2>1, <2>2, <3>1
      <4>2. QED BY <1>1, <4>1
    <3>2. CASE k \notin fresh BY <2>6, <3>2
    <3>3. QED BY <3>1, <3>2
  <2>9. QED BY <2>2, <2>4, <2>5, <2>6, <2>7, <2>8
<1>4. QED BY <1>2, <1>3

LEMMA ArmStoredTasksStep == ASSUME IInv, ArmStoredTasks PROVE IInv'
<1>1. UNCHANGED <<clock, store, asks, seen, edits, cancel, mishaps>> BY DEF ArmStoredTasks
<1>2. UNCHANGED <<process, rows, issued, pc, over, strays>> BY <1>1 DEF clock, store, asks, seen
<1>3. timers' = Arm(timers, listed) /\ recovery' = "inbox" /\ listed' = {} /\ process = "up"
      /\ recovery = "arming"
  BY DEF ArmStoredTasks
<1>4. /\ timers \in SUBSET Timer /\ listed \in SUBSET Task
      /\ \A a, b \in timers : a.entry /\ b.entry /\ IdOf(a.task) = IdOf(b.task) => a = b
      /\ \A a, b \in listed : IdOf(a) = IdOf(b) => a = b
  BY DEF IInv, TimersOK, StoreOK, OneRowEach, IdOf
<1>5. PICK ts, tasks : ts = timers /\ tasks = listed OBVIOUS
<1>6. /\ Arm(ts, tasks) \in SUBSET Timer
      /\ \A a, b \in Arm(ts, tasks) : a.entry /\ b.entry /\ IdOf(a.task) = IdOf(b.task) => a = b
      /\ ts \in SUBSET Arm(ts, tasks)
      /\ \A v \in Arm(ts, tasks) : v \in ts \/ (v.task \in tasks /\ v.step = "waiting")
      /\ \A k \in tasks : \E v \in Arm(ts, tasks) : IdOf(v.task) = IdOf(k) /\ v.entry
  BY <1>3, <1>4, <1>5, ArmTimers
<1>7. TimersOK' BY <1>3, <1>5, <1>6 DEF TimersOK
<1>8. /\ timers \in SUBSET timers'
      /\ \A v \in timers' : v \in timers \/ (v.task \in listed /\ v.step = "waiting")
      /\ \A k \in listed : \E v \in timers' : IdOf(v.task) = IdOf(k) /\ v.entry
  BY <1>3, <1>5, <1>6
<1>9. IdsAreMinted' BY <1>1, <1>2, <1>3, <1>8 DEF IInv, IdsAreMinted
<1>10. EditsAreHeld'
  <2>1. \A v \in timers' : v.step \in {"moving", "moved"} => v \in timers BY <1>8
  <2>2. QED BY <1>1, <1>2, <2>1 DEF IInv, EditsAreHeld
<1>11. DeletedIsGone'
  <2>1. \A v \in timers' : v.step = "deleted" => v \in timers BY <1>8
  <2>2. QED BY <1>1, <1>2, <2>1 DEF IInv, DeletedIsGone
<1>12. RanIsOver' /\ MovedTaskExists' BY <1>2, <1>8 DEF IInv, RanIsOver, MovedTaskExists
<1>13. RowsAreCovered'
  <2>1. \A row \in rows : Covered(row) => Covered(row)' BY <1>2, <1>8, Covers
  <2>2. ASSUME NEW row \in rows, NEW k \in listed, IdOf(k) = IdOf(row) PROVE Covered(row)'
    <3>1. PICK v \in timers' : IdOf(v.task) = IdOf(k) /\ v.entry BY <1>8
    <3>2. QED BY <2>2, <3>1 DEF Covered
  <2>3. QED BY <1>2, <1>3, <2>1, <2>2 DEF IInv, RowsAreCovered
<1>14. over \in SUBSET over' /\ over' \in SUBSET Sources BY <1>2 DEF IInv, StoreOK
<1>15. QED
  BY <1>1, <1>2, <1>3, <1>7, <1>9, <1>10, <1>11, <1>12, <1>13, <1>14, TimersKeep

LEMMA ArmNextStep == ASSUME IInv, NEW t \in timers, ArmNext(t) PROVE IInv'
<1>1. UNCHANGED <<clock, store, asks, startup, seen, cancel, mishaps>> /\ edits' = Nobody
  BY DEF ArmNext
<1>2. UNCHANGED <<process, rows, issued, pc, recovery, listed, over, strays>>
  BY <1>1 DEF clock, store, asks, startup, seen
<1>3. t.step = "moved" /\ t \in Timer /\ edits = Mover
  BY DEF ArmNext, IInv, TimersOK, EditsAreHeld
<1>4. t.task \in Task BY <1>3 DEF Timer
<1>5. PICK ts, tasks : ts = timers \ {t} /\ tasks = {t.task} OBVIOUS
<1>6. /\ ts \in SUBSET Timer /\ tasks \in SUBSET Task
      /\ \A a, b \in ts : a.entry /\ b.entry /\ IdOf(a.task) = IdOf(b.task) => a = b
      /\ \A a, b \in tasks : IdOf(a) = IdOf(b) => a = b
  BY <1>4, <1>5 DEF IInv, TimersOK
<1>7. timers' = Arm(ts, tasks) BY <1>5 DEF ArmNext
<1>8. /\ timers' \in SUBSET Timer
      /\ \A a, b \in timers' : a.entry /\ b.entry /\ IdOf(a.task) = IdOf(b.task) => a = b
      /\ ts \in SUBSET timers'
      /\ \A v \in timers' : v \in ts \/ (v.task \in tasks /\ v.step = "waiting")
      /\ process = "up" => \A k \in tasks : \E v \in timers' : IdOf(v.task) = IdOf(k) /\ v.entry
  BY <1>6, <1>7, ArmTimers
<1>9. TimersOK' BY <1>8 DEF TimersOK
<1>10. \A v \in timers' : (v \in timers /\ v # t) \/ (v.task = t.task /\ v.step = "waiting")
  BY <1>5, <1>8
<1>11. \A v \in timers : v # t => v \in timers' BY <1>5, <1>8
<1>12. process = "up" => \E v \in timers' : IdOf(v.task) = IdOf(t.task) /\ v.entry BY <1>5, <1>8
<1>13. IdsAreMinted' BY <1>1, <1>2, <1>10 DEF IInv, IdsAreMinted
<1>14. EditsAreHeld'
  <2>1. \A v \in timers' : v.step \notin {"moving", "moved"}
    BY <1>3, <1>10 DEF IInv, EditsAreHeld
  <2>2. cancel' = Idle BY <1>1, <1>3, HoldersDiffer DEF IInv, EditsAreHeld
  <2>3. \A s \in Daily : pc'[s] \notin {"saving", "arming"}
    BY <1>2, <1>3, HoldersDiffer, SourceKinds DEF IInv, EditsAreHeld
  <2>4. QED BY <2>1, <2>2, <2>3 DEF EditsAreHeld
<1>15. DeletedIsGone' BY <1>1, <1>2, <1>10 DEF IInv, DeletedIsGone
<1>16. RanIsOver' /\ MovedTaskExists' BY <1>2, <1>10 DEF IInv, RanIsOver, MovedTaskExists
<1>17. RowsAreCovered'
  <2>1. ASSUME process = "up", NEW row \in rows, Covered(row) PROVE Covered(row)'
    <3>1. \A v \in timers : \E u \in timers' :
            IdOf(u.task) = IdOf(v.task) /\ (u = v \/ u.entry)
      BY <1>11, <1>12, <2>1
    <3>2. QED BY <1>2, <2>1, <3>1, Covers
  <2>2. QED BY <1>2, <2>1 DEF IInv, RowsAreCovered
<1>18. over \in SUBSET over' /\ over' \in SUBSET Sources BY <1>2 DEF IInv, StoreOK
<1>19. QED
  BY <1>1, <1>2, <1>9, <1>13, <1>14, <1>15, <1>16, <1>17, <1>18, TimersKeep

LEMMA ArmTaskStep == ASSUME IInv, NEW s \in Sources, ArmTask(s) PROVE IInv'
<1>1. UNCHANGED <<now, process, rows, issued, recovery, listed, over, strays, due, cancel, mishaps>>
  BY DEF ArmTask, clock, store, startup, seen
<1>2. pc[s] = "arming" /\ pc' = [pc EXCEPT ![s] = Answering(s)] /\ edits' = Release(s)
      /\ timers' = Arm(timers, {Saved(s)})
  BY DEF ArmTask
<1>3. Answering(s) \in {"replying", "closed"} BY DEF Answering
<1>4. /\ pc' \in [Sources -> {"new", "saving", "arming", "replying", "unfinished", "closed"}]
      /\ pc'[s] \in {"replying", "closed"} /\ \A o \in Sources \ {s} : pc'[o] = pc[o]
  BY <1>2, <1>3 DEF IInv, AsksOK
<1>5. Saved(s) \in Task /\ IdOf(Saved(s)) = <<s, issued[s]>>
      /\ Saved(s).source = s /\ Saved(s).id = issued[s]
  <2>1. issued[s] \in Nat /\ due[s] \in Nat BY DEF IInv, StoreOK, AsksOK
  <2>2. QED BY <2>1 DEF Saved, Task, IdOf
<1>6. PICK ts, tasks : ts = timers /\ tasks = {Saved(s)} OBVIOUS
<1>7. /\ ts \in SUBSET Timer /\ tasks \in SUBSET Task
      /\ \A a, b \in ts : a.entry /\ b.entry /\ IdOf(a.task) = IdOf(b.task) => a = b
      /\ \A a, b \in tasks : IdOf(a) = IdOf(b) => a = b
  BY <1>5, <1>6 DEF IInv, TimersOK
<1>8. timers' = Arm(ts, tasks) BY <1>2, <1>6
<1>9. /\ timers' \in SUBSET Timer
      /\ \A a, b \in timers' : a.entry /\ b.entry /\ IdOf(a.task) = IdOf(b.task) => a = b
      /\ ts \in SUBSET timers'
      /\ \A v \in timers' : v \in ts \/ (v.task \in tasks /\ v.step = "waiting")
      /\ process = "up" => \A k \in tasks : \E v \in timers' : IdOf(v.task) = IdOf(k) /\ v.entry
  BY <1>7, <1>8, ArmTimers
<1>10. \A v \in timers' : v \in timers \/ (v.task = Saved(s) /\ v.step = "waiting") BY <1>6, <1>9
<1>11. timers \in SUBSET timers' BY <1>6, <1>9
<1>12. process = "up" => \E v \in timers' : IdOf(v.task) = <<s, issued[s]>> /\ v.entry
  BY <1>5, <1>6, <1>9
<1>13. ClockOK' BY <1>1 DEF IInv, ClockOK
<1>14. StoreOK' BY <1>1 DEF IInv, StoreOK
<1>15. AsksOK'
  <2>1. edits' \in {Nobody, Canceller, Mover} \cup [holder : Sources]
    BY <1>2 DEF IInv, AsksOK, Release
  <2>2. QED BY <1>1, <1>4, <2>1 DEF IInv, AsksOK
<1>16. TimersOK' BY <1>9 DEF TimersOK
<1>17. IdsAreMinted'
  <2>1. \A v \in timers' : v.task.id <= issued[v.task.source]
    <3>1. issued[s] <= issued[s] BY DEF IInv, StoreOK
    <3>2. QED BY <1>5, <1>10, <3>1 DEF IInv, IdsAreMinted
  <2>2. QED BY <1>1, <2>1 DEF IInv, IdsAreMinted
<1>18. OneRowEach' BY <1>1 DEF IInv, OneRowEach, StoredOnce
<1>19. ArmsWhatItSaved' BY <1>1, <1>4 DEF IInv, ArmsWhatItSaved
<1>20. EditsAreHeld'
  <2>1. edits' = edits \/ (edits = [holder |-> s] /\ edits' = Nobody) BY <1>2 DEF Release
  <2>2. \A v \in timers' : v.step \in {"moving", "moved"} => v \in timers BY <1>10
  <2>3. cancel' # Idle => edits' = Canceller BY <1>1, <2>1, HoldersDiffer DEF IInv, EditsAreHeld
  <2>4. \A o \in Daily : pc'[o] \in {"saving", "arming"} => edits' = [holder |-> o]
    BY <1>4, <2>1, HoldersDiffer, SourceKinds DEF IInv, EditsAreHeld
  <2>5. \A v \in timers' : v.step \in {"moving", "moved"} => edits' = Mover /\ IsDaily(v.task)
    BY <2>1, <2>2, HoldersDiffer DEF IInv, EditsAreHeld
  <2>6. QED BY <2>2, <2>3, <2>4, <2>5 DEF IInv, EditsAreHeld
<1>21. StartsAfresh' BY <1>1 DEF IInv, StartsAfresh
<1>22. DeletedIsGone'
  <2>1. \A v \in timers' : v.step = "deleted" => v \in timers BY <1>10
  <2>2. QED BY <1>1, <2>1 DEF IInv, DeletedIsGone
<1>23. RanIsOver' /\ MovedTaskExists' BY <1>1, <1>10 DEF IInv, RanIsOver, MovedTaskExists
<1>24. KeptUntilRun' BY <1>1 DEF IInv, KeptUntilRun
<1>25. RowsAreCovered'
  <2>1. ASSUME process = "up", NEW row \in rows, Covered(row) PROVE Covered(row)'
    <3>1. CASE row.source = s
      <4>1. IdOf(row) = <<s, issued[s]>> BY <1>2, <3>1 DEF IInv, ArmsWhatItSaved, IdOf
      <4>2. QED BY <1>12, <2>1, <4>1 DEF Covered
    <3>2. CASE row.source # s
      <4>1. row.source \in Sources BY DEF IInv, StoreOK, Task
      <4>2. pc'[row.source] = pc[row.source] BY <1>4, <3>2, <4>1
      <4>3. QED BY <1>1, <1>11, <2>1, <4>2 DEF Covered
    <3>3. QED BY <3>1, <3>2
  <2>2. QED BY <1>1, <2>1 DEF IInv, RowsAreCovered
<1>26. RoomForDaily'
  <2>1. \A o \in Sources : pc'[o] = "saving" => pc[o] = "saving" BY <1>4
  <2>2. QED BY <1>1, <2>1, SourceKinds DEF IInv, RoomForDaily, DailyRows
<1>27. QED
  BY <1>13, <1>14, <1>15, <1>16, <1>17, <1>18, <1>19, <1>20, <1>21, <1>22, <1>23, <1>24, <1>25,
     <1>26
  DEF IInv

-----------------------------------------------------------------------------
(* CancelTask.                                                             *)

\* Only the cancellation, and who holds taskEdits, change.
LEMMA CancelKeeps ==
  ASSUME IInv, UNCHANGED <<clock, store, asks, startup, seen, timers>>,
         mishaps' \in 0..MaxMishaps,
         cancel' \in {Idle} \cup [step : {"found"}, task : Task],
         cancel' # Idle => cancel'.task \in rows,
         edits' \in {Nobody, Canceller}, cancel' # Idle => edits' = Canceller,
         edits' = edits \/ edits \in {Nobody, Canceller}
  PROVE  IInv'
<1>1. UNCHANGED <<now, process, rows, issued, recovery, listed, over, strays, pc, due, timers>>
  BY DEF clock, store, asks, startup, seen
<1>2. ClockOK' BY <1>1 DEF IInv, ClockOK
<1>3. StoreOK' BY <1>1 DEF IInv, StoreOK
<1>4. AsksOK' BY <1>1 DEF IInv, AsksOK
<1>5. TimersOK' BY <1>1 DEF IInv, TimersOK
<1>6. IdsAreMinted' BY <1>1 DEF IInv, IdsAreMinted
<1>7. OneRowEach' /\ KeptUntilRun' BY <1>1 DEF IInv, OneRowEach, StoredOnce, KeptUntilRun
<1>8. ArmsWhatItSaved' /\ StartsAfresh' BY <1>1 DEF IInv, ArmsWhatItSaved, StartsAfresh
<1>9. EditsAreHeld'
  <2>1. \A s \in Daily : pc'[s] \notin {"saving", "arming"}
    BY <1>1, HoldersDiffer, SourceKinds DEF IInv, EditsAreHeld
  <2>2. \A t \in timers' : t.step \notin {"moving", "moved"}
    BY <1>1, HoldersDiffer DEF IInv, EditsAreHeld
  <2>3. QED BY <2>1, <2>2 DEF EditsAreHeld
<1>10. DeletedIsGone'
  <2>1. cancel'.step # "deleted" BY IdleType
  <2>2. QED BY <1>1, <2>1 DEF IInv, DeletedIsGone
<1>11. RanIsOver' /\ MovedTaskExists' BY <1>1 DEF IInv, RanIsOver, MovedTaskExists
<1>12. RowsAreCovered' BY <1>1 DEF IInv, RowsAreCovered, Covered
<1>13. RoomForDaily' BY <1>1 DEF IInv, RoomForDaily, DailyRows
<1>14. QED
  BY <1>2, <1>3, <1>4, <1>5, <1>6, <1>7, <1>8, <1>9, <1>10, <1>11, <1>12, <1>13 DEF IInv

LEMMA CancelTaskStep == ASSUME IInv, NEW row \in rows, CancelTask(row) PROVE IInv'
<1>1. mishaps' \in 0..MaxMishaps BY MishapCounts DEF CancelTask, IInv
<1>2. row \in Task BY DEF IInv, StoreOK
<1>3. cancel' \in [step : {"found"}, task : Task] /\ cancel'.task \in rows
  BY <1>2 DEF CancelTask
<1>4. edits = Nobody /\ edits' = Canceller /\ UNCHANGED <<clock, store, asks, startup, seen, timers>>
  BY DEF CancelTask
<1>5. QED BY <1>1, <1>3, <1>4, CancelKeeps

LEMMA CancelDeleteStep == ASSUME IInv, CancelDelete PROVE IInv'
<1>1. UNCHANGED <<now, process, pc, due, recovery, listed, issued, timers, strays>>
  BY DEF CancelDelete, clock, asks, startup
<1>2. cancel.step = "found" /\ cancel # Idle /\ edits = Canceller
  BY IdleType DEF CancelDelete, IInv, EditsAreHeld
<1>3. CASE /\ rows' = DeleteScheduledTask(cancel.task)
           /\ over' = over \cup {cancel.task.source}
           /\ cancel' = [cancel EXCEPT !.step = "deleted"]
           /\ UNCHANGED <<edits, mishaps>>
  <2>1. cancel \in [step : {"found", "deleted"}, task : Task] BY <1>2 DEF IInv, AsksOK
  <2>2. cancel'.task = cancel.task /\ cancel.task \in Task
        /\ cancel' \in [step : {"found", "deleted"}, task : Task]
    BY <1>3, <2>1
  <2>3. rows' \in SUBSET rows /\ \A row \in rows : row \in rows' \/ row.source = cancel.task.source
    BY <1>3 DEF DeleteScheduledTask, IdOf
  <2>4. over' = over \cup {cancel.task.source} /\ cancel.task.source \in Sources
    BY <1>3, <2>2 DEF Task
  <2>5. ClockOK' BY <1>1, <1>3 DEF IInv, ClockOK
  <2>6. StoreOK' BY <1>1, <2>3, <2>4 DEF IInv, StoreOK
  <2>7. AsksOK' BY <1>1, <1>3, <2>2 DEF IInv, AsksOK
  <2>8. TimersOK' BY <1>1 DEF IInv, TimersOK
  <2>9. IdsAreMinted' BY <1>1, <1>2, <2>2, <2>3 DEF IInv, IdsAreMinted
  <2>10. OneRowEach' BY <1>1, <2>3 DEF IInv, OneRowEach, StoredOnce
  <2>11. ArmsWhatItSaved' BY <1>1, <2>3 DEF IInv, ArmsWhatItSaved
  <2>12. EditsAreHeld' BY <1>1, <1>2, <1>3 DEF IInv, EditsAreHeld
  <2>13. StartsAfresh' BY <1>1 DEF IInv, StartsAfresh
  <2>14. DeletedIsGone'
    <3>1. \A row \in rows' : IdOf(row) # IdOf(cancel'.task) BY <1>3, <2>2 DEF DeleteScheduledTask
    <3>2. \A t \in timers' : t.step = "deleted" =>
            IdOf(t.task) \in strays' \/ \A row \in rows' : IdOf(row) # IdOf(t.task)
      BY <1>1, <2>3 DEF IInv, DeletedIsGone
    <3>3. QED BY <3>1, <3>2 DEF DeletedIsGone
  <2>15. RanIsOver' BY <1>1, <2>4 DEF IInv, RanIsOver
  <2>16. KeptUntilRun' BY <1>1, <2>3, <2>4 DEF IInv, KeptUntilRun
  <2>17. RowsAreCovered' BY <1>1, <2>3 DEF IInv, RowsAreCovered, Covered
  <2>18. MovedTaskExists' BY <1>1, <1>2, HoldersDiffer DEF IInv, EditsAreHeld, MovedTaskExists
  <2>19. RoomForDaily' BY <1>1, <2>3, RoomStays DEF IInv
  <2>20. QED
    BY <2>5, <2>6, <2>7, <2>8, <2>9, <2>10, <2>11, <2>12, <2>13, <2>14, <2>15, <2>16, <2>17,
       <2>18, <2>19
    DEF IInv
<1>4. CASE /\ WriteFails /\ cancel' = Idle
           /\ edits' = IF edits = Canceller THEN Nobody ELSE edits
           /\ UNCHANGED <<rows, over>>
  <2>1. mishaps' \in 0..MaxMishaps BY <1>4, WriteFailsCounts DEF IInv
  <2>2. edits' = Nobody BY <1>2, <1>4
  <2>3. UNCHANGED <<clock, store, asks, startup, seen, timers>>
    BY <1>1, <1>4 DEF clock, store, asks, startup, seen
  <2>4. QED BY <1>2, <1>4, <2>1, <2>2, <2>3, CancelKeeps
<1>5. QED BY <1>3, <1>4 DEF CancelDelete

LEMMA CancelStopStep == ASSUME IInv, CancelStop PROVE IInv'
<1>1. UNCHANGED <<clock, store, asks, startup, seen, mishaps>> BY DEF CancelStop
<1>2. UNCHANGED <<process, rows, issued, pc, recovery, listed, over, strays>>
  BY <1>1 DEF clock, store, asks, startup, seen
<1>3. cancel.step = "deleted" /\ edits = Canceller
  BY IdleType DEF CancelStop, IInv, EditsAreHeld
<1>4. edits' = Nobody /\ cancel' = Idle /\ timers' = StopTimer(timers, cancel.task)
  BY <1>3 DEF CancelStop
<1>5. PICK task : task = cancel.task OBVIOUS
<1>6. PICK ts : ts = {t \in timers : ~(t.step = "waiting" /\ t.entry /\ IdOf(t.task) = IdOf(task))}
  OBVIOUS
<1>7. /\ ts \in SUBSET timers /\ ts \in SUBSET Timer
      /\ \A a, b \in ts : a.entry /\ b.entry /\ IdOf(a.task) = IdOf(b.task) => a = b
  BY <1>6 DEF IInv, TimersOK
<1>8. timers' = Unregister(ts, task) BY <1>4, <1>5, <1>6 DEF StopTimer
<1>9. /\ timers' \in SUBSET Timer
      /\ \A a, b \in timers' : a.entry /\ b.entry /\ IdOf(a.task) = IdOf(b.task) => a = b
  BY <1>7, <1>8, UnregisterTimers
<1>10. \A v \in timers' : \E u \in timers : v.task = u.task /\ v.step = u.step
  BY <1>7, <1>8, UnregisterTimers
<1>11. \A u \in ts : IdOf(u.task) # IdOf(task) => u \in timers' BY <1>7, <1>8, UnregisterTimers
<1>12. \A u \in timers : IdOf(u.task) # IdOf(task) => u \in timers' BY <1>6, <1>11
<1>13. TimersOK' BY <1>9 DEF TimersOK
<1>14. IdsAreMinted' BY <1>2, <1>4, <1>10 DEF IInv, IdsAreMinted
<1>15. EditsAreHeld'
  <2>1. \A v \in timers' : v.step \notin {"moving", "moved"}
    BY <1>3, <1>10, HoldersDiffer DEF IInv, EditsAreHeld
  <2>2. \A s \in Daily : pc'[s] \notin {"saving", "arming"}
    BY <1>2, <1>3, HoldersDiffer, SourceKinds DEF IInv, EditsAreHeld
  <2>3. QED BY <1>4, <2>1, <2>2 DEF EditsAreHeld
<1>16. DeletedIsGone' BY <1>2, <1>4, <1>10, IdleType DEF IInv, DeletedIsGone
<1>17. RanIsOver' /\ MovedTaskExists' BY <1>2, <1>10 DEF IInv, RanIsOver, MovedTaskExists
<1>18. RowsAreCovered'
  <2>1. ASSUME NEW row \in rows, Covered(row) PROVE Covered(row)'
    <3>1. IdOf(row) # IdOf(task) BY <1>3, <1>5 DEF IInv, DeletedIsGone
    <3>2. \A v \in timers : IdOf(v.task) = IdOf(row) => v \in timers' BY <1>12, <3>1
    <3>3. QED BY <1>2, <2>1, <3>2 DEF Covered
  <2>2. QED BY <1>2, <2>1 DEF IInv, RowsAreCovered
<1>19. over \in SUBSET over' /\ over' \in SUBSET Sources BY <1>2 DEF IInv, StoreOK
<1>20. QED
  BY <1>1, <1>2, <1>4, <1>13, <1>14, <1>15, <1>16, <1>17, <1>18, <1>19, TimersKeep

LEMMA SaveTaskStep == ASSUME IInv, NEW s \in Sources, SaveTask(s) PROVE IInv'
<1>1. PICK task : task = [source |-> s, id |-> issued[s] + 1, turn |-> issued[s] + 1, due |-> due[s]]
  OBVIOUS
<1>2. UNCHANGED <<now, process, recovery, listed, over, strays, timers, due, cancel, mishaps>>
      /\ pc[s] = "saving" /\ rows' = SaveScheduledTask(task)
  BY <1>1 DEF SaveTask, clock, startup, seen
<1>3. issued[s] \in Nat /\ due[s] \in Nat BY DEF IInv, StoreOK, AsksOK
<1>4. task \in Task /\ task.source = s /\ task.id = issued[s] + 1 BY <1>1, <1>3 DEF Task
<1>5. CASE rows' = rows
  <2>1. pc' = [pc EXCEPT ![s] = Answering(s)] /\ edits' = Release(s) /\ issued' = issued
    BY <1>1, <1>2, <1>5 DEF SaveTask
  <2>2. Answering(s) \in {"replying", "closed"} BY DEF Answering
  <2>3. due' \in [Sources -> Nat] /\ mishaps' \in 0..MaxMishaps
    BY <1>2 DEF IInv, AsksOK, ClockOK
  <2>4. UNCHANGED <<now, process, store, startup, seen, timers, cancel>>
    BY <1>2, <1>5, <2>1 DEF store, startup, seen
  <2>5. pc[s] # "arming" BY <1>2
  <2>6. QED BY <2>1, <2>2, <2>3, <2>4, <2>5, AskKeeps DEF Release
<1>6. CASE rows' # rows
  <2>1. pc' = [pc EXCEPT ![s] = "arming"] /\ issued' = [issued EXCEPT ![s] = issued[s] + 1]
        /\ edits' = edits
    BY <1>1, <1>2, <1>6 DEF SaveTask
  <2>2. rows' = rows \cup {task} /\ \A row \in rows : row.source # s
    BY <1>2, <1>4, <1>6 DEF SaveScheduledTask
  <2>3. /\ pc' \in [Sources -> {"new", "saving", "arming", "replying", "unfinished", "closed"}]
        /\ pc'[s] = "arming" /\ \A o \in Sources \ {s} : pc'[o] = pc[o]
    BY <2>1 DEF IInv, AsksOK
  <2>4. /\ issued' \in [Sources -> Nat] /\ issued'[s] = issued[s] + 1
        /\ \A o \in Sources \ {s} : issued'[o] = issued[o]
    BY <1>3, <2>1 DEF IInv, StoreOK
  <2>5. \A o \in Sources, n \in Nat : n <= issued[o] => n <= issued'[o] /\ <<o, n>> # IdOf(task)
    BY <1>3, <1>4, <2>4 DEF IdOf, IInv, StoreOK
  <2>6. ClockOK' BY <1>2 DEF IInv, ClockOK
  <2>7. StoreOK' BY <1>2, <1>4, <2>2, <2>4 DEF IInv, StoreOK
  <2>8. AsksOK' BY <1>2, <2>1, <2>3 DEF IInv, AsksOK
  <2>9. TimersOK' BY <1>2 DEF IInv, TimersOK
  <2>10. IdsAreMinted' /\ (\A t \in timers : IdOf(t.task) # IdOf(task))
         /\ (cancel # Idle => IdOf(cancel.task) # IdOf(task))
    <3>1. \A k \in rows \cup listed : k.source \in Sources /\ k.id \in Nat
      BY DEF IInv, StoreOK, Task
    <3>2. \A t \in timers : t.task.source \in Sources /\ t.task.id \in Nat
      BY DEF IInv, TimersOK, Timer, Task
    <3>3. cancel # Idle => cancel.task.source \in Sources /\ cancel.task.id \in Nat
      BY CancelKinds DEF IInv, AsksOK, Task
    <3>4. task.id <= issued'[s] BY <1>3, <1>4, <2>4
    <3>5. \A k \in rows \cup listed : k.id <= issued'[k.source]
      BY <2>5, <3>1 DEF IInv, IdsAreMinted
    <3>6. \A t \in timers : t.task.id <= issued'[t.task.source] /\ IdOf(t.task) # IdOf(task)
      BY <2>5, <3>2 DEF IInv, IdsAreMinted, IdOf
    <3>7. cancel # Idle => cancel.task.id <= issued'[cancel.task.source] /\ IdOf(cancel.task) # IdOf(task)
      BY <2>5, <3>3 DEF IInv, IdsAreMinted, IdOf
    <3>8. QED BY <1>2, <1>4, <2>2, <3>4, <3>5, <3>6, <3>7 DEF IdsAreMinted
  <2>11. OneRowEach' BY <1>2, <1>4, <2>2 DEF IInv, OneRowEach, StoredOnce
  <2>12. ArmsWhatItSaved' BY <1>4, <2>2, <2>3, <2>4 DEF IInv, ArmsWhatItSaved
  <2>13. EditsAreHeld'
    <3>1. \A o \in Sources : pc'[o] \in {"saving", "arming"} => pc[o] \in {"saving", "arming"}
      BY <1>2, <2>3
    <3>2. QED BY <1>2, <2>1, <3>1, SourceKinds DEF IInv, EditsAreHeld
  <2>14. StartsAfresh' BY <1>2 DEF IInv, StartsAfresh
  <2>15. DeletedIsGone' BY <1>2, <2>2, <2>10, IdleType DEF IInv, DeletedIsGone
  <2>16. RanIsOver' /\ MovedTaskExists' BY <1>2, <2>2 DEF IInv, RanIsOver, MovedTaskExists
  <2>17. KeptUntilRun' BY <1>2, <1>4, <2>2, <2>4 DEF IInv, KeptUntilRun
  <2>18. RowsAreCovered'
    <3>1. ASSUME NEW row \in rows, Covered(row) PROVE Covered(row)'
      <4>1. row.source \in Sources /\ row.source # s BY <2>2 DEF IInv, StoreOK, Task
      <4>2. QED BY <1>2, <2>3, <3>1, <4>1 DEF Covered
    <3>2. Covered(task)' BY <1>4, <2>3 DEF Covered
    <3>3. QED BY <1>2, <2>2, <3>1, <3>2 DEF IInv, RowsAreCovered
  <2>19. RoomForDaily'
    <3>1. IsFiniteSet(rows) /\ rows \in SUBSET rows BY DEF IInv, RoomForDaily
    <3>2. IsFiniteSet(rows') BY <2>2, <3>1, FS_AddElement
    <3>3. IsFiniteSet(DailyRows) /\ Cardinality(DailyRows) \in Nat /\ MaxDailyTasks \in Nat
      BY <3>1, FewerRows, BoundsFit
    <3>4. CASE s \in Daily
      <4>1. DailyRows' = DailyRows \cup {task} BY <1>4, <2>2, <3>4 DEF DailyRows, IsDaily
      <4>2. Cardinality(DailyRows') <= Cardinality(DailyRows) + 1
        BY <3>3, <4>1, FS_AddElement
      <4>3. Cardinality(DailyRows) < MaxDailyTasks BY <1>2, <3>4 DEF IInv, RoomForDaily
      <4>4. Cardinality(DailyRows') \in Nat BY <3>3, <4>1, FS_AddElement
      <4>5. \A o \in Daily : pc'[o] # "saving"
        BY <1>2, <2>3, <3>4, HoldersDiffer, SourceKinds DEF IInv, EditsAreHeld
      <4>6. Cardinality(DailyRows') <= MaxDailyTasks BY <3>3, <4>2, <4>3, <4>4
      <4>7. QED BY <3>2, <4>5, <4>6 DEF RoomForDaily
    <3>5. CASE s \notin Daily
      <4>1. DailyRows' = DailyRows BY <1>4, <2>2, <3>5 DEF DailyRows, IsDaily
      <4>2. \A o \in Sources : pc'[o] = "saving" => pc[o] = "saving" BY <2>3
      <4>3. QED BY <3>2, <4>1, <4>2, SourceKinds DEF IInv, RoomForDaily
    <3>6. QED BY <3>4, <3>5
  <2>20. QED
    BY <2>6, <2>7, <2>8, <2>9, <2>10, <2>11, <2>12, <2>13, <2>14, <2>15, <2>16, <2>17, <2>18,
       <2>19
    DEF IInv
<1>7. QED BY <1>5, <1>6

-----------------------------------------------------------------------------
(* The move of a daily task to its next day.                               *)

\* The row moves, and its timer goes on with what it became.
LEMMA RowMoves ==
  ASSUME IInv, NEW t \in timers, t.step = "moving",
         NEW next, NEW minted, minted = issued[t.task.source] + 1,
         next = [t.task EXCEPT !.turn = minted, !.due = NextDailyRun(t.task.source)],
         \E row \in rows : IdOf(row) = IdOf(t.task),
         rows' = RescheduleScheduledTask(t.task, next),
         issued' = [issued EXCEPT ![t.task.source] = minted],
         timers' = Become(t, [t EXCEPT !.step = "moved", !.task = next]),
         UNCHANGED <<clock, asks, startup, cancel, over, edits, strays, mishaps>>
  PROVE  IInv'
<1>1. UNCHANGED <<now, process, pc, due, recovery, listed>> BY DEF clock, asks, startup
<1>2. edits = Mover /\ IsDaily(t.task) /\ cancel = Idle
      /\ t \in Timer /\ t.task \in Task /\ t.task.source \in Daily
  <2>1. edits = Mover /\ IsDaily(t.task) BY DEF IInv, EditsAreHeld
  <2>2. cancel = Idle BY <2>1, HoldersDiffer DEF IInv, EditsAreHeld
  <2>3. t \in Timer /\ t.task \in Task BY DEF IInv, TimersOK, Timer
  <2>4. QED BY <2>1, <2>2, <2>3 DEF IsDaily
<1>3. \A s \in Daily : pc[s] \notin {"saving", "arming"}
  BY <1>2, HoldersDiffer, SourceKinds DEF IInv, EditsAreHeld
<1>4. next \in Task /\ next.source = t.task.source /\ next.id = t.task.id
  <2>1. NextDailyRun(t.task.source) \in Nat BY <1>2, NextRunType DEF IInv, ClockOK
  <2>2. minted \in Nat BY <1>2 DEF IInv, StoreOK, Task
  <2>3. QED BY <1>2, <2>1, <2>2 DEF Task
<1>5. IdOf(next) = IdOf(t.task) /\ IsDaily(next) BY <1>2, <1>4 DEF IdOf, IsDaily
<1>6. PICK old \in rows : IdOf(old) = IdOf(t.task) OBVIOUS
<1>7. old.source = t.task.source /\ old.id = t.task.id /\ IsDaily(old)
  BY <1>2, <1>6 DEF IdOf, IsDaily
<1>8. \A row \in rows : IdOf(row) = IdOf(t.task) <=> row = old
  BY <1>6, <1>7 DEF IInv, OneRowEach, StoredOnce, IdOf
<1>9. rows' = (rows \ {old}) \cup {next} BY <1>6, <1>8 DEF RescheduleScheduledTask
<1>10. \A row \in rows' : \E k \in rows :
         row.source = k.source /\ row.id = k.id /\ IdOf(row) = IdOf(k)
         /\ ((row = k /\ k # old) \/ (row = next /\ k = old))
  BY <1>4, <1>5, <1>6, <1>7, <1>9
<1>11. \A k \in rows : \E row \in rows' : row.source = k.source /\ IdOf(row) = IdOf(k)
  BY <1>4, <1>5, <1>6, <1>7, <1>9
<1>12. PICK u : u = [t EXCEPT !.step = "moved", !.task = next] OBVIOUS
<1>13. u \in Timer /\ u.task = next /\ u.step = "moved" /\ u.entry = t.entry
  BY <1>2, <1>4, <1>12 DEF Timer
<1>14. timers' = (timers \ {t}) \cup {u} BY <1>12 DEF Become
<1>15. /\ issued' \in [Sources -> Nat]
       /\ \A s \in Sources : issued[s] \in Nat /\ issued[s] <= issued'[s]
       /\ \A s \in Sources : issued'[s] = issued[s] \/ s = t.task.source
  <2>1. t.task.source \in Sources /\ issued \in [Sources -> Nat] BY <1>2 DEF Task, IInv, StoreOK
  <2>2. minted \in Nat BY <2>1
  <2>3. QED BY <2>1, <2>2
<1>16. \A s \in Sources, n \in Nat : n <= issued[s] => n <= issued'[s] BY <1>15
<1>17. ClockOK' BY <1>1 DEF IInv, ClockOK
<1>18. StoreOK' BY <1>1, <1>4, <1>9, <1>15 DEF IInv, StoreOK
<1>19. AsksOK' BY <1>1 DEF IInv, AsksOK
<1>20. TimersOK' BY <1>5, <1>13, <1>14 DEF IInv, TimersOK
<1>21. IdsAreMinted'
  <2>1. \A k \in rows \cup listed : k.source \in Sources /\ k.id \in Nat
    BY DEF IInv, StoreOK, Task
  <2>2. \A v \in timers : v.task.source \in Sources /\ v.task.id \in Nat
    BY DEF IInv, TimersOK, Timer, Task
  <2>3. \A k \in rows \cup listed : k.id <= issued'[k.source]
    BY <1>16, <2>1 DEF IInv, IdsAreMinted
  <2>4. \A v \in timers : v.task.id <= issued'[v.task.source]
    BY <1>16, <2>2 DEF IInv, IdsAreMinted
  <2>5. \A v \in timers' : v.task.id <= issued'[v.task.source]
    <3>1. u.task.id <= issued'[u.task.source] BY <1>4, <1>13, <2>4
    <3>2. QED BY <1>14, <2>4, <3>1
  <2>6. \A row \in rows' : row.id <= issued'[row.source] BY <1>10, <2>3
  <2>7. QED BY <1>1, <1>2, <2>3, <2>5, <2>6 DEF IdsAreMinted
<1>22. OneRowEach' BY <1>1, <1>10 DEF IInv, OneRowEach, StoredOnce
<1>23. ArmsWhatItSaved'
  <2>1. ASSUME NEW s \in Sources, pc[s] = "arming", NEW row \in rows', row.source = s
        PROVE  row.id = issued'[s]
    <3>1. s # t.task.source BY <1>2, <1>3, <2>1
    <3>2. PICK k \in rows : row.source = k.source /\ row.id = k.id BY <1>10
    <3>3. row.id = issued[s] BY <2>1, <3>2 DEF IInv, ArmsWhatItSaved
    <3>4. QED BY <1>15, <3>1, <3>3
  <2>2. QED BY <1>1, <2>1 DEF ArmsWhatItSaved
<1>24. EditsAreHeld'
  <2>1. \A v \in timers : v.step \in {"moving", "moved"} => v = t BY DEF IInv, EditsAreHeld
  <2>2. \A v \in timers' : v.step \in {"moving", "moved"} => v = u BY <1>14, <2>1
  <2>3. QED BY <1>1, <1>2, <1>3, <1>5, <1>13, <2>2 DEF EditsAreHeld
<1>25. StartsAfresh' BY <1>1 DEF IInv, StartsAfresh
<1>26. DeletedIsGone'
  <2>1. cancel'.step # "deleted" BY <1>2, IdleType
  <2>2. \A v \in timers' : v.step = "deleted" => v \in timers BY <1>13, <1>14
  <2>3. QED BY <1>10, <2>1, <2>2 DEF IInv, DeletedIsGone
<1>27. RanIsOver' BY <1>13, <1>14 DEF IInv, RanIsOver
<1>28. KeptUntilRun'
  <2>1. ASSUME NEW s \in Sources, issued'[s] > 0
        PROVE  s \in over \/ \E row \in rows' : row.source = s
    <3>1. CASE s = t.task.source BY <1>4, <1>9, <3>1
    <3>2. CASE s # t.task.source
      <4>1. issued[s] > 0 BY <1>15, <2>1, <3>2
      <4>2. s \in over \/ \E row \in rows : row.source = s BY <4>1 DEF IInv, KeptUntilRun
      <4>3. QED BY <1>11, <4>2
    <3>3. QED BY <3>1, <3>2
  <2>2. QED BY <2>1 DEF KeptUntilRun
<1>29. RowsAreCovered'
  <2>1. ASSUME NEW k \in rows, NEW row \in rows', row.source = k.source, IdOf(row) = IdOf(k), Covered(k)
        PROVE  Covered(row)'
    <3>1. CASE IdOf(k) \in strays \/ pc[k.source] = "arming" BY <1>1, <2>1, <3>1 DEF Covered
    <3>2. CASE \E v \in timers : IdOf(v.task) = IdOf(k) /\ (v.entry \/ v.step \in {"moving", "moved"})
      <4>1. PICK v \in timers : IdOf(v.task) = IdOf(k) /\ (v.entry \/ v.step \in {"moving", "moved"})
        BY <3>2
      <4>2. CASE v = t
        <5>1. u \in timers' /\ IdOf(u.task) = IdOf(row) BY <1>5, <1>13, <1>14, <2>1, <4>1, <4>2
        <5>2. QED BY <1>13, <5>1 DEF Covered
      <4>3. CASE v # t BY <1>14, <2>1, <4>1, <4>3 DEF Covered
      <4>4. QED BY <4>2, <4>3
    <3>3. QED BY <2>1, <3>1, <3>2 DEF Covered
  <2>2. QED BY <1>1, <1>10, <2>1 DEF IInv, RowsAreCovered
<1>30. MovedTaskExists'
  <2>1. ASSUME NEW v \in timers', v.step = "moved" PROVE \E row \in rows' : IdOf(row) = IdOf(v.task)
    <3>1. CASE v = u BY <1>9, <1>13, <3>1
    <3>2. CASE v # u
      <4>1. v \in timers BY <1>14, <3>2
      <4>2. \E row \in rows : IdOf(row) = IdOf(v.task) BY <2>1, <4>1 DEF IInv, MovedTaskExists
      <4>3. QED BY <1>11, <4>2
    <3>3. QED BY <3>1, <3>2
  <2>2. QED BY <2>1 DEF MovedTaskExists
<1>31. RoomForDaily'
  <2>1. IsFiniteSet(rows) /\ rows \in SUBSET rows /\ Cardinality(DailyRows) <= MaxDailyTasks
    BY DEF IInv, RoomForDaily
  <2>2. IsFiniteSet(DailyRows) /\ Cardinality(DailyRows) \in Nat /\ MaxDailyTasks \in Nat
    BY <2>1, FewerRows, BoundsFit
  <2>3. IsFiniteSet(rows \ {old}) BY <2>1, FS_RemoveElement
  <2>4. IsFiniteSet(rows') BY <1>9, <2>3, FS_AddElement
  <2>5. PICK rest : rest = DailyRows \ {old} OBVIOUS
  <2>6. old \in DailyRows BY <1>7 DEF DailyRows
  <2>7. IsFiniteSet(rest) /\ Cardinality(rest) = Cardinality(DailyRows) - 1
    BY <2>2, <2>5, <2>6, FS_RemoveElement
  <2>8. DailyRows' = rest \cup {next} BY <1>5, <1>9, <2>5 DEF DailyRows
  <2>9. Cardinality(rest) \in Nat BY <2>7, FS_CardinalityType
  <2>10. Cardinality(rest \cup {next}) <= Cardinality(rest) + 1
         /\ Cardinality(rest \cup {next}) \in Nat
    BY <2>7, <2>9, FS_AddElement
  <2>11. Cardinality(DailyRows') <= MaxDailyTasks BY <2>1, <2>2, <2>7, <2>8, <2>9, <2>10
  <2>12. QED BY <1>1, <1>3, <2>4, <2>11 DEF RoomForDaily
<1>32. QED
  BY <1>17, <1>18, <1>19, <1>20, <1>21, <1>22, <1>23, <1>24, <1>25, <1>26, <1>27, <1>28, <1>29,
     <1>30, <1>31
  DEF IInv

\* The row is gone, or the move failed and was reported: the timer is forgotten.
LEMMA MoverLeaves ==
  ASSUME IInv, NEW t \in timers, t.step = "moving",
         timers' = timers \ {t}, edits' = Nobody, mishaps' \in 0..MaxMishaps,
         strays' \in {strays, strays \cup {IdOf(t.task)}},
         IdOf(t.task) \in strays' \/ \A row \in rows : IdOf(row) # IdOf(t.task),
         UNCHANGED <<clock, store, asks, startup, cancel, over>>
  PROVE  IInv'
<1>1. UNCHANGED <<now, process, rows, issued, pc, due, recovery, listed>>
  BY DEF clock, store, asks, startup
<1>2. edits = Mover /\ t.task \in Task BY DEF IInv, EditsAreHeld, TimersOK, Timer
<1>3. ClockOK' BY <1>1 DEF IInv, ClockOK
<1>4. StoreOK'
  <2>1. IdOf(t.task) \in Sources \X Nat BY <1>2 DEF Task, IdOf
  <2>2. strays' \in SUBSET (Sources \X Nat) BY <2>1 DEF IInv, StoreOK
  <2>3. QED BY <1>1, <2>2 DEF IInv, StoreOK
<1>5. AsksOK' BY <1>1 DEF IInv, AsksOK
<1>6. TimersOK' BY DEF IInv, TimersOK
<1>7. IdsAreMinted' BY <1>1 DEF IInv, IdsAreMinted
<1>8. OneRowEach' /\ KeptUntilRun' BY <1>1 DEF IInv, OneRowEach, StoredOnce, KeptUntilRun
<1>9. ArmsWhatItSaved' /\ StartsAfresh' BY <1>1 DEF IInv, ArmsWhatItSaved, StartsAfresh
<1>10. EditsAreHeld'
  <2>1. \A v \in timers' : v.step \notin {"moving", "moved"} BY DEF IInv, EditsAreHeld
  <2>2. cancel' = Idle BY <1>2, HoldersDiffer DEF IInv, EditsAreHeld
  <2>3. \A s \in Daily : pc'[s] \notin {"saving", "arming"}
    BY <1>1, <1>2, HoldersDiffer, SourceKinds DEF IInv, EditsAreHeld
  <2>4. QED BY <2>1, <2>2, <2>3 DEF EditsAreHeld
<1>11. strays \in SUBSET strays' OBVIOUS
<1>12. DeletedIsGone' BY <1>1, <1>11 DEF IInv, DeletedIsGone
<1>13. RanIsOver' /\ MovedTaskExists' BY <1>1 DEF IInv, RanIsOver, MovedTaskExists
<1>14. RowsAreCovered'
  <2>1. ASSUME NEW row \in rows, Covered(row) PROVE Covered(row)'
    <3>1. CASE IdOf(row) = IdOf(t.task) BY <3>1 DEF Covered
    <3>2. CASE IdOf(row) # IdOf(t.task)
      <4>1. \A v \in timers : IdOf(v.task) = IdOf(row) => v \in timers' BY <3>2
      <4>2. QED BY <1>1, <1>11, <2>1, <4>1 DEF Covered
    <3>3. QED BY <3>1, <3>2
  <2>2. QED BY <1>1, <2>1 DEF IInv, RowsAreCovered
<1>15. RoomForDaily' BY <1>1 DEF IInv, RoomForDaily, DailyRows
<1>16. QED
  BY <1>3, <1>4, <1>5, <1>6, <1>7, <1>8, <1>9, <1>10, <1>12, <1>13, <1>14, <1>15 DEF IInv

LEMMA MoveRowStep == ASSUME IInv, NEW t \in timers, MoveRow(t) PROVE IInv'
<1>1. PICK minted : minted = issued[t.task.source] + 1 OBVIOUS
<1>2. PICK next : next = [t.task EXCEPT !.turn = minted, !.due = NextDailyRun(t.task.source)] OBVIOUS
<1>3. UNCHANGED <<clock, asks, startup, cancel, over>> /\ t.step = "moving" BY DEF MoveRow
<1>4. CASE /\ \E row \in rows : IdOf(row) = IdOf(t.task)
           /\ rows' = RescheduleScheduledTask(t.task, next)
           /\ issued' = [issued EXCEPT ![t.task.source] = minted]
           /\ timers' = Become(t, [t EXCEPT !.step = "moved", !.task = next])
           /\ UNCHANGED <<edits, strays, mishaps>>
  BY <1>1, <1>2, <1>3, <1>4, RowMoves
<1>5. CASE /\ \A row \in rows : IdOf(row) # IdOf(t.task)
           /\ timers' = timers \ {t} /\ edits' = Nobody
           /\ UNCHANGED <<store, strays, mishaps>>
  <2>1. mishaps' \in 0..MaxMishaps BY <1>5 DEF IInv, ClockOK
  <2>2. QED BY <1>3, <1>5, <2>1, MoverLeaves
<1>6. CASE /\ WriteFails
           /\ timers' = timers \ {t} /\ edits' = Nobody
           /\ strays' = strays \cup {IdOf(t.task)}
           /\ UNCHANGED store
  <2>1. mishaps' \in 0..MaxMishaps BY <1>6, WriteFailsCounts DEF IInv
  <2>2. QED BY <1>3, <1>6, <2>1, MoverLeaves
<1>7. QED BY <1>1, <1>2, <1>4, <1>5, <1>6 DEF MoveRow

-----------------------------------------------------------------------------
(* The theorems.                                                           *)

LEMMA TimerStepsKeep == ASSUME IInv, NEW t \in timers, TimerSteps(t) PROVE IInv'
  BY FireTaskStep, RunTaskStep, DeleteRunStep, ForgetStep, RescheduleDailyStep, MoveRowStep,
     ArmNextStep
  DEF TimerSteps

LEMMA SourceStepsKeep == ASSUME IInv, NEW s \in Sources, SourceSteps(s) PROVE IInv'
  BY SaveTaskStep, ArmTaskStep, ReplyStep DEF SourceSteps

LEMMA NextKeeps == ASSUME IInv, [Next]_vars PROVE IInv'
<1>1. CASE \E s \in Sources : RunScheduleTask(s) \/ RunDailyTask(s) \/ AddChatTask(s)
  BY <1>1, ScheduleTaskStep, ScheduleDailyTaskStep DEF RunScheduleTask, RunDailyTask, AddChatTask
<1>2. CASE \E s \in Sources : SaveFails(s) BY <1>2, SaveFailsStep
<1>3. CASE \E s \in Sources : SourceSteps(s) BY <1>3, SourceStepsKeep
<1>4. CASE DeleteChatTask BY <1>4, CancelTaskStep DEF DeleteChatTask, ListScheduledTasks
<1>5. CASE CancelDelete BY <1>5, CancelDeleteStep
<1>6. CASE CancelStop BY <1>6, CancelStopStep
<1>7. CASE \E t \in timers : TimerSteps(t) BY <1>7, TimerStepsKeep
<1>8. CASE RecoverList BY <1>8, RecoverListStep
<1>9. CASE ArmStoredTasks BY <1>9, ArmStoredTasksStep
<1>10. CASE RecoverEnds BY <1>10, RecoverEndsStep
<1>11. CASE Tick BY <1>11, TickStep
<1>12. CASE Crash BY <1>12, CrashStep
<1>13. CASE Stop BY <1>13, StopStep
<1>14. CASE Exit BY <1>14, ExitStep
<1>15. CASE Start BY <1>15, StartStep
<1>16. CASE UNCHANGED vars
  <2>1. UNCHANGED <<now, process, rows, issued, timers, edits, pc, due, cancel, recovery, listed,
                    over, strays, mishaps>>
    BY <1>16 DEF vars, clock, store, asks, startup, seen
  <2>2. ClockOK' /\ StartsAfresh' BY <2>1 DEF IInv, ClockOK, StartsAfresh
  <2>3. process # "up" => recovery = "off" BY DEF IInv, StartsAfresh
  <2>4. process = "up" \/ recovery' = "off" BY <2>1, <2>3
  <2>5. UNCHANGED <<store, timers, edits, pc, due, cancel, seen>> BY <2>1 DEF store, seen
  <2>6. QED BY <2>1, <2>2, <2>4, <2>5, QuietKeeps
<1>17. QED
  BY <1>1, <1>2, <1>3, <1>4, <1>5, <1>6, <1>7, <1>8, <1>9, <1>10, <1>11, <1>12, <1>13, <1>14,
     <1>15, <1>16
  DEF Next

\* The invariant holds: whoever asks, cancels, fires, moves or recovers, and
\* wherever the program ends.
THEOREM InvariantHolds == Spec => []IInv
<1>1. Init => IInv BY InitOK
<1>2. IInv /\ [Next]_vars => IInv' BY NextKeeps
<1>3. QED BY <1>1, <1>2, PTL DEF Spec

\* What is stored and what is armed agree, whatever falls between two steps of
\* scheduleTask, CancelTask, fireTask, rescheduleDaily and Recover.
THEOREM TimersAgreeWithRows == Spec => []TimersFollowRows
<1>1. IInv => TimersFollowRows
  <2> SUFFICES ASSUME IInv PROVE TimersFollowRows OBVIOUS
  <2>1. TypeOK BY DEF IInv, ClockOK, StoreOK, AsksOK, TimersOK, Timer, TypeOK
  <2>2. StoredOnce /\ MovedTaskExists BY DEF IInv, OneRowEach
  <2>3. RowHasATimer
    BY DEF IInv, RowsAreCovered, Covered, RowHasATimer, TimersOf
  <2>4. QED BY <2>1, <2>2, <2>3 DEF TimersFollowRows
<1>2. QED BY <1>1, InvariantHolds, PTL

\* A task that was added is in the store until its turn came to an end or it
\* was deleted.
THEOREM TasksAreKept == Spec => []KeptUntilRun
<1>1. IInv => KeptUntilRun BY DEF IInv
<1>2. QED BY <1>1, InvariantHolds, PTL

\* The limit on daily tasks holds however many ask at once, because taskEdits
\* is held from the count to the insert.
THEOREM DailyTasksAreBounded == Spec => []DailyBounded
<1>1. IInv => DailyBounded BY DEF IInv, RoomForDaily, DailyRows, DailyBounded
<1>2. QED BY <1>1, InvariantHolds, PTL
=============================================================================

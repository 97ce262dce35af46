-------------------------- MODULE ScheduledTasks --------------------------
(***************************************************************************)
(* Scheduled and daily tasks of one chat: their rows, the timers armed in  *)
(* memory, the commands and desktop calls that add and cancel them, the    *)
(* startup that arms what is stored, and shutdown and crashes between any  *)
(* two steps.                                                              *)
(*                                                                         *)
(* Whoever asks for a task is its source: a command typed on the account's *)
(* own phone, whose message is run again after a crash until it is closed, *)
(* or a call of the desktop or the model, which is not.  Time is counted   *)
(* in ticks; a day has Day of them.                                        *)
(* The turn a task runs is an invocation; running one that was answered    *)
(* before resumes it and answers nothing.                                  *)
(***************************************************************************)
EXTENDS Integers, FiniteSets

CONSTANTS
  Commands,       \* command messages that ask for a task
  Calls,          \* calls of the desktop or the model that ask for one
  Daily,          \* the sources that ask for a daily task
  When,           \* a source's delay, or the tick of the day it asks for
  Day,            \* ticks in a day
  Lateness,       \* maxDailyLateness
  MaxDailyTasks,  \* MaxDailyTasks
  MaxNow,         \* bound: the last tick
  MaxMishaps      \* bound: crashes, shutdowns, failures of storage and
                  \* deletions asked for, together

Sources == Commands \cup Calls

ASSUME SourceKinds ==
  /\ Commands \cap Calls = {} /\ Daily \subseteq Sources
  /\ {"nobody", "cancel", "move"} \cap Sources = {}
ASSUME TimesFit ==
  /\ Day \in Nat \ {0} /\ Lateness \in Nat /\ MaxNow \in Nat
  /\ When \in [Sources -> Nat]
  /\ \A s \in Daily : When[s] < Day
ASSUME BoundsFit ==
  {MaxDailyTasks, MaxMishaps} \subseteq Nat

VARIABLES
  now,        \* the clock
  process,    \* "up", "stopping" once Run cancelled the dispatcher, "down"
  rows,       \* scheduled_tasks
  issued,     \* the ids minted for each source
  timers,     \* the timers, what each does, and whether tasks[id] is it
  edits,      \* who holds taskEdits
  pc, due,    \* where each source is, and the time it asked for
  cancel,     \* the CancelTask under way
  recovery,   \* how far Recover is in this process
  listed,     \* the rest of what armStoredTasks listed
  \* observations
  over,       \* sources whose one-off task ran to its end, or was deleted
  strays,     \* ids whose delete or move failed and was reported
  mishaps

clock == <<now, process>>
store == <<rows, issued>>
asks == <<pc, due>>
startup == <<recovery, listed>>
seen == <<over, strays>>
vars == <<clock, store, timers, edits, asks, cancel, startup, seen, mishaps>>

Idle == [step |-> "idle"]
Nobody == [holder |-> "nobody"]
Canceller == [holder |-> "cancel"]
Mover == [holder |-> "move"]

\* A task as it is stored, and as a timer's closure holds it.  Its invocation
\* is turn: unique, since every id and every invocation is newly minted.
Task == [source : Sources, id : Nat, turn : Nat, due : Nat]

IdOf(task) == <<task.source, task.id>>
IsDaily(task) == task.source \in Daily

\* nextDailyRun: the first tick after now that has the task's time of day.
NextDailyRun(source) ==
  LET today == now - (now % Day) + When[source]
  IN  IF today > now THEN today ELSE today + Day

-----------------------------------------------------------------------------
(* The store: each is one statement.                                        *)

SaveScheduledTask(task) ==
  IF \E row \in rows : row.source = task.source THEN rows ELSE rows \cup {task}

ListScheduledTasks == rows

RescheduleScheduledTask(task, next) ==
  {IF IdOf(row) = IdOf(task) THEN next ELSE row : row \in rows}

DeleteScheduledTask(task) == {row \in rows : IdOf(row) # IdOf(task)}

-----------------------------------------------------------------------------
(* The timers: tasks maps an id to the timer whose entry is set.            *)

TimersOf(ts, task) == {t \in ts : IdOf(t.task) = IdOf(task)}

\* armTask, for each of some tasks: nothing is armed once the dispatcher is
\* cancelled, or twice.
Arm(ts, tasks) ==
  IF process # "up" THEN ts
  ELSE ts \cup {[step |-> "waiting", task |-> task, entry |-> TRUE] :
                 task \in {k \in tasks : \A t \in TimersOf(ts, k) : ~t.entry}}

\* delete(tasks, id): whatever timer the entry stands for keeps running.
Unregister(ts, task) ==
  {IF IdOf(t.task) = IdOf(task) THEN [t EXCEPT !.entry = FALSE] ELSE t : t \in ts}

\* CancelTask stops the timer of the entry; a turn that runs is not stopped.
StopTimer(ts, task) ==
  Unregister({t \in ts : ~(t.step = "waiting" /\ t.entry /\ IdOf(t.task) = IdOf(task))}, task)

\* What the timer t goes on with.
Become(t, next) == (timers \ {t}) \cup {next}

-----------------------------------------------------------------------------
Init ==
  /\ now = 0 /\ process = "up" /\ rows = {} /\ issued = [s \in Sources |-> 0]
  /\ timers = {} /\ edits = Nobody
  /\ pc = [s \in Sources |-> "new"] /\ due = [s \in Sources |-> 0]
  /\ cancel = Idle /\ recovery = "off" /\ listed = {}
  /\ over = {} /\ strays = {}
  /\ mishaps = 0

Mishap == mishaps < MaxMishaps /\ mishaps' = mishaps + 1

\* A write fails: the storage does, or the dispatcher's context is cancelled.
WriteFails ==
  \/ Mishap
  \/ (process = "stopping" /\ UNCHANGED mishaps)

-----------------------------------------------------------------------------
(* Adding a task.                                                           *)

\* A call returns with its answer; a command has yet to record it.
Answering(s) == IF s \in Commands THEN "replying" ELSE "closed"

\* A new source, or a command that Recover resumes.  Commands of a chat run
\* one at a time.
CanStart(s) ==
  /\ process = "up"
  /\ pc[s] = "new" \/ (pc[s] = "unfinished" /\ recovery = "inbox")
  /\ s \in Commands =>
       \A o \in Commands \ {s} : pc[o] \in {"new", "unfinished", "closed"}

\* The delay counts from when the message arrived.
ScheduleTask(s) ==
  /\ s \notin Daily /\ CanStart(s)
  /\ pc' = [pc EXCEPT ![s] = "saving"]
  /\ due' = [due EXCEPT ![s] = IF pc[s] = "new" THEN now + When[s] ELSE @]
  /\ UNCHANGED <<clock, store, startup, seen, timers, edits, cancel, mishaps>>

BadScheduleDailyTask(s) ==
  /\ s \in Daily /\ CanStart(s)
  /\ IF Cardinality({r \in ListScheduledTasks : IsDaily(r)}) >= MaxDailyTasks
     THEN pc' = [pc EXCEPT ![s] = Answering(s)] /\ UNCHANGED due
     ELSE /\ pc' = [pc EXCEPT ![s] = "saving"]
          /\ due' = [due EXCEPT ![s] = NextDailyRun(s)]
  /\ UNCHANGED <<clock, store, startup, seen, timers, edits, cancel, mishaps>>

\* ScheduleDailyTask holds taskEdits from its count to the arming.
ScheduleDailyTask(s) ==
  /\ s \in Daily /\ CanStart(s)
  /\ edits = Nobody
  /\ IF Cardinality({r \in ListScheduledTasks : IsDaily(r)}) >= MaxDailyTasks
     THEN pc' = [pc EXCEPT ![s] = Answering(s)] /\ UNCHANGED <<due, edits>>
     ELSE /\ pc' = [pc EXCEPT ![s] = "saving"]
          /\ due' = [due EXCEPT ![s] = NextDailyRun(s)]
          /\ edits' = [holder |-> s]
  /\ UNCHANGED <<clock, store, startup, seen, timers, cancel, mishaps>>

RunScheduleTask(s) == s \in Commands /\ ScheduleTask(s)
RunDailyTask(s) == s \in Commands /\ ScheduleDailyTask(s)
AddChatTask(s) == s \in Calls /\ (ScheduleTask(s) \/ ScheduleDailyTask(s))

Release(s) == IF edits = [holder |-> s] THEN Nobody ELSE edits

\* The insert of saveTask.  A source whose task is stored adds no other.
SaveTask(s) ==
  /\ pc[s] = "saving"
  /\ LET minted == issued[s] + 1
         task == [source |-> s, id |-> minted, turn |-> minted, due |-> due[s]]
     IN /\ rows' = SaveScheduledTask(task)
        /\ IF rows' = rows
           THEN /\ pc' = [pc EXCEPT ![s] = Answering(s)] /\ edits' = Release(s)
                /\ UNCHANGED issued
           ELSE /\ pc' = [pc EXCEPT ![s] = "arming"] /\ issued' = [issued EXCEPT ![s] = minted]
                /\ UNCHANGED edits
  /\ UNCHANGED <<clock, startup, seen, timers, due, cancel, mishaps>>

\* The task a source saved, as saveTask holds it.
Saved(s) == [source |-> s, id |-> issued[s], turn |-> issued[s], due |-> due[s]]

ArmTask(s) ==
  /\ pc[s] = "arming"
  /\ timers' = Arm(timers, {Saved(s)})
  /\ pc' = [pc EXCEPT ![s] = Answering(s)]
  /\ edits' = Release(s)
  /\ UNCHANGED <<clock, store, startup, seen, due, cancel, mishaps>>

\* A failed insert fails the command, which is then closed.
SaveFails(s) ==
  /\ pc[s] = "saving" /\ WriteFails
  /\ pc' = [pc EXCEPT ![s] = Answering(s)]
  /\ edits' = Release(s)
  /\ UNCHANGED <<clock, store, startup, seen, timers, due, cancel>>

\* The answer is recorded and the message closed.
Reply(s) ==
  /\ pc[s] = "replying"
  /\ pc' = [pc EXCEPT ![s] = "closed"]
  /\ UNCHANGED <<clock, store, startup, seen, timers, edits, due, cancel, mishaps>>

-----------------------------------------------------------------------------
(* CancelTask, under taskEdits.                                             *)

CancelTask(row) ==
  /\ process # "down" /\ cancel = Idle /\ Mishap
  /\ row \in ListScheduledTasks
  /\ edits = Nobody /\ edits' = Canceller
  /\ cancel' = [step |-> "found", task |-> row]
  /\ UNCHANGED <<clock, store, asks, startup, seen, timers>>

\* A task of the chat is deleted by the code that was listed.
DeleteChatTask == \E row \in ListScheduledTasks : CancelTask(row)

CancelDelete ==
  /\ cancel.step = "found"
  /\ \/ /\ rows' = DeleteScheduledTask(cancel.task)
        /\ over' = over \cup {cancel.task.source}
        /\ cancel' = [cancel EXCEPT !.step = "deleted"]
        /\ UNCHANGED <<edits, mishaps>>
     \/ /\ WriteFails /\ cancel' = Idle
        /\ edits' = IF edits = Canceller THEN Nobody ELSE edits
        /\ UNCHANGED <<rows, over>>
  /\ UNCHANGED <<clock, asks, startup, issued, timers, strays>>

CancelStop ==
  /\ cancel.step = "deleted"
  /\ timers' = StopTimer(timers, cancel.task)
  /\ cancel' = Idle
  /\ edits' = IF edits = Canceller THEN Nobody ELSE edits
  /\ UNCHANGED <<clock, store, asks, startup, seen, mishaps>>

-----------------------------------------------------------------------------
(* A timer goes off.                                                        *)

\* fireTask up to the turn.  A daily task that is too late skips its day.
FireTask(t) ==
  /\ t.step = "waiting" /\ process = "up" /\ now >= t.task.due
  /\ LET late == IsDaily(t.task) /\ now - t.task.due > Lateness
     IN timers' = Become(t, [t EXCEPT !.step = IF late THEN "ran" ELSE "running"])
  /\ UNCHANGED <<clock, store, asks, startup, seen, edits, cancel, mishaps>>

BadRunTask(t) ==
  /\ t.step = "running"
  /\ timers' = Become(t, [t EXCEPT !.step = "ran"])
  /\ UNCHANGED <<clock, store, asks, startup, seen, edits, cancel, mishaps>>

\* The turn comes to an end: it was answered, or failed (policy, model,
\* storage).  One that shutdown may have cut off leaves everything as it is
\* to the next start.
RunTask(t) ==
  /\ t.step = "running"
  /\ IF process = "up"
     THEN /\ timers' = Become(t, [t EXCEPT !.step = "ran"])
          /\ over' = IF IsDaily(t.task) THEN over ELSE over \cup {t.task.source}
     ELSE timers' = timers \ {t} /\ UNCHANGED over
  /\ UNCHANGED <<clock, store, asks, startup, edits, cancel, strays, mishaps>>

\* A one-off task is over; a delete that fails is reported and no more.
DeleteRun(t) ==
  /\ t.step = "ran" /\ ~IsDaily(t.task)
  /\ \/ rows' = DeleteScheduledTask(t.task) /\ UNCHANGED <<strays, mishaps>>
     \/ WriteFails /\ strays' = strays \cup {IdOf(t.task)} /\ UNCHANGED rows
  /\ timers' = Become(t, [t EXCEPT !.step = "deleted"])
  /\ UNCHANGED <<clock, asks, startup, issued, edits, cancel, over>>

Forget(t) ==
  /\ t.step = "deleted"
  /\ timers' = Unregister(timers \ {t}, t.task)
  /\ UNCHANGED <<clock, store, asks, startup, seen, edits, cancel, mishaps>>

\* rescheduleDaily, under taskEdits: forget the timer, move the row to the
\* next day unless it was deleted, arm that.
RescheduleDaily(t) ==
  /\ t.step = "ran" /\ IsDaily(t.task)
  /\ edits = Nobody /\ edits' = Mover
  /\ timers' = Unregister(Become(t, [t EXCEPT !.step = "moving"]), t.task)
  /\ UNCHANGED <<clock, store, asks, startup, seen, cancel, mishaps>>

MoveRow(t) ==
  /\ t.step = "moving"
  /\ LET minted == issued[t.task.source] + 1
         next == [t.task EXCEPT !.turn = minted, !.due = NextDailyRun(t.task.source)]
     IN \/ /\ \E row \in rows : IdOf(row) = IdOf(t.task)
           /\ rows' = RescheduleScheduledTask(t.task, next)
           /\ issued' = [issued EXCEPT ![t.task.source] = minted]
           /\ timers' = Become(t, [t EXCEPT !.step = "moved", !.task = next])
           /\ UNCHANGED <<edits, strays, mishaps>>
        \/ /\ \A row \in rows : IdOf(row) # IdOf(t.task)
           /\ timers' = timers \ {t} /\ edits' = Nobody
           /\ UNCHANGED <<store, strays, mishaps>>
        \/ /\ WriteFails
           /\ timers' = timers \ {t} /\ edits' = Nobody
           /\ strays' = strays \cup {IdOf(t.task)}
           /\ UNCHANGED store
  /\ UNCHANGED <<clock, asks, startup, cancel, over>>

ArmNext(t) ==
  /\ t.step = "moved"
  /\ timers' = Arm(timers \ {t}, {t.task})
  /\ edits' = Nobody
  /\ UNCHANGED <<clock, store, asks, startup, seen, cancel, mishaps>>

-----------------------------------------------------------------------------
(* Recover: arm what is stored, then resume the unfinished commands.  The   *)
(* list is a snapshot, and armStoredTasks does not hold taskEdits.          *)

RecoverList ==
  /\ process = "up" /\ recovery = "off"
  /\ listed' = ListScheduledTasks /\ recovery' = "arming"
  /\ UNCHANGED <<clock, store, asks, seen, timers, edits, cancel, mishaps>>

BadArmStoredTasks ==
  /\ recovery = "arming" /\ process = "up"
  /\ recovery' = "inbox" /\ listed' = {}
  /\ UNCHANGED <<clock, store, asks, seen, timers, edits, cancel, mishaps>>

\* The rest of armStoredTasks: a task that has a timer keeps it.
ArmStoredTasks ==
  /\ recovery = "arming" /\ process = "up"
  /\ timers' = Arm(timers, listed)
  /\ recovery' = "inbox" /\ listed' = {}
  /\ UNCHANGED <<clock, store, asks, seen, edits, cancel, mishaps>>

\* The pass ends when every command was resumed; a transient failure of the
\* list or of the pass makes redeliver run all of Recover again.
RecoverEnds ==
  /\ process = "up" /\ recovery \in {"arming", "inbox"}
  /\ \/ /\ recovery = "inbox" /\ \A s \in Sources : pc[s] # "unfinished"
        /\ recovery' = "done" /\ UNCHANGED mishaps
     \/ /\ Mishap
        /\ recovery' = "off"
  /\ listed' = {}
  /\ UNCHANGED <<clock, store, asks, seen, timers, edits, cancel>>

-----------------------------------------------------------------------------
(* The process.                                                             *)

\* A tick is long: it passes while timers wait and turns run, and never
\* between two steps that only touch memory and one statement of the store.
Tick ==
  /\ now < MaxNow /\ now' = now + 1
  /\ recovery # "arming" /\ cancel = Idle
  /\ \A s \in Sources : pc[s] \notin {"saving", "arming"}
  /\ \A t \in timers : t.step \in {"waiting", "running"}
  /\ UNCHANGED <<store, asks, startup, seen, process, timers, edits, cancel, mishaps>>

\* What is left of a source when the process dies.
Abandoned(s) ==
  CASE pc[s] \in {"new", "closed"} -> pc[s]
    [] s \in Commands -> "unfinished"
    [] OTHER -> "closed"

Die ==
  /\ process' = "down" /\ recovery' = "off" /\ listed' = {}
  /\ timers' = {} /\ edits' = Nobody /\ cancel' = Idle
  /\ pc' = [s \in Sources |-> Abandoned(s)]
  /\ strays' = {}
  /\ UNCHANGED <<store, now, due, over>>

Crash ==
  /\ process # "down" /\ Mishap
  /\ Die

\* Run's exit: no turn starts any more, no timer waits, running ones finish.
Stop ==
  /\ process = "up" /\ Mishap
  /\ process' = "stopping" /\ recovery' = "off" /\ listed' = {}
  /\ timers' = {[t EXCEPT !.entry = FALSE] : t \in {u \in timers : u.step # "waiting"}}
  /\ UNCHANGED <<store, asks, seen, now, edits, cancel>>

\* turns.Wait is over; commands and calls still under way are cut off.
Exit ==
  /\ process = "stopping" /\ timers = {}
  /\ Die /\ UNCHANGED mishaps

Start ==
  /\ process = "down" /\ process' = "up"
  /\ UNCHANGED <<store, asks, startup, seen, now, timers, edits, cancel, mishaps>>

-----------------------------------------------------------------------------
SourceSteps(s) == SaveTask(s) \/ ArmTask(s) \/ Reply(s)

TimerSteps(t) ==
  \/ FireTask(t) \/ RunTask(t) \/ DeleteRun(t) \/ Forget(t)
  \/ RescheduleDaily(t) \/ MoveRow(t) \/ ArmNext(t)

Next ==
  \/ \E s \in Sources : RunScheduleTask(s)
  \/ \E s \in Sources : RunDailyTask(s)
  \/ \E s \in Sources : AddChatTask(s)
  \/ \E s \in Sources : SaveFails(s)
  \/ \E s \in Sources : SourceSteps(s)
  \/ DeleteChatTask
  \/ CancelDelete
  \/ CancelStop
  \/ \E t \in timers : TimerSteps(t)
  \/ RecoverList
  \/ ArmStoredTasks
  \/ RecoverEnds
  \/ Tick
  \/ Crash
  \/ Stop
  \/ Exit
  \/ Start

Spec == Init /\ [][Next]_vars

\* Somebody goes on as long as anybody can: goroutines run and return, the
\* clock goes on, the program is started again and Recover is retried.  Which
\* of them goes first is left open.  Nobody has to ask for a task or for its
\* deletion, and nothing has to fail.
Progress ==
  \/ \E s \in Sources : SourceSteps(s)
  \/ CancelDelete \/ CancelStop
  \/ \E t \in timers : TimerSteps(t)
  \/ RecoverList \/ ArmStoredTasks \/ RecoverEnds
  \/ Tick \/ Exit \/ Start

Fairness == WF_vars(Progress)

LiveSpec == Spec /\ Fairness

-----------------------------------------------------------------------------
\* Every variable stays within its type, and tasks is a map: whoever arms and
\* forgets, a task has one entry at most.
TypeOK ==
  /\ now \in 0..MaxNow /\ process \in {"up", "stopping", "down"}
  /\ rows \subseteq Task /\ issued \in [Sources -> Nat]
  /\ timers \subseteq [step : {"waiting", "running", "ran", "deleted", "moving", "moved"},
                      task : Task, entry : BOOLEAN]
  /\ \A a, b \in timers : a.entry /\ b.entry /\ IdOf(a.task) = IdOf(b.task) => a = b
  /\ edits \in {Nobody, Canceller, Mover} \cup [holder : Sources]
  /\ pc \in [Sources -> {"new", "saving", "arming", "replying", "unfinished", "closed"}]
  /\ due \in [Sources -> Nat]
  /\ cancel \in {Idle} \cup [step : {"found", "deleted"}, task : Task]
  /\ recovery \in {"off", "arming", "inbox", "done"} /\ listed \subseteq Task
  /\ over \subseteq Sources /\ strays \subseteq Sources \X Nat
  /\ mishaps \in 0..MaxMishaps

\* A command that is run again after a crash does not add its task twice.
StoredOnce == \A a, b \in rows : a.source = b.source => a = b

\* A one-off task leaves the store only because its turn came to an end in a
\* process that was not shutting down, or because it was deleted; a daily
\* one only because it was deleted.
KeptUntilRun ==
  \A s \in Sources :
    issued[s] > 0 => s \in over \/ \E row \in rows : row.source = s

\* Once Recover has armed what was stored, every stored task has a timer, or
\* somebody is about to arm it: none is forgotten until the next start,
\* except those whose delete or move failed and was reported.
RowHasATimer ==
  process = "up" /\ recovery \in {"inbox", "done"} =>
    \A row \in rows :
      \/ IdOf(row) \in strays
      \/ pc[row.source] = "arming"
      \/ \E t \in TimersOf(timers, row) :
           t.entry \/ t.step \in {"moving", "moved"}

\* A chat has at most MaxDailyTasks daily tasks, however many ask at once.
DailyBounded == Cardinality({row \in rows : IsDaily(row)}) <= MaxDailyTasks

\* A daily task about to be armed for its next day still exists: taskEdits
\* keeps a deletion from falling between the move and the timer.
MovedTaskExists ==
  \A t \in timers : t.step = "moved" => \E row \in rows : IdOf(row) = IdOf(t.task)

\* What is stored and what is armed agree: a task has one row and one timer, a
\* stored task has a timer, and the timer of a moved task has its row.
TimersFollowRows == TypeOK /\ StoredOnce /\ RowHasATimer /\ MovedTaskExists

\* A task that is due is dealt with: it runs, is moved or is deleted, unless
\* a failure to store that was reported.
DueTaskSettles ==
  LET Unsettled == \E row \in rows : now >= row.due /\ IdOf(row) \notin strays
  IN Unsettled ~> ~Unsettled

=============================================================================

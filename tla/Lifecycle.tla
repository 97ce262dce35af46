----------------------------- MODULE Lifecycle -----------------------------
(***************************************************************************)
(* The process: AgentController, which starts, restarts and stops the bot, *)
(* the Application it runs, the chat actions of the UI, and the session    *)
(* controller of Sessions, which it lets act only while the bot is down.   *)
(* AgentController.operations admits one operation at a time: op.          *)
(*                                                                         *)
(* Host.Close and the end of the process are modelled with the start of    *)
(* the next one.                                                           *)
(***************************************************************************)
EXTENDS Sessions

CONSTANT MaxRevision  \* bound: settings saved

ASSUME MaxRevisionAssumption == MaxRevision \in Nat \ {0}

VARIABLES
  bot,     \* AgentController.state
  active,  \* activeRev, 0 when no revision is active
  agent,   \* AgentController.run, its Application and goroutine
  action,  \* a chat action holding `actions': "none", "running", or its runtime
           \* was closed under it: it ended by itself, and the action is
           \* "orphaned", or it was cancelled, and the action is "overtaken"
  saved,   \* the revision of the saved settings
  closed   \* Host.Close has begun

botVars == <<bot, active, agent, action, saved, closed>>
vars == <<sessionVars, botVars>>

NoAgent == [step |-> "none"]
Owner == {"session", "logout", "agent"}

Init ==
  /\ SessionInit
  /\ bot = "stopped" /\ active = 0 /\ agent = NoAgent /\ action = "none"
  /\ saved = 1 /\ closed = FALSE

-----------------------------------------------------------------------------
(* Who may do what.                                                         *)

IsActive == agent # NoAgent /\ bot \in {"starting", "running", "stopping"}

BadWithSessionControl(operation) == ~closed /\ operation /\ UNCHANGED botVars

WithSessionControl(operation) ==
  /\ ~closed /\ ~IsActive
  /\ operation /\ UNCHANGED botVars

SessionRuns == SessionStep /\ UNCHANGED botVars

SaveSettings ==
  /\ saved < MaxRevision /\ saved' = saved + 1
  /\ UNCHANGED <<sessionVars, bot, active, agent, action, closed>>

-----------------------------------------------------------------------------
(* Start: the session is stopped, the runtime created, and its start        *)
(* awaited.                                                                 *)

StopSessionFor(revision) ==
  /\ CancelRun
  /\ op' = [step |-> "launch", revision |-> revision, scope |-> binding.active]

StartAgent ==
  /\ op = Idle /\ ~closed /\ agent = NoAgent /\ binding.state = "paired"
  /\ StopSessionFor(saved)
  /\ UNCHANGED <<binding, linked, clients, faults, crashes, botVars>>

\* waitSessionRun: the goroutine of the session has closed its client.
SessionGone == run = NoRun

LaunchAgent ==
  /\ op.step = "launch" /\ SessionGone
  /\ agent' = [step |-> "created", revision |-> op.revision, scope |-> op.scope,
               cancelled |-> FALSE]
  /\ bot' = "starting" /\ active' = 0
  /\ op' = [op EXCEPT !.step = "awaitStart"]
  /\ UNCHANGED <<session, faults, crashes, action, saved, closed>>

\* launch's Started case, when the run it started is still the current one.
Runs == agent # NoAgent /\ bot = "starting"

AgentStarted ==
  /\ op.step = "awaitStart" /\ agent.step \notin {"created", "failed"}
  /\ IF Runs THEN bot' = "running" /\ active' = op.revision ELSE UNCHANGED <<bot, active>>
  /\ op' = Idle
  /\ UNCHANGED <<session, faults, crashes, agent, action, saved, closed>>

\* The start is cancelled or takes too long; abortStarting then waits.
AbortStarting ==
  /\ op.step = "awaitStart" /\ agent # NoAgent
  /\ agent' = [agent EXCEPT !.cancelled = TRUE]
  /\ op' = [step |-> "awaitEnd", then |-> Idle]
  /\ UNCHANGED <<session, faults, crashes, bot, active, action, saved, closed>>

-----------------------------------------------------------------------------
(* The Application's run and runAgent around it.                            *)

Compose ==
  /\ agent.step = "created"
  /\ \/ /\ ~agent.cancelled
        /\ agent' = [agent EXCEPT !.step = "started"]
        /\ clients' = clients \cup {"agent"} /\ UNCHANGED faults
     \/ /\ IF agent.cancelled THEN UNCHANGED faults ELSE Fault
        /\ agent' = [agent EXCEPT !.step = "failed"] /\ UNCHANGED clients
  /\ UNCHANGED <<binding, linked, run, op, crashes, bot, active, action, saved, closed>>

\* The account fails for good, as on a logout, or the run is cancelled; every
\* worker is joined.
RuntimeEnds ==
  /\ agent.step = "started"
  /\ agent' = [agent EXCEPT !.step = "ended"]
  /\ UNCHANGED <<sessionVars, bot, active, action, saved, closed>>

CloseRuntime ==
  /\ agent.step = "ended"
  /\ agent' = [agent EXCEPT !.step = "closed"] /\ clients' = clients \ {"agent"}
  /\ action' = IF action # "running" THEN action
               ELSE IF agent.cancelled THEN "overtaken" ELSE "orphaned"
  /\ UNCHANGED <<binding, linked, run, op, faults, crashes, bot, active, saved, closed>>

RunAgentEnds ==
  /\ agent.step \in {"closed", "failed"} /\ agent' = NoAgent /\ active' = 0
  /\ bot' = IF bot = "stopping" \/ closed THEN "stopped" ELSE "failed"
  /\ UNCHANGED <<sessionVars, action, saved, closed>>

-----------------------------------------------------------------------------
(* Stop, ApplySettings and Close.                                           *)

BadDetachRun == bot' = "stopping" /\ UNCHANGED active

\* detachRunLocked.
DetachRun ==
  IF agent = NoAgent
  THEN bot' = (IF bot = "failed" THEN bot ELSE "stopped") /\ active' = 0
  ELSE bot' = "stopping" /\ active' = 0

\* Stops the bot and goes on with `then'.
StopCurrent(then) ==
  /\ DetachRun
  /\ op' = IF agent = NoAgent THEN then ELSE [step |-> "awaitActions", then |-> then]

StopAgent ==
  /\ op = Idle /\ ~closed /\ StopCurrent(Idle)
  /\ UNCHANGED <<session, faults, crashes, agent, action, saved, closed>>

\* The settings may also say to stop the bot and no more.
ApplySettings ==
  /\ op = Idle /\ ~closed /\ agent # NoAgent /\ bot = "running"
  /\ \E then \in {Idle, [step |-> "launch", revision |-> saved, scope |-> binding.active]} :
       StopCurrent(then)
  /\ UNCHANGED <<session, faults, crashes, agent, action, saved, closed>>

BadActionsReturned == TRUE

\* actions.Lock, for which every action must have returned.
ActionsReturned == action = "none"

CancelAgent ==
  /\ op.step = "awaitActions" /\ ActionsReturned
  /\ agent' = IF agent = NoAgent THEN agent ELSE [agent EXCEPT !.cancelled = TRUE]
  /\ op' = [op EXCEPT !.step = "awaitEnd"]
  /\ UNCHANGED <<session, faults, crashes, bot, active, action, saved, closed>>

AgentEnded ==
  /\ op.step = "awaitEnd" /\ agent = NoAgent /\ op' = op.then
  /\ UNCHANGED <<session, faults, crashes, botVars>>

\* The deadline of a stop passes; the run is left to end by itself, and
\* Host.Close leaves everything else open until the process exits.
StopTimesOut ==
  /\ op.step = "awaitEnd" /\ agent # NoAgent
  /\ op' = IF closed THEN Step("exit") ELSE Idle
  /\ UNCHANGED <<session, faults, crashes, botVars>>

-----------------------------------------------------------------------------
(* WithChatActions.                                                         *)

\* An Application that is done has no runtime left to act on.
StartAction ==
  /\ action = "none" /\ ~closed /\ agent # NoAgent /\ bot = "running"
  /\ agent.step # "closed"
  /\ action' = "running"
  /\ UNCHANGED <<sessionVars, bot, active, agent, saved, closed>>

ActionReturns ==
  /\ action # "none" /\ action' = "none"
  /\ UNCHANGED <<sessionVars, bot, active, agent, saved, closed>>

-----------------------------------------------------------------------------
(* Host.Close stops the bot, then the session, and ends the process.        *)

\* rootCancel: every context of the controller is done, that of the run under
\* way included; to a run that has ended it is nothing.
CancelRoot ==
  agent' = IF agent.step \in {"created", "started"}
           THEN [agent EXCEPT !.cancelled = TRUE] ELSE agent

\* The run is cancelled before its actions are waited for.
Close ==
  /\ op = Idle /\ ~closed /\ crashes < MaxCrashes
  /\ closed' = TRUE /\ StopCurrent(Step("closeSession")) /\ CancelRoot
  /\ UNCHANGED <<session, faults, crashes, action, saved>>

CloseSession ==
  /\ op = Step("closeSession")
  /\ run' = IF run = NoRun THEN run ELSE [run EXCEPT !.cancelled = TRUE]
  /\ op' = Step("exit")
  /\ UNCHANGED <<binding, linked, clients, faults, crashes, botVars>>

EndProcess ==
  /\ crashes' = crashes + 1
  /\ clients' = {} /\ run' = NoRun /\ op' = Idle
  /\ bot' = "stopped" /\ active' = 0 /\ agent' = NoAgent /\ action' = "none" /\ closed' = FALSE
  /\ UNCHANGED <<binding, linked, faults, saved>>

\* With the session ended, or out of patience.
Exit == op = Step("exit") /\ crashes < MaxCrashes /\ EndProcess

Crash == crashes < MaxCrashes /\ EndProcess

-----------------------------------------------------------------------------
AgentSteps == RunAgentEnds \/ CloseRuntime \/ Compose

WaitSteps ==
  \/ LaunchAgent \/ AgentStarted \/ CancelAgent \/ AgentEnded \/ CloseSession \/ Exit

Next ==
  \/ WithSessionControl(SessionOperation)
  \/ SessionRuns
  \/ SaveSettings
  \/ StartAgent \/ StopAgent \/ ApplySettings \/ AbortStarting \/ StopTimesOut
  \/ WaitSteps
  \/ AgentSteps \/ RuntimeEnds
  \/ StartAction \/ ActionReturns
  \/ Close \/ Crash

Spec == Init /\ [][Next]_vars

CancelledAgentEnds == agent.step = "started" /\ agent.cancelled /\ RuntimeEnds
SessionSteps == (OperationSteps \/ RunSteps \/ CancelledEnds) /\ UNCHANGED botVars

\* What was cancelled ends, every step that is not a wait for the outside is
\* taken, and an action returns: each has a timeout.
Fairness ==
  /\ WF_vars(SessionSteps)
  /\ WF_vars(WaitSteps)
  /\ WF_vars(AgentSteps) /\ WF_vars(CancelledAgentEnds)
  /\ WF_vars(ActionReturns)

LiveSpec == Spec /\ Fairness

-----------------------------------------------------------------------------
SessionRunRecords ==
  [step : {"loop", "connected", "revoked", "ended", "closed"}, scope : Scopes,
   mode : {"pairing", "resume"}, paired : BOOLEAN, cancelled : BOOLEAN]
Agents ==
  [step : {"created", "started", "ended", "closed", "failed"}, revision : 1..MaxRevision,
   scope : Scopes, cancelled : BOOLEAN]

\* Every variable stays within its type, and there is a run of the bot just in
\* the states IsActive asks for.
TypeOK ==
  /\ binding \in [state : {"unpaired", "paired", "revoked"}, active : Scopes \cup {None},
                  pending : Scopes \cup {None}]
  /\ linked \subseteq Scopes /\ clients \subseteq Owner
  /\ run = NoRun \/ run \in SessionRunRecords
  /\ agent = NoAgent \/ agent \in Agents
  /\ bot \in IF agent = NoAgent THEN {"stopped", "failed"} ELSE {"starting", "running", "stopping"}
  /\ action \in {"none", "running", "orphaned", "overtaken"}
  /\ active \in 0..MaxRevision /\ saved \in 1..MaxRevision /\ closed \in BOOLEAN
  /\ faults \in 0..MaxFaults /\ crashes \in 0..MaxCrashes

\* One WhatsApp client at most owns the device store, be it a session's, a
\* logout's or the bot's, whatever was stopped, aborted or given up on.
OneDeviceOwner == Cardinality(clients) <= 1

\* The status shown of the bot and the session is true: a revision is active
\* just while the run that has it is the bot's; the bot runs on the active
\* scope, which a logout seen as its session was stopped may have revoked, but
\* then there is no device; and a session is shown as paired only over a
\* binding that is, but for a logout being recorded.
StatusIsTrue ==
  /\ (active # 0) = (bot = "running")
  /\ bot = "running" => agent # NoAgent /\ agent.revision = active
  /\ agent # NoAgent => /\ binding.active = agent.scope
                        /\ binding.state = "paired" \/ agent.scope \notin linked
  /\ run # NoRun /\ run.step # "revoked" /\ run.paired =>
       binding.state = "paired" /\ binding.active = run.scope

\* A reserved scope belongs to the pairing under way; only a crash or a failed
\* write leaves one behind.
ReservationIsOwned ==
  binding.pending # None /\ run = NoRun /\ op = Idle => faults > 0 \/ crashes > 0

\* What the page is told of the bot and the session is so, and no scope stays
\* reserved for nobody.
BindingsAreSound == TypeOK /\ StatusIsTrue /\ ReservationIsOwned

\* A stop waits for the chat actions before it cancels the run they work on
\* (stopRun, WithChatActions): a runtime is cancelled, and closed, under an
\* action in no other way than by the end of the process, which does not wait.
StopWaitsForActions ==
  \/ action = "overtaken"
  \/ action = "running" /\ agent # NoAgent /\ agent.cancelled
  => closed

\* One user of the device at a time, and nobody who stops the bot to go on, or to
\* start it again, takes its runtime from under a chat action.
RuntimesAreOwned == OneDeviceOwner /\ StopWaitsForActions

\* Every operation ends: the waits for a session, for the start of the bot, for
\* the actions on it and for its end wait for one another in no circle.
OperationsEnd == op # Idle ~> op = Idle

=============================================================================

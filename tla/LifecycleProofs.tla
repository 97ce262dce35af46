-------------------------- MODULE LifecycleProofs --------------------------
(***************************************************************************)
(* Proofs about Lifecycle and Sessions, for any scopes, any number of      *)
(* saved revisions and any bounds on faults and ends of the process; and   *)
(* about Connection, the account while the bot of Lifecycle runs, for      *)
(* any versions of the group, channel of signals and bounds.               *)
(***************************************************************************)
EXTENDS Lifecycle, Connection, FiniteSetTheorems, TLAPS

-----------------------------------------------------------------------------
(* The inductive invariant.                                                *)

Reserving == {"recover", "reserve", "open"}
LoggingOut == {"logout", "revoke"}
Stopping == {"awaitActions", "awaitEnd"}
Simple == {"idle", "stopSession", "closeSession", "exit"} \cup Reserving \cup LoggingOut

\* What an operation may be doing, and go on with once the bot has ended.
Launches == [step : {"launch"}, revision : 1..MaxRevision, scope : Scopes]
Nexts == {Idle, Step("closeSession")} \cup Launches
Operations ==
  [step : Simple] \cup [step : {"cancel"}, scope : Scopes] \cup Launches
    \cup [step : {"awaitStart"}, revision : 1..MaxRevision, scope : Scopes]
    \cup [step : Stopping, then : Nexts]

\* A bot may be started on the scope: it is the one in force, and paired unless
\* its device is gone.
Startable(scope) ==
  binding.active = scope /\ (binding.state = "paired" \/ scope \notin linked)

\* An operation that pairs, logs out or waits for the bot has no session beside
\* it; one that will start the bot can.
OpOK ==
  /\ op.step \in Reserving \cup LoggingOut \cup Stopping \cup {"awaitStart"} => run = NoRun
  /\ op.step \in {"recover", "open"} => binding.pending \in Scopes
  /\ op.step = "launch" => Startable(op.scope) /\ ~Pairing
  /\ op.step \in Stopping =>
       bot # "running" /\ (op.then.step = "launch" => Startable(op.then.scope))
  /\ op.step = "awaitStart" /\ agent # NoAgent =>
       bot = "starting" /\ ~agent.cancelled /\ agent.revision = op.revision

\* A session pairs until the binding says so, and is paired while it does.
RunOK ==
  run # NoRun =>
    /\ run.mode = "pairing" => ~run.paired
    /\ run.mode = "resume" /\ ~run.paired => run.step \in {"ended", "closed"}
    /\ run.step = "connected" => run.mode = "pairing"
    /\ run.step # "revoked" /\ (run.paired \/ run.step = "connected") =>
         binding.state = "paired" /\ binding.active = run.scope

\* The bot has no session beside it, nor an operation that makes one, and is
\* shown as running from the end of its start to its stop.  Only the end of the
\* process cancels it under an action.
BotOK ==
  /\ agent # NoAgent =>
       /\ run = NoRun /\ op.step \in {"idle", "exit", "awaitStart"} \cup Stopping
       /\ Startable(agent.scope)
  /\ (active # 0) = (bot = "running")
  /\ bot = "running" =>
       /\ agent # NoAgent /\ agent.step \in {"started", "ended", "closed"}
       /\ ~agent.cancelled /\ agent.revision = active
  /\ action = "running" =>
       /\ agent.step \in {"started", "ended"} /\ (agent.cancelled => closed)
       /\ bot \in {"running", "stopping"}
  /\ action = "overtaken" => closed

\* A client is open just while its user works.
ClientsOK ==
  /\ "session" \in clients <=> run # NoRun /\ run.step # "closed"
  /\ "logout" \in clients <=> op.step \in LoggingOut
  /\ "agent" \in clients <=> agent.step \in {"started", "ended"}

\* Unless something failed, a reserved scope is the one being paired.
ReservedOK ==
  faults = 0 /\ crashes = 0 /\ binding.pending # None =>
    \/ op.step = "open"
    \/ /\ run # NoRun /\ run.mode = "pairing" /\ run.scope = binding.pending
       /\ run.step \in {"loop", "ended", "closed"}

BindingOK == binding.state # "unpaired" => binding.active \in Scopes

\* The types, of the session controller and of the bot.
SessionType ==
  /\ binding \in [state : {"unpaired", "paired", "revoked"}, active : Scopes \cup {None},
                  pending : Scopes \cup {None}]
  /\ linked \subseteq Scopes /\ clients \subseteq Owner
  /\ run = NoRun \/ run \in SessionRunRecords
  /\ op \in Operations /\ faults \in 0..MaxFaults /\ crashes \in 0..MaxCrashes

BotType ==
  /\ agent = NoAgent \/ agent \in Agents
  /\ bot \in IF agent = NoAgent THEN {"stopped", "failed"} ELSE {"starting", "running", "stopping"}
  /\ action \in {"none", "running", "orphaned", "overtaken"}
  /\ active \in 0..MaxRevision /\ saved \in 1..MaxRevision /\ closed \in BOOLEAN

IInv ==
  /\ SessionType /\ BotType
  /\ BindingOK /\ OpOK /\ RunOK /\ BotOK /\ ClientsOK /\ ReservedOK

LEMMA TypeParts == TypeOK /\ op \in Operations <=> SessionType /\ BotType
  BY DEF TypeOK, SessionType, BotType

USE DEF Reserving, LoggingOut, Stopping

-----------------------------------------------------------------------------
(* What a step of the session controller has to show.                      *)

\* Whoever is in the session controller is so without a bot.
LEMMA NoBotBeside ==
  ASSUME IInv
  PROVE  /\ run # NoRun => agent = NoAgent
         /\ op.step \in {"stopSession", "cancel", "launch", "closeSession"} \cup Reserving \cup LoggingOut
              => agent = NoAgent
  BY DEF IInv, BotOK

\* Without a bot nothing is said of it.
LEMMA BotStaysAway ==
  ASSUME IInv, UNCHANGED botVars, agent = NoAgent PROVE BotType' /\ BotOK'
<1>1. UNCHANGED <<bot, active, agent, action, saved, closed>> BY DEF botVars
<1>2. BotType' BY <1>1 DEF IInv, BotType
<1>3. BotOK' BY <1>1 DEF IInv, BotOK, NoAgent
<1>4. QED BY <1>2, <1>3

\* An operation of the session controller.
LEMMA OperationKeeps ==
  ASSUME IInv, UNCHANGED botVars, agent = NoAgent,
         SessionType', BindingOK', RunOK', ReservedOK',
         op'.step \in {"idle", "stopSession", "cancel"} \cup Reserving \cup LoggingOut,
         op'.step \in Reserving \cup LoggingOut => run' = NoRun,
         op'.step \in {"recover", "open"} => binding'.pending \in Scopes,
         "session" \in clients' <=> run' # NoRun /\ run'.step # "closed",
         "logout" \in clients' <=> op'.step \in LoggingOut,
         "agent" \in clients' <=> "agent" \in clients
  PROVE  IInv'
<1>1. BotType' /\ BotOK' BY BotStaysAway
<1>2. agent' = agent BY DEF botVars
<1>3. OpOK' BY DEF OpOK
<1>4. ClientsOK' BY <1>2 DEF IInv, ClientsOK
<1>5. QED BY <1>1, <1>3, <1>4 DEF IInv

\* A step of the session beside the operations.
LEMMA RunKeeps ==
  ASSUME IInv, UNCHANGED <<botVars, op>>, run # NoRun,
         SessionType', BindingOK', RunOK', ReservedOK',
         op.step = "launch" => Startable(op.scope)' /\ ~Pairing',
         "session" \in clients' <=> run' # NoRun /\ run'.step # "closed",
         clients' \ {"session"} = clients \ {"session"}
  PROVE  IInv'
<1>1. agent = NoAgent BY NoBotBeside
<1>2. BotType' /\ BotOK' BY <1>1, BotStaysAway
<1>3. agent' = agent /\ op' = op BY DEF botVars
<1>4. op.step \notin Reserving \cup LoggingOut \cup Stopping \cup {"awaitStart"} BY DEF IInv, OpOK
<1>5. OpOK' BY <1>3, <1>4 DEF OpOK
<1>6. ClientsOK' BY <1>3 DEF IInv, ClientsOK
<1>7. QED BY <1>2, <1>5, <1>6 DEF IInv

\* A step of the bot.
LEMMA BotKeeps ==
  ASSUME IInv, UNCHANGED <<binding, linked, run, crashes>>, faults' \in {faults, faults + 1},
         faults' \in 0..MaxFaults, clients' \subseteq Owner, op' \in Operations,
         op.step = "open" => op' = op,
         BotType', OpOK', BotOK', ClientsOK'
  PROVE  IInv'
<1>1. SessionType' BY DEF IInv, SessionType
<1>2. BindingOK' /\ RunOK' BY DEF IInv, BindingOK, RunOK
<1>3. ReservedOK'
  <2>1. faults \in Nat BY BoundsAreNatural DEF IInv, SessionType
  <2>2. faults' = 0 => faults = 0 BY <2>1
  <2>3. QED BY <2>2 DEF IInv, ReservedOK
<1>4. QED BY <1>1, <1>2, <1>3 DEF IInv

\* Whatever fails is counted.
LEMMA FaultCounts ==
  ASSUME IInv, Fault PROVE faults' \in 0..MaxFaults /\ faults' = faults + 1 /\ faults' > 0
  BY BoundsAreNatural DEF IInv, SessionType, Fault

\* Of what can be an operation, the step tells what it is.
LEMMA StepOps ==
  /\ \A step \in Simple : Step(step) \in Operations /\ Step(step).step = step
  /\ Idle \in Operations /\ Idle.step = "idle"
  BY DEF Step, Idle, Operations, Simple

\* A run that is cancelled is otherwise what it was.
LEMMA CancelledRun ==
  ASSUME IInv, run # NoRun, run' = [run EXCEPT !.cancelled = TRUE]
  PROVE  /\ run' \in SessionRunRecords /\ run' # NoRun
         /\ run'.step = run.step /\ run'.mode = run.mode /\ run'.scope = run.scope
         /\ run'.paired = run.paired
<1>1. run \in SessionRunRecords BY DEF IInv, SessionType
<1>2. QED BY <1>1 DEF SessionRunRecords, NoRun

-----------------------------------------------------------------------------
(* The operations of the session controller.                               *)

LEMMA BeginPairingStep == ASSUME IInv, WithSessionControl(BeginPairing) PROVE IInv'
<1>1. agent = NoAgent /\ UNCHANGED botVars
  BY DEF WithSessionControl, IsActive, IInv, BotType
<1>2. /\ op = Idle /\ run = NoRun /\ UNCHANGED <<session, faults, crashes>>
      /\ op' = Step(IF binding.pending # None THEN "recover" ELSE "reserve")
  BY DEF WithSessionControl, BeginPairing, EnsureOpen
<1>3. UNCHANGED <<binding, linked, clients, run>> BY <1>2 DEF session
<1>4. op' \in Operations /\ op'.step \in {"recover", "reserve"}
      /\ (op'.step = "recover" => binding.pending # None)
  BY <1>2, StepOps DEF Simple, Step
<1>5. SessionType' BY <1>2, <1>3, <1>4 DEF IInv, SessionType
<1>6. BindingOK' /\ RunOK' BY <1>3 DEF IInv, BindingOK, RunOK
<1>7. op.step = "idle" BY <1>2, StepOps
<1>8. ReservedOK' BY <1>2, <1>3, <1>7 DEF IInv, ReservedOK
<1>9. binding.pending \in Scopes \cup {None} BY DEF IInv, SessionType
<1>10. ("session" \in clients <=> run # NoRun /\ run.step # "closed") /\ "logout" \notin clients
  BY <1>7 DEF IInv, ClientsOK
<1>11. QED BY <1>1, <1>2, <1>3, <1>4, <1>5, <1>6, <1>8, <1>9, <1>10, OperationKeeps

LEMMA ResumeStep == ASSUME IInv, WithSessionControl(Resume) PROVE IInv'
<1>1. agent = NoAgent /\ UNCHANGED botVars
  BY DEF WithSessionControl, IsActive, IInv, BotType
<1>2. /\ op = Idle /\ run = NoRun /\ binding.state = "paired"
      /\ UNCHANGED <<linked, op, faults, crashes>>
  BY DEF WithSessionControl, Resume, EnsureOpen
<1>3. op.step = "idle" /\ op' = op BY <1>2, StepOps
<1>4. binding.active \in Scopes BY <1>2 DEF IInv, BindingOK
<1>5. CASE Launch(binding.active, "resume") /\ UNCHANGED binding
  <2>1. /\ run' = [step |-> "loop", scope |-> binding.active, mode |-> "resume", paired |-> TRUE,
                   cancelled |-> FALSE]
        /\ clients' = clients \cup {"session"}
    BY <1>5 DEF Launch
  <2>2. run' \in SessionRunRecords /\ run' # NoRun BY <1>4, <2>1 DEF SessionRunRecords, NoRun
  <2>3. SessionType' BY <1>2, <1>5, <2>1, <2>2 DEF IInv, SessionType, Owner
  <2>4. BindingOK' BY <1>5 DEF IInv, BindingOK
  <2>5. RunOK' BY <1>2, <1>5, <2>1 DEF RunOK
  <2>6. ReservedOK' BY <1>2, <1>3, <1>5 DEF IInv, ReservedOK
  <2>7. "logout" \notin clients BY <1>3 DEF IInv, ClientsOK
  <2>8. QED BY <1>1, <1>3, <2>1, <2>2, <2>3, <2>4, <2>5, <2>6, <2>7, OperationKeeps
<1>6. CASE MarkSessionRevoked(binding.active) /\ UNCHANGED <<run, clients>>
  <2>1. binding' = [binding EXCEPT !.state = "revoked"] BY <1>6 DEF MarkSessionRevoked
  <2>2. SessionType' BY <1>2, <1>6, <2>1 DEF IInv, SessionType
  <2>3. BindingOK' BY <1>4, <2>1 DEF IInv, SessionType, BindingOK
  <2>4. RunOK' BY <1>2, <1>6 DEF RunOK
  <2>5. ReservedOK' BY <1>2, <1>3, <1>6, <2>1 DEF IInv, SessionType, ReservedOK
  <2>6. "logout" \notin clients /\ "session" \notin clients BY <1>2, <1>3 DEF IInv, ClientsOK
  <2>7. QED BY <1>1, <1>2, <1>3, <1>6, <2>2, <2>3, <2>4, <2>5, <2>6, OperationKeeps
<1>7. QED BY <1>5, <1>6 DEF WithSessionControl, Resume

\* The run is told to end, and an operation waits for it.
LEMMA CancelledRunKeeps ==
  ASSUME IInv, UNCHANGED <<binding, linked, clients, faults, crashes>>, op' \in Operations,
         run # NoRun, run' = [run EXCEPT !.cancelled = TRUE], op.step \in {"idle", "closeSession"}
  PROVE  /\ SessionType' /\ BindingOK' /\ RunOK' /\ ReservedOK' /\ run' # NoRun
         /\ "session" \in clients' <=> run'.step # "closed"
         /\ "logout" \notin clients'
<1>1. /\ run' \in SessionRunRecords /\ run' # NoRun
      /\ run'.step = run.step /\ run'.mode = run.mode /\ run'.scope = run.scope
      /\ run'.paired = run.paired
  BY CancelledRun
<1>2. SessionType' BY <1>1 DEF IInv, SessionType
<1>3. BindingOK' BY DEF IInv, BindingOK
<1>4. RunOK' BY <1>1 DEF IInv, RunOK
<1>5. ReservedOK' BY <1>1 DEF IInv, ReservedOK
<1>6. QED BY <1>1, <1>2, <1>3, <1>4, <1>5 DEF IInv, ClientsOK

LEMMA StopSessionStep == ASSUME IInv, WithSessionControl(StopSession) PROVE IInv'
<1>1. agent = NoAgent /\ UNCHANGED botVars
  BY DEF WithSessionControl, IsActive, IInv, BotType
<1>2. /\ op = Idle /\ run # NoRun /\ run' = [run EXCEPT !.cancelled = TRUE]
      /\ op' = Step("stopSession") /\ UNCHANGED <<binding, linked, clients, faults, crashes>>
  BY DEF WithSessionControl, StopSession, CancelRun
<1>3. op.step = "idle" /\ op'.step = "stopSession" /\ op' \in Operations
  BY <1>2, StepOps DEF Simple
<1>4. QED BY <1>1, <1>2, <1>3, CancelledRunKeeps, OperationKeeps

LEMMA CancelPairingStep == ASSUME IInv, WithSessionControl(CancelPairing) PROVE IInv'
<1>1. agent = NoAgent /\ UNCHANGED botVars
  BY DEF WithSessionControl, IsActive, IInv, BotType
<1>2. /\ op = Idle /\ run # NoRun /\ run' = [run EXCEPT !.cancelled = TRUE]
      /\ op' = [step |-> "cancel", scope |-> run.scope]
      /\ UNCHANGED <<binding, linked, clients, faults, crashes>>
  BY DEF WithSessionControl, CancelPairing, Pairing
<1>3. run.scope \in Scopes BY <1>2 DEF IInv, SessionType, SessionRunRecords
<1>4. op.step = "idle" /\ op'.step = "cancel" /\ op' \in Operations
  BY <1>2, <1>3, StepOps DEF Operations
<1>5. QED BY <1>1, <1>2, <1>4, CancelledRunKeeps, OperationKeeps

LEMMA LogoutStep == ASSUME IInv, WithSessionControl(Logout) PROVE IInv'
<1>1. agent = NoAgent /\ UNCHANGED botVars
  BY DEF WithSessionControl, IsActive, IInv, BotType
<1>2. /\ op = Idle /\ run = NoRun /\ clients' = clients \cup {"logout"} /\ op' = Step("logout")
      /\ UNCHANGED <<binding, linked, run, faults, crashes>>
  BY DEF WithSessionControl, Logout, EnsureOpen
<1>3. op.step = "idle" /\ op'.step = "logout" /\ op' \in Operations BY <1>2, StepOps DEF Simple
<1>4. SessionType' BY <1>2, <1>3 DEF IInv, SessionType, Owner
<1>5. BindingOK' /\ RunOK' BY <1>2 DEF IInv, BindingOK, RunOK
<1>6. ReservedOK' BY <1>2, <1>3 DEF IInv, ReservedOK
<1>7. "session" \notin clients BY <1>2 DEF IInv, ClientsOK
<1>8. QED BY <1>1, <1>2, <1>3, <1>4, <1>5, <1>6, <1>7, OperationKeeps

\* The writes to the binding keep it in order.
LEMMA MarkedPaired ==
  ASSUME IInv, NEW scope \in Scopes, MarkSessionPaired(scope)
  PROVE  /\ binding' = [state |-> "paired", active |-> scope, pending |-> None]
         /\ BindingOK'
         /\ binding' \in [state : {"unpaired", "paired", "revoked"}, active : Scopes \cup {None},
                          pending : Scopes \cup {None}]
  BY DEF MarkSessionPaired, BindingOK

LEMMA AbortedPairing ==
  ASSUME IInv, NEW scope, AbortSessionPairing(scope)
  PROVE  /\ BindingOK'
         /\ binding' \in [state : {"unpaired", "paired", "revoked"}, active : Scopes \cup {None},
                          pending : Scopes \cup {None}]
         /\ binding'.state = binding.state /\ binding'.active = binding.active
         /\ binding'.pending \in {binding.pending, None}
         /\ faults' \in 0..MaxFaults
         /\ (faults' = faults /\ binding'.pending # scope) \/ (faults' > 0 /\ binding' = binding)
            \/ (faults' = faults /\ scope = None)
<1>1. binding \in [state : {"unpaired", "paired", "revoked"}, active : Scopes \cup {None},
                   pending : Scopes \cup {None}]
      /\ faults \in 0..MaxFaults
  BY DEF IInv, SessionType
<1>2. CASE UNCHANGED faults /\ binding' = IF binding.pending = scope
                                         THEN [binding EXCEPT !.pending = None] ELSE binding
  BY <1>1, <1>2 DEF IInv, BindingOK
<1>3. CASE binding' = binding /\ Fault
  BY <1>1, <1>3, FaultCounts DEF IInv, BindingOK
<1>4. QED BY <1>2, <1>3 DEF AbortSessionPairing

\* An operation that has no session beside it, and neither has its next step.
LEMMA AloneKeeps ==
  ASSUME IInv, UNCHANGED <<botVars, crashes>>, linked' \subseteq linked,
         run = NoRun, run' = NoRun, agent = NoAgent,
         BindingOK',
         binding' \in [state : {"unpaired", "paired", "revoked"}, active : Scopes \cup {None},
                       pending : Scopes \cup {None}],
         op' \in Operations, faults' \in 0..MaxFaults, clients' \subseteq Owner,
         op'.step \in {"idle"} \cup Reserving \cup LoggingOut,
         op'.step \in {"recover", "open"} => binding'.pending \in Scopes,
         "session" \notin clients',
         "logout" \in clients' <=> op'.step \in LoggingOut,
         "agent" \in clients' <=> "agent" \in clients,
         \/ op'.step = "open" \/ faults' > 0 \/ crashes > 0
         \/ binding'.pending = None
  PROVE  IInv'
<1>1. SessionType' BY DEF IInv, SessionType
<1>2. RunOK' BY DEF RunOK
<1>3. ReservedOK'
  <2>1. crashes \in Nat /\ faults' \in Nat BY BoundsAreNatural DEF IInv, SessionType
  <2>2. QED BY <2>1 DEF ReservedOK
<1>4. QED BY <1>1, <1>2, <1>3, OperationKeeps

\* What is known of an operation by its step.
LEMMA OperationAlone ==
  ASSUME IInv, op.step \in Reserving \cup LoggingOut
  PROVE  /\ run = NoRun /\ agent = NoAgent /\ "session" \notin clients
         /\ "logout" \in clients <=> op.step \in LoggingOut
         /\ op.step \in {"recover", "open"} => binding.pending \in Scopes
         /\ op.step # "open" => binding.pending = None \/ faults > 0 \/ crashes > 0
         /\ faults \in 0..MaxFaults /\ clients \subseteq Owner /\ binding.pending \in Scopes \cup {None}
<1>1. run = NoRun /\ agent = NoAgent BY NoBotBeside DEF IInv, OpOK
<1>2. "session" \notin clients /\ ("logout" \in clients <=> op.step \in LoggingOut)
  BY <1>1 DEF IInv, ClientsOK
<1>3. faults \in 0..MaxFaults /\ crashes \in 0..MaxCrashes BY DEF IInv, SessionType
<1>4. op.step # "open" => binding.pending = None \/ faults > 0 \/ crashes > 0
  BY <1>1, <1>3, BoundsAreNatural DEF IInv, ReservedOK
<1>5. QED BY <1>1, <1>2, <1>3, <1>4 DEF IInv, OpOK, SessionType

LEMMA RecoverPairingStep == ASSUME IInv, RecoverPairing, UNCHANGED botVars PROVE IInv'
<1>1. op = Step("recover") /\ UNCHANGED <<linked, clients, run, crashes>> BY DEF RecoverPairing
<1>2. op.step = "recover" BY <1>1, StepOps DEF Simple
<1>3. PICK scope \in Scopes : scope = binding.pending BY <1>2, OperationAlone
<1>4. faults > 0 \/ crashes > 0 BY <1>2, <1>3, OperationAlone, ScopesAssumption
<1>5. CASE MarkSessionPaired(scope) /\ op' = Idle /\ UNCHANGED faults
  <2>1. op' \in Operations /\ op'.step = "idle" BY <1>5, StepOps
  <2>2. QED BY <1>1, <1>2, <1>4, <1>5, <2>1, MarkedPaired, OperationAlone, AloneKeeps
<1>6. CASE /\ AbortSessionPairing(scope)
           /\ op' = IF faults' = faults THEN Step("reserve") ELSE Idle
  <2>1. op' \in Operations /\ op'.step \in {"idle", "reserve"} BY <1>6, StepOps DEF Simple
  <2>2. faults' > 0 \/ crashes > 0 BY <1>4, <1>6, AbortedPairing
  <2>3. QED BY <1>1, <1>2, <1>6, <2>1, <2>2, AbortedPairing, OperationAlone, AloneKeeps
<1>7. CASE UNCHANGED binding /\ op' = Idle /\ Fault
  <2>1. op' \in Operations /\ op'.step = "idle" BY <1>7, StepOps
  <2>2. SessionType /\ BindingOK /\ BindingOK' BY <1>7 DEF IInv, BindingOK
  <2>3. QED BY <1>1, <1>2, <1>7, <2>1, <2>2, FaultCounts, OperationAlone, AloneKeeps DEF SessionType
<1>8. QED BY <1>3, <1>5, <1>6, <1>7 DEF RecoverPairing

LEMMA ReservePairingStep == ASSUME IInv, ReservePairing, UNCHANGED botVars PROVE IInv'
<1>1. op = Step("reserve") /\ UNCHANGED <<linked, clients, run, crashes>> BY DEF ReservePairing
<1>2. op.step = "reserve" BY <1>1, StepOps DEF Simple
<1>3. SessionType /\ BindingOK BY DEF IInv
<1>4. CASE \E scope \in PreferredScopes :
             BeginSessionPairing(scope) /\ op' = Step("open") /\ UNCHANGED faults
  <2>1. PICK scope \in PreferredScopes : BeginSessionPairing(scope) BY <1>4
  <2>2. scope \in Scopes BY ScopesAssumption DEF PreferredScopes
  <2>3. binding' = [binding EXCEPT !.pending = scope] BY <2>1 DEF BeginSessionPairing
  <2>4. op' \in Operations /\ op'.step = "open" BY <1>4, StepOps DEF Simple
  <2>5. /\ binding' \in [state : {"unpaired", "paired", "revoked"}, active : Scopes \cup {None},
                         pending : Scopes \cup {None}]
        /\ BindingOK' /\ binding'.pending \in Scopes
    BY <1>3, <2>2, <2>3 DEF SessionType, BindingOK
  <2>6. QED BY <1>1, <1>2, <1>4, <2>4, <2>5, OperationAlone, AloneKeeps
<1>5. CASE op' = Idle /\ UNCHANGED binding /\ (faults' = faults \/ Fault)
  <2>1. op' \in Operations /\ op'.step = "idle" BY <1>5, StepOps
  <2>2. BindingOK' BY <1>3, <1>5 DEF BindingOK
  <2>3. faults' \in 0..MaxFaults /\ (faults' = faults \/ faults' > 0)
    BY <1>2, <1>5, FaultCounts, OperationAlone
  <2>4. QED BY <1>1, <1>2, <1>3, <1>5, <2>1, <2>2, <2>3, OperationAlone, AloneKeeps DEF SessionType
<1>6. QED BY <1>4, <1>5 DEF ReservePairing

LEMMA OpenPairingStep == ASSUME IInv, OpenPairing, UNCHANGED botVars PROVE IInv'
<1>1. op = Step("open") /\ op' = Idle /\ UNCHANGED <<linked, crashes>> BY DEF OpenPairing
<1>2. op.step = "open" /\ op'.step = "idle" /\ op' \in Operations BY <1>1, StepOps DEF Simple
<1>3. PICK scope \in Scopes : scope = binding.pending BY <1>2, OperationAlone
<1>4. SessionType /\ BindingOK /\ run = NoRun /\ agent = NoAgent
  BY <1>2, OperationAlone DEF IInv
<1>5. CASE Launch(scope, "pairing") /\ UNCHANGED <<binding, faults>>
  <2>1. /\ run' = [step |-> "loop", scope |-> scope, mode |-> "pairing", paired |-> FALSE,
                   cancelled |-> FALSE]
        /\ clients' = clients \cup {"session"}
    BY <1>5 DEF Launch
  <2>2. run' \in SessionRunRecords /\ run' # NoRun BY <2>1 DEF SessionRunRecords, NoRun
  <2>3. SessionType' BY <1>1, <1>2, <1>4, <1>5, <2>1, <2>2 DEF SessionType, Owner
  <2>4. BindingOK' BY <1>4, <1>5 DEF BindingOK
  <2>5. RunOK' BY <2>1 DEF RunOK
  <2>6. ReservedOK' BY <1>3, <1>5, <2>1, <2>2 DEF ReservedOK
  <2>7. QED BY <1>2, <1>4, <2>1, <2>2, <2>3, <2>4, <2>5, <2>6, OperationAlone, OperationKeeps
<1>6. CASE MarkSessionPaired(scope) /\ UNCHANGED <<run, clients, faults>>
  BY <1>1, <1>2, <1>4, <1>6, MarkedPaired, OperationAlone, AloneKeeps
<1>7. CASE UNCHANGED <<run, clients>> /\ Fault
           /\ (binding' = binding \/ binding' = [binding EXCEPT !.pending = None])
  <2>1. /\ binding' \in [state : {"unpaired", "paired", "revoked"}, active : Scopes \cup {None},
                         pending : Scopes \cup {None}]
        /\ BindingOK'
    BY <1>4, <1>7 DEF SessionType, BindingOK
  <2>2. QED BY <1>1, <1>2, <1>4, <1>7, <2>1, FaultCounts, OperationAlone, AloneKeeps
<1>8. QED BY <1>3, <1>5, <1>6, <1>7 DEF OpenPairing

LEMMA SessionStoppedStep == ASSUME IInv, SessionStopped, UNCHANGED botVars PROVE IInv'
<1>1. op = Step("stopSession") /\ run = NoRun /\ op' = Idle
      /\ UNCHANGED <<binding, linked, clients, run, faults, crashes>>
  BY DEF SessionStopped, session
<1>2. op.step = "stopSession" /\ op'.step = "idle" /\ op' \in Operations
  BY <1>1, StepOps DEF Simple
<1>3. agent = NoAgent BY <1>2, NoBotBeside
<1>4. SessionType' BY <1>1, <1>2 DEF IInv, SessionType
<1>5. BindingOK' /\ RunOK' BY <1>1 DEF IInv, BindingOK, RunOK
<1>6. ReservedOK' BY <1>1, <1>2 DEF IInv, ReservedOK
<1>7. "session" \notin clients /\ "logout" \notin clients BY <1>1, <1>2 DEF IInv, ClientsOK
<1>8. QED BY <1>1, <1>2, <1>3, <1>4, <1>5, <1>6, <1>7, OperationKeeps

LEMMA PairingCancelledStep == ASSUME IInv, PairingCancelled, UNCHANGED botVars PROVE IInv'
<1>1. op.step = "cancel" /\ run = NoRun /\ op' = Idle /\ AbortSessionPairing(op.scope)
      /\ UNCHANGED <<linked, clients, run, crashes>>
  BY DEF PairingCancelled
<1>2. op'.step = "idle" /\ op' \in Operations BY <1>1, StepOps
<1>3. agent = NoAgent BY <1>1, NoBotBeside
<1>4. binding.pending = None \/ faults > 0 \/ crashes > 0
  BY <1>1, BoundsAreNatural DEF IInv, ReservedOK, SessionType
<1>5. binding'.pending = None \/ faults' > 0 \/ crashes > 0 BY <1>1, <1>4, AbortedPairing
<1>6. "session" \notin clients /\ "logout" \notin clients /\ clients \subseteq Owner
  BY <1>1 DEF IInv, ClientsOK, SessionType
<1>7. QED BY <1>1, <1>2, <1>3, <1>5, <1>6, AbortedPairing, AloneKeeps

LEMMA LogoutAnsweredStep == ASSUME IInv, LogoutAnswered, UNCHANGED botVars PROVE IInv'
<1>1. op = Step("logout") /\ UNCHANGED <<binding, run, faults, crashes>> BY DEF LogoutAnswered
<1>2. op.step = "logout" BY <1>1, StepOps DEF Simple
<1>3. SessionType /\ BindingOK /\ BindingOK' BY <1>1 DEF IInv, BindingOK
<1>4. op' \in Operations /\ op'.step \in {"revoke", "idle"}
      /\ (op'.step = "revoke" => UNCHANGED clients)
      /\ (op'.step = "idle" => clients' = clients \ {"logout"})
  BY StepOps DEF LogoutAnswered, Simple
<1>5. linked' \subseteq linked BY DEF LogoutAnswered
<1>6. QED BY <1>1, <1>2, <1>3, <1>4, <1>5, OperationAlone, AloneKeeps DEF SessionType

LEMMA LogoutRevokesStep == ASSUME IInv, LogoutRevokes, UNCHANGED botVars PROVE IInv'
<1>1. op = Step("revoke") /\ op' = Idle /\ UNCHANGED <<linked, run, crashes>>
      /\ clients' = clients \ {"logout"}
  BY DEF LogoutRevokes
<1>2. op.step = "revoke" /\ op'.step = "idle" /\ op' \in Operations BY <1>1, StepOps DEF Simple
<1>3. SessionType /\ BindingOK BY DEF IInv
<1>4. CASE MarkSessionRevoked(binding.active) /\ UNCHANGED faults
  <2>1. binding' = [binding EXCEPT !.state = "revoked"] /\ binding.state # "unpaired"
    BY <1>3, <1>4 DEF MarkSessionRevoked
  <2>2. /\ binding' \in [state : {"unpaired", "paired", "revoked"}, active : Scopes \cup {None},
                         pending : Scopes \cup {None}]
        /\ BindingOK' /\ binding'.pending = binding.pending
    BY <1>3, <2>1 DEF SessionType, BindingOK
  <2>3. QED BY <1>1, <1>2, <1>4, <2>2, OperationAlone, AloneKeeps
<1>5. CASE UNCHANGED binding /\ Fault
  <2>1. BindingOK' BY <1>3, <1>5 DEF BindingOK
  <2>2. QED
    BY <1>1, <1>2, <1>3, <1>5, <2>1, FaultCounts, OperationAlone, AloneKeeps DEF SessionType
<1>6. QED BY <1>4, <1>5 DEF LogoutRevokes

-----------------------------------------------------------------------------
(* The goroutine of the session, the phone and the servers.                *)

\* What is known while there is a session; one that pairs keeps the bot away.
LEMMA SessionAlive ==
  ASSUME IInv, run # NoRun
  PROVE  /\ run \in SessionRunRecords /\ BindingOK
         /\ "session" \in clients <=> run.step # "closed"
         /\ op.step # "open" /\ (run.mode = "pairing" <=> Pairing)
         /\ op.step = "launch" => run.mode = "resume" /\ Startable(op.scope)
         /\ binding.pending = None \/ faults > 0 \/ crashes > 0
            \/ (run.mode = "pairing" /\ run.scope = binding.pending
                /\ run.step \in {"loop", "ended", "closed"})
         /\ binding \in [state : {"unpaired", "paired", "revoked"}, active : Scopes \cup {None},
                         pending : Scopes \cup {None}]
         /\ linked \subseteq Scopes /\ clients \subseteq Owner
         /\ op \in Operations /\ faults \in 0..MaxFaults /\ crashes \in 0..MaxCrashes
<1>1. /\ run \in SessionRunRecords /\ linked \subseteq Scopes /\ clients \subseteq Owner
      /\ binding \in [state : {"unpaired", "paired", "revoked"}, active : Scopes \cup {None},
                      pending : Scopes \cup {None}]
      /\ op \in Operations /\ faults \in 0..MaxFaults /\ crashes \in 0..MaxCrashes
  BY DEF IInv, SessionType
<1>2. op.step # "open" BY DEF IInv, OpOK
<1>3. run.mode = "pairing" <=> Pairing BY DEF IInv, RunOK, Pairing
<1>4. op.step = "launch" => run.mode = "resume" /\ Startable(op.scope)
  BY <1>1, <1>3 DEF IInv, OpOK, SessionRunRecords
<1>5. binding.pending = None \/ faults > 0 \/ crashes > 0
      \/ (run.mode = "pairing" /\ run.scope = binding.pending
          /\ run.step \in {"loop", "ended", "closed"})
  BY <1>1, <1>2, BoundsAreNatural DEF IInv, ReservedOK
<1>6. QED BY <1>1, <1>2, <1>3, <1>4, <1>5 DEF IInv, ClientsOK

\* The goroutine goes on, and the binding stays.
LEMMA GoroutineKeeps ==
  ASSUME IInv, UNCHANGED <<botVars, binding, linked, op, faults, crashes>>, run # NoRun,
         run' \in SessionRunRecords, run'.scope = run.scope, RunOK',
         run.mode = "resume" => run'.mode = "resume",
         run'.mode = "pairing" => run'.step \in {"loop", "ended", "closed"},
         run.mode = "pairing" /\ run'.mode = "resume" => run.step = "connected",
         clients' \subseteq Owner, clients' \ {"session"} = clients \ {"session"},
         "session" \in clients' <=> run'.step # "closed"
  PROVE  IInv'
<1>1. run' # NoRun BY DEF SessionRunRecords, NoRun
<1>2. SessionType' BY SessionAlive DEF SessionType
<1>3. BindingOK' BY SessionAlive DEF BindingOK
<1>4. ReservedOK' BY <1>1, SessionAlive DEF ReservedOK, SessionRunRecords
<1>5. op.step = "launch" => Startable(op.scope)' /\ ~Pairing'
  BY SessionAlive DEF Startable, Pairing
<1>6. QED BY <1>1, <1>2, <1>3, <1>4, <1>5, RunKeeps

LEMMA RecordConnectedStep == ASSUME IInv, RecordConnected, UNCHANGED botVars PROVE IInv'
<1>1. /\ run.step = "connected" /\ run # NoRun
      /\ run' = [run EXCEPT !.step = "loop", !.paired = TRUE, !.mode = "resume"]
      /\ UNCHANGED <<binding, linked, clients, op, faults, crashes>>
  BY DEF RecordConnected, NoRun
<1>2. run \in SessionRunRecords /\ clients \subseteq Owner /\ "session" \in clients
  BY <1>1, SessionAlive
<1>3. /\ run' \in SessionRunRecords /\ run'.scope = run.scope
      /\ run'.step = "loop" /\ run'.paired /\ run'.mode = "resume"
  BY <1>1, <1>2 DEF SessionRunRecords
<1>4. RunOK' BY <1>1, <1>3 DEF IInv, RunOK
<1>5. QED BY <1>1, <1>2, <1>3, <1>4, GoroutineKeeps

LEMMA RecordRevokedStep == ASSUME IInv, RecordRevoked, UNCHANGED botVars PROVE IInv'
<1>1. /\ run.step = "revoked" /\ run # NoRun
      /\ run' = [run EXCEPT !.step = "ended", !.paired = FALSE]
      /\ UNCHANGED <<binding, linked, clients, op, faults, crashes>>
  BY DEF RecordRevoked, NoRun
<1>2. run \in SessionRunRecords /\ clients \subseteq Owner /\ "session" \in clients
  BY <1>1, SessionAlive
<1>3. /\ run' \in SessionRunRecords /\ run'.scope = run.scope
      /\ run'.step = "ended" /\ ~run'.paired /\ run'.mode = run.mode
  BY <1>1, <1>2 DEF SessionRunRecords
<1>4. RunOK' BY <1>3 DEF RunOK
<1>5. QED BY <1>1, <1>2, <1>3, <1>4, GoroutineKeeps DEF SessionRunRecords

LEMMA RunEndsStep == ASSUME IInv, RunEnds, UNCHANGED botVars PROVE IInv'
<1>1. /\ run.step = "loop" /\ run # NoRun /\ run' = [run EXCEPT !.step = "ended"]
      /\ UNCHANGED <<binding, linked, clients, op, faults, crashes>>
  BY DEF RunEnds, NoRun
<1>2. run \in SessionRunRecords /\ clients \subseteq Owner /\ "session" \in clients
  BY <1>1, SessionAlive
<1>3. /\ run' \in SessionRunRecords /\ run'.scope = run.scope
      /\ run'.step = "ended" /\ run'.paired = run.paired /\ run'.mode = run.mode
  BY <1>1, <1>2 DEF SessionRunRecords
<1>4. RunOK' BY <1>1, <1>3 DEF IInv, RunOK
<1>5. QED BY <1>1, <1>2, <1>3, <1>4, GoroutineKeeps DEF SessionRunRecords

LEMMA CloseRunStep == ASSUME IInv, CloseRun, UNCHANGED botVars PROVE IInv'
<1>1. /\ run.step = "ended" /\ run # NoRun /\ run' = [run EXCEPT !.step = "closed"]
      /\ clients' = clients \ {"session"}
      /\ UNCHANGED <<binding, linked, op, faults, crashes>>
  BY DEF CloseRun, NoRun
<1>2. run \in SessionRunRecords /\ clients \subseteq Owner BY <1>1, SessionAlive
<1>3. /\ run' \in SessionRunRecords /\ run'.scope = run.scope
      /\ run'.step = "closed" /\ run'.paired = run.paired /\ run'.mode = run.mode
  BY <1>1, <1>2 DEF SessionRunRecords
<1>4. RunOK' BY <1>1, <1>3 DEF IInv, RunOK
<1>5. QED BY <1>1, <1>2, <1>3, <1>4, GoroutineKeeps DEF SessionRunRecords

LEMMA HandleConnectedStep == ASSUME IInv, HandleConnected, UNCHANGED botVars PROVE IInv'
<1>1. run.step = "loop" /\ ~run.paired /\ run # NoRun /\ UNCHANGED <<linked, clients, op, crashes>>
  BY DEF HandleConnected, NoRun
<1>2. run.mode = "pairing" BY <1>1, SessionAlive DEF IInv, RunOK, SessionRunRecords
<1>3. run \in SessionRunRecords /\ op.step # "launch" /\ op.step # "open" /\ "session" \in clients
  BY <1>1, <1>2, SessionAlive
<1>4. PICK scope \in Scopes : scope = run.scope BY <1>3 DEF SessionRunRecords
<1>5. CASE MarkSessionPaired(scope) /\ run' = [run EXCEPT !.step = "connected"] /\ UNCHANGED faults
  <2>1. run' \in SessionRunRecords /\ run' # NoRun /\ run'.scope = scope
        /\ run'.step = "connected" /\ run'.mode = "pairing" /\ ~run'.paired
    BY <1>1, <1>2, <1>3, <1>4, <1>5 DEF SessionRunRecords, NoRun
  <2>2. binding' = [state |-> "paired", active |-> scope, pending |-> None] BY <1>5, MarkedPaired
  <2>3. SessionType' BY <1>1, <1>5, <2>1, <2>2, SessionAlive DEF SessionType
  <2>4. RunOK' BY <2>1, <2>2 DEF RunOK
  <2>5. ReservedOK' BY <2>2 DEF ReservedOK
  <2>6. BindingOK' BY <1>5, MarkedPaired
  <2>7. QED BY <1>1, <1>3, <2>1, <2>3, <2>4, <2>5, <2>6, RunKeeps
<1>6. CASE run' = [run EXCEPT !.cancelled = TRUE] /\ UNCHANGED binding /\ Fault
  <2>1. run' \in SessionRunRecords /\ run' # NoRun /\ run'.step = run.step
        /\ run'.mode = run.mode /\ run'.scope = run.scope /\ run'.paired = run.paired
    BY <1>1, <1>6, CancelledRun
  <2>2. faults' \in 0..MaxFaults /\ faults' > 0 BY <1>6, FaultCounts
  <2>3. SessionType' BY <1>1, <1>6, <2>1, <2>2, SessionAlive DEF SessionType
  <2>4. RunOK' BY <1>1, <1>6, <2>1 DEF IInv, RunOK
  <2>5. ReservedOK' BY <2>2 DEF ReservedOK
  <2>6. BindingOK' BY <1>6 DEF IInv, BindingOK
  <2>7. QED BY <1>1, <1>3, <2>1, <2>3, <2>4, <2>5, <2>6, RunKeeps
<1>7. QED BY <1>4, <1>5, <1>6 DEF HandleConnected

LEMMA HandleLoggedOutStep == ASSUME IInv, HandleLoggedOut, UNCHANGED botVars PROVE IInv'
<1>1. run.step = "loop" /\ run.mode = "resume" /\ run.scope \notin linked /\ run # NoRun
      /\ UNCHANGED <<linked, clients, op, crashes>>
  BY DEF HandleLoggedOut, NoRun
<1>2. run \in SessionRunRecords /\ BindingOK /\ op.step # "open" /\ "session" \in clients
  BY <1>1, SessionAlive
<1>3. CASE MarkSessionRevoked(run.scope) /\ run' = [run EXCEPT !.step = "revoked"] /\ UNCHANGED faults
  <2>1. run' \in SessionRunRecords /\ run' # NoRun /\ run'.scope = run.scope
        /\ run'.step = "revoked" /\ run'.mode = "resume" /\ run'.paired = run.paired
    BY <1>1, <1>2, <1>3 DEF SessionRunRecords, NoRun
  <2>2. binding' = [binding EXCEPT !.state = "revoked"] /\ binding.active = run.scope
    BY <1>3 DEF MarkSessionRevoked
  <2>3. /\ binding' \in [state : {"unpaired", "paired", "revoked"}, active : Scopes \cup {None},
                         pending : Scopes \cup {None}]
        /\ binding'.active = binding.active /\ binding'.pending = binding.pending
    BY <1>1, <2>2, SessionAlive
  <2>4. SessionType' BY <1>1, <1>3, <2>1, <2>3, SessionAlive DEF SessionType
  <2>5. RunOK' BY <1>1, <1>3, <2>1 DEF IInv, RunOK
  <2>6. BindingOK' BY <1>2, <2>2, <2>3 DEF BindingOK, SessionRunRecords
  <2>7. ReservedOK' BY <1>1, <1>3, <2>3, SessionAlive DEF ReservedOK
  <2>8. op.step = "launch" => Startable(op.scope)' /\ ~Pairing'
    BY <1>1, <2>1, <2>2, <2>3, SessionAlive DEF Startable, Pairing
  <2>9. QED BY <1>1, <1>2, <2>1, <2>4, <2>5, <2>6, <2>7, <2>8, RunKeeps
<1>4. CASE run' = [run EXCEPT !.step = "ended", !.cancelled = TRUE] /\ UNCHANGED binding /\ Fault
  <2>1. run' \in SessionRunRecords /\ run' # NoRun /\ run'.step = "ended"
        /\ run'.mode = run.mode /\ run'.scope = run.scope /\ run'.paired = run.paired
    BY <1>1, <1>2, <1>4 DEF SessionRunRecords, NoRun
  <2>2. faults' \in 0..MaxFaults /\ faults' > 0 BY <1>4, FaultCounts
  <2>3. SessionType' BY <1>1, <1>4, <2>1, <2>2, SessionAlive DEF SessionType
  <2>4. RunOK' BY <1>1, <1>4, <2>1 DEF IInv, RunOK
  <2>5. ReservedOK' BY <2>2 DEF ReservedOK
  <2>6. BindingOK' BY <1>2, <1>4 DEF BindingOK
  <2>7. op.step = "launch" => Startable(op.scope)' /\ ~Pairing'
    BY <1>1, <1>4, <2>1, SessionAlive DEF Startable, Pairing
  <2>8. QED BY <1>1, <1>2, <2>1, <2>3, <2>4, <2>5, <2>6, <2>7, RunKeeps
<1>5. QED BY <1>3, <1>4 DEF HandleLoggedOut

LEMMA DetachStep == ASSUME IInv, Detach, UNCHANGED botVars PROVE IInv'
<1>1. run.step = "closed" /\ run # NoRun /\ run' = NoRun /\ UNCHANGED <<linked, clients, op, crashes>>
      /\ IF Pairing THEN AbortSessionPairing(run.scope) ELSE UNCHANGED <<binding, faults>>
  BY DEF Detach, NoRun
<1>2. "session" \notin clients BY <1>1, SessionAlive
<1>3. /\ BindingOK'
      /\ binding' \in [state : {"unpaired", "paired", "revoked"}, active : Scopes \cup {None},
                       pending : Scopes \cup {None}]
      /\ binding'.state = binding.state /\ binding'.active = binding.active
      /\ faults' \in 0..MaxFaults
      /\ binding'.pending = None \/ faults' > 0 \/ crashes > 0
  <2>1. CASE Pairing
    BY <1>1, <2>1, AbortedPairing, SessionAlive
  <2>2. CASE ~Pairing
    <3>1. UNCHANGED <<binding, faults>> BY <1>1, <2>2
    <3>2. BindingOK' BY <1>1, <3>1, SessionAlive DEF BindingOK
    <3>3. QED BY <1>1, <2>2, <3>1, <3>2, SessionAlive
  <2>3. QED BY <2>1, <2>2
<1>4. SessionType' BY <1>1, <1>3, SessionAlive DEF SessionType
<1>5. RunOK' BY <1>1 DEF RunOK
<1>6. ReservedOK'
  <2>1. crashes \in Nat /\ faults' \in Nat BY <1>1, <1>3, BoundsAreNatural, SessionAlive
  <2>2. QED BY <1>1, <1>3, <2>1 DEF ReservedOK
<1>7. op.step = "launch" => Startable(op.scope)' /\ ~Pairing'
  BY <1>1, <1>3, SessionAlive DEF Startable, Pairing
<1>8. QED BY <1>1, <1>2, <1>3, <1>4, <1>5, <1>6, <1>7, RunKeeps

LEMMA LinkStep == ASSUME IInv, Link, UNCHANGED botVars PROVE IInv'
<1>1. run.mode = "pairing" /\ run # NoRun /\ linked' = linked \cup {run.scope}
      /\ UNCHANGED <<binding, clients, run, op, faults, crashes>>
  BY DEF Link, NoRun
<1>2. op.step # "launch" /\ ("session" \in clients <=> run.step # "closed") BY <1>1, SessionAlive
<1>3. SessionType' BY <1>1, SessionAlive DEF SessionType, SessionRunRecords
<1>4. BindingOK' /\ RunOK' BY <1>1 DEF IInv, BindingOK, RunOK
<1>5. ReservedOK' BY <1>1 DEF IInv, ReservedOK
<1>6. QED BY <1>1, <1>2, <1>3, <1>4, <1>5, RunKeeps

\* A device the servers log out may be the bot's own.
LEMMA LoggedOutStep == ASSUME IInv, LoggedOut, UNCHANGED botVars PROVE IInv'
<1>1. linked' \subseteq linked /\ UNCHANGED <<binding, clients, run, op, faults, crashes>>
  BY DEF LoggedOut
<1>2. UNCHANGED <<bot, active, agent, action, saved, closed>> BY DEF botVars
<1>3. \A scope : Startable(scope) => Startable(scope)' BY <1>1 DEF Startable
<1>4. SessionType' /\ BotType' BY <1>1, <1>2 DEF IInv, SessionType, BotType
<1>5. BindingOK' /\ RunOK' BY <1>1 DEF IInv, BindingOK, RunOK
<1>6. OpOK' BY <1>1, <1>2, <1>3 DEF IInv, OpOK, Pairing
<1>7. BotOK' BY <1>1, <1>2, <1>3 DEF IInv, BotOK
<1>8. ClientsOK' /\ ReservedOK' BY <1>1, <1>2 DEF IInv, ClientsOK, ReservedOK
<1>9. QED BY <1>4, <1>5, <1>6, <1>7, <1>8 DEF IInv

-----------------------------------------------------------------------------
(* The bot and the process.                                                *)

LEMMA SaveSettingsStep == ASSUME IInv, SaveSettings PROVE IInv'
<1>1. saved < MaxRevision /\ saved' = saved + 1
      /\ UNCHANGED <<binding, linked, clients, run, op, faults, crashes>>
      /\ UNCHANGED <<bot, active, agent, action, closed>>
  BY DEF SaveSettings, sessionVars, session
<1>2. SessionType' BY <1>1 DEF IInv, SessionType
<1>3. BotType' BY <1>1, MaxRevisionAssumption DEF IInv, BotType
<1>4. BindingOK' /\ RunOK' /\ ReservedOK' BY <1>1 DEF IInv, BindingOK, RunOK, ReservedOK
<1>5. OpOK' BY <1>1 DEF IInv, OpOK, Startable, Pairing
<1>6. BotOK' /\ ClientsOK' BY <1>1 DEF IInv, BotOK, ClientsOK, Startable
<1>7. QED BY <1>2, <1>3, <1>4, <1>5, <1>6 DEF IInv

\* The bot may be started on a binding that is paired.
LEMMA BindingStartable ==
  ASSUME IInv, binding.state = "paired"
  PROVE  /\ Startable(binding.active)
         /\ [step |-> "launch", revision |-> saved, scope |-> binding.active] \in Launches
  BY DEF IInv, BindingOK, BotType, Startable, Launches

LEMMA StartAgentStep == ASSUME IInv, StartAgent PROVE IInv'
<1>1. /\ op = Idle /\ agent = NoAgent /\ ~Pairing
      /\ op' = [step |-> "launch", revision |-> saved, scope |-> binding.active]
      /\ run' = IF run = NoRun THEN run ELSE [run EXCEPT !.cancelled = TRUE]
      /\ UNCHANGED <<binding, linked, clients, faults, crashes, botVars>>
  BY DEF StartAgent, StopSessionFor, CancelRun
<1>2. op.step = "idle" BY <1>1, StepOps
<1>3. binding.state = "paired" BY DEF StartAgent
<1>4. /\ op' \in Operations /\ op'.step = "launch" /\ op'.scope = binding.active
      /\ Startable(op.scope)'
  BY <1>1, <1>3, BindingStartable DEF Operations, Startable
<1>5. BotType' /\ BotOK' BY <1>1, BotStaysAway
<1>6. /\ SessionType' /\ BindingOK' /\ RunOK' /\ ReservedOK' /\ ~Pairing'
      /\ "session" \in clients' <=> run' # NoRun /\ run'.step # "closed"
      /\ "logout" \notin clients'
  <2>1. CASE run = NoRun
    <3>1. run' = NoRun BY <1>1, <2>1
    <3>2. SessionType' BY <1>1, <1>4, <3>1 DEF IInv, SessionType
    <3>3. BindingOK' /\ RunOK' BY <1>1, <3>1 DEF IInv, BindingOK, RunOK
    <3>4. ReservedOK' BY <1>1, <1>2, <2>1, <3>1 DEF IInv, ReservedOK
    <3>5. "session" \notin clients /\ "logout" \notin clients BY <1>2, <2>1 DEF IInv, ClientsOK
    <3>6. QED BY <1>1, <3>1, <3>2, <3>3, <3>4, <3>5 DEF Pairing
  <2>2. CASE run # NoRun
    <3>1. run' = [run EXCEPT !.cancelled = TRUE] BY <1>1, <2>2
    <3>2. ~Pairing' BY <1>1, <2>2, <3>1, CancelledRun DEF Pairing
    <3>3. QED BY <1>1, <1>2, <1>4, <2>2, <3>1, <3>2, CancelledRunKeeps
  <2>3. QED BY <2>1, <2>2
<1>7. OpOK' BY <1>4, <1>6 DEF OpOK
<1>8. ClientsOK'
  <2>1. agent' = agent BY <1>1 DEF botVars
  <2>2. QED BY <1>1, <1>4, <1>6, <2>1 DEF IInv, ClientsOK
<1>9. QED BY <1>5, <1>6, <1>7, <1>8 DEF IInv

\* What is known of the operation and the bot.
LEMMA BotAlive ==
  ASSUME IInv
  PROVE  /\ op \in Operations /\ clients \subseteq Owner /\ faults \in 0..MaxFaults
         /\ faults \in {faults, faults + 1}
         /\ agent # NoAgent => agent \in Agents
         /\ op.step = "launch" => op \in Launches
         /\ op.step = "awaitStart" => op.revision \in 1..MaxRevision
         /\ op.step \in Stopping => op.then \in Nexts
  BY DEF IInv, SessionType, BotType, Operations, Launches, Simple

LEMMA LaunchAgentStep == ASSUME IInv, LaunchAgent PROVE IInv'
<1>1. /\ op.step = "launch" /\ run = NoRun /\ bot' = "starting" /\ active' = 0
      /\ agent' = [step |-> "created", revision |-> op.revision, scope |-> op.scope,
                   cancelled |-> FALSE]
      /\ op' = [op EXCEPT !.step = "awaitStart"]
      /\ UNCHANGED <<binding, linked, clients, run, faults, crashes>>
      /\ UNCHANGED <<action, saved, closed>>
  BY DEF LaunchAgent, SessionGone, session
<1>2. op \in Launches BY <1>1, BotAlive
<1>3. /\ op' \in Operations /\ op'.step = "awaitStart" /\ op'.revision = op.revision
      /\ agent' \in Agents /\ agent' # NoAgent
  BY <1>1, <1>2 DEF Operations, Launches, Agents, NoAgent
<1>4. BotType' BY <1>1, <1>3, MaxRevisionAssumption DEF IInv, BotType
<1>5. agent = NoAgent /\ Startable(op.scope) BY <1>1, NoBotBeside DEF IInv, OpOK
<1>6. action # "running" BY <1>5 DEF IInv, BotOK, NoAgent
<1>7. OpOK' BY <1>1, <1>3 DEF OpOK
<1>8. BotOK' BY <1>1, <1>3, <1>5, <1>6 DEF IInv, BotOK, Startable
<1>9. ClientsOK' BY <1>1, <1>3, <1>5 DEF IInv, ClientsOK, NoAgent
<1>10. QED BY <1>1, <1>3, <1>4, <1>7, <1>8, <1>9, BotAlive, BotKeeps

LEMMA AgentStartedStep == ASSUME IInv, AgentStarted PROVE IInv'
<1>1. /\ op.step = "awaitStart" /\ agent.step \notin {"created", "failed"} /\ op' = Idle
      /\ IF Runs THEN bot' = "running" /\ active' = op.revision ELSE UNCHANGED <<bot, active>>
      /\ UNCHANGED <<binding, linked, clients, run, faults, crashes>>
      /\ UNCHANGED <<agent, action, saved, closed>>
  BY DEF AgentStarted, session
<1>2. op'.step = "idle" /\ op' \in Operations BY <1>1, StepOps
<1>3. op.revision \in 1..MaxRevision BY <1>1, BotAlive
<1>4. BotType' BY <1>1, <1>3, MaxRevisionAssumption DEF IInv, BotType, Runs
<1>5. OpOK' BY <1>2 DEF OpOK
<1>6. BotOK'
  <2>1. CASE Runs
    <3>1. agent \in Agents /\ agent # NoAgent BY <2>1, BotAlive DEF Runs
    <3>2. run = NoRun /\ ~agent.cancelled /\ agent.revision = op.revision /\ Startable(agent.scope)
      BY <1>1, <3>1 DEF IInv, OpOK, BotOK
    <3>3. agent.step \in {"started", "ended", "closed"} BY <1>1, <3>1 DEF Agents
    <3>4. QED BY <1>1, <1>2, <1>3, <2>1, <3>1, <3>2, <3>3 DEF IInv, BotOK, Startable
  <2>2. CASE ~Runs BY <1>1, <1>2, <2>2 DEF IInv, BotOK, Startable
  <2>3. QED BY <2>1, <2>2
<1>7. ClientsOK' BY <1>1, <1>2 DEF IInv, ClientsOK
<1>8. QED BY <1>1, <1>2, <1>4, <1>5, <1>6, <1>7, BotAlive, BotKeeps

LEMMA AbortStartingStep == ASSUME IInv, AbortStarting PROVE IInv'
<1>1. /\ op.step = "awaitStart" /\ agent # NoAgent
      /\ agent' = [agent EXCEPT !.cancelled = TRUE] /\ op' = [step |-> "awaitEnd", then |-> Idle]
      /\ UNCHANGED <<binding, linked, clients, run, faults, crashes>>
      /\ UNCHANGED <<bot, active, action, saved, closed>>
  BY DEF AbortStarting, session
<1>2. agent \in Agents BY <1>1, BotAlive
<1>3. /\ agent' \in Agents /\ agent' # NoAgent /\ agent'.step = agent.step
      /\ agent'.scope = agent.scope /\ agent'.revision = agent.revision
  BY <1>1, <1>2 DEF Agents, NoAgent
<1>4. op' \in Operations /\ op'.step = "awaitEnd" /\ op'.then.step = "idle"
  BY <1>1, StepOps DEF Operations, Nexts
<1>5. BotType' BY <1>1, <1>3 DEF IInv, BotType
<1>6. run = NoRun /\ bot = "starting" BY <1>1 DEF IInv, OpOK
<1>7. OpOK' BY <1>1, <1>4, <1>6 DEF OpOK
<1>8. BotOK' BY <1>1, <1>3, <1>4, <1>6 DEF IInv, BotOK, Startable
<1>9. ClientsOK' BY <1>1, <1>3, <1>4 DEF IInv, ClientsOK
<1>10. QED BY <1>1, <1>4, <1>5, <1>7, <1>8, <1>9, BotAlive, BotKeeps

\* The run of the bot goes on, and keeps what it runs on.
LEMMA AgentGoesOn ==
  ASSUME IInv, agent # NoAgent, NEW step \in {"created", "started", "ended", "closed", "failed"},
         agent' = [agent EXCEPT !.step = step]
  PROVE  /\ agent \in Agents /\ agent' \in Agents /\ agent' # NoAgent /\ agent'.step = step
         /\ agent'.scope = agent.scope /\ agent'.revision = agent.revision
         /\ agent'.cancelled = agent.cancelled
         /\ run = NoRun /\ op.step \in {"idle", "exit", "awaitStart"} \cup Stopping
<1>1. agent \in Agents BY BotAlive
<1>2. run = NoRun /\ op.step \in {"idle", "exit", "awaitStart"} \cup Stopping BY DEF IInv, BotOK
<1>3. QED BY <1>1, <1>2 DEF Agents, NoAgent

LEMMA ComposeStep == ASSUME IInv, Compose PROVE IInv'
<1>1. /\ agent.step = "created" /\ agent # NoAgent
      /\ UNCHANGED <<binding, linked, run, op, crashes, bot, active, action, saved, closed>>
  BY DEF Compose, NoAgent
<1>2. faults' \in {faults, faults + 1} /\ faults' \in 0..MaxFaults
  BY FaultCounts, BotAlive DEF Compose
<1>3. bot # "running" /\ action # "running" BY <1>1 DEF IInv, BotOK
<1>4. PICK step \in {"started", "failed"} :
        /\ agent' = [agent EXCEPT !.step = step]
        /\ clients' = IF step = "started" THEN clients \cup {"agent"} ELSE clients
  BY DEF Compose
<1>5. /\ agent' \in Agents /\ agent' # NoAgent /\ agent'.step = step
      /\ agent'.scope = agent.scope /\ agent'.revision = agent.revision
      /\ agent'.cancelled = agent.cancelled
  BY <1>1, <1>4, AgentGoesOn
<1>6. BotType' BY <1>1, <1>5 DEF IInv, BotType
<1>7. OpOK' BY <1>1, <1>5 DEF IInv, OpOK, Startable, Pairing
<1>8. BotOK' BY <1>1, <1>3, <1>5 DEF IInv, BotOK, Startable
<1>9. ClientsOK' /\ clients' \subseteq Owner
  BY <1>1, <1>4, <1>5, BotAlive DEF IInv, ClientsOK, Owner
<1>10. QED BY <1>1, <1>2, <1>6, <1>7, <1>8, <1>9, BotAlive, BotKeeps

LEMMA RuntimeEndsStep == ASSUME IInv, RuntimeEnds PROVE IInv'
<1>1. /\ agent.step = "started" /\ agent # NoAgent /\ agent' = [agent EXCEPT !.step = "ended"]
      /\ UNCHANGED <<binding, linked, clients, run, op, faults, crashes>>
      /\ UNCHANGED <<bot, active, action, saved, closed>>
  BY DEF RuntimeEnds, NoAgent, sessionVars, session
<1>2. /\ agent' \in Agents /\ agent' # NoAgent /\ agent'.step = "ended"
      /\ agent'.scope = agent.scope /\ agent'.revision = agent.revision
      /\ agent'.cancelled = agent.cancelled
  BY <1>1, AgentGoesOn
<1>3. BotType' BY <1>1, <1>2 DEF IInv, BotType
<1>4. OpOK' BY <1>1, <1>2 DEF IInv, OpOK, Startable, Pairing
<1>5. BotOK' BY <1>1, <1>2 DEF IInv, BotOK, Startable
<1>6. ClientsOK' BY <1>1, <1>2 DEF IInv, ClientsOK
<1>7. QED BY <1>1, <1>3, <1>4, <1>5, <1>6, BotAlive, BotKeeps

\* An action that is running when the runtime closes is left without one.
LEMMA CloseRuntimeStep == ASSUME IInv, CloseRuntime PROVE IInv'
<1>1. /\ agent.step = "ended" /\ agent # NoAgent /\ agent' = [agent EXCEPT !.step = "closed"]
      /\ clients' = clients \ {"agent"}
      /\ action' = IF action # "running" THEN action
                    ELSE IF agent.cancelled THEN "overtaken" ELSE "orphaned"
      /\ UNCHANGED <<binding, linked, run, op, faults, crashes>>
      /\ UNCHANGED <<bot, active, saved, closed>>
  BY DEF CloseRuntime, NoAgent
<1>2. /\ agent' \in Agents /\ agent' # NoAgent /\ agent'.step = "closed"
      /\ agent'.scope = agent.scope /\ agent'.revision = agent.revision
      /\ agent'.cancelled = agent.cancelled
  BY <1>1, AgentGoesOn
<1>3. action' # "running" /\ (action' = "overtaken" => closed) BY <1>1 DEF IInv, BotOK
<1>4. BotType' BY <1>1, <1>2 DEF IInv, BotType
<1>5. OpOK' BY <1>1, <1>2 DEF IInv, OpOK, Startable, Pairing
<1>6. BotOK' BY <1>1, <1>2, <1>3 DEF IInv, BotOK, Startable
<1>7. ClientsOK' BY <1>1, <1>2 DEF IInv, ClientsOK
<1>8. QED BY <1>1, <1>4, <1>5, <1>6, <1>7, BotAlive, BotKeeps

LEMMA RunAgentEndsStep == ASSUME IInv, RunAgentEnds PROVE IInv'
<1>1. /\ agent.step \in {"closed", "failed"} /\ agent # NoAgent /\ agent' = NoAgent /\ active' = 0
      /\ bot' \in {"stopped", "failed"}
      /\ UNCHANGED <<binding, linked, clients, run, op, faults, crashes>>
      /\ UNCHANGED <<action, saved, closed>>
  BY DEF RunAgentEnds, NoAgent, sessionVars, session
<1>2. action # "running" BY <1>1 DEF IInv, BotOK
<1>3. agent'.step = "none" BY <1>1 DEF NoAgent
<1>4. BotType' BY <1>1, MaxRevisionAssumption DEF IInv, BotType
<1>5. OpOK' BY <1>1 DEF IInv, OpOK, Startable, Pairing
<1>6. BotOK' BY <1>1, <1>2 DEF IInv, BotOK
<1>7. ClientsOK' BY <1>1, <1>3 DEF IInv, ClientsOK
<1>8. QED BY <1>1, <1>4, <1>5, <1>6, <1>7, BotAlive, BotKeeps

\* The bot is told to stop, and the operation to go on once it has; at the end of
\* the process the run is cancelled with it.
LEMMA StopCurrentKeeps ==
  ASSUME IInv, NEW then \in Nexts, StopCurrent(then), op.step = "idle", closed' \in BOOLEAN,
         closed => closed', agent' = agent \/ (closed' /\ CancelRoot),
         UNCHANGED <<binding, linked, clients, run, faults, crashes, action, saved>>,
         then.step = "launch" => agent # NoAgent /\ Startable(then.scope)
  PROVE  IInv'
<1>1. active' = 0 /\ (active' \in 0..MaxRevision) BY MaxRevisionAssumption DEF StopCurrent, DetachRun
<1>2. CASE agent = NoAgent
  <2>1. op' = then /\ bot' \in {"stopped", "failed"} BY <1>2 DEF StopCurrent, DetachRun
  <2>2. op'.step \in {"idle", "closeSession"} /\ op' \in Operations
    BY <1>2, <2>1, StepOps DEF Nexts, Launches, Simple
  <2>3. action # "running" /\ (action = "overtaken" => closed) /\ agent' = agent
    BY <1>2 DEF IInv, BotOK, NoAgent, CancelRoot
  <2>4. BotType' BY <1>1, <1>2, <2>1, <2>3 DEF IInv, BotType
  <2>5. OpOK' BY <2>2 DEF OpOK
  <2>6. BotOK' BY <1>1, <1>2, <2>1, <2>3 DEF BotOK
  <2>7. ClientsOK' BY <2>2, <2>3 DEF IInv, ClientsOK
  <2>8. QED BY <2>2, <2>4, <2>5, <2>6, <2>7, BotAlive, BotKeeps
<1>3. CASE agent # NoAgent
  <2>1. op' = [step |-> "awaitActions", then |-> then] /\ bot' = "stopping"
    BY <1>3 DEF StopCurrent, DetachRun
  <2>2. op'.step = "awaitActions" /\ op'.then = then /\ op' \in Operations
    BY <2>1 DEF Operations
  <2>3. /\ agent' \in Agents /\ agent' # NoAgent /\ agent'.step = agent.step
        /\ agent'.scope = agent.scope /\ (agent'.cancelled => agent.cancelled \/ closed')
    BY <1>3, BotAlive DEF CancelRoot, Agents, NoAgent
  <2>4. BotType' BY <1>1, <1>3, <2>1, <2>3 DEF IInv, BotType
  <2>5. run = NoRun BY <1>3 DEF IInv, BotOK
  <2>6. OpOK' BY <2>1, <2>2, <2>5 DEF OpOK, Startable
  <2>7. BotOK' BY <1>1, <1>3, <2>1, <2>2, <2>3 DEF IInv, BotOK, Startable
  <2>8. ClientsOK' BY <2>2, <2>3 DEF IInv, ClientsOK
  <2>9. QED BY <2>2, <2>4, <2>6, <2>7, <2>8, BotAlive, BotKeeps
<1>4. QED BY <1>2, <1>3

LEMMA StopAgentStep == ASSUME IInv, StopAgent PROVE IInv'
<1>1. /\ op = Idle /\ StopCurrent(Idle)
      /\ UNCHANGED <<binding, linked, clients, run, faults, crashes, agent, action, saved, closed>>
  BY DEF StopAgent, session
<1>2. op.step = "idle" /\ Idle \in Nexts /\ Idle.step = "idle" BY <1>1, StepOps DEF Nexts
<1>3. closed \in BOOLEAN BY DEF IInv, BotType
<1>4. QED BY <1>1, <1>2, <1>3, StopCurrentKeeps

LEMMA CloseStep == ASSUME IInv, Close PROVE IInv'
<1>1. /\ op = Idle /\ StopCurrent(Step("closeSession")) /\ closed' = TRUE /\ CancelRoot
      /\ UNCHANGED <<binding, linked, clients, run, faults, crashes, action, saved>>
  BY DEF Close, session
<1>2. /\ op.step = "idle" /\ Step("closeSession") \in Nexts
      /\ Step("closeSession").step = "closeSession"
  BY <1>1, StepOps DEF Nexts, Simple
<1>3. QED BY <1>1, <1>2, StopCurrentKeeps

LEMMA ApplySettingsStep == ASSUME IInv, ApplySettings PROVE IInv'
<1>1. /\ op = Idle /\ agent # NoAgent /\ bot = "running"
      /\ UNCHANGED <<binding, linked, clients, run, faults, crashes, agent, action, saved, closed>>
  BY DEF ApplySettings, session
<1>2. agent \in Agents /\ Startable(agent.scope) BY <1>1, BotAlive DEF IInv, BotOK
<1>3. PICK launch : launch = [step |-> "launch", revision |-> saved, scope |-> binding.active]
  OBVIOUS
<1>4. launch \in Nexts /\ Startable(launch.scope) /\ launch.step = "launch"
  BY <1>2, <1>3 DEF IInv, BotType, Startable, Nexts, Launches, Agents
<1>5. PICK then \in {Idle, launch} : StopCurrent(then) BY <1>3 DEF ApplySettings
<1>6. op.step = "idle" /\ Idle \in Nexts /\ Idle.step = "idle" BY <1>1, StepOps DEF Nexts
<1>7. closed \in BOOLEAN BY DEF IInv, BotType
<1>8. QED BY <1>1, <1>4, <1>5, <1>6, <1>7, StopCurrentKeeps

LEMMA CancelAgentStep == ASSUME IInv, CancelAgent PROVE IInv'
<1>1. /\ op.step = "awaitActions" /\ action = "none" /\ op' = [op EXCEPT !.step = "awaitEnd"]
      /\ agent' = IF agent = NoAgent THEN agent ELSE [agent EXCEPT !.cancelled = TRUE]
      /\ UNCHANGED <<binding, linked, clients, run, faults, crashes>>
      /\ UNCHANGED <<bot, active, action, saved, closed>>
  BY DEF CancelAgent, ActionsReturned, session
<1>2. op \in [step : Stopping, then : Nexts]
  BY <1>1, BotAlive DEF Operations, Simple, Launches
<1>3. op' \in Operations /\ op'.step = "awaitEnd" /\ op'.then = op.then
  BY <1>1, <1>2 DEF Operations
<1>4. /\ run = NoRun /\ bot # "running"
      /\ op.then.step = "launch" => Startable(op.then.scope)
  BY <1>1 DEF IInv, OpOK
<1>5. /\ agent' = NoAgent <=> agent = NoAgent
      /\ agent' # NoAgent => /\ agent' \in Agents /\ agent'.step = agent.step
                             /\ agent'.scope = agent.scope
      /\ agent'.step = agent.step
  BY <1>1, BotAlive DEF Agents, NoAgent
<1>6. BotType' BY <1>1, <1>5 DEF IInv, BotType
<1>7. OpOK' BY <1>1, <1>3, <1>4 DEF OpOK, Startable
<1>8. BotOK' BY <1>1, <1>3, <1>4, <1>5 DEF IInv, BotOK, Startable
<1>9. ClientsOK' BY <1>1, <1>3, <1>5 DEF IInv, ClientsOK
<1>10. QED BY <1>1, <1>3, <1>6, <1>7, <1>8, <1>9, BotAlive, BotKeeps

LEMMA AgentEndedStep == ASSUME IInv, AgentEnded PROVE IInv'
<1>1. /\ op.step = "awaitEnd" /\ agent = NoAgent /\ op' = op.then
      /\ UNCHANGED <<binding, linked, clients, run, faults, crashes, botVars>>
  BY DEF AgentEnded, session
<1>2. op' \in Nexts BY <1>1, BotAlive
<1>3. op' \in Operations /\ op'.step \in {"idle", "closeSession", "launch"}
  BY <1>2, StepOps DEF Operations, Nexts, Launches, Simple
<1>4. run = NoRun /\ (op'.step = "launch" => Startable(op.then.scope)) BY <1>1 DEF IInv, OpOK
<1>5. OpOK' BY <1>1, <1>3, <1>4 DEF OpOK, Startable, Pairing
<1>6. BotType' /\ BotOK' BY <1>1, BotStaysAway
<1>7. agent' = agent BY <1>1 DEF botVars
<1>8. ClientsOK' BY <1>1, <1>3, <1>7 DEF IInv, ClientsOK
<1>9. QED BY <1>1, <1>3, <1>5, <1>6, <1>8, BotAlive, BotKeeps

LEMMA StopTimesOutStep == ASSUME IInv, StopTimesOut PROVE IInv'
<1>1. /\ op.step = "awaitEnd" /\ op' \in {Step("exit"), Idle}
      /\ UNCHANGED <<binding, linked, clients, run, faults, crashes>>
      /\ UNCHANGED <<bot, active, agent, action, saved, closed>>
  BY DEF StopTimesOut, session, botVars
<1>2. op' \in Operations /\ op'.step \in {"exit", "idle"} BY <1>1, StepOps DEF Simple
<1>3. BotType' BY <1>1 DEF IInv, BotType
<1>4. OpOK' BY <1>2 DEF OpOK
<1>5. BotOK' BY <1>1, <1>2 DEF IInv, BotOK, Startable
<1>6. ClientsOK' BY <1>1, <1>2 DEF IInv, ClientsOK
<1>7. QED BY <1>1, <1>2, <1>3, <1>4, <1>5, <1>6, BotAlive, BotKeeps

LEMMA ActionSteps == ASSUME IInv, StartAction \/ ActionReturns PROVE IInv'
<1>1. UNCHANGED <<binding, linked, clients, run, op, faults, crashes>>
      /\ UNCHANGED <<bot, active, agent, saved, closed>>
  BY DEF StartAction, ActionReturns, sessionVars, session
<1>2. /\ action' \in {"none", "running"}
      /\ action' = "running" => agent # NoAgent /\ bot = "running" /\ agent.step # "closed"
  BY DEF StartAction, ActionReturns
<1>3. BotType' BY <1>1, <1>2 DEF IInv, BotType
<1>4. OpOK' BY <1>1 DEF IInv, OpOK, Startable, Pairing
<1>5. BotOK' BY <1>1, <1>2 DEF IInv, BotOK, Startable
<1>6. ClientsOK' BY <1>1 DEF IInv, ClientsOK
<1>7. QED BY <1>1, <1>3, <1>4, <1>5, <1>6, BotAlive, BotKeeps

LEMMA CloseSessionStep == ASSUME IInv, CloseSession PROVE IInv'
<1>1. /\ op = Step("closeSession") /\ op' = Step("exit")
      /\ run' = IF run = NoRun THEN run ELSE [run EXCEPT !.cancelled = TRUE]
      /\ UNCHANGED <<binding, linked, clients, faults, crashes, botVars>>
  BY DEF CloseSession
<1>2. op.step = "closeSession" /\ op'.step = "exit" /\ op' \in Operations
  BY <1>1, StepOps DEF Simple
<1>3. agent = NoAgent /\ agent' = agent BY <1>1, <1>2, NoBotBeside DEF botVars
<1>4. BotType' /\ BotOK' BY <1>1, <1>3, BotStaysAway
<1>5. OpOK' BY <1>2 DEF OpOK
<1>6. CASE run = NoRun
  <2>1. ClientsOK' BY <1>1, <1>2, <1>3, <1>6 DEF IInv, ClientsOK
  <2>2. QED BY <1>1, <1>2, <1>4, <1>5, <1>6, <2>1, BotAlive, BotKeeps
<1>7. CASE run # NoRun
  <2>1. run' = [run EXCEPT !.cancelled = TRUE] BY <1>1, <1>7
  <2>2. /\ SessionType' /\ BindingOK' /\ RunOK' /\ ReservedOK' /\ run' # NoRun
        /\ "session" \in clients' <=> run'.step # "closed"
        /\ "logout" \notin clients'
    BY <1>1, <1>2, <1>7, <2>1, CancelledRunKeeps
  <2>3. ClientsOK' BY <1>1, <1>2, <1>3, <2>2 DEF IInv, ClientsOK
  <2>4. QED BY <1>4, <1>5, <2>2, <2>3 DEF IInv
<1>8. QED BY <1>6, <1>7

LEMMA EndProcessStep == ASSUME IInv, EndProcess, crashes < MaxCrashes PROVE IInv'
<1>1. /\ crashes' = crashes + 1 /\ clients' = {} /\ run' = NoRun /\ op' = Idle
      /\ bot' = "stopped" /\ active' = 0 /\ agent' = NoAgent /\ action' = "none"
      /\ closed' = FALSE /\ UNCHANGED <<binding, linked, faults, saved>>
  BY DEF EndProcess
<1>2. op' \in Operations /\ op'.step = "idle" BY <1>1, StepOps
<1>3. crashes' \in 1..MaxCrashes BY <1>1, BoundsAreNatural DEF IInv, SessionType
<1>4. SessionType' BY <1>1, <1>2, <1>3 DEF IInv, SessionType
<1>5. BotType'
  <2>1. closed' \in BOOLEAN BY <1>1
  <2>2. QED BY <1>1, <2>1, MaxRevisionAssumption DEF IInv, BotType
<1>6. BindingOK' /\ RunOK' BY <1>1 DEF IInv, BindingOK, RunOK
<1>7. OpOK' BY <1>2 DEF OpOK
<1>8. BotOK' BY <1>1 DEF BotOK
<1>9. ClientsOK' BY <1>1, <1>2 DEF ClientsOK, NoAgent
<1>10. ReservedOK' BY <1>3 DEF ReservedOK
<1>11. QED BY <1>4, <1>5, <1>6, <1>7, <1>8, <1>9, <1>10 DEF IInv

-----------------------------------------------------------------------------
(* The invariant holds, and what follows from it.                          *)

LEMMA InitOK == Init => IInv
<1> SUFFICES ASSUME Init PROVE IInv OBVIOUS
<1>1. /\ binding = [state |-> "unpaired", active |-> None, pending |-> None]
      /\ linked = {} /\ clients = {} /\ run = NoRun /\ op = Idle /\ faults = 0 /\ crashes = 0
      /\ bot = "stopped" /\ active = 0 /\ agent = NoAgent /\ action = "none"
      /\ saved = 1 /\ closed = FALSE
  BY DEF Init, SessionInit
<1>2. op \in Operations /\ op.step = "idle" BY <1>1, StepOps
<1>3. SessionType BY <1>1, <1>2, BoundsAreNatural DEF SessionType
<1>4. BotType
  <2>1. closed \in BOOLEAN BY <1>1
  <2>2. QED BY <1>1, <2>1, MaxRevisionAssumption DEF BotType
<1>5. BindingOK /\ RunOK /\ ReservedOK BY <1>1 DEF BindingOK, RunOK, ReservedOK
<1>6. OpOK BY <1>2 DEF OpOK
<1>7. BotOK BY <1>1 DEF BotOK
<1>8. ClientsOK BY <1>1, <1>2 DEF ClientsOK, NoAgent
<1>9. QED BY <1>3, <1>4, <1>5, <1>6, <1>7, <1>8 DEF IInv

LEMMA SessionStepKeeps == ASSUME IInv, SessionStep, UNCHANGED botVars PROVE IInv'
<1>1. CASE OperationSteps
  BY <1>1, RecoverPairingStep, ReservePairingStep, OpenPairingStep, SessionStoppedStep,
     PairingCancelledStep, LogoutAnsweredStep, LogoutRevokesStep DEF OperationSteps
<1>2. CASE RunSteps
  BY <1>2, RecordConnectedStep, RecordRevokedStep, CloseRunStep, DetachStep DEF RunSteps
<1>3. CASE RunEnds BY <1>3, RunEndsStep
<1>4. CASE HandleEvents BY <1>4, HandleConnectedStep, HandleLoggedOutStep DEF HandleEvents
<1>5. CASE External BY <1>5, LinkStep, LoggedOutStep DEF External
<1>6. QED BY <1>1, <1>2, <1>3, <1>4, <1>5 DEF SessionStep

LEMMA SessionOperationKeeps == ASSUME IInv, WithSessionControl(SessionOperation) PROVE IInv'
<1>1. CASE BeginPairing BY <1>1, BeginPairingStep DEF WithSessionControl
<1>2. CASE Resume BY <1>2, ResumeStep DEF WithSessionControl
<1>3. CASE StopSession BY <1>3, StopSessionStep DEF WithSessionControl
<1>4. CASE CancelPairing BY <1>4, CancelPairingStep DEF WithSessionControl
<1>5. CASE Logout BY <1>5, LogoutStep DEF WithSessionControl
<1>6. QED BY <1>1, <1>2, <1>3, <1>4, <1>5 DEF WithSessionControl, SessionOperation

LEMMA StutterKeeps == ASSUME IInv, UNCHANGED vars PROVE IInv'
<1>1. UNCHANGED <<binding, linked, clients, run, op, faults, crashes>>
      /\ UNCHANGED <<bot, active, agent, action, saved, closed>>
  BY DEF vars, sessionVars, session, botVars
<1>2. SessionType' /\ BotType' BY <1>1 DEF IInv, SessionType, BotType
<1>3. BindingOK' /\ RunOK' /\ ReservedOK' BY <1>1 DEF IInv, BindingOK, RunOK, ReservedOK
<1>4. OpOK' BY <1>1 DEF IInv, OpOK, Startable, Pairing
<1>5. BotOK' /\ ClientsOK' BY <1>1 DEF IInv, BotOK, ClientsOK, Startable
<1>6. QED BY <1>2, <1>3, <1>4, <1>5 DEF IInv

LEMMA NextKeeps == IInv /\ [Next]_vars => IInv'
<1> SUFFICES ASSUME IInv, [Next]_vars PROVE IInv' OBVIOUS
<1>1. CASE WithSessionControl(SessionOperation) BY <1>1, SessionOperationKeeps
<1>2. CASE SessionRuns BY <1>2, SessionStepKeeps DEF SessionRuns
<1>3. CASE SaveSettings BY <1>3, SaveSettingsStep
<1>4. CASE StartAgent \/ StopAgent \/ ApplySettings \/ AbortStarting \/ StopTimesOut
  BY <1>4, StartAgentStep, StopAgentStep, ApplySettingsStep, AbortStartingStep, StopTimesOutStep
<1>5. CASE WaitSteps
  <2>1. CASE Exit BY <2>1, EndProcessStep DEF Exit
  <2>2. QED
    BY <1>5, <2>1, LaunchAgentStep, AgentStartedStep, CancelAgentStep, AgentEndedStep,
       CloseSessionStep DEF WaitSteps
<1>6. CASE AgentSteps \/ RuntimeEnds
  BY <1>6, RunAgentEndsStep, CloseRuntimeStep, ComposeStep, RuntimeEndsStep DEF AgentSteps
<1>7. CASE StartAction \/ ActionReturns BY <1>7, ActionSteps
<1>8. CASE Close BY <1>8, CloseStep
<1>9. CASE Crash BY <1>9, EndProcessStep DEF Crash
<1>10. CASE UNCHANGED vars BY <1>10, StutterKeeps
<1>11. QED BY <1>1, <1>2, <1>3, <1>4, <1>5, <1>6, <1>7, <1>8, <1>9, <1>10 DEF Next

\* The bot, the session and the operation under way agree on who is at work, on
\* which scope, and with which client open.
THEOREM InvariantHolds == Spec => []IInv
<1>1. Init => IInv BY InitOK
<1>2. IInv /\ [Next]_vars => IInv' BY NextKeeps
<1>3. QED BY <1>1, <1>2, PTL DEF Spec

LEMMA BindingsSound == IInv => BindingsAreSound
<1> SUFFICES ASSUME IInv PROVE BindingsAreSound OBVIOUS
<1>1. TypeOK BY TypeParts DEF IInv, SessionType
<1>2. StatusIsTrue
  <2>1. (active # 0) = (bot = "running") BY DEF IInv, BotOK
  <2>2. bot = "running" => agent # NoAgent /\ agent.revision = active BY DEF IInv, BotOK
  <2>3. agent # NoAgent => /\ binding.active = agent.scope
                           /\ binding.state = "paired" \/ agent.scope \notin linked
    BY DEF IInv, BotOK, Startable
  <2>4. run # NoRun /\ run.step # "revoked" /\ run.paired =>
          binding.state = "paired" /\ binding.active = run.scope
    BY DEF IInv, RunOK
  <2>5. QED BY <2>1, <2>2, <2>3, <2>4 DEF StatusIsTrue
<1>3. ReservationIsOwned
  <2>1. op = Idle => op.step # "open" BY StepOps
  <2>2. faults \in Nat /\ crashes \in Nat BY BoundsAreNatural DEF IInv, SessionType
  <2>3. QED BY <2>1, <2>2 DEF IInv, ReservedOK, ReservationIsOwned
<1>4. QED BY <1>1, <1>2, <1>3 DEF BindingsAreSound

\* What is shown of the bot and the session is so at every moment: the revision
\* that is active, the scope that is in force, and who a reservation is for.
THEOREM StatusCanBeTrusted == Spec => []BindingsAreSound
BY InvariantHolds, BindingsSound, PTL

LEMMA OneOwner == IInv => OneDeviceOwner
<1> SUFFICES ASSUME IInv PROVE OneDeviceOwner OBVIOUS
<1>1. "agent" \in clients => "session" \notin clients /\ "logout" \notin clients
  BY DEF IInv, BotOK, ClientsOK, NoAgent
<1>2. "logout" \in clients => "session" \notin clients BY DEF IInv, OpOK, ClientsOK
<1>3. clients \subseteq {"session", "logout", "agent"} BY BotAlive DEF Owner
<1>4. clients = {} \/ \E owner \in Owner : clients = {owner} BY <1>1, <1>2, <1>3 DEF Owner
<1>5. Cardinality(clients) \in {0, 1} BY <1>4, FS_EmptySet, FS_Singleton
<1>6. QED BY <1>5 DEF OneDeviceOwner

LEMMA ActionsWaitedFor == IInv => StopWaitsForActions
BY DEF IInv, BotOK, StopWaitsForActions

LEMMA RuntimesHaveUsers == IInv => RuntimesAreOwned
BY OneOwner, ActionsWaitedFor DEF RuntimesAreOwned

\* The session, a logout and the bot never have the device store open at once,
\* whatever was stopped, aborted or left to end by itself, and a runtime is
\* cancelled under a chat action only by the end of the process.
THEOREM OneUserAtATime == Spec => []RuntimesAreOwned
BY InvariantHolds, RuntimesHaveUsers, PTL

-----------------------------------------------------------------------------
(* The account while it runs: Connection.                                   *)

\* What an event about the group says it is now.
Tells(event) == IF event.kind = "joined" THEN event.version ELSE event.to
Ended(event) == event.kind \in {"disconnected", "permanent"}

\* The last event under way, when it is about the group, tells how it is.
WireLeads ==
  wire # <<>> /\ wire[Len(wire)].kind \in {"joined", "changed"} =>
    link /\ Tells(wire[Len(wire)]) = truth

\* With every event handled the group in memory, when it may be used, is the
\* servers'.
MemoryIsCurrent == ~fatal /\ groupsReady /\ wire = <<>> => groups = truth

\* A refresh that nothing overtook has read the group as it is.
SyncIsCurrent ==
  ~fatal /\ sync.step = "read" /\ current /\ wire = <<>> => sync.version = truth

\* The end of a connection is under way until what was known of the group is
\* given up.
EndIsTold ==
  ~fatal /\ ~link /\ (groupsReady \/ (sync.step = "read" /\ current)) =>
    \E i \in 1..Len(wire) : Ended(wire[i])

Fresh == WireLeads /\ MemoryIsCurrent /\ MemoryMatchesStore /\ SyncIsCurrent /\ EndIsTold

\* The types, of the flags and of the rest.
FlagsOK == {link, ready, fatal, groupsReady, current, syncWanted, opened, recovered, missed} \subseteq BOOLEAN
WireOK == wire \in Seq(Events) /\ handling \in {"ready", "clear"}
GroupsOK ==
  /\ {truth, last} \subseteq Versions /\ {groups, stored} \subseteq Versions \cup {Mangled}
  /\ \/ sync = IdleSync \/ sync \in [step : {"retry", "reading"}]
     \/ sync \in [step : {"read"}, version : Versions]
AccountOK ==
  /\ start \in {"new", "waiting", "checking", "storing", "done", "running", "failed"}
  /\ check \in [observed : BOOLEAN, value : BOOLEAN]
  /\ signals \in Seq(BOOLEAN) /\ Len(signals) <= SignalCapacity
  /\ state \in {"stopped", "connecting", "open", "reconnecting", "failed"}
  /\ flaps \in 0..MaxFlaps /\ failures \in 0..MaxFailures

AccountInv == FlagsOK /\ WireOK /\ GroupsOK /\ AccountOK /\ Fresh

LEMMA AccountTypes == AccountTypeOK <=> FlagsOK /\ WireOK /\ GroupsOK /\ AccountOK
  BY DEF AccountTypeOK, FlagsOK, WireOK, GroupsOK, AccountOK

LEMMA Bounds ==
  SignalCapacity \in Nat /\ MaxFlaps \in Nat /\ MaxVersion \in Nat /\ MaxFailures \in Nat
  BY BoundsArePositive

LEMMA FailuresCount == ASSUME AccountOK, Failure PROVE failures' \in 0..MaxFailures
  BY Bounds DEF AccountOK, Failure

LEMMA SyncKinds ==
  ASSUME GroupsOK
  PROVE  /\ sync.step \in {"idle", "retry", "reading", "read"}
         /\ sync.step = "read" => sync \in [step : {"read"}, version : Versions]
  BY DEF GroupsOK, IdleSync

LEMMA EventKinds ==
  ASSUME NEW e \in Events
  PROVE  /\ e.kind \in {"connected", "disconnected", "permanent", "joined", "changed"}
         /\ e.kind = "joined" => e \in [kind : {"joined"}, version : Versions]
         /\ e.kind = "changed" => e \in [kind : {"changed"}, from : Versions, to : Versions]
  BY DEF Events, Connected, Disconnected, Permanent

-----------------------------------------------------------------------------
\* Who touches neither the events nor the groups keeps them fresh.
LEMMA ApartKeeps ==
  ASSUME Fresh, UNCHANGED <<link, truth, wire, fatal, groups, stored, groupsReady>>,
         UNCHANGED <<current, sync>>
  PROVE  Fresh'
<1>1. WireLeads' BY DEF Fresh, WireLeads, Tells
<1>2. MemoryIsCurrent' /\ MemoryMatchesStore' BY DEF Fresh, MemoryIsCurrent, MemoryMatchesStore
<1>3. SyncIsCurrent' /\ EndIsTold' BY DEF Fresh, SyncIsCurrent, EndIsTold, Ended
<1>4. QED BY <1>1, <1>2, <1>3 DEF Fresh

LEMMA WireKeeps ==
  ASSUME WireOK, NEW e \in Events, wire' = Append(wire, e)
  PROVE  /\ wire' \in Seq(Events) /\ wire' # <<>> /\ wire'[Len(wire')] = e
         /\ Len(wire') = Len(wire) + 1 /\ Len(wire) \in Nat
         /\ \A i \in 1..Len(wire) : wire'[i] = wire[i]
  BY DEF WireOK

LEMMA ConnectStep == ASSUME AccountInv, Connect PROVE AccountInv'
<1>1. /\ link' = TRUE /\ wire' = Append(wire, Connected) /\ flaps < MaxFlaps /\ flaps' = flaps + 1
      /\ UNCHANGED <<truth, last, handling, start, check, ready, signals, fatal, groups, stored>>
      /\ UNCHANGED <<groupsReady, current, syncWanted, sync, state, opened, recovered, failures, missed>>
  BY DEF Connect, Deliver, starting, cache, syncing, account
<1>2. Connected \in Events BY DEF Events
<1>3. FlagsOK' BY <1>1 DEF AccountInv, FlagsOK
<1>4. AccountOK' BY <1>1, Bounds DEF AccountInv, AccountOK
<1>5. WireOK' /\ wire' # <<>> /\ wire'[Len(wire')] = Connected BY <1>1, <1>2, WireKeeps DEF AccountInv, WireOK
<1>6. GroupsOK' BY <1>1 DEF AccountInv, GroupsOK
<1>7. Fresh'
  BY <1>1, <1>5 DEF AccountInv, Fresh, WireLeads, MemoryIsCurrent, MemoryMatchesStore, SyncIsCurrent,
                    EndIsTold, Connected
<1>8. QED BY <1>3, <1>4, <1>5, <1>6, <1>7 DEF AccountInv

LEMMA DisconnectStep == ASSUME AccountInv, Disconnect PROVE AccountInv'
<1>1. /\ link' = FALSE
      /\ UNCHANGED <<truth, last, flaps, handling, start, check, ready, signals, fatal, groups, stored>>
      /\ UNCHANGED <<groupsReady, current, syncWanted, sync, state, opened, recovered, failures, missed>>
  BY DEF Disconnect, Deliver, starting, cache, syncing, account
<1>2. PICK event \in {Disconnected, Permanent} : wire' = Append(wire, event)
  BY DEF Disconnect, Deliver
<1>3. event \in Events /\ Ended(event) BY DEF Events, Ended, Disconnected, Permanent
<1>4. FlagsOK' BY <1>1 DEF AccountInv, FlagsOK
<1>5. AccountOK' BY <1>1 DEF AccountInv, AccountOK
<1>6. WireOK' /\ wire' # <<>> /\ wire'[Len(wire')] = event /\ Len(wire') \in 1..Len(wire')
  BY <1>1, <1>2, <1>3, WireKeeps DEF AccountInv, WireOK
<1>7. GroupsOK' BY <1>1 DEF AccountInv, GroupsOK
<1>8. WireLeads' BY <1>3, <1>6 DEF WireLeads, Ended
<1>9. EndIsTold' BY <1>3, <1>6 DEF EndIsTold
<1>10. Fresh'
  BY <1>1, <1>6, <1>8, <1>9 DEF AccountInv, Fresh, MemoryIsCurrent, MemoryMatchesStore, SyncIsCurrent
<1>11. QED BY <1>4, <1>5, <1>6, <1>7, <1>10 DEF AccountInv

\* Who is not connected is told nothing, and knows nothing by then.
LEMMA GroupChangesStep == ASSUME AccountInv, GroupChanges PROVE AccountInv'
<1>1. /\ UNCHANGED <<link, flaps, handling, start, check, ready, signals, fatal, groups, stored>>
      /\ UNCHANGED <<groupsReady, current, syncWanted, sync, state, opened, recovered, failures, missed>>
  BY DEF GroupChanges, starting, cache, syncing, account
<1>2. PICK next \in {0, last + 1} :
        /\ truth' = next /\ last' = last + 1 /\ last < MaxVersion
        /\ wire' = IF ~link THEN wire
                   ELSE Append(wire, IF truth = 0 THEN [kind |-> "joined", version |-> next]
                                     ELSE [kind |-> "changed", from |-> truth, to |-> next])
  BY DEF GroupChanges
<1>3. next \in Versions /\ last' \in Versions /\ truth \in Versions
  BY <1>2, Bounds DEF AccountInv, GroupsOK, Versions
<1>4. FlagsOK' BY <1>1 DEF AccountInv, FlagsOK
<1>5. AccountOK' BY <1>1 DEF AccountInv, AccountOK
<1>6. GroupsOK' BY <1>1, <1>2, <1>3 DEF AccountInv, GroupsOK
<1>7. MemoryMatchesStore' BY <1>1 DEF AccountInv, Fresh, MemoryMatchesStore
<1>8. CASE link
  <2>1. PICK event : event = IF truth = 0 THEN [kind |-> "joined", version |-> next]
                             ELSE [kind |-> "changed", from |-> truth, to |-> next]
    OBVIOUS
  <2>2. event \in Events /\ event.kind \in {"joined", "changed"} /\ Tells(event) = next
    BY <1>3, <2>1 DEF Events, Tells
  <2>3. wire' = Append(wire, event) BY <1>2, <1>8, <2>1
  <2>4. WireOK' /\ wire' # <<>> /\ wire'[Len(wire')] = event
    BY <1>1, <2>2, <2>3, WireKeeps DEF AccountInv, WireOK
  <2>5. WireLeads' BY <1>1, <1>2, <1>8, <2>2, <2>4 DEF WireLeads
  <2>6. MemoryIsCurrent' /\ SyncIsCurrent' /\ EndIsTold'
    BY <1>1, <1>8, <2>4 DEF MemoryIsCurrent, SyncIsCurrent, EndIsTold
  <2>7. QED BY <1>4, <1>5, <1>6, <1>7, <2>4, <2>5, <2>6 DEF AccountInv, Fresh
<1>9. CASE ~link
  <2>1. wire' = wire BY <1>2, <1>9
  <2>2. WireOK' BY <1>1, <2>1 DEF AccountInv, WireOK
  <2>3. WireLeads' BY <1>9, <2>1 DEF AccountInv, Fresh, WireLeads
  <2>4. EndIsTold' BY <1>1, <1>9, <2>1 DEF AccountInv, Fresh, EndIsTold
  <2>5. ~fatal /\ (groupsReady \/ (sync.step = "read" /\ current)) => wire # <<>>
    BY <1>9 DEF AccountInv, Fresh, EndIsTold
  <2>6. MemoryIsCurrent' /\ SyncIsCurrent' BY <1>1, <2>1, <2>5 DEF MemoryIsCurrent, SyncIsCurrent
  <2>7. QED BY <1>4, <1>5, <1>6, <1>7, <2>2, <2>3, <2>4, <2>6 DEF AccountInv, Fresh
<1>10. QED BY <1>8, <1>9

-----------------------------------------------------------------------------
(* handleEvent.                                                            *)

LEMMA TailKeeps ==
  ASSUME WireOK, wire # <<>>, wire' = Tail(wire)
  PROVE  /\ wire' \in Seq(Events) /\ Len(wire) \in Nat /\ Len(wire') = Len(wire) - 1
         /\ \A i \in 1..Len(wire') : wire'[i] = wire[i + 1]
         /\ wire' # <<>> => wire'[Len(wire')] = wire[Len(wire)]
         /\ wire' = <<>> => wire[Len(wire)] = Head(wire)
         /\ Head(wire) = wire[1] /\ Head(wire) \in Events
<1>1. wire \in Seq(Events) /\ Len(wire) \in Nat \ {0} BY DEF WireOK
<1>2. /\ wire' \in Seq(Events) /\ Len(wire') = Len(wire) - 1
      /\ Head(wire) = wire[1] /\ Head(wire) \in Events
  BY <1>1
<1>3. ASSUME NEW i \in 1..Len(wire') PROVE wire'[i] = wire[i + 1] BY <1>1, <1>2
<1>4. wire' # <<>> => wire'[Len(wire')] = wire[Len(wire)]
  <2>1. wire' # <<>> => Len(wire') \in 1..Len(wire') BY <1>1, <1>2
  <2>2. Len(wire') + 1 = Len(wire) BY <1>1, <1>2
  <2>3. QED BY <1>3, <2>1, <2>2
<1>5. wire' = <<>> => wire[Len(wire)] = Head(wire)
  <2>1. wire' = <<>> => Len(wire) = 1
    <3>1. wire' = <<>> => Len(wire') = 0 OBVIOUS
    <3>2. QED BY <1>1, <1>2, <3>1
  <2>2. QED BY <1>2, <2>1
<1>6. QED BY <1>1, <1>2, <1>3, <1>4, <1>5

LEMMA SetReadyStep == ASSUME AccountInv, SetReady PROVE AccountInv'
<1>1. /\ handling' = "clear" /\ ready' = (Next1 = "connected") /\ missed' = (missed \/ start = "storing")
      /\ UNCHANGED <<link, truth, last, flaps, wire, start, check, signals, fatal, groups, stored>>
      /\ UNCHANGED <<groupsReady, current, syncWanted, sync, state, opened, recovered, failures>>
  BY DEF SetReady, link_, starting, cache, syncing, account
<1>2. ready' \in BOOLEAN /\ missed' \in BOOLEAN BY <1>1
<1>3. FlagsOK' BY <1>1, <1>2 DEF AccountInv, FlagsOK
<1>4. WireOK' /\ GroupsOK' BY <1>1 DEF AccountInv, WireOK, GroupsOK
<1>5. AccountOK' BY <1>1 DEF AccountInv, AccountOK
<1>6. Fresh' BY <1>1, ApartKeeps DEF AccountInv
<1>7. QED BY <1>3, <1>4, <1>5, <1>6 DEF AccountInv

LEMMA ClearGroupCacheKeeps ==
  ASSUME AccountInv, ClearGroupCache
  PROVE  groups' = 0 /\ ~groupsReady' /\ ~current' /\ groupsReady' \in BOOLEAN /\ current' \in BOOLEAN
         /\ stored' \in {stored, 0} /\ failures' \in 0..MaxFailures
  BY FailuresCount DEF ClearGroupCache, AccountInv, AccountOK

\* An event about the connection ends what was known of the group.
LEMMA ClearedKeeps ==
  ASSUME AccountInv, wire # <<>>, wire' = Tail(wire), ~groupsReady', ~current',
         Head(wire).kind \in {"connected", "disconnected", "permanent"},
         UNCHANGED <<link, truth, sync>>
  PROVE  Fresh'
<1>1. WireLeads' BY TailKeeps DEF AccountInv, Fresh, WireLeads
<1>2. QED BY <1>1 DEF Fresh, MemoryIsCurrent, MemoryMatchesStore, SyncIsCurrent, EndIsTold

LEMMA HandleConnectionStep == ASSUME AccountInv, HandleConnection PROVE AccountInv'
<1>1. /\ wire # <<>> /\ Head(wire).kind \in {"connected", "disconnected"}
      /\ wire' = Tail(wire) /\ handling' = "ready"
      /\ UNCHANGED <<link, truth, last, flaps, start, check, ready, fatal, sync, state, opened, recovered>>
      /\ syncWanted' = (syncWanted \/ (Next1 = "connected" /\ ~fatal))
  BY DEF HandleConnection, Handling, Handled, Next1, link_, starting, account
<1>2. /\ groups' = 0 /\ ~groupsReady' /\ ~current' /\ groupsReady' \in BOOLEAN /\ current' \in BOOLEAN
      /\ stored' \in {stored, 0} /\ failures' \in 0..MaxFailures
  BY ClearGroupCacheKeeps DEF HandleConnection
<1>3. /\ signals' \in Seq(BOOLEAN) /\ Len(signals') <= SignalCapacity /\ missed' \in BOOLEAN
  <2>1. PICK up \in BOOLEAN : EmitConnection(up) BY DEF HandleConnection
  <2>2. signals \in Seq(BOOLEAN) /\ Len(signals) <= SignalCapacity /\ missed \in BOOLEAN
    BY DEF AccountInv, AccountOK, FlagsOK
  <2>3. CASE Len(signals) < SignalCapacity
    <3>1. signals' = Append(signals, up) /\ missed' = missed BY <2>1, <2>3 DEF EmitConnection
    <3>2. Append(signals, up) \in Seq(BOOLEAN) /\ Len(Append(signals, up)) = Len(signals) + 1
      BY <2>2
    <3>3. Len(signals') <= SignalCapacity BY <2>2, <2>3, <3>1, <3>2, Bounds
    <3>4. QED BY <2>2, <3>1, <3>2, <3>3
  <2>4. CASE ~(Len(signals) < SignalCapacity)
    <3>1. signals' = signals /\ missed' = TRUE BY <2>1, <2>4 DEF EmitConnection
    <3>2. QED BY <2>2, <3>1
  <2>5. QED BY <2>3, <2>4
<1>4. syncWanted' \in BOOLEAN BY <1>1
<1>5. FlagsOK' BY <1>1, <1>2, <1>3, <1>4 DEF AccountInv, FlagsOK
<1>6. WireOK' BY <1>1, TailKeeps DEF AccountInv, WireOK
<1>7. GroupsOK' BY <1>1, <1>2, Bounds DEF AccountInv, GroupsOK, Versions
<1>8. AccountOK' BY <1>1, <1>2, <1>3 DEF AccountInv, AccountOK
<1>9. Fresh' BY <1>1, <1>2, ClearedKeeps
<1>10. QED BY <1>5, <1>6, <1>7, <1>8, <1>9 DEF AccountInv

LEMMA HandlePermanentStep == ASSUME AccountInv, HandlePermanent PROVE AccountInv'
<1>1. /\ wire # <<>> /\ Head(wire).kind = "permanent"
      /\ wire' = Tail(wire) /\ handling' = "ready" /\ fatal' = TRUE
      /\ UNCHANGED <<link, truth, last, flaps, start, check, ready, signals, syncWanted, sync>>
      /\ UNCHANGED <<state, opened, recovered, missed>>
  BY DEF HandlePermanent, Handling, Handled, Next1, link_, starting, account, syncing
<1>2. /\ groups' = 0 /\ ~groupsReady' /\ ~current' /\ groupsReady' \in BOOLEAN /\ current' \in BOOLEAN
      /\ stored' \in {stored, 0} /\ failures' \in 0..MaxFailures
  BY ClearGroupCacheKeeps DEF HandlePermanent
<1>3. FlagsOK' BY <1>1, <1>2 DEF AccountInv, FlagsOK
<1>4. WireOK' BY <1>1, TailKeeps DEF AccountInv, WireOK
<1>5. GroupsOK' BY <1>1, <1>2, Bounds DEF AccountInv, GroupsOK, Versions
<1>6. AccountOK' BY <1>1, <1>2 DEF AccountInv, AccountOK
<1>7. Fresh' BY <1>1, <1>2, ClearedKeeps
<1>8. QED BY <1>3, <1>4, <1>5, <1>6, <1>7 DEF AccountInv

\* The group in memory is what the event says, or may no longer be used.
LEMMA ToldKeeps ==
  ASSUME AccountInv, wire # <<>>, wire' = Tail(wire), Head(wire).kind \in {"joined", "changed"}, ~current',
         UNCHANGED <<link, truth, fatal, sync>>,
         groupsReady' => groupsReady /\ groups' = Tells(Head(wire)) /\ stored' = groups'
  PROVE  Fresh'
<1>1. WireLeads' BY TailKeeps DEF AccountInv, Fresh, WireLeads
<1>2. MemoryMatchesStore' BY DEF MemoryMatchesStore
<1>3. MemoryIsCurrent' BY TailKeeps DEF AccountInv, Fresh, WireLeads, MemoryIsCurrent
<1>4. SyncIsCurrent' BY DEF SyncIsCurrent
<1>5. EndIsTold'
  <2> SUFFICES ASSUME (~fatal /\ ~link /\ groupsReady)'
               PROVE  \E i \in 1..Len(wire') : Ended(wire'[i])
    BY DEF EndIsTold, Ended
  <2>1. PICK i \in 1..Len(wire) : Ended(wire[i]) BY DEF AccountInv, Fresh, EndIsTold
  <2>2. i # 1 BY <2>1, TailKeeps DEF AccountInv, Ended
  <2>3. i - 1 \in 1..Len(wire') /\ wire'[i - 1] = wire[i] BY <2>1, <2>2, TailKeeps DEF AccountInv
  <2>4. QED BY <2>1, <2>3
<1>6. QED BY <1>1, <1>2, <1>3, <1>4, <1>5 DEF Fresh

LEMMA UnsureIs ==
  ASSUME AccountInv, Unsure
  PROVE  /\ ~groupsReady' /\ ~current' /\ groupsReady' \in BOOLEAN /\ current' \in BOOLEAN
         /\ syncWanted' \in BOOLEAN /\ groups' = groups
<1>1. syncWanted' = (syncWanted \/ ~fatal) BY DEF Unsure
<1>2. syncWanted' \in BOOLEAN BY <1>1
<1>3. QED BY <1>2 DEF Unsure

LEMMA CacheJoinedGroupStep == ASSUME AccountInv, CacheJoinedGroup PROVE AccountInv'
<1>1. /\ wire # <<>> /\ Head(wire).kind = "joined" /\ wire' = Tail(wire) /\ handling' = "ready"
      /\ UNCHANGED <<link, truth, last, flaps, start, check, ready, signals, fatal, sync>>
      /\ UNCHANGED <<state, opened, recovered, missed>>
  BY DEF CacheJoinedGroup, Handling, Handled, Next1, link_, starting, account
<1>2. Head(wire).version \in Versions /\ Tells(Head(wire)) = Head(wire).version
  BY <1>1, TailKeeps, EventKinds DEF AccountInv, Tells
<1>3. /\ ~current' /\ current' \in BOOLEAN /\ groupsReady' \in BOOLEAN /\ syncWanted' \in BOOLEAN
      /\ groupsReady' => groupsReady /\ groups' = Head(wire).version /\ stored' = groups'
      /\ {groups', stored'} \subseteq {groups, stored, Head(wire).version}
      /\ failures' \in 0..MaxFailures
  <2>1. CASE /\ groups' = Head(wire).version /\ stored' = Head(wire).version /\ current' = FALSE
             /\ UNCHANGED <<groupsReady, syncWanted, failures>>
    BY <2>1 DEF AccountInv, FlagsOK, AccountOK
  <2>2. CASE Unsure /\ Failure /\ UNCHANGED stored
    BY <2>2, UnsureIs, FailuresCount DEF AccountInv
  <2>3. QED BY <2>1, <2>2 DEF CacheJoinedGroup
<1>4. FlagsOK' BY <1>1, <1>3 DEF AccountInv, FlagsOK
<1>5. WireOK' BY <1>1, TailKeeps DEF AccountInv, WireOK
<1>6. GroupsOK' BY <1>1, <1>2, <1>3 DEF AccountInv, GroupsOK
<1>7. AccountOK' BY <1>1, <1>3 DEF AccountInv, AccountOK
<1>8. Fresh' BY <1>1, <1>2, <1>3, ToldKeeps
<1>9. QED BY <1>4, <1>5, <1>6, <1>7, <1>8 DEF AccountInv

LEMMA ApplyGroupChangeStep == ASSUME AccountInv, ApplyGroupChange PROVE AccountInv'
<1>1. /\ wire # <<>> /\ Head(wire).kind = "changed" /\ wire' = Tail(wire) /\ handling' = "ready"
      /\ UNCHANGED <<link, truth, last, flaps, start, check, ready, signals, fatal, sync>>
      /\ UNCHANGED <<state, opened, recovered, missed>>
  BY DEF ApplyGroupChange, Handling, Handled, Next1, link_, starting, account
<1>2. Head(wire).to \in Versions /\ Tells(Head(wire)) = Head(wire).to
  BY <1>1, TailKeeps, EventKinds DEF AccountInv, Tells
<1>3. /\ ~current' /\ current' \in BOOLEAN /\ groupsReady' \in BOOLEAN /\ syncWanted' \in BOOLEAN
      /\ groupsReady' => groupsReady /\ groups' = Head(wire).to /\ stored' = groups'
      /\ {groups', stored'} \subseteq {groups, stored, 0, Head(wire).to}
      /\ failures' \in 0..MaxFailures
  <2>1. CASE /\ Applies(Head(wire))
             /\ groups' = Patched(Head(wire)) /\ stored' = Patched(Head(wire)) /\ current' = FALSE
             /\ UNCHANGED <<groupsReady, syncWanted, failures>>
    BY <2>1 DEF AccountInv, FlagsOK, AccountOK, Applies, Patched
  <2>2. CASE Unsure /\ Failure /\ UNCHANGED stored
    BY <2>2, UnsureIs, FailuresCount DEF AccountInv
  <2>3. CASE Unsure /\ stored' = 0 /\ UNCHANGED failures
    BY <2>3, UnsureIs DEF AccountInv, AccountOK
  <2>4. QED BY <2>1, <2>2, <2>3 DEF ApplyGroupChange
<1>4. FlagsOK' BY <1>1, <1>3 DEF AccountInv, FlagsOK
<1>5. WireOK' BY <1>1, TailKeeps DEF AccountInv, WireOK
<1>6. GroupsOK' BY <1>1, <1>2, <1>3, Bounds DEF AccountInv, GroupsOK, Versions
<1>7. AccountOK' BY <1>1, <1>3 DEF AccountInv, AccountOK
<1>8. Fresh' BY <1>1, <1>2, <1>3, ToldKeeps
<1>9. QED BY <1>4, <1>5, <1>6, <1>7, <1>8 DEF AccountInv

-----------------------------------------------------------------------------
(* groupNameSyncWorker.                                                    *)

LEMMA TakeSyncStep == ASSUME AccountInv, TakeSync PROVE AccountInv'
<1>1. /\ syncWanted' = FALSE /\ current' = TRUE /\ sync' = [step |-> "reading"]
      /\ UNCHANGED <<link, truth, last, flaps, wire, handling, start, check, ready, signals, fatal>>
      /\ UNCHANGED <<groups, stored, groupsReady, state, opened, recovered, failures, missed>>
  BY DEF TakeSync, link_, handler, starting, account
<1>2. sync' \in [step : {"retry", "reading"}] /\ sync'.step = "reading" BY <1>1
<1>3. FlagsOK' BY <1>1 DEF AccountInv, FlagsOK
<1>4. WireOK' /\ AccountOK' BY <1>1 DEF AccountInv, WireOK, AccountOK
<1>5. GroupsOK' BY <1>1, <1>2 DEF AccountInv, GroupsOK
<1>6. WireLeads' BY <1>1 DEF AccountInv, Fresh, WireLeads, Tells
<1>7. MemoryIsCurrent' /\ MemoryMatchesStore'
  BY <1>1 DEF AccountInv, Fresh, MemoryIsCurrent, MemoryMatchesStore
<1>8. SyncIsCurrent' BY <1>2 DEF SyncIsCurrent
<1>9. EndIsTold' BY <1>1, <1>2 DEF AccountInv, Fresh, EndIsTold, Ended
<1>10. QED BY <1>3, <1>4, <1>5, <1>6, <1>7, <1>8, <1>9 DEF AccountInv, Fresh

\* What is read while connected is the group as it is.
LEMMA GetJoinedGroupsStep == ASSUME AccountInv, GetJoinedGroups PROVE AccountInv'
<1>1. /\ UNCHANGED <<link, truth, last, flaps, wire, handling, start, check, ready, signals, fatal>>
      /\ UNCHANGED <<groups, stored, groupsReady, current, syncWanted, state, opened, recovered, missed>>
  BY DEF GetJoinedGroups, link_, handler, starting, cache, account
<1>2. /\ \/ link /\ sync' = [step |-> "read", version |-> truth]
         \/ sync' = [step |-> "retry"]
      /\ failures' \in 0..MaxFailures
  BY FailuresCount DEF GetJoinedGroups, AccountInv, AccountOK
<1>3. truth \in Versions BY DEF AccountInv, GroupsOK
<1>4. \/ link /\ sync' \in [step : {"read"}, version : Versions] /\ sync'.version = truth
      \/ sync' \in [step : {"retry", "reading"}] /\ sync'.step = "retry"
  BY <1>2, <1>3
<1>5. FlagsOK' BY <1>1 DEF AccountInv, FlagsOK
<1>6. WireOK' BY <1>1 DEF AccountInv, WireOK
<1>7. AccountOK' BY <1>1, <1>2 DEF AccountInv, AccountOK
<1>8. GroupsOK' BY <1>1, <1>4 DEF AccountInv, GroupsOK
<1>9. WireLeads' BY <1>1 DEF AccountInv, Fresh, WireLeads, Tells
<1>10. MemoryIsCurrent' /\ MemoryMatchesStore'
  BY <1>1 DEF AccountInv, Fresh, MemoryIsCurrent, MemoryMatchesStore
<1>11. SyncIsCurrent' BY <1>1, <1>4 DEF SyncIsCurrent
<1>12. EndIsTold' BY <1>1, <1>4 DEF AccountInv, Fresh, EndIsTold, Ended
<1>13. QED BY <1>5, <1>6, <1>7, <1>8, <1>9, <1>10, <1>11, <1>12 DEF AccountInv, Fresh

\* What was read replaces the copies while nothing was told since.
LEMMA ReplaceGroupsStep == ASSUME AccountInv, ReplaceGroups PROVE AccountInv'
<1>1. /\ UNCHANGED <<link, truth, last, flaps, wire, handling, start, check, ready, signals, fatal>>
      /\ UNCHANGED <<syncWanted, state, opened, recovered, missed>>
      /\ current' = FALSE /\ sync.step = "read"
  BY DEF ReplaceGroups, link_, handler, starting, account
<1>2. /\ \/ /\ current
            /\ groups' = sync.version /\ stored' = sync.version /\ groupsReady' = TRUE
            /\ sync' = IdleSync
         \/ sync' = [step |-> "retry"] /\ UNCHANGED <<groups, stored, groupsReady>>
      /\ failures' \in 0..MaxFailures
  BY FailuresCount DEF ReplaceGroups, StillCurrent, AccountInv, AccountOK
<1>3. sync.version \in Versions BY <1>1, SyncKinds DEF AccountInv
<1>4. /\ sync' = IdleSync \/ sync' \in [step : {"retry", "reading"}]
      /\ sync'.step # "read"
  BY <1>2 DEF IdleSync
<1>5. FlagsOK' BY <1>1, <1>2 DEF AccountInv, FlagsOK
<1>6. WireOK' BY <1>1 DEF AccountInv, WireOK
<1>7. AccountOK' BY <1>1, <1>2 DEF AccountInv, AccountOK
<1>8. GroupsOK' BY <1>1, <1>2, <1>3, <1>4 DEF AccountInv, GroupsOK
<1>9. WireLeads' BY <1>1 DEF AccountInv, Fresh, WireLeads, Tells
<1>10. MemoryIsCurrent' /\ MemoryMatchesStore'
  BY <1>1, <1>2 DEF AccountInv, Fresh, MemoryIsCurrent, MemoryMatchesStore, SyncIsCurrent
<1>11. SyncIsCurrent' BY <1>4 DEF SyncIsCurrent
<1>12. EndIsTold' BY <1>1, <1>2, <1>4 DEF AccountInv, Fresh, EndIsTold, Ended
<1>13. QED BY <1>5, <1>6, <1>7, <1>8, <1>9, <1>10, <1>11, <1>12 DEF AccountInv, Fresh

LEMMA RetrySyncStep == ASSUME AccountInv, RetrySync PROVE AccountInv'
<1>1. /\ sync' = IdleSync /\ syncWanted' = TRUE
      /\ UNCHANGED <<link, truth, last, flaps, wire, handling, start, check, ready, signals, fatal>>
      /\ UNCHANGED <<groups, stored, groupsReady, current, state, opened, recovered, failures, missed>>
  BY DEF RetrySync, link_, handler, starting, cache, account
<1>2. sync'.step # "read" BY <1>1 DEF IdleSync
<1>3. FlagsOK' BY <1>1 DEF AccountInv, FlagsOK
<1>4. WireOK' /\ AccountOK' BY <1>1 DEF AccountInv, WireOK, AccountOK
<1>5. GroupsOK' BY <1>1 DEF AccountInv, GroupsOK
<1>6. WireLeads' BY <1>1 DEF AccountInv, Fresh, WireLeads, Tells
<1>7. MemoryIsCurrent' /\ MemoryMatchesStore'
  BY <1>1 DEF AccountInv, Fresh, MemoryIsCurrent, MemoryMatchesStore
<1>8. SyncIsCurrent' BY <1>2 DEF SyncIsCurrent
<1>9. EndIsTold' BY <1>1, <1>2 DEF AccountInv, Fresh, EndIsTold, Ended
<1>10. QED BY <1>3, <1>4, <1>5, <1>6, <1>7, <1>8, <1>9 DEF AccountInv, Fresh

-----------------------------------------------------------------------------
(* Start, the account runtime and the recovery of the inbox: apart from the *)
(* groups, unless the adapter ends.                                         *)

LEMMA SignalsTail ==
  ASSUME AccountOK, signals # <<>>, signals' = Tail(signals)
  PROVE  signals' \in Seq(BOOLEAN) /\ Len(signals') <= SignalCapacity /\ Head(signals) \in BOOLEAN
<1>1. signals \in Seq(BOOLEAN) /\ Len(signals) \in Nat /\ Len(signals) <= SignalCapacity
  BY DEF AccountOK
<1>2. signals' \in Seq(BOOLEAN) /\ Len(signals') = Len(signals) - 1 /\ Head(signals) \in BOOLEAN
  BY <1>1
<1>3. QED BY <1>1, <1>2, Bounds

LEMMA StartStepsStep == ASSUME AccountInv, StartSteps PROVE AccountInv'
<1>1. /\ UNCHANGED <<link, truth, last, flaps, wire, handling, fatal, groups, stored, groupsReady>>
      /\ UNCHANGED <<current, syncWanted, sync, opened, recovered, failures, missed>>
  BY DEF StartSteps, Run, ObserveConnection, Connection, ReadConnection, StoreReady, link_,
         handler, cache, syncing, account
<1>2. check \in [observed : BOOLEAN, value : BOOLEAN] /\ link \in BOOLEAN /\ ready \in BOOLEAN
  BY DEF AccountInv, AccountOK, FlagsOK
<1>3. /\ ready' \in BOOLEAN
      /\ check' \in [observed : BOOLEAN, value : BOOLEAN]
      /\ start' \in {"waiting", "checking", "storing", "done"}
      /\ state' \in {state, "connecting"}
      /\ signals' \in Seq(BOOLEAN) /\ Len(signals') <= SignalCapacity
  <2> USE DEF AccountInv, account, starting
  <2>1. signals \in Seq(BOOLEAN) /\ Len(signals) <= SignalCapacity BY DEF AccountOK
  <2>2. CASE Run BY <1>2, <2>1, <2>2 DEF Run
  <2>3. CASE ObserveConnection
    <3>1. (check.observed \/ Head(signals)) \in BOOLEAN OBVIOUS
    <3>2. check' = [check EXCEPT !.observed = check.observed \/ Head(signals)]
      BY <2>3 DEF ObserveConnection
    <3>3. check' \in [observed : BOOLEAN, value : BOOLEAN] BY <1>2, <3>1, <3>2
    <3>4. QED BY <1>2, <2>3, <3>3, SignalsTail DEF ObserveConnection
  <2>4. CASE Connection BY <1>2, <2>1, <2>4 DEF Connection
  <2>5. CASE ReadConnection BY <1>2, <2>1, <2>5 DEF ReadConnection
  <2>6. CASE StoreReady BY <1>2, <2>1, <2>6 DEF StoreReady
  <2>7. QED BY <2>2, <2>3, <2>4, <2>5, <2>6 DEF StartSteps
<1>4. FlagsOK' BY <1>1, <1>3 DEF AccountInv, FlagsOK
<1>5. WireOK' /\ GroupsOK' BY <1>1 DEF AccountInv, WireOK, GroupsOK
<1>6. AccountOK' BY <1>1, <1>3 DEF AccountInv, AccountOK
<1>7. Fresh' BY <1>1, ApartKeeps DEF AccountInv
<1>8. QED BY <1>4, <1>5, <1>6, <1>7 DEF AccountInv

\* An adapter that ended handles no event more, and nothing is read of it.
LEMMA EndedKeeps ==
  ASSUME AccountInv, fatal', wire' = <<>>, sync' = IdleSync, UNCHANGED <<groups, stored, groupsReady>>
  PROVE  Fresh'
BY DEF AccountInv, Fresh, WireLeads, MemoryIsCurrent, MemoryMatchesStore, SyncIsCurrent, EndIsTold

LEMMA StartFailsStep == ASSUME AccountInv, StartFails PROVE AccountInv'
<1>1. /\ start' = "failed" /\ ready' = FALSE /\ state' = "failed"
      /\ fatal' = TRUE /\ wire' = <<>> /\ sync' = IdleSync
      /\ UNCHANGED <<link, truth, last, flaps, handling, check, signals, groups, stored, groupsReady>>
      /\ UNCHANGED <<current, syncWanted, opened, recovered, missed>>
  BY DEF StartFails, link_, cache
<1>2. failures' \in 0..MaxFailures BY FailuresCount DEF StartFails, AccountInv, AccountOK
<1>3. FlagsOK' BY <1>1 DEF AccountInv, FlagsOK
<1>4. WireOK' /\ GroupsOK' BY <1>1 DEF AccountInv, WireOK, GroupsOK
<1>5. AccountOK' BY <1>1, <1>2 DEF AccountInv, AccountOK
<1>6. Fresh' BY <1>1, EndedKeeps
<1>7. QED BY <1>3, <1>4, <1>5, <1>6 DEF AccountInv

LEMMA AccountRuntimeStep == ASSUME AccountInv, AccountRuntime PROVE AccountInv'
<1>1. opened \in BOOLEAN /\ ready \in BOOLEAN /\ fatal \in BOOLEAN BY DEF AccountInv, FlagsOK
<1>2. ASSUME NEW next, SetState(next) PROVE state' = next /\ opened' \in BOOLEAN
  BY <1>2 DEF SetState
<1>3. CASE Started \/ HandleSignal
  <2>1. /\ UNCHANGED <<link, truth, last, flaps, wire, handling, check, fatal, groups, stored>>
        /\ UNCHANGED <<groupsReady, current, syncWanted, sync, recovered, ready, failures, missed>>
    BY <1>3 DEF Started, HandleSignal, link_, handler, cache, syncing, starting
  <2>2. /\ opened' \in BOOLEAN
        /\ state' \in {state, "open", "connecting", "reconnecting"}
        /\ start' \in {start, "running"}
        /\ signals' \in Seq(BOOLEAN) /\ Len(signals') <= SignalCapacity
    <3>1. CASE Started
      BY <1>1, <1>2, <3>1 DEF Started, AccountInv, AccountOK
    <3>2. CASE HandleSignal
      <4>1. PICK next \in {"open", "connecting", "reconnecting"} : SetState(next)
        BY <3>2 DEF HandleSignal
      <4>2. QED BY <1>2, <3>2, <4>1, SignalsTail DEF HandleSignal, AccountInv, starting
    <3>3. QED BY <1>3, <3>1, <3>2
  <2>3. FlagsOK' BY <2>1, <2>2 DEF AccountInv, FlagsOK
  <2>4. WireOK' /\ GroupsOK' BY <2>1 DEF AccountInv, WireOK, GroupsOK
  <2>5. AccountOK' BY <2>1, <2>2 DEF AccountInv, AccountOK
  <2>6. Fresh' BY <2>1, ApartKeeps DEF AccountInv
  <2>7. QED BY <2>3, <2>4, <2>5, <2>6 DEF AccountInv
<1>4. CASE HandleFatal
  <2>1. /\ SetState("failed") /\ fatal' = TRUE
        /\ ready' = FALSE /\ wire' = <<>> /\ handling' = "ready" /\ sync' = IdleSync
        /\ UNCHANGED <<link, truth, last, flaps, start, check, signals, groups, stored, groupsReady>>
        /\ UNCHANGED <<current, syncWanted, recovered, failures, missed>>
    BY <1>1, <1>4 DEF HandleFatal, link_, starting, cache
  <2>2. state' = "failed" /\ opened' \in BOOLEAN BY <1>2, <2>1
  <2>3. FlagsOK' BY <2>1, <2>2 DEF AccountInv, FlagsOK
  <2>4. WireOK' /\ GroupsOK' BY <2>1 DEF AccountInv, WireOK, GroupsOK
  <2>5. AccountOK' BY <2>1, <2>2 DEF AccountInv, AccountOK
  <2>6. Fresh' BY <2>1, EndedKeeps
  <2>7. QED BY <2>3, <2>4, <2>5, <2>6 DEF AccountInv
<1>5. QED BY <1>3, <1>4 DEF AccountRuntime

LEMMA RedeliverStep == ASSUME AccountInv, Redeliver PROVE AccountInv'
<1>1. /\ UNCHANGED <<link, truth, last, flaps, wire, handling, start, check, ready, signals, fatal>>
      /\ UNCHANGED <<groups, stored, groupsReady, current, syncWanted, sync, state, missed>>
  BY DEF Redeliver, RecoverOnOpen, RecoverOnSweep, link_, handler, starting, cache, syncing
<1>2. /\ opened' \in BOOLEAN /\ recovered' \in BOOLEAN
      /\ failures' \in 0..MaxFailures
  <2>1. (RecoverInbound \/ UNCHANGED <<recovered, failures>>) /\ opened' \in {opened, FALSE}
    BY DEF Redeliver, RecoverOnOpen, RecoverOnSweep
  <2>2. QED BY <2>1, FailuresCount DEF RecoverInbound, AccountInv, FlagsOK, AccountOK
<1>3. FlagsOK' BY <1>1, <1>2 DEF AccountInv, FlagsOK
<1>4. WireOK' /\ GroupsOK' BY <1>1 DEF AccountInv, WireOK, GroupsOK
<1>5. AccountOK' BY <1>1, <1>2 DEF AccountInv, AccountOK
<1>6. Fresh' BY <1>1, ApartKeeps DEF AccountInv
<1>7. QED BY <1>3, <1>4, <1>5, <1>6 DEF AccountInv

-----------------------------------------------------------------------------
LEMMA AccountStarts == ASSUME AccountInit PROVE AccountInv
<1>1. <<>> \in Seq(Events) /\ <<>> \in Seq(BOOLEAN) /\ Len(<<>>) = 0 OBVIOUS
<1>2. IdleSync.step = "idle" BY DEF IdleSync
<1>3. FlagsOK BY DEF AccountInit, FlagsOK
<1>4. WireOK BY <1>1 DEF AccountInit, WireOK
<1>5. GroupsOK
  <2>1. {0, 1} \subseteq Versions BY BoundsArePositive DEF Versions
  <2>2. QED BY <2>1 DEF AccountInit, GroupsOK
<1>6. AccountOK
  <2>1. check \in [observed : BOOLEAN, value : BOOLEAN] BY DEF AccountInit
  <2>2. QED BY <1>1, <2>1, Bounds DEF AccountInit, AccountOK
<1>7. Fresh
  BY <1>2 DEF AccountInit, Fresh, WireLeads, MemoryIsCurrent, MemoryMatchesStore, SyncIsCurrent, EndIsTold
<1>8. QED BY <1>3, <1>4, <1>5, <1>6, <1>7 DEF AccountInv

LEMMA AccountGoesOn == ASSUME AccountInv, [AccountNext]_accountVars PROVE AccountInv'
<1>1. CASE UNCHANGED accountVars
  <2>1. /\ UNCHANGED <<link, truth, last, flaps, wire, handling, start, check, ready, signals, fatal>>
        /\ UNCHANGED <<groups, stored, groupsReady, current, syncWanted, sync, state>>
        /\ UNCHANGED <<opened, recovered, failures, missed>>
    BY <1>1 DEF accountVars, link_, handler, starting, cache, syncing, account
  <2>2. FlagsOK' BY <2>1 DEF AccountInv, FlagsOK
  <2>3. WireOK' /\ GroupsOK' BY <2>1 DEF AccountInv, WireOK, GroupsOK
  <2>4. AccountOK' BY <2>1 DEF AccountInv, AccountOK
  <2>5. Fresh' BY <2>1, ApartKeeps DEF AccountInv
  <2>6. QED BY <2>2, <2>3, <2>4, <2>5 DEF AccountInv
<1>2. CASE HandleEvent
  BY <1>2, SetReadyStep, HandleConnectionStep, HandlePermanentStep, CacheJoinedGroupStep,
     ApplyGroupChangeStep DEF HandleEvent
<1>3. CASE SyncWorker
  BY <1>3, TakeSyncStep, GetJoinedGroupsStep, ReplaceGroupsStep, RetrySyncStep DEF SyncWorker
<1>4. QED
  BY <1>1, <1>2, <1>3, ConnectStep, DisconnectStep, GroupChangesStep, StartStepsStep,
     StartFailsStep, AccountRuntimeStep, RedeliverStep DEF AccountNext

\* The adapter's two copies of the group agree with each other and, when they may
\* be read and nothing is under way, with the servers, whatever a refresh, a
\* change and a lost connection do at the same time (ReplaceGroups,
\* ApplyGroupChange, ClearGroupCache).
THEOREM CopiesAgree == AccountSpec => []GroupCopiesAgree
<1>1. AccountInv => GroupCopiesAgree
  <2>1. SUFFICES ASSUME AccountInv PROVE GroupCopiesAgree OBVIOUS
  <2>2. AccountTypeOK BY <2>1, AccountTypes DEF AccountInv
  <2>3. GroupsFresh /\ MemoryMatchesStore
    BY <2>1 DEF AccountInv, Fresh, MemoryIsCurrent, MemoryMatchesStore, GroupsFresh
  <2>4. QED BY <2>2, <2>3 DEF GroupCopiesAgree
<1>2. QED BY <1>1, AccountStarts, AccountGoesOn, PTL DEF AccountSpec

=============================================================================

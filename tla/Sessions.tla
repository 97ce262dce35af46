------------------------------ MODULE Sessions ------------------------------
(***************************************************************************)
(* SessionController: pairing, resuming, stopping and logging out of the   *)
(* WhatsApp account without the bot, the binding it keeps in settings.db   *)
(* and the goroutine that runs a session.  An operation holds `operations' *)
(* until it returns, so op is the one under way; the run goes on beside it.*)
(*                                                                         *)
(* A scope is the identity of a device store.  The phone that links a      *)
(* device and the servers that log one out are external.                   *)
(***************************************************************************)
EXTENDS Integers, FiniteSets

CONSTANTS
  Scopes,        \* identities of device stores
  DefaultScope,  \* the scope of the data root, before any pairing
  None,
  MaxFaults,     \* bound: writes and opens that fail
  MaxCrashes     \* bound: ends of the process, with Host.Close or without

ASSUME ScopesAssumption == DefaultScope \in Scopes /\ None \notin Scopes /\ IsFiniteSet(Scopes)
ASSUME BoundsAreNatural == {MaxFaults, MaxCrashes} \subseteq Nat

VARIABLES
  binding,  \* the row of session_state
  linked,   \* the scopes whose device store has a device
  clients,  \* who has a client open on a device store
  run,      \* SessionController.run and its goroutine
  op,       \* the operation under way
  faults, crashes

session == <<binding, linked, clients, run>>
sessionVars == <<session, op, faults, crashes>>

NoRun == [step |-> "none"]
Idle == [step |-> "idle"]
Step(step) == [step |-> step]

Fault == faults < MaxFaults /\ faults' = faults + 1

SessionInit ==
  /\ binding = [state |-> "unpaired", active |-> None, pending |-> None]
  /\ linked = {} /\ clients = {} /\ run = NoRun /\ op = Idle
  /\ faults = 0 /\ crashes = 0

-----------------------------------------------------------------------------
(* The writes to the binding, each a transaction.                           *)

BeginSessionPairing(scope) ==
  /\ binding.state # "paired" /\ binding.pending = None
  /\ binding' = [binding EXCEPT !.pending = scope]

CanMarkPaired(scope) ==
  IF binding.pending # None THEN binding.pending = scope ELSE binding.active = scope

MarkSessionPaired(scope) ==
  /\ CanMarkPaired(scope)
  /\ binding' = [state |-> "paired", active |-> scope, pending |-> None]

BadAbortSessionPairing(scope) == UNCHANGED <<binding, faults>>

\* Written, found to have nothing to do, or failed, which every caller ignores
\* or only reports.
AbortSessionPairing(scope) ==
  \/ /\ binding' = IF binding.pending = scope THEN [binding EXCEPT !.pending = None] ELSE binding
     /\ UNCHANGED faults
  \/ binding' = binding /\ Fault

MarkSessionRevoked(scope) ==
  /\ binding.active = scope /\ binding.state \in {"paired", "revoked"}
  /\ binding' = [binding EXCEPT !.state = "revoked"]

-----------------------------------------------------------------------------
(* BeginPairing.                                                            *)

EnsureOpen == op = Idle /\ run = NoRun

Launch(scope, mode) ==
  /\ run' = [step |-> "loop", scope |-> scope, mode |-> mode, paired |-> mode = "resume",
             cancelled |-> FALSE]
  /\ clients' = clients \cup {"session"}

BeginPairing ==
  /\ EnsureOpen /\ binding.state # "paired"
  /\ op' = Step(IF binding.pending # None THEN "recover" ELSE "reserve")
  /\ UNCHANGED <<session, faults, crashes>>

\* A reservation found in the store: its device store is opened to see whether
\* the phone linked it before the process stopped.
RecoverPairing ==
  /\ op = Step("recover")
  /\ \/ /\ binding.pending \in linked
        /\ MarkSessionPaired(binding.pending) /\ op' = Idle /\ UNCHANGED faults
     \/ /\ binding.pending \notin linked
        /\ AbortSessionPairing(binding.pending)
        /\ op' = IF faults' = faults THEN Step("reserve") ELSE Idle
     \/ UNCHANGED binding /\ op' = Idle /\ Fault
  /\ UNCHANGED <<linked, clients, run, crashes>>

\* After a logout the account gets a scope of its own.
PreferredScopes ==
  IF binding.state = "revoked" THEN Scopes \ (linked \cup {binding.active}) ELSE {DefaultScope}

ReservePairing ==
  /\ op = Step("reserve")
  /\ \/ \E scope \in PreferredScopes :
          BeginSessionPairing(scope) /\ op' = Step("open") /\ UNCHANGED faults
     \/ PreferredScopes = {} /\ op' = Idle /\ UNCHANGED <<binding, faults>>
     \/ UNCHANGED binding /\ op' = Idle /\ Fault
  /\ UNCHANGED <<linked, clients, run, crashes>>

\* The device store is opened; one that has a device is only recorded.
OpenPairing ==
  /\ op = Step("open") /\ op' = Idle
  /\ LET scope == binding.pending
     IN \/ scope \notin linked /\ Launch(scope, "pairing") /\ UNCHANGED <<binding, faults>>
        \/ scope \in linked /\ MarkSessionPaired(scope) /\ UNCHANGED <<run, clients, faults>>
        \/ scope \in linked /\ UNCHANGED <<binding, run, clients>> /\ Fault
        \/ Fault /\ binding' = [binding EXCEPT !.pending = None] /\ UNCHANGED <<run, clients>>
  /\ UNCHANGED <<linked, crashes>>

-----------------------------------------------------------------------------
(* The other operations.                                                    *)

Resume ==
  /\ EnsureOpen /\ binding.state = "paired"
  /\ \/ binding.active \in linked /\ Launch(binding.active, "resume") /\ UNCHANGED binding
     \/ binding.active \notin linked /\ MarkSessionRevoked(binding.active) /\ UNCHANGED <<run, clients>>
  /\ UNCHANGED <<linked, op, faults, crashes>>

Pairing == run # NoRun /\ run.mode = "pairing" /\ ~run.paired

BadCancelRun == ~Pairing /\ run' = run

\* Stop, as an operation of its own or the first step of starting the bot.
CancelRun == ~Pairing /\ run' = IF run = NoRun THEN run ELSE [run EXCEPT !.cancelled = TRUE]

StopSession ==
  /\ op = Idle /\ run # NoRun /\ CancelRun
  /\ op' = Step("stopSession")
  /\ UNCHANGED <<binding, linked, clients, faults, crashes>>

SessionStopped ==
  /\ op = Step("stopSession") /\ run = NoRun /\ op' = Idle
  /\ UNCHANGED <<session, faults, crashes>>

CancelPairing ==
  /\ op = Idle /\ Pairing
  /\ run' = [run EXCEPT !.cancelled = TRUE]
  /\ op' = [step |-> "cancel", scope |-> run.scope]
  /\ UNCHANGED <<binding, linked, clients, faults, crashes>>

PairingCancelled ==
  /\ op.step = "cancel" /\ run = NoRun /\ op' = Idle
  /\ AbortSessionPairing(op.scope)
  /\ UNCHANGED <<linked, clients, run, crashes>>

Logout ==
  /\ EnsureOpen /\ binding.state = "paired" /\ binding.active \in linked
  /\ clients' = clients \cup {"logout"} /\ op' = Step("logout")
  /\ UNCHANGED <<binding, linked, run, faults, crashes>>

\* The servers confirm and the device store forgets its device, or they do not.
LogoutAnswered ==
  /\ op = Step("logout")
  /\ \/ /\ binding.active \in linked
        /\ linked' = linked \ {binding.active} /\ op' = Step("revoke") /\ UNCHANGED clients
     \/ op' = Idle /\ clients' = clients \ {"logout"} /\ UNCHANGED linked
  /\ UNCHANGED <<binding, run, faults, crashes>>

LogoutRevokes ==
  /\ op = Step("revoke") /\ op' = Idle
  /\ \/ MarkSessionRevoked(binding.active) /\ UNCHANGED faults
     \/ UNCHANGED binding /\ Fault
  /\ clients' = clients \ {"logout"}
  /\ UNCHANGED <<linked, run, crashes>>

-----------------------------------------------------------------------------
(* The phone, the servers and the goroutine of the run.                     *)

Link ==
  /\ run.step \in {"loop", "ended"} /\ run.mode = "pairing"
  /\ linked' = linked \cup {run.scope}
  /\ UNCHANGED <<binding, clients, run, op, faults, crashes>>

LoggedOut ==
  /\ clients # {} /\ binding.active \in linked
  /\ linked' = linked \ {binding.active}
  /\ UNCHANGED <<binding, clients, run, op, faults, crashes>>

\* handleRuntimeEvent: the binding is written first, the run after it.  A
\* connection of a run that is paired writes the same again.
HandleConnected ==
  /\ run.step = "loop" /\ run.scope \in linked /\ ~run.paired
  /\ \/ MarkSessionPaired(run.scope) /\ run' = [run EXCEPT !.step = "connected"] /\ UNCHANGED faults
     \/ run' = [run EXCEPT !.cancelled = TRUE] /\ UNCHANGED binding /\ Fault
  /\ UNCHANGED <<linked, clients, op, crashes>>

RecordConnected ==
  /\ run.step = "connected"
  /\ run' = [run EXCEPT !.step = "loop", !.paired = TRUE, !.mode = "resume"]
  /\ UNCHANGED <<binding, linked, clients, op, faults, crashes>>

HandleLoggedOut ==
  /\ run.step = "loop" /\ run.mode = "resume" /\ run.scope \notin linked
  /\ \/ MarkSessionRevoked(run.scope) /\ run' = [run EXCEPT !.step = "revoked"] /\ UNCHANGED faults
     \/ run' = [run EXCEPT !.step = "ended", !.cancelled = TRUE] /\ UNCHANGED binding /\ Fault
  /\ UNCHANGED <<linked, clients, op, crashes>>

RecordRevoked ==
  /\ run.step = "revoked"
  /\ run' = [run EXCEPT !.step = "ended", !.paired = FALSE]
  /\ UNCHANGED <<binding, linked, clients, op, faults, crashes>>

\* Cancelled, out of time, or given up by the client.
RunEnds ==
  /\ run.step = "loop"
  /\ run' = [run EXCEPT !.step = "ended"]
  /\ UNCHANGED <<binding, linked, clients, op, faults, crashes>>

CloseRun ==
  /\ run.step = "ended"
  /\ run' = [run EXCEPT !.step = "closed"] /\ clients' = clients \ {"session"}
  /\ UNCHANGED <<binding, linked, op, faults, crashes>>

Detach ==
  /\ run.step = "closed"
  /\ IF Pairing THEN AbortSessionPairing(run.scope) ELSE UNCHANGED <<binding, faults>>
  /\ run' = NoRun
  /\ UNCHANGED <<linked, clients, op, crashes>>

-----------------------------------------------------------------------------
SessionOperation ==
  \/ BeginPairing \/ Resume \/ StopSession \/ CancelPairing \/ Logout

OperationSteps ==
  \/ RecoverPairing \/ ReservePairing \/ OpenPairing
  \/ SessionStopped \/ PairingCancelled \/ LogoutAnswered \/ LogoutRevokes

RunSteps == RecordConnected \/ RecordRevoked \/ CloseRun \/ Detach

\* A run that is cancelled ends; one that is not goes on as long as it can.
CancelledEnds == run.step = "loop" /\ run.cancelled /\ RunEnds

External == Link \/ LoggedOut

HandleEvents == HandleConnected \/ HandleLoggedOut

SessionStep ==
  OperationSteps \/ RunSteps \/ RunEnds \/ HandleEvents \/ External
=============================================================================

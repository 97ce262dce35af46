---------------------------- MODULE Connection ----------------------------
(***************************************************************************)
(* One WhatsApp account while it runs: the adapter that starts the client, *)
(* handles its events and keeps a copy of the group the bot is in, the     *)
(* account runtime that turns connection signals into a state, and the     *)
(* loop that recovers the inbox when the account opens.                    *)
(*                                                                         *)
(* The client and the servers behind it are external: they connect, lose   *)
(* the connection, change the group and deliver events in order, one at a  *)
(* time, a group's only while connected.  A group is its version, 0 when   *)
(* the bot is not in it.                                                   *)
(*                                                                         *)
(* What every module has (initial states, steps, specification) is named   *)
(* after the account here: LifecycleProofs extends this module beside      *)
(* Lifecycle.                                                              *)
(***************************************************************************)
EXTENDS Integers, Sequences

CONSTANTS
  SignalCapacity,  \* of Adapter.events
  MaxFlaps,        \* bound: connections made
  MaxVersion,      \* bound: versions of the group
  MaxFailures      \* bound: reads, writes and recoveries that fail

ASSUME BoundsArePositive ==
  {SignalCapacity, MaxVersion} \subseteq Nat \ {0} /\ {MaxFlaps, MaxFailures} \subseteq Nat

VARIABLES
  link,       \* the client is connected and logged in
  truth,      \* the group as the servers have it
  last,       \* the last version minted
  wire,       \* events under way to handleEvent, the first being handled
  handling,   \* how far handleEvent is with the first
  start,      \* how far Start is: "new", "waiting", "checking", "storing", "done", "failed"
  check,      \* what Start waits for or has read
  ready,      \* Adapter.ready
  signals,    \* Adapter.events
  fatal,      \* Adapter.fatal, whose error also cancels rootCtx
  groups,     \* the group in memory
  stored,     \* the group in the store
  groupsReady,
  current,    \* groupRevision is still the one the refresh under way has read
  syncWanted, \* Adapter.groupSync
  sync,       \* groupNameSyncWorker
  state,      \* Runtime.state
  opened,     \* Runtime.opened
  recovered,  \* of redeliver
  flaps, failures,
  missed      \* a signal was dropped, or Start wrote over an event

link_ == <<link, truth, last, flaps>>
handler == <<wire, handling>>
starting == <<start, check>>
cache == <<groups, stored, groupsReady, current>>
syncing == <<syncWanted, sync>>
account == <<state, opened, recovered>>
accountVars == <<link_, handler, starting, ready, signals, fatal, cache, syncing, account,
          failures, missed>>

Connected == [kind |-> "connected"]
Disconnected == [kind |-> "disconnected"]
Permanent == [kind |-> "permanent"]
IdleSync == [step |-> "idle"]
Mangled == MaxVersion + 1

Live == ~fatal /\ state \notin {"failed", "stopped"}
Failure == failures < MaxFailures /\ failures' = failures + 1

AccountInit ==
  /\ link = FALSE /\ truth = 1 /\ last = 1 /\ wire = <<>> /\ handling = "ready"
  /\ start = "new" /\ check = [observed |-> FALSE, value |-> FALSE]
  /\ ready = FALSE /\ signals = <<>> /\ fatal = FALSE
  /\ groups = 0 /\ stored = 1 /\ groupsReady = FALSE /\ current = FALSE
  /\ syncWanted = FALSE /\ sync = IdleSync
  /\ state = "stopped" /\ opened = FALSE /\ recovered = FALSE
  /\ flaps = 0 /\ failures = 0 /\ missed = FALSE

-----------------------------------------------------------------------------
(* The client and the servers.                                              *)

Deliver(event) == wire' = Append(wire, event)

Connect ==
  /\ start \notin {"new", "failed"} /\ Live /\ ~link /\ flaps < MaxFlaps
  /\ link' = TRUE /\ flaps' = flaps + 1
  /\ Deliver(Connected)
  /\ UNCHANGED <<truth, last, handling, starting, ready, signals, fatal, cache, syncing,
                 account, failures, missed>>

Disconnect ==
  /\ link /\ Live /\ flaps < MaxFlaps
  /\ link' = FALSE
  /\ \E event \in {Disconnected, Permanent} : Deliver(event)
  /\ UNCHANGED <<truth, last, flaps, handling, starting, ready, signals, fatal, cache,
                 syncing, account, failures, missed>>

\* The bot is added, something in the group changes, or it is removed.  Who is
\* not connected is told nothing.
GroupChanges ==
  /\ start # "new" /\ Live /\ last < MaxVersion
  /\ \E next \in {0, last + 1} :
       /\ next # truth
       /\ truth' = next /\ last' = last + 1
       /\ wire' = IF ~link THEN wire
                  ELSE Append(wire, IF truth = 0 THEN [kind |-> "joined", version |-> next]
                                    ELSE [kind |-> "changed", from |-> truth, to |-> next])
  /\ UNCHANGED <<link, flaps, handling, starting, ready, signals, fatal, cache, syncing,
                 account, failures, missed>>

-----------------------------------------------------------------------------
(* handleEvent.  A connection event sets ready first, then clears the group *)
(* cache, signals the account and asks for the groups.                      *)

Next1 == Head(wire).kind
Handling(kinds) == wire # <<>> /\ Next1 \in kinds /\ start \notin {"new", "failed"}
Handled == wire' = Tail(wire) /\ handling' = "ready"

SetReady ==
  /\ Handling({"connected", "disconnected", "permanent"}) /\ handling = "ready"
  /\ ready' = (Next1 = "connected")
  /\ handling' = "clear"
  /\ missed' = (missed \/ start = "storing")
  /\ UNCHANGED <<link_, wire, starting, signals, fatal, cache, syncing, account, failures>>

BadClearGroupCache ==
  /\ groups' = 0 /\ groupsReady' = FALSE
  /\ stored' = 0 /\ UNCHANGED <<current, failures>>

\* clearGroupCache; the store may fail to forget its groups too.
ClearGroupCache ==
  /\ groups' = 0 /\ groupsReady' = FALSE /\ current' = FALSE
  /\ \/ stored' = 0 /\ UNCHANGED failures
     \/ stored' = stored /\ Failure

EmitConnection(up) ==
  IF Len(signals) < SignalCapacity
  THEN signals' = Append(signals, up) /\ UNCHANGED missed
  ELSE missed' = TRUE /\ UNCHANGED signals

HandleConnection ==
  /\ Handling({"connected", "disconnected"}) /\ handling = "clear" /\ Handled
  /\ ClearGroupCache
  /\ EmitConnection(Next1 = "connected")
  /\ syncWanted' = (syncWanted \/ (Next1 = "connected" /\ ~fatal))
  /\ UNCHANGED <<link_, starting, ready, fatal, sync, account>>

HandlePermanent ==
  /\ Handling({"permanent"}) /\ handling = "clear" /\ Handled
  /\ ClearGroupCache
  /\ fatal' = TRUE
  /\ UNCHANGED <<link_, starting, ready, signals, syncing, account, missed>>

\* What a change that cannot be applied or stored leaves behind.
Unsure ==
  /\ groupsReady' = FALSE /\ current' = FALSE /\ UNCHANGED groups
  /\ syncWanted' = (syncWanted \/ ~fatal)

CacheJoinedGroup ==
  /\ Handling({"joined"}) /\ Handled
  /\ LET version == Head(wire).version
     IN \/ /\ groups' = version /\ stored' = version /\ current' = FALSE
           /\ UNCHANGED <<groupsReady, syncWanted, failures>>
        \/ Unsure /\ Failure /\ UNCHANGED stored
  /\ UNCHANGED <<link_, starting, ready, signals, fatal, sync, account, missed>>

\* A change is applied only to the version it was made to; it is a difference,
\* and makes of another version one that no server ever had.
Applies(change) == groups # 0 /\ groups = change.from
Patched(change) == IF groups = change.from THEN change.to ELSE Mangled

ApplyGroupChange ==
  /\ Handling({"changed"}) /\ Handled
  /\ LET change == Head(wire)
     IN \/ /\ Applies(change)
           /\ groups' = Patched(change) /\ stored' = Patched(change)
           /\ current' = FALSE
           /\ UNCHANGED <<groupsReady, syncWanted, failures>>
        \/ Applies(change) /\ Unsure /\ Failure /\ UNCHANGED stored
        \/ ~Applies(change) /\ Unsure /\ stored' = 0 /\ UNCHANGED failures
  /\ UNCHANGED <<link_, starting, ready, signals, fatal, sync, account, missed>>

-----------------------------------------------------------------------------
(* groupNameSyncWorker.                                                     *)

TakeSync ==
  /\ sync = IdleSync /\ syncWanted /\ ~fatal
  /\ syncWanted' = FALSE /\ current' = TRUE
  /\ sync' = [step |-> "reading"]
  /\ UNCHANGED <<link_, handler, starting, ready, signals, fatal, groups, stored, groupsReady,
                 account, failures, missed>>

\* GetJoinedGroups fails without a connection, and may fail with one.
GetJoinedGroups ==
  /\ sync.step = "reading"
  /\ \/ /\ link
        /\ sync' = [step |-> "read", version |-> truth]
        /\ UNCHANGED failures
     \/ ~link /\ sync' = [step |-> "retry"] /\ UNCHANGED failures
     \/ link /\ sync' = [step |-> "retry"] /\ Failure
  /\ UNCHANGED <<link_, handler, starting, ready, signals, fatal, cache, syncWanted,
                 account, missed>>

\* Nothing changed the cache since the revision was read.
StillCurrent == current /\ ready

ReplaceGroups ==
  /\ sync.step = "read"
  /\ \/ /\ StillCurrent
        /\ groups' = sync.version /\ stored' = sync.version /\ groupsReady' = TRUE
        /\ sync' = IdleSync
        /\ UNCHANGED failures
     \/ /\ ~StillCurrent \/ fatal
        /\ sync' = [step |-> "retry"] /\ UNCHANGED <<groups, stored, groupsReady, failures>>
     \/ /\ StillCurrent /\ Failure
        /\ sync' = [step |-> "retry"] /\ UNCHANGED <<groups, stored, groupsReady>>
  /\ current' = FALSE
  /\ UNCHANGED <<link_, handler, starting, ready, signals, fatal, syncWanted, account, missed>>

\* Two seconds later the groups are asked for again.
RetrySync ==
  /\ sync.step = "retry" /\ ~fatal
  /\ sync' = IdleSync /\ syncWanted' = TRUE
  /\ UNCHANGED <<link_, handler, starting, ready, signals, fatal, cache, account, failures,
                 missed>>

-----------------------------------------------------------------------------
(* Start, called by the account runtime, and the wait for the connection.   *)

Run ==
  /\ state = "stopped" /\ start = "new"
  /\ state' = "connecting" /\ start' = "waiting"
  /\ UNCHANGED <<link_, handler, check, ready, signals, fatal, cache, syncing, opened,
                 recovered, failures, missed>>

ObserveConnection ==
  /\ start = "waiting" /\ signals # <<>>
  /\ signals' = Tail(signals)
  /\ check' = [check EXCEPT !.observed = @ \/ Head(signals)]
  /\ UNCHANGED <<link_, handler, start, ready, fatal, cache, syncing, account, failures,
                 missed>>

\* ConnectContext returned, and the client is connected or was seen to be.
Connection ==
  /\ start = "waiting" /\ flaps > 0 /\ (check.observed \/ link)
  /\ start' = "checking"
  /\ UNCHANGED <<link_, handler, check, ready, signals, fatal, cache, syncing, account,
                 failures, missed>>

ReadConnection ==
  /\ start = "checking"
  /\ start' = "storing" /\ check' = [check EXCEPT !.value = link]
  /\ UNCHANGED <<link_, handler, ready, signals, fatal, cache, syncing, account, failures,
                 missed>>

\* Start returns, and the account is open if the adapter is ready by then.
StoreReady ==
  /\ start = "storing" /\ start' = "done"
  /\ ready' = check.value
  /\ UNCHANGED <<link_, handler, check, signals, fatal, cache, syncing, account, failures,
                 missed>>

\* The client cannot connect, the wait is over, or the disconnect is for good.
StartFails ==
  /\ start = "waiting"
  /\ IF fatal THEN UNCHANGED failures ELSE ~link /\ Failure
  /\ start' = "failed" /\ ready' = FALSE /\ state' = "failed"
  /\ fatal' = TRUE /\ wire' = <<>> /\ sync' = IdleSync
  /\ UNCHANGED <<link_, handling, check, signals, cache, syncWanted, opened, recovered,
                 missed>>

-----------------------------------------------------------------------------
(* The account runtime.                                                     *)

SetState(next) ==
  /\ state' = next
  /\ opened' = (opened \/ (next = "open" /\ state # "open"))

\* Run after Start: the adapter's readiness decides.
Started ==
  /\ start = "done" /\ start' = "running"
  /\ IF ready THEN SetState("open") ELSE UNCHANGED <<state, opened>>
  /\ UNCHANGED <<link_, handler, check, ready, signals, fatal, cache, syncing, recovered,
                 failures, missed>>

HandleSignal ==
  /\ start = "running" /\ state # "failed" /\ signals # <<>>
  /\ signals' = Tail(signals)
  /\ SetState(IF ~Head(signals) THEN "reconnecting" ELSE IF ready THEN "open" ELSE "connecting")
  /\ UNCHANGED <<link_, handler, starting, ready, fatal, cache, syncing, recovered, failures,
                 missed>>

HandleFatal ==
  /\ start = "running" /\ fatal /\ state # "failed"
  /\ SetState("failed")
  /\ ready' = FALSE /\ wire' = <<>> /\ handling' = "ready" /\ sync' = IdleSync
  /\ UNCHANGED <<link_, starting, signals, fatal, cache, syncWanted, recovered, failures,
                 missed>>

-----------------------------------------------------------------------------
(* redeliver: inbox recovery, on each opening and by the minute, until it   *)
(* succeeds.  The outbox it also flushes is Outbox's.                       *)

RecoverInbound ==
  \/ recovered' = TRUE /\ UNCHANGED failures
  \/ recovered' = recovered /\ Failure

RecoverOnOpen ==
  /\ opened /\ state # "failed" /\ opened' = FALSE
  /\ IF recovered THEN UNCHANGED <<recovered, failures>> ELSE RecoverInbound
  /\ UNCHANGED <<link_, handler, starting, ready, signals, fatal, cache, syncing, state,
                 missed>>

BadSweeps == FALSE

\* The sweep recovers when a failed recovery is left and the account is ready.
Sweeps == ~recovered /\ state = "open" /\ ready

RecoverOnSweep ==
  /\ Sweeps /\ RecoverInbound
  /\ UNCHANGED <<link_, handler, starting, ready, signals, fatal, cache, syncing, state,
                 opened, missed>>

-----------------------------------------------------------------------------
HandleEvent ==
  SetReady \/ HandleConnection \/ HandlePermanent \/ CacheJoinedGroup \/ ApplyGroupChange

SyncWorker == TakeSync \/ GetJoinedGroups \/ ReplaceGroups \/ RetrySync

StartSteps ==
  Run \/ ObserveConnection \/ Connection \/ ReadConnection \/ StoreReady

AccountRuntime == Started \/ HandleSignal \/ HandleFatal

Redeliver == RecoverOnOpen \/ RecoverOnSweep

AccountNext ==
  \/ Connect \/ Disconnect \/ GroupChanges
  \/ HandleEvent
  \/ SyncWorker
  \/ StartSteps \/ StartFails
  \/ AccountRuntime
  \/ Redeliver

AccountSpec == AccountInit /\ [][AccountNext]_accountVars

\* The client keeps trying to connect, and every goroutine goes on.
AccountFairness ==
  /\ WF_accountVars(Connect)
  /\ WF_accountVars(HandleEvent) /\ WF_accountVars(SyncWorker) /\ WF_accountVars(StartSteps)
  /\ WF_accountVars(AccountRuntime) /\ WF_accountVars(Redeliver)

AccountLiveSpec == AccountSpec /\ AccountFairness

-----------------------------------------------------------------------------
Versions == 0..MaxVersion
Events ==
  {Connected, Disconnected, Permanent}
    \cup [kind : {"joined"}, version : Versions]
    \cup [kind : {"changed"}, from : Versions, to : Versions]

\* Every variable stays within its type, and the signals within their channel.
AccountTypeOK ==
  /\ {link, ready, fatal, groupsReady, current, syncWanted, opened, recovered, missed} \subseteq BOOLEAN
  /\ {truth, last} \subseteq Versions /\ {groups, stored} \subseteq Versions \cup {Mangled}
  /\ wire \in Seq(Events) /\ handling \in {"ready", "clear"}
  /\ start \in {"new", "waiting", "checking", "storing", "done", "running", "failed"}
  /\ check \in [observed : BOOLEAN, value : BOOLEAN]
  /\ signals \in Seq(BOOLEAN) /\ Len(signals) <= SignalCapacity
  /\ \/ sync = IdleSync \/ sync \in [step : {"retry", "reading"}]
     \/ sync \in [step : {"read"}, version : Versions]
  /\ state \in {"stopped", "connecting", "open", "reconnecting", "failed"}
  /\ flaps \in 0..MaxFlaps /\ failures \in 0..MaxFailures

\* What is read of the group is never older than what the adapter has been
\* told: while reads are allowed and nothing is under way, the store has the
\* group as the servers do, whatever a refresh, a change and a lost
\* connection did at the same time.
GroupsFresh == ready /\ ~fatal /\ groupsReady /\ wire = <<>> => stored = truth

\* A group in memory that a change may be applied to is the stored one.
MemoryMatchesStore == groupsReady => groups = stored

\* The two copies of the group agree with each other and with the servers.
GroupCopiesAgree == AccountTypeOK /\ GroupsFresh /\ MemoryMatchesStore

\* A connection that holds is put to use: the adapter is ready, its groups
\* are read, the account is open and the inbox is recovered.  Not so when a
\* signal found its channel full, or Start wrote an older answer over ready.
Settled == ready /\ groupsReady /\ state = "open" /\ recovered

ConnectionSettles == []link ~> (Settled \/ fatal \/ state = "failed" \/ missed)
=============================================================================

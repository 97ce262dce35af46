---------------------------- MODULE Broadcasts ----------------------------
(***************************************************************************)
(* Messages an operator sends to many groups, at once or at a later time.  *)
(* A scheduled one is a row: "scheduled", claimed by the adapter's worker  *)
(* ("sending"), sent group by group in batches, and closed with what came  *)
(* of each group.  What an interrupted run sent is not known, so it is     *)
(* closed as failed and never tried again.  A request is checked against a *)
(* list of groups that the operator was shown; a reconnect and ten minutes *)
(* make it void.                                                           *)
(*                                                                         *)
(* External: the groups the bot is in and what a send comes to.            *)
(***************************************************************************)
EXTENDS Integers, FiniteSets

CONSTANTS
  Groups,
  Jobs,         \* identities of scheduled broadcasts
  Now,          \* stands for the broadcast sent at once
  BatchSize,
  MaxFaults,    \* bound: calls that fail
  MaxCrashes    \* bound: crashes and stops

ASSUME BroadcastsAreDistinct == Now \notin Jobs
ASSUME BatchesAreNotEmpty == BatchSize \in Nat \ {0}
ASSUME GroupsAreFinite == IsFiniteSet(Groups)

VARIABLES
  joined,     \* the groups the bot is in
  process,    \* "down", "starting" (the worker has to recover), "up" or "stopping"
  ready,      \* the account is connected
  handles,    \* Adapter.broadcastSet: the groups last listed
  request,    \* targets a ScheduleBroadcast in progress resolved, or {}
  jobs,       \* rows of whatsapp_broadcast_schedules
  senders,    \* the schedule worker and the request that sends at once
  delivered,  \* how often each group got each broadcast
  lost,       \* closing or recovering a row failed
  faults, crashes

memory == <<ready, handles, request>>
budget == <<lost, faults, crashes>>
vars == <<joined, process, memory, jobs, senders, delivered, budget>>

Final == {"completed", "partial", "failed"}
Senders == {"worker", "direct"}

NoJob == [status |-> "none", due |-> FALSE, targets |-> {}, results |-> <<>>]
Idle == [step |-> "idle"]

Fault == faults < MaxFaults /\ faults' = faults + 1

\* One result for every group of a broadcast.
Results(targets, result) == [group \in targets |-> result]

Init ==
  /\ joined = Groups /\ process = "down" /\ ready = FALSE
  /\ handles = {} /\ request = {}
  /\ jobs = [job \in Jobs |-> NoJob]
  /\ senders = [sender \in Senders |-> Idle]
  /\ delivered = [job \in Jobs \cup {Now} |-> [group \in Groups |-> 0]]
  /\ lost = FALSE /\ faults = 0 /\ crashes = 0

-----------------------------------------------------------------------------
(* The account and the process.                                             *)

\* The bot leaves a group or is added to it.
GroupsChange ==
  /\ \E group \in Groups : joined' = (joined \ {group}) \cup ({group} \ joined)
  /\ Fault
  /\ UNCHANGED <<process, memory, jobs, senders, delivered, lost, crashes>>

\* Each way the adapter clears its handles: clearBroadcastHandles.
Reconnect ==
  /\ process \in {"starting", "up"}
  /\ ready' = ~ready /\ handles' = {}
  /\ IF ready THEN Fault ELSE UNCHANGED faults
  /\ UNCHANGED <<joined, process, request, jobs, senders, delivered, lost, crashes>>

Start ==
  /\ process = "down"
  /\ process' = "starting"
  /\ UNCHANGED <<joined, memory, jobs, senders, delivered, budget>>

\* Adapter.Stop: the account is not ready any more, and what runs is told to end.
Stop ==
  /\ process = "up" /\ crashes < MaxCrashes
  /\ process' = "stopping" /\ ready' = FALSE /\ handles' = {} /\ crashes' = crashes + 1
  /\ UNCHANGED <<joined, request, jobs, senders, delivered, lost, faults>>

Stopped ==
  /\ process = "stopping" /\ \A sender \in Senders : senders[sender].step \in {"idle", "done"}
  /\ process' = "down" /\ request' = {}
  /\ UNCHANGED <<joined, ready, handles, jobs, senders, delivered, budget>>

Crash ==
  /\ process # "down" /\ crashes < MaxCrashes
  /\ process' = "down" /\ ready' = FALSE /\ handles' = {} /\ request' = {}
  /\ senders' = [worker |-> Idle,
                 direct |-> IF senders.direct = Idle THEN Idle ELSE [step |-> "done"]]
  /\ crashes' = crashes + 1
  /\ UNCHANGED <<joined, jobs, delivered, lost, faults>>

-----------------------------------------------------------------------------
(* Requests.                                                                *)

ListBroadcastGroups ==
  /\ process = "up" /\ ready
  /\ handles' = joined
  /\ UNCHANGED <<joined, process, ready, request, jobs, senders, delivered, budget>>

\* Ten minutes later the list has to be fetched again.
HandlesExpire ==
  /\ handles # {} /\ handles' = {}
  /\ UNCHANGED <<joined, process, ready, request, jobs, senders, delivered, budget>>

\* resolveBroadcastTargets: every group asked for is in the list.
ResolveBroadcastTargets(targets) == process = "up" /\ ready /\ targets # {} /\ targets \subseteq handles

ScheduleBroadcast ==
  /\ request = {}
  /\ \E targets \in SUBSET Groups : ResolveBroadcastTargets(targets) /\ request' = targets
  /\ UNCHANGED <<joined, process, ready, handles, jobs, senders, delivered, budget>>

\* The bot is still in every group, and the row is stored; or nothing is.
SaveBroadcastSchedule ==
  /\ request # {} /\ request' = {}
  /\ \/ /\ request \subseteq joined /\ ready
        /\ \E job \in Jobs :
             /\ jobs[job] = NoJob
             /\ jobs' = [jobs EXCEPT ![job] = [NoJob EXCEPT !.status = "scheduled",
                                                            !.targets = request]]
        /\ UNCHANGED faults
     \/ ~(request \subseteq joined) /\ UNCHANGED <<jobs, faults>>
     \/ Fault /\ UNCHANGED jobs
  /\ UNCHANGED <<joined, process, ready, handles, senders, delivered, lost, crashes>>

Due(job) ==
  /\ jobs[job].status = "scheduled" /\ ~jobs[job].due
  /\ jobs' = [jobs EXCEPT ![job].due = TRUE]
  /\ UNCHANGED <<joined, process, memory, senders, delivered, budget>>

BadCancellable(job) == jobs[job].status \in {"scheduled", "sending"}

Cancellable(job) == jobs[job].status = "scheduled"

CancelBroadcastSchedule(job) ==
  /\ process = "up" /\ Cancellable(job)
  /\ jobs' = [jobs EXCEPT ![job].status = "cancelled"]
  /\ UNCHANGED <<joined, process, memory, senders, delivered, budget>>

\* BroadcastGroups; one request is enough.
BroadcastGroups ==
  /\ senders.direct = Idle
  /\ \E targets \in SUBSET Groups :
       /\ ResolveBroadcastTargets(targets)
       /\ senders' = [senders EXCEPT !.direct = [step |-> "verifying", job |-> Now, targets |-> targets]]
  /\ UNCHANGED <<joined, process, memory, jobs, delivered, budget>>

-----------------------------------------------------------------------------
(* The schedule worker.                                                     *)

BadInterrupted(row) == [row EXCEPT !.status = "scheduled"]
BadInterruptedIgnored(row) == row

\* What an interrupted run has sent is not known.
Interrupted(row) == [row EXCEPT !.status = "failed", !.results = Results(row.targets, "unknown")]

\* One transaction, tried once when the worker starts.
RecoverInterruptedBroadcastSchedules ==
  /\ process = "starting" /\ process' = "up"
  /\ \/ /\ jobs' = [job \in Jobs |-> IF jobs[job].status = "sending" THEN Interrupted(jobs[job])
                                     ELSE jobs[job]]
        /\ UNCHANGED <<lost, faults>>
     \/ Fault /\ lost' = TRUE /\ UNCHANGED jobs
  /\ UNCHANGED <<joined, memory, senders, delivered, crashes>>

ClaimDueBroadcastSchedule(job) ==
  /\ process = "up" /\ ready /\ senders.worker = Idle
  /\ jobs[job].status = "scheduled" /\ jobs[job].due
  /\ jobs' = [jobs EXCEPT ![job].status = "sending"]
  /\ senders' = [senders EXCEPT !.worker = [step |-> "verifying", job |-> job,
                                            targets |-> jobs[job].targets]]
  /\ UNCHANGED <<joined, process, memory, delivered, budget>>

-----------------------------------------------------------------------------
(* Sending, by the worker or by the request.                                *)

\* joinedBroadcastGroups: without the list nothing is sent.
Verify(sender) ==
  LET doing == senders[sender]
      Send(members) ==
        [step |-> "sending", job |-> doing.job, joined |-> members, rest |-> doing.targets,
         batch |-> {}, results |-> <<>>]
  IN /\ doing.step = "verifying"
     /\ \/ /\ ready /\ senders' = [senders EXCEPT ![sender] = Send(joined)]
           /\ UNCHANGED faults
        \/ /\ IF ready THEN Fault ELSE UNCHANGED faults
           /\ senders' = [senders EXCEPT ![sender] =
                [Send({}) EXCEPT !.rest = {}, !.results = Results(doing.targets, "failed")]]
     /\ UNCHANGED <<joined, process, memory, jobs, delivered, lost, crashes>>

BatchLimit(left) == IF left < BatchSize THEN left ELSE BatchSize

\* The next batch starts when every send of the last one is over.
StartBatch(sender) ==
  LET doing == senders[sender]
      left == Cardinality(doing.rest)
  IN /\ doing.step = "sending" /\ doing.batch = {} /\ doing.rest # {}
     /\ \E batch \in SUBSET doing.rest :
          /\ Cardinality(batch) = BatchLimit(left)
          /\ senders' = [senders EXCEPT ![sender].batch = batch, ![sender].rest = @ \ batch]
     /\ UNCHANGED <<joined, process, memory, jobs, delivered, budget>>

\* One goroutine of a batch.  The order the code tries things in: the bot left
\* the group, the adapter stops, the mentions cannot be read, the send.
SendTarget(sender, group) ==
  LET doing == senders[sender]
      Ends(result) ==
        senders' = [senders EXCEPT
          ![sender].batch = @ \ {group},
          ![sender].results = [g \in DOMAIN @ \cup {group} |-> IF g = group THEN result ELSE @[g]]]
      Delivered == delivered' = [delivered EXCEPT ![doing.job][group] = @ + 1]
  IN /\ doing.step = "sending" /\ group \in doing.batch
     /\ \/ /\ group \notin doing.joined \/ process = "stopping"
           /\ Ends("failed") /\ UNCHANGED <<delivered, faults>>
        \/ /\ group \in doing.joined /\ process = "up"
           /\ Ends("failed") /\ Fault /\ UNCHANGED delivered
        \/ /\ group \in doing.joined /\ process = "up" /\ ready
           /\ Ends("sent") /\ Delivered /\ UNCHANGED faults
        \/ /\ group \in doing.joined
           /\ Ends("unsure") /\ (Delivered \/ UNCHANGED delivered)
           /\ IF ready THEN Fault ELSE UNCHANGED faults
     /\ UNCHANGED <<joined, process, memory, jobs, lost, crashes>>

SentAll(sender) ==
  senders[sender].step = "sending" /\ senders[sender].batch = {} /\ senders[sender].rest = {}

Outcome(results) ==
  LET sent == {group \in DOMAIN results : results[group] = "sent"}
  IN IF sent = DOMAIN results THEN "completed" ELSE IF sent # {} THEN "partial" ELSE "failed"

\* runBroadcastSchedule's end.  The worker goes on also when the row cannot be
\* closed, which is only logged.
FinishBroadcastSchedule ==
  LET doing == senders.worker
  IN /\ SentAll("worker")
     /\ senders' = [senders EXCEPT !.worker = Idle]
     /\ \/ /\ jobs[doing.job].status = "sending"
           /\ jobs' = [jobs EXCEPT ![doing.job].status = Outcome(doing.results),
                                   ![doing.job].results = doing.results]
           /\ UNCHANGED <<lost, faults>>
        \/ jobs[doing.job].status # "sending" /\ UNCHANGED <<jobs, lost, faults>>
        \/ Fault /\ lost' = TRUE /\ UNCHANGED jobs
     /\ UNCHANGED <<joined, process, memory, delivered, crashes>>

Answer ==
  /\ SentAll("direct")
  /\ senders' = [senders EXCEPT !.direct = [step |-> "done"]]
  /\ UNCHANGED <<joined, process, memory, jobs, delivered, budget>>

-----------------------------------------------------------------------------
Sending ==
  \/ \E sender \in Senders :
       \/ Verify(sender) \/ StartBatch(sender)
       \/ \E group \in Groups : SendTarget(sender, group)
  \/ FinishBroadcastSchedule
  \/ Answer

Worker ==
  \/ RecoverInterruptedBroadcastSchedules
  \/ \E job \in Jobs : ClaimDueBroadcastSchedule(job)

Requests ==
  \/ ListBroadcastGroups \/ HandlesExpire
  \/ ScheduleBroadcast \/ SaveBroadcastSchedule \/ BroadcastGroups
  \/ \E job \in Jobs : CancelBroadcastSchedule(job)

Account == GroupsChange \/ Reconnect \/ Start \/ Stop \/ Stopped \/ Crash

Next ==
  \/ Requests
  \/ Worker
  \/ Sending
  \/ Account
  \/ \E job \in Jobs : Due(job)

Spec == Init /\ [][Next]_vars

\* The worker runs, a call ends, and who is stopped or disconnected comes back.
Fairness ==
  /\ WF_vars(Sending) /\ WF_vars(Start) /\ WF_vars(Stopped)
  /\ WF_vars(RecoverInterruptedBroadcastSchedules)
  /\ WF_vars(Reconnect /\ ready')
  /\ \A job \in Jobs : WF_vars(ClaimDueBroadcastSchedule(job))

LiveSpec == Spec /\ Fairness

-----------------------------------------------------------------------------
RowResults ==
  UNION {[targets -> {"sent", "failed", "unsure", "unknown"}] : targets \in SUBSET Groups}
Row ==
  [status : {"none", "scheduled", "sending", "cancelled"} \cup Final, due : BOOLEAN,
   targets : SUBSET Groups, results : RowResults]

\* Rows, lists and counters stay within their types, and no batch is larger
\* than the request allows.
TypeOK ==
  /\ joined \subseteq Groups /\ handles \subseteq Groups /\ request \subseteq Groups
  /\ process \in {"down", "starting", "up", "stopping"} /\ {ready, lost} \subseteq BOOLEAN
  /\ jobs \in [Jobs -> Row]
  /\ \A sender \in Senders :
       LET doing == senders[sender]
       IN doing.step = "sending" => doing.batch \subseteq Groups /\ Cardinality(doing.batch) <= BatchSize
  /\ delivered \in [Jobs \cup {Now} -> [Groups -> Nat]]

\* A group gets a broadcast once, however the worker was interrupted, the row
\* could not be closed or the account reconnected.
SentAtMostOnce == \A job \in Jobs \cup {Now}, group \in Groups : delivered[job][group] <= 1

\* What a row says became of a broadcast is so: one that was cancelled reached
\* nobody, a group marked as sent got it, and one marked as failed before the
\* send did not.
RowsTellTheTruth ==
  \A job \in Jobs, group \in Groups :
    LET row == jobs[job]
    IN /\ row.status \in {"scheduled", "cancelled"} => delivered[job][group] = 0
       /\ row.status = "completed" /\ group \in row.targets => delivered[job][group] = 1
       /\ row.status \in Final =>
            /\ DOMAIN row.results = row.targets
            /\ group \in row.targets /\ row.results[group] = "sent" => delivered[job][group] = 1
            /\ group \in row.targets /\ row.results[group] = "failed" => delivered[job][group] = 0

\* What the table says is true, and nothing is sent beyond a batch at a time.
RowsAreSound == TypeOK /\ RowsTellTheTruth

\* A broadcast that is due is closed or cancelled in the end; not so when the
\* write that closes or recovers it failed.
DueBroadcastEnds ==
  \A job \in Jobs :
    jobs[job].due ~> (jobs[job].status \in Final \cup {"cancelled"} \/ lost)
=============================================================================

-------------------------- MODULE BroadcastsProofs --------------------------
(***************************************************************************)
(* Proofs about Broadcasts, for every finite set of groups, every set of   *)
(* broadcasts and every value of the bounds.                               *)
(***************************************************************************)
EXTENDS Broadcasts, FiniteSetTheorems, TLAPS

-----------------------------------------------------------------------------
(* What a sender can be doing, by its step.                                *)

Outcomes == UNION {[targets -> {"sent", "failed", "unsure"}] : targets \in SUBSET Groups}
Verifying == [step : {"verifying"}, job : Jobs \cup {Now}, targets : SUBSET Groups]
Busy == [step : {"sending"}, job : Jobs \cup {Now}, joined : SUBSET Groups,
         rest : SUBSET Groups, batch : SUBSET Groups, results : Outcomes]
Done == [step |-> "done"]
SenderStates == {Idle, Done} \cup Verifying \cup Busy

-----------------------------------------------------------------------------
(* The inductive invariant.                                                *)

StateOK ==
  /\ joined \in SUBSET Groups /\ handles \in SUBSET Groups /\ request \in SUBSET Groups
  /\ process \in {"down", "starting", "up", "stopping"}
  /\ jobs \in [Jobs -> Row]
  /\ senders \in [Senders -> SenderStates]
  /\ delivered \in [Jobs \cup {Now} -> [Groups -> Nat]]
FlagsOK == ready \in BOOLEAN /\ lost \in BOOLEAN

\* No batch is larger than the request allows.
BatchesOK ==
  \A sender \in Senders :
    senders[sender].step = "sending" => Cardinality(senders[sender].batch) <= BatchSize

\* The worker sends the row it claimed, which stays "sending" as long as it
\* does; and it does so only in a process that is past its recovery.
WorkerOwnsItsRow ==
  LET doing == senders["worker"]
  IN  /\ doing.step \in {"idle", "verifying", "sending"}
      /\ doing.step \in {"verifying", "sending"} =>
           /\ process \in {"up", "stopping"}
           /\ doing.job \in Jobs /\ jobs[doing.job].status = "sending"
      /\ doing.step = "verifying" => doing.targets = jobs[doing.job].targets
      /\ doing.step = "sending" =>
           doing.rest \cup doing.batch \cup DOMAIN doing.results = jobs[doing.job].targets

\* The request that sends at once has no row, and sends once.
DirectSendsNow ==
  LET doing == senders["direct"]
  IN  /\ doing.step \in {"verifying", "sending"} => doing.job = Now
      /\ doing.step = "idle" => \A group \in Groups : delivered[Now][group] = 0

\* What sender s has still to do is not done, and what it noted is so.
Knows(s) ==
  /\ s.step = "verifying" => \A group \in Groups : delivered[s.job][group] = 0
  /\ s.step = "sending" =>
       /\ s.rest \cap s.batch = {}
       /\ (s.rest \cup s.batch) \cap DOMAIN s.results = {}
       /\ \A group \in s.rest \cup s.batch : delivered[s.job][group] = 0
       /\ \A group \in DOMAIN s.results :
            /\ s.results[group] = "sent" => delivered[s.job][group] = 1
            /\ s.results[group] = "failed" => delivered[s.job][group] = 0
SendersKnow == \A sender \in Senders : Knows(senders[sender])

\* What row says is so, given what of it was delivered.
Truthful(row, got) ==
  /\ row.status \in {"none", "scheduled", "cancelled"} => \A group \in Groups : got[group] = 0
  /\ row.status \in Final =>
       /\ DOMAIN row.results = row.targets
       /\ \A group \in row.targets :
            /\ row.results[group] = "sent" => got[group] = 1
            /\ row.results[group] = "failed" => got[group] = 0
            /\ row.status = "completed" => row.results[group] = "sent"
RowsAreTruthful == \A job \in Jobs : Truthful(jobs[job], delivered[job])

IInv ==
  /\ StateOK /\ FlagsOK /\ BatchesOK
  /\ WorkerOwnsItsRow /\ DirectSendsNow /\ SendersKnow
  /\ RowsAreTruthful /\ SentAtMostOnce

-----------------------------------------------------------------------------
(* Lemmas.                                                                 *)

\* A state of a sender is one of four kinds, told apart by its step.
LEMMA Kinds ==
  ASSUME NEW s \in SenderStates
  PROVE  /\ s.step \in {"idle", "done", "verifying", "sending"}
         /\ s.step = "idle" => s = Idle
         /\ s.step = "done" => s = Done
         /\ s.step = "verifying" => s \in Verifying
         /\ s.step = "sending" => s \in Busy
         /\ (s = Idle => s.step = "idle") /\ (s = Done => s.step = "done")
  BY DEF SenderStates, Idle, Done, Verifying, Busy

LEMMA NoResults ==
  /\ <<>> \in Outcomes /\ DOMAIN <<>> = {}
  /\ <<>> \in RowResults
<1>1. DOMAIN <<>> = {} OBVIOUS
<1>2. <<>> \in [{} -> {"sent", "failed", "unsure"}] OBVIOUS
<1>3. <<>> \in [{} -> {"sent", "failed", "unsure", "unknown"}] OBVIOUS
<1>4. QED BY <1>1, <1>2, <1>3 DEF Outcomes, RowResults

LEMMA NoJobType == NoJob \in Row /\ NoJob.status = "none"
  BY NoResults DEF NoJob, Row

\* The results a sender keeps are results of a row.
LEMMA OutcomesFit ==
  ASSUME NEW o \in Outcomes
  PROVE  /\ DOMAIN o \in SUBSET Groups
         /\ o \in [DOMAIN o -> {"sent", "failed", "unsure"}]
         /\ o \in RowResults
<1>1. PICK D \in SUBSET Groups : o \in [D -> {"sent", "failed", "unsure"}] BY DEF Outcomes
<1>2. DOMAIN o = D BY <1>1
<1>3. o \in [D -> {"sent", "failed", "unsure", "unknown"}] BY <1>1
<1>4. QED BY <1>1, <1>2, <1>3 DEF RowResults

\* One result for every group of a set.
LEMMA ResultsType ==
  ASSUME NEW targets \in SUBSET Groups, NEW result
  PROVE  /\ DOMAIN Results(targets, result) = targets
         /\ \A group \in targets : Results(targets, result)[group] = result
         /\ result = "failed" => Results(targets, result) \in Outcomes
         /\ result = "unknown" => Results(targets, result) \in RowResults
<1> DEFINE all == Results(targets, result)
<1>1. DOMAIN all = targets /\ \A group \in targets : all[group] = result BY DEF Results
<1>2. result = "failed" => all \in [targets -> {"sent", "failed", "unsure"}] BY DEF Results
<1>3. result = "unknown" => all \in [targets -> {"sent", "failed", "unsure", "unknown"}]
  BY DEF Results
<1> HIDE DEF all
<1>4. result = "failed" => all \in Outcomes BY <1>2 DEF Outcomes
<1>5. result = "unknown" => all \in RowResults BY <1>3 DEF RowResults
<1>6. QED BY <1>1, <1>4, <1>5 DEF all

\* A batch is a set of groups, so that it can be counted.
LEMMA BatchesAreCounted ==
  ASSUME NEW b \in SUBSET Groups
  PROVE  /\ IsFiniteSet(b) /\ Cardinality(b) \in Nat
         /\ \A group : Cardinality(b \ {group}) <= Cardinality(b)
         /\ Cardinality({}) = 0
<1>1. IsFiniteSet(b) BY GroupsAreFinite, FS_Subset
<1>2. Cardinality(b) \in Nat BY <1>1, FS_CardinalityType
<1>3. ASSUME NEW group PROVE Cardinality(b \ {group}) <= Cardinality(b)
  <2>1. b \ {group} \subseteq b OBVIOUS
  <2>2. QED BY <1>1, <2>1, FS_Subset
<1>4. QED BY <1>1, <1>2, <1>3, FS_EmptySet

-----------------------------------------------------------------------------
LEMMA InitOK == Init => IInv
<1> SUFFICES ASSUME Init PROVE IInv OBVIOUS
<1>1. senders \in [Senders -> SenderStates] /\ \A s \in Senders : senders[s].step = "idle"
  BY DEF Init, SenderStates, Idle
<1>2. StateOK BY <1>1, NoJobType DEF StateOK, Init
<1>3. FlagsOK BY DEF FlagsOK, Init
<1>4. BatchesOK /\ SendersKnow BY <1>1 DEF BatchesOK, SendersKnow, Knows
<1>5. WorkerOwnsItsRow BY <1>1 DEF WorkerOwnsItsRow, Senders
<1>6. \A job \in Jobs \cup {Now}, group \in Groups : delivered[job][group] = 0 BY DEF Init
<1>7. DirectSendsNow BY <1>1, <1>6 DEF DirectSendsNow, Senders
<1>8. RowsAreTruthful
  BY <1>6, NoJobType DEF RowsAreTruthful, Truthful, Init, Final
<1>9. SentAtMostOnce BY <1>6 DEF SentAtMostOnce
<1>10. QED BY <1>2, <1>3, <1>4, <1>5, <1>7, <1>8, <1>9 DEF IInv

-----------------------------------------------------------------------------
(* Steps that no sender takes.                                             *)

\* Rows, senders and deliveries stay as they are.
LEMMA QuietKeeps ==
  ASSUME IInv, UNCHANGED <<jobs, senders, delivered>>,
         joined' \in SUBSET Groups, handles' \in SUBSET Groups, request' \in SUBSET Groups,
         ready' \in BOOLEAN, lost' \in BOOLEAN,
         process' \in {"down", "starting", "up", "stopping"},
         \/ process' \in {"up", "stopping"}
         \/ process' = process
         \/ senders["worker"].step \notin {"verifying", "sending"}
  PROVE  IInv'
<1>1. StateOK' BY DEF IInv, StateOK
<1>2. FlagsOK' BY DEF FlagsOK
<1>3. BatchesOK' BY DEF IInv, BatchesOK
<1>4. WorkerOwnsItsRow' BY DEF IInv, WorkerOwnsItsRow
<1>5. DirectSendsNow' BY DEF IInv, DirectSendsNow
<1>6. SendersKnow' BY DEF IInv, SendersKnow, Knows
<1>7. RowsAreTruthful' BY DEF IInv, RowsAreTruthful, Truthful
<1>8. SentAtMostOnce' BY DEF IInv, SentAtMostOnce
<1>9. QED BY <1>1, <1>2, <1>3, <1>4, <1>5, <1>6, <1>7, <1>8 DEF IInv

LEMMA GroupsChangeStep == ASSUME IInv, GroupsChange PROVE IInv'
<1>1. joined' \in SUBSET Groups BY DEF GroupsChange, IInv, StateOK
<1>2. UNCHANGED <<process, memory, jobs, senders, delivered, lost>> BY DEF GroupsChange
<1>3. lost' \in BOOLEAN /\ ready' \in BOOLEAN BY <1>2 DEF memory, IInv, FlagsOK
<1>4. QED BY <1>1, <1>2, <1>3, QuietKeeps DEF memory, IInv, StateOK

LEMMA ReconnectStep == ASSUME IInv, Reconnect PROVE IInv'
<1>1. ready' \in BOOLEAN /\ lost' \in BOOLEAN BY DEF Reconnect, IInv, FlagsOK
<1>2. handles' = {} /\ UNCHANGED <<joined, process, request, jobs, senders, delivered>>
  BY DEF Reconnect
<1>3. QED BY <1>1, <1>2, QuietKeeps DEF IInv, StateOK

LEMMA ProcessStep == ASSUME IInv, Start \/ Stop \/ Stopped PROVE IInv'
<1>1. ready' \in BOOLEAN /\ lost' \in BOOLEAN
  BY DEF Start, Stop, Stopped, memory, budget, IInv, FlagsOK
<1>2. /\ UNCHANGED <<joined, jobs, senders, delivered>>
      /\ (request' = request \/ request' = {}) /\ (handles' = handles \/ handles' = {})
      /\ process' \in {"down", "starting", "up", "stopping"}
  BY DEF Start, Stop, Stopped, memory, budget
<1>3. \/ process' \in {"up", "stopping"} \/ process' = process
      \/ senders["worker"].step \notin {"verifying", "sending"}
  BY DEF Start, Stop, Stopped, IInv, WorkerOwnsItsRow, Senders
<1>4. QED BY <1>1, <1>2, <1>3, QuietKeeps DEF IInv, StateOK

LEMMA CrashStep == ASSUME IInv, Crash PROVE IInv'
<1> DEFINE w == senders'["worker"]
           d == senders'["direct"]
<1>1. /\ process' = "down" /\ ready' = FALSE /\ handles' = {} /\ request' = {}
      /\ UNCHANGED <<joined, jobs, delivered, lost>>
      /\ senders' = [worker |-> Idle,
                     direct |-> IF senders.direct = Idle THEN Idle ELSE [step |-> "done"]]
  BY DEF Crash
<1>2. w = Idle /\ d = (IF senders["direct"] = Idle THEN Idle ELSE Done)
      /\ senders' \in [Senders -> SenderStates]
  BY <1>1 DEF Senders, SenderStates, Done
<1>3. w.step = "idle" /\ d.step \in {"idle", "done"}
      /\ (d.step = "idle" => senders["direct"].step = "idle")
  BY <1>2 DEF Idle, Done
<1>4. \A s \in Senders : senders'[s].step \notin {"verifying", "sending"}
  BY <1>3 DEF Senders
<1> HIDE DEF w, d
<1>5. StateOK' BY <1>1, <1>2 DEF IInv, StateOK
<1>6. FlagsOK' BY <1>1 DEF IInv, FlagsOK
<1>7. BatchesOK' /\ SendersKnow' BY <1>4 DEF BatchesOK, SendersKnow, Knows
<1>8. WorkerOwnsItsRow' BY <1>3 DEF WorkerOwnsItsRow, w
<1>9. DirectSendsNow' BY <1>1, <1>3 DEF IInv, DirectSendsNow, d
<1>10. RowsAreTruthful' /\ SentAtMostOnce'
  BY <1>1 DEF IInv, RowsAreTruthful, Truthful, SentAtMostOnce
<1>11. QED BY <1>5, <1>6, <1>7, <1>8, <1>9, <1>10 DEF IInv

LEMMA ListStep ==
  ASSUME IInv, ListBroadcastGroups \/ HandlesExpire \/ ScheduleBroadcast PROVE IInv'
<1>1. /\ UNCHANGED <<joined, process, ready, jobs, senders, delivered, budget>>
      /\ handles' \in SUBSET Groups /\ request' \in SUBSET Groups
  BY DEF ListBroadcastGroups, HandlesExpire, ScheduleBroadcast, IInv, StateOK
<1>2. ready' \in BOOLEAN /\ lost' \in BOOLEAN BY <1>1 DEF budget, IInv, FlagsOK
<1>3. QED BY <1>1, <1>2, QuietKeeps DEF IInv, StateOK

\* The row of one broadcast, which nobody sends, is written.
LEMMA RowKeeps ==
  ASSUME IInv, NEW job \in Jobs, NEW row \in Row, jobs' = [jobs EXCEPT ![job] = row],
         jobs[job].status # "sending", Truthful(row, delivered[job]),
         UNCHANGED <<joined, process, ready, handles, senders, delivered, lost>>,
         request' \in SUBSET Groups
  PROVE  IInv'
<1>1. /\ jobs' \in [Jobs -> Row] /\ jobs'[job] = row
      /\ \A other \in Jobs \ {job} : jobs'[other] = jobs[other]
  BY DEF IInv, StateOK
<1>2. StateOK' BY <1>1 DEF IInv, StateOK
<1>3. FlagsOK' BY DEF IInv, FlagsOK
<1>4. BatchesOK' BY DEF IInv, BatchesOK
<1>5. WorkerOwnsItsRow' BY <1>1 DEF IInv, WorkerOwnsItsRow
<1>6. DirectSendsNow' BY DEF IInv, DirectSendsNow
<1>7. SendersKnow' BY DEF IInv, SendersKnow, Knows
<1>8. RowsAreTruthful' BY <1>1 DEF IInv, RowsAreTruthful, Truthful
<1>9. SentAtMostOnce' BY DEF IInv, SentAtMostOnce
<1>10. QED BY <1>2, <1>3, <1>4, <1>5, <1>6, <1>7, <1>8, <1>9 DEF IInv

LEMMA SaveStep == ASSUME IInv, SaveBroadcastSchedule PROVE IInv'
<1>1. /\ request' = {}
      /\ UNCHANGED <<joined, process, ready, handles, senders, delivered, lost>>
  BY DEF SaveBroadcastSchedule
<1>2. CASE jobs' = jobs
  <2>1. ready' \in BOOLEAN /\ lost' \in BOOLEAN BY <1>1 DEF IInv, FlagsOK
  <2>2. QED BY <1>1, <1>2, <2>1, QuietKeeps DEF IInv, StateOK
<1>3. CASE jobs' # jobs
  <2> DEFINE row == [NoJob EXCEPT !.status = "scheduled", !.targets = request]
  <2>1. PICK job \in Jobs : jobs[job] = NoJob /\ jobs' = [jobs EXCEPT ![job] = row]
    BY <1>3 DEF SaveBroadcastSchedule
  <2>2. row \in Row /\ row.status = "scheduled"
    BY NoResults DEF NoJob, Row, IInv, StateOK
  <2> HIDE DEF row
  <2>3. Truthful(row, delivered[job])
    BY <2>1, <2>2, NoJobType DEF IInv, RowsAreTruthful, Truthful, Final
  <2>4. QED BY <1>1, <2>1, <2>2, <2>3, NoJobType, RowKeeps
<1>4. QED BY <1>2, <1>3

LEMMA DueStep == ASSUME IInv, NEW job \in Jobs, Due(job) PROVE IInv'
<1> DEFINE row == [jobs[job] EXCEPT !.due = TRUE]
<1>1. /\ jobs[job].status = "scheduled" /\ jobs' = [jobs EXCEPT ![job] = row]
      /\ UNCHANGED <<joined, process, ready, handles, request, senders, delivered, lost>>
  BY DEF Due, memory, budget, IInv, StateOK
<1>2. jobs[job] \in Row BY DEF IInv, StateOK
<1>3. row \in Row /\ row.status = "scheduled" BY <1>1, <1>2 DEF Row
<1> HIDE DEF row
<1>4. Truthful(row, delivered[job])
  BY <1>1, <1>3 DEF IInv, RowsAreTruthful, Truthful, Final
<1>5. QED BY <1>1, <1>3, <1>4, RowKeeps DEF IInv, StateOK

LEMMA CancelStep == ASSUME IInv, NEW job \in Jobs, CancelBroadcastSchedule(job) PROVE IInv'
<1> DEFINE row == [jobs[job] EXCEPT !.status = "cancelled"]
<1>1. /\ jobs[job].status = "scheduled" /\ jobs' = [jobs EXCEPT ![job] = row]
      /\ UNCHANGED <<joined, process, ready, handles, request, senders, delivered, lost>>
  BY DEF CancelBroadcastSchedule, Cancellable, memory, budget, IInv, StateOK
<1>2. jobs[job] \in Row BY DEF IInv, StateOK
<1>3. row \in Row /\ row.status = "cancelled" BY <1>1, <1>2 DEF Row
<1> HIDE DEF row
<1>4. Truthful(row, delivered[job])
  BY <1>1, <1>3 DEF IInv, RowsAreTruthful, Truthful, Final
<1>5. QED BY <1>1, <1>3, <1>4, RowKeeps DEF IInv, StateOK

\* What a row that was interrupted says is so.
LEMMA InterruptedIsTruthful ==
  ASSUME NEW row \in Row, NEW got
  PROVE  Interrupted(row) \in Row /\ Truthful(Interrupted(row), got)
<1> DEFINE unknown == Results(row.targets, "unknown")
           next == Interrupted(row)
<1>1. row.targets \in SUBSET Groups BY DEF Row
<1>2. DOMAIN unknown = row.targets /\ \A group \in row.targets : unknown[group] = "unknown"
  BY <1>1, ResultsType
<1>3. unknown \in RowResults BY <1>1, ResultsType
<1>4. next = [row EXCEPT !.status = "failed", !.results = unknown] BY DEF Interrupted
<1> HIDE DEF unknown, next
<1>5. next \in Row /\ next.status = "failed" /\ next.targets = row.targets /\ next.results = unknown
  BY <1>3, <1>4 DEF Row, Final
<1>6. Truthful(next, got) BY <1>2, <1>5 DEF Truthful
<1>7. QED BY <1>5, <1>6 DEF next

LEMMA RecoverStep == ASSUME IInv, RecoverInterruptedBroadcastSchedules PROVE IInv'
<1>1. /\ process = "starting" /\ process' = "up"
      /\ UNCHANGED <<joined, memory, senders, delivered>>
  BY DEF RecoverInterruptedBroadcastSchedules
<1>2. ready' \in BOOLEAN BY <1>1 DEF memory, IInv, FlagsOK
<1>3. lost' \in BOOLEAN BY DEF RecoverInterruptedBroadcastSchedules, IInv, FlagsOK
<1>4. CASE jobs' = jobs
  BY <1>1, <1>2, <1>3, <1>4, QuietKeeps DEF memory, IInv, StateOK
<1>5. CASE jobs' # jobs
  <2>1. jobs' = [job \in Jobs |-> IF jobs[job].status = "sending" THEN Interrupted(jobs[job])
                                  ELSE jobs[job]]
    BY <1>5 DEF RecoverInterruptedBroadcastSchedules
  <2>2. \A job \in Jobs : jobs[job] \in Row BY DEF IInv, StateOK
  <2>3. jobs' \in [Jobs -> Row] BY <2>1, <2>2, InterruptedIsTruthful
  <2>4. StateOK' BY <1>1, <2>3 DEF memory, IInv, StateOK
  <2>5. FlagsOK' BY <1>2, <1>3 DEF FlagsOK
  <2>6. BatchesOK' BY <1>1 DEF IInv, BatchesOK
  <2>7. WorkerOwnsItsRow' BY <1>1 DEF IInv, WorkerOwnsItsRow
  <2>8. DirectSendsNow' BY <1>1 DEF IInv, DirectSendsNow
  <2>9. SendersKnow' BY <1>1 DEF IInv, SendersKnow, Knows
  <2>10. RowsAreTruthful'
    <3> SUFFICES ASSUME NEW job \in Jobs PROVE Truthful(jobs'[job], delivered[job])
      BY <1>1 DEF RowsAreTruthful
    <3>1. CASE jobs[job].status = "sending" BY <2>1, <2>2, <3>1, InterruptedIsTruthful
    <3>2. CASE jobs[job].status # "sending" BY <2>1, <3>2 DEF IInv, RowsAreTruthful
    <3>3. QED BY <3>1, <3>2
  <2>11. SentAtMostOnce' BY <1>1 DEF IInv, SentAtMostOnce
  <2>12. QED BY <2>4, <2>5, <2>6, <2>7, <2>8, <2>9, <2>10, <2>11 DEF IInv
<1>6. QED BY <1>4, <1>5

-----------------------------------------------------------------------------
(* Steps of the senders.                                                   *)

\* The two senders never send the same broadcast.
LEMMA JobsDiffer ==
  ASSUME IInv, NEW s \in Senders, NEW o \in Senders, s # o,
         senders[s].step \in {"verifying", "sending"}, senders[o].step \in {"verifying", "sending"}
  PROVE  senders[s].job # senders[o].job
  BY BroadcastsAreDistinct DEF IInv, WorkerOwnsItsRow, DirectSendsNow, Senders

\* A sender that is at work goes on, and perhaps reaches a group.
LEMMA SendingKeeps ==
  ASSUME IInv, NEW sender \in Senders, NEW next \in Busy,
         senders' = [senders EXCEPT ![sender] = next],
         senders[sender].step \in {"verifying", "sending"},
         next.job = senders[sender].job,
         senders[sender].step = "verifying" =>
           next.rest \cup next.batch \cup DOMAIN next.results = senders[sender].targets,
         senders[sender].step = "sending" =>
           next.rest \cup next.batch \cup DOMAIN next.results
             = senders[sender].rest \cup senders[sender].batch \cup DOMAIN senders[sender].results,
         Cardinality(next.batch) <= BatchSize,
         delivered' \in [Jobs \cup {Now} -> [Groups -> Nat]],
         \A job \in Jobs \cup {Now} : job # next.job => delivered'[job] = delivered[job],
         \A group \in Groups : delivered'[next.job][group] <= 1,
         next.rest \cap next.batch = {},
         (next.rest \cup next.batch) \cap DOMAIN next.results = {},
         \A group \in next.rest \cup next.batch : delivered'[next.job][group] = 0,
         \A group \in DOMAIN next.results :
           /\ next.results[group] = "sent" => delivered'[next.job][group] = 1
           /\ next.results[group] = "failed" => delivered'[next.job][group] = 0,
         UNCHANGED <<joined, process, ready, handles, request, jobs, lost>>
  PROVE  IInv'
<1>1. next.step = "sending" BY DEF Busy
<1>2. /\ senders' \in [Senders -> SenderStates] /\ senders'[sender] = next
      /\ \A other \in Senders \ {sender} : senders'[other] = senders[other]
  BY DEF IInv, StateOK, SenderStates
<1>3. StateOK' BY <1>2 DEF IInv, StateOK
<1>4. FlagsOK' BY DEF IInv, FlagsOK
<1>5. BatchesOK' BY <1>2 DEF IInv, BatchesOK
<1>6. WorkerOwnsItsRow'
  <2>1. CASE sender = "worker" BY <1>1, <1>2, <2>1 DEF IInv, WorkerOwnsItsRow
  <2>2. CASE sender # "worker" BY <1>2, <2>2 DEF IInv, WorkerOwnsItsRow, Senders
  <2>3. QED BY <2>1, <2>2
<1>7. DirectSendsNow'
  <2>1. CASE sender = "direct" BY <1>1, <1>2, <2>1 DEF IInv, DirectSendsNow
  <2>2. CASE sender = "worker"
    <3>1. next.job # Now BY <2>2, BroadcastsAreDistinct DEF IInv, WorkerOwnsItsRow
    <3>2. QED BY <1>2, <2>2, <3>1 DEF IInv, DirectSendsNow, Senders
  <2>3. QED BY <2>1, <2>2 DEF Senders
<1>8. SendersKnow'
  <2>1. ASSUME NEW other \in Senders \ {sender},
               senders[other].step \in {"verifying", "sending"}
        PROVE  senders[other].job \in Jobs \cup {Now}
               /\ delivered'[senders[other].job] = delivered[senders[other].job]
    <3>1. senders[other].job \in Jobs \cup {Now}
      BY <2>1, Kinds DEF IInv, StateOK, Verifying, Busy
    <3>2. senders[other].job # next.job BY <2>1, JobsDiffer
    <3>3. QED BY <3>1, <3>2
  <2>2. ASSUME NEW other \in Senders \ {sender} PROVE Knows(senders[other])'
    BY <1>2, <2>1 DEF IInv, SendersKnow, Knows
  <2>3. Knows(senders[sender])' BY <1>1, <1>2 DEF Knows
  <2>4. QED BY <2>2, <2>3 DEF SendersKnow
<1>9. RowsAreTruthful'
  <2> SUFFICES ASSUME NEW job \in Jobs PROVE Truthful(jobs[job], delivered'[job])
    BY DEF RowsAreTruthful
  <2>1. CASE job = next.job
    <3>1. jobs[job].status = "sending"
      BY <2>1, BroadcastsAreDistinct DEF IInv, WorkerOwnsItsRow, DirectSendsNow, Senders
    <3>2. QED BY <3>1 DEF Truthful, Final
  <2>2. CASE job # next.job BY <2>2 DEF IInv, RowsAreTruthful
  <2>3. QED BY <2>1, <2>2
<1>10. SentAtMostOnce' BY DEF IInv, SentAtMostOnce
<1>11. QED BY <1>3, <1>4, <1>5, <1>6, <1>7, <1>8, <1>9, <1>10 DEF IInv

LEMMA VerifyStep == ASSUME IInv, NEW sender \in Senders, Verify(sender) PROVE IInv'
<1> DEFINE doing == senders[sender]
<1>1. doing.step = "verifying" /\ UNCHANGED <<joined, process, memory, jobs, delivered, lost>>
  BY DEF Verify
<1>2. doing \in Verifying BY <1>1, Kinds DEF IInv, StateOK
<1>3. doing.job \in Jobs \cup {Now} /\ doing.targets \in SUBSET Groups
      /\ \A group \in Groups : delivered[doing.job][group] = 0
  BY <1>1, <1>2 DEF Verifying, IInv, SendersKnow, Knows
<1>4. PICK next \in Busy :
        /\ senders' = [senders EXCEPT ![sender] = next]
        /\ next.job = doing.job /\ next.batch = {}
        /\ \/ next.rest = doing.targets /\ DOMAIN next.results = {}
           \/ /\ next.rest = {} /\ DOMAIN next.results = doing.targets
              /\ \A group \in doing.targets : next.results[group] = "failed"
  <2>1. CASE senders' = [senders EXCEPT ![sender] =
               [step |-> "sending", job |-> doing.job, joined |-> joined, rest |-> doing.targets,
                batch |-> {}, results |-> <<>>]]
    <3> DEFINE n == [step |-> "sending", job |-> doing.job, joined |-> joined,
                     rest |-> doing.targets, batch |-> {}, results |-> <<>>]
    <3>1. n \in Busy BY <1>3, NoResults DEF Busy, IInv, StateOK
    <3>2. QED BY <2>1, <3>1, NoResults
  <2>2. CASE senders' = [senders EXCEPT ![sender] =
               [step |-> "sending", job |-> doing.job, joined |-> {}, rest |-> {},
                batch |-> {}, results |-> Results(doing.targets, "failed")]]
    <3> DEFINE n == [step |-> "sending", job |-> doing.job, joined |-> {}, rest |-> {},
                     batch |-> {}, results |-> Results(doing.targets, "failed")]
           failed == Results(doing.targets, "failed")
    <3>1. /\ DOMAIN failed = doing.targets /\ failed \in Outcomes
          /\ \A group \in doing.targets : failed[group] = "failed"
      BY <1>3, ResultsType
    <3> HIDE DEF failed
    <3>2. n \in Busy BY <1>3, <3>1 DEF Busy, failed
    <3>3. n.results = failed /\ n.rest = {} /\ n.batch = {} /\ n.job = doing.job BY DEF failed
    <3>4. senders' = [senders EXCEPT ![sender] = n] BY <2>2
    <3> HIDE DEF n
    <3>5. QED BY <3>1, <3>2, <3>3, <3>4
  <2>3. QED BY <2>1, <2>2 DEF Verify
<1>5. delivered' \in [Jobs \cup {Now} -> [Groups -> Nat]]
      /\ \A group \in Groups : delivered'[next.job][group] <= 1
  BY <1>1, <1>3, <1>4 DEF IInv, StateOK
<1>6. Cardinality(next.batch) <= BatchSize
  BY <1>4, BatchesAreCounted, BatchesAreNotEmpty
<1>7. UNCHANGED <<joined, process, ready, handles, request, jobs, delivered, lost>>
  BY <1>1 DEF memory
<1>8. /\ next.rest \cup next.batch \cup DOMAIN next.results = doing.targets
      /\ next.rest \cap next.batch = {} /\ (next.rest \cup next.batch) \cap DOMAIN next.results = {}
  BY <1>4
<1>9. \A group \in next.rest \cup next.batch : delivered'[next.job][group] = 0
  BY <1>3, <1>4, <1>7
<1>10. \A group \in DOMAIN next.results :
         /\ next.results[group] = "sent" => delivered'[next.job][group] = 1
         /\ next.results[group] = "failed" => delivered'[next.job][group] = 0
  BY <1>3, <1>4, <1>7
<1>11. QED
  BY <1>1, <1>4, <1>5, <1>6, <1>7, <1>8, <1>9, <1>10, SendingKeeps

\* A sender that is sending has its parts in order.
LEMMA BusySender ==
  ASSUME IInv, NEW sender \in Senders, senders[sender].step = "sending"
  PROVE  LET s == senders[sender]
         IN  /\ s \in Busy /\ s.job \in Jobs \cup {Now}
             /\ s.rest \in SUBSET Groups /\ s.batch \in SUBSET Groups /\ s.results \in Outcomes
             /\ DOMAIN s.results \in SUBSET Groups
             /\ Cardinality(s.batch) <= BatchSize
             /\ s.rest \cap s.batch = {} /\ (s.rest \cup s.batch) \cap DOMAIN s.results = {}
             /\ \A group \in s.rest \cup s.batch : delivered[s.job][group] = 0
             /\ \A group \in DOMAIN s.results :
                  /\ s.results[group] = "sent" => delivered[s.job][group] = 1
                  /\ s.results[group] = "failed" => delivered[s.job][group] = 0
<1> DEFINE s == senders[sender]
<1>1. s \in Busy BY Kinds DEF IInv, StateOK
<1>2. s.job \in Jobs \cup {Now} /\ s.rest \in SUBSET Groups /\ s.batch \in SUBSET Groups
      /\ s.results \in Outcomes
  BY <1>1 DEF Busy
<1>3. DOMAIN s.results \in SUBSET Groups BY <1>2, OutcomesFit
<1>4. Knows(s) BY DEF IInv, SendersKnow
<1>5. QED BY <1>1, <1>2, <1>3, <1>4 DEF Knows, IInv, BatchesOK

LEMMA StartBatchStep == ASSUME IInv, NEW sender \in Senders, StartBatch(sender) PROVE IInv'
<1> DEFINE s == senders[sender]
<1>1. /\ s.step = "sending" /\ s.batch = {}
      /\ UNCHANGED <<joined, process, memory, jobs, delivered, budget>>
  BY DEF StartBatch
<1>2. PICK batch \in SUBSET s.rest :
        /\ Cardinality(batch) = BatchLimit(Cardinality(s.rest))
        /\ senders' = [senders EXCEPT ![sender].batch = batch, ![sender].rest = @ \ batch]
  BY DEF StartBatch
<1> DEFINE next == [s EXCEPT !.batch = batch, !.rest = @ \ batch]
<1>3. s \in Busy /\ s.rest \in SUBSET Groups BY <1>1, BusySender
<1>4. /\ next \in Busy /\ next.job = s.job /\ next.batch = batch /\ next.rest = s.rest \ batch
      /\ next.results = s.results
  BY <1>3 DEF Busy
<1>5. senders' = [senders EXCEPT ![sender] = next] BY <1>2 DEF IInv, StateOK
<1> HIDE DEF next
<1>6. Cardinality(next.batch) <= BatchSize
  <2>1. Cardinality(s.rest) \in Nat BY <1>3, BatchesAreCounted
  <2>2. QED BY <1>2, <1>4, <2>1, BatchesAreNotEmpty DEF BatchLimit
<1>7. UNCHANGED <<joined, process, ready, handles, request, jobs, delivered, lost>>
  BY <1>1 DEF memory, budget
<1>8. /\ next.rest \cup next.batch \cup DOMAIN next.results = s.rest \cup s.batch \cup DOMAIN s.results
      /\ next.rest \cap next.batch = {} /\ (next.rest \cup next.batch) \cap DOMAIN next.results = {}
  BY <1>1, <1>4, BusySender
<1>9. \A group \in next.rest \cup next.batch : delivered'[next.job][group] = 0
  BY <1>1, <1>4, <1>7, BusySender
<1>10. \A group \in DOMAIN next.results :
         /\ next.results[group] = "sent" => delivered'[next.job][group] = 1
         /\ next.results[group] = "failed" => delivered'[next.job][group] = 0
  BY <1>1, <1>4, <1>7, BusySender
<1>11. delivered' \in [Jobs \cup {Now} -> [Groups -> Nat]]
       /\ \A group \in Groups : delivered'[next.job][group] <= 1
  BY <1>1, <1>4, <1>7, BusySender DEF IInv, StateOK, SentAtMostOnce
<1>12. QED
  BY <1>1, <1>4, <1>5, <1>6, <1>7, <1>8, <1>9, <1>10, <1>11, SendingKeeps

\* One more group of a batch has its result.
LEMMA OneMoreResult ==
  ASSUME NEW o \in Outcomes, NEW group \in Groups, NEW result \in {"sent", "failed", "unsure"},
         NEW more, more = [g \in DOMAIN o \cup {group} |-> IF g = group THEN result ELSE o[g]]
  PROVE  more \in Outcomes /\ DOMAIN more = DOMAIN o \cup {group}
         /\ more[group] = result /\ \A g \in DOMAIN o \ {group} : more[g] = o[g]
<1>1. DOMAIN o \in SUBSET Groups /\ o \in [DOMAIN o -> {"sent", "failed", "unsure"}]
  BY OutcomesFit
<1>2. more \in [DOMAIN o \cup {group} -> {"sent", "failed", "unsure"}] BY <1>1
<1>3. DOMAIN o \cup {group} \in SUBSET Groups BY <1>1
<1>4. more \in Outcomes BY <1>2, <1>3 DEF Outcomes
<1>5. QED BY <1>4

LEMMA SendTargetStep ==
  ASSUME IInv, NEW sender \in Senders, NEW group \in Groups, SendTarget(sender, group) PROVE IInv'
<1> DEFINE s == senders[sender]
           old == s.results
           Reached == [delivered EXCEPT ![s.job][group] = @ + 1]
<1>1. /\ s.step = "sending" /\ group \in s.batch
      /\ UNCHANGED <<joined, process, memory, jobs, lost, crashes>>
  BY DEF SendTarget
<1>2. PICK result \in {"sent", "failed", "unsure"} :
        /\ senders' = [senders EXCEPT ![sender].batch = @ \ {group},
             ![sender].results = [g \in DOMAIN @ \cup {group} |-> IF g = group THEN result ELSE @[g]]]
        /\ result = "sent" => delivered' = Reached
        /\ result = "failed" => delivered' = delivered
        /\ delivered' = Reached \/ delivered' = delivered
  BY DEF SendTarget
<1> DEFINE more == [g \in DOMAIN old \cup {group} |-> IF g = group THEN result ELSE old[g]]
           next == [s EXCEPT !.batch = @ \ {group}, !.results = more]
<1>3. /\ s \in Busy /\ s.job \in Jobs \cup {Now}
      /\ s.rest \in SUBSET Groups /\ s.batch \in SUBSET Groups /\ s.results \in Outcomes
      /\ s.rest \cap s.batch = {} /\ (s.rest \cup s.batch) \cap DOMAIN s.results = {}
  BY <1>1, BusySender
<1>4. more \in Outcomes /\ DOMAIN more = DOMAIN s.results \cup {group}
      /\ more[group] = result /\ \A g \in DOMAIN s.results \ {group} : more[g] = s.results[g]
  <2>1. old \in Outcomes BY <1>3
  <2> HIDE DEF old
  <2>2. more \in Outcomes /\ DOMAIN more = DOMAIN old \cup {group}
        /\ more[group] = result /\ \A g \in DOMAIN old \ {group} : more[g] = old[g]
    BY <2>1, OneMoreResult
  <2>3. QED BY <2>2 DEF old
<1>5. senders' = [senders EXCEPT ![sender] = next] BY <1>2 DEF IInv, StateOK
<1> HIDE DEF more
<1>6. /\ next \in Busy /\ next.job = s.job /\ next.batch = s.batch \ {group}
      /\ next.rest = s.rest /\ next.results = more
  BY <1>3, <1>4 DEF Busy
<1> HIDE DEF next
<1>7. Cardinality(next.batch) <= BatchSize
  <2>1. Cardinality(s.batch) \in Nat /\ Cardinality(s.batch \ {group}) <= Cardinality(s.batch)
        /\ Cardinality(s.batch \ {group}) \in Nat
    BY <1>3, BatchesAreCounted
  <2>2. Cardinality(s.batch) <= BatchSize BY <1>1, BusySender
  <2>3. QED BY <1>6, <2>1, <2>2, BatchesAreNotEmpty
<1>8. UNCHANGED <<joined, process, ready, handles, request, jobs, lost>> BY <1>1 DEF memory
<1>9. /\ next.rest \cup next.batch \cup DOMAIN next.results = s.rest \cup s.batch \cup DOMAIN s.results
      /\ next.rest \cap next.batch = {} /\ (next.rest \cup next.batch) \cap DOMAIN next.results = {}
  BY <1>1, <1>3, <1>4, <1>6
<1>10. /\ delivered[s.job][group] = 0
       /\ \A g \in s.rest \cup s.batch : delivered[s.job][g] = 0
       /\ \A g \in DOMAIN s.results :
            /\ s.results[g] = "sent" => delivered[s.job][g] = 1
            /\ s.results[g] = "failed" => delivered[s.job][g] = 0
  BY <1>1, BusySender
<1>11. /\ delivered' \in [Jobs \cup {Now} -> [Groups -> Nat]]
       /\ \A job \in Jobs \cup {Now} : job # s.job => delivered'[job] = delivered[job]
       /\ \A g \in Groups \ {group} : delivered'[s.job][g] = delivered[s.job][g]
       /\ delivered'[s.job][group] \in {0, 1}
       /\ result = "sent" => delivered'[s.job][group] = 1
       /\ result = "failed" => delivered'[s.job][group] = 0
  <2>1. CASE delivered' = delivered
    BY <1>2, <1>3, <1>10, <2>1 DEF IInv, StateOK
  <2>2. CASE delivered' = Reached
    <3>1. delivered \in [Jobs \cup {Now} -> [Groups -> Nat]] BY DEF IInv, StateOK
    <3>2. /\ Reached \in [Jobs \cup {Now} -> [Groups -> Nat]]
          /\ Reached[s.job][group] = delivered[s.job][group] + 1
          /\ \A job \in Jobs \cup {Now} : job # s.job => Reached[job] = delivered[job]
          /\ \A g \in Groups \ {group} : Reached[s.job][g] = delivered[s.job][g]
      BY <1>3, <3>1
    <3> HIDE DEF Reached
    <3>3. /\ delivered' \in [Jobs \cup {Now} -> [Groups -> Nat]]
          /\ \A job \in Jobs \cup {Now} : job # s.job => delivered'[job] = delivered[job]
          /\ \A g \in Groups \ {group} : delivered'[s.job][g] = delivered[s.job][g]
      BY <2>2, <3>2
    <3>4. delivered'[s.job][group] = 1 BY <1>10, <2>2, <3>2
    <3>5. result # "failed" BY <1>2, <1>10, <3>4
    <3>6. QED BY <3>3, <3>4, <3>5
  <2>3. QED BY <1>2, <2>1, <2>2
<1>12. \A g \in next.rest \cup next.batch : delivered'[next.job][g] = 0
  <2>1. \A g \in next.rest \cup next.batch : g \in (s.rest \cup s.batch) \ {group}
    BY <1>1, <1>3, <1>6
  <2>2. QED BY <1>3, <1>6, <1>10, <1>11, <2>1
<1>13. \A g \in DOMAIN next.results :
         /\ next.results[g] = "sent" => delivered'[next.job][g] = 1
         /\ next.results[g] = "failed" => delivered'[next.job][g] = 0
  <2>1. group \notin DOMAIN s.results /\ DOMAIN s.results \in SUBSET Groups
    BY <1>1, <1>3, BusySender
  <2>2. ASSUME NEW g \in DOMAIN s.results
        PROVE  /\ more[g] = "sent" => delivered'[s.job][g] = 1
               /\ more[g] = "failed" => delivered'[s.job][g] = 0
    BY <1>4, <1>10, <1>11, <2>1, <2>2
  <2>3. /\ more[group] = "sent" => delivered'[s.job][group] = 1
        /\ more[group] = "failed" => delivered'[s.job][group] = 0
    BY <1>4, <1>11
  <2>4. QED BY <1>4, <1>6, <2>2, <2>3
<1>14. \A g \in Groups : delivered'[next.job][g] <= 1
  <2>1. \A g \in Groups : delivered[s.job][g] <= 1 BY <1>3 DEF IInv, SentAtMostOnce
  <2>2. QED BY <1>6, <1>11, <2>1
<1>15. QED
  BY <1>1, <1>3, <1>5, <1>6, <1>7, <1>8, <1>9, <1>11, <1>12, <1>13, <1>14, SendingKeeps

\* The worker takes the row of a broadcast that is due.
LEMMA ClaimStep == ASSUME IInv, NEW job \in Jobs, ClaimDueBroadcastSchedule(job) PROVE IInv'
<1> DEFINE row == [jobs[job] EXCEPT !.status = "sending"]
           next == [step |-> "verifying", job |-> job, targets |-> jobs[job].targets]
<1>1. /\ process = "up" /\ senders["worker"].step = "idle"
      /\ jobs[job].status = "scheduled" /\ jobs' = [jobs EXCEPT ![job] = row]
      /\ senders' = [senders EXCEPT !["worker"] = next]
      /\ UNCHANGED <<joined, process, ready, handles, request, delivered, lost>>
  <2>1. /\ senders["worker"] = Idle
        /\ jobs' = [jobs EXCEPT ![job].status = "sending"]
        /\ senders' = [senders EXCEPT !["worker"] = next]
    BY DEF ClaimDueBroadcastSchedule
  <2>2. jobs' = [jobs EXCEPT ![job] = row] BY <2>1 DEF IInv, StateOK
  <2>3. process = "up" /\ jobs[job].status = "scheduled"
        /\ UNCHANGED <<joined, process, ready, handles, request, delivered, lost>>
    BY DEF ClaimDueBroadcastSchedule, memory, budget
  <2>4. senders["worker"].step = "idle" BY <2>1 DEF Idle
  <2> HIDE DEF row, next
  <2>5. QED BY <2>1, <2>2, <2>3, <2>4
<1>2. jobs[job] \in Row BY DEF IInv, StateOK
<1>3. /\ row \in Row /\ row.status = "sending" /\ row.targets = jobs[job].targets
      /\ jobs[job].targets \in SUBSET Groups
  BY <1>2 DEF Row
<1>4. /\ next \in SenderStates /\ next.step = "verifying" /\ next.job = job
      /\ next.targets = jobs[job].targets
  BY <1>3 DEF SenderStates, Verifying
<1> HIDE DEF row, next
<1>5. /\ jobs' \in [Jobs -> Row] /\ jobs'[job] = row
      /\ \A other \in Jobs \ {job} : jobs'[other] = jobs[other]
  BY <1>1, <1>3 DEF IInv, StateOK
<1>6. /\ senders' \in [Senders -> SenderStates] /\ senders'["worker"] = next
      /\ senders'["direct"] = senders["direct"]
  BY <1>1, <1>4 DEF IInv, StateOK, Senders
<1>7. StateOK' BY <1>1, <1>5, <1>6 DEF IInv, StateOK
<1>8. FlagsOK' BY <1>1 DEF IInv, FlagsOK
<1>9. BatchesOK' BY <1>4, <1>6 DEF IInv, BatchesOK, Senders
<1>10. WorkerOwnsItsRow' BY <1>1, <1>3, <1>4, <1>5, <1>6 DEF WorkerOwnsItsRow
<1>11. DirectSendsNow' BY <1>1, <1>6 DEF IInv, DirectSendsNow
<1>12. SendersKnow'
  <2>1. \A group \in Groups : delivered[job][group] = 0
    BY <1>1 DEF IInv, RowsAreTruthful, Truthful
  <2>2. Knows(senders["worker"])' BY <1>1, <1>4, <1>6, <2>1 DEF Knows
  <2>3. Knows(senders["direct"])' BY <1>1, <1>6 DEF IInv, SendersKnow, Knows, Senders
  <2>4. QED BY <2>2, <2>3 DEF SendersKnow, Senders
<1>13. RowsAreTruthful' BY <1>1, <1>3, <1>5 DEF IInv, RowsAreTruthful, Truthful, Final
<1>14. SentAtMostOnce' BY <1>1 DEF IInv, SentAtMostOnce
<1>15. QED BY <1>7, <1>8, <1>9, <1>10, <1>11, <1>12, <1>13, <1>14 DEF IInv

\* A request starts to send at once, or has its answer.
LEMMA DirectStep == ASSUME IInv, BroadcastGroups \/ Answer PROVE IInv'
<1>1. PICK next \in SenderStates :
        /\ senders' = [senders EXCEPT !["direct"] = next]
        /\ next.step \in {"verifying", "done"}
        /\ next.step = "verifying" => next.job = Now /\ senders["direct"].step = "idle"
  <2>1. CASE BroadcastGroups
    <3>1. PICK targets \in SUBSET Groups :
            senders' = [senders EXCEPT !["direct"] = [step |-> "verifying", job |-> Now, targets |-> targets]]
            /\ senders["direct"] = Idle
      BY <2>1 DEF BroadcastGroups
    <3> DEFINE n == [step |-> "verifying", job |-> Now, targets |-> targets]
    <3>2. n \in SenderStates /\ n.step = "verifying" /\ n.job = Now
      BY DEF SenderStates, Verifying
    <3>3. senders["direct"].step = "idle" BY <3>1 DEF Idle
    <3>4. QED BY <3>1, <3>2, <3>3
  <2>2. CASE Answer
    <3>1. senders' = [senders EXCEPT !["direct"] = Done] BY <2>2 DEF Answer, Done
    <3>2. Done \in SenderStates /\ Done.step = "done" BY DEF SenderStates, Done
    <3>3. QED BY <3>1, <3>2
  <2>3. QED BY <2>1, <2>2
<1>2. UNCHANGED <<joined, process, ready, handles, request, jobs, delivered, lost>>
  BY DEF BroadcastGroups, Answer, memory, budget
<1>3. /\ senders' \in [Senders -> SenderStates] /\ senders'["direct"] = next
      /\ senders'["worker"] = senders["worker"]
  BY <1>1 DEF IInv, StateOK, Senders
<1>4. StateOK' BY <1>2, <1>3 DEF IInv, StateOK
<1>5. FlagsOK' BY <1>2 DEF IInv, FlagsOK
<1>6. BatchesOK' BY <1>1, <1>3 DEF IInv, BatchesOK, Senders
<1>7. WorkerOwnsItsRow' BY <1>2, <1>3 DEF IInv, WorkerOwnsItsRow
<1>8. DirectSendsNow' BY <1>1, <1>3 DEF DirectSendsNow
<1>9. SendersKnow'
  <2>1. Knows(senders["direct"])'
    BY <1>1, <1>2, <1>3 DEF Knows, IInv, DirectSendsNow
  <2>2. Knows(senders["worker"])' BY <1>2, <1>3 DEF IInv, SendersKnow, Knows, Senders
  <2>3. QED BY <2>1, <2>2 DEF SendersKnow, Senders
<1>10. RowsAreTruthful' BY <1>2 DEF IInv, RowsAreTruthful, Truthful
<1>11. SentAtMostOnce' BY <1>2 DEF IInv, SentAtMostOnce
<1>12. QED BY <1>4, <1>5, <1>6, <1>7, <1>8, <1>9, <1>10, <1>11 DEF IInv

Closed(row, results) == [row EXCEPT !.status = Outcome(results), !.results = results]

\* The row of a broadcast that was sent to the end says what became of it.
LEMMA FinishedIsTruthful ==
  ASSUME NEW row \in Row, NEW results \in Outcomes, NEW got, DOMAIN results = row.targets,
         \A group \in row.targets :
           /\ results[group] = "sent" => got[group] = 1
           /\ results[group] = "failed" => got[group] = 0
  PROVE  Closed(row, results) \in Row /\ Truthful(Closed(row, results), got)
<1> DEFINE next == Closed(row, results)
<1>1. Outcome(results) \in Final
      /\ (Outcome(results) = "completed" => \A group \in DOMAIN results : results[group] = "sent")
  BY DEF Outcome, Final
<1>2. results \in RowResults BY OutcomesFit
<1>3. /\ next \in Row /\ next.status = Outcome(results) /\ next.targets = row.targets
      /\ next.results = results
  BY <1>1, <1>2 DEF Row, Closed
<1> HIDE DEF next
<1>4. Truthful(next, got) BY <1>1, <1>3 DEF Truthful, Final
<1>5. QED BY <1>3, <1>4 DEF next

LEMMA FinishStep == ASSUME IInv, FinishBroadcastSchedule PROVE IInv'
<1> DEFINE doing == senders["worker"]
           job == doing.job
<1>1. /\ doing.step = "sending" /\ doing.batch = {} /\ doing.rest = {}
      /\ senders' = [senders EXCEPT !["worker"] = Idle]
      /\ UNCHANGED <<joined, process, ready, handles, request, delivered>>
  BY DEF FinishBroadcastSchedule, SentAll, memory
<1>2. lost' \in BOOLEAN BY DEF FinishBroadcastSchedule, IInv, FlagsOK
<1>3. job \in Jobs /\ jobs[job].status = "sending" /\ DOMAIN doing.results = jobs[job].targets
  BY <1>1 DEF IInv, WorkerOwnsItsRow
<1>4. \/ jobs' = jobs
      \/ jobs' = [jobs EXCEPT ![job] = Closed(jobs[job], doing.results)]
  BY <1>3 DEF FinishBroadcastSchedule, IInv, StateOK, Closed
<1>5. /\ jobs' \in [Jobs -> Row] /\ \A other \in Jobs \ {job} : jobs'[other] = jobs[other]
      /\ Truthful(jobs'[job], delivered[job])
  <2>1. CASE jobs' = jobs
    BY <2>1, <1>3 DEF IInv, StateOK, RowsAreTruthful
  <2>2. CASE jobs' = [jobs EXCEPT ![job] = Closed(jobs[job], doing.results)]
    <3>1. PICK row \in Row : row = jobs[job] BY <1>3 DEF IInv, StateOK
    <3>2. PICK results \in Outcomes : results = doing.results
      BY <1>1, BusySender DEF Senders
    <3>3. PICK got : got = delivered[job] OBVIOUS
    <3>4. \A group \in row.targets :
            /\ results[group] = "sent" => got[group] = 1
            /\ results[group] = "failed" => got[group] = 0
      BY <1>1, <1>3, <3>1, <3>2, <3>3, BusySender DEF Senders
    <3>5. DOMAIN results = row.targets BY <1>3, <3>1, <3>2
    <3>6. Closed(row, results) \in Row /\ Truthful(Closed(row, results), got)
      BY <3>4, <3>5, FinishedIsTruthful
    <3>7. jobs'[job] = Closed(row, results) /\ jobs' \in [Jobs -> Row]
          /\ \A other \in Jobs \ {job} : jobs'[other] = jobs[other]
      BY <1>3, <2>2, <3>1, <3>2, <3>6 DEF IInv, StateOK
    <3>8. QED BY <3>3, <3>6, <3>7
  <2>3. QED BY <1>4, <2>1, <2>2
<1>6. /\ senders' \in [Senders -> SenderStates] /\ senders'["worker"].step = "idle"
      /\ senders'["direct"] = senders["direct"]
  BY <1>1 DEF IInv, StateOK, Senders, SenderStates, Idle
<1>7. StateOK' BY <1>1, <1>5, <1>6 DEF IInv, StateOK
<1>8. FlagsOK' BY <1>1, <1>2 DEF IInv, FlagsOK
<1>9. BatchesOK' BY <1>6 DEF IInv, BatchesOK, Senders
<1>10. WorkerOwnsItsRow' BY <1>6 DEF WorkerOwnsItsRow
<1>11. DirectSendsNow' BY <1>1, <1>6 DEF IInv, DirectSendsNow
<1>12. SendersKnow'
  <2>1. Knows(senders["worker"])' BY <1>6 DEF Knows
  <2>2. Knows(senders["direct"])' BY <1>1, <1>6 DEF IInv, SendersKnow, Knows, Senders
  <2>3. QED BY <2>1, <2>2 DEF SendersKnow, Senders
<1>13. RowsAreTruthful'
  <2> SUFFICES ASSUME NEW other \in Jobs PROVE Truthful(jobs'[other], delivered[other])
    BY <1>1 DEF RowsAreTruthful
  <2>1. CASE other = job BY <1>5, <2>1
  <2>2. CASE other # job BY <1>5, <2>2 DEF IInv, RowsAreTruthful
  <2>3. QED BY <2>1, <2>2
<1>14. SentAtMostOnce' BY <1>1 DEF IInv, SentAtMostOnce
<1>15. QED BY <1>7, <1>8, <1>9, <1>10, <1>11, <1>12, <1>13, <1>14 DEF IInv

-----------------------------------------------------------------------------
(* The theorems.                                                           *)

LEMMA NextKeeps == ASSUME IInv, [Next]_vars PROVE IInv'
<1>1. CASE UNCHANGED vars
  <2>1. UNCHANGED <<joined, process, ready, handles, request, jobs, senders, delivered, lost>>
    BY <1>1 DEF vars, memory, budget
  <2>2. ready' \in BOOLEAN /\ lost' \in BOOLEAN BY <2>1 DEF IInv, FlagsOK
  <2>3. QED BY <2>1, <2>2, QuietKeeps DEF IInv, StateOK
<1>2. CASE Requests
  BY <1>2, ListStep, SaveStep, DirectStep, CancelStep DEF Requests
<1>3. CASE Worker BY <1>3, RecoverStep, ClaimStep DEF Worker
<1>4. CASE Sending
  BY <1>4, VerifyStep, StartBatchStep, SendTargetStep, FinishStep, DirectStep DEF Sending
<1>5. CASE Account
  BY <1>5, GroupsChangeStep, ReconnectStep, ProcessStep, CrashStep DEF Account
<1>6. ASSUME NEW job \in Jobs, Due(job) PROVE IInv' BY <1>6, DueStep
<1>7. QED BY <1>1, <1>2, <1>3, <1>4, <1>5, <1>6 DEF Next

\* The inductive invariant holds in every reachable state.
THEOREM InvariantHolds == Spec => []IInv
  BY InitOK, NextKeeps, PTL DEF Spec

\* A group gets a broadcast once: what the claim, the recovery of interrupted
\* rows and the single request for a broadcast sent at once come to.
THEOREM SentOnce == Spec => []SentAtMostOnce
<1>1. IInv => SentAtMostOnce BY DEF IInv
<1>2. QED BY <1>1, InvariantHolds, PTL

\* What a row says became of a broadcast is so, whatever was interrupted, and
\* no batch is larger than the request allows.
THEOREM RowsHold == Spec => []RowsAreSound
<1>1. ASSUME IInv PROVE TypeOK
  <2>1. \A sender \in Senders : senders[sender].step = "sending" =>
          senders[sender].batch \subseteq Groups
    BY <1>1, BusySender
  <2>2. {ready, lost} \subseteq BOOLEAN BY <1>1 DEF IInv, FlagsOK
  <2>3. QED BY <1>1, <2>1, <2>2 DEF TypeOK, IInv, StateOK, BatchesOK
<1>2. ASSUME IInv PROVE RowsTellTheTruth
  <2>1. SUFFICES ASSUME NEW job \in Jobs, NEW group \in Groups
        PROVE  LET row == jobs[job]
               IN  /\ row.status \in {"scheduled", "cancelled"} => delivered[job][group] = 0
                   /\ row.status = "completed" /\ group \in row.targets => delivered[job][group] = 1
                   /\ row.status \in Final =>
                        /\ DOMAIN row.results = row.targets
                        /\ group \in row.targets /\ row.results[group] = "sent"
                             => delivered[job][group] = 1
                        /\ group \in row.targets /\ row.results[group] = "failed"
                             => delivered[job][group] = 0
    BY DEF RowsTellTheTruth
  <2>2. Truthful(jobs[job], delivered[job]) BY <1>2 DEF IInv, RowsAreTruthful
  <2>3. QED BY <2>2 DEF Truthful, Final
<1>3. IInv => RowsAreSound BY <1>1, <1>2 DEF RowsAreSound
<1>4. QED BY <1>3, InvariantHolds, PTL
=============================================================================

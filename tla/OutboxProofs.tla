---------------------------- MODULE OutboxProofs ----------------------------
(***************************************************************************)
(* Proofs about Outbox, for every set of replies, effects and threads and  *)
(* every value of the bounds.                                              *)
(***************************************************************************)
EXTENDS Outbox, TLAPS

USE DEF Rows, Turns, Threads, RowStates, TurnStates, Final, Steps, Owning

\* The three bounds on faults are natural numbers.
LEMMA Bounds == MaxCrashes \in Nat /\ MaxFaults \in Nat /\ MaxDrops \in Nat
  BY BoundsAreNatural

\* A step that counts a fault, or counts none, keeps the counter in bounds.
LEMMA CountsFaults ==
  ASSUME TypeOK, faults' = faults \/ (faults < MaxFaults /\ faults' = faults + 1)
  PROVE  faults' \in 0..MaxFaults
  BY Bounds DEF TypeOK

\* A thread that returns from Dispatch keeps the types of the threads' state.
LEMMA ReturnType ==
  ASSUME TypeOK, NEW d \in Threads, NEW ok \in BOOLEAN, Return(d, ok)
  PROVE  /\ pc' \in [Threads -> Steps] /\ row' \in [Threads -> Rows \cup {NoRow}]
         /\ todo' \in [Threads -> SUBSET Rows] /\ listing' = listing
         /\ \A c \in Threads : pc'[c] \notin {"idle", "next"} => row'[c] \in Rows
  BY DEF TypeOK, Return

\* So does a thread that goes on inside Dispatch, where it holds a row.
LEMMA GotoType ==
  ASSUME TypeOK, NEW d \in Threads, NEW step \in Steps, Goto(d, step),
         pc[d] \notin {"idle", "next"}
  PROVE  /\ pc' \in [Threads -> Steps] /\ row' = row
         /\ todo' = todo /\ listing' = listing
         /\ \A c \in Threads : pc'[c] \notin {"idle", "next"} => row'[c] \in Rows
  BY DEF TypeOK, Goto

\* So does a thread that is given rows to dispatch.
LEMMA GiveJobType ==
  ASSUME TypeOK, NEW d \in Threads, NEW rows \in SUBSET Rows, GiveJob(d, rows)
  PROVE  /\ pc' \in [Threads -> Steps] /\ row' = row
         /\ todo' \in [Threads -> SUBSET Rows]
         /\ \A c \in Threads : pc'[c] \notin {"idle", "next"} => row'[c] \in Rows
  BY DEF TypeOK, GiveJob

\* The write of an outcome keeps the types of rows and turns (finish in the
\* two stores).
LEMMA FinishType ==
  ASSUME TypeOK, NEW r \in Rows, NEW from, NEW to \in Final, Finish(r, from, to)
  PROVE  state' \in [Rows -> RowStates] /\ turn' \in [Turns -> TurnStates]
  BY DEF TypeOK, Finish, durable

\* A fresh database and a process at rest have the declared types.
LEMMA InitType == Init => TypeOK
<1> SUFFICES ASSUME Init PROVE TypeOK OBVIOUS
<1>1. crashes \in 0..MaxCrashes /\ faults \in 0..MaxFaults /\ drops \in 0..MaxDrops
  BY Bounds DEF Init
<1>2. QED BY <1>1 DEF Init, TypeOK

\* Every step of a thread, the process or the connection preserves the types.
LEMMA TypeStep == TypeOK /\ [Next]_vars => TypeOK'
<1> SUFFICES ASSUME TypeOK, [Next]_vars PROVE TypeOK' OBVIOUS
<1> USE DEF durable, threads, counters
<1>1. ASSUME NEW d \in Workers, NEW t \in Turns, CommitPlan(d, t) PROVE TypeOK'
  <2> DEFINE planned == EffectsOf(t) \cup ({t} \cap Replies)
  <2>1. planned \in SUBSET Rows BY DEF EffectsOf
  <2>2. GiveJob(d, planned) BY <1>1 DEF CommitPlan
  <2> HIDE DEF planned
  <2>3. QED BY <1>1, <2>1, <2>2, GiveJobType DEF CommitPlan, TypeOK
<1>2. ASSUME NEW d \in Workers, NEW t \in Turns, Redispatch(d, t) PROVE TypeOK'
  <2>1. PICK rows \in SUBSET Rows : GiveJob(d, rows)
    BY <1>2 DEF Redispatch, EffectsOf
  <2>2. QED BY <1>2, <2>1, GiveJobType DEF Redispatch, TypeOK
<1>3. ASSUME NEW d \in Workers, NEW e \in Effects, PlanDesktop(d, e) PROVE TypeOK'
  <2>1. GiveJob(d, {e}) BY <1>3 DEF PlanDesktop
  <2>2. {e} \in SUBSET Rows OBVIOUS
  <2>3. QED BY <1>3, <2>1, <2>2, GiveJobType DEF PlanDesktop, TypeOK
<1>4. ASSUME NEW young \in SUBSET Rows, ListReplies(young) \/ ListEffects(young)
      PROVE  TypeOK'
  <2>1. PICK rows \in SUBSET Rows : GiveJob(Flusher, rows)
    BY <1>4 DEF ListReplies, ListEffects
  <2>2. QED BY <1>4, <2>1, GiveJobType DEF ListReplies, ListEffects, TypeOK
<1>5. ASSUME NEW d \in Threads, NextRow(d) \/ EndJob(d) PROVE TypeOK'
  BY <1>5 DEF NextRow, EndJob, TypeOK
<1>6. ASSUME NEW d \in Threads, Load(d) PROVE TypeOK'
  <2>1. CASE Goto(d, "check") BY <1>6, <2>1, GotoType DEF Load, TypeOK
  <2>2. CASE Return(d, state[row[d]] = "succeeded")
    BY <1>6, <2>2, ReturnType DEF Load, TypeOK
  <2>3. QED BY <1>6, <2>1, <2>2 DEF Load
<1>7. ASSUME NEW d \in Threads, CheckReply(d) PROVE TypeOK'
  <2>1. CASE Goto(d, "deny") \/ Goto(d, "start")
    BY <1>7, <2>1, GotoType DEF CheckReply, TypeOK
  <2>2. CASE Return(d, FALSE) BY <1>7, <2>2, ReturnType DEF CheckReply, TypeOK
  <2>3. QED BY <1>7, <2>1, <2>2 DEF CheckReply
<1>8. ASSUME NEW d \in Threads, CheckEffect(d) PROVE TypeOK'
  <2>1. faults' \in 0..MaxFaults BY <1>8, CountsFaults DEF CheckEffect
  <2>2. CASE Goto(d, "deny") \/ Goto(d, "start")
    BY <1>8, <2>1, <2>2, GotoType DEF CheckEffect, TypeOK
  <2>3. CASE Return(d, FALSE)
    BY <1>8, <2>1, <2>3, ReturnType DEF CheckEffect, TypeOK
  <2>4. QED BY <1>8, <2>2, <2>3 DEF CheckEffect
<1>9. ASSUME NEW d \in Threads, Start(d) PROVE TypeOK'
  <2>1. row[d] \in Rows BY <1>9 DEF Start, TypeOK
  <2>2. state' \in [Rows -> RowStates] /\ turn' \in [Turns -> TurnStates]
    BY <1>9, <2>1 DEF Start, TypeOK
  <2>3. CASE Goto(d, "run")
    BY <1>9, <2>2, <2>3, GotoType DEF Start, TypeOK
  <2>4. CASE Return(d, FALSE)
    BY <1>9, <2>2, <2>4, ReturnType DEF Start, TypeOK
  <2>5. QED BY <1>9, <2>3, <2>4 DEF Start
<1>10. ASSUME NEW d \in Threads, StartFails(d) PROVE TypeOK'
  <2>1. Return(d, FALSE) /\ faults' \in 0..MaxFaults
    BY <1>10, CountsFaults DEF StartFails
  <2>2. QED BY <1>10, <2>1, ReturnType DEF StartFails, TypeOK
<1>11. ASSUME NEW d \in Threads, Run(d) PROVE TypeOK'
  <2>1. row[d] \in Rows BY <1>11 DEF Run, TypeOK
  <2>2. ran' \in [Rows -> Nat] BY <1>11, <2>1 DEF Run, TypeOK
  <2>3. PICK step \in Steps : Goto(d, step) BY <1>11 DEF Run
  <2>4. QED BY <1>11, <2>2, <2>3, GotoType DEF Run, TypeOK
<1>12. ASSUME NEW d \in Threads, Complete(d) PROVE TypeOK'
  <2>1. row[d] \in Rows BY <1>12 DEF Complete, TypeOK
  <2>2. state' \in [Rows -> RowStates] /\ turn' \in [Turns -> TurnStates]
    BY <1>12, <2>1, FinishType DEF Complete, TypeOK
  <2>3. faults' \in 0..MaxFaults BY <1>12, CountsFaults DEF Complete
  <2>4. CASE Goto(d, "mark")
    BY <1>12, <2>2, <2>3, <2>4, GotoType DEF Complete, TypeOK
  <2>5. CASE Return(d, TRUE)
    BY <1>12, <2>2, <2>3, <2>5, ReturnType DEF Complete, TypeOK
  <2>6. QED BY <1>12, <2>4, <2>5 DEF Complete
<1>13. ASSUME NEW d \in Threads, NEW from, NEW to \in Final, Record(d, from, to),
              row[d] \in Rows
       PROVE  TypeOK'
  <2>1. state' \in [Rows -> RowStates] /\ turn' \in [Turns -> TurnStates]
    BY <1>13, FinishType DEF Record, TypeOK
  <2>2. faults' \in 0..MaxFaults BY <1>13, CountsFaults DEF Record
  <2>3. lost' \in SUBSET Rows BY <1>13 DEF Record, TypeOK
  <2>4. Return(d, FALSE) BY <1>13 DEF Record
  <2>5. QED BY <1>13, <2>1, <2>2, <2>3, <2>4, ReturnType DEF Record, TypeOK
<1>14. ASSUME NEW d \in Threads, MarkUnknown(d) \/ FailTerminal(d) PROVE TypeOK'
  <2>1. row[d] \in Rows BY <1>14 DEF MarkUnknown, FailTerminal, TypeOK
  <2>2. QED BY <1>13, <1>14, <2>1 DEF MarkUnknown, FailTerminal
<1>15. CASE Crash \/ Connect \/ Disconnect
  <2>1. crashes' \in 0..MaxCrashes /\ drops' \in 0..MaxDrops
    BY <1>15, Bounds DEF Crash, Connect, Disconnect, TypeOK
  <2>2. CASE Crash BY <2>1, <2>2 DEF Crash, TypeOK
  <2>3. CASE Connect \/ Disconnect BY <2>1, <2>3 DEF Connect, Disconnect, TypeOK
  <2>4. QED BY <1>15, <2>2, <2>3
<1>16. CASE Restart BY <1>16 DEF Restart, TypeOK
<1>17. CASE UNCHANGED vars BY <1>17 DEF vars, TypeOK
<1>18. QED BY <1>1, <1>2, <1>3, <1>4, <1>5, <1>6, <1>7, <1>8, <1>9, <1>10, <1>11,
              <1>12, <1>14, <1>15, <1>16, <1>17 DEF Next, Step

\* Every reachable state has the declared types: rows are dispatched by
\* threads that hold one, and the bounds on faults are kept.
THEOREM TypeCorrect == Spec => []TypeOK
  BY InitType, TypeStep, PTL DEF Spec

-----------------------------------------------------------------------------
(* At most once.  AtMostOnce is not inductive: it has to know that a row   *)
(* nobody has claimed was never carried out, that a claimed row has one    *)
(* owner, and that an owner about to run it is the first to do so; and     *)
(* that planning a turn does not touch a row that exists already.          *)

OneOwner ==
  \A c, d \in Threads, r \in Rows : Owns(c, r) /\ Owns(d, r) => c = d
UnclaimedIsUntouched ==
  \A r \in Rows : state[r] \in {"none", "pending"} =>
                   ran[r] = 0 /\ \A d \in Threads : ~Owns(d, r)
OwnerRunsFirst == \A d \in Threads : pc[d] = "run" => ran[row[d]] = 0

\* A turn that is still generating has planned nothing yet.
UnplannedIsBlank ==
  \A t \in Turns : turn[t] = "generating" =>
    /\ t \in Replies => state[t] = "none"
    /\ \A e \in Effects : TurnOf[e] = t => state[e] = "none"

ClaimInv ==
  /\ OneOwner /\ UnclaimedIsUntouched /\ OwnerRunsFirst /\ UnplannedIsBlank
  /\ AtMostOnce

\* A step that claims nothing and carries nothing out.
Quiet ==
  /\ ran' = ran
  /\ \A r \in Rows : state'[r] \in {"none", "pending"} => state[r] \in {"none", "pending"}
  /\ \A d \in Threads :
       pc'[d] \in Owning => /\ pc[d] \in Owning /\ row'[d] = row[d]
                            /\ pc'[d] = "run" => pc[d] = "run"

\* Returning from Dispatch gives up a row and claims none.
LEMMA ReturnIsQuiet ==
  ASSUME TypeOK, NEW d \in Threads, NEW ok, Return(d, ok), ran' = ran,
         \A r \in Rows : state'[r] \in {"none", "pending"} => state[r] \in {"none", "pending"}
  PROVE  Quiet
  BY DEF TypeOK, Return, Quiet

\* Going on inside Dispatch is quiet unless it leads to the provider call.
LEMMA GotoIsQuiet ==
  ASSUME TypeOK, NEW d \in Threads, NEW step, Goto(d, step), ran' = ran, step # "run",
         step \in Owning => pc[d] \in Owning,
         \A r \in Rows : state'[r] \in {"none", "pending"} => state[r] \in {"none", "pending"}
  PROVE  Quiet
  BY DEF TypeOK, Goto, Quiet

\* Listing or planning rows claims none.
LEMMA GiveJobIsQuiet ==
  ASSUME TypeOK, NEW d \in Threads, NEW rows, GiveJob(d, rows), ran' = ran,
         \A r \in Rows : state'[r] \in {"none", "pending"} => state[r] \in {"none", "pending"}
  PROVE  Quiet
  BY DEF TypeOK, GiveJob, Quiet

\* record() ends ownership and never makes a row pending again.
LEMMA RecordIsQuiet ==
  ASSUME TypeOK, NEW d \in Threads, NEW from, NEW to \in Final, Record(d, from, to)
  PROVE  Quiet
<1>1. \A r \in Rows : state'[r] \in {"none", "pending"} => state[r] \in {"none", "pending"}
  BY DEF Record, Finish, durable, TypeOK
<1>2. Return(d, FALSE) /\ ran' = ran BY DEF Record
<1>3. QED BY <1>1, <1>2, ReturnIsQuiet

\* An outcome is written only to a row that was planned.
LEMMA BlankFinish ==
  ASSUME TypeOK, UnplannedIsBlank, NEW r \in Rows, NEW from, NEW to \in Final,
         "none" \notin from, Finish(r, from, to)
  PROVE  UnplannedIsBlank'
  BY DEF TypeOK, UnplannedIsBlank, Finish, durable

\* No step touches a row that was never planned, and no thread holds one.
LEMMA BlankStep == TypeOK /\ UnplannedIsBlank /\ [Next]_vars => UnplannedIsBlank'
<1> SUFFICES ASSUME TypeOK, UnplannedIsBlank, [Next]_vars PROVE UnplannedIsBlank'
  OBVIOUS
<1> USE DEF durable, threads
<1>1. CASE UNCHANGED durable BY <1>1 DEF UnplannedIsBlank
<1>2. ASSUME NEW d \in Workers, NEW t \in Turns, CommitPlan(d, t)
      PROVE  UnplannedIsBlank'
  <2>1. \A u \in Turns : turn'[u] = "generating" => u # t /\ turn[u] = "generating"
    BY <1>2 DEF CommitPlan, TypeOK
  <2>2. \A r \in Rows : state'[r] # state[r] => r = t \/ (r \in Effects /\ TurnOf[r] = t)
    BY <1>2 DEF CommitPlan, EffectsOf, TypeOK
  <2>3. QED BY <2>1, <2>2, TurnsAreDistinct DEF UnplannedIsBlank
<1>3. ASSUME NEW d \in Workers, NEW e \in Effects, PlanDesktop(d, e)
      PROVE  UnplannedIsBlank'
  BY <1>3, TurnsAreDistinct, PlansAreOrdered DEF PlanDesktop, UnplannedIsBlank, TypeOK
<1>4. ASSUME NEW d \in Threads, Start(d) PROVE UnplannedIsBlank'
  BY <1>4 DEF Start, Goto, Return, UnplannedIsBlank, TypeOK
<1>5. ASSUME NEW d \in Threads, Complete(d) PROVE UnplannedIsBlank'
  <2>1. row[d] \in Rows BY <1>5 DEF Complete, TypeOK
  <2>2. QED BY <1>1, <1>5, <2>1, BlankFinish DEF Complete
<1>6. ASSUME NEW d \in Threads, MarkUnknown(d) \/ FailTerminal(d)
      PROVE  UnplannedIsBlank'
  <2>1. row[d] \in Rows BY <1>6 DEF MarkUnknown, FailTerminal, TypeOK
  <2>2. CASE MarkUnknown(d)
    BY <1>1, <2>1, <2>2, BlankFinish DEF MarkUnknown, Record
  <2>3. CASE FailTerminal(d)
    BY <1>1, <2>1, <2>3, BlankFinish DEF FailTerminal, FailableFrom, Record
  <2>4. QED BY <1>6, <2>2, <2>3
<1>7. CASE Restart BY <1>7 DEF Restart, UnplannedIsBlank, TypeOK
<1>8. ASSUME NEW d \in Threads,
             \/ NextRow(d) \/ EndJob(d) \/ Load(d) \/ CheckReply(d) \/ CheckEffect(d)
             \/ StartFails(d) \/ Run(d)
      PROVE  UnplannedIsBlank'
  BY <1>1, <1>8 DEF NextRow, EndJob, Load, CheckReply, CheckEffect, StartFails, Run
<1>9. QED BY <1>1, <1>2, <1>3, <1>4, <1>5, <1>6, <1>7, <1>8
          DEF Next, Step, Redispatch, ListReplies, ListEffects, Crash, Connect,
              Disconnect, vars

\* Every step but Start and Run is quiet.
LEMMA OnlyStartAndRun ==
  TypeOK /\ UnplannedIsBlank /\ [Next]_vars => Quiet \/ \E d \in Threads : Start(d) \/ Run(d)
<1> SUFFICES ASSUME TypeOK, UnplannedIsBlank, [Next]_vars,
                    ~ \E d \in Threads : Start(d) \/ Run(d)
             PROVE  Quiet
  OBVIOUS
<1> USE DEF durable, threads
<1>1. ASSUME NEW d \in Workers, NEW t \in Turns, CommitPlan(d, t) PROVE Quiet
  <2>1. PICK rows : GiveJob(d, rows) BY <1>1 DEF CommitPlan
  <2>2. \A r \in Rows : state'[r] \in {"none", "pending"} => state[r] \in {"none", "pending"}
    BY <1>1, TurnsAreDistinct DEF CommitPlan, EffectsOf, UnplannedIsBlank
  <2>3. ran' = ran BY <1>1 DEF CommitPlan
  <2>4. QED BY <2>1, <2>2, <2>3, GiveJobIsQuiet
<1>2. ASSUME NEW d \in Workers, NEW t \in Turns, Redispatch(d, t) PROVE Quiet
  BY <1>2, GiveJobIsQuiet DEF Redispatch
<1>3. ASSUME NEW d \in Workers, NEW e \in Effects, PlanDesktop(d, e) PROVE Quiet
  BY <1>3, GiveJobIsQuiet DEF PlanDesktop, TypeOK
<1>4. ASSUME NEW young \in SUBSET Rows, ListReplies(young) \/ ListEffects(young)
      PROVE  Quiet
  BY <1>4, GiveJobIsQuiet DEF ListReplies, ListEffects
<1>5. ASSUME NEW d \in Threads, NextRow(d) \/ EndJob(d) PROVE Quiet
  <2>1. state' = state /\ ran' = ran BY <1>5 DEF NextRow, EndJob
  <2>2. PICK step \in {"load", "idle"} : pc' = [pc EXCEPT ![d] = step]
    BY <1>5 DEF NextRow, EndJob
  <2>3. \A c \in Threads : c # d => row'[c] = row[c]
    BY <1>5 DEF NextRow, EndJob, TypeOK
  <2>4. QED BY <2>1, <2>2, <2>3 DEF Quiet, TypeOK
<1>6. ASSUME NEW d \in Threads, Load(d) PROVE Quiet
  <2>1. state' = state /\ ran' = ran BY <1>6 DEF Load
  <2>2. Goto(d, "check") \/ Return(d, state[row[d]] = "succeeded") BY <1>6 DEF Load
  <2>3. QED BY <2>1, <2>2, ReturnIsQuiet, GotoIsQuiet
<1>7. ASSUME NEW d \in Threads, CheckReply(d) \/ CheckEffect(d) PROVE Quiet
  <2>1. PICK step \in {"deny", "start"} : Goto(d, step) \/ Return(d, FALSE)
    BY <1>7 DEF CheckReply, CheckEffect
  <2>2. state' = state /\ ran' = ran BY <1>7 DEF CheckReply, CheckEffect
  <2>3. QED BY <2>1, <2>2, ReturnIsQuiet, GotoIsQuiet
<1>8. ASSUME NEW d \in Threads, StartFails(d) PROVE Quiet
  BY <1>8, ReturnIsQuiet DEF StartFails
<1>9. ASSUME NEW d \in Threads, Complete(d) PROVE Quiet
  <2>1. \A r \in Rows : state'[r] \in {"none", "pending"} => state[r] \in {"none", "pending"}
    BY <1>9 DEF Complete, Finish, TypeOK
  <2>2. Return(d, TRUE) \/ Goto(d, "mark") BY <1>9 DEF Complete
  <2>3. ran' = ran /\ pc[d] \in Owning BY <1>9 DEF Complete
  <2>4. QED BY <2>1, <2>2, <2>3, ReturnIsQuiet, GotoIsQuiet
<1>10. ASSUME NEW d \in Threads, MarkUnknown(d) \/ FailTerminal(d) PROVE Quiet
  BY <1>10, RecordIsQuiet DEF MarkUnknown, FailTerminal
<1>11. CASE Crash BY <1>11 DEF Crash, Quiet, TypeOK
<1>12. CASE Restart \/ Connect \/ Disconnect
  BY <1>12 DEF Restart, Connect, Disconnect, Quiet, TypeOK
<1>13. CASE UNCHANGED vars BY <1>13 DEF vars, Quiet
<1>14. QED BY <1>1, <1>2, <1>3, <1>4, <1>5, <1>6, <1>7, <1>8, <1>9, <1>10, <1>11,
              <1>12, <1>13 DEF Next, Step

\* Every step preserves the claim invariant: Start by the compare-and-set on
\* the row's state, Run because its row has one owner, the others by being quiet.
LEMMA ClaimStep == TypeOK /\ ClaimInv /\ [Next]_vars => ClaimInv'
<1> SUFFICES ASSUME TypeOK, ClaimInv, [Next]_vars PROVE ClaimInv' OBVIOUS
<1> USE DEF ClaimInv, OneOwner, UnclaimedIsUntouched, OwnerRunsFirst, AtMostOnce, Owns
<1>1. CASE Quiet
  <2>1. \A d \in Threads, r \in Rows : Owns(d, r)' => Owns(d, r) BY <1>1 DEF Quiet
  <2>2. OwnerRunsFirst' BY <1>1 DEF Quiet
  <2>3. QED BY <1>1, <2>1, <2>2, BlankStep DEF Quiet
<1>2. ASSUME NEW d \in Threads, Start(d) PROVE ClaimInv'
  <2>1. CASE Return(d, FALSE)
    <3>1. Quiet
      <4>1. state' = state /\ ran' = ran
        BY <1>2, <2>1 DEF Start, Return, Goto, durable, TypeOK
      <4>2. QED BY <2>1, <4>1, ReturnIsQuiet
    <3>2. QED BY <1>1, <3>1
  <2>2. CASE Goto(d, "run") /\ state[row[d]] = "pending"
    <3>1. row[d] \in Rows BY <1>2 DEF Start, TypeOK
    <3>2. state' = [state EXCEPT ![row[d]] = "executing"]
      BY <1>2, <2>2 DEF Start, Goto, Return, TypeOK
    <3>3. ran' = ran BY <1>2 DEF Start
    <3>4. row' = row /\ pc' = [pc EXCEPT ![d] = "run"] BY <2>2 DEF Goto
    <3>5. ran[row[d]] = 0 /\ \A c \in Threads : ~Owns(c, row[d])
      BY <2>2, <3>1
    <3>6. OneOwner' BY <3>4, <3>5 DEF TypeOK
    <3>7. UnclaimedIsUntouched' BY <3>1, <3>2, <3>3, <3>4 DEF TypeOK
    <3>8. OwnerRunsFirst' BY <3>3, <3>4, <3>5 DEF TypeOK
    <3>9. QED BY BlankStep, <3>3, <3>6, <3>7, <3>8
  <2>3. QED BY <1>2, <2>1, <2>2 DEF Start
<1>3. ASSUME NEW d \in Threads, Run(d) PROVE ClaimInv'
  <2>1. row[d] \in Rows /\ pc[d] = "run" BY <1>3 DEF Run, TypeOK
  <2>2. state' = state BY <1>3 DEF Run, durable
  <2>3. PICK step \in {"complete", "mark", "refuse"} :
          pc' = [pc EXCEPT ![d] = step] /\ row' = row
    BY <1>3 DEF Run, Goto
  <2>4. \/ ran' = ran
        \/ ran' = [ran EXCEPT ![row[d]] = ran[row[d]] + 1]
    BY <1>3 DEF Run
  <2>5. ran[row[d]] = 0 BY <2>1
  <2>6. \A c \in Threads, r \in Rows : Owns(c, r)' <=> Owns(c, r)
    BY <2>1, <2>3 DEF TypeOK
  <2>7. OneOwner' BY <2>6
  <2>8. state[row[d]] \notin {"none", "pending"} BY <2>1
  <2>9. UnclaimedIsUntouched' BY <2>1, <2>2, <2>4, <2>6, <2>8 DEF TypeOK
  <2>10. \A c \in Threads : pc'[c] = "run" => c # d /\ pc[c] = "run" /\ row[c] # row[d]
    BY <2>1, <2>3 DEF TypeOK
  <2>11. OwnerRunsFirst' BY <2>1, <2>3, <2>4, <2>10 DEF TypeOK
  <2>12. AtMostOnce' BY <2>1, <2>4, <2>5 DEF TypeOK
  <2>13. QED BY BlankStep, <2>7, <2>9, <2>11, <2>12
<1>4. QED BY <1>1, <1>2, <1>3, OnlyStartAndRun

\* Whatever the threads, crashes and lost writes do, no reply is sent and no
\* effect is run a second time.
THEOREM AtMostOnceHolds == Spec => []AtMostOnce
<1>1. Init => ClaimInv
  BY DEF Init, ClaimInv, OneOwner, UnclaimedIsUntouched, OwnerRunsFirst,
         UnplannedIsBlank, AtMostOnce, Owns
<1>2. ClaimInv => AtMostOnce BY DEF ClaimInv
<1>3. QED BY <1>1, <1>2, InitType, TypeStep, ClaimStep, PTL DEF Spec

-----------------------------------------------------------------------------
(* Finality.  Only the guarded updates of an outcome, the restart, the     *)
(* claim and planning write a row's state, each from a state that is not   *)
(* final; for planning this is what UnplannedIsBlank says.                 *)

KeepsFinal == \A r \in Rows : state[r] \in Final => state'[r] = state[r]

\* An outcome is written over a state that is not final only (finish in the two
\* stores).
LEMMA FinishKeepsFinal ==
  ASSUME TypeOK, NEW r \in Rows, NEW from, NEW to, from \cap Final = {},
         Finish(r, from, to)
  PROVE  KeepsFinal
  BY DEF TypeOK, Finish, durable, KeepsFinal

\* No step changes a final state.
LEMMA FinalStep == TypeOK /\ UnplannedIsBlank /\ [Next]_vars => KeepsFinal
<1> SUFFICES ASSUME TypeOK, UnplannedIsBlank, [Next]_vars PROVE KeepsFinal OBVIOUS
<1> USE DEF durable
<1>1. CASE state' = state BY <1>1 DEF KeepsFinal
<1>2. ASSUME NEW d \in Workers, NEW t \in Turns, CommitPlan(d, t) PROVE KeepsFinal
  BY <1>2, TurnsAreDistinct DEF CommitPlan, EffectsOf, UnplannedIsBlank, KeepsFinal, TypeOK
<1>3. ASSUME NEW d \in Workers, NEW e \in Effects, PlanDesktop(d, e) PROVE KeepsFinal
  BY <1>3 DEF PlanDesktop, KeepsFinal, TypeOK
<1>4. ASSUME NEW d \in Threads, Start(d) PROVE KeepsFinal
  BY <1>4 DEF Start, KeepsFinal, TypeOK
<1>5. ASSUME NEW d \in Threads, Complete(d) PROVE KeepsFinal
  <2>1. row[d] \in Rows BY <1>5 DEF Complete, TypeOK
  <2>2. QED BY <1>1, <1>5, <2>1, FinishKeepsFinal DEF Complete
<1>6. ASSUME NEW d \in Threads, MarkUnknown(d) \/ FailTerminal(d) PROVE KeepsFinal
  <2>1. row[d] \in Rows BY <1>6 DEF MarkUnknown, FailTerminal, TypeOK
  <2>2. CASE MarkUnknown(d)
    BY <1>1, <2>1, <2>2, FinishKeepsFinal DEF MarkUnknown, Record
  <2>3. CASE FailTerminal(d)
    BY <1>1, <2>1, <2>3, FinishKeepsFinal DEF FailTerminal, FailableFrom, Record
  <2>4. QED BY <1>6, <2>2, <2>3
<1>7. CASE Restart BY <1>7 DEF Restart, KeepsFinal, TypeOK
<1>8. ASSUME NEW d \in Threads,
             \/ NextRow(d) \/ EndJob(d) \/ Load(d) \/ CheckReply(d) \/ CheckEffect(d)
             \/ StartFails(d) \/ Run(d)
      PROVE  KeepsFinal
  BY <1>1, <1>8 DEF NextRow, EndJob, Load, CheckReply, CheckEffect, StartFails, Run
<1>9. QED BY <1>1, <1>2, <1>3, <1>4, <1>5, <1>6, <1>7, <1>8
          DEF Next, Step, Redispatch, ListReplies, ListEffects, Crash, Connect,
              Disconnect, vars

\* What is on record as sent, failed or unknown stays so through redelivery,
\* replay, lost writes and restart.
THEOREM FinalityHolds == Spec => FinalStaysFinal
<1>1. Init => UnplannedIsBlank BY DEF Init, UnplannedIsBlank
<1>2. TypeOK /\ UnplannedIsBlank /\ [Next]_vars
        => [\A r \in Rows : state[r] \in Final => state'[r] = state[r]]_vars
  BY FinalStep DEF KeepsFinal
<1>3. QED BY <1>1, <1>2, InitType, TypeStep, BlankStep, PTL DEF Spec, FinalStaysFinal

-----------------------------------------------------------------------------
(* RecordsAreTrue is not inductive: it has to know that nobody works while *)
(* the process is down, that a reply somebody owns executes, that a        *)
(* completed row was carried out, and that only commands are refused.      *)

DownIsIdle == ~up => \A d \in Threads : pc[d] = "idle"
OwnedReplyExecutes ==
  \A d \in Threads, r \in Replies : Owns(d, r) => state[r] = "executing"
CompletedRan == \A d \in Threads : pc[d] = "complete" => ran[row[d]] = 1
OnlyCommandsRefuse == \A d \in Threads : pc[d] = "refuse" => row[d] \in CommandRuns

\* What is said of threads, of rows, and of both.
OwnersInv == OwnedReplyExecutes /\ CompletedRan /\ OnlyCommandsRefuse
RowsInv == ReplyOutcomeIsTrue /\ TurnMirrorsReply
RecordInv == OwnersInv /\ RowsInv /\ ExecutingHasAnOwner

\* A step that touches neither rows nor their owners.
Bystander ==
  /\ UNCHANGED <<turn, state, ran, up>> /\ lost \subseteq lost'
  /\ \A d \in Threads :
       /\ pc[d] \in Owning => pc'[d] = pc[d] /\ row'[d] = row[d]
       /\ pc'[d] \in Owning => pc[d] \in Owning

\* Returning from Dispatch without owning a row disturbs nobody.
LEMMA ReturnIsBystander ==
  ASSUME TypeOK, NEW d \in Threads, NEW ok, Return(d, ok), pc[d] \notin Owning,
         UNCHANGED <<turn, state, ran, up, lost>>
  PROVE  Bystander
  BY DEF TypeOK, Return, Bystander

\* Nor does going on without owning one.
LEMMA GotoIsBystander ==
  ASSUME TypeOK, NEW d \in Threads, NEW step, Goto(d, step), pc[d] \notin Owning,
         step \notin Owning, UNCHANGED <<turn, state, ran, up, lost>>
  PROVE  Bystander
  BY DEF TypeOK, Goto, Bystander

\* Nor does taking rows to dispatch.
LEMMA GiveJobIsBystander ==
  ASSUME TypeOK, NEW d \in Threads, NEW rows, GiveJob(d, rows), pc[d] \notin Owning,
         UNCHANGED <<turn, state, ran, up, lost>>
  PROVE  Bystander
  BY DEF TypeOK, GiveJob, Bystander

\* A step of a bystander leaves what is recorded as true as it was.
LEMMA BystanderKeeps == ASSUME TypeOK, RecordInv, Bystander PROVE RecordInv'
<1>1. OwnersInv'
  BY DEF RecordInv, OwnersInv, OwnedReplyExecutes, CompletedRan, OnlyCommandsRefuse,
         Bystander, Owns
<1>2. RowsInv'
  BY DEF RecordInv, RowsInv, ReplyOutcomeIsTrue, TurnMirrorsReply, Bystander
<1>3. ExecutingHasAnOwner' BY DEF RecordInv, ExecutingHasAnOwner, Bystander, Owns
<1>4. QED BY <1>1, <1>2, <1>3 DEF RecordInv

\* The turn of a reply has the state of the reply, in the words of turns.
LEMMA TurnOfStateIs ==
  /\ TurnOfState["none"] = "generating" /\ TurnOfState["pending"] = "response_planned"
  /\ TurnOfState["executing"] = "delivery_pending"
  /\ \A s \in Final : TurnOfState[s] = s
  BY DEF TurnOfState

-----------------------------------------------------------------------------
(* The steps that write rows.                                              *)

\* Planning makes rows pending that nobody knew of (CommitPlan, PlanDesktop).
LEMMA PlanKeepsRecords ==
  ASSUME TypeOK, ClaimInv, RecordInv, NEW d \in Workers,
         \/ \E t \in Turns : CommitPlan(d, t)
         \/ \E e \in Effects : PlanDesktop(d, e)
  PROVE  RecordInv'
<1>1. /\ pc[d] = "idle" /\ pc' = [pc EXCEPT ![d] = "next"] /\ row' = row
      /\ ran' = ran /\ up' = up /\ lost' = lost
  BY DEF CommitPlan, PlanDesktop, GiveJob
<1>2. \A c \in Threads, r \in Rows : Owns(c, r)' <=> Owns(c, r)
  BY <1>1 DEF TypeOK, Owns
<1>3. \A r \in Rows : \/ state'[r] = state[r]
                      \/ state[r] = "none" /\ state'[r] = "pending"
  <2>1. ASSUME NEW t \in Turns, CommitPlan(d, t), NEW r \in Rows
        PROVE  state'[r] = state[r] \/ (state[r] = "none" /\ state'[r] = "pending")
    <3>1. state'[r] = IF r \in EffectsOf(t) \cup ({t} \cap Replies)
                      THEN "pending" ELSE state[r]
      BY <2>1 DEF CommitPlan
    <3>2. r \in EffectsOf(t) \cup ({t} \cap Replies) => state[r] = "none"
      BY <2>1 DEF CommitPlan, EffectsOf, ClaimInv, UnplannedIsBlank
    <3>3. QED BY <3>1, <3>2
  <2>2. ASSUME NEW e \in Effects, PlanDesktop(d, e), NEW r \in Rows
        PROVE  state'[r] = state[r] \/ (state[r] = "none" /\ state'[r] = "pending")
    BY <2>2 DEF PlanDesktop, TypeOK
  <2>3. QED BY <2>1, <2>2
<1>4. OwnersInv'
  <2>1. OwnedReplyExecutes'
    BY <1>2, <1>3 DEF RecordInv, OwnersInv, OwnedReplyExecutes
  <2>2. CompletedRan' /\ OnlyCommandsRefuse'
    BY <1>1 DEF RecordInv, OwnersInv, CompletedRan, OnlyCommandsRefuse, TypeOK
  <2>3. QED BY <2>1, <2>2 DEF OwnersInv
<1>5. ReplyOutcomeIsTrue'
  BY <1>1, <1>3 DEF RecordInv, RowsInv, ReplyOutcomeIsTrue
<1>6. TurnMirrorsReply'
  <2>1. ASSUME NEW t \in Turns, CommitPlan(d, t) PROVE TurnMirrorsReply'
    <3>1. ASSUME NEW r \in Replies, r # t PROVE turn'[r] = TurnOfState[state'[r]]
      <4>1. turn'[r] = turn[r] /\ state'[r] = state[r]
        BY <2>1, <3>1, TurnsAreDistinct DEF CommitPlan, EffectsOf, TypeOK
      <4>2. QED BY <4>1 DEF RecordInv, RowsInv, TurnMirrorsReply
    <3>2. ASSUME t \in Replies PROVE turn'[t] = TurnOfState[state'[t]]
      BY <2>1, <3>2, TurnOfStateIs DEF CommitPlan, TypeOK
    <3>3. QED BY <3>1, <3>2 DEF TurnMirrorsReply
  <2>2. ASSUME NEW e \in Effects, PlanDesktop(d, e) PROVE TurnMirrorsReply'
    <3>1. turn' = turn /\ \A r \in Replies : state'[r] = state[r]
      BY <2>2, TurnsAreDistinct DEF PlanDesktop, TypeOK
    <3>2. QED BY <3>1 DEF RecordInv, RowsInv, TurnMirrorsReply
  <2>3. QED BY <2>1, <2>2
<1>7. ExecutingHasAnOwner'
  BY <1>1, <1>2, <1>3 DEF RecordInv, ExecutingHasAnOwner
<1>8. QED BY <1>4, <1>5, <1>6, <1>7 DEF RecordInv, RowsInv

\* The claim gives a pending row an owner, and its turn is being delivered.
LEMMA StartKeepsRecords ==
  ASSUME TypeOK, ClaimInv, RecordInv, NEW d \in Threads, Start(d)
  PROVE  RecordInv'
<1> DEFINE r == row[d]
<1>1. r \in Rows /\ pc[d] = "start" /\ ran' = ran /\ up' = up /\ lost' = lost
  BY DEF Start, TypeOK
<1>2. CASE UNCHANGED durable /\ Return(d, FALSE)
  BY <1>1, <1>2, ReturnIsBystander, BystanderKeeps DEF durable
<1>3. CASE /\ state[r] = "pending" /\ Goto(d, "run")
           /\ state' = [state EXCEPT ![r] = "executing"]
           /\ turn' = IF r \in Replies /\ turn[r] = "response_planned"
                      THEN [turn EXCEPT ![r] = "delivery_pending"] ELSE turn
  <2>1. row' = row /\ pc' = [pc EXCEPT ![d] = "run"] BY <1>3 DEF Goto
  <2>2. \A c \in Threads, s \in Rows :
          Owns(c, s)' <=> Owns(c, s) \/ (c = d /\ s = r)
    BY <1>1, <2>1 DEF TypeOK, Owns
  <2> HIDE DEF r
  <2>3. OwnedReplyExecutes'
    BY <1>1, <1>3, <2>2 DEF RecordInv, OwnersInv, OwnedReplyExecutes, TypeOK
  <2>4. CompletedRan' /\ OnlyCommandsRefuse'
    BY <1>1, <2>1 DEF RecordInv, OwnersInv, CompletedRan, OnlyCommandsRefuse, TypeOK
  <2>5. ReplyOutcomeIsTrue'
    BY <1>1, <1>3 DEF RecordInv, RowsInv, ReplyOutcomeIsTrue, TypeOK
  <2>6. TurnMirrorsReply'
    BY <1>1, <1>3, TurnOfStateIs DEF RecordInv, RowsInv, TurnMirrorsReply, TypeOK
  <2>7. ExecutingHasAnOwner'
    BY <1>1, <1>3, <2>2 DEF RecordInv, ExecutingHasAnOwner, TypeOK
  <2>8. QED BY <2>3, <2>4, <2>5, <2>6, <2>7 DEF RecordInv, OwnersInv, RowsInv
<1>4. QED BY <1>2, <1>3 DEF Start

\* The provider is called by the owner of the row, who keeps it.
LEMMA RunKeepsRecords ==
  ASSUME TypeOK, ClaimInv, RecordInv, NEW d \in Threads, Run(d)
  PROVE  RecordInv'
<1>1. row[d] \in Rows /\ pc[d] = "run" /\ ran[row[d]] = 0
  BY DEF Run, TypeOK, ClaimInv, OwnerRunsFirst
<1>2. state' = state /\ turn' = turn /\ up' = up /\ lost' = lost BY DEF Run, durable
<1>3. PICK step \in {"complete", "mark", "refuse"} :
        pc' = [pc EXCEPT ![d] = step] /\ row' = row
  BY DEF Run, Goto
<1>4. \A c \in Threads, r \in Rows : Owns(c, r)' <=> Owns(c, r)
  BY <1>1, <1>3 DEF TypeOK, Owns
<1>5. \A r \in Rows : r # row[d] => ran'[r] = ran[r]
  BY <1>1 DEF Run, TypeOK
<1>6. OwnedReplyExecutes'
  BY <1>2, <1>4 DEF RecordInv, OwnersInv, OwnedReplyExecutes
<1>7. CompletedRan'
  <2>1. pc'[d] = "complete" => ran'[row[d]] = 1
    BY <1>1 DEF Run, Goto, TypeOK
  <2>2. \A c \in Threads : c # d /\ pc[c] = "complete" => row[c] # row[d] /\ row[c] \in Rows
    BY <1>1 DEF ClaimInv, OneOwner, Owns, TypeOK
  <2>3. QED BY <1>3, <1>5, <2>1, <2>2
            DEF RecordInv, OwnersInv, CompletedRan, TypeOK
<1>8. OnlyCommandsRefuse'
  BY DEF Run, Goto, RecordInv, OwnersInv, OnlyCommandsRefuse, TypeOK
<1>9. ReplyOutcomeIsTrue'
  <2>1. row[d] \in Replies => state[row[d]] = "executing"
    BY <1>1 DEF RecordInv, OwnersInv, OwnedReplyExecutes, Owns
  <2>2. QED BY <1>2, <1>5, <2>1 DEF RecordInv, RowsInv, ReplyOutcomeIsTrue
<1>10. TurnMirrorsReply' BY <1>2 DEF RecordInv, RowsInv, TurnMirrorsReply
<1>11. ExecutingHasAnOwner' BY <1>2, <1>4 DEF RecordInv, ExecutingHasAnOwner
<1>12. QED BY <1>6, <1>7, <1>8, <1>9, <1>10, <1>11 DEF RecordInv, OwnersInv, RowsInv

\* An outcome is written to the row and to the turn of a reply (finish, and
\* updateTurnDelivery in its transaction).
LEMMA FinishKeepsMirror ==
  ASSUME TypeOK, TurnMirrorsReply, NEW r \in Rows, NEW from, NEW to \in Final,
         Finish(r, from, to)
  PROVE  TurnMirrorsReply'
  BY TurnOfStateIs DEF TypeOK, TurnMirrorsReply, Finish, durable

\* A thread that returns gives up its row; nobody else owned it, or it was only
\* pending, when it takes an outcome.
LEMMA ReturnKeepsOwners ==
  ASSUME TypeOK, ClaimInv, RecordInv, NEW d \in Threads, NEW ok, Return(d, ok),
         row[d] \in Rows, ran' = ran, state' \in [Rows -> RowStates],
         \A r \in Rows : state'[r] # state[r] => r = row[d] /\ state'[r] \in Final,
         row[d] \in Replies =>
           pc[d] \in Owning \/ state[row[d]] = "pending" \/ state' = state,
         up' = up, lost \subseteq lost',
         pc[d] \in Owning => state'[row[d]] # "executing" \/ row[d] \in lost'
  PROVE  OwnersInv' /\ ExecutingHasAnOwner'
<1>1. \A c \in Threads : c # d => pc'[c] = pc[c] /\ row'[c] = row[c]
  BY DEF Return, TypeOK
<1>2. pc'[d] = "next" BY DEF Return, TypeOK
<1>3. \A c \in Threads, r \in Rows : Owns(c, r)' <=> Owns(c, r) /\ c # d
  BY <1>1, <1>2 DEF Owns
<1>4. OwnedReplyExecutes'
  <2> SUFFICES ASSUME NEW c \in Threads, NEW r \in Replies, Owns(c, r)'
               PROVE  state'[r] = "executing"
    BY DEF OwnedReplyExecutes
  <2>1. c # d /\ Owns(c, r) /\ state[r] = "executing"
    BY <1>3 DEF RecordInv, OwnersInv, OwnedReplyExecutes
  <2>2. CASE r = row[d]
    <3>1. ~Owns(d, r) BY <2>1 DEF ClaimInv, OneOwner
    <3>2. QED BY <2>1, <2>2, <3>1 DEF Owns
  <2>3. CASE r # row[d] BY <2>1, <2>3
  <2>4. QED BY <2>2, <2>3
<1>5. CompletedRan' /\ OnlyCommandsRefuse'
  BY <1>1, <1>2 DEF RecordInv, OwnersInv, CompletedRan, OnlyCommandsRefuse
<1>6. ExecutingHasAnOwner'
  <2> SUFFICES ASSUME NEW r \in Rows, state'[r] = "executing", up', r \notin lost'
               PROVE  \E c \in Threads : Owns(c, r)'
    BY DEF ExecutingHasAnOwner
  <2>1. PICK c \in Threads : Owns(c, r) BY DEF RecordInv, ExecutingHasAnOwner
  <2>2. c # d BY <2>1 DEF Owns
  <2>3. QED BY <1>3, <2>1, <2>2
<1>7. QED BY <1>4, <1>5, <1>6 DEF OwnersInv

\* Complete follows a call that succeeded: the owner records what it did.
LEMMA CompleteKeepsRecords ==
  ASSUME TypeOK, ClaimInv, RecordInv, NEW d \in Threads, Complete(d)
  PROVE  RecordInv'
<1>1. /\ row[d] \in Rows /\ pc[d] = "complete" /\ ran[row[d]] = 1
      /\ ran' = ran /\ up' = up /\ lost' = lost
  BY DEF Complete, TypeOK, RecordInv, OwnersInv, CompletedRan
<1>2. CASE state[row[d]] = "executing" /\ Finish(row[d], {"executing"}, "succeeded")
           /\ Return(d, TRUE)
  <2>1. state' = [state EXCEPT ![row[d]] = "succeeded"] BY <1>2 DEF Finish
  <2>2. state' \in [Rows -> RowStates] BY <1>1, <2>1 DEF TypeOK
  <2>3. \A r \in Rows : state'[r] # state[r] => r = row[d] /\ state'[r] \in Final
    BY <1>1, <2>1 DEF TypeOK
  <2>4. state'[row[d]] = "succeeded" BY <1>1, <2>1 DEF TypeOK
  <2>5. OwnersInv' /\ ExecutingHasAnOwner'
    BY <1>1, <1>2, <2>2, <2>3, <2>4, ReturnKeepsOwners
  <2>6. ReplyOutcomeIsTrue'
    BY <1>1, <2>3, <2>4 DEF RecordInv, RowsInv, ReplyOutcomeIsTrue
  <2>7. TurnMirrorsReply'
    BY <1>1, <1>2, FinishKeepsMirror DEF RecordInv, RowsInv
  <2>8. QED BY <2>5, <2>6, <2>7 DEF RecordInv, RowsInv
<1>3. CASE Goto(d, "mark") /\ UNCHANGED durable
  <2>1. pc' = [pc EXCEPT ![d] = "mark"] /\ row' = row /\ state' = state /\ turn' = turn
    BY <1>3 DEF Goto, durable
  <2>2. \A c \in Threads, r \in Rows : Owns(c, r)' <=> Owns(c, r)
    BY <1>1, <2>1 DEF TypeOK, Owns
  <2>3. OwnersInv'
    BY <1>1, <2>1, <2>2 DEF RecordInv, OwnersInv, OwnedReplyExecutes, CompletedRan,
                            OnlyCommandsRefuse, TypeOK
  <2>4. RowsInv'
    BY <1>1, <2>1 DEF RecordInv, RowsInv, ReplyOutcomeIsTrue, TurnMirrorsReply
  <2>5. ExecutingHasAnOwner'
    BY <1>1, <2>1, <2>2 DEF RecordInv, ExecutingHasAnOwner
  <2>6. QED BY <2>3, <2>4, <2>5 DEF RecordInv
<1>4. QED BY <1>2, <1>3 DEF Complete

\* record() writes the outcome, or notes that it could not.
LEMMA RecordKeepsRecords ==
  ASSUME TypeOK, ClaimInv, RecordInv, NEW d \in Threads,
         MarkUnknown(d) \/ FailTerminal(d)
  PROVE  RecordInv'
<1>1. /\ row[d] \in Rows /\ ran' = ran /\ up' = up /\ Return(d, FALSE)
      /\ lost \subseteq lost' /\ pc[d] \in {"mark", "deny", "refuse"}
  BY DEF MarkUnknown, FailTerminal, Record, TypeOK
<1>2. PICK to \in {"unknown", "failed_terminal"}, from \in SUBSET {"pending", "executing"} :
        /\ pc[d] = "mark" <=> to = "unknown"
        /\ pc[d] \in Owning => "executing" \in from
        /\ pc[d] = "mark" => from = {"executing"}
        /\ row[d] \in Replies /\ pc[d] # "mark" => from = {"pending"} /\ pc[d] = "deny"
        /\ Record(d, from, to)
  <2>1. CASE MarkUnknown(d) BY <2>1 DEF MarkUnknown
  <2>2. CASE FailTerminal(d)
    <3>1. pc[d] \in {"deny", "refuse"} /\ Record(d, FailableFrom(row[d]), "failed_terminal")
      BY <2>2 DEF FailTerminal
    <3>2. pc[d] = "refuse" => row[d] \notin Replies
      BY TurnsAreDistinct, PlansAreOrdered DEF RecordInv, OwnersInv, OnlyCommandsRefuse
    <3>3. QED BY <3>1, <3>2 DEF FailableFrom
  <2>3. QED BY <2>1, <2>2
<1>3. CASE UNCHANGED durable /\ lost' = IF pc[d] \in Owning THEN lost \cup {row[d]} ELSE lost
  <2>1. state' = state /\ turn' = turn BY <1>3 DEF durable
  <2>2. OwnersInv' /\ ExecutingHasAnOwner'
    BY <1>1, <1>3, <2>1, ReturnKeepsOwners DEF TypeOK
  <2>3. RowsInv'
    BY <1>1, <2>1 DEF RecordInv, RowsInv, ReplyOutcomeIsTrue, TurnMirrorsReply
  <2>4. QED BY <2>2, <2>3 DEF RecordInv
<1>4. CASE Finish(row[d], from, to)
  <2>1. \A r \in Rows : state'[r] # state[r] =>
          r = row[d] /\ state[r] \in from /\ state'[r] = to
    BY <1>1, <1>4 DEF Finish, durable, TypeOK
  <2>2. state[row[d]] \in from => state'[row[d]] = to
    BY <1>1, <1>4 DEF Finish, TypeOK
  <2>3. state' \in [Rows -> RowStates] BY <1>1, <1>4, FinishType
  <2>4. row[d] \in Replies => pc[d] \in Owning \/ state[row[d]] = "pending" \/ state' = state
    BY <1>1, <1>2, <1>4 DEF Finish, durable
  <2>5. pc[d] \in Owning => state'[row[d]] # "executing"
    BY <1>1, <1>2, <2>1, <2>2
  <2>6. OwnersInv' /\ ExecutingHasAnOwner'
    BY <1>1, <2>1, <2>3, <2>4, <2>5, ReturnKeepsOwners
  <2>7. ReplyOutcomeIsTrue'
    BY <1>1, <1>2, <2>1
    DEF RecordInv, RowsInv, ReplyOutcomeIsTrue, ClaimInv, UnclaimedIsUntouched
  <2>8. TurnMirrorsReply'
    BY <1>1, <1>4, FinishKeepsMirror DEF RecordInv, RowsInv
  <2>9. QED BY <2>6, <2>7, <2>8 DEF RecordInv, RowsInv
<1>5. QED BY <1>2, <1>3, <1>4 DEF Record

-----------------------------------------------------------------------------
(* Every step.                                                             *)

\* While the process is down nobody is inside Dispatch.
LEMMA DownStep == TypeOK /\ DownIsIdle /\ [Next]_vars => DownIsIdle'
<1> SUFFICES ASSUME TypeOK, DownIsIdle, [Next]_vars, ~up'
             PROVE  \A d \in Threads : pc'[d] = "idle"
  BY DEF DownIsIdle
<1>1. CASE Crash BY <1>1 DEF Crash
<1>2. CASE Restart \/ Connect BY <1>2 DEF Restart, Connect
<1>3. CASE Disconnect \/ UNCHANGED vars
  BY <1>3 DEF Disconnect, vars, threads, DownIsIdle
<1>4. ASSUME NEW d \in Workers,
             \/ \E t \in Turns : CommitPlan(d, t) \/ Redispatch(d, t)
             \/ \E e \in Effects : PlanDesktop(d, e)
      PROVE  FALSE
  <2>1. ASSUME NEW t \in Turns, CommitPlan(d, t) \/ Redispatch(d, t) PROVE up'
    BY <2>1 DEF CommitPlan, Redispatch
  <2>2. ASSUME NEW e \in Effects, PlanDesktop(d, e) PROVE up'
    BY <2>2 DEF PlanDesktop
  <2>3. QED BY <1>4, <2>1, <2>2
<1>5. ASSUME NEW young \in SUBSET Rows, ListReplies(young) \/ ListEffects(young)
      PROVE  FALSE
  BY <1>5 DEF ListReplies, ListEffects, DownIsIdle
<1>6. ASSUME NEW d \in Threads, Step(d) \/ StartFails(d) PROVE FALSE
  <2>1. up' = up
    BY <1>6 DEF Step, NextRow, EndJob, Load, CheckReply, CheckEffect, Start, Run, Complete,
                MarkUnknown, FailTerminal, Record, StartFails
  <2>2. pc[d] # "idle"
    BY <1>6 DEF Step, NextRow, EndJob, Load, CheckReply, CheckEffect, Start, Run, Complete,
                MarkUnknown, FailTerminal, StartFails
  <2>3. QED BY <2>1, <2>2 DEF DownIsIdle
<1>7. QED BY <1>1, <1>2, <1>3, <1>4, <1>5, <1>6 DEF Next

\* The steps of a thread before it claims a row, and the connection, disturb nobody.
LEMMA OthersAreBystanders ==
  ASSUME TypeOK,
         \/ \E d \in Workers, t \in Turns : Redispatch(d, t)
         \/ \E young \in SUBSET Rows : ListReplies(young) \/ ListEffects(young)
         \/ \E d \in Threads : \/ NextRow(d) \/ EndJob(d) \/ Load(d) \/ CheckReply(d)
                               \/ CheckEffect(d) \/ StartFails(d)
         \/ Connect \/ Disconnect \/ UNCHANGED vars
  PROVE  Bystander
<1> USE DEF durable, threads
<1>1. ASSUME NEW d \in Workers, NEW t \in Turns, Redispatch(d, t) PROVE Bystander
  BY <1>1, GiveJobIsBystander DEF Redispatch
<1>2. ASSUME NEW young \in SUBSET Rows, ListReplies(young) \/ ListEffects(young)
      PROVE  Bystander
  BY <1>2, GiveJobIsBystander DEF ListReplies, ListEffects
<1>3. ASSUME NEW d \in Threads, NextRow(d) \/ EndJob(d) PROVE Bystander
  BY <1>3 DEF NextRow, EndJob, Bystander, TypeOK
<1>4. ASSUME NEW d \in Threads, Load(d) PROVE Bystander
  <2>1. pc[d] \notin Owning /\ UNCHANGED <<turn, state, ran, up, lost>> BY <1>4 DEF Load
  <2>2. Goto(d, "check") \/ Return(d, state[row[d]] = "succeeded") BY <1>4 DEF Load
  <2>3. QED BY <2>1, <2>2, ReturnIsBystander, GotoIsBystander
<1>5. ASSUME NEW d \in Threads, CheckReply(d) \/ CheckEffect(d) PROVE Bystander
  <2>1. PICK step \in {"deny", "start"} : Goto(d, step) \/ Return(d, FALSE)
    BY <1>5 DEF CheckReply, CheckEffect
  <2>2. pc[d] \notin Owning /\ UNCHANGED <<turn, state, ran, up, lost>>
    BY <1>5 DEF CheckReply, CheckEffect
  <2>3. QED BY <2>1, <2>2, ReturnIsBystander, GotoIsBystander
<1>6. ASSUME NEW d \in Threads, StartFails(d) PROVE Bystander
  BY <1>6, ReturnIsBystander DEF StartFails
<1>7. CASE Connect \/ Disconnect \/ UNCHANGED vars
  BY <1>7 DEF Connect, Disconnect, vars, Bystander
<1>8. QED BY <1>1, <1>2, <1>3, <1>4, <1>5, <1>6, <1>7

\* A crash leaves no owner; a restart, no executing row.
LEMMA CrashKeepsRecords ==
  ASSUME TypeOK, RecordInv, DownIsIdle, Crash \/ Restart
  PROVE  RecordInv'
<1>1. CASE Crash
  <2>1. OwnersInv' /\ ExecutingHasAnOwner'
    BY <1>1 DEF Crash, OwnersInv, OwnedReplyExecutes, CompletedRan, OnlyCommandsRefuse,
                ExecutingHasAnOwner, Owns
  <2>2. RowsInv'
    BY <1>1 DEF Crash, durable, RecordInv, RowsInv, ReplyOutcomeIsTrue, TurnMirrorsReply
  <2>3. QED BY <2>1, <2>2 DEF RecordInv
<1>2. CASE Restart
  <2>1. \A d \in Threads : pc'[d] = "idle" BY <1>2 DEF Restart, threads, DownIsIdle
  <2>2. OwnersInv'
    BY <2>1 DEF OwnersInv, OwnedReplyExecutes, CompletedRan, OnlyCommandsRefuse, Owns
  <2>3. ReplyOutcomeIsTrue'
    BY <1>2 DEF Restart, RecordInv, RowsInv, ReplyOutcomeIsTrue
  <2>4. TurnMirrorsReply'
    BY <1>2, TurnOfStateIs DEF Restart, RecordInv, RowsInv, TurnMirrorsReply
  <2>5. ExecutingHasAnOwner' BY <1>2 DEF Restart, ExecutingHasAnOwner
  <2>6. QED BY <2>2, <2>3, <2>4, <2>5 DEF RecordInv, RowsInv
<1>3. QED BY <1>1, <1>2

\* Every step preserves the truth of the records.
LEMMA RecordStep ==
  TypeOK /\ ClaimInv /\ DownIsIdle /\ RecordInv /\ [Next]_vars => RecordInv'
<1> SUFFICES ASSUME TypeOK, ClaimInv, DownIsIdle, RecordInv, [Next]_vars
             PROVE  RecordInv'
  OBVIOUS
<1>1. CASE Bystander BY <1>1, BystanderKeeps
<1>2. CASE \E d \in Workers : \/ \E t \in Turns : CommitPlan(d, t)
                              \/ \E e \in Effects : PlanDesktop(d, e)
  BY <1>2, PlanKeepsRecords
<1>3. CASE \E d \in Threads : \/ Start(d) \/ Run(d) \/ Complete(d) \/ MarkUnknown(d)
                              \/ FailTerminal(d)
  BY <1>3, StartKeepsRecords, RunKeepsRecords, CompleteKeepsRecords, RecordKeepsRecords
<1>4. CASE Crash \/ Restart BY <1>4, CrashKeepsRecords
<1>5. QED BY <1>1, <1>2, <1>3, <1>4, OthersAreBystanders DEF Next, Step

\* What holds of the outbox in every state: types, claims and records.
OutboxInv == TypeOK /\ ClaimInv /\ DownIsIdle /\ RecordInv

\* A fresh database satisfies the invariant.
LEMMA InitOutbox == Init => OutboxInv
<1> SUFFICES ASSUME Init PROVE OutboxInv OBVIOUS
<1>1. ClaimInv
  BY DEF Init, ClaimInv, OneOwner, UnclaimedIsUntouched, OwnerRunsFirst,
         UnplannedIsBlank, AtMostOnce, Owns
<1>2. DownIsIdle /\ OwnersInv /\ ExecutingHasAnOwner
  BY DEF Init, DownIsIdle, OwnersInv, OwnedReplyExecutes, CompletedRan,
         OnlyCommandsRefuse, ExecutingHasAnOwner, Owns
<1>3. RowsInv
  BY TurnOfStateIs DEF Init, RowsInv, ReplyOutcomeIsTrue, TurnMirrorsReply
<1>4. QED BY <1>1, <1>2, <1>3, InitType DEF OutboxInv, RecordInv

\* Every step preserves it.
LEMMA OutboxStep == OutboxInv /\ [Next]_vars => OutboxInv'
  BY TypeStep, ClaimStep, DownStep, RecordStep DEF OutboxInv

\* The tables tell the truth in every state: a reply recorded as sent was sent,
\* one recorded as failed was not, its turn says the same, and whatever executes
\* has somebody who will record how it ends.
THEOREM RecordsHold == Spec => []RecordsAreTrue
<1>1. OutboxInv => RecordsAreTrue
  BY DEF OutboxInv, RecordInv, RowsInv, RecordsAreTrue
<1>2. QED BY <1>1, InitOutbox, OutboxStep, PTL DEF Spec

-----------------------------------------------------------------------------
(* The order of a reply and its effects.                                   *)

\* An effect that is or was under way follows what it waits for.
EffectsFollow ==
  \A e \in Effects :
    ran[e] > 0 \/ (\E d \in Threads : Owns(d, e)) => Delivered(e)

\* What an effect waits for stays: a receipt is final, and so is the plan of a
\* bare turn.
LEMMA DeliveredStays ==
  ASSUME TypeOK, UnplannedIsBlank, [Next]_vars, NEW e \in Effects, Delivered(e)
  PROVE  Delivered(e)'
<1>1. \A r \in Replies : state[r] = "succeeded" => state'[r] = "succeeded"
  BY FinalStep DEF KeepsFinal
<1>2. \A t \in Bare : turn[t] = "succeeded" => turn'[t] = "succeeded"
  <2> USE DEF durable, threads
  <2>1. CASE turn' = turn BY <2>1
  <2>2. ASSUME NEW d \in Workers, NEW t \in Turns, CommitPlan(d, t)
        PROVE  \A u \in Bare : turn[u] = "succeeded" => turn'[u] = "succeeded"
    BY <2>2 DEF CommitPlan, TypeOK
  <2>3. ASSUME NEW r \in Rows, NEW from, NEW to, Finish(r, from, to)
        PROVE  \A u \in Bare : turn[u] = "succeeded" => turn'[u] = "succeeded"
    BY <2>3, TurnsAreDistinct DEF Finish, TypeOK
  <2>4. ASSUME NEW d \in Threads, Start(d)
        PROVE  \A u \in Bare : turn[u] = "succeeded" => turn'[u] = "succeeded"
    BY <2>4, TurnsAreDistinct DEF Start, TypeOK
  <2>5. ASSUME NEW d \in Threads, Complete(d) \/ MarkUnknown(d) \/ FailTerminal(d)
        PROVE  \A u \in Bare : turn[u] = "succeeded" => turn'[u] = "succeeded"
    <3>1. row[d] \in Rows BY <2>5 DEF Complete, MarkUnknown, FailTerminal, TypeOK
    <3>2. turn' = turn \/ \E from, to : Finish(row[d], from, to)
      BY <2>5 DEF Complete, MarkUnknown, FailTerminal, Record
    <3>3. QED BY <2>1, <2>3, <3>1, <3>2
  <2>6. CASE Restart BY <2>6, TurnsAreDistinct DEF Restart
  <2>7. ASSUME NEW d \in Threads,
               \/ NextRow(d) \/ EndJob(d) \/ Load(d) \/ CheckReply(d) \/ CheckEffect(d)
               \/ StartFails(d) \/ Run(d)
        PROVE  turn' = turn
    BY <2>7 DEF NextRow, EndJob, Load, CheckReply, CheckEffect, StartFails, Run
  <2>8. QED BY <2>1, <2>2, <2>4, <2>5, <2>6, <2>7
            DEF Next, Step, Redispatch, PlanDesktop, ListReplies, ListEffects, Crash,
                Connect, Disconnect, vars
<1>3. QED BY <1>1, <1>2 DEF Delivered

\* Start looks at what the effect waits for as it claims it; nobody else takes
\* up an effect.
LEMMA EffectsStep ==
  TypeOK /\ ClaimInv /\ EffectsFollow /\ [Next]_vars => EffectsFollow'
<1> SUFFICES ASSUME TypeOK, ClaimInv, EffectsFollow, [Next]_vars,
                    NEW e \in Effects, (ran[e] > 0)' \/ \E d \in Threads : Owns(d, e)'
             PROVE  Delivered(e)'
  BY DEF EffectsFollow
<1>1. SUFFICES Delivered(e) BY DeliveredStays DEF ClaimInv
<1>2. CASE Quiet
  <2>1. ran' = ran /\ \A d \in Threads : Owns(d, e)' => Owns(d, e)
    BY <1>2 DEF Quiet, Owns
  <2>2. QED BY <2>1 DEF EffectsFollow
<1>3. ASSUME NEW d \in Threads, Start(d) PROVE Delivered(e)
  <2>1. ran' = ran /\ row[d] \in Rows BY <1>3 DEF Start, TypeOK
  <2>2. CASE Owns(d, e)'
    BY <1>3, <2>2 DEF Start, Goto, Return, Owns, TypeOK
  <2>3. ASSUME NEW c \in Threads, c # d, Owns(c, e)' PROVE Owns(c, e)
    BY <1>3, <2>3 DEF Start, Goto, Return, Owns, TypeOK
  <2>4. QED BY <2>1, <2>2, <2>3 DEF EffectsFollow
<1>4. ASSUME NEW d \in Threads, Run(d) PROVE Delivered(e)
  <2>1. row[d] \in Rows /\ pc[d] = "run" /\ Owns(d, row[d]) BY <1>4 DEF Run, TypeOK, Owns
  <2>2. \A c \in Threads : Owns(c, e)' => Owns(c, e)
    BY <1>4, <2>1 DEF Run, Goto, Owns, TypeOK
  <2>3. e # row[d] => ran'[e] = ran[e] BY <1>4, <2>1 DEF Run, TypeOK
  <2>4. QED BY <2>1, <2>2, <2>3 DEF EffectsFollow
<1>5. QED BY <1>2, <1>3, <1>4, OnlyStartAndRun DEF ClaimInv

\* No effect of the model is run before its reply is out and has its receipt.
THEOREM EffectsFollowReplies == Spec => []EffectFollowsReply
<1>1. Init => EffectsFollow BY DEF Init, EffectsFollow, Owns
<1>2. OutboxInv /\ EffectsFollow /\ [Next]_vars => EffectsFollow'
  BY EffectsStep DEF OutboxInv
<1>3. OutboxInv /\ EffectsFollow => EffectFollowsReply
  BY PlansAreOrdered, TurnsAreDistinct
     DEF OutboxInv, EffectsFollow, EffectFollowsReply, Delivered, RecordInv, RowsInv,
         ReplyOutcomeIsTrue
<1>4. QED BY <1>1, <1>2, <1>3, InitOutbox, OutboxStep, PTL DEF Spec

-----------------------------------------------------------------------------
(* The replies keep the promise: every step is a step of                   *)
(* AtMostOnceDelivery or leaves the replies alone.                         *)

PromiseStep == [Promise!Next]_(Promise!vars)

\* A step that leaves every reply as it was is a stutter of the promise.
LEMMA RepliesUntouched ==
  ASSUME \A r \in Replies : state'[r] = state[r] /\ ran'[r] = ran[r]
  PROVE  PromiseStep
  BY DEF PromiseStep, Promise!vars

\* A step that gives one reply another state is a record of the promise.
LEMMA ReplyRecorded ==
  ASSUME TypeOK, NEW r \in Replies, NEW from, NEW to, state[r] = from,
         state' = [state EXCEPT ![r] = to], ran' = ran
  PROVE  Promise!Record(r, from, to)
  BY DEF Promise!Record, TypeOK

\* Planning a turn with a text plans its reply; other plans are no business of
\* the promise.
LEMMA PlanIsPromised ==
  ASSUME TypeOK, ClaimInv, NEW d \in Workers,
         \/ \E t \in Turns : CommitPlan(d, t)
         \/ \E e \in Effects : PlanDesktop(d, e)
  PROVE  PromiseStep
<1>1. ran' = ran BY DEF CommitPlan, PlanDesktop
<1>2. ASSUME NEW t \in Replies, CommitPlan(d, t) PROVE PromiseStep
  <2>1. state[t] = "none" BY <1>2 DEF CommitPlan, ClaimInv, UnplannedIsBlank
  <2>2. \A r \in Replies : state'[r] = IF r = t THEN "pending" ELSE state[r]
    BY <1>2, TurnsAreDistinct DEF CommitPlan, EffectsOf
  <2>3. Promise!Plan(t)
    BY <1>1, <2>1, <2>2 DEF Promise!Plan, Promise!Record
  <2>4. QED BY <2>3 DEF PromiseStep, Promise!Next
<1>3. ASSUME NEW t \in Bare, CommitPlan(d, t) PROVE PromiseStep
  <2>1. \A r \in Replies : state'[r] = state[r]
    BY <1>3, TurnsAreDistinct DEF CommitPlan, EffectsOf
  <2>2. QED BY <1>1, <2>1, RepliesUntouched
<1>4. ASSUME NEW e \in Effects, PlanDesktop(d, e) PROVE PromiseStep
  <2>1. \A r \in Replies : state'[r] = state[r]
    BY <1>4, TurnsAreDistinct DEF PlanDesktop, TypeOK
  <2>2. QED BY <1>1, <2>1, RepliesUntouched
<1>5. QED BY <1>2, <1>3, <1>4

\* The claim of a reply, and its one attempt.
LEMMA AttemptIsPromised ==
  ASSUME TypeOK, ClaimInv, RecordInv, NEW d \in Threads, Start(d) \/ Run(d)
  PROVE  PromiseStep
<1>1. CASE Start(d)
  <2>1. PICK r \in Rows : r = row[d] /\ ran' = ran BY <1>1 DEF Start, TypeOK
  <2>2. CASE state' = state BY <2>1, <2>2, RepliesUntouched
  <2>3. CASE state[r] = "pending" /\ state' = [state EXCEPT ![r] = "executing"]
    <3>1. CASE r \in Replies
      <4>1. Promise!Claim(r) BY <2>1, <2>3, <3>1, ReplyRecorded DEF Promise!Claim
      <4>2. QED BY <3>1, <4>1 DEF PromiseStep, Promise!Next
    <3>2. CASE r \notin Replies
      BY <2>1, <2>3, <3>2, RepliesUntouched DEF TypeOK
    <3>3. QED BY <3>1, <3>2
  <2>4. QED BY <1>1, <2>1, <2>2, <2>3 DEF Start, durable
<1>2. CASE Run(d)
  <2>1. PICK r \in Rows : r = row[d] /\ pc[d] = "run" /\ state' = state
    BY <1>2 DEF Run, TypeOK, durable
  <2>2. CASE ran' = ran BY <2>1, <2>2, RepliesUntouched
  <2>3. CASE ran' = [ran EXCEPT ![r] = @ + 1]
    <3>1. CASE r \in Replies
      <4>1. state[r] = "executing" /\ ran[r] = 0
        BY <2>1, <3>1 DEF RecordInv, OwnersInv, OwnedReplyExecutes, Owns, ClaimInv,
                          OwnerRunsFirst
      <4>2. Promise!Attempt(r)
        BY <2>1, <2>3, <3>1, <4>1 DEF Promise!Attempt, TypeOK
      <4>3. QED BY <3>1, <4>2 DEF PromiseStep, Promise!Next
    <3>2. CASE r \notin Replies
      BY <2>1, <2>3, <3>2, RepliesUntouched DEF TypeOK
    <3>3. QED BY <3>1, <3>2
  <2>4. QED BY <1>2, <2>1, <2>2, <2>3 DEF Run
<1>3. QED BY <1>1, <1>2

\* An outcome of a reply: sent, refused before it was claimed, or not known.
LEMMA OutcomeIsPromised ==
  ASSUME TypeOK, ClaimInv, RecordInv, NEW d \in Threads,
         Complete(d) \/ MarkUnknown(d) \/ FailTerminal(d)
  PROVE  PromiseStep
<1>1. PICK r \in Rows : r = row[d] /\ ran' = ran
  BY DEF Complete, MarkUnknown, FailTerminal, Record, TypeOK
<1>2. CASE state' = state BY <1>1, <1>2, RepliesUntouched
<1>3. CASE r \notin Replies /\ \E from, to : Finish(r, from, to)
  <2>1. \A s \in Replies : state'[s] = state[s]
    BY <1>1, <1>3 DEF Finish, durable, TypeOK
  <2>2. QED BY <1>1, <2>1, RepliesUntouched
<1>4. ASSUME r \in Replies, NEW from, NEW to, state[r] \in from, Finish(r, from, to)
      PROVE  state' = [state EXCEPT ![r] = to]
  BY <1>4 DEF Finish
<1>5. ASSUME r \in Replies, state[r] = "executing", Complete(d),
             Finish(r, {"executing"}, "succeeded")
      PROVE  PromiseStep
  <2>1. ran[r] = 1 BY <1>1, <1>5 DEF Complete, RecordInv, OwnersInv, CompletedRan
  <2>2. Promise!Record(r, "executing", "succeeded")
    BY <1>1, <1>4, <1>5, ReplyRecorded
  <2>3. Promise!Succeed(r) BY <1>5, <2>1, <2>2 DEF Promise!Succeed
  <2>4. QED BY <1>5, <2>3 DEF PromiseStep, Promise!Next
<1>6. ASSUME r \in Replies, state[r] = "pending", Finish(r, {"pending"}, "failed_terminal")
      PROVE  PromiseStep
  <2>1. Promise!Reject(r)
    BY <1>1, <1>4, <1>6, ReplyRecorded DEF Promise!Reject
  <2>2. QED BY <1>6, <2>1 DEF PromiseStep, Promise!Next
<1>7. ASSUME r \in Replies, state[r] = "executing", Finish(r, {"executing"}, "unknown")
      PROVE  PromiseStep
  <2>1. state' = [state EXCEPT ![r] = "unknown"] BY <1>4, <1>7
  <2>2. Promise!LoseOutcome({r})
    BY <1>1, <1>7, <2>1 DEF Promise!LoseOutcome, TypeOK
  <2>3. QED BY <1>7, <2>2 DEF PromiseStep, Promise!Next
<1>8. CASE Complete(d)
  BY <1>1, <1>2, <1>3, <1>5, <1>8 DEF Complete, durable
<1>9. CASE MarkUnknown(d)
  <2>1. state' = state \/ Finish(r, {"executing"}, "unknown")
    BY <1>1, <1>9 DEF MarkUnknown, Record, durable
  <2>2. CASE state[r] # "executing" /\ Finish(r, {"executing"}, "unknown")
    BY <1>2, <2>2 DEF Finish, durable
  <2>3. QED BY <1>2, <1>3, <1>7, <2>1, <2>2
<1>10. CASE FailTerminal(d)
  <2>1. state' = state \/ Finish(r, FailableFrom(r), "failed_terminal")
    BY <1>1, <1>10 DEF FailTerminal, Record, durable
  <2>2. r \in Replies => FailableFrom(r) = {"pending"} BY DEF FailableFrom
  <2>3. CASE state[r] # "pending" /\ Finish(r, {"pending"}, "failed_terminal")
    BY <1>2, <2>3 DEF Finish, durable
  <2>4. QED BY <1>2, <1>3, <1>6, <2>1, <2>2, <2>3
<1>11. QED BY <1>8, <1>9, <1>10

\* A restart gives up on every interrupted reply at once.
LEMMA RestartIsPromised == ASSUME TypeOK, Restart PROVE PromiseStep
<1> PICK interrupted \in SUBSET Replies :
      interrupted = {r \in Replies : state[r] = "executing"}
  OBVIOUS
<1>1. Promise!LoseOutcome(interrupted)
  BY DEF Restart, Promise!LoseOutcome
<1>2. QED BY <1>1 DEF PromiseStep, Promise!Next

\* Every step of the outbox is a step of the promise or a stutter.
LEMMA StepIsPromised == OutboxInv /\ [Next]_vars => PromiseStep
<1> SUFFICES ASSUME TypeOK, ClaimInv, RecordInv, [Next]_vars PROVE PromiseStep
  BY DEF OutboxInv
<1>1. CASE Bystander BY <1>1, RepliesUntouched DEF Bystander
<1>2. CASE \E d \in Workers : \/ \E t \in Turns : CommitPlan(d, t)
                              \/ \E e \in Effects : PlanDesktop(d, e)
  BY <1>2, PlanIsPromised
<1>3. CASE \E d \in Threads : Start(d) \/ Run(d) BY <1>3, AttemptIsPromised
<1>4. CASE \E d \in Threads : Complete(d) \/ MarkUnknown(d) \/ FailTerminal(d)
  BY <1>4, OutcomeIsPromised
<1>5. CASE Crash BY <1>5, RepliesUntouched DEF Crash, durable
<1>6. CASE Restart BY <1>6, RestartIsPromised
<1>7. QED BY <1>1, <1>2, <1>3, <1>4, <1>5, <1>6, OthersAreBystanders DEF Next, Step

\* Whatever threads, crashes, lost writes and lost connections do, the replies
\* are claimed once, attempted once at most, and their fate is the truth as far
\* as anybody can know it.
THEOREM PromiseIsKept == Spec => RepliesKeepThePromise
<1>1. Init => Promise!Init BY DEF Init, Promise!Init
<1>2. OutboxInv /\ [Next]_vars => [Promise!Next]_(Promise!vars)
  BY StepIsPromised DEF PromiseStep
<1>3. QED BY <1>1, <1>2, InitOutbox, OutboxStep, PTL
          DEF Spec, RepliesKeepThePromise, Promise!Spec
=============================================================================

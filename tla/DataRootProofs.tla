--------------------------- MODULE DataRootProofs ---------------------------
(***************************************************************************)
(* Proofs about DataRoot, for every set of processes, roots and files and  *)
(* every value of the bounds; and about Retention, what the database of    *)
(* such a root keeps of a chat, for any messages, stickers and effects and *)
(* any ages, batch and bound of the clock.                                 *)
(***************************************************************************)
EXTENDS DataRoot, Retention, TLAPS

-----------------------------------------------------------------------------
(* What a process can be doing, by its step.                               *)

Apps == [step : {"opening", "live", "closing", "stuck"}, root : Roots, kind : {"host", "cli"}]
Copying == [step : {"copying"}, root : Roots, taken : Partial(Files)]
Checking == [step : {"checking"}, root : Roots]
Restoring == [step : {"verified", "restoring"}, root : Roots,
              manifest : Contents, late : SUBSET Files]
ProcStates == {Idle} \cup Apps \cup Copying \cup Checking \cup Restoring

-----------------------------------------------------------------------------
(* The inductive invariant.                                                *)

StateOK ==
  /\ disk \in [Roots -> Contents \cup {None}]
  /\ holder \in [Roots -> Procs \cup {None}]
  /\ pointer \in Roots \cup {None}
  /\ backup \in Backups \cup {None} /\ partial \in Copies \cup {None}
  /\ proc \in [Procs -> ProcStates]
CountersOK == crashes \in 0 .. MaxCrashes /\ faults \in 0 .. MaxFaults

\* Whoever is at work holds the lock of its root, and the root exists.
Leased ==
  \A p \in Procs : proc[p].step # "idle" =>
    holder[proc[p].root] = p /\ disk[proc[p].root] \in Contents

\* A restore works from a backup that is there, and knows what was damaged
\* since it verified it.
RestoresABackup ==
  \A p \in Procs :
    /\ proc[p].step \in {"checking", "verified", "restoring"} => backup \in Backups
    /\ proc[p].step \in {"verified", "restoring"} =>
         \A f \in Files : backup.files[f] # proc[p].manifest[f] => f \in proc[p].late

IInv ==
  /\ StateOK /\ CountersOK
  /\ Leased /\ BackupIsOnePoint
  /\ PartialHasOneWriter /\ RestoresABackup /\ RestoreIsVerified

-----------------------------------------------------------------------------
(* Lemmas.                                                                 *)

\* A state of a process is one of the five kinds, told apart by its step.
LEMMA Kinds ==
  ASSUME NEW s \in ProcStates
  PROVE  /\ s.step = "idle" => s = Idle
         /\ s.step \in {"opening", "live", "closing", "stuck"} => s \in Apps
         /\ s.step = "copying" => s \in Copying
         /\ s.step = "checking" => s \in Checking
         /\ s.step \in {"verified", "restoring"} => s \in Restoring
         /\ s.step \in {"idle", "opening", "live", "closing", "stuck", "copying",
                        "checking", "verified", "restoring"}
         /\ s.step # "idle" => s.root \in Roots
         /\ s = Idle => s.step = "idle" /\ s.root = None
  BY DEF ProcStates, Apps, Copying, Checking, Restoring, Idle

\* One more file is copied.
LEMMA WithType ==
  ASSUME NEW c \in Partial(Files), NEW f \in Files, NEW v \in 0 .. Damaged
  PROVE  /\ With(c, f, v) \in Partial(Files)
         /\ DOMAIN With(c, f, v) = DOMAIN c \cup {f} /\ DOMAIN c \subseteq Files
         /\ \A g \in DOMAIN c \cup {f} : With(c, f, v)[g] = IF g = f THEN v ELSE c[g]
<1>1. PICK D \in SUBSET Files : c \in [D -> 0 .. Damaged] BY DEF Partial
<1>2. DOMAIN c = D BY <1>1
<1>3. With(c, f, v) \in [D \cup {f} -> 0 .. Damaged] BY <1>1, <1>2 DEF With
<1>4. D \cup {f} \in SUBSET Files BY <1>1
<1>5. With(c, f, v) \in Partial(Files) BY <1>3, <1>4 DEF Partial
<1>6. QED BY <1>1, <1>2, <1>5 DEF With

\* A copy of every file is a root's contents.
LEMMA WholeCopy ==
  ASSUME NEW c \in Partial(Files), DOMAIN c = Files
  PROVE  c \in Contents
<1>1. PICK D \in SUBSET Files : c \in [D -> 0 .. Damaged] BY DEF Partial
<1>2. D = Files BY <1>1
<1>3. QED BY <1>1, <1>2 DEF Contents

LEMMA EmptyCopy == <<>> \in Partial(Files) /\ DOMAIN <<>> = {}
<1>1. <<>> \in [{} -> 0 .. Damaged] /\ DOMAIN <<>> = {} OBVIOUS
<1>2. QED BY <1>1 DEF Partial

LEMMA EmptyRoot == Empty \in Contents
  BY BoundsAssumption DEF Empty, Contents, Damaged

-----------------------------------------------------------------------------
LEMMA InitOK == Init => IInv
<1> SUFFICES ASSUME Init PROVE IInv OBVIOUS
<1>1. \A p \in Procs : proc[p] = Idle /\ proc[p].step = "idle" BY DEF Init, Idle
<1>2. StateOK BY DEF StateOK, Init, ProcStates
<1>3. CountersOK BY BoundsAssumption DEF CountersOK, Init
<1>4. QED
  BY <1>1, <1>2, <1>3
  DEF IInv, Leased, BackupIsOnePoint, PartialHasOneWriter, RestoresABackup, RestoreIsVerified

\* A process that ends, or gives up, leaves its lock and nobody else's.
LEMMA LeaveKeeps ==
  ASSUME IInv, NEW p \in Procs, Leave(p)
  PROVE  /\ proc' \in [Procs -> ProcStates] /\ holder' \in [Roots -> Procs \cup {None}]
         /\ \A q \in Procs : proc'[q].step # "idle" =>
              q # p /\ proc'[q] = proc[q] /\ proc[q].root \in Roots
              /\ holder'[proc[q].root] = q
<1>1. proc' \in [Procs -> ProcStates] BY DEF IInv, StateOK, Leave, ProcStates
<1>2. holder' \in [Roots -> Procs \cup {None}] BY DEF IInv, StateOK, Leave, Released
<1>3. ASSUME NEW q \in Procs, proc'[q].step # "idle"
      PROVE  q # p /\ proc'[q] = proc[q] /\ proc[q].root \in Roots /\ holder'[proc[q].root] = q
  <2>1. q # p /\ proc'[q] = proc[q] BY <1>3 DEF IInv, StateOK, Leave, Idle
  <2>2. proc[q].root \in Roots /\ holder[proc[q].root] = q
    BY <2>1, <1>3, Kinds DEF IInv, StateOK, Leased
  <2>3. QED BY <2>1, <2>2 DEF Leave, Released
<1>4. QED BY <1>1, <1>2, <1>3

\* A process that goes on keeps the locks as they are.
LEMMA GoKeeps ==
  ASSUME IInv, NEW p \in Procs, NEW next \in ProcStates, Go(p, next)
  PROVE  /\ proc' \in [Procs -> ProcStates] /\ proc'[p] = next
         /\ \A q \in Procs \ {p} : proc'[q] = proc[q]
  BY DEF IInv, StateOK, Go

\* A root whose lock is free, or that does not exist, is nobody's.
LEMMA AcquireKeeps ==
  ASSUME IInv, NEW p \in Procs, NEW r \in Roots, AcquireDataRootLease(p, r)
  PROVE  /\ disk' \in [Roots -> Contents \cup {None}] /\ disk'[r] \in Contents
         /\ holder' \in [Roots -> Procs \cup {None}] /\ holder'[r] = p
         /\ \A q \in Procs : proc[q].step # "idle" =>
              /\ proc[q].root \in Roots /\ holder'[proc[q].root] = q
              /\ disk'[proc[q].root] = disk[proc[q].root] /\ disk[proc[q].root] \in Contents
<1>1. disk' \in [Roots -> Contents \cup {None}] /\ disk'[r] \in Contents
  BY EmptyRoot DEF IInv, StateOK, AcquireDataRootLease, CanonicalDataRoot
<1>2. holder' \in [Roots -> Procs \cup {None}] /\ holder'[r] = p
  BY DEF IInv, StateOK, AcquireDataRootLease
<1>3. ASSUME NEW q \in Procs, proc[q].step # "idle"
      PROVE  /\ proc[q].root \in Roots /\ holder'[proc[q].root] = q
             /\ disk'[proc[q].root] = disk[proc[q].root] /\ disk[proc[q].root] \in Contents
  <2>1. proc[q].root \in Roots /\ holder[proc[q].root] = q /\ disk[proc[q].root] \in Contents
    BY <1>3, Kinds DEF IInv, StateOK, Leased
  <2>2. proc[q].root # r BY <2>1, RootsAssumption DEF AcquireDataRootLease
  <2>3. QED BY <2>1, <2>2 DEF IInv, StateOK, AcquireDataRootLease, CanonicalDataRoot
<1>4. QED BY <1>1, <1>2, <1>3

\* What every process that is at work keeps, and no more, when p leaves.
LEMMA LeavingIsSafe ==
  ASSUME IInv, NEW p \in Procs, Leave(p), UNCHANGED backup,
         \A r \in Roots : disk'[r] = disk[r] \/ disk[r] = None,
         disk' \in [Roots -> Contents \cup {None}],
         \/ UNCHANGED partial
         \/ \A q \in Procs \ {p} : proc[q].step # "restoring"
  PROVE  Leased' /\ BackupIsOnePoint' /\ PartialHasOneWriter' /\ RestoresABackup' /\ RestoreIsVerified'
<1>1. \A q \in Procs : proc'[q].step # "idle" =>
        q # p /\ proc'[q] = proc[q] /\ proc[q].root \in Roots /\ holder'[proc[q].root] = q
  BY LeaveKeeps
<1>2. \A q \in Procs : proc'[q].step # "idle" => disk'[proc[q].root] = disk[proc[q].root]
  BY <1>1, NoneAssumption DEF IInv, Leased
<1>3. Leased' BY <1>1, <1>2 DEF IInv, Leased
<1>4. BackupIsOnePoint' BY <1>1, <1>2 DEF IInv, BackupIsOnePoint
<1>5. PartialHasOneWriter' /\ RestoreIsVerified'
  BY <1>1 DEF IInv, PartialHasOneWriter, RestoreIsVerified
<1>6. RestoresABackup' BY <1>1 DEF IInv, RestoresABackup
<1>7. QED BY <1>3, <1>4, <1>5, <1>6

\* When p goes on and touches no file, whatever holds of the others still does.
LEMMA GoingOn ==
  ASSUME IInv, NEW p \in Procs, NEW next \in ProcStates, Go(p, next),
         UNCHANGED <<disk, holder, backup>>, UNCHANGED partial,
         proc[p].step # "idle", next.root = proc[p].root
  PROVE  /\ Leased'
         /\ \A q \in Procs \ {p} :
              /\ proc'[q] = proc[q]
         /\ proc'[p] = next /\ proc' \in [Procs -> ProcStates]
         /\ next.step \in {"opening", "live", "closing", "stuck", "checking"} => 
              BackupIsOnePoint' /\ PartialHasOneWriter' /\ RestoreIsVerified'
<1>1. /\ proc' \in [Procs -> ProcStates] /\ proc'[p] = next
      /\ \A q \in Procs \ {p} : proc'[q] = proc[q]
  BY GoKeeps
<1>2. Leased' BY <1>1 DEF IInv, Leased
<1>3. ASSUME next.step \in {"opening", "live", "closing", "stuck", "checking"}
      PROVE  BackupIsOnePoint' /\ PartialHasOneWriter' /\ RestoreIsVerified'
  BY <1>1, <1>3 DEF IInv, BackupIsOnePoint, PartialHasOneWriter, RestoreIsVerified
<1>4. QED BY <1>1, <1>2, <1>3

-----------------------------------------------------------------------------
(* Every action keeps the invariant.                                       *)

\* Those that end in Leave and touch no file.
LEMMA LeavingKeeps ==
  ASSUME IInv, NEW p \in Procs, Leave(p), UNCHANGED <<disk, pointer, backup>>,
         partial' \in Copies \cup {None}, CountersOK',
         UNCHANGED partial \/ \A q \in Procs \ {p} : proc[q].step # "restoring"
  PROVE  IInv'
<1>1. StateOK' BY LeaveKeeps DEF IInv, StateOK
<1>2. Leased' /\ BackupIsOnePoint' /\ PartialHasOneWriter' /\ RestoresABackup' /\ RestoreIsVerified'
  BY LeavingIsSafe DEF IInv, StateOK
<1>3. QED BY <1>1, <1>2 DEF IInv

\* A restore that is filling the copy is the only one.
LEMMA OneRestores ==
  ASSUME IInv, NEW p \in Procs, proc[p].step = "restoring"
  PROVE  /\ partial \in Copies /\ partial.by = p
         /\ \A q \in Procs \ {p} : proc[q].step # "restoring"
  BY DEF IInv, StateOK, PartialHasOneWriter

\* A process takes the lease of a root and starts on something.
LEMMA StartKeeps ==
  ASSUME IInv, NEW p \in Procs, NEW r \in Roots, NEW next \in ProcStates,
         proc[p] = Idle, AcquireDataRootLease(p, r), Go(p, next), next.root = r,
         next.step \in {"opening", "copying", "checking"},
         next.step = "copying" => next.taken = <<>>,
         next.step = "checking" => backup # None,
         UNCHANGED <<pointer, backup, partial, crashes, faults>>
  PROVE  IInv'
<1>1. /\ proc' \in [Procs -> ProcStates] /\ proc'[p] = next
      /\ \A q \in Procs \ {p} : proc'[q] = proc[q]
  BY GoKeeps
<1>2. /\ disk' \in [Roots -> Contents \cup {None}] /\ disk'[r] \in Contents
      /\ holder' \in [Roots -> Procs \cup {None}] /\ holder'[r] = p
      /\ \A q \in Procs : proc[q].step # "idle" =>
           /\ proc[q].root \in Roots /\ holder'[proc[q].root] = q
           /\ disk'[proc[q].root] = disk[proc[q].root] /\ disk[proc[q].root] \in Contents
  BY AcquireKeeps
<1>3. StateOK' /\ CountersOK' BY <1>1, <1>2 DEF IInv, StateOK, CountersOK
<1>4. Leased' BY <1>1, <1>2 DEF Leased
<1>5. BackupIsOnePoint' BY <1>1, <1>2, EmptyCopy DEF IInv, BackupIsOnePoint
<1>6. PartialHasOneWriter' /\ RestoreIsVerified'
  BY <1>1 DEF IInv, PartialHasOneWriter, RestoreIsVerified
<1>7. RestoresABackup' BY <1>1 DEF IInv, StateOK, RestoresABackup
<1>8. QED BY <1>3, <1>4, <1>5, <1>6, <1>7 DEF IInv

\* A process goes on, and nothing but what it is doing and the pointer changes.
LEMMA GoingOnKeeps ==
  ASSUME IInv, NEW p \in Procs, NEW next \in ProcStates, Go(p, next),
         UNCHANGED <<disk, holder, backup, partial, crashes, faults>>,
         pointer' \in Roots \cup {None},
         proc[p].step # "idle", next.root = proc[p].root,
         next.step \in {"opening", "live", "closing", "stuck"}
  PROVE  IInv'
<1>1. Leased' /\ BackupIsOnePoint' /\ PartialHasOneWriter' /\ RestoreIsVerified'
      /\ proc' \in [Procs -> ProcStates] /\ proc'[p] = next
      /\ \A q \in Procs \ {p} : proc'[q] = proc[q]
  BY GoingOn
<1>2. StateOK' /\ CountersOK' BY <1>1 DEF IInv, StateOK, CountersOK
<1>3. RestoresABackup' BY <1>1 DEF IInv, RestoresABackup
<1>4. QED BY <1>1, <1>2, <1>3 DEF IInv

LEMMA CrashStep == ASSUME IInv, NEW p \in Procs, Crash(p) PROVE IInv'
<1>1. CountersOK' BY BoundsAssumption DEF IInv, CountersOK, Crash
<1>2. QED BY <1>1, LeavingKeeps DEF IInv, StateOK, Crash

LEMMA FaultCounts == ASSUME IInv, Fault, UNCHANGED crashes PROVE CountersOK'
  BY BoundsAssumption DEF IInv, CountersOK, Fault

LEMMA LaunchStep == ASSUME IInv, NEW p \in Procs, Launch(p) PROVE IInv'
<1>1. PICK kind \in {"host", "cli"}, r \in Roots :
        /\ proc[p] = Idle /\ AcquireDataRootLease(p, r)
        /\ Go(p, [step |-> "opening", root |-> r, kind |-> kind])
        /\ UNCHANGED <<pointer, backup, partial, crashes, faults>>
  BY DEF Launch
<1> DEFINE next == [step |-> "opening", root |-> r, kind |-> kind]
<1>2. next \in ProcStates BY DEF ProcStates, Apps
<1>3. next.root = r /\ next.step = "opening" OBVIOUS
<1> HIDE DEF next
<1>4. Go(p, next) BY <1>1 DEF next
<1>5. QED BY <1>1, <1>2, <1>3, <1>4, StartKeeps

LEMMA OpenStep == ASSUME IInv, NEW p \in Procs, Open(p) PROVE IInv'
<1> DEFINE next == [proc[p] EXCEPT !.step = "live"]
<1>1. proc[p] \in Apps BY Kinds DEF IInv, StateOK, Open
<1>2. next \in ProcStates /\ next.root = proc[p].root /\ next.step = "live"
  BY <1>1 DEF ProcStates, Apps
<1> HIDE DEF next
<1>3. Go(p, next) /\ proc[p].step = "opening" BY DEF Open, next
<1>4. pointer' \in Roots \cup {None} BY <1>1 DEF Open, SaveBootstrap, IInv, StateOK, Apps
<1>5. QED BY <1>2, <1>3, <1>4, GoingOnKeeps DEF Open

LEMMA OpenFailsStep == ASSUME IInv, NEW p \in Procs, OpenFails(p) PROVE IInv'
<1>1. CountersOK' BY FaultCounts DEF OpenFails
<1>2. QED BY <1>1, LeavingKeeps DEF IInv, StateOK, OpenFails

LEMMA BeginCloseStep == ASSUME IInv, NEW p \in Procs, BeginClose(p) PROVE IInv'
<1> DEFINE next == [proc[p] EXCEPT !.step = "closing"]
<1>1. proc[p] \in Apps BY Kinds DEF IInv, StateOK, BeginClose
<1>2. next \in ProcStates /\ next.root = proc[p].root /\ next.step = "closing"
  BY <1>1 DEF ProcStates, Apps
<1> HIDE DEF next
<1>3. Go(p, next) /\ proc[p].step = "live" BY DEF BeginClose, next
<1>4. QED BY <1>2, <1>3, GoingOnKeeps DEF BeginClose, IInv, StateOK

LEMMA CloseStep == ASSUME IInv, NEW p \in Procs, Close(p) PROVE IInv'
<1> DEFINE next == [proc[p] EXCEPT !.step = "stuck"]
<1>1. proc[p] \in Apps /\ proc[p].step = "closing" BY Kinds DEF IInv, StateOK, Close
<1>2. next \in ProcStates /\ next.root = proc[p].root /\ next.step = "stuck"
  BY <1>1 DEF ProcStates, Apps
<1> HIDE DEF next
<1>3. CASE Leave(p) BY <1>3, LeavingKeeps DEF IInv, StateOK, CountersOK, Close
<1>4. CASE Go(p, next) /\ UNCHANGED holder
  BY <1>1, <1>2, <1>4, GoingOnKeeps DEF Close, IInv, StateOK
<1>5. QED BY <1>3, <1>4 DEF Close, next

LEMMA ExitStep == ASSUME IInv, NEW p \in Procs, Exit(p) PROVE IInv'
  BY LeavingKeeps DEF IInv, StateOK, CountersOK, Exit

LEMMA WriteStep == ASSUME IInv, NEW p \in Procs, NEW f \in Files, Write(p, f) PROVE IInv'
<1> DEFINE r == proc[p].root
           was == disk[r]
<1>1. UsesStores(p) /\ was[f] < MaxVersion
      /\ disk' = [disk EXCEPT ![r][f] = @ + 1]
      /\ UNCHANGED <<holder, pointer, backup, partial, proc, crashes, faults>>
  BY DEF Write
<1>2. r \in Roots /\ holder[r] = p /\ was \in Contents
  BY <1>1, Kinds DEF IInv, StateOK, Leased, UsesStores
<1>3. was[f] \in 0 .. Damaged /\ MaxVersion \in Nat
  BY <1>2, BoundsAssumption DEF Contents
<1>4. was[f] + 1 \in 0 .. Damaged BY <1>1, <1>3 DEF Damaged
<1>5. disk'[r] \in Contents BY <1>1, <1>2, <1>4 DEF IInv, StateOK, Contents
<1>6. \A o \in Roots \ {r} : disk'[o] = disk[o] BY <1>1 DEF IInv, StateOK
<1>7. disk' \in [Roots -> Contents \cup {None}] BY <1>1, <1>5, <1>6 DEF IInv, StateOK
<1>8. StateOK' /\ CountersOK' BY <1>1, <1>7 DEF IInv, StateOK, CountersOK
<1>9. \A q \in Procs : proc[q].step # "idle" /\ q # p => proc[q].root \in Roots \ {r}
  BY <1>2, Kinds DEF IInv, StateOK, Leased
<1>10. Leased' BY <1>1, <1>5, <1>6, <1>9 DEF IInv, Leased
<1>11. BackupIsOnePoint'
  BY <1>1, <1>6, <1>9 DEF IInv, BackupIsOnePoint, UsesStores
<1>12. PartialHasOneWriter' /\ RestoresABackup' /\ RestoreIsVerified'
  BY <1>1 DEF IInv, PartialHasOneWriter, RestoresABackup, RestoreIsVerified
<1>13. QED BY <1>8, <1>10, <1>11, <1>12 DEF IInv

LEMMA BackupStep == ASSUME IInv, NEW p \in Procs, Backup(p) PROVE IInv'
<1>1. PICK r \in Roots :
        /\ RunOffline(p, r, [step |-> "copying", root |-> r, taken |-> <<>>])
        /\ UNCHANGED <<pointer, backup, partial, crashes, faults>>
  BY DEF Backup
<1> DEFINE next == [step |-> "copying", root |-> r, taken |-> <<>>]
<1>2. next \in ProcStates BY EmptyCopy DEF ProcStates, Copying
<1>3. next.root = r /\ next.step = "copying" /\ next.taken = <<>> OBVIOUS
<1> HIDE DEF next
<1>4. proc[p] = Idle /\ AcquireDataRootLease(p, r) /\ Go(p, next)
  BY <1>1 DEF next, RunOffline
<1>5. QED BY <1>1, <1>2, <1>3, <1>4, StartKeeps

LEMMA CopyTreeStep == ASSUME IInv, NEW p \in Procs, NEW f \in Files, CopyTree(p, f) PROVE IInv'
<1> DEFINE found == disk[proc[p].root][f]
           taken == proc[p].taken
           more == With(taken, f, found)
           next == [proc[p] EXCEPT !.taken = more]
<1>1. proc[p] \in Copying /\ proc[p].step = "copying"
  BY Kinds DEF IInv, StateOK, CopyTree
<1>2. found \in 0 .. Damaged /\ taken \in Partial(Files)
  BY <1>1 DEF IInv, Leased, Contents, Copying
<1> HIDE DEF found, taken
<1>3. /\ more \in Partial(Files) /\ DOMAIN more = DOMAIN taken \cup {f}
      /\ \A g \in DOMAIN taken \cup {f} : more[g] = IF g = f THEN found ELSE taken[g]
  <2>1. more \in Partial(Files) BY <1>2, WithType
  <2>2. QED BY <2>1 DEF With
<1> HIDE DEF more
<1>4. /\ next \in ProcStates /\ next.root = proc[p].root /\ next.step = "copying"
      /\ next.taken = more
  BY <1>1, <1>3 DEF ProcStates, Copying
<1>5. Go(p, next) /\ UNCHANGED <<disk, holder, pointer, backup, partial, crashes, faults>>
  BY DEF CopyTree, found, taken, more
<1>6. \A g \in DOMAIN next.taken : disk[proc[p].root][g] = next.taken[g]
  BY <1>1, <1>3, <1>4 DEF IInv, BackupIsOnePoint, found, taken
<1> HIDE DEF next
<1>7. Leased' /\ proc' \in [Procs -> ProcStates] /\ proc'[p] = next
      /\ \A q \in Procs \ {p} : proc'[q] = proc[q]
  BY <1>1, <1>4, <1>5, GoingOn
<1>8. StateOK' /\ CountersOK' BY <1>5, <1>7 DEF IInv, StateOK, CountersOK
<1>9. BackupIsOnePoint' BY <1>4, <1>5, <1>6, <1>7 DEF IInv, BackupIsOnePoint
<1>10. PartialHasOneWriter' /\ RestoresABackup' /\ RestoreIsVerified'
  BY <1>4, <1>5, <1>7 DEF IInv, PartialHasOneWriter, RestoresABackup, RestoreIsVerified
<1>11. QED BY <1>7, <1>8, <1>9, <1>10 DEF IInv

LEMMA CommitBackupStep == ASSUME IInv, NEW p \in Procs, CommitBackup(p) PROVE IInv'
<1>1. CASE backup' = backup
  BY <1>1, LeavingKeeps DEF IInv, StateOK, CountersOK, CommitBackup
<1>2. CASE backup' # backup
  <2>1. backup = None /\ backup' = [files |-> proc[p].taken, manifest |-> proc[p].taken]
        /\ Leave(p) /\ UNCHANGED <<disk, pointer, partial, crashes, faults>>
    BY <1>2 DEF CommitBackup
  <2>2. proc[p].taken \in Contents
    BY Kinds, WholeCopy DEF IInv, StateOK, CommitBackup, Copying
  <2>3. backup' \in Backups BY <2>1, <2>2 DEF Backups
  <2>4. StateOK' /\ CountersOK' BY <2>1, <2>3, LeaveKeeps DEF IInv, StateOK, CountersOK
  <2>5. backup \notin Backups BY <2>1, NoneAssumption
  <2>6. \A q \in Procs : proc'[q].step # "idle" =>
          proc'[q] = proc[q] /\ proc[q].root \in Roots /\ holder'[proc[q].root] = q
    BY <2>1, LeaveKeeps
  <2>7. Leased' BY <2>1, <2>6 DEF IInv, Leased
  <2>8. BackupIsOnePoint' BY <2>1, <2>6 DEF IInv, BackupIsOnePoint
  <2>9. RestoresABackup' BY <2>5, <2>6 DEF IInv, RestoresABackup
  <2>10. PartialHasOneWriter' /\ RestoreIsVerified'
    BY <2>1, <2>6 DEF IInv, PartialHasOneWriter, RestoreIsVerified
  <2>11. QED BY <2>4, <2>7, <2>8, <2>9, <2>10 DEF IInv
<1>3. QED BY <1>1, <1>2

LEMMA BackupFailsStep == ASSUME IInv, NEW p \in Procs, BackupFails(p) PROVE IInv'
<1>1. CountersOK' BY FaultCounts DEF BackupFails
<1>2. QED BY <1>1, LeavingKeeps DEF IInv, StateOK, BackupFails

\* What a process is doing after a file of the backup was damaged.
LEMMA DamageNotes ==
  ASSUME IInv, NEW f \in Files, NEW q \in Procs, Damage(f)
  PROVE  /\ proc'[q] \in ProcStates
         /\ proc'[q].step = proc[q].step /\ proc'[q].root = proc[q].root
         /\ proc[q].step = "copying" => proc'[q].taken = proc[q].taken
         /\ proc[q].step \in {"verified", "restoring"} =>
              proc'[q].manifest = proc[q].manifest /\ proc'[q].late = proc[q].late \cup {f}
<1>1. proc[q] \in ProcStates BY DEF IInv, StateOK
<1>2. CASE proc[q].step \in {"verified", "restoring"}
  <2>1. proc[q] \in Restoring BY <1>1, <1>2, Kinds
  <2>2. proc'[q] = [proc[q] EXCEPT !.late = @ \cup {f}] BY <1>2 DEF Damage
  <2>3. proc'[q] \in Restoring BY <2>1, <2>2 DEF Restoring
  <2>4. QED BY <1>2, <2>1, <2>2, <2>3 DEF Restoring, ProcStates
<1>3. CASE proc[q].step \notin {"verified", "restoring"} BY <1>1, <1>3 DEF Damage
<1>4. QED BY <1>2, <1>3

LEMMA DamageStep == ASSUME IInv, NEW f \in Files, Damage(f) PROVE IInv'
<1>1. UNCHANGED <<disk, holder, pointer, partial, crashes>> /\ backup # None
      /\ backup' = [backup EXCEPT !.files[f] = Damaged]
  BY DEF Damage
<1>2. backup \in Backups BY <1>1 DEF IInv, StateOK
<1>3. Damaged \in 0 .. Damaged BY BoundsAssumption DEF Damaged
<1>4. backup' \in Backups /\ \A g \in Files \ {f} : backup'.files[g] = backup.files[g]
  BY <1>1, <1>2, <1>3 DEF Backups, Contents
<1>5. proc' \in [Procs -> ProcStates]
  <2>1. \A q \in Procs : proc'[q] \in ProcStates BY DamageNotes
  <2>2. QED BY <2>1 DEF Damage
<1>6. CountersOK' BY FaultCounts DEF Damage
<1>7. StateOK' BY <1>1, <1>4, <1>5 DEF IInv, StateOK
<1>8. Leased' BY <1>1, DamageNotes DEF IInv, Leased
<1>9. BackupIsOnePoint' BY <1>1, DamageNotes DEF IInv, BackupIsOnePoint
<1>10. PartialHasOneWriter' BY <1>1, DamageNotes DEF IInv, PartialHasOneWriter
<1>11. RestoresABackup' BY <1>4, DamageNotes DEF IInv, RestoresABackup
<1>12. RestoreIsVerified' BY <1>1, DamageNotes DEF IInv, RestoreIsVerified
<1>13. QED BY <1>6, <1>7, <1>8, <1>9, <1>10, <1>11, <1>12 DEF IInv

LEMMA RestoreStep == ASSUME IInv, NEW p \in Procs, Restore(p) PROVE IInv'
<1>1. PICK r \in Roots :
        /\ backup # None /\ RunOffline(p, r, [step |-> "checking", root |-> r])
        /\ UNCHANGED <<pointer, backup, partial, crashes, faults>>
  BY DEF Restore
<1> DEFINE next == [step |-> "checking", root |-> r]
<1>2. next \in ProcStates BY DEF ProcStates, Checking
<1>3. next.root = r /\ next.step = "checking" OBVIOUS
<1> HIDE DEF next
<1>4. proc[p] = Idle /\ AcquireDataRootLease(p, r) /\ Go(p, next)
  BY <1>1 DEF next, RunOffline
<1>5. QED BY <1>1, <1>2, <1>3, <1>4, StartKeeps

LEMMA VerifyBackupStep == ASSUME IInv, NEW p \in Procs, VerifyBackup(p) PROVE IInv'
<1>1. CASE Leave(p) BY <1>1, LeavingKeeps DEF IInv, StateOK, CountersOK, VerifyBackup
<1>2. CASE ~ Leave(p)
  <2> DEFINE next == [step |-> "verified", root |-> proc[p].root,
                      manifest |-> backup.manifest, late |-> {}]
  <2>1. Verify /\ Go(p, next) /\ UNCHANGED <<disk, holder, pointer, backup, partial, crashes, faults>>
        /\ proc[p].step = "checking"
    BY <1>2 DEF VerifyBackup
  <2>2. backup \in Backups BY <2>1 DEF IInv, RestoresABackup
  <2>3. proc[p].root \in Roots BY <2>1, Kinds DEF IInv, StateOK
  <2>4. /\ next \in ProcStates /\ next.root = proc[p].root /\ next.step = "verified"
        /\ next.manifest = backup.files
    BY <2>1, <2>2, <2>3 DEF ProcStates, Restoring, Backups, Verify
  <2> HIDE DEF next
  <2>5. Leased' /\ proc' \in [Procs -> ProcStates] /\ proc'[p] = next
        /\ \A q \in Procs \ {p} : proc'[q] = proc[q]
    BY <2>1, <2>4, GoingOn
  <2>6. StateOK' /\ CountersOK' BY <2>1, <2>5 DEF IInv, StateOK, CountersOK
  <2>7. RestoresABackup' BY <2>1, <2>2, <2>4, <2>5 DEF IInv, RestoresABackup
  <2>8. BackupIsOnePoint' /\ PartialHasOneWriter' /\ RestoreIsVerified'
    BY <2>1, <2>4, <2>5 DEF IInv, BackupIsOnePoint, PartialHasOneWriter, RestoreIsVerified
  <2>9. QED BY <2>5, <2>6, <2>7, <2>8 DEF IInv
<1>3. QED BY <1>1, <1>2

LEMMA MakePartialStep == ASSUME IInv, NEW p \in Procs, MakePartial(p) PROVE IInv'
<1>1. CASE ~ (disk[Destination] = None /\ partial = None)
  BY <1>1, LeavingKeeps DEF IInv, StateOK, CountersOK, MakePartial
<1>2. CASE disk[Destination] = None /\ partial = None
  <2> DEFINE next == [proc[p] EXCEPT !.step = "restoring"]
  <2>1. /\ Go(p, next) /\ partial = None /\ partial' = [by |-> p, files |-> <<>>]
        /\ UNCHANGED <<disk, holder, pointer, backup, crashes, faults>>
        /\ proc[p].step = "verified"
    BY <1>2 DEF MakePartial
  <2>2. proc[p] \in Restoring BY <2>1, Kinds DEF IInv, StateOK
  <2>3. /\ next \in ProcStates /\ next.root = proc[p].root /\ next.step = "restoring"
        /\ next.manifest = proc[p].manifest /\ next.late = proc[p].late
    BY <2>2 DEF ProcStates, Restoring
  <2> HIDE DEF next
  <2>4. proc' \in [Procs -> ProcStates] /\ proc'[p] = next
        /\ \A q \in Procs \ {p} : proc'[q] = proc[q]
    BY <2>1, <2>3, GoKeeps
  <2>5. /\ partial' \in Copies /\ partial' # None /\ partial'.by = p
        /\ DOMAIN partial'.files = {}
    BY <2>1, EmptyCopy, NoneAssumption DEF Copies
  <2>6. \A q \in Procs : proc[q].step # "restoring"
    BY <2>1 DEF IInv, PartialHasOneWriter
  <2>7. StateOK' /\ CountersOK' BY <2>1, <2>4, <2>5 DEF IInv, StateOK, CountersOK
  <2>8. Leased' BY <2>1, <2>3, <2>4 DEF IInv, Leased
  <2>9. RestoresABackup' BY <2>1, <2>3, <2>4 DEF IInv, RestoresABackup
  <2>10. BackupIsOnePoint' BY <2>1, <2>3, <2>4 DEF IInv, BackupIsOnePoint
  <2>11. PartialHasOneWriter' BY <2>4, <2>5, <2>6 DEF PartialHasOneWriter
  <2>12. RestoreIsVerified' BY <2>5 DEF RestoreIsVerified
  <2>13. QED BY <2>7, <2>8, <2>9, <2>10, <2>11, <2>12 DEF IInv
<1>3. QED BY <1>1, <1>2

LEMMA CopyBackStep == ASSUME IInv, NEW p \in Procs, NEW f \in Files, CopyBack(p, f) PROVE IInv'
<1> DEFINE found == backup.files[f]
           files == partial.files
           more == With(files, f, found)
<1>1. /\ proc[p].step = "restoring" /\ partial' = [partial EXCEPT !.files = more]
      /\ UNCHANGED <<disk, holder, pointer, backup, proc, crashes, faults>>
  BY DEF CopyBack
<1>2. backup \in Backups /\ partial \in Copies /\ partial.by = p
      /\ \A g \in Files : backup.files[g] # proc[p].manifest[g] => g \in proc[p].late
  BY <1>1, OneRestores DEF IInv, RestoresABackup
<1>3. found \in 0 .. Damaged /\ files \in Partial(Files)
  BY <1>2 DEF Backups, Contents, Copies
<1>4. \A g \in DOMAIN files : files[g] # proc[p].manifest[g] => g \in proc[p].late
  BY <1>1, <1>2, NoneAssumption DEF IInv, RestoreIsVerified
<1>5. found # proc[p].manifest[f] => f \in proc[p].late BY <1>2
<1> HIDE DEF found, files
<1>6. /\ more \in Partial(Files) /\ DOMAIN more = DOMAIN files \cup {f}
      /\ \A g \in DOMAIN files \cup {f} : more[g] = IF g = f THEN found ELSE files[g]
  <2>1. more \in Partial(Files) BY <1>3, WithType
  <2>2. QED BY <2>1 DEF With
<1> HIDE DEF more
<1>7. partial' \in Copies /\ partial' # None /\ partial'.by = p /\ partial'.files = more
  BY <1>1, <1>2, <1>6, NoneAssumption DEF Copies
<1>8. StateOK' /\ CountersOK' BY <1>1, <1>7 DEF IInv, StateOK, CountersOK
<1>9. Leased' /\ BackupIsOnePoint' /\ RestoresABackup'
  BY <1>1 DEF IInv, Leased, BackupIsOnePoint, RestoresABackup
<1>10. PartialHasOneWriter' BY <1>1, <1>2, <1>7 DEF IInv, PartialHasOneWriter
<1>11. \A g \in DOMAIN more : more[g] # proc[p].manifest[g] => g \in proc[p].late
  BY <1>4, <1>5, <1>6
<1>12. RestoreIsVerified' BY <1>1, <1>7, <1>11 DEF RestoreIsVerified
<1>13. QED BY <1>8, <1>9, <1>10, <1>12 DEF IInv

LEMMA RestoreFailsStep == ASSUME IInv, NEW p \in Procs, RestoreFails(p) PROVE IInv'
<1>1. CountersOK' BY FaultCounts DEF RestoreFails
<1>2. QED BY <1>1, OneRestores, LeavingKeeps DEF IInv, StateOK, RestoreFails

LEMMA CommitRestoreStep == ASSUME IInv, NEW p \in Procs, CommitRestore(p) PROVE IInv'
<1>1. /\ proc[p].step = "restoring" /\ DOMAIN partial.files = Files /\ Leave(p)
      /\ disk' = [disk EXCEPT ![Destination] = IF @ = None THEN partial.files ELSE @]
      /\ partial' = None /\ UNCHANGED <<pointer, backup, crashes, faults>>
  BY DEF CommitRestore, Complete
<1>2. partial \in Copies /\ \A q \in Procs \ {p} : proc[q].step # "restoring"
  BY <1>1, OneRestores
<1>3. partial.files \in Contents BY <1>1, <1>2, WholeCopy DEF Copies
<1>4. /\ disk' \in [Roots -> Contents \cup {None}]
      /\ \A r \in Roots : disk'[r] = disk[r] \/ disk[r] = None
  BY <1>1, <1>3 DEF IInv, StateOK
<1>5. StateOK' /\ CountersOK' BY <1>1, <1>4, LeaveKeeps DEF IInv, StateOK, CountersOK
<1>6. Leased' /\ BackupIsOnePoint' /\ PartialHasOneWriter' /\ RestoresABackup' /\ RestoreIsVerified'
  BY <1>1, <1>2, <1>4, LeavingIsSafe
<1>7. QED BY <1>5, <1>6 DEF IInv

-----------------------------------------------------------------------------
(* The theorems.                                                           *)

LEMMA NextKeeps == ASSUME IInv, [Next]_vars PROVE IInv'
<1>1. CASE UNCHANGED vars
  BY <1>1 DEF vars, IInv, StateOK, CountersOK, Leased, BackupIsOnePoint, PartialHasOneWriter,
              RestoresABackup, RestoreIsVerified
<1>2. ASSUME NEW p \in Procs,
             Crash(p) \/ Launch(p) \/ Open(p) \/ OpenFails(p) \/ BeginClose(p) \/ Close(p) \/ Exit(p)
      PROVE  IInv'
  BY <1>2, CrashStep, LaunchStep, OpenStep, OpenFailsStep, BeginCloseStep, CloseStep, ExitStep
<1>3. ASSUME NEW p \in Procs,
             \/ Backup(p) \/ CommitBackup(p) \/ BackupFails(p)
             \/ Restore(p) \/ VerifyBackup(p) \/ MakePartial(p) \/ RestoreFails(p)
             \/ CommitRestore(p)
      PROVE  IInv'
  BY <1>3, BackupStep, CommitBackupStep, BackupFailsStep, RestoreStep, VerifyBackupStep,
     MakePartialStep, RestoreFailsStep, CommitRestoreStep
<1>4. ASSUME NEW p \in Procs, NEW f \in Files, Write(p, f) \/ CopyTree(p, f) \/ CopyBack(p, f)
      PROVE  IInv'
  BY <1>4, WriteStep, CopyTreeStep, CopyBackStep
<1>5. ASSUME NEW f \in Files, Damage(f) PROVE IInv' BY <1>5, DamageStep
<1>6. QED BY <1>1, <1>2, <1>3, <1>4, <1>5 DEF Next

\* The inductive invariant holds in every reachable state.
THEOREM InvariantHolds == Spec => []IInv
  BY InitOK, NextKeeps, PTL DEF Spec

\* The lease keeps the owners of a root apart, whatever starts failed, shutdowns
\* timed out or processes died: AcquireDataRootLease and Close.
THEOREM OwnersAreApart == Spec => []RootHasOneOwner
<1>1. ASSUME IInv PROVE TypeOK
  <2>1. \A p \in Procs : proc[p] = Idle \/ proc[p].root \in Roots
    BY <1>1, Kinds DEF IInv, StateOK
  <2>2. QED BY <1>1, <2>1 DEF TypeOK, IInv, StateOK, CountersOK
<1>2. ASSUME IInv PROVE StorageIsLeased
  <2>1. SUFFICES ASSUME NEW p \in Procs, NEW q \in Procs, UsesStores(p), p # q,
                        proc[q].root = proc[p].root
                 PROVE  proc[q].step = "idle"
    BY DEF StorageIsLeased, UsesStores
  <2>2. holder[proc[p].root] = p BY <1>2, <2>1 DEF IInv, Leased, UsesStores
  <2>3. QED BY <1>2, <2>1, <2>2 DEF IInv, Leased
<1>3. IInv => RootHasOneOwner BY <1>1, <1>2 DEF RootHasOneOwner, IInv
<1>4. QED BY <1>3, InvariantHolds, PTL

\* A restore fills a directory of its own with what it verified: MakePartial
\* and CommitRestore.
THEOREM RestoresAreSound == Spec => []RestoreIsSound
<1>1. IInv => RestoreIsSound BY DEF IInv, RestoreIsSound
<1>2. QED BY <1>1, InvariantHolds, PTL

\* A root that exists is changed only by the process that has its stores open:
\* CommitRestore never replaces one that appeared while it copied.
THEOREM OwnersWrite == Spec => OnlyTheOwnerWrites
<1> DEFINE Owned ==
      \A r \in Roots : (disk[r] # None /\ disk'[r] # disk[r]) =>
        \E p \in Procs : UsesStores(p) /\ holder[r] = p /\ proc[p].root = r
<1>1. ASSUME IInv, [Next]_vars PROVE Owned
  <2>1. CASE UNCHANGED vars BY <2>1 DEF vars
  <2>2. ASSUME NEW p \in Procs, NEW f \in Files, Write(p, f) PROVE Owned
    <3>1. UsesStores(p) /\ proc[p].root \in Roots /\ holder[proc[p].root] = p
      BY <1>1, <2>2, Kinds DEF IInv, StateOK, Leased, Write, UsesStores
    <3>2. \A r \in Roots : disk'[r] # disk[r] => r = proc[p].root
      BY <1>1, <2>2 DEF Write, IInv, StateOK
    <3>3. QED BY <3>1, <3>2
  <2>3. ASSUME NEW p \in Procs, Launch(p) \/ Backup(p) \/ Restore(p) PROVE Owned
    BY <1>1, <2>3
    DEF Launch, Backup, Restore, RunOffline, AcquireDataRootLease, CanonicalDataRoot, IInv, StateOK
  <2>4. ASSUME NEW p \in Procs, CommitRestore(p) PROVE Owned
    BY <1>1, <2>4 DEF CommitRestore, IInv, StateOK
  <2>5. ASSUME NEW p \in Procs,
               \/ Crash(p) \/ Open(p) \/ OpenFails(p) \/ BeginClose(p) \/ Close(p) \/ Exit(p)
               \/ CommitBackup(p) \/ BackupFails(p) \/ VerifyBackup(p) \/ MakePartial(p)
               \/ RestoreFails(p)
        PROVE  Owned
    BY <2>5 DEF Crash, Open, OpenFails, BeginClose, Close, Exit, CommitBackup, BackupFails,
                VerifyBackup, MakePartial, RestoreFails
  <2>6. ASSUME NEW p \in Procs, NEW f \in Files, CopyTree(p, f) \/ CopyBack(p, f) PROVE Owned
    BY <2>6 DEF CopyTree, CopyBack
  <2>7. ASSUME NEW f \in Files, Damage(f) PROVE Owned BY <2>7 DEF Damage
  <2>8. QED BY <1>1, <2>1, <2>2, <2>3, <2>4, <2>5, <2>6, <2>7 DEF Next
<1>2. IInv /\ [Next]_vars => [Owned]_vars BY <1>1
<1>3. QED BY <1>2, InvariantHolds, PTL DEF Spec, OnlyTheOwnerWrites

-----------------------------------------------------------------------------
(* What is kept of one chat: Retention.                                     *)

\* The types, part by part.
ClockOK == now \in 0 .. MaxTime /\ resetAt \in -1 .. MaxTime /\ cutoff \in 0 .. Len(log)
RowTypes ==
  /\ state \in [Incoming -> {"new", "waiting", "generating", "planned", "done", "gone"}]
  /\ updated \in [Incoming -> 0 .. MaxTime] /\ at \in [Messages -> 0 .. MaxTime]
  /\ delivery \in [Incoming \union Manual -> {"none", "pending", "sent", "unsent"}]
  /\ bindings \subseteq Incoming /\ stickers \subseteq Stickers
EntryTypes ==
  /\ log \in Seq(Recorded) /\ IsInjective(log) /\ kept \subseteq ToSet(log)
  /\ quote \in [Recorded -> Quotes] /\ revoked \subseteq Recorded
WorkTypes ==
  /\ turn = AtRest \/ turn \in [step : {"generating"}, of : Incoming, seen : SUBSET Recorded]
  /\ manual = AtRest \/ manual \in [step : {"quoted", "sent"}, of : Manual, quote : Quotes,
                                  mentions : SUBSET Incoming]

\* What an effect is once it was planned.
EffectRecords ==
  [step : {"pending", "succeeded", "failed"}, kind : {"delete", "react"}, target : Recorded,
   turn : Incoming \union {"none"}, at : 0 .. MaxTime]
EffectsOK == effects \in [Effects -> EffectRecords \union {NoEffect, [step |-> "gone"]}]

\* A row is followed by its entries, and by its mentions; a pending answer is
\* the one of a planned turn, and a turn that is answered is from after the reset.
RowsOK ==
  \A m \in Incoming :
    /\ state[m] = "new" => User(m) \notin ToSet(log)
    /\ state[m] \in {"new", "waiting", "generating"} =>
         Bot(m) \notin ToSet(log) /\ delivery[m] = "none"
    /\ state[m] = "generating" => at[User(m)] > resetAt
    /\ (state[m] = "planned") <=> (delivery[m] = "pending")
    /\ state[m] = "planned" => Bot(m) \in kept
    /\ HasRow(m) => m \in bindings

\* The window's message is recorded once, and with the mentions of its quote.
WindowOK ==
  /\ \A h \in Manual :
       delivery[h] # "pending" /\ (Bot(h) \in ToSet(log) => delivery[h] = "sent")
  /\ manual # AtRest =>
       /\ Bot(manual.of) \notin ToSet(log)
       /\ manual.step = "quoted" => delivery[manual.of] = "none"
       /\ manual.step = "sent" => delivery[manual.of] = "sent"
       /\ manual.quote.text = "shown" /\ manual.quote.of.by = "user" =>
            manual.quote.of.of \in manual.mentions

\* A row goes only when its entries are as old as the rows that go.
AgesOK ==
  \A x \in ToSet(log) :
    /\ at[x] <= now
    /\ x.of \in Incoming =>
         \/ HasRow(x.of) /\ at[x] <= updated[x.of]
         \/ state[x.of] = "gone" /\ at[x] <= now - RetainAge

\* What was deleted is marked while its entry is there.
MarksOK ==
  /\ revoked \subseteq ToSet(log)
  /\ \A e \in Effects : effects[e].step \notin {"none", "gone"} => effects[e].target \in ToSet(log)
  /\ \A x \in kept : x \in revoked => IsMessageDeleted(x)

\* Mentions stay with an entry, and with an entry that quotes.
MentionsOK ==
  \A x \in kept :
    /\ x.by = "user" => x.of \in bindings
    /\ quote[x].text = "shown" /\ quote[x].of.by = "user" => quote[x].of.of \in bindings

\* What is visible is of a message from after the reset, and what a visible
\* entry quotes has the time it will keep.
VisibleIsNew ==
  \A x \in ToSet(log) : Sequence(x) > cutoff /\ x.of \in Incoming => at[User(x.of)] > resetAt
QuotedIsThere ==
  \A x \in kept :
    x.of \notin Manual /\ quote[x].text = "shown" =>
      /\ quote[x].of.of \in Manual => quote[x].of \in ToSet(log)
      /\ quote[x].of.of \in Incoming => state[quote[x].of.of] # "new"
      /\ quote[x].of.of \in Stickers => at[quote[x].of] > 0
StickersOK == \A s \in stickers : at[Bot(s)] > 0


\* What a quote that is shown is of is from after the reset.
IsNew(q) ==
  IF q.of.of \in Manual THEN Sequence(q.of) > cutoff
  ELSE IF q.of.of \in Incoming THEN at[User(q.of.of)] > resetAt ELSE at[q.of] > resetAt
QuotesAreNew ==
  \A x \in kept : Visible(x) /\ x.of \notin Manual /\ quote[x].text = "shown" => IsNew(quote[x])

TypesOK == ClockOK /\ RowTypes /\ EntryTypes /\ WorkTypes /\ EffectsOK
RetentionInv ==
  /\ TypesOK /\ RowsOK /\ WindowOK /\ AgesOK /\ MarksOK /\ MentionsOK
  /\ VisibleIsNew /\ QuotedIsThere /\ StickersOK /\ QuotesAreNew

-----------------------------------------------------------------------------
(* The entries and their sequence.                                         *)

LEMMA BoundsHold ==
  /\ RetainAge \in Nat \ {0} /\ HistoryAge \in Nat \ {0} /\ KeepLatest \in Nat \ {0}
  /\ BatchSize \in Nat \ {0} /\ MaxTime \in Nat \ {0}
  BY RetentionIsBounded

\* An entry is of a person's message, or of an answer or a message of the window.
LEMMA RecordedIs ==
  ASSUME NEW x \in Recorded
  PROVE  /\ \/ x.by = "user" /\ x.of \in Incoming /\ x = User(x.of)
            \/ x.by = "bot" /\ x.of \in Incoming \union Manual /\ x = Bot(x.of)
         /\ x \in Messages /\ x.of \notin Stickers
  BY KindsAreApart DEF Recorded, Messages, User, Bot

\* What WhatsApp may quote: an entry, or a sticker of the bot.
LEMMA MessageIs ==
  ASSUME NEW x \in Messages
  PROVE  /\ x \in Recorded \/ (x.by = "bot" /\ x.of \in Stickers /\ x = Bot(x.of))
         /\ x.of \in Incoming \union Manual \union Stickers
         /\ x.by = "user" => x.of \in Incoming /\ x = User(x.of)
         /\ x.of \in Stickers => x = Bot(x.of)
  BY KindsAreApart DEF Recorded, Messages, User, Bot

\* A message and the answer to it are two things.
LEMMA NamesDiffer ==
  ASSUME NEW m, NEW n
  PROVE  /\ User(m) # Bot(n) /\ User(m).of = m /\ Bot(m).of = m
         /\ User(m).by = "user" /\ Bot(m).by = "bot"
         /\ (User(m) = User(n) \/ Bot(m) = Bot(n)) => m = n
<1>1. User(m).of = m /\ Bot(m).of = m /\ User(n).of = n /\ Bot(n).of = n BY DEF User, Bot
<1>2. User(m).by = "user" /\ Bot(m).by = "bot" /\ Bot(n).by = "bot" BY DEF User, Bot
<1>3. QED BY <1>1, <1>2

LEMMA RecordedOnes ==
  /\ \A m \in Incoming : User(m) \in Recorded /\ Bot(m) \in Recorded
  /\ \A h \in Manual : Bot(h) \in Recorded
  /\ \A s \in Stickers : Bot(s) \in Messages
  BY DEF Recorded, Messages

\* Where a sequence holds x.
PositionIn(s, x) == SelectInSeq(s, LAMBDA entry : entry = x)

LEMMA PositionIs ==
  ASSUME NEW s \in Seq(Recorded), IsInjective(s), NEW i \in 1..Len(s)
  PROVE  PositionIn(s, s[i]) = i
<1> DEFINE I == {j \in 1..Len(s) : s[j] = s[i]}
<1>1. I = {i} BY DEF IsInjective
<1>2. Min(I) = i BY <1>1 DEF Min
<1>3. QED BY <1>1, <1>2 DEF PositionIn, SelectInSeq

LEMMA SequenceIs == ASSUME NEW x PROVE Sequence(x) = PositionIn(log, x)
  BY DEF Sequence, PositionIn

LEMMA SequenceNext == ASSUME NEW x PROVE Sequence(x)' = PositionIn(log', x)
  BY DEF Sequence, PositionIn, SelectInSeq

\* An entry that was written has a place of its own.
LEMMA SequenceOf ==
  ASSUME log \in Seq(Recorded), IsInjective(log), NEW x \in ToSet(log)
  PROVE  Sequence(x) \in 1..Len(log) /\ log[Sequence(x)] = x /\ x \in Recorded
<1>1. PICK i \in 1..Len(log) : log[i] = x BY DEF ToSet
<1>2. Sequence(x) = i BY <1>1, PositionIs, SequenceIs
<1>3. QED BY <1>1, <1>2

\* A step that writes no entry moves none.
LEMMA SequenceStays == ASSUME log' = log, NEW x PROVE Sequence(x)' = Sequence(x)
  BY SequenceIs, SequenceNext

\* A new entry is the last.
LEMMA AppendIs ==
  ASSUME log \in Seq(Recorded), IsInjective(log), NEW y \in Recorded, y \notin ToSet(log),
         log' = Append(log, y)
  PROVE  /\ log' \in Seq(Recorded) /\ IsInjective(log)' /\ ToSet(log)' = ToSet(log) \union {y}
         /\ Len(log') = Len(log) + 1
         /\ \A x \in ToSet(log) : Sequence(x)' = Sequence(x)
         /\ Sequence(y)' = Len(log) + 1
<1>1. /\ log' \in Seq(Recorded) /\ Len(log') = Len(log) + 1 /\ Len(log) \in Nat
      /\ \A i \in 1..Len(log) : log'[i] = log[i]
      /\ log'[Len(log) + 1] = y
  OBVIOUS
<1>2. \A i \in 1..Len(log) : log[i] \in ToSet(log) BY DEF ToSet
<1>3. IsInjective(log)' BY <1>1, <1>2 DEF IsInjective
<1>4. ToSet(log)' = ToSet(log) \union {y} BY <1>1 DEF ToSet
<1>6. ASSUME NEW x \in ToSet(log) PROVE Sequence(x)' = Sequence(x)
  <2>1. PICK i \in 1..Len(log) : log[i] = x BY DEF ToSet
  <2>2. PositionIn(log, x) = i BY <2>1, PositionIs
  <2>3. i \in 1..Len(log') /\ log'[i] = x BY <1>1, <2>1
  <2>4. PositionIn(log', x) = i BY <1>1, <1>3, <2>3, PositionIs
  <2>5. QED BY <2>2, <2>4, SequenceIs, SequenceNext
<1>7. Sequence(y)' = Len(log) + 1
  <2>1. Len(log) + 1 \in 1..Len(log') /\ log'[Len(log) + 1] = y BY <1>1
  <2>2. PositionIn(log', y) = Len(log) + 1 BY <1>1, <1>3, <2>1, PositionIs
  <2>3. QED BY <2>2, SequenceNext
<1>8. QED BY <1>1, <1>3, <1>4, <1>6, <1>7

-----------------------------------------------------------------------------
(* Steps that leave the entries as they are.                               *)

LEMMA TypesIs ==
  ASSUME RetentionInv
  PROVE  ClockOK /\ RowTypes /\ EntryTypes /\ WorkTypes /\ EffectsOK
  BY DEF RetentionInv, TypesOK

\* What a shown quote is of.
LEMMA QuotedIs ==
  ASSUME RetentionInv, NEW x \in kept, quote[x].text = "shown"
  PROVE  /\ quote[x].of \in Messages /\ x \in Recorded
         /\ quote[x].of.of \in Incoming \union Manual \union Stickers
         /\ quote[x].of.of \in Incoming => User(quote[x].of.of) \in Messages
<1>1. x \in Recorded BY SequenceOf, TypesIs DEF EntryTypes
<1>2. quote[x] \in Quotes /\ quote[x] # NoQuote BY <1>1, TypesIs DEF EntryTypes, NoQuote
<1>3. quote[x].of \in Messages BY <1>2 DEF Quotes
<1>4. QED BY <1>1, <1>3, MessageIs, RecordedOnes, RecordedIs

\* Entries may go: what is left quotes what it quoted.
LEMMA EntriesStay ==
  ASSUME RetentionInv, UNCHANGED <<log, cutoff, resetAt>>, kept' \subseteq kept,
         \A x \in kept : quote'[x] = quote[x],
         \A x \in Messages :
           \/ at'[x] = at[x]
           \/ x.of \in Stickers /\ at[x] = 0
           \/ x.by = "user" /\ state[x.of] = "new",
         \A m \in Incoming : state[m] # "new" => state'[m] # "new"
  PROVE  VisibleIsNew' /\ QuotedIsThere' /\ QuotesAreNew'
<1>1. \A m \in Incoming : state[m] # "new" => at'[User(m)] = at[User(m)]
  BY RecordedOnes, RecordedIs, NamesDiffer
<1>2. VisibleIsNew'
  <2>1. ASSUME NEW x \in ToSet(log), x.of \in Incoming PROVE at'[User(x.of)] = at[User(x.of)]
    BY <1>1, <2>1 DEF RetentionInv, AgesOK, HasRow
  <2>2. \A x : Sequence(x)' = Sequence(x) BY SequenceStays
  <2>3. QED BY <2>1, <2>2 DEF RetentionInv, VisibleIsNew
<1>3. ASSUME NEW x \in kept, x.of \notin Manual, quote[x].text = "shown"
      PROVE  /\ quote[x].of.of \in Stickers => at'[quote[x].of] = at[quote[x].of]
             /\ quote[x].of.of \in Incoming =>
                  at'[User(quote[x].of.of)] = at[User(quote[x].of.of)]
  <2>1. /\ quote[x].of.of \in Stickers => at[quote[x].of] > 0
        /\ quote[x].of.of \in Incoming => state[quote[x].of.of] # "new"
    BY <1>3 DEF RetentionInv, QuotedIsThere
  <2>2. quote[x].of \in Messages BY <1>3, QuotedIs
  <2>3. quote[x].of.of \in Stickers => quote[x].of.by # "user" BY <2>2, MessageIs, KindsAreApart
  <2>4. QED BY <1>1, <2>1, <2>2, <2>3
<1>4. QuotedIsThere'
  <2>1. ASSUME NEW x \in kept, x.of \notin Manual, quote[x].text = "shown"
        PROVE  /\ quote[x].of.of \in Manual => quote[x].of \in ToSet(log)
               /\ quote[x].of.of \in Incoming => state'[quote[x].of.of] # "new"
               /\ quote[x].of.of \in Stickers => at'[quote[x].of] > 0
    BY <1>3, <2>1 DEF RetentionInv, QuotedIsThere
  <2>2. QED BY <2>1 DEF QuotedIsThere
<1>5. QuotesAreNew'
  <2>1. ASSUME NEW x \in kept', Visible(x)', x.of \notin Manual, quote'[x].text = "shown"
        PROVE  IsNew(quote[x])'
    <3>1. PICK q : q = quote[x] OBVIOUS
    <3>2. quote'[x] = q BY <3>1
    <3>3. Visible(x) BY <2>1, SequenceStays DEF Visible
    <3>4. IsNew(q) BY <2>1, <3>1, <3>2, <3>3 DEF RetentionInv, QuotesAreNew
    <3>5. Sequence(q.of)' = Sequence(q.of) BY SequenceStays
    <3>6. /\ q.of.of \in Incoming \union Manual \union Stickers
          /\ q.of.of \in Stickers => at'[q.of] = at[q.of]
          /\ q.of.of \in Incoming => at'[User(q.of.of)] = at[User(q.of.of)]
      BY <1>3, <2>1, <3>1, <3>2, QuotedIs
    <3>7. IsNew(q)' BY <3>4, <3>5, <3>6 DEF IsNew
    <3>8. QED BY <3>2, <3>7 DEF IsNew
  <2>2. QED BY <2>1 DEF QuotesAreNew
<1>6. QED BY <1>2, <1>4, <1>5

LEMMA TickStep == ASSUME RetentionInv, Tick PROVE RetentionInv'
<1>1. /\ now < MaxTime /\ now' = now + 1
      /\ UNCHANGED <<state, updated, at, log, kept, quote, delivery, bindings, stickers, effects>>
      /\ UNCHANGED <<cutoff, resetAt, turn, manual, revoked>>
  BY DEF Tick, inbox, transcript, resets
<1>2. ClockOK' BY <1>1, BoundsHold, TypesIs DEF ClockOK
<1>3. RowTypes' /\ EntryTypes' /\ WorkTypes' /\ EffectsOK'
  BY <1>1, TypesIs DEF RowTypes, EntryTypes, WorkTypes, EffectsOK
<1>4. RowsOK' BY <1>1 DEF RetentionInv, RowsOK, HasRow
<1>5. WindowOK' BY <1>1 DEF RetentionInv, WindowOK
<1>6. AgesOK'
  <2>1. ASSUME NEW x \in ToSet(log)
        PROVE  /\ at[x] \in Nat /\ now \in Nat /\ RetainAge \in Nat
    BY <2>1, SequenceOf, RecordedIs, BoundsHold, TypesIs DEF EntryTypes, RowTypes, ClockOK
  <2>2. QED BY <1>1, <2>1 DEF RetentionInv, AgesOK, HasRow
<1>7. MarksOK' BY <1>1 DEF RetentionInv, MarksOK, IsMessageDeleted
<1>8. MentionsOK' /\ StickersOK' BY <1>1 DEF RetentionInv, MentionsOK, StickersOK
<1>9. VisibleIsNew' /\ QuotedIsThere' /\ QuotesAreNew' BY <1>1, EntriesStay
<1>10. QED BY <1>2, <1>3, <1>4, <1>5, <1>6, <1>7, <1>8, <1>9 DEF RetentionInv, TypesOK

\* A row that goes on is younger.
LEMMA MoveKeeps ==
  ASSUME RetentionInv, NEW m \in Incoming, HasRow(m), NEW to, to \notin {"new", "gone"}, Move(m, to),
         UNCHANGED <<now, at, log>>
  PROVE  AgesOK' /\ updated' \in [Incoming -> 0 .. MaxTime]
<1>1. /\ state \in [Incoming -> {"new", "waiting", "generating", "planned", "done", "gone"}]
      /\ updated \in [Incoming -> 0 .. MaxTime] /\ now \in 0 .. MaxTime
  BY TypesIs DEF RowTypes, ClockOK
<1>2. state' = [state EXCEPT ![m] = to] /\ updated' = [updated EXCEPT ![m] = now] BY DEF Move
<1>3. AgesOK'
  <2>1. ASSUME NEW x \in ToSet(log), x.of \in Incoming
        PROVE  \/ HasRow(x.of)' /\ at[x] <= updated'[x.of]
               \/ state'[x.of] = "gone" /\ at[x] <= now - RetainAge
    <3>1. /\ at[x] <= now
          /\ \/ HasRow(x.of) /\ at[x] <= updated[x.of]
             \/ state[x.of] = "gone" /\ at[x] <= now - RetainAge
      BY <2>1 DEF RetentionInv, AgesOK
    <3>2. QED BY <1>1, <1>2, <2>1, <3>1 DEF HasRow
  <2>2. QED BY <2>1 DEF RetentionInv, AgesOK
<1>4. QED BY <1>1, <1>2, <1>3

LEMMA MarkHandledStep == ASSUME RetentionInv, NEW m \in Incoming, MarkHandled(m) PROVE RetentionInv'
<1>1. /\ state[m] = "waiting" /\ Move(m, "done")
      /\ UNCHANGED <<now, at, log, kept, quote, delivery, bindings, stickers, effects>>
      /\ UNCHANGED <<cutoff, resetAt, turn, manual, revoked>>
  BY DEF MarkHandled, transcript, resets
<1>2. state' = [state EXCEPT ![m] = "done"] /\ HasRow(m) BY <1>1 DEF Move, HasRow
<1>3. AgesOK' /\ updated' \in [Incoming -> 0 .. MaxTime] BY <1>1, <1>2, MoveKeeps
<1>4. ClockOK' /\ EntryTypes' /\ WorkTypes' /\ EffectsOK'
  BY <1>1, TypesIs DEF ClockOK, EntryTypes, WorkTypes, EffectsOK
<1>5. RowTypes' BY <1>1, <1>2, <1>3, TypesIs DEF RowTypes
<1>6. RowsOK' BY <1>1, <1>2, TypesIs DEF RetentionInv, RowsOK, HasRow, RowTypes
<1>7. WindowOK' BY <1>1 DEF RetentionInv, WindowOK
<1>8. MarksOK' BY <1>1 DEF RetentionInv, MarksOK, IsMessageDeleted
<1>9. MentionsOK' /\ StickersOK' BY <1>1 DEF RetentionInv, MentionsOK, StickersOK
<1>10. VisibleIsNew' /\ QuotedIsThere' /\ QuotesAreNew'
  BY <1>1, <1>2, EntriesStay, TypesIs DEF RowTypes
<1>11. QED BY <1>3, <1>4, <1>5, <1>6, <1>7, <1>8, <1>9, <1>10 DEF RetentionInv, TypesOK

LEMMA GenerateStep == ASSUME RetentionInv, NEW m \in Incoming, Generate(m) PROVE RetentionInv'
<1>1. /\ state[m] \in {"waiting", "generating"} /\ ~Predates(m) /\ Move(m, "generating")
      /\ turn' = [step |-> "generating", of |-> m, seen |-> ContextMessages]
      /\ UNCHANGED <<now, at, log, kept, quote, delivery, bindings, stickers, effects>>
      /\ UNCHANGED <<cutoff, resetAt, manual, revoked>>
  BY DEF Generate, transcript, resets
<1>2. state' = [state EXCEPT ![m] = "generating"] /\ HasRow(m) BY <1>1 DEF Move, HasRow
<1>3. AgesOK' /\ updated' \in [Incoming -> 0 .. MaxTime] BY <1>1, <1>2, MoveKeeps
<1>4. ClockOK' /\ EntryTypes' /\ EffectsOK'
  BY <1>1, TypesIs DEF ClockOK, EntryTypes, EffectsOK
<1>5. WorkTypes'
  <2>1. \A x \in ToSet(log) : x \in Recorded BY SequenceOf, TypesIs DEF EntryTypes
  <2>2. ContextMessages \subseteq Recorded BY <2>1, TypesIs DEF ContextMessages, EntryTypes
  <2>3. QED BY <1>1, <2>2, TypesIs DEF WorkTypes
<1>6. RowTypes' BY <1>1, <1>2, <1>3, TypesIs DEF RowTypes
<1>7. at[User(m)] > resetAt
  <2>1. User(m) \in Messages BY RecordedOnes, RecordedIs
  <2>2. at[User(m)] \in Int /\ resetAt \in Int BY <2>1, BoundsHold, TypesIs DEF RowTypes, ClockOK
  <2>3. QED BY <1>1, <2>2 DEF Predates
<1>8. RowsOK' BY <1>1, <1>2, <1>7, TypesIs DEF RetentionInv, RowsOK, HasRow, RowTypes
<1>9. WindowOK' BY <1>1 DEF RetentionInv, WindowOK
<1>10. MarksOK' BY <1>1 DEF RetentionInv, MarksOK, IsMessageDeleted
<1>11. MentionsOK' /\ StickersOK' BY <1>1 DEF RetentionInv, MentionsOK, StickersOK
<1>12. VisibleIsNew' /\ QuotedIsThere' /\ QuotesAreNew'
  BY <1>1, <1>2, EntriesStay, TypesIs DEF RowTypes
<1>13. QED BY <1>3, <1>4, <1>5, <1>6, <1>8, <1>9, <1>10, <1>11, <1>12 DEF RetentionInv, TypesOK

LEMMA SendTextStep == ASSUME RetentionInv, NEW m \in Incoming, SendText(m) PROVE RetentionInv'
<1>1. /\ state[m] = "planned" /\ Move(m, "done")
      /\ UNCHANGED <<now, at, log, kept, quote, bindings, stickers, effects>>
      /\ UNCHANGED <<cutoff, resetAt, turn, manual, revoked>>
  BY DEF SendText, resets
<1>2. PICK how \in {"sent", "unsent"} : delivery' = [delivery EXCEPT ![m] = how] BY DEF SendText
<1>3. state' = [state EXCEPT ![m] = "done"] /\ HasRow(m) BY <1>1 DEF Move, HasRow
<1>4. AgesOK' /\ updated' \in [Incoming -> 0 .. MaxTime] BY <1>1, <1>3, MoveKeeps
<1>5. ClockOK' /\ EntryTypes' /\ WorkTypes' /\ EffectsOK'
  BY <1>1, TypesIs DEF ClockOK, EntryTypes, WorkTypes, EffectsOK
<1>6. RowTypes' BY <1>1, <1>2, <1>3, <1>4, TypesIs DEF RowTypes
<1>7. RowsOK' BY <1>1, <1>2, <1>3, TypesIs DEF RetentionInv, RowsOK, HasRow, RowTypes
<1>8. WindowOK'
  <2>1. \A h \in Manual : delivery'[h] = delivery[h]
    BY <1>2, KindsAreApart, TypesIs DEF RowTypes
  <2>2. manual # AtRest => manual.of \in Manual BY TypesIs DEF WorkTypes
  <2>3. QED BY <1>1, <2>1, <2>2 DEF RetentionInv, WindowOK
<1>9. MarksOK' BY <1>1 DEF RetentionInv, MarksOK, IsMessageDeleted
<1>10. MentionsOK' /\ StickersOK' BY <1>1 DEF RetentionInv, MentionsOK, StickersOK
<1>11. VisibleIsNew' /\ QuotedIsThere' /\ QuotesAreNew'
  BY <1>1, <1>3, EntriesStay, TypesIs DEF RowTypes
<1>12. QED BY <1>4, <1>5, <1>6, <1>7, <1>8, <1>9, <1>10, <1>11 DEF RetentionInv, TypesOK

-----------------------------------------------------------------------------
(* Effects, stickers, and the window's message before it is recorded.      *)

LEMMA EffectIs ==
  ASSUME RetentionInv, NEW e \in Effects, effects[e].step \notin {"none", "gone"}
  PROVE  effects[e] \in EffectRecords
  BY TypesIs DEF EffectsOK, NoEffect

\* A deletion is marked as it is carried out.
LEMMA ExecuteEffectStep == ASSUME RetentionInv, NEW e \in Effects, ExecuteEffect(e) PROVE RetentionInv'
<1>1. /\ effects[e].step = "pending"
      /\ UNCHANGED <<now, state, updated, at, log, kept, quote, delivery, bindings, stickers>>
      /\ UNCHANGED <<cutoff, resetAt, turn, manual>>
  BY DEF ExecuteEffect, inbox, transcript, resets
<1>2. PICK how \in {"succeeded", "failed"} :
        /\ effects' = [effects EXCEPT ![e].step = how, ![e].at = now]
        /\ revoked' = IF how = "succeeded" /\ effects[e].kind = "delete"
                      THEN revoked \union {effects[e].target} ELSE revoked
  BY DEF ExecuteEffect
<1>3. PICK plan \in EffectRecords : plan = effects[e] /\ plan.step = "pending"
  BY <1>1, EffectIs
<1>4. PICK done : done = [plan EXCEPT !.step = how, !.at = now] OBVIOUS
<1>5. /\ done \in EffectRecords /\ done.step = how
      /\ done.kind = plan.kind /\ done.target = plan.target
  BY <1>3, <1>4, TypesIs DEF EffectRecords, ClockOK
<1>6. effects' = [effects EXCEPT ![e] = done] BY <1>2, <1>3, <1>4, TypesIs DEF EffectsOK
<1>7. effects'[e] = done /\ \A f \in Effects \ {e} : effects'[f] = effects[f]
  BY <1>6, TypesIs DEF EffectsOK
<1>8. EffectsOK' BY <1>5, <1>6, TypesIs DEF EffectsOK
<1>9. plan.target \in ToSet(log) BY <1>3 DEF RetentionInv, MarksOK
<1>10. plan.target \in Recorded BY <1>9, SequenceOf, TypesIs DEF EntryTypes
<1>11. ClockOK' /\ RowTypes' /\ WorkTypes' BY <1>1, TypesIs DEF ClockOK, RowTypes, WorkTypes
<1>12. EntryTypes' BY <1>1, <1>2, <1>3, <1>10, TypesIs DEF EntryTypes
<1>13. RowsOK' /\ WindowOK' /\ AgesOK' BY <1>1 DEF RetentionInv, RowsOK, WindowOK, AgesOK, HasRow
<1>14. MarksOK'
  <2>1. revoked' \subseteq ToSet(log)' BY <1>1, <1>2, <1>3, <1>9 DEF RetentionInv, MarksOK
  <2>2. ASSUME NEW f \in Effects, effects'[f].step \notin {"none", "gone"}
        PROVE  effects'[f].target \in ToSet(log)'
    BY <1>1, <1>5, <1>7, <1>9, <2>2 DEF RetentionInv, MarksOK
  <2>3. ASSUME NEW x \in kept, x \in revoked' PROVE IsMessageDeleted(x)'
    <3>1. CASE x \in revoked
      <4>1. PICK f \in Effects : effects[f].step = "succeeded" /\ effects[f].kind = "delete"
                                 /\ effects[f].target = x
        BY <3>1 DEF RetentionInv, MarksOK, IsMessageDeleted
      <4>2. f # e BY <1>1, <4>1
      <4>3. effects'[f] = effects[f] BY <1>7, <4>2
      <4>4. QED BY <4>1, <4>3 DEF IsMessageDeleted
    <3>2. CASE x \notin revoked
      <4>1. x = plan.target /\ how = "succeeded" /\ plan.kind = "delete" BY <1>2, <1>3, <2>3, <3>2
      <4>2. QED BY <1>5, <1>7, <4>1 DEF IsMessageDeleted
    <3>3. QED BY <3>1, <3>2
  <2>4. QED BY <1>1, <2>1, <2>2, <2>3 DEF MarksOK
<1>15. MentionsOK' /\ StickersOK' BY <1>1 DEF RetentionInv, MentionsOK, StickersOK
<1>16. VisibleIsNew' /\ QuotedIsThere' /\ QuotesAreNew' BY <1>1, EntriesStay
<1>17. QED BY <1>8, <1>11, <1>12, <1>13, <1>14, <1>15, <1>16 DEF RetentionInv, TypesOK

\* What is planned later marks as deleted what was marked before.
LEMMA MarksStay ==
  ASSUME RetentionInv, NEW x, IsMessageDeleted(x), \A f \in Effects : effects[f] # NoEffect => effects'[f] = effects[f]
  PROVE  IsMessageDeleted(x)'
<1>1. PICK f \in Effects : effects[f].step = "succeeded" /\ effects[f].kind = "delete"
                           /\ effects[f].target = x
  BY DEF IsMessageDeleted
<1>2. effects[f] # NoEffect BY <1>1 DEF NoEffect
<1>3. QED BY <1>1, <1>2 DEF IsMessageDeleted

LEMMA NewEffectIs ==
  ASSUME RetentionInv, NEW kind \in {"delete", "react"}, NEW target \in Recorded,
         NEW m \in Incoming \union {"none"}
  PROVE  /\ NewEffect(kind, target, m) \in EffectRecords
         /\ NewEffect(kind, target, m).target = target
  BY TypesIs DEF NewEffect, EffectRecords, ClockOK

LEMMA DeleteChatMessageStep == ASSUME RetentionInv, NEW e \in Effects, DeleteChatMessage(e) PROVE RetentionInv'
<1>1. /\ effects[e] = NoEffect
      /\ UNCHANGED <<now, state, updated, at, log, kept, quote, delivery, bindings, stickers>>
      /\ UNCHANGED <<cutoff, resetAt, turn, manual, revoked>>
  BY DEF DeleteChatMessage, inbox, transcript, resets
<1>2. PICK x \in kept : effects' = [effects EXCEPT ![e] = NewEffect("delete", x, "none")]
  BY DEF DeleteChatMessage
<1>3. x \in ToSet(log) /\ x \in Recorded BY SequenceOf, TypesIs DEF EntryTypes
<1>4. PICK plan \in EffectRecords : plan = NewEffect("delete", x, "none") /\ plan.target = x
  BY <1>3, NewEffectIs
<1>5. effects' = [effects EXCEPT ![e] = plan] BY <1>2, <1>4
<1>6. EffectsOK' BY <1>5, TypesIs DEF EffectsOK
<1>7. effects'[e] = plan /\ \A f \in Effects \ {e} : effects'[f] = effects[f]
  BY <1>5, TypesIs DEF EffectsOK
<1>8. ClockOK' /\ RowTypes' /\ WorkTypes' /\ EntryTypes'
  BY <1>1, TypesIs DEF ClockOK, RowTypes, WorkTypes, EntryTypes
<1>9. RowsOK' /\ WindowOK' /\ AgesOK' BY <1>1 DEF RetentionInv, RowsOK, WindowOK, AgesOK, HasRow
<1>10. MarksOK'
  <2>1. \A f \in Effects : effects'[f].step \notin {"none", "gone"} => effects'[f].target \in ToSet(log)
    BY <1>3, <1>4, <1>7 DEF RetentionInv, MarksOK
  <2>2. \A f \in Effects : effects[f] # NoEffect => effects'[f] = effects[f] BY <1>1, <1>7
  <2>3. \A y \in kept : y \in revoked => IsMessageDeleted(y)'
    BY <2>2, MarksStay DEF RetentionInv, MarksOK
  <2>4. QED BY <1>1, <2>1, <2>3 DEF RetentionInv, MarksOK
<1>11. MentionsOK' /\ StickersOK' BY <1>1 DEF RetentionInv, MentionsOK, StickersOK
<1>12. VisibleIsNew' /\ QuotedIsThere' /\ QuotesAreNew' BY <1>1, EntriesStay
<1>13. QED BY <1>6, <1>8, <1>9, <1>10, <1>11, <1>12 DEF RetentionInv, TypesOK

\* The window reads the mentions of the quote while they are stored.
LEMMA ManualReplyContextStep == ASSUME RetentionInv, NEW h \in Manual, ManualReplyContext(h) PROVE RetentionInv'
<1>1. /\ delivery[h] = "none"
      /\ UNCHANGED <<now, state, updated, at, log, kept, quote, delivery, bindings, stickers>>
      /\ UNCHANGED <<cutoff, resetAt, turn, effects, revoked>>
  BY DEF ManualReplyContext, inbox, transcript, resets
<1>2. PICK found \in {NoQuote} \union
         {[of |-> x, text |-> IF IsMessageDeleted(x) THEN "deleted" ELSE "shown"] :
            x \in {y \in kept : Visible(y) /\ Sent(y)}} :
       manual' = [step |-> "quoted", of |-> h, quote |-> found, mentions |-> QuotedMentions(found)]
  BY DEF ManualReplyContext
<1>3. /\ found \in Quotes
      /\ found.text = "shown" => found.of \in kept
  <2>1. CASE found = NoQuote BY <2>1 DEF Quotes, NoQuote
  <2>2. CASE found # NoQuote
    <3>1. PICK x \in kept : found = [of |-> x, text |-> IF IsMessageDeleted(x) THEN "deleted" ELSE "shown"]
      BY <1>2, <2>2
    <3>2. x \in Messages BY SequenceOf, RecordedIs, TypesIs DEF EntryTypes
    <3>3. QED BY <3>1, <3>2 DEF Quotes
  <2>3. QED BY <2>1, <2>2
<1>4. QuotedMentions(found) \subseteq Incoming BY TypesIs DEF QuotedMentions, RowTypes
<1>5. found.text = "shown" /\ found.of.by = "user" => found.of.of \in QuotedMentions(found)
  BY <1>3 DEF RetentionInv, MentionsOK, QuotedMentions
<1>6. PICK mentions \in SUBSET Incoming :
        /\ manual' = [step |-> "quoted", of |-> h, quote |-> found, mentions |-> mentions]
        /\ found.text = "shown" /\ found.of.by = "user" => found.of.of \in mentions
  BY <1>2, <1>4, <1>5
<1>7. WorkTypes' BY <1>1, <1>3, <1>6, TypesIs DEF WorkTypes
<1>8. WindowOK'
  <2>1. Bot(h) \notin ToSet(log) BY <1>1 DEF RetentionInv, WindowOK
  <2>2. /\ manual'.step = "quoted" /\ manual'.of = h /\ manual'.quote = found
        /\ manual'.mentions = mentions
    BY <1>6
  <2>3. QED BY <1>1, <1>6, <2>1, <2>2 DEF RetentionInv, WindowOK
<1>9. ClockOK' /\ RowTypes' /\ EntryTypes' /\ EffectsOK'
  BY <1>1, TypesIs DEF ClockOK, RowTypes, EntryTypes, EffectsOK
<1>10. RowsOK' /\ AgesOK' BY <1>1 DEF RetentionInv, RowsOK, AgesOK, HasRow
<1>11. MarksOK' BY <1>1 DEF RetentionInv, MarksOK, IsMessageDeleted
<1>12. MentionsOK' /\ StickersOK' BY <1>1 DEF RetentionInv, MentionsOK, StickersOK
<1>13. VisibleIsNew' /\ QuotedIsThere' /\ QuotesAreNew' BY <1>1, EntriesStay
<1>14. QED BY <1>7, <1>8, <1>9, <1>10, <1>11, <1>12, <1>13 DEF RetentionInv, TypesOK

LEMMA ManualIs ==
  ASSUME RetentionInv, manual.step \in {"quoted", "sent"}
  PROVE  /\ manual \in [step : {"quoted", "sent"}, of : Manual, quote : Quotes,
                        mentions : SUBSET Incoming]
         /\ manual # AtRest
  BY TypesIs DEF WorkTypes, AtRest

LEMMA SendChatMessageStep == ASSUME RetentionInv, SendChatMessage PROVE RetentionInv'
<1>1. /\ manual.step = "quoted"
      /\ UNCHANGED <<now, state, updated, at, log, kept, quote, bindings, stickers>>
      /\ UNCHANGED <<cutoff, resetAt, turn, effects, revoked>>
      /\ \/ /\ manual' = [manual EXCEPT !.step = "sent"]
            /\ delivery' = [delivery EXCEPT ![manual.of] = "sent"]
         \/ manual' = AtRest /\ delivery' = [delivery EXCEPT ![manual.of] = "unsent"]
  BY DEF SendChatMessage, inbox, resets
<1>2. PICK h \in Manual : h = manual.of BY <1>1, ManualIs
<1>3. PICK how \in {"sent", "unsent"} : delivery' = [delivery EXCEPT ![h] = how] BY <1>1, <1>2
<1>4. delivery \in [Incoming \union Manual -> {"none", "pending", "sent", "unsent"}]
  BY TypesIs DEF RowTypes
<1>5. \A m \in Incoming : delivery'[m] = delivery[m] BY <1>3, <1>4, KindsAreApart
<1>6. WorkTypes' BY <1>1, ManualIs, TypesIs DEF WorkTypes
<1>7. RowTypes' BY <1>1, <1>3, TypesIs DEF RowTypes
<1>8. WindowOK'
  <2>1. Bot(h) \notin ToSet(log) BY <1>1, <1>2, ManualIs DEF RetentionInv, WindowOK
  <2>2. \A k \in Manual : delivery'[k] # "pending" /\ (Bot(k) \in ToSet(log) => delivery'[k] = "sent")
    BY <1>3, <1>4, <2>1 DEF RetentionInv, WindowOK
  <2>3. CASE manual' = AtRest BY <1>1, <2>2, <2>3 DEF WindowOK
  <2>4. CASE /\ manual' = [manual EXCEPT !.step = "sent"]
             /\ delivery' = [delivery EXCEPT ![manual.of] = "sent"]
    <3>1. /\ manual'.step = "sent" /\ manual'.of = h /\ manual'.quote = manual.quote
          /\ manual'.mentions = manual.mentions
      BY <1>1, <1>2, <2>4, ManualIs
    <3>2. delivery'[h] = "sent" BY <1>2, <1>4, <2>4
    <3>3. manual.quote.text = "shown" /\ manual.quote.of.by = "user" =>
            manual.quote.of.of \in manual.mentions
      BY <1>1, ManualIs DEF RetentionInv, WindowOK
    <3>4. QED BY <1>1, <2>1, <2>2, <3>1, <3>2, <3>3 DEF WindowOK
  <2>5. QED BY <1>1, <2>3, <2>4
<1>9. ClockOK' /\ EntryTypes' /\ EffectsOK'
  BY <1>1, TypesIs DEF ClockOK, EntryTypes, EffectsOK
<1>10. RowsOK' BY <1>1, <1>5 DEF RetentionInv, RowsOK, HasRow
<1>11. AgesOK' BY <1>1 DEF RetentionInv, AgesOK, HasRow
<1>12. MarksOK' BY <1>1 DEF RetentionInv, MarksOK, IsMessageDeleted
<1>13. MentionsOK' /\ StickersOK' BY <1>1 DEF RetentionInv, MentionsOK, StickersOK
<1>14. VisibleIsNew' /\ QuotedIsThere' /\ QuotesAreNew' BY <1>1, EntriesStay
<1>15. QED BY <1>6, <1>7, <1>8, <1>9, <1>10, <1>11, <1>12, <1>13, <1>14 DEF RetentionInv, TypesOK

LEMMA RecordSentStickerStep == ASSUME RetentionInv, NEW s \in Stickers, RecordSentSticker(s) PROVE RetentionInv'
<1>1. /\ at[Bot(s)] = 0 /\ now > 0 /\ at' = [at EXCEPT ![Bot(s)] = now]
      /\ stickers' = stickers \union {s}
      /\ UNCHANGED <<now, state, updated, log, kept, quote, delivery, bindings, effects>>
      /\ UNCHANGED <<cutoff, resetAt, turn, manual, revoked>>
  BY DEF RecordSentSticker, inbox, transcript, resets
<1>2. Bot(s) \in Messages /\ Bot(s).of = s BY RecordedOnes, NamesDiffer
<1>3. \A x \in Messages : at'[x] = at[x] \/ (x.of \in Stickers /\ at[x] = 0)
  BY <1>1, <1>2, TypesIs DEF RowTypes
<1>4. \A x \in Recorded : at'[x] = at[x] BY <1>3, RecordedIs
<1>5. RowTypes' BY <1>1, <1>2, TypesIs DEF RowTypes, ClockOK
<1>6. ClockOK' /\ EntryTypes' /\ WorkTypes' /\ EffectsOK'
  BY <1>1, TypesIs DEF ClockOK, EntryTypes, WorkTypes, EffectsOK
<1>7. RowsOK' BY <1>1, <1>4, RecordedOnes DEF RetentionInv, RowsOK, HasRow
<1>8. AgesOK'
  <2>1. \A x \in ToSet(log) : at'[x] = at[x] BY <1>4, SequenceOf, TypesIs DEF EntryTypes
  <2>2. QED BY <1>1, <2>1 DEF RetentionInv, AgesOK, HasRow
<1>9. WindowOK' BY <1>1 DEF RetentionInv, WindowOK
<1>10. MarksOK' BY <1>1 DEF RetentionInv, MarksOK, IsMessageDeleted
<1>11. MentionsOK' BY <1>1 DEF RetentionInv, MentionsOK
<1>12. StickersOK'
  <2>1. ASSUME NEW t \in stickers' PROVE at'[Bot(t)] > 0
    <3>1. CASE t = s BY <1>1, <1>2, <3>1, TypesIs DEF RowTypes
    <3>2. CASE t # s
      <4>1. t \in stickers /\ Bot(t) # Bot(s) BY <1>1, <2>1, <3>2, NamesDiffer
      <4>2. Bot(t) \in Messages BY <4>1, RecordedOnes, TypesIs DEF RowTypes
      <4>3. QED BY <1>1, <4>1, <4>2, TypesIs DEF RetentionInv, StickersOK, RowTypes
    <3>3. QED BY <3>1, <3>2
  <2>2. QED BY <2>1 DEF StickersOK
<1>13. VisibleIsNew' /\ QuotedIsThere' /\ QuotesAreNew' BY <1>1, <1>3, EntriesStay
<1>14. QED BY <1>5, <1>6, <1>7, <1>8, <1>9, <1>10, <1>11, <1>12, <1>13 DEF RetentionInv, TypesOK

-----------------------------------------------------------------------------
(* Steps that add an entry.                                                *)

\* A new entry is of a message from after the reset, and so is what it quotes.
LEMMA EntryAdded ==
  ASSUME RetentionInv, NEW y \in Recorded, y \notin ToSet(log), NEW q \in Quotes,
         log' = Append(log, y), kept' = kept \union {y}, quote' = [quote EXCEPT ![y] = q],
         UNCHANGED <<cutoff, resetAt, revoked>>,
         \A x \in Messages \ {y} : at'[x] = at[x],
         \A m \in Incoming : state[m] # "new" => state'[m] # "new",
         y.by = "user" => state[y.of] = "new",
         y.of \in Incoming => at'[User(y.of)] > resetAt,
         y.of \notin Manual /\ q.text = "shown" =>
           /\ q.of.of \in Manual => q.of \in ToSet(log)
           /\ q.of.of \in Incoming => state[q.of.of] # "new"
           /\ q.of.of \in Stickers => at[q.of] > 0
           /\ IsNew(q)
  PROVE  /\ EntryTypes' /\ ToSet(log)' = ToSet(log) \union {y}
         /\ \A x \in ToSet(log) : x # y /\ x \in Recorded /\ quote'[x] = quote[x]
         /\ quote'[y] = q
         /\ VisibleIsNew' /\ QuotedIsThere' /\ QuotesAreNew'
<1>1. log \in Seq(Recorded) /\ IsInjective(log) /\ kept \subseteq ToSet(log)
      /\ quote \in [Recorded -> Quotes] /\ revoked \subseteq Recorded
  BY TypesIs DEF EntryTypes
<1>2. /\ log' \in Seq(Recorded) /\ IsInjective(log)' /\ ToSet(log)' = ToSet(log) \union {y}
      /\ Len(log') = Len(log) + 1 /\ Sequence(y)' = Len(log) + 1
      /\ \A x \in ToSet(log) : Sequence(x)' = Sequence(x)
  BY <1>1, AppendIs
<1>3. EntryTypes' BY <1>1, <1>2 DEF EntryTypes
<1>4. \A x \in ToSet(log) : x # y /\ x \in Recorded /\ quote'[x] = quote[x]
  BY <1>1, SequenceOf
<1>5. quote'[y] = q BY <1>1
<1>6. \A m \in Incoming : state[m] # "new" => User(m) # y /\ User(m) \in Messages
  BY RecordedOnes, RecordedIs, NamesDiffer
<1>7. ASSUME NEW p, p.of \in Messages, IsNew(p), p.of.of \in Manual => p.of \in ToSet(log),
             p.of.of \in Incoming => state[p.of.of] # "new"
      PROVE  IsNew(p)'
  <2>1. p.of.of \in Incoming \union Manual \union Stickers BY <1>7, MessageIs
  <2>2. CASE p.of.of \in Manual BY <1>2, <1>7, <2>2 DEF IsNew
  <2>3. CASE p.of.of \in Incoming BY <1>6, <1>7, <2>3, KindsAreApart DEF IsNew
  <2>4. CASE p.of.of \in Stickers
    <3>1. p.of # y BY <2>4, RecordedIs
    <3>2. at'[p.of] = at[p.of] BY <1>7, <3>1
    <3>3. QED BY <1>7, <2>4, <3>2, KindsAreApart DEF IsNew
  <2>5. QED BY <2>1, <2>2, <2>3, <2>4
<1>8. VisibleIsNew'
  <2>1. ASSUME NEW x \in ToSet(log), Sequence(x)' > cutoff, x.of \in Incoming
        PROVE  at'[User(x.of)] > resetAt
    <3>1. at[User(x.of)] > resetAt BY <1>2, <2>1 DEF RetentionInv, VisibleIsNew
    <3>2. state[x.of] # "new" BY <2>1 DEF RetentionInv, AgesOK, HasRow
    <3>3. at'[User(x.of)] = at[User(x.of)] BY <1>6, <2>1, <3>2
    <3>4. QED BY <3>1, <3>3
  <2>2. QED BY <1>2, <2>1 DEF VisibleIsNew
<1>9. QuotedIsThere'
  <2>1. ASSUME NEW x \in kept, x.of \notin Manual, quote[x].text = "shown"
        PROVE  /\ quote[x].of.of \in Manual => quote[x].of \in ToSet(log)
               /\ quote[x].of.of \in Incoming => state'[quote[x].of.of] # "new"
               /\ quote[x].of.of \in Stickers => at'[quote[x].of] > 0
    <3>1. quote[x].of.of \in Stickers => quote[x].of # y BY RecordedIs
    <3>2. QED BY <2>1, <3>1, QuotedIs DEF RetentionInv, QuotedIsThere
  <2>2. y.of \notin Manual /\ q.text = "shown" =>
          /\ q.of.of \in Manual => q.of \in ToSet(log)
          /\ q.of.of \in Incoming => state'[q.of.of] # "new"
          /\ q.of.of \in Stickers => at'[q.of] > 0
    <3>1. q.text = "shown" => q.of \in Messages BY DEF Quotes, NoQuote
    <3>2. q.of.of \in Stickers => q.of # y BY RecordedIs
    <3>3. QED BY <3>1, <3>2
  <2>3. QED BY <1>1, <1>2, <1>4, <1>5, <2>1, <2>2 DEF QuotedIsThere
<1>10. QuotesAreNew'
  <2>1. ASSUME NEW x \in kept, Visible(x)', x.of \notin Manual, quote'[x].text = "shown"
        PROVE  IsNew(quote[x])'
    <3>1. Visible(x) BY <1>1, <1>2, <2>1 DEF Visible
    <3>2. quote'[x] = quote[x] BY <1>1, <1>4
    <3>3. PICK p : p = quote[x] OBVIOUS
    <3>4. /\ p.of \in Messages /\ IsNew(p)
          /\ p.of.of \in Manual => p.of \in ToSet(log)
          /\ p.of.of \in Incoming => state[p.of.of] # "new"
      BY <2>1, <3>1, <3>2, <3>3, QuotedIs DEF RetentionInv, QuotesAreNew, QuotedIsThere
    <3>5. IsNew(p)' BY <1>7, <3>4
    <3>6. quote'[x] = p BY <3>2, <3>3
    <3>7. QED BY <3>5, <3>6 DEF IsNew
  <2>2. ASSUME y.of \notin Manual, q.text = "shown" PROVE IsNew(q)'
    <3>1. q.of \in Messages BY <2>2 DEF Quotes, NoQuote
    <3>2. QED BY <1>7, <2>2, <3>1
  <2>3. ASSUME NEW x \in kept', Visible(x)', x.of \notin Manual, quote'[x].text = "shown"
        PROVE  IsNew(quote[x])'
    <3>1. CASE x \in kept BY <2>1, <2>3, <3>1
    <3>2. CASE x = y
      <4>1. IsNew(q)' BY <1>5, <2>2, <2>3, <3>2
      <4>2. QED BY <1>5, <3>2, <4>1 DEF IsNew
    <3>3. QED BY <2>3, <3>1, <3>2
  <2>4. QED BY <2>3 DEF QuotesAreNew
<1>11. QED BY <1>2, <1>3, <1>4, <1>5, <1>8, <1>9, <1>10

\* What is marked as deleted stays so when an entry is added or an effect planned.
LEMMA MarksAdded ==
  ASSUME RetentionInv, NEW y, y \notin ToSet(log),
         ToSet(log) \subseteq ToSet(log)', kept' \subseteq kept \union {y}, revoked' = revoked,
         \A f \in Effects : effects[f] # NoEffect => effects'[f] = effects[f],
         \A f \in Effects : effects'[f].step \notin {"none", "gone"} => effects'[f].target \in ToSet(log)
  PROVE  MarksOK'
<1>1. y \notin revoked BY DEF RetentionInv, MarksOK
<1>2. \A x \in kept' : x \in revoked' => IsMessageDeleted(x)'
  BY <1>1, MarksStay DEF RetentionInv, MarksOK
<1>3. QED BY <1>2 DEF RetentionInv, MarksOK

\* The window's message is recorded with its quote, or not at all.
LEMMA RecordManualAssistantMessageStep ==
  ASSUME RetentionInv, RecordManualAssistantMessage PROVE RetentionInv'
<1>1. /\ manual.step = "sent" /\ manual' = AtRest
      /\ UNCHANGED <<now, state, updated, delivery, bindings, stickers, effects, cutoff, resetAt>>
      /\ UNCHANGED <<turn, revoked>>
  BY DEF RecordManualAssistantMessage, inbox, resets
<1>2. PICK h \in Manual, q \in Quotes : h = manual.of /\ q = manual.quote BY <1>1, ManualIs
<1>3. PICK y \in Recorded : y = Bot(h) /\ y.by = "bot" /\ y.of = h BY RecordedOnes, NamesDiffer
<1>4. y \notin ToSet(log) /\ delivery[h] = "sent"
  BY <1>1, <1>2, <1>3, ManualIs DEF RetentionInv, WindowOK
<1>5. y.of \notin Incoming /\ y \in Messages BY <1>3, KindsAreApart, RecordedIs
<1>6. WorkTypes' /\ EffectsOK' BY <1>1, TypesIs DEF WorkTypes, EffectsOK
<1>7. CASE manual.mentions \subseteq bindings
  <2>1. /\ at' = [at EXCEPT ![y] = now] /\ log' = Append(log, y) /\ kept' = kept \union {y}
        /\ quote' = [quote EXCEPT ![y] = q]
    BY <1>2, <1>3, <1>7 DEF RecordManualAssistantMessage
  <2>2. \A x \in Messages \ {y} : at'[x] = at[x] BY <2>1, TypesIs DEF RowTypes
  <2>3. at'[y] = now BY <1>5, <2>1, TypesIs DEF RowTypes
  <2>4. /\ EntryTypes' /\ ToSet(log)' = ToSet(log) \union {y}
        /\ \A x \in ToSet(log) : x # y /\ x \in Recorded /\ quote'[x] = quote[x]
        /\ quote'[y] = q
        /\ VisibleIsNew' /\ QuotedIsThere' /\ QuotesAreNew'
    BY <1>1, <1>3, <1>4, <1>5, <2>1, <2>2, EntryAdded
  <2>5. \A m \in Incoming : User(m) # y /\ Bot(m) # y /\ User(m) \in Messages
    BY <1>3, <1>5, NamesDiffer, RecordedOnes, RecordedIs
  <2>6. ClockOK'
    <3>1. Len(log') = Len(log) + 1 /\ Len(log) \in Nat BY <2>1, TypesIs DEF EntryTypes
    <3>2. QED BY <1>1, <3>1, TypesIs DEF ClockOK
  <2>7. RowTypes' BY <1>1, <2>1, TypesIs DEF RowTypes, ClockOK
  <2>8. RowsOK' BY <1>1, <2>1, <2>2, <2>4, <2>5 DEF RetentionInv, RowsOK, HasRow
  <2>9. WindowOK'
    <3>1. \A k \in Manual : Bot(k) = y => k = h BY <1>3, NamesDiffer
    <3>2. QED BY <1>1, <1>4, <2>4, <3>1 DEF RetentionInv, WindowOK
  <2>10. AgesOK'
    <3>1. \A x \in ToSet(log) : at'[x] = at[x] BY <2>2, <2>4, RecordedIs
    <3>2. now \in Int BY BoundsHold, TypesIs DEF ClockOK
    <3>3. QED BY <1>1, <1>5, <2>3, <2>4, <3>1, <3>2 DEF RetentionInv, AgesOK, HasRow
  <2>11. MarksOK' BY <1>1, <1>4, <2>1, <2>4, MarksAdded DEF RetentionInv, MarksOK
  <2>12. MentionsOK'
    <3>1. q.text = "shown" /\ q.of.by = "user" => q.of.of \in bindings
      BY <1>1, <1>2, <1>7, ManualIs DEF RetentionInv, WindowOK
    <3>2. \A x \in kept : x \in ToSet(log) BY TypesIs DEF EntryTypes
    <3>3. QED BY <1>1, <1>3, <2>1, <2>4, <3>1, <3>2 DEF RetentionInv, MentionsOK
  <2>13. StickersOK'
    <3>1. \A s \in Stickers : Bot(s) # y /\ Bot(s) \in Messages
      BY <1>3, KindsAreApart, NamesDiffer, RecordedOnes
    <3>2. QED BY <1>1, <2>2, <3>1, TypesIs DEF RetentionInv, StickersOK, RowTypes
  <2>14. QED BY <1>6, <2>4, <2>6, <2>7, <2>8, <2>9, <2>10, <2>11, <2>12, <2>13 DEF RetentionInv, TypesOK
<1>8. CASE ~(manual.mentions \subseteq bindings)
  <2>1. UNCHANGED <<at, log, kept, quote>> BY <1>8 DEF RecordManualAssistantMessage
  <2>2. ClockOK' /\ RowTypes' /\ EntryTypes'
    BY <1>1, <2>1, TypesIs DEF ClockOK, RowTypes, EntryTypes
  <2>3. RowsOK' /\ AgesOK' BY <1>1, <2>1 DEF RetentionInv, RowsOK, AgesOK, HasRow
  <2>4. WindowOK' BY <1>1, <2>1 DEF RetentionInv, WindowOK
  <2>5. MarksOK' BY <1>1, <2>1 DEF RetentionInv, MarksOK, IsMessageDeleted
  <2>6. MentionsOK' /\ StickersOK' BY <1>1, <2>1 DEF RetentionInv, MentionsOK, StickersOK
  <2>7. VisibleIsNew' /\ QuotedIsThere' /\ QuotesAreNew' BY <1>1, <2>1, EntriesStay
  <2>8. QED BY <1>6, <2>2, <2>3, <2>4, <2>5, <2>6, <2>7 DEF RetentionInv, TypesOK
<1>9. QED BY <1>7, <1>8

\* What a row or a sticker is found by is as new as its message.
LEMMA ResolveQuotedIs ==
  ASSUME RetentionInv, NEW x \in Messages, NEW q, q = ResolveQuoted(x)
  PROVE  /\ q \in Quotes
         /\ q.text = "shown" =>
              /\ q.of = x /\ x.of \notin Manual /\ IsNew(q)
              /\ x.of \in Incoming => HasRow(x.of)
              /\ x.of \in Stickers => at[x] > 0
<1>1. at[x] \in Int /\ resetAt \in Int BY BoundsHold, TypesIs DEF RowTypes, ClockOK
<1>2. CASE x.of \in Stickers
  <2>1. x = Bot(x.of) /\ x.of \notin Manual /\ x.of \notin Incoming
    BY <1>2, MessageIs, KindsAreApart
  <2>2. CASE x.of \in stickers
    <3>1. q = [of |-> x, text |-> IF at[x] <= resetAt THEN "withheld" ELSE "shown"]
      BY <1>2, <2>2 DEF ResolveQuoted
    <3>2. at[x] > 0 BY <2>1, <2>2 DEF RetentionInv, StickersOK
    <3>3. QED BY <1>1, <2>1, <3>1, <3>2 DEF Quotes, IsNew
  <2>3. CASE x.of \notin stickers
    <3>1. q = NoQuote BY <1>2, <2>3 DEF ResolveQuoted
    <3>2. QED BY <3>1 DEF NoQuote, Quotes
  <2>4. QED BY <2>2, <2>3
<1>3. CASE x.of \notin Stickers
  <2>1. CASE x.of \in Incoming /\ HasRow(x.of) /\ Sent(x)
    <3>1. q = [of |-> x, text |-> IF Predates(x.of) THEN "withheld" ELSE "shown"]
      BY <1>3, <2>1 DEF ResolveQuoted
    <3>2. x.of \notin Manual BY <2>1, KindsAreApart
    <3>3. at[User(x.of)] \in Int BY <2>1, BoundsHold, RecordedOnes, RecordedIs, TypesIs DEF RowTypes
    <3>4. QED BY <1>1, <1>3, <2>1, <3>1, <3>2, <3>3 DEF Quotes, IsNew, Predates
  <2>2. CASE ~(x.of \in Incoming /\ HasRow(x.of) /\ Sent(x))
    <3>1. q = NoQuote BY <1>3, <2>2 DEF ResolveQuoted
    <3>2. QED BY <3>1 DEF NoQuote, Quotes
  <2>3. QED BY <2>1, <2>2
<1>4. QED BY <1>2, <1>3

\* A message is stored with what it quotes, or too late for its entry.
LEMMA ClaimAndResolveSenderStep ==
  ASSUME RetentionInv, NEW m \in Incoming, ClaimAndResolveSender(m) PROVE RetentionInv'
<1>1. /\ state[m] = "new" /\ at' = [at EXCEPT ![User(m)] = now]
      /\ Move(m, IF now > resetAt THEN "waiting" ELSE "done") /\ bindings' = bindings \union {m}
      /\ IF now > resetAt
         THEN log' = Append(log, User(m)) /\ kept' = kept \union {User(m)}
         ELSE UNCHANGED <<log, kept>>
      /\ UNCHANGED <<now, delivery, stickers, effects, cutoff, resetAt, turn, manual, revoked>>
  BY DEF ClaimAndResolveSender, resets
<1>2. PICK found \in {NoQuote} \union {ResolveQuoted(x) : x \in {y \in Messages : OnWhatsApp(y)}} :
        quote' = [quote EXCEPT ![User(m)] = found]
  BY DEF ClaimAndResolveSender
<1>3. PICK q \in Quotes :
      /\ quote' = [quote EXCEPT ![User(m)] = q]
      /\ q.text = "shown" =>
           /\ q.of \in Messages /\ q.of.of \notin Manual /\ IsNew(q)
           /\ q.of.of \in Incoming => HasRow(q.of.of)
           /\ q.of.of \in Stickers => at[q.of] > 0
  <2>1. CASE found = NoQuote
    <3>1. NoQuote \in Quotes /\ NoQuote.text # "shown" BY DEF NoQuote, Quotes
    <3>2. QED BY <1>2, <2>1, <3>1
  <2>2. CASE found # NoQuote
    <3>1. PICK x \in Messages : found = ResolveQuoted(x) BY <1>2, <2>2
    <3>2. PICK q : q = found OBVIOUS
    <3>3. QED BY <1>2, <3>1, <3>2, ResolveQuotedIs
  <2>3. QED BY <2>1, <2>2
<1>4. PICK y \in Recorded : y = User(m) /\ y.by = "user" /\ y.of = m BY RecordedOnes, NamesDiffer
<1>5. y \in Messages /\ y \notin ToSet(log) /\ Bot(m) \notin ToSet(log) /\ delivery[m] = "none"
  BY <1>1, <1>4, RecordedIs DEF RetentionInv, RowsOK
<1>6. at'[y] = now /\ \A x \in Messages \ {y} : at'[x] = at[x]
  BY <1>1, <1>4, <1>5, TypesIs DEF RowTypes
<1>7. PICK to \in {"waiting", "done"} :
        /\ state' = [state EXCEPT ![m] = to] /\ updated' = [updated EXCEPT ![m] = now]
        /\ now > resetAt => to = "waiting"
  BY <1>1 DEF Move
<1>8. /\ state'[m] = to /\ updated'[m] = now
      /\ \A n \in Incoming \ {m} : state'[n] = state[n] /\ updated'[n] = updated[n]
      /\ \A n \in Incoming : state[n] # "new" => state'[n] # "new"
  BY <1>7, TypesIs DEF RowTypes
<1>9. WorkTypes' /\ EffectsOK' BY <1>1, TypesIs DEF WorkTypes, EffectsOK
<1>10. RowTypes' BY <1>1, <1>7, TypesIs DEF RowTypes, ClockOK
<1>11. \A n \in Incoming \ {m} : /\ User(n) # y /\ Bot(n) # y /\ User(n) \in Messages
                                 /\ at'[User(n)] = at[User(n)]
  BY <1>4, <1>6, NamesDiffer, RecordedOnes, RecordedIs
<1>12. Bot(m) # y /\ \A h \in Manual : Bot(h) # y BY <1>4, NamesDiffer
<1>13. StickersOK'
  <2>1. \A s \in Stickers : Bot(s) # y /\ Bot(s) \in Messages
    BY <1>4, NamesDiffer, RecordedOnes
  <2>2. QED BY <1>1, <1>6, <2>1, TypesIs DEF RetentionInv, StickersOK, RowTypes
<1>14. \A x \in ToSet(log) : /\ x # y /\ x \in Recorded /\ at'[x] = at[x] /\ x.of # m
                             /\ quote'[x] = quote[x]
  <2>1. ASSUME NEW x \in ToSet(log)
        PROVE  x # y /\ x \in Recorded /\ at'[x] = at[x] /\ x.of # m /\ quote'[x] = quote[x]
    <3>1. x # y /\ x \in Recorded /\ x \in Messages
      BY <1>5, SequenceOf, RecordedIs, TypesIs DEF EntryTypes
    <3>2. x.of # m BY <1>4, <1>5, <3>1, RecordedIs
    <3>3. QED BY <1>3, <1>4, <1>6, <3>1, <3>2, TypesIs DEF EntryTypes
  <2>2. QED BY <2>1
<1>15. \A x \in kept : x \in ToSet(log) BY TypesIs DEF EntryTypes
<1>16. CASE now > resetAt
  <2>1. log' = Append(log, y) /\ kept' = kept \union {y} /\ quote' = [quote EXCEPT ![y] = q]
    BY <1>1, <1>3, <1>4, <1>16
  <2>2. /\ EntryTypes' /\ ToSet(log)' = ToSet(log) \union {y} /\ quote'[y] = q
        /\ VisibleIsNew' /\ QuotedIsThere' /\ QuotesAreNew'
    <3>1. q.text = "shown" /\ q.of.of \in Incoming => state[q.of.of] # "new"
      BY <1>3 DEF HasRow
    <3>2. at'[User(y.of)] > resetAt BY <1>4, <1>6, <1>16
    <3>3. y.of \notin Manual /\ q.text = "shown" =>
            /\ q.of.of \in Manual => q.of \in ToSet(log)
            /\ q.of.of \in Incoming => state[q.of.of] # "new"
            /\ q.of.of \in Stickers => at[q.of] > 0
            /\ IsNew(q)
      BY <1>3, <3>1
    <3>4. UNCHANGED <<cutoff, resetAt, revoked>> BY <1>1
    <3>5. y.by = "user" => state[y.of] = "new" BY <1>1, <1>4
    <3>6. y.of \in Incoming => at'[User(y.of)] > resetAt BY <3>2
    <3>7. QED BY <1>5, <1>6, <1>8, <2>1, <3>3, <3>4, <3>5, <3>6, EntryAdded
  <2>3. ClockOK'
    <3>1. Len(log') = Len(log) + 1 /\ Len(log) \in Nat BY <2>1, TypesIs DEF EntryTypes
    <3>2. QED BY <1>1, <3>1, TypesIs DEF ClockOK
  <2>4. RowsOK' BY <1>1, <1>5, <1>7, <1>8, <1>11, <1>12, <1>16, <2>1, <2>2 DEF RetentionInv, RowsOK, HasRow
  <2>5. WindowOK'
    <3>1. manual # AtRest => manual.of \in Manual BY TypesIs DEF WorkTypes
    <3>2. QED BY <1>1, <1>12, <2>2, <3>1 DEF RetentionInv, WindowOK
  <2>6. AgesOK'
    <3>1. now \in Int BY BoundsHold, TypesIs DEF ClockOK
    <3>2. QED BY <1>1, <1>4, <1>6, <1>8, <1>14, <2>2, <3>1 DEF RetentionInv, AgesOK, HasRow
  <2>7. MarksOK' BY <1>1, <1>5, <2>1, <2>2, MarksAdded DEF RetentionInv, MarksOK
  <2>8. MentionsOK'
    <3>1. q.text = "shown" /\ q.of.by = "user" => q.of.of \in bindings
      BY <1>3, MessageIs DEF RetentionInv, RowsOK
    <3>2. QED BY <1>1, <1>4, <1>14, <1>15, <2>1, <2>2, <3>1 DEF RetentionInv, MentionsOK
  <2>9. QED BY <1>9, <1>10, <1>13, <2>2, <2>3, <2>4, <2>5, <2>6, <2>7, <2>8 DEF RetentionInv, TypesOK
<1>17. CASE ~(now > resetAt)
  <2>1. UNCHANGED <<log, kept>> BY <1>1, <1>17
  <2>2. ClockOK' /\ EntryTypes'
    <3>1. quote' \in [Recorded -> Quotes] BY <1>3, <1>4, TypesIs DEF EntryTypes
    <3>2. QED BY <1>1, <2>1, <3>1, TypesIs DEF ClockOK, EntryTypes
  <2>3. RowsOK' BY <1>1, <1>5, <1>7, <1>8, <1>11, <1>12, <2>1 DEF RetentionInv, RowsOK, HasRow
  <2>4. WindowOK' BY <1>1, <2>1 DEF RetentionInv, WindowOK
  <2>5. AgesOK' BY <1>1, <1>8, <1>14, <2>1 DEF RetentionInv, AgesOK, HasRow
  <2>6. MarksOK' BY <1>1, <2>1 DEF RetentionInv, MarksOK, IsMessageDeleted
  <2>7. MentionsOK' BY <1>1, <1>14, <1>15, <2>1 DEF RetentionInv, MentionsOK
  <2>8. VisibleIsNew' /\ QuotedIsThere' /\ QuotesAreNew'
    BY <1>1, <1>4, <1>6, <1>8, <1>14, <1>15, <2>1, EntriesStay
  <2>9. QED BY <1>9, <1>10, <1>13, <2>2, <2>3, <2>4, <2>5, <2>6, <2>7, <2>8 DEF RetentionInv, TypesOK
<1>18. QED BY <1>16, <1>17

\* A plan's effects are new, and about a message that has an entry.
LEMMA PlannedIs ==
  ASSUME RetentionInv, NEW m \in Incoming, NEW target \in Recorded, NEW kind \in {"delete", "react"},
         NEW planned \in SUBSET {e \in Effects : effects[e] = NoEffect},
         planned # {} => target \in kept,
         effects' = [e \in Effects |->
                       IF e \in planned THEN NewEffect(kind, target, m) ELSE effects[e]]
  PROVE  /\ EffectsOK'
         /\ \A f \in Effects : effects[f] # NoEffect => effects'[f] = effects[f]
         /\ \A f \in Effects :
              effects'[f].step \notin {"none", "gone"} => effects'[f].target \in ToSet(log)
<1>1. PICK plan \in EffectRecords : plan = NewEffect(kind, target, m) /\ plan.target = target
  BY NewEffectIs
<1>2. \A e \in Effects : effects'[e] = IF e \in planned THEN plan ELSE effects[e]
  BY <1>1
<1>3. effects' = [e \in Effects |-> IF e \in planned THEN plan ELSE effects[e]] BY <1>1
<1>4. EffectsOK' BY <1>3, TypesIs DEF EffectsOK
<1>5. planned # {} => target \in ToSet(log) BY TypesIs DEF EntryTypes
<1>6. \A f \in Effects : effects'[f].step \notin {"none", "gone"} => effects'[f].target \in ToSet(log)
  BY <1>1, <1>2, <1>5 DEF RetentionInv, MarksOK
<1>7. QED BY <1>2, <1>4, <1>6

\* What the answer quotes is visible, so it is from after the reset.
LEMMA ReplyIs ==
  ASSUME RetentionInv, NEW q, NEW x \in Recorded, q = [of |-> x, text |-> "shown"], ResolveHistoryQuote(x)
  PROVE  /\ q \in Quotes /\ IsNew(q) /\ q.of \in ToSet(log) /\ q.of.of \notin Stickers
         /\ q.of.of \in Incoming => state[q.of.of] # "new"
         /\ q.of.by = "user" => q.of.of \in bindings
<1>1. x \in kept /\ x \in ToSet(log) /\ Sequence(x) > cutoff
  BY TypesIs DEF ResolveHistoryQuote, Visible, EntryTypes
<1>2. q.of = x /\ q \in Quotes /\ x.of \notin Stickers BY RecordedIs DEF Quotes
<1>3. x.of \in Incoming => at[User(x.of)] > resetAt /\ state[x.of] # "new"
  BY <1>1 DEF RetentionInv, VisibleIsNew, AgesOK, HasRow
<1>4. x.of \in Incoming \union Manual BY RecordedIs
<1>5. x.by = "user" => x.of \in bindings BY <1>1 DEF RetentionInv, MentionsOK
<1>6. QED BY <1>1, <1>2, <1>3, <1>4, <1>5 DEF IsNew

\* The answer of a turn.
LEMMA AnswerAdded ==
  ASSUME RetentionInv, NEW m \in Incoming, state[m] = "generating", Move(m, "planned"),
         NEW q \in Quotes,
         q.text = "shown" =>
           /\ IsNew(q) /\ q.of \in ToSet(log) /\ q.of.of \notin Stickers
           /\ q.of.of \in Incoming => state[q.of.of] # "new"
           /\ q.of.by = "user" => q.of.of \in bindings,
         EffectsOK',
         \A f \in Effects : effects[f] # NoEffect => effects'[f] = effects[f],
         \A f \in Effects : effects'[f].step \notin {"none", "gone"} => effects'[f].target \in ToSet(log),
         turn' = AtRest, log' = Append(log, Bot(m)), kept' = kept \union {Bot(m)},
         quote' = [quote EXCEPT ![Bot(m)] = q], delivery' = [delivery EXCEPT ![m] = "pending"],
         at' = [at EXCEPT ![Bot(m)] = now],
         UNCHANGED <<now, bindings, stickers, cutoff, resetAt, manual, revoked>>
  PROVE  RetentionInv'
<1>1. PICK y \in Recorded : y = Bot(m) /\ y.by = "bot" /\ y.of = m BY RecordedOnes, NamesDiffer
<1>2. /\ log' = Append(log, y) /\ kept' = kept \union {y} /\ at' = [at EXCEPT ![y] = now]
      /\ quote' = [quote EXCEPT ![y] = q]
  BY <1>1
<1>3. /\ y \in Messages /\ y \notin ToSet(log) /\ delivery[m] = "none" /\ HasRow(m)
      /\ at[User(m)] > resetAt
  BY <1>1, RecordedIs DEF RetentionInv, RowsOK, HasRow
<1>4. at'[y] = now /\ \A x \in Messages \ {y} : at'[x] = at[x]
  BY <1>2, <1>3, TypesIs DEF RowTypes
<1>5. state' = [state EXCEPT ![m] = "planned"] /\ updated' = [updated EXCEPT ![m] = now] BY DEF Move
<1>6. /\ state'[m] = "planned" /\ updated'[m] = now
      /\ \A n \in Incoming \ {m} : state'[n] = state[n] /\ updated'[n] = updated[n]
      /\ \A n \in Incoming : state[n] # "new" => state'[n] # "new"
  BY <1>5, TypesIs DEF RowTypes
<1>7. /\ \A n \in Incoming : User(n) # y /\ User(n) \in Messages
      /\ \A n \in Incoming \ {m} : Bot(n) # y
      /\ \A h \in Manual : Bot(h) # y
      /\ \A s \in Stickers : Bot(s) # y /\ Bot(s) \in Messages
  BY <1>1, NamesDiffer, RecordedOnes, RecordedIs, KindsAreApart
<1>8. /\ EntryTypes' /\ ToSet(log)' = ToSet(log) \union {y}
      /\ \A x \in ToSet(log) : x # y /\ x \in Recorded /\ quote'[x] = quote[x]
      /\ quote'[y] = q
      /\ VisibleIsNew' /\ QuotedIsThere' /\ QuotesAreNew'
  <2>1. y.of \notin Manual /\ q.text = "shown" =>
          /\ q.of.of \in Manual => q.of \in ToSet(log)
          /\ q.of.of \in Incoming => state[q.of.of] # "new"
          /\ q.of.of \in Stickers => at[q.of] > 0
          /\ IsNew(q)
    OBVIOUS
  <2>2. y.by = "user" => state[y.of] = "new" BY <1>1
  <2>3. y.of \in Incoming => at'[User(y.of)] > resetAt BY <1>1, <1>3, <1>4, <1>7
  <2>4. UNCHANGED <<cutoff, resetAt, revoked>> OBVIOUS
  <2>5. QED BY <1>2, <1>3, <1>4, <1>6, <2>1, <2>2, <2>3, <2>4, EntryAdded
<1>9. ClockOK'
  <2>1. Len(log') = Len(log) + 1 /\ Len(log) \in Nat BY TypesIs DEF EntryTypes
  <2>2. QED BY <2>1, TypesIs DEF ClockOK
<1>10. RowTypes' BY <1>2, <1>5, TypesIs DEF RowTypes, ClockOK
<1>11. WorkTypes' BY TypesIs DEF WorkTypes
<1>12. delivery'[m] = "pending" /\ \A n \in (Incoming \union Manual) \ {m} : delivery'[n] = delivery[n]
  BY TypesIs DEF RowTypes
<1>13. RowsOK'
  <2>1. ASSUME NEW n \in Incoming \ {m}
        PROVE  /\ state'[n] = "new" => User(n) \notin ToSet(log)'
               /\ state'[n] \in {"new", "waiting", "generating"} =>
                    Bot(n) \notin ToSet(log)' /\ delivery'[n] = "none"
               /\ state'[n] = "generating" => at'[User(n)] > resetAt'
               /\ (state'[n] = "planned") <=> (delivery'[n] = "pending")
               /\ state'[n] = "planned" => Bot(n) \in kept'
               /\ HasRow(n)' => n \in bindings'
    BY <1>4, <1>6, <1>7, <1>8, <1>12 DEF RetentionInv, RowsOK, HasRow
  <2>2. m \in bindings BY <1>3 DEF RetentionInv, RowsOK
  <2>3. Bot(m) \in kept' OBVIOUS
  <2>4. QED BY <1>6, <1>12, <2>1, <2>2, <2>3 DEF RowsOK
<1>14. WindowOK'
  <2>1. manual # AtRest => manual.of \in Manual BY TypesIs DEF WorkTypes
  <2>2. \A h \in Manual : delivery'[h] = delivery[h] BY <1>12, KindsAreApart
  <2>3. QED BY <1>7, <1>8, <2>1, <2>2 DEF RetentionInv, WindowOK
<1>15. AgesOK'
  <2>1. \A x \in ToSet(log) : at'[x] = at[x] BY <1>4, <1>8, RecordedIs
  <2>2. now \in Int BY BoundsHold, TypesIs DEF ClockOK
  <2>3. ASSUME NEW x \in ToSet(log)
        PROVE  /\ at'[x] <= now'
               /\ x.of \in Incoming =>
                    \/ HasRow(x.of)' /\ at'[x] <= updated'[x.of]
                    \/ state'[x.of] = "gone" /\ at'[x] <= now' - RetainAge
    BY <1>3, <1>6, <2>1 DEF RetentionInv, AgesOK, HasRow
  <2>4. at'[y] <= now' /\ HasRow(m)' /\ at'[y] <= updated'[m]
    BY <1>4, <1>6, <2>2 DEF HasRow
  <2>5. QED BY <1>1, <1>8, <2>3, <2>4 DEF AgesOK
<1>16. MarksOK'
  <2>1. ToSet(log) \subseteq ToSet(log)' BY <1>8
  <2>2. QED BY <1>2, <1>3, <2>1, MarksAdded
<1>17. MentionsOK'
  <2>1. \A x \in kept : x \in ToSet(log) BY TypesIs DEF EntryTypes
  <2>2. QED BY <1>1, <1>2, <1>8, <2>1 DEF RetentionInv, MentionsOK
<1>18. StickersOK' BY <1>4, <1>7, TypesIs DEF RetentionInv, StickersOK, RowTypes
<1>19. QED
  BY <1>8, <1>9, <1>10, <1>11, <1>13, <1>14, <1>15, <1>16, <1>17, <1>18 DEF RetentionInv, TypesOK

\* An answer and its effects are stored together, or neither is.
LEMMA CommitPlanStep == ASSUME RetentionInv, CommitPlan PROVE RetentionInv'
<1>1. /\ turn # AtRest /\ turn' = AtRest
      /\ UNCHANGED <<now, bindings, stickers, cutoff, resetAt, manual, revoked>>
  BY DEF CommitPlan, resets
<1>2. PICK m \in Incoming : m = turn.of /\ turn.seen \subseteq Recorded
  BY <1>1, TypesIs DEF WorkTypes
<1>3. PICK reply \in {NoQuote} \union {[of |-> x, text |-> "shown"] : x \in turn.seen},
           text \in BOOLEAN,
           planned \in SUBSET {e \in Effects : effects[e] = NoEffect},
           kind \in {"delete", "react"}, target \in turn.seen :
       /\ Cardinality(planned) <= 1
       /\ text \/ (planned # {} /\ reply = NoQuote)
       /\ IF /\ state[turn.of] = "generating"
             /\ reply # NoQuote => ResolveHistoryQuote(reply.of)
             /\ planned # {} => target \in kept
          THEN /\ effects' = [e \in Effects |->
                                IF e \in planned THEN NewEffect(kind, target, turn.of) ELSE effects[e]]
               /\ Move(turn.of, IF text THEN "planned" ELSE "done")
               /\ IF text
                  THEN /\ log' = Append(log, Bot(turn.of)) /\ kept' = kept \union {Bot(turn.of)}
                       /\ quote' = [quote EXCEPT ![Bot(turn.of)] = reply]
                       /\ delivery' = [delivery EXCEPT ![turn.of] = "pending"]
                       /\ at' = [at EXCEPT ![Bot(turn.of)] = now]
                  ELSE UNCHANGED <<log, kept, quote, delivery, at>>
          ELSE UNCHANGED <<effects, inbox, at, log, kept, quote, delivery>>
  BY DEF CommitPlan
<1>4. target \in Recorded BY <1>2
<1>5. CASE /\ state[m] = "generating"
           /\ reply # NoQuote => ResolveHistoryQuote(reply.of)
           /\ planned # {} => target \in kept
  <2>1. effects' = [e \in Effects |->
                      IF e \in planned THEN NewEffect(kind, target, m) ELSE effects[e]]
    BY <1>2, <1>3, <1>5
  <2>2. planned # {} => target \in kept BY <1>5
  <2>3. /\ EffectsOK'
        /\ \A f \in Effects : effects[f] # NoEffect => effects'[f] = effects[f]
        /\ \A f \in Effects :
             effects'[f].step \notin {"none", "gone"} => effects'[f].target \in ToSet(log)
    BY <1>4, <2>1, <2>2, PlannedIs
  <2>4. CASE text
    <3>1. /\ log' = Append(log, Bot(m)) /\ kept' = kept \union {Bot(m)}
          /\ quote' = [quote EXCEPT ![Bot(m)] = reply]
          /\ delivery' = [delivery EXCEPT ![m] = "pending"]
          /\ at' = [at EXCEPT ![Bot(m)] = now]
          /\ Move(m, "planned")
      BY <1>2, <1>3, <1>5, <2>4
    <3>2. PICK q \in Quotes :
            /\ q = reply
            /\ q.text = "shown" =>
                 /\ IsNew(q) /\ q.of \in ToSet(log) /\ q.of.of \notin Stickers
                 /\ q.of.of \in Incoming => state[q.of.of] # "new"
                 /\ q.of.by = "user" => q.of.of \in bindings
      <4>1. CASE reply = NoQuote
        <5>1. NoQuote \in Quotes /\ NoQuote.text # "shown" BY DEF NoQuote, Quotes
        <5>2. QED BY <4>1, <5>1
      <4>2. CASE reply # NoQuote
        <5>1. PICK x \in Recorded : reply = [of |-> x, text |-> "shown"] BY <1>2, <1>3, <4>2
        <5>2. ResolveHistoryQuote(x) BY <1>5, <4>2, <5>1
        <5>3. PICK q : q = [of |-> x, text |-> "shown"] OBVIOUS
        <5>4. QED BY <5>1, <5>2, <5>3, ReplyIs
      <4>3. QED BY <4>1, <4>2
    <3>3. quote' = [quote EXCEPT ![Bot(m)] = q] BY <3>1, <3>2
    <3>4. state[m] = "generating" BY <1>5
    <3>5. QED BY <1>1, <2>3, <3>1, <3>2, <3>3, <3>4, AnswerAdded
  <2>5. CASE ~text
    <3>1. UNCHANGED <<log, kept, quote, delivery, at>> /\ Move(m, "done")
      BY <1>2, <1>3, <1>5, <2>5
    <3>2. state' = [state EXCEPT ![m] = "done"] /\ HasRow(m) BY <1>5, <3>1 DEF Move, HasRow
    <3>3. AgesOK' /\ updated' \in [Incoming -> 0 .. MaxTime] BY <1>1, <3>1, <3>2, MoveKeeps
    <3>4. ClockOK' /\ EntryTypes' /\ WorkTypes'
      BY <1>1, <3>1, TypesIs DEF ClockOK, EntryTypes, WorkTypes
    <3>5. RowTypes' BY <1>1, <3>1, <3>2, <3>3, TypesIs DEF RowTypes
    <3>6. RowsOK' BY <1>1, <1>5, <3>1, <3>2, TypesIs DEF RetentionInv, RowsOK, HasRow, RowTypes
    <3>7. WindowOK' BY <1>1, <3>1 DEF RetentionInv, WindowOK
    <3>8. MarksOK'
      <4>1. \A x \in kept : x \in revoked => IsMessageDeleted(x)'
        BY <2>3, MarksStay DEF RetentionInv, MarksOK
      <4>2. QED BY <1>1, <2>3, <3>1, <4>1 DEF RetentionInv, MarksOK
    <3>9. MentionsOK' /\ StickersOK' BY <1>1, <3>1 DEF RetentionInv, MentionsOK, StickersOK
    <3>10. VisibleIsNew' /\ QuotedIsThere' /\ QuotesAreNew'
      BY <1>1, <3>1, <3>2, EntriesStay, TypesIs DEF RowTypes
    <3>11. QED BY <2>3, <3>3, <3>4, <3>5, <3>6, <3>7, <3>8, <3>9, <3>10 DEF RetentionInv, TypesOK
  <2>6. QED BY <2>4, <2>5
<1>6. CASE ~(/\ state[m] = "generating"
             /\ reply # NoQuote => ResolveHistoryQuote(reply.of)
             /\ planned # {} => target \in kept)
  <2>1. UNCHANGED <<effects, state, updated, at, log, kept, quote, delivery>>
    BY <1>2, <1>3, <1>6 DEF inbox
  <2>2. ClockOK' /\ RowTypes' /\ EntryTypes' /\ WorkTypes' /\ EffectsOK'
    BY <1>1, <2>1, TypesIs DEF ClockOK, RowTypes, EntryTypes, WorkTypes, EffectsOK
  <2>3. RowsOK' /\ AgesOK' BY <1>1, <2>1 DEF RetentionInv, RowsOK, AgesOK, HasRow
  <2>4. WindowOK' BY <1>1, <2>1 DEF RetentionInv, WindowOK
  <2>5. MarksOK' BY <1>1, <2>1 DEF RetentionInv, MarksOK, IsMessageDeleted
  <2>6. MentionsOK' /\ StickersOK' BY <1>1, <2>1 DEF RetentionInv, MentionsOK, StickersOK
  <2>7. VisibleIsNew' /\ QuotedIsThere' /\ QuotesAreNew' BY <1>1, <2>1, EntriesStay
  <2>8. QED BY <2>2, <2>3, <2>4, <2>5, <2>6, <2>7 DEF RetentionInv, TypesOK
<1>7. QED BY <1>5, <1>6

-----------------------------------------------------------------------------
(* The reset, and maintenance.                                             *)

\* After a reset nothing is visible, and no turn from before it is answered.
LEMMA ResetStep == ASSUME RetentionInv, Reset PROVE RetentionInv'
<1>1. PICK time \in resetAt + 1 .. now :
        /\ resetAt' = time /\ cutoff' = Len(log)
        /\ LET cancelled == {m \in Incoming : state[m] = "generating" /\ at[User(m)] <= time}
           IN /\ state' = [m \in Incoming |-> IF m \in cancelled THEN "done" ELSE state[m]]
              /\ updated' = [m \in Incoming |-> IF m \in cancelled THEN time ELSE updated[m]]
        /\ UNCHANGED <<now, at, transcript, stickers, effects, turn, manual, revoked>>
  BY DEF Reset
<1>2. UNCHANGED <<now, at, log, kept, quote, delivery, bindings, stickers, effects, turn, manual, revoked>>
  BY <1>1 DEF transcript
<1>3. time \in 0 .. MaxTime /\ time \in resetAt + 1 .. now /\ resetAt \in Int /\ now \in Int
  BY BoundsHold, TypesIs DEF ClockOK
<1>4. PICK C : C = {m \in Incoming : state[m] = "generating" /\ at[User(m)] <= time} OBVIOUS
<1>5. /\ state' = [m \in Incoming |-> IF m \in C THEN "done" ELSE state[m]]
      /\ updated' = [m \in Incoming |-> IF m \in C THEN time ELSE updated[m]]
  BY <1>1, <1>4
<1>6. \A m \in Incoming :
        /\ m \in C => /\ state[m] = "generating" /\ at[User(m)] <= time
                      /\ state'[m] = "done" /\ updated'[m] = time
        /\ m \notin C => /\ state'[m] = state[m] /\ updated'[m] = updated[m]
                         /\ state[m] = "generating" => at[User(m)] > time
  <2>1. \A m \in Incoming : at[User(m)] \in Int
    BY RecordedOnes, RecordedIs, BoundsHold, TypesIs DEF RowTypes
  <2>2. QED BY <1>3, <1>4, <1>5, <2>1
<1>7. ClockOK'
  <2>1. Len(log) \in Nat BY TypesIs DEF EntryTypes
  <2>2. QED BY <1>1, <1>2, <1>3, <2>1, TypesIs DEF ClockOK
<1>8. RowTypes' BY <1>2, <1>3, <1>5, TypesIs DEF RowTypes
<1>9. EntryTypes' /\ WorkTypes' /\ EffectsOK' BY <1>2, TypesIs DEF EntryTypes, WorkTypes, EffectsOK
<1>10. RowsOK' BY <1>1, <1>2, <1>6 DEF RetentionInv, RowsOK, HasRow
<1>11. WindowOK' BY <1>2 DEF RetentionInv, WindowOK
<1>12. AgesOK'
  <2>1. ASSUME NEW x \in ToSet(log), x.of \in Incoming
        PROVE  \/ HasRow(x.of)' /\ at[x] <= updated'[x.of]
               \/ state'[x.of] = "gone" /\ at[x] <= now - RetainAge
    <3>1. CASE x.of \in C
      <4>1. x \in Recorded /\ Bot(x.of) \notin ToSet(log)
        BY <1>6, <2>1, <3>1, SequenceOf, TypesIs DEF RetentionInv, RowsOK, EntryTypes
      <4>2. x = User(x.of) BY <4>1, RecordedIs
      <4>3. QED BY <1>6, <2>1, <3>1, <4>2 DEF HasRow
    <3>2. CASE x.of \notin C BY <1>6, <2>1, <3>2 DEF RetentionInv, AgesOK, HasRow
    <3>3. QED BY <3>1, <3>2
  <2>2. QED BY <1>2, <2>1 DEF RetentionInv, AgesOK
<1>13. MarksOK' BY <1>2 DEF RetentionInv, MarksOK, IsMessageDeleted
<1>14. MentionsOK' /\ StickersOK' BY <1>2 DEF RetentionInv, MentionsOK, StickersOK
<1>15. \A x \in ToSet(log) : ~(Sequence(x)' > cutoff')
  <2>1. \A x \in ToSet(log) : Sequence(x)' \in 1..Len(log)
    BY <1>2, SequenceStays, SequenceOf, TypesIs DEF EntryTypes
  <2>2. QED BY <1>1, <2>1, TypesIs DEF EntryTypes
<1>16. VisibleIsNew' BY <1>2, <1>15 DEF VisibleIsNew
<1>17. QuotesAreNew' BY <1>2, <1>15, TypesIs DEF QuotesAreNew, Visible, EntryTypes
<1>18. QuotedIsThere'
  <2>1. \A m \in Incoming : state[m] # "new" => state'[m] # "new" BY <1>6
  <2>2. QED BY <1>2, <2>1 DEF RetentionInv, QuotedIsThere
<1>19. QED
  BY <1>7, <1>8, <1>9, <1>10, <1>11, <1>12, <1>13, <1>14, <1>16, <1>17, <1>18 DEF RetentionInv, TypesOK

LEMMA BatchIs == ASSUME NEW S, NEW age, NEW B \in Batches(S, age) PROVE B \subseteq S
  BY DEF Batches, kSubset

\* Each deletion leaves what the others, and the page, lean on.
LEMMA MaintainStep == ASSUME RetentionInv, Maintain PROVE RetentionInv'
<1>1. /\ bindings' = {m \in bindings :
                        Referenced(m, {i \in Incoming : state'[i] \notin {"new", "gone"}}, kept')}
      /\ UNCHANGED <<now, updated, at, log, quote, delivery, cutoff, resetAt, turn, manual, revoked>>
  BY DEF Maintain, resets
<1>2. PICK rows \in SUBSET ExpiredRows :
        state' = [m \in Incoming |-> IF m \in rows THEN "gone" ELSE state[m]]
  <2>1. PICK rows \in Batches(ExpiredRows, updated) :
          state' = [m \in Incoming |-> IF m \in rows THEN "gone" ELSE state[m]]
    BY DEF Maintain
  <2>2. rows \subseteq ExpiredRows BY BatchIs
  <2>3. QED BY <2>1, <2>2
<1>3. PICK finished \in SUBSET ExpiredEffects :
        effects' = [e \in Effects |-> IF e \in finished THEN [step |-> "gone"] ELSE effects[e]]
  <2>1. PICK finished \in Batches(ExpiredEffects, [e \in ExpiredEffects |-> effects[e].at]) :
          effects' = [e \in Effects |-> IF e \in finished THEN [step |-> "gone"] ELSE effects[e]]
    BY DEF Maintain
  <2>2. finished \subseteq ExpiredEffects BY BatchIs
  <2>3. QED BY <2>1, <2>2
<1>4. stickers' \subseteq stickers BY DEF Maintain
<1>5. PICK old \in SUBSET ExpiredEntries : kept' = kept \ old
  <2>1. PICK old \in Batches(ExpiredEntries, [x \in kept |-> Sequence(x)]) : kept' = kept \ old
    BY DEF Maintain
  <2>2. old \subseteq ExpiredEntries BY BatchIs
  <2>3. QED BY <2>1, <2>2
<1>6. \A m \in Incoming :
        /\ m \in rows => /\ state[m] = "done" /\ updated[m] <= now - RetainAge
                         /\ state'[m] = "gone"
        /\ m \notin rows => state'[m] = state[m]
  BY <1>2 DEF ExpiredRows
<1>7. kept' \subseteq kept /\ \A x \in kept \ kept' : ~Pending(x) BY <1>5 DEF ExpiredEntries
<1>8. \A e \in Effects : effects'[e] # effects[e] =>
        effects[e].target \notin kept /\ effects'[e] = [step |-> "gone"]
  BY <1>3 DEF ExpiredEffects
<1>9. ClockOK' /\ WorkTypes' BY <1>1, TypesIs DEF ClockOK, WorkTypes
<1>10. RowTypes'
  <2>1. bindings' \subseteq bindings BY <1>1
  <2>2. state' \in [Incoming -> {"new", "waiting", "generating", "planned", "done", "gone"}]
    BY <1>2, TypesIs DEF RowTypes
  <2>3. QED BY <1>1, <1>4, <2>1, <2>2, TypesIs DEF RowTypes
<1>11. EntryTypes' BY <1>1, <1>7, TypesIs DEF EntryTypes
<1>12. EffectsOK' BY <1>3, TypesIs DEF EffectsOK
<1>13. RowsOK'
  <2>1. ASSUME NEW m \in Incoming, HasRow(m)' PROVE m \in bindings'
    <3>1. HasRow(m) BY <1>6, <2>1 DEF HasRow
    <3>2. m \in bindings BY <3>1 DEF RetentionInv, RowsOK
    <3>3. m \in {i \in Incoming : state'[i] \notin {"new", "gone"}} BY <2>1 DEF HasRow
    <3>4. QED BY <1>1, <3>2, <3>3 DEF Referenced
  <2>2. ASSUME NEW m \in Incoming, state'[m] = "planned" PROVE Bot(m) \in kept'
    <3>1. state[m] = "planned" BY <1>6, <2>2
    <3>2. Bot(m) \in kept /\ delivery[m] = "pending" BY <3>1 DEF RetentionInv, RowsOK
    <3>3. Pending(Bot(m)) BY <3>2, NamesDiffer DEF Pending
    <3>4. QED BY <1>7, <3>2, <3>3
  <2>3. ASSUME NEW m \in Incoming
        PROVE  /\ state'[m] = "new" => User(m) \notin ToSet(log)'
               /\ state'[m] \in {"new", "waiting", "generating"} =>
                    Bot(m) \notin ToSet(log)' /\ delivery'[m] = "none"
               /\ state'[m] = "generating" => at'[User(m)] > resetAt'
               /\ (state'[m] = "planned") <=> (delivery'[m] = "pending")
    BY <1>1, <1>6 DEF RetentionInv, RowsOK
  <2>4. QED BY <2>1, <2>2, <2>3 DEF RowsOK
<1>14. WindowOK' BY <1>1 DEF RetentionInv, WindowOK
<1>15. AgesOK'
  <2>1. ASSUME NEW x \in ToSet(log), x.of \in Incoming
        PROVE  \/ HasRow(x.of)' /\ at[x] <= updated[x.of]
               \/ state'[x.of] = "gone" /\ at[x] <= now - RetainAge
    <3>1. /\ at[x] \in Int /\ updated[x.of] \in Int /\ now \in Int /\ RetainAge \in Int
      BY <2>1, SequenceOf, RecordedIs, BoundsHold, TypesIs DEF EntryTypes, RowTypes, ClockOK
    <3>2. QED BY <1>6, <2>1, <3>1 DEF RetentionInv, AgesOK, HasRow
  <2>2. QED BY <1>1, <2>1 DEF RetentionInv, AgesOK
<1>16. MarksOK'
  <2>1. ASSUME NEW x \in kept', x \in revoked PROVE IsMessageDeleted(x)'
    <3>1. PICK e \in Effects : effects[e].step = "succeeded" /\ effects[e].kind = "delete"
                               /\ effects[e].target = x
      BY <1>7, <2>1 DEF RetentionInv, MarksOK, IsMessageDeleted
    <3>2. effects'[e] = effects[e] BY <1>7, <1>8, <2>1, <3>1
    <3>3. QED BY <3>1, <3>2 DEF IsMessageDeleted
  <2>2. \A e \in Effects : effects'[e].step \notin {"none", "gone"} => effects'[e].target \in ToSet(log)
    BY <1>8 DEF RetentionInv, MarksOK
  <2>3. QED BY <1>1, <2>1, <2>2 DEF RetentionInv, MarksOK
<1>17. MentionsOK'
  <2>1. ASSUME NEW x \in kept', x.by = "user" PROVE x.of \in bindings'
    <3>1. x \in Recorded /\ x.of \in bindings
      BY <1>7, <2>1, SequenceOf, TypesIs DEF RetentionInv, MentionsOK, EntryTypes
    <3>2. x = User(x.of) BY <2>1, <3>1, RecordedIs
    <3>3. QED BY <1>1, <2>1, <3>1, <3>2 DEF Referenced
  <2>2. ASSUME NEW x \in kept', quote[x].text = "shown", quote[x].of.by = "user"
        PROVE  quote[x].of.of \in bindings'
    <3>1. quote[x].of.of \in bindings BY <1>7, <2>2 DEF RetentionInv, MentionsOK
    <3>2. quote[x].of = User(quote[x].of.of) BY <1>7, <2>2, QuotedIs, MessageIs
    <3>3. QED BY <1>1, <2>2, <3>1, <3>2 DEF Referenced
  <2>3. QED BY <1>1, <2>1, <2>2 DEF MentionsOK
<1>18. StickersOK' BY <1>1, <1>4 DEF RetentionInv, StickersOK
<1>19. VisibleIsNew' /\ QuotedIsThere' /\ QuotesAreNew'
  <2>1. \A m \in Incoming : state[m] # "new" => state'[m] # "new" BY <1>6
  <2>2. QED BY <1>1, <1>7, <2>1, EntriesStay
<1>20. QED
  BY <1>9, <1>10, <1>11, <1>12, <1>13, <1>14, <1>15, <1>16, <1>17, <1>18, <1>19 DEF RetentionInv, TypesOK

-----------------------------------------------------------------------------
(* The invariant, and what it says.                                        *)

LEMMA RetentionStarts == RetentionInit => RetentionInv
<1> SUFFICES ASSUME RetentionInit PROVE RetentionInv OBVIOUS
<1>1. /\ now = 0 /\ resetAt = -1 /\ cutoff = 0 /\ log = <<>> /\ kept = {} /\ revoked = {}
      /\ bindings = {} /\ stickers = {} /\ turn = AtRest /\ manual = AtRest
      /\ state \in [Incoming -> {"new", "gone"}] /\ updated = [m \in Incoming |-> 0]
      /\ at \in [Messages -> {0, 1}] /\ \A x \in Recorded : at[x] = 0
      /\ quote = [x \in Recorded |-> NoQuote]
      /\ delivery \in [Incoming \union Manual -> {"none", "unsent"}]
      /\ \A m \in Incoming : delivery[m] = "none"
      /\ effects \in [Effects -> {NoEffect, [step |-> "gone"]}]
  BY DEF RetentionInit
<1>2. ToSet(log) = {} BY <1>1 DEF ToSet
<1>3. ClockOK BY <1>1, BoundsHold DEF ClockOK
<1>4. RowTypes
  <2>1. at \in [Messages -> 0 .. MaxTime]
    BY <1>1, BoundsHold
  <2>2. QED BY <1>1, <2>1, BoundsHold DEF RowTypes
<1>5. EntryTypes
  <2>1. log \in Seq(Recorded) /\ IsInjective(log) BY <1>1 DEF IsInjective
  <2>2. quote \in [Recorded -> Quotes] BY <1>1 DEF Quotes
  <2>3. QED BY <1>1, <2>1, <2>2 DEF EntryTypes
<1>6. WorkTypes BY <1>1 DEF WorkTypes
<1>7. EffectsOK BY <1>1 DEF EffectsOK
<1>8. RowsOK BY <1>1, <1>2 DEF RowsOK, HasRow
<1>9. WindowOK BY <1>1, <1>2 DEF WindowOK
<1>10. AgesOK /\ VisibleIsNew BY <1>2 DEF AgesOK, VisibleIsNew
<1>11. MarksOK BY <1>1 DEF MarksOK, NoEffect
<1>12. MentionsOK /\ QuotedIsThere /\ StickersOK /\ QuotesAreNew
  BY <1>1 DEF MentionsOK, QuotedIsThere, StickersOK, QuotesAreNew
<1>13. QED
  BY <1>3, <1>4, <1>5, <1>6, <1>7, <1>8, <1>9, <1>10, <1>11, <1>12 DEF RetentionInv, TypesOK

LEMMA RetentionStutters == ASSUME RetentionInv, UNCHANGED retentionVars PROVE RetentionInv'
<1>1. /\ UNCHANGED <<now, state, updated, at, log, kept, quote, delivery, bindings, stickers>>
      /\ UNCHANGED <<effects, cutoff, resetAt, turn, manual, revoked>>
  BY DEF retentionVars, inbox, transcript, resets
<1>2. ClockOK' /\ RowTypes' /\ EntryTypes' /\ WorkTypes' /\ EffectsOK'
  BY <1>1, TypesIs DEF ClockOK, RowTypes, EntryTypes, WorkTypes, EffectsOK
<1>3. RowsOK' /\ AgesOK' BY <1>1 DEF RetentionInv, RowsOK, AgesOK, HasRow
<1>4. WindowOK' BY <1>1 DEF RetentionInv, WindowOK
<1>5. MarksOK' BY <1>1 DEF RetentionInv, MarksOK, IsMessageDeleted
<1>6. MentionsOK' /\ StickersOK' BY <1>1 DEF RetentionInv, MentionsOK, StickersOK
<1>7. VisibleIsNew' /\ QuotedIsThere' /\ QuotesAreNew' BY <1>1, EntriesStay
<1>8. QED BY <1>2, <1>3, <1>4, <1>5, <1>6, <1>7 DEF RetentionInv, TypesOK

LEMMA RetentionGoesOn == RetentionInv /\ [RetentionNext]_retentionVars => RetentionInv'
<1> SUFFICES ASSUME RetentionInv, [RetentionNext]_retentionVars PROVE RetentionInv' OBVIOUS
<1>1. CASE Tick BY <1>1, TickStep
<1>2. ASSUME NEW m \in Incoming,
             ClaimAndResolveSender(m) \/ MarkHandled(m) \/ Generate(m) \/ SendText(m)
      PROVE  RetentionInv'
  BY <1>2, ClaimAndResolveSenderStep, MarkHandledStep, GenerateStep, SendTextStep
<1>3. CASE CommitPlan BY <1>3, CommitPlanStep
<1>4. ASSUME NEW e \in Effects, ExecuteEffect(e) \/ DeleteChatMessage(e) PROVE RetentionInv'
  BY <1>4, ExecuteEffectStep, DeleteChatMessageStep
<1>5. ASSUME NEW h \in Manual, ManualReplyContext(h) PROVE RetentionInv'
  BY <1>5, ManualReplyContextStep
<1>6. CASE SendChatMessage BY <1>6, SendChatMessageStep
<1>7. CASE RecordManualAssistantMessage BY <1>7, RecordManualAssistantMessageStep
<1>8. ASSUME NEW s \in Stickers, RecordSentSticker(s) PROVE RetentionInv' BY <1>8, RecordSentStickerStep
<1>9. CASE Reset BY <1>9, ResetStep
<1>10. CASE Maintain BY <1>10, MaintainStep
<1>11. CASE UNCHANGED retentionVars BY <1>11, RetentionStutters
<1>12. QED BY <1>1, <1>2, <1>3, <1>4, <1>5, <1>6, <1>7, <1>8, <1>9, <1>10, <1>11 DEF RetentionNext

LEMMA RetentionTypes == ASSUME RetentionInv PROVE RetentionTypeOK
<1>1. \A e \in Effects :
        \/ effects[e].step \in {"none", "gone"}
        \/ effects[e] \in [step : {"pending", "succeeded", "failed"}, kind : {"delete", "react"},
                           target : Recorded, turn : Incoming \union {"none"}, at : 0 .. MaxTime]
  BY EffectIs DEF EffectRecords
<1>2. QED BY <1>1, TypesIs DEF RetentionTypeOK, ClockOK, RowTypes, EntryTypes, WorkTypes

LEMMA KeptHolds == ASSUME RetentionInv PROVE KeptWhileNeeded
<1>1. DeletedStaysMarked
  BY DEF RetentionInv, MarksOK, DeletedStaysMarked, ListBotMessages
<1>2. PendingIsKept BY DEF RetentionInv, RowsOK, PendingIsKept, HasRow
<1>3. MentionsCanBeRead
  <2>1. ASSUME NEW x \in kept
        PROVE  /\ x.by = "user" => ContentMentions(x) # {}
               /\ quote[x].text = "shown" /\ quote[x].of.by = "user" => QuotedMentions(quote[x]) # {}
    BY DEF RetentionInv, MentionsOK, ContentMentions, QuotedMentions
  <2>2. QED BY <2>1 DEF MentionsCanBeRead, ListBotMessages
<1>4. YoungTargetsResolve
  <2>1. ASSUME NEW x \in kept, Sent(x), now - at[x] < RetainAge PROVE ResolveMessageTarget(x)
    <3>1. x \in ToSet(log) /\ x \in Recorded BY SequenceOf, TypesIs DEF EntryTypes
    <3>2. x.of \in Incoming \union Manual /\ x \in Messages BY <3>1, RecordedIs
    <3>3. CASE x.of \in Manual BY <3>3 DEF ResolveMessageTarget
    <3>4. CASE x.of \in Incoming
      <4>1. at[x] \in Int /\ now \in Int /\ RetainAge \in Int
        BY <3>2, BoundsHold, TypesIs DEF RowTypes, ClockOK
      <4>2. HasRow(x.of) BY <2>1, <3>1, <3>4, <4>1 DEF RetentionInv, AgesOK
      <4>3. QED BY <2>1, <3>4, <4>2 DEF ResolveMessageTarget
    <3>5. QED BY <3>2, <3>3, <3>4
  <2>2. QED BY <2>1 DEF YoungTargetsResolve
<1>5. QED BY <1>1, <1>2, <1>3, <1>4, RetentionTypes DEF KeptWhileNeeded

LEMMA HidesHolds == ASSUME RetentionInv PROVE ResetHidesQuotes
  BY DEF RetentionInv, QuotesAreNew, IsNew, ResetHidesQuotes

\* What is kept of a chat follows the invariant, through any maintenance, reset,
\* late claim and failed commit.
THEOREM RetentionHolds == RetentionSpec => []RetentionInv
  BY RetentionStarts, RetentionGoesOn, PTL DEF RetentionSpec

\* Whatever still leans on a row or an entry finds it: a deletion its mark, a
\* pending answer its row and entry, a shown text its mentions, a reply to a
\* young message its target.  Maintenance's five rules and clocks never conflict.
THEOREM NeededIsKept == RetentionSpec => []KeptWhileNeeded
<1>1. RetentionInv => KeptWhileNeeded BY KeptHolds
<1>2. QED BY <1>1, RetentionHolds, PTL

\* A quote shown with its text is of a message from after the latest reset.
THEOREM QuotesAreHidden == RetentionSpec => []ResetHidesQuotes
<1>1. RetentionInv => ResetHidesQuotes BY HidesHolds
<1>2. QED BY <1>1, RetentionHolds, PTL

=============================================================================

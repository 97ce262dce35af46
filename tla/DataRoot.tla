------------------------------ MODULE DataRoot ------------------------------
(***************************************************************************)
(* The data directory and the processes that share it: the application,   *)
(* which keeps the lease of its root while its stores are open, and the    *)
(* backup and restore-backup commands, which take the lease of the root    *)
(* they are configured with.  A root is None until somebody creates it.    *)
(*                                                                         *)
(* A file stands for a database or an identity file, and its version for   *)
(* its bytes and its checksum.  The file system is external: a rename is   *)
(* one step, and a backup lying on a disk may be damaged.                  *)
(***************************************************************************)
EXTENDS Integers, FiniteSets

CONSTANTS
  Procs,        \* processes
  Roots,        \* data directories
  Default,      \* DefaultDataRoot
  Destination,  \* where a backup is restored
  Files, None,
  MaxVersion,   \* bound: writes to one file
  MaxCrashes,   \* bound: processes that end without a word
  MaxFaults     \* bound: steps that fail, and damaged files

ASSUME RootsAssumption == {Default, Destination} \subseteq Roots /\ None \notin Roots \cup Procs
ASSUME BoundsAssumption == {MaxVersion, MaxCrashes, MaxFaults} \subseteq Nat

VARIABLES
  disk,     \* the files of every root
  holder,   \* the process with the lock of every root
  pointer,  \* bootstrap.json
  backup,   \* the backup in the destination parent, and its manifest
  partial,  \* Destination.partial, where a restore copies to, and whose it is
  proc,     \* what every process is doing
  crashes, faults

vars == <<disk, holder, pointer, backup, partial, proc, crashes, faults>>

Damaged == MaxVersion + 1
Contents == [Files -> 0 .. Damaged]
Partial(S) == UNION {[D -> 0 .. Damaged] : D \in SUBSET S}
Backups == [files : Contents, manifest : Contents]
Copies == [by : Procs, files : Partial(Files)]
Empty == [f \in Files |-> 0]
Idle == [step |-> "idle", root |-> None]

ASSUME NoneAssumption == None \notin Contents \cup Backups \cup Copies

Fault == faults < MaxFaults /\ faults' = faults + 1

Init ==
  /\ disk = [r \in Roots |-> None]
  /\ holder = [r \in Roots |-> None]
  /\ pointer = None /\ backup = None /\ partial = None
  /\ proc = [p \in Procs |-> Idle]
  /\ crashes = 0 /\ faults = 0

-----------------------------------------------------------------------------
(* The lease, and the end of a process, at which the system drops its locks.*)

\* A root is created by whoever names it.
CanonicalDataRoot(r) == [disk EXCEPT ![r] = IF @ = None THEN Empty ELSE @]

\* The root is created before its lock is tried, without waiting.
AcquireDataRootLease(p, r) ==
  /\ holder[r] = None
  /\ holder' = [holder EXCEPT ![r] = p]
  /\ disk' = CanonicalDataRoot(r)

Released(p) == [r \in Roots |-> IF holder[r] = p THEN None ELSE holder[r]]

Leave(p) == holder' = Released(p) /\ proc' = [proc EXCEPT ![p] = Idle]

Go(p, next) == proc' = [proc EXCEPT ![p] = next]

\* What a process left on disk stays there.
Crash(p) ==
  /\ proc[p] # Idle /\ crashes < MaxCrashes
  /\ crashes' = crashes + 1 /\ Leave(p)
  /\ UNCHANGED <<disk, pointer, backup, partial, faults>>

-----------------------------------------------------------------------------
(* The application: a host (desktop, web) or the command line.              *)

LoadBootstrap(default) == IF pointer = None THEN default ELSE pointer
EffectiveDataRoot == LoadBootstrap(Default)

\* A temporary file, renamed over the pointer.
SaveBootstrap(r) == pointer' = r

Launch(p) ==
  \E kind \in {"host", "cli"}, r \in Roots :
    /\ proc[p] = Idle /\ (kind = "host" => r = EffectiveDataRoot)
    /\ AcquireDataRootLease(p, r)
    /\ Go(p, [step |-> "opening", root |-> r, kind |-> kind])
    /\ UNCHANGED <<pointer, backup, partial, crashes, faults>>

\* Open: the stores, and the pointer, which a host writes.
Open(p) ==
  /\ proc[p].step = "opening"
  /\ Go(p, [proc[p] EXCEPT !.step = "live"])
  /\ IF proc[p].kind = "host" THEN SaveBootstrap(proc[p].root) ELSE UNCHANGED pointer
  /\ UNCHANGED <<disk, holder, backup, partial, crashes, faults>>

\* The cleanups run in reverse: the stores first, the lease last.
OpenFails(p) ==
  /\ proc[p].step = "opening" /\ Fault /\ Leave(p)
  /\ UNCHANGED <<disk, pointer, backup, partial, crashes>>

UsesStores(p) == proc[p].step \in {"live", "closing", "stuck"}

\* The agent, the session or a setting.
Write(p, f) ==
  /\ UsesStores(p) /\ disk[proc[p].root][f] < MaxVersion
  /\ disk' = [disk EXCEPT ![proc[p].root][f] = @ + 1]
  /\ UNCHANGED <<holder, pointer, backup, partial, proc, crashes, faults>>

BeginClose(p) ==
  /\ proc[p].step = "live" /\ proc[p].kind = "host"
  /\ Go(p, [proc[p] EXCEPT !.step = "closing"])
  /\ UNCHANGED <<disk, holder, pointer, backup, partial, crashes, faults>>

\* mutant: Close gives the lease up under a runtime that did not stop.
BadClose(p) ==
  /\ proc[p].step = "closing"
  /\ \/ Leave(p)
     \/ Go(p, [proc[p] EXCEPT !.step = "stuck"]) /\ holder' = Released(p)
  /\ UNCHANGED <<disk, pointer, backup, partial, crashes, faults>>

\* The runtimes stop and everything is released, or the time runs out and the
\* stores and the lease stay as they are.
Close(p) ==
  /\ proc[p].step = "closing"
  /\ Leave(p) \/ (Go(p, [proc[p] EXCEPT !.step = "stuck"]) /\ UNCHANGED holder)
  /\ UNCHANGED <<disk, pointer, backup, partial, crashes, faults>>

\* main returns: RunCLI came back, or Close timed out.
Exit(p) ==
  /\ proc[p].step = "stuck" \/ (proc[p].step = "live" /\ proc[p].kind = "cli")
  /\ Leave(p)
  /\ UNCHANGED <<disk, pointer, backup, partial, crashes, faults>>

-----------------------------------------------------------------------------
(* backup.Create, into a directory with a random name.                      *)

\* An offline command holds the lease of the root it is configured with.
RunOffline(p, r, job) ==
  /\ proc[p] = Idle
  /\ AcquireDataRootLease(p, r)
  /\ Go(p, job)

Backup(p) ==
  \E r \in Roots :
    /\ backup = None
    /\ RunOffline(p, r, [step |-> "copying", root |-> r, taken |-> <<>>])
    /\ UNCHANGED <<pointer, backup, partial, crashes, faults>>

With(copied, f, version) ==
  [g \in DOMAIN copied \cup {f} |-> IF g = f THEN version ELSE copied[g]]

CopyTree(p, f) ==
  /\ proc[p].step = "copying" /\ f \notin DOMAIN proc[p].taken
  /\ Go(p, [proc[p] EXCEPT !.taken = With(@, f, disk[proc[p].root][f])])
  /\ UNCHANGED <<disk, holder, pointer, backup, partial, crashes, faults>>

\* The manifest holds the sums of what was copied.  The first backup is the one
\* that is restored; a later one has a directory of its own.
CommitBackup(p) ==
  /\ proc[p].step = "copying" /\ DOMAIN proc[p].taken = Files
  /\ backup' = IF backup # None THEN backup
               ELSE [files |-> proc[p].taken, manifest |-> proc[p].taken]
  /\ Leave(p)
  /\ UNCHANGED <<disk, pointer, partial, crashes, faults>>

\* A file that cannot be copied: what was copied is removed.
BackupFails(p) ==
  /\ proc[p].step = "copying" /\ Fault /\ Leave(p)
  /\ UNCHANGED <<disk, pointer, backup, partial, crashes>>

\* External: the disk the backup lies on.  late is for the properties: the
\* files damaged since a restore verified them.
Damage(f) ==
  /\ backup # None /\ backup.files[f] # Damaged /\ Fault
  /\ backup' = [backup EXCEPT !.files[f] = Damaged]
  /\ proc' = [p \in Procs |->
       IF proc[p].step \in {"verified", "restoring"}
       THEN [proc[p] EXCEPT !.late = @ \cup {f}] ELSE proc[p]]
  /\ UNCHANGED <<disk, holder, pointer, partial, crashes>>

-----------------------------------------------------------------------------
(* backup.Restore.                                                          *)

\* The root of the lease need not be the one that is restored into.
Restore(p) ==
  \E r \in Roots :
    /\ backup # None
    /\ RunOffline(p, r, [step |-> "checking", root |-> r])
    /\ UNCHANGED <<pointer, backup, partial, crashes, faults>>

BadVerify == TRUE

\* Every file has the sum of the manifest, and there is no other.
Verify == backup.files = backup.manifest

VerifyBackup(p) ==
  /\ proc[p].step = "checking"
  /\ IF disk[Destination] = None /\ Verify
     THEN /\ Go(p, [step |-> "verified", root |-> proc[p].root,
                    manifest |-> backup.manifest, late |-> {}])
          /\ UNCHANGED holder
     ELSE Leave(p)
  /\ UNCHANGED <<disk, pointer, backup, partial, crashes, faults>>

\* The destination is looked at again, and Mkdir refuses a directory that is
\* there: of another restore, or left by one that died.
MakePartial(p) ==
  /\ proc[p].step = "verified"
  /\ IF disk[Destination] = None /\ partial = None
     THEN /\ Go(p, [proc[p] EXCEPT !.step = "restoring"]) /\ UNCHANGED holder
          /\ partial' = [by |-> p, files |-> <<>>]
     ELSE Leave(p) /\ UNCHANGED partial
  /\ UNCHANGED <<disk, pointer, backup, crashes, faults>>

\* The copy is not compared with the manifest.
CopyBack(p, f) ==
  /\ proc[p].step = "restoring" /\ partial # None /\ f \notin DOMAIN partial.files
  /\ partial' = [partial EXCEPT !.files = With(@, f, backup.files[f])]
  /\ UNCHANGED <<disk, holder, pointer, backup, proc, crashes, faults>>

RestoreFails(p) ==
  /\ proc[p].step = "restoring" /\ Fault
  /\ partial' = None /\ Leave(p)
  /\ UNCHANGED <<disk, pointer, backup, crashes>>

Complete(p) == proc[p].step = "restoring" /\ partial # None /\ DOMAIN partial.files = Files

\* mutant: what stands at the destination is replaced.
BadCommitRestore(p) ==
  /\ Complete(p)
  /\ disk' = [disk EXCEPT ![Destination] = partial.files]
  /\ partial' = None /\ Leave(p)
  /\ UNCHANGED <<pointer, backup, crashes, faults>>

\* Rename refuses a directory that is there by now, and the copy is removed.
CommitRestore(p) ==
  /\ Complete(p)
  /\ disk' = [disk EXCEPT ![Destination] = IF @ = None THEN partial.files ELSE @]
  /\ partial' = None /\ Leave(p)
  /\ UNCHANGED <<pointer, backup, crashes, faults>>

-----------------------------------------------------------------------------
Next ==
  \/ \E p \in Procs :
       \/ Crash(p)
       \/ Launch(p) \/ Open(p) \/ OpenFails(p) \/ BeginClose(p) \/ Close(p) \/ Exit(p)
       \/ Backup(p) \/ CommitBackup(p) \/ BackupFails(p)
       \/ Restore(p) \/ VerifyBackup(p) \/ MakePartial(p) \/ RestoreFails(p) \/ CommitRestore(p)
       \/ \E f \in Files : Write(p, f) \/ CopyTree(p, f) \/ CopyBack(p, f)
  \/ \E f \in Files : Damage(f)

Spec == Init /\ [][Next]_vars

-----------------------------------------------------------------------------
(* Properties.                                                              *)

\* Every variable stays among the values the code can give it.
TypeOK ==
  /\ disk \in [Roots -> Contents \cup {None}]
  /\ holder \in [Roots -> Procs \cup {None}]
  /\ pointer \in Roots \cup {None}
  /\ backup = None \/ backup \in Backups
  /\ partial = None \/ partial \in Copies
  /\ \A p \in Procs : proc[p] = Idle \/ proc[p].root \in Roots
  /\ crashes \in 0 .. MaxCrashes /\ faults \in 0 .. MaxFaults

\* Two processes never have the stores of one root open, and none copies a root
\* while another one is in it: not after a start that failed, a shutdown that
\* timed out, or a process that died.
StorageIsLeased ==
  \A p, q \in Procs :
    (UsesStores(p) /\ p # q /\ proc[q].root = proc[p].root) => ~ UsesStores(q)
      /\ proc[q].step \notin {"opening", "copying", "checking"}

\* A backup represents one operational point: as long as it is being made, no
\* file it has copied is written to in the root.
BackupIsOnePoint ==
  \A p \in Procs : proc[p].step = "copying" =>
    \A f \in DOMAIN proc[p].taken : disk[proc[p].root][f] = proc[p].taken[f]

\* The lease keeps the owners of a root apart, backups among them.
RootHasOneOwner == TypeOK /\ StorageIsLeased /\ BackupIsOnePoint

\* A restore never removes, or copies into, the directory another one is
\* filling, and finds its own until it is done.
PartialHasOneWriter ==
  \A p \in Procs : proc[p].step = "restoring" => partial # None /\ partial.by = p

\* A restore materializes a verified backup: a file that differs from the
\* manifest was damaged after it was verified.
RestoreIsVerified ==
  \A p \in Procs : (proc[p].step = "restoring" /\ partial # None /\ partial.by = p) =>
    \A f \in DOMAIN partial.files :
      partial.files[f] # proc[p].manifest[f] => f \in proc[p].late

\* What a restore fills is its own, and is what it verified.
RestoreIsSound == PartialHasOneWriter /\ RestoreIsVerified

\* A root that exists changes only under the process that has its stores open:
\* a restore never overwrites one that was created while it copied.
OnlyTheOwnerWrites ==
  [][\A r \in Roots : (disk[r] # None /\ disk'[r] # disk[r]) =>
       \E p \in Procs : UsesStores(p) /\ holder[r] = p /\ proc[p].root = r]_vars
=============================================================================

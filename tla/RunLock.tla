------------------------------ MODULE RunLock ------------------------------
(***************************************************************************)
(* The advisory lock of a project directory (vxd.lock): a file with the    *)
(* PID of its owner.  Reading it, deciding, truncating it and writing it   *)
(* are steps of their own, because os.WriteFile is not atomic and nothing  *)
(* ties the read to the write.  A process lives once: its name is its PID. *)
(***************************************************************************)
EXTENDS Naturals, FiniteSets

CONSTANTS Process, Nobody

ASSUME NobodyAssumption == Nobody \notin Process

VARIABLES
  lockFile,   \* what is on disk: absent, empty (truncated), or an owner
  phase,      \* [Process -> Phase]
  contended   \* history: somebody took the lock beside, or over, another

lockVars == <<lockFile, phase, contended>>

Absent == [state |-> "absent", owner |-> Nobody]
Empty  == [state |-> "empty", owner |-> Nobody]
Owned(p) == [state |-> "owned", owner |-> p]

Phase == {"new", "claiming", "writing", "unlinked", "held", "refused", "done", "dead"}
Claiming == {"claiming", "writing", "unlinked"}

ProcessAlive(p) == phase[p] \notin {"new", "refused", "done", "dead"}

LockTypeOK ==
  /\ lockFile \in {Absent, Empty} \cup {Owned(p) : p \in Process}
  /\ phase \in [Process -> Phase]
  /\ contended \in BOOLEAN

LockInit ==
  /\ lockFile = Absent
  /\ phase = [p \in Process |-> "new"]
  /\ contended = FALSE

(* Mistake: every lock is taken for a stale one.                           *)
LiveOwnerIgnored == FALSE

(* An absent file, one that does not decode, and a dead owner are all the  *)
(* same: no lock.                                                          *)
LiveOwner ==
  lockFile.state = "owned" /\ ProcessAlive(lockFile.owner)

(* AcquireLock up to its decision.                                         *)
AcquireLock(p) ==
  /\ phase[p] = "new"
  /\ phase' = [phase EXCEPT ![p] = IF LiveOwner THEN "refused" ELSE "claiming"]
  /\ contended' = (contended \/ (~LiveOwner /\ \E q \in Process : phase[q] \in Claiming))
  /\ UNCHANGED lockFile

(* ForceAcquireLock does not look.                                         *)
ForceAcquireLock(p) ==
  /\ phase[p] = "new"
  /\ phase' = [phase EXCEPT ![p] = "claiming"]
  /\ contended' = (contended \/ \E q \in Process : phase[q] \in Claiming \cup {"held"})
  /\ UNCHANGED lockFile

(* writeLockFile: open with truncation, then write.                        *)
TruncateLock(p) ==
  /\ phase[p] = "claiming"
  /\ lockFile' = Empty
  /\ phase' = [phase EXCEPT ![p] = "writing"]
  /\ UNCHANGED contended

(* Two writers that truncated before either wrote leave the later write,   *)
(* or a mix of both that does not decode.                                  *)
WriteLock(p) ==
  /\ phase[p] = "writing"
  /\ \/ lockFile' = Owned(p)
     \/ lockFile.state = "owned" /\ lockFile' = Empty
  /\ phase' = [phase EXCEPT ![p] = "held"]
  /\ UNCHANGED contended

(* The file was removed between the two: the write goes nowhere.           *)
WriteUnlinked(p) ==
  /\ phase[p] = "unlinked"
  /\ phase' = [phase EXCEPT ![p] = "held"]
  /\ UNCHANGED <<lockFile, contended>>

(* ReleaseLock removes the file, whoever owns it.                          *)
ReleaseLock(p) ==
  /\ phase[p] = "held"
  /\ lockFile' = Absent
  /\ phase' = [q \in Process |-> IF q = p THEN "done"
                                 ELSE IF phase[q] = "writing" THEN "unlinked"
                                 ELSE phase[q]]
  /\ UNCHANGED contended

(* The deferred release does not run; the file stays.                      *)
Die(p) ==
  /\ ProcessAlive(p)
  /\ phase' = [phase EXCEPT ![p] = "dead"]
  /\ UNCHANGED <<lockFile, contended>>

LockNext ==
  \E p \in Process :
    \/ AcquireLock(p) \/ ForceAcquireLock(p) \/ TruncateLock(p)
    \/ WriteLock(p) \/ WriteUnlinked(p) \/ ReleaseLock(p) \/ Die(p)

LockSpec == LockInit /\ [][LockNext]_lockVars

Holders == {p \in Process : phase[p] = "held"}

(* Two processes own the project directory at once only if one started     *)
(* while another was between its look at the lock file and its write to    *)
(* it, or was forced over a live owner.  (AcquireLock, writeLockFile,      *)
(* ReleaseLock: stale owners, torn lock files and releases by processes    *)
(* that were overridden are all covered by that one excuse.)               *)
ExclusiveUnlessContended ==
  ~contended => \A p, q \in Holders : p = q
=============================================================================

------------------------ MODULE StateDirectoryProofs ------------------------
(***************************************************************************)
(* A project directory, for any number of processes, events, log lines and *)
(* databases.  First the mutual exclusion of the run lock, by itself and   *)
(* with everything else the processes of a directory do, under the one     *)
(* excuse ExclusiveUnlessContended names; then what keeps the event log    *)
(* and the projections together (DirInv).                                  *)
(***************************************************************************)
EXTENDS StateDirectory, TLAPS

Engaged == Claiming \cup {"held"}

(* What makes the exclusion inductive: as long as nobody was beside or     *)
(* over another, one process at most is between its look at the file and   *)
(* its release; what it wrote is still there; and nobody removed the file  *)
(* under a writer.                                                         *)
OneEngaged == \A p, q \in Process : phase[p] \in Engaged /\ phase[q] \in Engaged => p = q
FileTells ==
  \A p \in Process :
    /\ phase[p] = "held" => lockFile = Owned(p)
    /\ phase[p] = "writing" => lockFile = Empty
    /\ phase[p] # "unlinked"

LockInv == LockTypeOK /\ (~contended => OneEngaged /\ FileTells)

LEMMA LockInitially == LockInit => LockInv
BY DEF LockInit, LockInv, LockTypeOK, OneEngaged, FileTells, Engaged, Claiming, Phase, Absent

(* Whoever acquires the lock unexcused found nobody engaged: a holder's    *)
(* name is in the file, and the holder is alive.                           *)
LEMMA AcquireKeeps ==
  ASSUME LockInv, NEW p \in Process, AcquireLock(p)
  PROVE LockInv'
<1>1. LockTypeOK'
  BY DEF LockInv, LockTypeOK, AcquireLock, Phase
<1>2. ASSUME ~contended' PROVE (OneEngaged /\ FileTells)'
  <2>1. OneEngaged /\ FileTells
    BY <1>2 DEF LockInv, AcquireLock, LockTypeOK
  <2>2. CASE LiveOwner
    <3>1. phase' = [phase EXCEPT ![p] = "refused"] /\ lockFile' = lockFile
      BY <2>2 DEF AcquireLock
    <3> QED
      BY <2>1, <3>1 DEF OneEngaged, FileTells, Engaged, Claiming, LockInv, LockTypeOK, Owned, Empty
  <2>3. CASE ~LiveOwner
    <3>1. phase' = [phase EXCEPT ![p] = "claiming"] /\ lockFile' = lockFile
      BY <2>3 DEF AcquireLock
    <3>2. \A q \in Process : phase[q] \notin Claiming
      BY <2>3, <1>2 DEF AcquireLock
    <3>3. \A q \in Process : phase[q] # "held"
      BY <2>1, <2>3 DEF FileTells, LiveOwner, Owned, ProcessAlive
    <3> QED
      BY <2>1, <3>1, <3>2, <3>3 DEF OneEngaged, FileTells, Engaged, Claiming, LockInv, LockTypeOK, Owned, Empty
  <2> QED BY <2>2, <2>3
<1> QED BY <1>1, <1>2 DEF LockInv

LEMMA ForceKeeps ==
  ASSUME LockInv, NEW p \in Process, ForceAcquireLock(p)
  PROVE LockInv'
<1>1. LockTypeOK'
  BY DEF LockInv, LockTypeOK, ForceAcquireLock, Phase
<1>2. ASSUME ~contended' PROVE (OneEngaged /\ FileTells)'
  <2>1. OneEngaged /\ FileTells
    BY <1>2 DEF LockInv, ForceAcquireLock, LockTypeOK
  <2>2. \A q \in Process : phase[q] \notin Engaged
    BY <1>2 DEF ForceAcquireLock, Engaged
  <2> QED
    BY <2>1, <2>2 DEF ForceAcquireLock, OneEngaged, FileTells, Engaged, Claiming, LockInv, LockTypeOK, Owned, Empty
<1> QED BY <1>1, <1>2 DEF LockInv

LEMMA TruncateKeeps ==
  ASSUME LockInv, NEW p \in Process, TruncateLock(p)
  PROVE LockInv'
<1>1. LockTypeOK'
  BY DEF LockInv, LockTypeOK, TruncateLock, Phase
<1>2. ASSUME ~contended' PROVE (OneEngaged /\ FileTells)'
  BY <1>2 DEF TruncateLock, OneEngaged, FileTells, Engaged, Claiming, LockInv, LockTypeOK
<1> QED BY <1>1, <1>2 DEF LockInv

(* The file is empty under a writer that is alone, so no mix of two        *)
(* owners can come of its write.                                           *)
LEMMA WriteKeeps ==
  ASSUME LockInv, NEW p \in Process, WriteLock(p)
  PROVE LockInv'
<1>1. LockTypeOK'
  BY DEF LockInv, LockTypeOK, WriteLock, Phase
<1>2. ASSUME ~contended' PROVE (OneEngaged /\ FileTells)'
  <2>1. OneEngaged /\ FileTells
    BY <1>2 DEF LockInv, WriteLock, LockTypeOK
  <2>2. lockFile' = Owned(p)
    BY <2>1 DEF WriteLock, FileTells, Empty
  <2> QED
    BY <2>1, <2>2 DEF WriteLock, OneEngaged, FileTells, Engaged, Claiming, LockInv, LockTypeOK
<1> QED BY <1>1, <1>2 DEF LockInv

LEMMA UnlinkedKeeps ==
  ASSUME LockInv, NEW p \in Process, WriteUnlinked(p)
  PROVE LockInv'
<1>1. LockTypeOK'
  BY DEF LockInv, LockTypeOK, WriteUnlinked, Phase
<1>2. contended'
  BY DEF LockInv, LockTypeOK, WriteUnlinked, FileTells
<1> QED BY <1>1, <1>2 DEF LockInv

LEMMA ReleaseKeeps ==
  ASSUME LockInv, NEW p \in Process, ReleaseLock(p)
  PROVE LockInv'
<1>1. LockTypeOK'
  BY DEF LockInv, LockTypeOK, ReleaseLock, Phase
<1>2. ASSUME ~contended' PROVE (OneEngaged /\ FileTells)'
  <2>1. OneEngaged /\ FileTells
    BY <1>2 DEF LockInv, ReleaseLock, LockTypeOK
  <2>2. \A q \in Process : q # p => phase[q] \notin Engaged
    BY <2>1 DEF OneEngaged, Engaged, ReleaseLock
  <2> QED
    BY <2>1, <2>2 DEF ReleaseLock, OneEngaged, FileTells, Engaged, Claiming
<1> QED BY <1>1, <1>2 DEF LockInv

(* A process that ends leaves the lock as it is.                           *)
LEMMA LeaveKeeps ==
  ASSUME LockInv, UNCHANGED <<lockFile, contended>>, phase' \in [Process -> Phase],
         \A q \in Process : phase'[q] = phase[q] \/ phase'[q] \in {"done", "dead"}
  PROVE LockInv'
<1>1. LockTypeOK'
  BY DEF LockInv, LockTypeOK
<1>2. ASSUME ~contended' PROVE (OneEngaged /\ FileTells)'
  BY <1>2 DEF OneEngaged, FileTells, Engaged, Claiming, LockInv, Owned, Empty
<1> QED BY <1>1, <1>2 DEF LockInv

LEMMA DieKeeps ==
  ASSUME LockInv, NEW p \in Process, Die(p)
  PROVE LockInv'
BY LeaveKeeps DEF Die, LockInv, LockTypeOK, Phase

LEMMA LockStepKeeps == LockInv /\ [LockNext]_lockVars => LockInv'
<1> SUFFICES ASSUME LockInv, [LockNext]_lockVars PROVE LockInv'
  OBVIOUS
<1>1. CASE LockNext
  BY <1>1, AcquireKeeps, ForceKeeps, TruncateKeeps, WriteKeeps, UnlinkedKeeps,
     ReleaseKeeps, DieKeeps DEF LockNext
<1>2. CASE UNCHANGED lockVars
  BY <1>2 DEF lockVars, LockInv, LockTypeOK, OneEngaged, FileTells
<1> QED BY <1>1, <1>2

(* Of any number of vxd processes over one project directory, two hold the *)
(* lock at once only if somebody came between another's look and write or  *)
(* was forced over it: dead owners, crashes at any step and releases need  *)
(* no further excuse.                                                      *)
THEOREM LockExcludes == LockSpec => []ExclusiveUnlessContended
<1>1. LockInv => ExclusiveUnlessContended
  BY DEF LockInv, ExclusiveUnlessContended, Holders, OneEngaged, Engaged
<1> QED
  BY <1>1, LockInitially, LockStepKeeps, PTL DEF LockSpec

(* --- in a project directory -------------------------------------------------- *)

LEMMA LockStepOfDirectory ==
  ASSUME LockInv, NEW p \in Process, LockStep(p)
  PROVE LockInv'
BY AcquireKeeps, ForceKeeps, TruncateKeeps, WriteKeeps, UnlinkedKeeps, ReleaseKeeps
DEF LockStep

LEMMA DirStepKeeps == LockInv /\ [DirNext]_dirVars => LockInv'
<1> SUFFICES ASSUME LockInv, [DirNext]_dirVars PROVE LockInv'
  OBVIOUS
<1>1. CASE UNCHANGED lockVars
  BY <1>1, LeaveKeeps DEF lockVars, LockInv, LockTypeOK
<1>2. ASSUME NEW p \in Process, Archive(p) \/ CommandEnds(p) PROVE LockInv'
  BY <1>2, LeaveKeeps DEF Archive, CommandEnds, LockInv, LockTypeOK, Phase
<1>3. ASSUME NEW p \in Process, Kill(p) PROVE LockInv'
  BY <1>3, LeaveKeeps DEF Kill, LockInv, LockTypeOK, Phase
<1>4. CASE MachineCrash
  BY <1>4, LeaveKeeps DEF MachineCrash, LockInv, LockTypeOK, Phase
<1>5. ASSUME NEW p \in Process,
             \/ LoadStores(p) \/ AppendEvent(p) \/ ShortWrite(p) \/ ProjectPending(p)
             \/ ReplayReads(p) \/ BackupProjectionDB(p) \/ OpenProjection(p)
             \/ RebuildOne(p) \/ RebuildDone(p) \/ RebuildFails(p)
      PROVE  LockInv'
  BY <1>1, <1>5 DEF LoadStores, AppendEvent, ShortWrite, ProjectPending, ReplayReads,
     BackupProjectionDB, OpenProjection, RebuildOne, RebuildDone, RebuildFails
<1>6. CASE UNCHANGED dirVars
  BY <1>1, <1>6 DEF dirVars
<1> QED BY <1>2, <1>3, <1>4, <1>5, <1>6, LockStepOfDirectory DEF DirNext

(* Resumes, replays and commands that share a project directory, with torn *)
(* logs, failed projections, kills and machine crashes: two of them hold   *)
(* the lock at once only under the excuse ExclusiveUnlessContended names.  *)
THEOREM DirectoryExcludes == DirSpec => []ExclusiveUnlessContended
<1>1. LockInv => ExclusiveUnlessContended
  BY DEF LockInv, ExclusiveUnlessContended, Holders, OneEngaged, Engaged
<1>2. DirInit => LockInv
  BY LockInitially DEF DirInit
<1> QED
  BY <1>1, <1>2, DirStepKeeps, PTL DEF DirSpec

(* --- the event log and the projections in a project directory ---------------- *)

EventType == {c[1] : c \in Candidate} \cup {"none", "torn", "corrupt", "ARCHIVE", "REQ_COMPLETED"}
EventStory == {c[2] : c \in Candidate} \cup {"none"}
EventArg == {c[3] : c \in Candidate} \cup {0}
Line == [id : Nat, type : EventType, story : EventStory, arg : EventArg]

DirTyped ==
  /\ log \in Seq(Line) /\ files \in Seq(Seq(Line))
  /\ path \in 0..Len(files) /\ half \subseteq 1..Len(files)
  /\ handle \in [Process -> 0..Len(files)]
  /\ pending \in [Process -> Line]
  /\ job \in [Process -> {"lock", "backup", "open", "rebuild", "end"}]
  /\ seen \in [Process -> Nat] /\ todo \in [Process -> Seq(Line)]
  /\ nextId \in Nat /\ nextId >= 1 /\ torn \in BOOLEAN
  /\ Len(log) <= MaxLog

Clean == \A i \in 1..Len(log) : log[i] # Torn /\ log[i] # Corrupt
Logged(e) == \E j \in 1..Len(log) : log[j] = e

(* An event has an identifier of its own.                                   *)
IdsUsed ==
  /\ \A i \in 1..Len(log) : log[i].id < nextId
  /\ \A f \in 1..Len(files) : \A i \in 1..Len(files[f]) : files[f][i].id < nextId
  /\ \A p \in Process : pending[p].id < nextId
IdsDiffer ==
  /\ \A i, j \in 1..Len(log) : i # j /\ log[i].id # 0 => log[i].id # log[j].id
  /\ \A p \in Process : pending[p] # NoEvent => pending[p].id # 0
  /\ \A p, q \in Process :
       p # q /\ pending[p] # NoEvent /\ pending[q] # NoEvent => pending[p].id # pending[q].id

(* What a replay still has to project is the end of what it read.           *)
TodoIsRead ==
  \A p \in Process :
    /\ seen[p] <= Len(log) /\ Len(todo[p]) <= seen[p]
    /\ \A i \in 1..Len(todo[p]) :
         todo[p][i] = log[seen[p] - Len(todo[p]) + i] /\ todo[p][i] # Torn

(* The log shows where it was torn for good; until it is, it has whatever   *)
(* is projected or about to be.                                             *)
TornShows ==
  /\ torn <=> ~Clean
  /\ ~torn => /\ \A p \in Process : pending[p] # NoEvent => Logged(pending[p])
              /\ \A f \in 1..Len(files) : \A i \in 1..Len(files[f]) :
                   files[f][i].type # "ARCHIVE" => Logged(files[f][i])

Replays(p) == p \in Replayer /\ job[p] \in {"backup", "open", "rebuild"}

(* Who has something to project runs and has a database open; a replay at   *)
(* work holds the lock, or was killed, and read a log that was not torn:    *)
(* if it is torn now, a line was written since.                             *)
OpenFiles ==
  /\ \A p \in Process : pending[p] # NoEvent => p \notin Replayer /\ Running(p)
  /\ \A p \in Process : p \in Resumer /\ phase[p] \in Engaged => handle[p] # 0
  /\ \A p \in Process : Replays(p) => phase[p] \in {"held", "dead"}
  /\ \A p \in Process : Replays(p) /\ phase[p] = "held" =>
       (torn => seen[p] # Len(log)) /\ (job[p] = "rebuild" => handle[p] # 0)

PartialHasBuilder ==
  path \in half => \E p \in Replayer :
    job[p] = "rebuild" /\ (phase[p] = "dead" \/ handle[p] = path)

DbDistinct ==
  \A f \in 1..Len(files) : \A i, j \in 1..Len(files[f]) :
    i # j /\ files[f][i].id # 0 => files[f][i].id # files[f][j].id

PendingIsNew ==
  \A p \in Process : pending[p] # NoEvent =>
    \A i \in 1..Len(files[handle[p]]) : files[handle[p]][i].id # pending[p].id

(* The database a replay is going to fill, or fills, has nothing in it that *)
(* the replay still has to project; no process that has it open is about to *)
(* project something the replay has read; and as long as nothing else was   *)
(* appended it holds the beginning of the log.                              *)
Building(p) ==
  /\ job[p] = "rebuild" => path = handle[p]
  /\ job[p] \in {"backup", "open"} => Len(todo[p]) = seen[p]
  /\ job[p] # "backup" /\ path # 0 =>
       /\ \A i \in 1..Len(files[path]) : \A k \in 1..Len(todo[p]) :
            files[path][i].id # 0 => files[path][i].id # todo[p][k].id
       /\ \A q \in Process : pending[q] # NoEvent /\ handle[q] = path =>
            \A k \in 1..seen[p] : log[k].id # pending[q].id
       /\ seen[p] = Len(log) =>
            /\ Len(files[path]) + Len(todo[p]) = seen[p]
            /\ \A i \in 1..Len(files[path]) : files[path][i] = log[i]

AloneBuilds ==
  ~contended =>
    /\ DbDistinct /\ PendingIsNew
    /\ \A p \in Replayer : Replays(p) /\ phase[p] = "held" => Building(p)

StoreInv ==
  /\ DirTyped /\ IdsUsed /\ IdsDiffer /\ TodoIsRead /\ TornShows
  /\ OpenFiles /\ PartialHasBuilder /\ AloneBuilds

DirInv == LockInv /\ StoreInv

LEMMA LinesTyped ==
  /\ NoEvent \in Line /\ Torn \in Line /\ Corrupt \in Line
  /\ Event(0, "ARCHIVE", "none", 0) \in Line
  /\ \A n \in Nat : Event(n, "REQ_COMPLETED", "none", 0) \in Line
  /\ \A n \in Nat, c \in Candidate : Event(n, c[1], c[2], c[3]) \in Line
<1>1. \A n \in Nat, c \in Candidate : Event(n, c[1], c[2], c[3]) \in Line
  <2> TAKE n \in Nat, c \in Candidate
  <2>1. c[1] \in EventType /\ c[2] \in EventStory /\ c[3] \in EventArg
    BY DEF EventType, EventStory, EventArg
  <2> QED BY <2>1 DEF Event, Line
<1> QED
  BY <1>1 DEF NoEvent, Torn, Corrupt, Event, Line, EventType, EventStory, EventArg

LEMMA Roles ==
  /\ Resumer \subseteq Process /\ Command \subseteq Process /\ Replayer \subseteq Process
  /\ \A p \in Process : p \notin Replayer => p \in Resumer \/ p \in Command
  /\ \A p \in Replayer : p \notin Resumer /\ p \notin Command
  /\ \A p \in Resumer : p \notin Command
  /\ MaxLog \in Nat
BY ProcessAssumption

(* FileStore.Append: one more line, or the torn one ends corrupt.           *)
LEMMA LineAppended ==
  ASSUME log \in Seq(Line), NEW e \in Line, AppendLine(e)
  PROVE  /\ log' \in Seq(Line) /\ Len(log') <= Len(log) + 1
         /\ \/ /\ Len(log') = Len(log) + 1 /\ log'[Len(log) + 1] = e
               /\ \A i \in 1..Len(log) : log'[i] = log[i]
               /\ Len(log) > 0 => log[Len(log)] # Torn
            \/ /\ Len(log') = Len(log) /\ Len(log) > 0
               /\ log[Len(log)] = Torn /\ log'[Len(log)] = Corrupt
               /\ \A i \in 1..Len(log) : i # Len(log) => log'[i] = log[i]
<1>1. CASE log # << >> /\ Last(log) = Torn
  <2>1. log' = [log EXCEPT ![Len(log)] = Corrupt]
    BY <1>1 DEF AppendLine
  <2>2. Len(log) \in 1..Len(log) /\ log[Len(log)] = Torn
    BY <1>1 DEF Last
  <2> QED BY <2>1, <2>2, LinesTyped
<1>2. CASE ~(log # << >> /\ Last(log) = Torn)
  <2>1. log' = Append(log, e)
    BY <1>2 DEF AppendLine
  <2>2. Len(log) > 0 => log[Len(log)] # Torn
    BY <1>2 DEF Last
  <2> QED BY <2>1, <2>2
<1> QED BY <1>1, <1>2

LEMMA FileAppended ==
  ASSUME NEW F \in Seq(Seq(Line)), NEW f \in 1..Len(F), NEW e \in Line, NEW G,
         G = [F EXCEPT ![f] = Append(@, e)]
  PROVE  /\ G \in Seq(Seq(Line)) /\ Len(G) = Len(F)
         /\ \A g \in 1..Len(F) : g # f => G[g] = F[g]
         /\ Len(G[f]) = Len(F[f]) + 1 /\ G[f][Len(F[f]) + 1] = e
         /\ \A i \in 1..Len(F[f]) : G[f][i] = F[f][i]
<1>1. F[f] \in Seq(Line)
  OBVIOUS
<1>2. Append(F[f], e) \in Seq(Line)
  BY <1>1
<1>3. G \in Seq(Seq(Line)) /\ Len(G) = Len(F) /\ G[f] = Append(F[f], e)
  BY <1>2
<1> QED BY <1>1, <1>3

LEMMA FileOpened ==
  ASSUME DirTyped, NEW p \in Process, OpenPath(p)
  PROVE  /\ files' \in Seq(Seq(Line)) /\ Len(files) <= Len(files')
         /\ \A f \in 1..Len(files) : files'[f] = files[f]
         /\ path' \in 1..Len(files')
         /\ handle' = [handle EXCEPT ![p] = path']
         /\ handle' \in [Process -> 0..Len(files')]
         /\ \/ path # 0 /\ path' = path /\ files' = files
            \/ /\ path = 0 /\ path' = Len(files) + 1 /\ Len(files') = Len(files) + 1
               /\ files'[path'] = << >>
<1>0. files \in Seq(Seq(Line)) /\ path \in 0..Len(files) /\ handle \in [Process -> 0..Len(files)]
  BY DEF DirTyped
<1>1. CASE path = 0
  <2>1. files' = Append(files, << >>) /\ path' = Len(files) + 1
        /\ handle' = [handle EXCEPT ![p] = Len(files) + 1]
    BY <1>1 DEF OpenPath
  <2>2. << >> \in Seq(Line)
    OBVIOUS
  <2>3. /\ files' \in Seq(Seq(Line)) /\ Len(files') = Len(files) + 1
        /\ files'[Len(files) + 1] = << >> /\ \A f \in 1..Len(files) : files'[f] = files[f]
    BY <1>0, <2>1, <2>2
  <2>4. Len(files) \in Nat
    BY <1>0
  <2>5. path' \in 1..Len(files') /\ handle' \in [Process -> 0..Len(files')]
    BY <1>0, <2>1, <2>3, <2>4
  <2>6. Len(files) <= Len(files') /\ handle' = [handle EXCEPT ![p] = path']
    BY <2>1, <2>3, <2>4
  <2> QED BY <1>1, <2>1, <2>3, <2>5, <2>6, Zenon
<1>2. CASE path # 0
  <2>1. handle' = [handle EXCEPT ![p] = path] /\ files' = files /\ path' = path
    BY <1>2 DEF OpenPath
  <2>2. path \in 1..Len(files) /\ Len(files) \in Nat
    BY <1>0, <1>2
  <2>3. handle' \in [Process -> 0..Len(files)]
    BY <1>0, <2>1
  <2>4. files' \in Seq(Seq(Line)) /\ Len(files) <= Len(files') /\ path' \in 1..Len(files')
    BY <1>0, <2>1, <2>2
  <2>5. \A f \in 1..Len(files) : files'[f] = files[f]
    BY <2>1
  <2> QED BY <1>2, <2>1, <2>3, <2>4, <2>5, Zenon
<1> QED BY <1>1, <1>2

LEMMA DirInitially == DirInit => DirInv
<1> SUFFICES ASSUME DirInit PROVE DirInv
  OBVIOUS
<1>1. DirTyped
  <2>1. << >> \in Seq(Line) /\ << >> \in Seq(Seq(Line)) /\ Len(<< >>) = 0
    OBVIOUS
  <2>2. NoEvent \in Line /\ MaxLog \in Nat
    BY LinesTyped, Roles
  <2>3. log \in Seq(Line) /\ files \in Seq(Seq(Line)) /\ Len(files) = 0 /\ Len(log) = 0
    BY <2>1 DEF DirInit
  <2>4. todo \in [Process -> Seq(Line)] /\ pending \in [Process -> Line]
    BY <2>1, <2>2 DEF DirInit
  <2>5. /\ path \in 0..0 /\ half = {} /\ handle \in [Process -> 0..0]
        /\ job \in [Process -> {"lock", "backup", "open", "rebuild", "end"}]
        /\ seen \in [Process -> Nat] /\ nextId = 1
    BY DEF DirInit
  <2>6. torn \in BOOLEAN
    BY DEF DirInit
  <2> QED BY <2>2, <2>3, <2>4, <2>5, <2>6 DEF DirTyped
<1>2. LockInv
  BY LockInitially DEF DirInit
<1>3. IdsUsed /\ IdsDiffer /\ TodoIsRead
  BY DEF DirInit, IdsUsed, IdsDiffer, TodoIsRead, NoEvent
<1>4. TornShows /\ OpenFiles /\ PartialHasBuilder
  BY DEF DirInit, TornShows, Clean, OpenFiles, PartialHasBuilder, Replays, LockInit, Engaged,
         Claiming
<1>5. AloneBuilds
  BY Roles DEF DirInit, AloneBuilds, DbDistinct, PendingIsNew, Replays
<1> QED BY <1>1, <1>2, <1>3, <1>4, <1>5 DEF DirInv, StoreInv

(* What the lock does to the phases of the processes that are at work.      *)
LEMMA LockMoves ==
  ASSUME LockInv, NEW p \in Process, LockStep(p)
  PROVE  /\ UNCHANGED storeVars /\ (contended => contended')
         /\ \A q \in Process :
              /\ phase[q] = "dead" <=> phase'[q] = "dead"
              /\ q \in Command /\ phase[q] = "new" => phase'[q] = "new"
              /\ phase[q] = "held" =>
                   \/ phase'[q] = "held"
                   \/ q = p /\ pending[p] = NoEvent /\ (p \in Replayer => job[p] = "end")
              /\ q \in Resumer /\ phase'[q] \in Engaged => phase[q] \in Engaged \/ handle[q] # 0
<1>0. phase \in [Process -> Phase] /\ contended \in BOOLEAN
  BY DEF LockInv, LockTypeOK
<1>1. CASE p \in Resumer /\ handle[p] # 0 /\ (AcquireLock(p) \/ ForceAcquireLock(p))
  <2>1. p \notin Command
    BY <1>1, Roles
  <2>2. (contended => contended') /\ phase[p] = "new"
    BY <1>0, <1>1 DEF AcquireLock, ForceAcquireLock
  <2>3. \E x \in {"refused", "claiming"} : phase' = [phase EXCEPT ![p] = x]
    BY <1>1 DEF AcquireLock, ForceAcquireLock
  <2> QED BY <1>0, <1>1, <2>1, <2>2, <2>3 DEF LockStep
<1>2. CASE p \in Replayer /\ AcquireLock(p)
  <2>1. p \notin Command /\ p \notin Resumer
    BY <1>2, Roles
  <2>2. (contended => contended') /\ phase[p] = "new"
    BY <1>0, <1>2 DEF AcquireLock
  <2>3. \E x \in {"refused", "claiming"} : phase' = [phase EXCEPT ![p] = x]
    BY <1>2 DEF AcquireLock
  <2> QED BY <1>0, <2>1, <2>2, <2>3 DEF LockStep
<1>3. CASE TruncateLock(p) \/ WriteLock(p) \/ WriteUnlinked(p)
  <2>1. /\ phase[p] \in Claiming /\ contended' = contended
        /\ \E x \in {"writing", "held"} : phase' = [phase EXCEPT ![p] = x]
    BY <1>3 DEF TruncateLock, WriteLock, WriteUnlinked, Claiming
  <2> QED BY <1>0, <2>1 DEF LockStep, Claiming, Engaged
<1>4. CASE /\ pending[p] = NoEvent /\ (p \in Replayer => job[p] = "end")
           /\ ReleaseLock(p)
  BY <1>0, <1>4 DEF ReleaseLock, LockStep, Claiming, Engaged
<1> QED BY <1>1, <1>2, <1>3, <1>4 DEF LockStep

LEMMA LockStepDir ==
  ASSUME DirInv, NEW p \in Process, LockStep(p)
  PROVE  StoreInv'
<1>0. LockInv
  BY DEF DirInv, StoreInv
<1>1. /\ UNCHANGED storeVars /\ (contended => contended')
      /\ \A q \in Process :
           /\ phase[q] = "dead" <=> phase'[q] = "dead"
           /\ q \in Command /\ phase[q] = "new" => phase'[q] = "new"
           /\ phase[q] = "held" =>
                \/ phase'[q] = "held"
                \/ q = p /\ pending[p] = NoEvent /\ (p \in Replayer => job[p] = "end")
           /\ q \in Resumer /\ phase'[q] \in Engaged => phase[q] \in Engaged \/ handle[q] # 0
  BY <1>0, LockMoves
<1>4. UNCHANGED <<log, files, path, half, handle, pending, job, seen, todo, nextId, torn>>
  BY <1>1 DEF storeVars
<1>3. DirTyped' /\ IdsUsed' /\ IdsDiffer' /\ TodoIsRead' /\ TornShows'
  <2>1. DirTyped'
    BY <1>4 DEF DirInv, StoreInv, DirTyped
  <2>2. IdsUsed' /\ IdsDiffer'
    BY <1>4 DEF DirInv, StoreInv, IdsUsed, IdsDiffer
  <2>3. TodoIsRead' /\ TornShows'
    BY <1>4 DEF DirInv, StoreInv, TodoIsRead, TornShows, Clean, Logged
  <2> QED BY <2>1, <2>2, <2>3
<1>5. OpenFiles'
  <2>1. ASSUME NEW q \in Process, pending'[q] # NoEvent
        PROVE  q \notin Replayer /\ Running(q)'
    <3>1. q \notin Replayer /\ Running(q) /\ pending[q] # NoEvent
      BY <1>4, <2>1 DEF DirInv, StoreInv, OpenFiles
    <3> QED BY <1>1, <1>4, <3>1 DEF Running
  <2>2. \A q \in Process : q \in Resumer /\ phase'[q] \in Engaged => handle'[q] # 0
    BY <1>1, <1>4 DEF DirInv, StoreInv, OpenFiles
  <2>3. ASSUME NEW q \in Process, Replays(q)
        PROVE  /\ phase'[q] \in {"held", "dead"}
               /\ phase'[q] = "held" => (torn => seen[q] # Len(log))
                                    /\ (job[q] = "rebuild" => handle[q] # 0)
    BY <1>1, <2>3 DEF DirInv, StoreInv, OpenFiles, Replays
  <2> QED BY <1>4, <2>1, <2>2, <2>3 DEF OpenFiles, Replays
<1>6. PartialHasBuilder'
  BY <1>1, <1>4, Roles DEF DirInv, StoreInv, PartialHasBuilder
<1>7. AloneBuilds'
  <2> SUFFICES ASSUME ~contended' PROVE (DbDistinct /\ PendingIsNew)'
        /\ \A q \in Replayer : Replays(q)' /\ phase'[q] = "held" => Building(q)'
    BY DEF AloneBuilds
  <2>1. ~contended
    BY <1>1
  <2>2. (DbDistinct /\ PendingIsNew)'
    BY <1>4, <2>1 DEF DirInv, StoreInv, AloneBuilds, DbDistinct, PendingIsNew
  <2>3. ASSUME NEW q \in Replayer, Replays(q)', phase'[q] = "held" PROVE Building(q)'
    <3>1. Replays(q) /\ phase[q] = "held"
      BY <1>1, <1>4, <2>3, Roles DEF Replays, DirInv, StoreInv, OpenFiles
    <3>2. Building(q)
      BY <2>1, <3>1 DEF DirInv, StoreInv, AloneBuilds
    <3> QED BY <1>4, <3>2 DEF Building
  <2> QED BY <2>2, <2>3
<1> QED BY <1>3, <1>5, <1>6, <1>7 DEF StoreInv

LEMMA LoadStoresDir ==
  ASSUME DirInv, NEW p \in Process, LoadStores(p)
  PROVE  StoreInv'
<1>1. /\ p \in Resumer \cup Command /\ p \notin Replayer /\ phase[p] = "new" /\ handle[p] = 0
      /\ UNCHANGED <<log, half, pending, job, seen, todo, nextId, torn, lockFile, phase, contended>>
  BY Roles DEF LoadStores, lockVars
<1>2. /\ files' \in Seq(Seq(Line)) /\ Len(files) <= Len(files')
      /\ \A f \in 1..Len(files) : files'[f] = files[f]
      /\ path' \in 1..Len(files')
      /\ handle' = [handle EXCEPT ![p] = path']
      /\ handle' \in [Process -> 0..Len(files')]
      /\ \/ path # 0 /\ path' = path /\ files' = files
         \/ /\ path = 0 /\ path' = Len(files) + 1 /\ Len(files') = Len(files) + 1
            /\ files'[path'] = << >>
  <2>1. OpenPath(p) /\ DirTyped
    BY DEF LoadStores, DirInv, StoreInv
  <2> QED BY <2>1, FileOpened
<1>3. /\ files \in Seq(Seq(Line)) /\ handle \in [Process -> 0..Len(files)] /\ path \in 0..Len(files)
      /\ Len(files) \in Nat /\ Len(files') \in Nat /\ half \subseteq 1..Len(files)
  BY <1>2 DEF DirInv, StoreInv, DirTyped
<1>4. pending[p] = NoEvent
  BY <1>1 DEF DirInv, StoreInv, OpenFiles, Running
<1>5. handle'[p] = path' /\ \A q \in Process : q # p => handle'[q] = handle[q]
  BY <1>2, <1>3
<1>6. DirTyped'
  BY <1>1, <1>2, <1>3 DEF DirInv, StoreInv, DirTyped
<1>8. \A f \in 1..Len(files') : f \in 1..Len(files) \/ files'[f] = << >>
  BY <1>2, <1>3
<1>9. IdsUsed' /\ IdsDiffer' /\ TodoIsRead'
  <2>1. \A f \in 1..Len(files') : \A i \in 1..Len(files'[f]) : files'[f][i].id < nextId
    BY <1>2, <1>8 DEF DirInv, StoreInv, IdsUsed
  <2>2. IdsUsed'
    BY <1>1, <2>1 DEF DirInv, StoreInv, IdsUsed
  <2>3. IdsDiffer' /\ TodoIsRead'
    BY <1>1 DEF DirInv, StoreInv, IdsDiffer, TodoIsRead
  <2> QED BY <2>2, <2>3
<1>10. TornShows'
  <2>1. Clean' = Clean /\ torn' = torn /\ \A x : Logged(x)' = Logged(x)
    BY <1>1 DEF Clean, Logged
  <2>2. ASSUME ~torn PROVE \A f \in 1..Len(files') : \A i \in 1..Len(files'[f]) :
                             files'[f][i].type # "ARCHIVE" => Logged(files'[f][i])
    <3> SUFFICES ASSUME NEW f \in 1..Len(files'), NEW i \in 1..Len(files'[f]),
                        files'[f][i].type # "ARCHIVE"
                 PROVE  Logged(files'[f][i])
      OBVIOUS
    <3>1. f \in 1..Len(files) /\ files'[f] = files[f]
      BY <1>2, <1>8
    <3> QED BY <2>2, <3>1 DEF DirInv, StoreInv, TornShows
  <2> QED BY <1>1, <2>1, <2>2 DEF DirInv, StoreInv, TornShows
<1>11. OpenFiles'
  <2>1. \A q \in Process : q # p => (Running(q) => Running(q)')
    BY <1>1, <1>5 DEF Running
  <2>2. \A q \in Process : handle[q] # 0 => handle'[q] # 0
    BY <1>1, <1>5
  <2> QED BY <1>1, <1>4, <2>1, <2>2 DEF DirInv, StoreInv, OpenFiles, Replays
<1>12. PartialHasBuilder'
  <2> SUFFICES ASSUME path' \in half'
               PROVE  \E q \in Replayer : job'[q] = "rebuild" /\ (phase'[q] = "dead" \/ handle'[q] = path')
    BY DEF PartialHasBuilder
  <2>1. path \in half /\ path' = path
    BY <1>1, <1>2, <1>3
  <2>2. PICK q \in Replayer : job[q] = "rebuild" /\ (phase[q] = "dead" \/ handle[q] = path)
    BY <2>1 DEF DirInv, StoreInv, PartialHasBuilder
  <2>3. q # p /\ q \in Process
    BY <1>1, Roles
  <2> QED BY <1>1, <1>5, <2>1, <2>2, <2>3
<1>13. AloneBuilds'
  <2> SUFFICES ASSUME ~contended PROVE (DbDistinct /\ PendingIsNew)'
        /\ \A q \in Replayer : Replays(q) /\ phase[q] = "held" => Building(q)'
    BY <1>1 DEF AloneBuilds, Replays
  <2>1. DbDistinct'
    <3> SUFFICES ASSUME NEW f \in 1..Len(files'), NEW i \in 1..Len(files'[f]),
                        NEW j \in 1..Len(files'[f]), i # j, files'[f][i].id # 0
                 PROVE  files'[f][i].id # files'[f][j].id
      BY DEF DbDistinct
    <3>1. f \in 1..Len(files) /\ files'[f] = files[f]
      BY <1>2, <1>8
    <3> QED BY <3>1 DEF DirInv, StoreInv, AloneBuilds, DbDistinct
  <2>2. PendingIsNew'
    <3> SUFFICES ASSUME NEW q \in Process, pending[q] # NoEvent
                 PROVE  \A i \in 1..Len(files'[handle'[q]]) :
                          files'[handle'[q]][i].id # pending[q].id
      BY <1>1 DEF PendingIsNew
    <3>1. handle'[q] = handle[q] /\ handle[q] # 0
      BY <1>4, <1>5, Roles DEF DirInv, StoreInv, OpenFiles, Running, Engaged
    <3>2. files'[handle'[q]] = files[handle[q]]
      BY <1>2, <1>3, <3>1
    <3> QED BY <3>2 DEF DirInv, StoreInv, AloneBuilds, PendingIsNew
  <2>3. ASSUME NEW q \in Replayer, Replays(q), phase[q] = "held" PROVE Building(q)'
    <3>1. Building(q) /\ q # p /\ q \in Process
      BY <1>1, <2>3, Roles DEF DirInv, StoreInv, AloneBuilds
    <3>2. CASE path # 0
      <4>1. path' = path /\ files' = files
        BY <1>2, <3>2
      <4>2. \A r \in Process : pending[r] # NoEvent => handle'[r] = handle[r]
        BY <1>4, <1>5
      <4>3. handle'[q] = handle[q]
        BY <1>5, <3>1
      <4>4. UNCHANGED <<log, job, seen, todo, pending, path, files>>
        BY <1>1, <4>1
      <4> QED BY <3>1, <4>2, <4>3, <4>4 DEF Building
    <3>3. CASE path = 0
      <4>1. job[q] # "rebuild"
        BY <2>3, <3>1, <3>3 DEF Building, DirInv, StoreInv, OpenFiles
      <4>2. job[q] \in {"backup", "open"} /\ Len(todo[q]) = seen[q]
        BY <2>3, <3>1, <4>1 DEF Building, Replays
      <4>3. Len(files'[path']) = 0 /\ seen[q] \in Nat
        BY <1>2, <3>1, <3>3 DEF DirInv, StoreInv, DirTyped
      <4>4. \A r \in Process : pending[r] # NoEvent => handle'[r] # path'
        BY <1>2, <1>3, <1>4, <1>5, <3>3
      <4> QED BY <1>1, <4>2, <4>3, <4>4 DEF Building
    <3> QED BY <3>2, <3>3
  <2> QED BY <2>1, <2>2, <2>3
<1> QED BY <1>6, <1>9, <1>10, <1>11, <1>12, <1>13 DEF StoreInv

LEMMA WhatWasRead ==
  ASSUME DirInv, NEW p \in Process
  PROVE  /\ seen[p] \in Nat /\ Len(todo[p]) \in Nat /\ Len(log) \in Nat
         /\ seen[p] <= Len(log) /\ Len(todo[p]) <= seen[p]
         /\ \A i \in 1..Len(todo[p]) :
              todo[p][i] = log[seen[p] - Len(todo[p]) + i] /\ todo[p][i] # Torn
<1>1. seen \in [Process -> Nat] /\ todo \in [Process -> Seq(Line)] /\ log \in Seq(Line)
  BY DEF DirInv, StoreInv, DirTyped
<1>2. seen[p] \in Nat /\ Len(todo[p]) \in Nat /\ Len(log) \in Nat
  BY <1>1
<1>3. TodoIsRead
  BY DEF DirInv, StoreInv
<1> QED BY <1>2, <1>3 DEF TodoIsRead

(* What an appended event leaves of the log, whatever else is done with it. *)
LEMMA EventLogged ==
  ASSUME DirInv, NEW e \in Line, e.id = nextId, AppendLine(e), nextId' = nextId + 1,
         UNCHANGED <<seen, todo, torn>>, Len(log) < MaxLog
  PROVE  /\ log' \in Seq(Line) /\ Len(log') <= MaxLog /\ Len(log) <= Len(log')
         /\ \A i \in 1..Len(log') : log'[i].id < nextId'
         /\ \A i, j \in 1..Len(log') : i # j /\ log'[i].id # 0 => log'[i].id # log'[j].id
         /\ TodoIsRead' /\ (torn' <=> ~Clean')
         /\ \A i \in 1..Len(log) : i # Len(log) => log'[i] = log[i]
         /\ ~torn => /\ Len(log') = Len(log) + 1
                     /\ \A i \in 1..Len(log) : log'[i] = log[i]
                     /\ log'[Len(log) + 1] = e
<1>0. /\ log \in Seq(Line) /\ Len(log) \in Nat /\ nextId \in Nat /\ nextId >= 1 /\ MaxLog \in Nat
      /\ torn <=> ~Clean
      /\ \A i \in 1..Len(log) : log[i].id < nextId /\ log[i] \in Line
      /\ \A i, j \in 1..Len(log) : i # j /\ log[i].id # 0 => log[i].id # log[j].id
  BY Roles DEF DirInv, StoreInv, DirTyped, TornShows, IdsUsed, IdsDiffer
<1>7. /\ \A i \in 1..Len(log) : log[i].id \in Nat
      /\ nextId' \in Nat /\ nextId' > nextId
  <2>1. \A i \in 1..Len(log) : log[i].id \in Nat
    BY <1>0 DEF Line
  <2> QED BY <1>0, <2>1
<1>1. Torn.id = 0 /\ Corrupt.id = 0 /\ e # Torn /\ e # Corrupt /\ Corrupt # Torn
  BY <1>0 DEF Torn, Corrupt
<1>2. /\ log' \in Seq(Line) /\ Len(log') <= Len(log) + 1
      /\ \/ /\ Len(log') = Len(log) + 1 /\ log'[Len(log) + 1] = e
            /\ \A i \in 1..Len(log) : log'[i] = log[i]
            /\ Len(log) > 0 => log[Len(log)] # Torn
         \/ /\ Len(log') = Len(log) /\ Len(log) > 0
            /\ log[Len(log)] = Torn /\ log'[Len(log)] = Corrupt
            /\ \A i \in 1..Len(log) : i # Len(log) => log'[i] = log[i]
  BY <1>0, LineAppended
<1>3. CASE /\ Len(log') = Len(log) + 1 /\ log'[Len(log) + 1] = e
           /\ \A i \in 1..Len(log) : log'[i] = log[i]
  <2>1. \A i \in 1..Len(log') : i \in 1..Len(log) \/ i = Len(log) + 1
    BY <1>0, <1>3
  <2>2. \A i \in 1..Len(log') : log'[i].id < nextId'
    <3> TAKE i \in 1..Len(log')
    <3>1. CASE i \in 1..Len(log)
      BY <1>0, <1>3, <1>7, <3>1
    <3>2. CASE i = Len(log) + 1
      BY <1>0, <1>3, <1>7, <3>2
    <3> QED BY <2>1, <3>1, <3>2
  <2>3. \A i, j \in 1..Len(log') : i # j /\ log'[i].id # 0 => log'[i].id # log'[j].id
    BY <1>0, <1>3, <2>1
  <2>4. TodoIsRead'
    <3> SUFFICES ASSUME NEW p \in Process
                 PROVE  /\ seen[p] <= Len(log') /\ Len(todo[p]) <= seen[p]
                        /\ \A i \in 1..Len(todo[p]) :
                             todo[p][i] = log'[seen[p] - Len(todo[p]) + i] /\ todo[p][i] # Torn
      BY DEF TodoIsRead
    <3>1. /\ seen[p] \in Nat /\ Len(todo[p]) \in Nat /\ seen[p] <= Len(log)
          /\ Len(todo[p]) <= seen[p]
          /\ \A i \in 1..Len(todo[p]) :
               todo[p][i] = log[seen[p] - Len(todo[p]) + i] /\ todo[p][i] # Torn
      BY WhatWasRead
    <3>2. \A i \in 1..Len(todo[p]) : seen[p] - Len(todo[p]) + i \in 1..Len(log)
      BY <1>0, <3>1
    <3>3. \A i \in 1..Len(todo[p]) :
            log'[seen[p] - Len(todo[p]) + i] = log[seen[p] - Len(todo[p]) + i]
      BY <1>3, <3>2
    <3> QED BY <1>0, <1>3, <3>1, <3>3
  <2>5. torn' <=> ~Clean'
    BY <1>0, <1>1, <1>3, <2>1 DEF Clean
  <2> QED BY <1>0, <1>2, <1>3, <2>2, <2>3, <2>4, <2>5
<1>4. CASE /\ Len(log') = Len(log) /\ Len(log) > 0
           /\ log[Len(log)] = Torn /\ log'[Len(log)] = Corrupt
           /\ \A i \in 1..Len(log) : i # Len(log) => log'[i] = log[i]
  <2>1. Len(log) \in 1..Len(log)
    BY <1>0, <1>4
  <2>2. \A i \in 1..Len(log') : log'[i].id < nextId'
    <3> TAKE i \in 1..Len(log')
    <3>1. CASE i # Len(log)
      BY <1>0, <1>4, <1>7, <3>1
    <3>2. CASE i = Len(log)
      BY <1>0, <1>1, <1>4, <1>7, <3>2
    <3> QED BY <3>1, <3>2
  <2>3. \A i, j \in 1..Len(log') : i # j /\ log'[i].id # 0 => log'[i].id # log'[j].id
    BY <1>0, <1>1, <1>4
  <2>4. TodoIsRead'
    <3> SUFFICES ASSUME NEW p \in Process
                 PROVE  /\ seen[p] <= Len(log') /\ Len(todo[p]) <= seen[p]
                        /\ \A i \in 1..Len(todo[p]) :
                             todo[p][i] = log'[seen[p] - Len(todo[p]) + i] /\ todo[p][i] # Torn
      BY DEF TodoIsRead
    <3>1. /\ seen[p] \in Nat /\ Len(todo[p]) \in Nat /\ seen[p] <= Len(log)
          /\ Len(todo[p]) <= seen[p]
          /\ \A i \in 1..Len(todo[p]) :
               todo[p][i] = log[seen[p] - Len(todo[p]) + i] /\ todo[p][i] # Torn
      BY WhatWasRead
    <3>2. \A i \in 1..Len(todo[p]) :
            seen[p] - Len(todo[p]) + i \in 1..Len(log) /\ seen[p] - Len(todo[p]) + i # Len(log)
      <4> SUFFICES ASSUME NEW i \in 1..Len(todo[p])
                   PROVE  /\ seen[p] - Len(todo[p]) + i \in 1..Len(log)
                          /\ seen[p] - Len(todo[p]) + i # Len(log)
        OBVIOUS
      <4>1. seen[p] - Len(todo[p]) + i \in 1..Len(log)
        BY <1>0, <3>1
      <4>2. log[seen[p] - Len(todo[p]) + i] # Torn
        BY <3>1
      <4> QED BY <1>4, <4>1, <4>2
    <3>3. \A i \in 1..Len(todo[p]) :
            log'[seen[p] - Len(todo[p]) + i] = log[seen[p] - Len(todo[p]) + i]
      BY <1>4, <3>2
    <3> QED BY <1>4, <3>1, <3>3
  <2>5. ~Clean /\ ~Clean'
    BY <1>4, <2>1 DEF Clean
  <2> QED BY <1>0, <1>2, <1>4, <2>2, <2>3, <2>4, <2>5
<1> QED BY <1>2, <1>3, <1>4

LEMMA IdsAreNumbers ==
  ASSUME DirTyped
  PROVE  /\ \A i \in 1..Len(log) : log[i].id \in Nat
         /\ \A f \in 1..Len(files) : \A i \in 1..Len(files[f]) : files[f][i].id \in Nat
         /\ \A p \in Process : pending[p].id \in Nat
<1>1. \A i \in 1..Len(log) : log[i] \in Line
  BY DEF DirTyped
<1>2. ASSUME NEW f \in 1..Len(files) PROVE files[f] \in Seq(Line)
  BY DEF DirTyped
<1>3. \A f \in 1..Len(files) : \A i \in 1..Len(files[f]) : files[f][i] \in Line
  BY <1>2
<1>4. \A p \in Process : pending[p] \in Line
  BY DEF DirTyped
<1> QED BY <1>1, <1>3, <1>4 DEF Line

(* A replay at work: what it was told holds whatever the others do, if its  *)
(* lines are still there and its database is left alone.                    *)
LEMMA StillBuilding ==
  ASSUME DirInv, NEW q \in Replayer, Building(q), Replays(q), phase[q] = "held",
         job'[q] = job[q], seen'[q] = seen[q], todo'[q] = todo[q], path' = path,
         handle'[q] = handle[q],
         seen[q] # Len(log'), \A i \in 1..seen[q] : log'[i] = log[i],
         \A i \in 1..Len(log) : log[i].id < nextId,
         \A r \in Process : pending'[r] = NoEvent \/ pending'[r].id >= nextId
                            \/ (pending'[r] = pending[r] /\ handle'[r] = handle[r]),
         path # 0 => \A i \in 1..Len(files'[path]) :
           files'[path][i].id = 0
           \/ (i \in 1..Len(files[path]) /\ files'[path][i] = files[path][i])
  PROVE  Building(q)'
<1>1. q \in Process /\ seen[q] \in Nat /\ seen[q] <= Len(log) /\ Len(log) \in Nat
  <2>1. q \in Process
    BY Roles
  <2> QED BY <2>1 DEF DirInv, StoreInv, DirTyped, TodoIsRead
<1>3. job[q] # "backup" /\ path # 0 =>
        /\ \A i \in 1..Len(files[path]) : \A k \in 1..Len(todo[q]) :
             files[path][i].id # 0 => files[path][i].id # todo[q][k].id
        /\ \A r \in Process : pending[r] # NoEvent /\ handle[r] = path =>
             \A k \in 1..seen[q] : log[k].id # pending[r].id
  BY DEF Building
<1>4. job[q] = "rebuild" => path = handle[q]
  BY DEF Building
<1>5. job[q] \in {"backup", "open"} => Len(todo[q]) = seen[q]
  BY DEF Building
<1>2. ASSUME job[q] # "backup", path # 0
      PROVE  /\ \A i \in 1..Len(files'[path]) : \A k \in 1..Len(todo[q]) :
                  files'[path][i].id # 0 => files'[path][i].id # todo[q][k].id
             /\ \A r \in Process : pending'[r] # NoEvent /\ handle'[r] = path =>
                  \A k \in 1..seen[q] : log'[k].id # pending'[r].id
  <2>1. \A i \in 1..Len(files'[path]) : \A k \in 1..Len(todo[q]) :
          files'[path][i].id # 0 => files'[path][i].id # todo[q][k].id
    <3> SUFFICES ASSUME NEW i \in 1..Len(files'[path]), NEW k \in 1..Len(todo[q]),
                        files'[path][i].id # 0
                 PROVE  files'[path][i].id # todo[q][k].id
      OBVIOUS
    <3>1. i \in 1..Len(files[path]) /\ files'[path][i] = files[path][i]
      BY <1>2
    <3> QED BY <1>2, <1>3, <3>1
  <2>2. ASSUME NEW r \in Process, pending'[r] # NoEvent, handle'[r] = path, NEW k \in 1..seen[q]
        PROVE  log'[k].id # pending'[r].id
    <3>1. k \in 1..Len(log) /\ log'[k] = log[k]
      BY <1>1
    <3>2. CASE pending'[r].id >= nextId
      <4>1. log[k].id < nextId
        BY <3>1
      <4>2. log[k].id \in Nat /\ nextId \in Nat
        BY <3>1, IdsAreNumbers DEF DirInv, StoreInv, DirTyped
      <4> QED BY <3>1, <3>2, <4>1, <4>2
    <3>3. CASE pending'[r] = pending[r] /\ handle'[r] = handle[r]
      BY <1>2, <1>3, <2>2, <3>1, <3>3
    <3> QED BY <2>2, <3>2, <3>3
  <2> QED BY <2>1, <2>2
<1>6. job'[q] = "rebuild" => path' = handle'[q]
  BY <1>4
<1>7. job'[q] \in {"backup", "open"} => Len(todo'[q]) = seen'[q]
  BY <1>5
<1>8. job'[q] # "backup" /\ path' # 0 =>
        /\ \A i \in 1..Len(files'[path']) : \A k \in 1..Len(todo'[q]) :
             files'[path'][i].id # 0 => files'[path'][i].id # todo'[q][k].id
        /\ \A r \in Process : pending'[r] # NoEvent /\ handle'[r] = path' =>
             \A k \in 1..seen'[q] : log'[k].id # pending'[r].id
  BY <1>2
<1>9. seen'[q] # Len(log')
  OBVIOUS
<1> QED BY <1>6, <1>7, <1>8, <1>9, Zenon DEF Building

(* What a replay has read stays as it is when the log grows, or when a torn *)
(* line, which it has not read, becomes a corrupt one; and it has not read  *)
(* the whole log any more.                                                  *)
LEMMA ReadUntouched ==
  ASSUME DirInv, NEW q \in Process, torn => seen[q] # Len(log),
         Len(log) <= Len(log'), Len(log') \in Nat,
         \A i \in 1..Len(log) : i # Len(log) => log'[i] = log[i],
         ~torn => Len(log') = Len(log) + 1 /\ \A i \in 1..Len(log) : log'[i] = log[i]
  PROVE  seen[q] # Len(log') /\ \A i \in 1..seen[q] : log'[i] = log[i]
<1>1. seen[q] \in Nat /\ Len(log) \in Nat /\ seen[q] <= Len(log)
  BY DEF DirInv, StoreInv, DirTyped, TodoIsRead
<1>2. CASE torn
  BY <1>1, <1>2
<1>3. CASE ~torn
  BY <1>1, <1>3
<1> QED BY <1>2, <1>3

LEMMA AppendDir ==
  ASSUME DirInv, NEW p \in Process, AppendEvent(p)
  PROVE  StoreInv'
<1>1. /\ Running(p) /\ p \notin Replayer /\ pending[p] = NoEvent /\ Len(log) < MaxLog
      /\ nextId' = nextId + 1 /\ phase' = phase /\ contended' = contended
      /\ UNCHANGED <<files, path, half, handle, job, seen, todo, torn>>
  BY DEF AppendEvent, lockVars
<1>0. /\ pending \in [Process -> Line] /\ handle \in [Process -> 0..Len(files)]
      /\ nextId \in Nat /\ nextId >= 1 /\ files \in Seq(Seq(Line)) /\ log \in Seq(Line)
  BY DEF DirInv, StoreInv, DirTyped
<1>2. PICK c \in Candidate, synced \in BOOLEAN :
        /\ AppendLine(Event(nextId, c[1], c[2], c[3]))
        /\ pending' = [pending EXCEPT ![p] =
                         IF synced THEN Event(nextId, c[1], c[2], c[3]) ELSE NoEvent]
  BY DEF AppendEvent
<1> DEFINE e == Event(nextId, c[1], c[2], c[3])
<1>3. e \in Line /\ e.id = nextId /\ e # NoEvent
  <2>1. e \in Line
    BY <1>0, LinesTyped
  <2>2. e.id = nextId
    BY DEF Event
  <2> QED BY <1>0, <2>1, <2>2 DEF NoEvent
<1>4. AppendLine(e) /\ (pending'[p] = e \/ pending'[p] = NoEvent)
      /\ pending' \in [Process -> Line] /\ \A q \in Process : q # p => pending'[q] = pending[q]
  BY <1>0, <1>2, <1>3, LinesTyped
<1> HIDE DEF e
<1>5. /\ log' \in Seq(Line) /\ Len(log') <= MaxLog /\ Len(log) <= Len(log')
      /\ \A i \in 1..Len(log') : log'[i].id < nextId'
      /\ \A i, j \in 1..Len(log') : i # j /\ log'[i].id # 0 => log'[i].id # log'[j].id
      /\ TodoIsRead' /\ (torn' <=> ~Clean')
      /\ \A i \in 1..Len(log) : i # Len(log) => log'[i] = log[i]
      /\ ~torn => /\ Len(log') = Len(log) + 1
                  /\ \A i \in 1..Len(log) : log'[i] = log[i]
                  /\ log'[Len(log) + 1] = e
  BY <1>1, <1>3, <1>4, EventLogged
<1>6. DirTyped'
  BY <1>0, <1>1, <1>4, <1>5 DEF DirInv, StoreInv, DirTyped
<1>7. \A q \in Process : pending[q].id < nextId /\ pending[q].id \in Nat
  BY <1>0 DEF DirInv, StoreInv, IdsUsed, Line
<1>8. IdsUsed'
  <2>1. \A f \in 1..Len(files) : \A i \in 1..Len(files[f]) : files[f][i].id < nextId'
    <3> SUFFICES ASSUME NEW f \in 1..Len(files), NEW i \in 1..Len(files[f])
                 PROVE  files[f][i].id < nextId'
      OBVIOUS
    <3>2. files[f][i].id \in Nat /\ files[f][i].id < nextId
      BY IdsAreNumbers DEF DirInv, StoreInv, IdsUsed
    <3> QED BY <1>0, <1>1, <3>2
  <2>2. \A q \in Process : pending'[q].id < nextId'
    BY <1>0, <1>1, <1>3, <1>4, <1>7 DEF NoEvent
  <2> QED BY <1>1, <1>5, <2>1, <2>2 DEF IdsUsed
<1>9. IdsDiffer'
  <2>1. \A q \in Process : pending'[q] # NoEvent => pending'[q].id # 0
    <3> TAKE q \in Process
    <3>1. CASE q = p
      BY <1>0, <1>3, <1>4, <3>1
    <3>2. CASE q # p
      BY <1>4, <3>2 DEF DirInv, StoreInv, IdsDiffer
    <3> QED BY <3>1, <3>2
  <2>2. ASSUME NEW q \in Process, NEW r \in Process, q # r,
               pending'[q] # NoEvent, pending'[r] # NoEvent
        PROVE  pending'[q].id # pending'[r].id
    <3>1. CASE q = p
      BY <1>0, <1>3, <1>4, <1>7, <2>2, <3>1
    <3>2. CASE r = p
      BY <1>0, <1>3, <1>4, <1>7, <2>2, <3>2
    <3>3. CASE q # p /\ r # p
      BY <1>4, <2>2, <3>3 DEF DirInv, StoreInv, IdsDiffer
    <3> QED BY <3>1, <3>2, <3>3
  <2> QED BY <1>5, <2>1, <2>2 DEF IdsDiffer
<1>10. TornShows'
  <2> SUFFICES ASSUME ~torn
               PROVE  /\ \A q \in Process : pending'[q] # NoEvent =>
                           \E j \in 1..Len(log') : log'[j] = pending'[q]
                      /\ \A f \in 1..Len(files) : \A i \in 1..Len(files[f]) :
                           files[f][i].type # "ARCHIVE" =>
                             \E j \in 1..Len(log') : log'[j] = files[f][i]
    BY <1>1, <1>5 DEF TornShows, Logged
  <2>0. ASSUME NEW x, Logged(x) PROVE \E j \in 1..Len(log') : log'[j] = x
    <3>1. PICK j \in 1..Len(log) : log[j] = x
      BY <2>0 DEF Logged
    <3>2. j \in 1..Len(log') /\ log'[j] = x
      BY <1>0, <1>5, <3>1
    <3> QED BY <3>2
  <2>1. ASSUME NEW q \in Process, pending'[q] # NoEvent
        PROVE  \E j \in 1..Len(log') : log'[j] = pending'[q]
    <3>1. CASE q = p
      <4>1. pending'[q] = e
        BY <1>4, <2>1, <3>1
      <4>2. Len(log) + 1 \in 1..Len(log') /\ log'[Len(log) + 1] = e
        BY <1>0, <1>5
      <4> QED BY <4>1, <4>2
    <3>2. CASE q # p
      <4>1. Logged(pending[q]) /\ pending'[q] = pending[q]
        BY <1>4, <2>1, <3>2 DEF DirInv, StoreInv, TornShows
      <4> QED BY <2>0, <4>1
    <3> QED BY <3>1, <3>2
  <2>2. ASSUME NEW f \in 1..Len(files), NEW i \in 1..Len(files[f]), files[f][i].type # "ARCHIVE"
        PROVE  \E j \in 1..Len(log') : log'[j] = files[f][i]
    <3>1. Logged(files[f][i])
      BY <2>2 DEF DirInv, StoreInv, TornShows
    <3> QED BY <2>0, <3>1
  <2> QED BY <2>1, <2>2
<1>11. OpenFiles'
  <2>1. \A q \in Process : Running(q)' = Running(q) /\ Replays(q)' = Replays(q)
    BY <1>1 DEF Running, Replays
  <2>2. \A q \in Process : (torn => seen[q] # Len(log)) => (torn => seen[q] # Len(log'))
    BY <1>5, ReadUntouched
  <2>3. \A q \in Process : pending'[q] # NoEvent => q \notin Replayer /\ Running(q)
    BY <1>1, <1>4 DEF DirInv, StoreInv, OpenFiles
  <2> QED BY <1>1, <2>1, <2>2, <2>3 DEF DirInv, StoreInv, OpenFiles
<1>12. PartialHasBuilder'
  BY <1>1 DEF DirInv, StoreInv, PartialHasBuilder
<1>13. AloneBuilds'
  <2> SUFFICES ASSUME ~contended PROVE (DbDistinct /\ PendingIsNew)'
        /\ \A q \in Replayer : Replays(q) /\ phase[q] = "held" => Building(q)'
    BY <1>1 DEF AloneBuilds, Replays
  <2>1. DbDistinct'
    BY <1>1 DEF DirInv, StoreInv, AloneBuilds, DbDistinct
  <2>2. PendingIsNew'
    <3> SUFFICES ASSUME NEW q \in Process, pending'[q] # NoEvent,
                        NEW i \in 1..Len(files[handle[q]])
                 PROVE  files[handle[q]][i].id # pending'[q].id
      BY <1>1 DEF PendingIsNew
    <3>1. CASE q # p
      BY <1>4, <3>1 DEF DirInv, StoreInv, AloneBuilds, PendingIsNew
    <3>2. CASE q = p
      <4>1. pending'[q].id = nextId
        BY <1>3, <1>4, <3>2
      <4>2. handle[p] \in 1..Len(files)
        <5>1. handle[p] # 0
          BY <1>1, Roles DEF Running, DirInv, StoreInv, OpenFiles, Engaged
        <5> QED BY <1>0, <5>1
      <4>4. files[handle[p]][i].id < nextId /\ files[handle[p]][i].id \in Nat
        BY <3>2, <4>2, IdsAreNumbers DEF DirInv, StoreInv, IdsUsed
      <4> QED BY <1>0, <3>2, <4>1, <4>4
    <3> QED BY <3>1, <3>2
  <2>3. ASSUME NEW q \in Replayer, Replays(q), phase[q] = "held" PROVE Building(q)'
    <3>1. q \in Process /\ Building(q) /\ (torn => seen[q] # Len(log))
      BY <2>3, Roles DEF DirInv, StoreInv, AloneBuilds, OpenFiles
    <3>2. seen[q] # Len(log') /\ \A i \in 1..seen[q] : log'[i] = log[i]
      BY <1>5, <3>1, ReadUntouched
    <3>3. \A i \in 1..Len(log) : log[i].id < nextId
      BY DEF DirInv, StoreInv, IdsUsed
    <3>4. \A r \in Process : pending'[r] = NoEvent \/ pending'[r].id >= nextId
                            \/ (pending'[r] = pending[r] /\ handle'[r] = handle[r])
      BY <1>0, <1>1, <1>3, <1>4
    <3>5. path # 0 => \A i \in 1..Len(files'[path]) :
            i \in 1..Len(files[path]) /\ files'[path][i] = files[path][i]
      BY <1>1
    <3> QED BY <1>1, <2>3, <3>1, <3>2, <3>3, <3>4, <3>5, StillBuilding
  <2> QED BY <2>1, <2>2, <2>3
<1> QED BY <1>5, <1>6, <1>8, <1>9, <1>10, <1>11, <1>12, <1>13 DEF StoreInv

(* A database after one more event: what it had, and the event.             *)
LEMMA DatabaseGrew ==
  ASSUME DirTyped, NEW h \in 1..Len(files), NEW e \in Line,
         files' = [files EXCEPT ![h] = Append(@, e)]
  PROVE  /\ files' \in Seq(Seq(Line)) /\ Len(files') = Len(files)
         /\ \A f \in 1..Len(files) : f # h => files'[f] = files[f]
         /\ \A f \in 1..Len(files) : \A i \in 1..Len(files'[f]) :
              \/ i \in 1..Len(files[f]) /\ files'[f][i] = files[f][i]
              \/ f = h /\ i = Len(files[h]) + 1 /\ files'[f][i] = e
         /\ Len(files'[h]) = Len(files[h]) + 1
<1>1. files \in Seq(Seq(Line))
  BY DEF DirTyped
<1>2. /\ files' \in Seq(Seq(Line)) /\ Len(files') = Len(files)
      /\ \A g \in 1..Len(files) : g # h => files'[g] = files[g]
      /\ Len(files'[h]) = Len(files[h]) + 1 /\ files'[h][Len(files[h]) + 1] = e
      /\ \A i \in 1..Len(files[h]) : files'[h][i] = files[h][i]
  BY <1>1, FileAppended
<1>3. files[h] \in Seq(Line) /\ Len(files[h]) \in Nat
  BY <1>1
<1>4. ASSUME NEW f \in 1..Len(files), NEW i \in 1..Len(files'[f])
      PROVE  \/ i \in 1..Len(files[f]) /\ files'[f][i] = files[f][i]
             \/ f = h /\ i = Len(files[h]) + 1 /\ files'[f][i] = e
  <2>1. CASE f # h
    BY <1>2, <1>4, <2>1
  <2>2. CASE f = h
    BY <1>2, <1>3, <1>4, <2>2
  <2> QED BY <2>1, <2>2
<1> QED BY <1>2, <1>4

(* In the database, the event is like the others; that it differs from them *)
(* makes the database free of duplicates.                                   *)
LEMMA GrewKeeps ==
  ASSUME DirInv, NEW h \in 1..Len(files), NEW e \in Line, e.id < nextId, nextId' >= nextId,
         nextId' \in Nat,
         files' = [files EXCEPT ![h] = Append(@, e)]
  PROVE  /\ \A f \in 1..Len(files') : \A i \in 1..Len(files'[f]) : files'[f][i].id < nextId'
         /\ DbDistinct /\ (e.id # 0 => \A i \in 1..Len(files[h]) : files[h][i].id # e.id)
              => DbDistinct'
         /\ ~torn /\ (e.type # "ARCHIVE" => Logged(e)) =>
              \A f \in 1..Len(files') : \A i \in 1..Len(files'[f]) :
                files'[f][i].type # "ARCHIVE" => Logged(files'[f][i])
<1>1. /\ Len(files') = Len(files)
      /\ \A f \in 1..Len(files) : f # h => files'[f] = files[f]
      /\ \A f \in 1..Len(files) : \A i \in 1..Len(files'[f]) :
              \/ i \in 1..Len(files[f]) /\ files'[f][i] = files[f][i]
              \/ f = h /\ i = Len(files[h]) + 1 /\ files'[f][i] = e
  BY DatabaseGrew DEF DirInv, StoreInv
<1>2. ASSUME NEW f \in 1..Len(files'), NEW i \in 1..Len(files'[f])
      PROVE  files'[f][i].id < nextId'
  <2>1. CASE files'[f][i] = e
    <3>1. e.id \in Nat /\ nextId \in Nat
      BY DEF DirInv, StoreInv, DirTyped, Line
    <3> QED BY <2>1, <3>1
  <2>2. CASE i \in 1..Len(files[f]) /\ files'[f][i] = files[f][i]
    <3>1. files[f][i].id < nextId /\ files[f][i].id \in Nat /\ nextId \in Nat
      BY <1>1, <2>2, IdsAreNumbers DEF DirInv, StoreInv, IdsUsed, DirTyped
    <3> QED BY <2>2, <3>1
  <2> QED BY <1>1, <1>2, <2>1, <2>2
<1>3. ASSUME DbDistinct, e.id # 0 => \A i \in 1..Len(files[h]) : files[h][i].id # e.id
      PROVE  DbDistinct'
  <2> SUFFICES ASSUME NEW f \in 1..Len(files'), NEW i \in 1..Len(files'[f]),
                      NEW j \in 1..Len(files'[f]), i # j, files'[f][i].id # 0
               PROVE  files'[f][i].id # files'[f][j].id
    BY DEF DbDistinct
  <2>1. CASE i \in 1..Len(files[f]) /\ files'[f][i] = files[f][i]
             /\ j \in 1..Len(files[f]) /\ files'[f][j] = files[f][j]
    BY <1>1, <1>3, <2>1 DEF DbDistinct
  <2>2. CASE f = h /\ i = Len(files[h]) + 1 /\ files'[f][i] = e
             /\ j \in 1..Len(files[f]) /\ files'[f][j] = files[f][j]
    BY <1>3, <2>2
  <2>3. CASE f = h /\ j = Len(files[h]) + 1 /\ files'[f][j] = e
             /\ i \in 1..Len(files[f]) /\ files'[f][i] = files[f][i]
    BY <1>3, <2>3
  <2> QED BY <1>1, <2>1, <2>2, <2>3
<1>4. ASSUME ~torn, e.type # "ARCHIVE" => Logged(e),
             NEW f \in 1..Len(files'), NEW i \in 1..Len(files'[f]),
             files'[f][i].type # "ARCHIVE"
      PROVE  Logged(files'[f][i])
  <2>1. CASE files'[f][i] = e
    BY <1>4, <2>1
  <2>2. CASE i \in 1..Len(files[f]) /\ files'[f][i] = files[f][i]
    BY <1>1, <1>4, <2>2 DEF DirInv, StoreInv, TornShows
  <2> QED BY <1>1, <1>4, <2>1, <2>2
<1> QED BY <1>2, <1>3, <1>4

LEMMA PendingHasDatabase ==
  ASSUME DirInv, NEW p \in Process, pending[p] # NoEvent
  PROVE  handle[p] \in 1..Len(files)
<1>1. p \notin Replayer /\ Running(p)
  BY DEF DirInv, StoreInv, OpenFiles
<1>2. handle[p] # 0
  BY <1>1, Roles DEF Running, DirInv, StoreInv, OpenFiles, Engaged
<1>3. handle[p] \in 0..Len(files) /\ Len(files) \in Nat
  BY DEF DirInv, StoreInv, DirTyped
<1> QED BY <1>2, <1>3

LEMMA ProjectDir ==
  ASSUME DirInv, NEW p \in Process, ProjectPending(p)
  PROVE  StoreInv'
<1> DEFINE e == pending[p]
           h == handle[p]
<1>0. /\ pending \in [Process -> Line] /\ handle \in [Process -> 0..Len(files)]
      /\ nextId \in Nat /\ files \in Seq(Seq(Line)) /\ log \in Seq(Line)
  BY DEF DirInv, StoreInv, DirTyped
<1>1. /\ e # NoEvent /\ pending' = [pending EXCEPT ![p] = NoEvent]
      /\ UNCHANGED <<log, path, half, handle, job, seen, todo, nextId, torn,
                     lockFile, phase, contended>>
  BY DEF ProjectPending, lockVars
<1>2. p \notin Replayer /\ Running(p) /\ e.id # 0 /\ e.id < nextId /\ h \in 1..Len(files)
  <2>1. p \notin Replayer /\ Running(p)
    BY <1>1 DEF DirInv, StoreInv, OpenFiles
  <2>2. handle[p] # 0
    BY <2>1, Roles DEF Running, DirInv, StoreInv, OpenFiles, Engaged
  <2> QED BY <1>0, <1>1, <2>1, <2>2 DEF DirInv, StoreInv, IdsUsed, IdsDiffer
<1>3. files' = files \/ files' = [files EXCEPT ![h] = Append(@, e)]
  BY <1>0, <1>2 DEF ProjectPending
<1>4. e \in Line
  BY <1>0
<1>5. ~torn => Logged(e)
  BY <1>1 DEF DirInv, StoreInv, TornShows
<1>6. pending' \in [Process -> Line] /\ pending'[p] = NoEvent
      /\ \A q \in Process : q # p => pending'[q] = pending[q]
  BY <1>0, <1>1, LinesTyped
<1> HIDE DEF e, h
<1>7. /\ files' \in Seq(Seq(Line)) /\ Len(files') = Len(files)
      /\ \A f \in 1..Len(files') : \A i \in 1..Len(files'[f]) : files'[f][i].id < nextId
      /\ ~torn => \A f \in 1..Len(files') : \A i \in 1..Len(files'[f]) :
                    files'[f][i].type # "ARCHIVE" => Logged(files'[f][i])
  <2>1. CASE files' = files
    BY <1>0, <2>1 DEF DirInv, StoreInv, IdsUsed, TornShows
  <2>2. CASE files' = [files EXCEPT ![h] = Append(@, e)]
    <3>1. files' \in Seq(Seq(Line)) /\ Len(files') = Len(files)
      BY <1>2, <1>4, <2>2, DatabaseGrew DEF DirInv, StoreInv
    <3>2. nextId' = nextId /\ nextId' >= nextId /\ nextId' \in Nat
      BY <1>0, <1>1
    <3> QED BY <1>2, <1>4, <1>5, <2>2, <3>1, <3>2, GrewKeeps
  <2> QED BY <1>3, <2>1, <2>2
<1>8. DirTyped'
  BY <1>1, <1>6, <1>7 DEF DirInv, StoreInv, DirTyped
<1>9. IdsUsed'
  <2>1. \A q \in Process : pending'[q].id < nextId
    <3> TAKE q \in Process
    <3>1. CASE q = p
      <4>1. NoEvent.id = 0
        BY DEF NoEvent
      <4>2. 0 < nextId
        BY DEF DirInv, StoreInv, DirTyped
      <4> QED BY <1>6, <3>1, <4>1, <4>2
    <3>2. CASE q # p
      BY <1>6, <3>2 DEF DirInv, StoreInv, IdsUsed
    <3> QED BY <3>1, <3>2
  <2> QED BY <1>1, <1>7, <2>1 DEF DirInv, StoreInv, IdsUsed
<1>10. IdsDiffer' /\ TodoIsRead'
  BY <1>1, <1>6 DEF DirInv, StoreInv, IdsDiffer, TodoIsRead
<1>11. TornShows'
  <2>1. Clean' = Clean /\ torn' = torn /\ \A x : Logged(x)' = Logged(x)
    BY <1>1 DEF Clean, Logged
  <2>2. ~torn => \A q \in Process : pending'[q] # NoEvent => \E j \in 1..Len(log) : log[j] = pending'[q]
    BY <1>6 DEF DirInv, StoreInv, TornShows, Logged
  <2>3. ~torn => \A f \in 1..Len(files') : \A i \in 1..Len(files'[f]) :
                   files'[f][i].type # "ARCHIVE" => \E j \in 1..Len(log) : log[j] = files'[f][i]
    BY <1>7 DEF Logged
  <2>4. torn <=> ~Clean
    BY DEF DirInv, StoreInv, TornShows
  <2> QED BY <1>1, <2>1, <2>2, <2>3, <2>4 DEF TornShows, Logged
<1>12. OpenFiles'
  <2>1. \A q \in Process : Running(q)' = Running(q)
    BY <1>1 DEF Running
  <2> QED BY <1>1, <1>6, <2>1 DEF DirInv, StoreInv, OpenFiles, Replays
<1>13. PartialHasBuilder'
  BY <1>1 DEF DirInv, StoreInv, PartialHasBuilder
<1>14. AloneBuilds'
  <2> SUFFICES ASSUME ~contended PROVE (DbDistinct /\ PendingIsNew)'
        /\ \A q \in Replayer : Replays(q) /\ phase[q] = "held" => Building(q)'
    BY <1>1 DEF AloneBuilds, Replays
  <2>0. DbDistinct /\ PendingIsNew
    BY DEF DirInv, StoreInv, AloneBuilds
  <2>1. DbDistinct'
    <3>1. CASE files' = files
      BY <2>0, <3>1 DEF DbDistinct
    <3>2. CASE files' = [files EXCEPT ![h] = Append(@, e)]
      <4>1. nextId' >= nextId /\ nextId' \in Nat
        BY <1>0, <1>1
      <4>2. \A i \in 1..Len(files[h]) : files[h][i].id # e.id
        BY <1>1, <2>0 DEF PendingIsNew, e, h
      <4> QED BY <1>2, <1>4, <2>0, <3>2, <4>1, <4>2, GrewKeeps
    <3> QED BY <1>3, <3>1, <3>2
  <2>2. PendingIsNew'
    <3> SUFFICES ASSUME NEW q \in Process, pending'[q] # NoEvent,
                        NEW i \in 1..Len(files'[handle[q]])
                 PROVE  files'[handle[q]][i].id # pending'[q].id
      BY <1>1 DEF PendingIsNew
    <3>1. q # p /\ pending'[q] = pending[q] /\ pending[q] # NoEvent
      BY <1>6
    <3>2. handle[q] \in 1..Len(files)
      BY <3>1, PendingHasDatabase
    <3>3. pending[q].id # e.id
      BY <1>1, <3>1 DEF DirInv, StoreInv, IdsDiffer, e
    <3>4. \/ i \in 1..Len(files[handle[q]]) /\ files'[handle[q]][i] = files[handle[q]][i]
          \/ files'[handle[q]][i] = e
      BY <1>2, <1>3, <1>4, <3>2, DatabaseGrew DEF DirInv, StoreInv
    <3> QED BY <2>0, <3>1, <3>3, <3>4 DEF PendingIsNew
  <2>3. ASSUME NEW q \in Replayer, Replays(q), phase[q] = "held" PROVE Building(q)'
    <3>1. q \in Process /\ Building(q) /\ (torn => seen[q] # Len(log))
      BY <2>3, Roles DEF DirInv, StoreInv, AloneBuilds, OpenFiles
    <3>2. q # p
      BY <1>2, <2>3
    <3>3. /\ seen[q] \in Nat /\ seen[q] <= Len(log) /\ Len(log) \in Nat /\ Len(todo[q]) \in Nat
          /\ Len(todo[q]) <= seen[q]
          /\ \A k \in 1..Len(todo[q]) : todo[q][k] = log[seen[q] - Len(todo[q]) + k]
      BY <3>1, WhatWasRead
    <3>4. job[q] = "rebuild" => path = handle[q]
      BY <3>1 DEF Building
    <3>5. job[q] \in {"backup", "open"} => Len(todo[q]) = seen[q]
      BY <3>1 DEF Building
    <3>6. ASSUME job[q] # "backup", path # 0
          PROVE  /\ \A i \in 1..Len(files'[path]) : \A k \in 1..Len(todo[q]) :
                      files'[path][i].id # 0 => files'[path][i].id # todo[q][k].id
                 /\ \A r \in Process : pending'[r] # NoEvent /\ handle[r] = path =>
                      \A k \in 1..seen[q] : log[k].id # pending'[r].id
                 /\ seen[q] = Len(log) =>
                      /\ Len(files'[path]) + Len(todo[q]) = seen[q]
                      /\ \A i \in 1..Len(files'[path]) : files'[path][i] = log[i]
      <4>1. /\ \A i \in 1..Len(files[path]) : \A k \in 1..Len(todo[q]) :
                 files[path][i].id # 0 => files[path][i].id # todo[q][k].id
            /\ \A r \in Process : pending[r] # NoEvent /\ handle[r] = path =>
                 \A k \in 1..seen[q] : log[k].id # pending[r].id
            /\ seen[q] = Len(log) =>
                 /\ Len(files[path]) + Len(todo[q]) = seen[q]
                 /\ \A i \in 1..Len(files[path]) : files[path][i] = log[i]
        BY <3>1, <3>6 DEF Building
      <4>2. path \in 1..Len(files)
        BY <3>6 DEF DirInv, StoreInv, DirTyped
      <4>3. \A r \in Process : pending'[r] # NoEvent /\ handle[r] = path =>
              \A k \in 1..seen[q] : log[k].id # pending'[r].id
        BY <1>6, <4>1
      <4>4. CASE files'[path] = files[path]
        BY <4>1, <4>3, <4>4
      <4>5. CASE files'[path] # files[path]
        <5>1. h = path /\ files' = [files EXCEPT ![h] = Append(@, e)]
          BY <1>2, <1>3, <1>4, <4>2, <4>5, DatabaseGrew DEF DirInv, StoreInv
        <5>2. \A k \in 1..seen[q] : log[k].id # e.id
          BY <1>1, <4>1, <5>1 DEF e, h
        <5>3. \A k \in 1..Len(todo[q]) : todo[q][k].id # e.id
          <6> TAKE k \in 1..Len(todo[q])
          <6>1. seen[q] - Len(todo[q]) + k \in 1..seen[q]
            BY <3>3
          <6> QED BY <3>3, <5>2, <6>1
        <5>4. seen[q] # Len(log)
          <6> SUFFICES ASSUME ~torn PROVE seen[q] # Len(log)
            BY <3>1
          <6>1. PICK j \in 1..Len(log) : log[j] = e
            BY <1>5 DEF Logged
          <6> QED BY <5>2, <6>1
        <5>5. \A i \in 1..Len(files'[path]) : \A k \in 1..Len(todo[q]) :
                files'[path][i].id # 0 => files'[path][i].id # todo[q][k].id
          <6> SUFFICES ASSUME NEW i \in 1..Len(files'[path]), NEW k \in 1..Len(todo[q]),
                              files'[path][i].id # 0
                       PROVE  files'[path][i].id # todo[q][k].id
            OBVIOUS
          <6>1. \/ i \in 1..Len(files[path]) /\ files'[path][i] = files[path][i]
                \/ files'[path][i] = e
            BY <1>2, <1>4, <4>2, <5>1, DatabaseGrew DEF DirInv, StoreInv
          <6> QED BY <4>1, <5>3, <6>1
        <5> QED BY <4>3, <5>4, <5>5
      <4> QED BY <4>4, <4>5
    <3> QED BY <1>1, <3>4, <3>5, <3>6 DEF Building
  <2> QED BY <2>1, <2>2, <2>3
<1> QED BY <1>8, <1>9, <1>10, <1>11, <1>12, <1>13, <1>14 DEF StoreInv

LEMMA SameBuilding ==
  ASSUME NEW q \in Replayer, Building(q), handle'[q] = handle[q],
         seen'[q] = seen[q], todo'[q] = todo[q], UNCHANGED <<log, job, path, files>>,
         \A r \in Process : pending'[r] # NoEvent /\ handle'[r] = path' =>
           pending[r] # NoEvent /\ handle[r] = path /\ pending'[r] = pending[r]
  PROVE  Building(q)'
<1>1. ASSUME job[q] # "backup", path # 0
      PROVE  /\ \A i \in 1..Len(files[path]) : \A k \in 1..Len(todo[q]) :
                  files[path][i].id # 0 => files[path][i].id # todo[q][k].id
             /\ \A r \in Process : pending'[r] # NoEvent /\ handle'[r] = path =>
                  \A k \in 1..seen[q] : log[k].id # pending'[r].id
             /\ seen[q] = Len(log) =>
                  /\ Len(files[path]) + Len(todo[q]) = seen[q]
                  /\ \A i \in 1..Len(files[path]) : files[path][i] = log[i]
  BY <1>1, Zenon DEF Building
<1>2. job[q] = "rebuild" => path = handle[q]
  BY DEF Building
<1>3. job[q] \in {"backup", "open"} => Len(todo[q]) = seen[q]
  BY DEF Building
<1>4. ASSUME job'[q] # "backup", path' # 0
      PROVE  /\ \A i \in 1..Len(files'[path']) : \A k \in 1..Len(todo'[q]) :
                  files'[path'][i].id # 0 => files'[path'][i].id # todo'[q][k].id
             /\ \A r \in Process : pending'[r] # NoEvent /\ handle'[r] = path' =>
                  \A k \in 1..seen'[q] : log'[k].id # pending'[r].id
             /\ seen'[q] = Len(log') =>
                  /\ Len(files'[path']) + Len(todo'[q]) = seen'[q]
                  /\ \A i \in 1..Len(files'[path']) : files'[path'][i] = log'[i]
  <2>1. log' = log /\ path' = path /\ files' = files /\ job[q] # "backup" /\ path # 0
    BY <1>4
  <2>2. /\ \A i \in 1..Len(files[path]) : \A k \in 1..Len(todo[q]) :
             files[path][i].id # 0 => files[path][i].id # todo[q][k].id
        /\ \A r \in Process : pending'[r] # NoEvent /\ handle'[r] = path =>
             \A k \in 1..seen[q] : log[k].id # pending'[r].id
        /\ seen[q] = Len(log) =>
             /\ Len(files[path]) + Len(todo[q]) = seen[q]
             /\ \A i \in 1..Len(files[path]) : files[path][i] = log[i]
    BY <1>1, <2>1
  <2>3. /\ log' = log /\ path' = path /\ files' = files
        /\ seen'[q] = seen[q] /\ todo'[q] = todo[q]
    BY <2>1
  <2>4. \A i \in 1..Len(files'[path']) : \A k \in 1..Len(todo'[q]) :
          files'[path'][i].id # 0 => files'[path'][i].id # todo'[q][k].id
    BY <2>2, <2>3
  <2>5. ASSUME NEW r \in Process, pending'[r] # NoEvent, handle'[r] = path'
        PROVE  \A k \in 1..seen'[q] : log'[k].id # pending'[r].id
    <3>1. pending[r] # NoEvent /\ handle[r] = path /\ pending'[r] = pending[r]
      BY <2>5
    <3>2. \A k \in 1..seen[q] : log[k].id # pending'[r].id
      BY <2>2, <2>5, <3>1
    <3> QED BY <2>3, <3>2
  <2>6. seen'[q] = Len(log') =>
          /\ Len(files'[path']) + Len(todo'[q]) = seen'[q]
          /\ \A i \in 1..Len(files'[path']) : files'[path'][i] = log'[i]
    BY <2>2, <2>3
  <2> QED BY <2>4, <2>5, <2>6
<1>5. job'[q] = "rebuild" => path' = handle'[q]
  BY <1>2
<1>6. job'[q] \in {"backup", "open"} => Len(todo'[q]) = seen'[q]
  BY <1>3
<1> QED BY <1>4, <1>5, <1>6, Zenon DEF Building

(* A command that ends, and any process that is killed: what it had open    *)
(* and what it had still to project are gone.                               *)
LEMMA LeavesDir ==
  ASSUME DirInv, NEW p \in Process, NEW x \in {"done", "dead"}, p \in Replayer => x = "dead",
         phase' = [phase EXCEPT ![p] = x], handle' = [handle EXCEPT ![p] = 0],
         pending' = [pending EXCEPT ![p] = NoEvent],
         \/ UNCHANGED <<seen, todo>>
         \/ seen' = [seen EXCEPT ![p] = 0] /\ todo' = [todo EXCEPT ![p] = << >>],
         UNCHANGED <<log, files, path, half, job, nextId, torn, contended>>
  PROVE  StoreInv'
<1>0. /\ phase \in [Process -> Phase] /\ handle \in [Process -> 0..Len(files)]
      /\ pending \in [Process -> Line] /\ Len(files) \in Nat /\ nextId \in Nat /\ nextId >= 1
  BY DEF DirInv, StoreInv, DirTyped, LockInv, LockTypeOK
<1>1. /\ phase'[p] = x /\ handle'[p] = 0 /\ pending'[p] = NoEvent
      /\ \A q \in Process : q # p =>
           phase'[q] = phase[q] /\ handle'[q] = handle[q] /\ pending'[q] = pending[q]
  BY <1>0
<1>2. handle' \in [Process -> 0..Len(files)] /\ pending' \in [Process -> Line]
  BY <1>0, LinesTyped
<1>9. /\ seen' \in [Process -> Nat] /\ todo' \in [Process -> Seq(Line)]
      /\ \A q \in Process :
           \/ seen'[q] = seen[q] /\ todo'[q] = todo[q]
           \/ q = p /\ seen'[q] = 0 /\ todo'[q] = << >>
  <2>1. seen \in [Process -> Nat] /\ todo \in [Process -> Seq(Line)]
    BY DEF DirInv, StoreInv, DirTyped
  <2>2. << >> \in Seq(Line)
    OBVIOUS
  <2>3. CASE UNCHANGED <<seen, todo>>
    BY <2>1, <2>3
  <2>4. CASE seen' = [seen EXCEPT ![p] = 0] /\ todo' = [todo EXCEPT ![p] = << >>]
    BY <2>1, <2>2, <2>4
  <2> QED BY <2>3, <2>4
<1>3. DirTyped'
  BY <1>2, <1>9 DEF DirInv, StoreInv, DirTyped
<1>4. IdsUsed' /\ IdsDiffer' /\ TodoIsRead'
  <2>1. NoEvent.id < nextId
    BY <1>0 DEF NoEvent
  <2>2. \A q \in Process : pending'[q].id < nextId
    BY <1>1, <2>1 DEF DirInv, StoreInv, IdsUsed
  <2>3. IdsUsed'
    BY <2>2 DEF DirInv, StoreInv, IdsUsed
  <2>4. IdsDiffer'
    BY <1>1 DEF DirInv, StoreInv, IdsDiffer
  <2>5. ASSUME NEW q \in Process
        PROVE  /\ seen'[q] <= Len(log) /\ Len(todo'[q]) <= seen'[q]
               /\ \A i \in 1..Len(todo'[q]) :
                    todo'[q][i] = log[seen'[q] - Len(todo'[q]) + i] /\ todo'[q][i] # Torn
    <3>1. CASE seen'[q] = seen[q] /\ todo'[q] = todo[q]
      BY <3>1, WhatWasRead
    <3>2. CASE seen'[q] = 0 /\ todo'[q] = << >>
      BY <3>2, WhatWasRead
    <3> QED BY <1>9, <3>1, <3>2
  <2>6. TodoIsRead'
    BY <2>5 DEF TodoIsRead
  <2> QED BY <2>3, <2>4, <2>6
<1>5. TornShows'
  <2>1. Clean' = Clean /\ torn' = torn /\ \A y : Logged(y)' = Logged(y)
    BY DEF Clean, Logged
  <2>2. ~torn => \A q \in Process : pending'[q] # NoEvent => \E j \in 1..Len(log) : log[j] = pending'[q]
    BY <1>1 DEF DirInv, StoreInv, TornShows, Logged
  <2> QED BY <2>1, <2>2 DEF DirInv, StoreInv, TornShows, Logged
<1>6. OpenFiles'
  <2>1. \A q \in Process : q # p => Running(q)' = Running(q)
    BY <1>1 DEF Running
  <2>2. phase'[p] \notin Engaged
    BY <1>1 DEF Engaged, Claiming
  <2>3. \A q \in Process : Replays(q)' = Replays(q)
    BY DEF Replays
  <2>4. ASSUME NEW q \in Process, Replays(q)
        PROVE  /\ phase'[q] \in {"held", "dead"}
               /\ phase'[q] = "held" => (torn => seen'[q] # Len(log))
                                    /\ (job[q] = "rebuild" => handle'[q] # 0)
    <3>1. CASE q = p
      BY <1>1, <2>4, <3>1 DEF Replays
    <3>2. CASE q # p
      BY <1>1, <1>9, <2>4, <3>2 DEF DirInv, StoreInv, OpenFiles
    <3> QED BY <3>1, <3>2
  <2> QED BY <1>1, <2>1, <2>2, <2>3, <2>4 DEF DirInv, StoreInv, OpenFiles
<1>7. PartialHasBuilder'
  <2> SUFFICES ASSUME path \in half
               PROVE  \E q \in Replayer : job[q] = "rebuild" /\ (phase'[q] = "dead" \/ handle'[q] = path)
    BY DEF PartialHasBuilder
  <2>1. PICK q \in Replayer : job[q] = "rebuild" /\ (phase[q] = "dead" \/ handle[q] = path)
    BY DEF DirInv, StoreInv, PartialHasBuilder
  <2> QED BY <1>1, <2>1, Roles
<1>8. AloneBuilds'
  <2> SUFFICES ASSUME ~contended PROVE (DbDistinct /\ PendingIsNew)'
        /\ \A q \in Replayer : Replays(q) /\ phase'[q] = "held" => Building(q)'
    BY DEF AloneBuilds, Replays
  <2>1. (DbDistinct /\ PendingIsNew)'
    BY <1>1 DEF DirInv, StoreInv, AloneBuilds, DbDistinct, PendingIsNew
  <2>2. ASSUME NEW q \in Replayer, Replays(q), phase'[q] = "held" PROVE Building(q)'
    <3>1. q \in Process /\ q # p
      BY <1>1, <2>2, Roles
    <3>2. Building(q)
      BY <1>1, <2>2, <3>1 DEF DirInv, StoreInv, AloneBuilds
    <3>3. \A r \in Process : pending'[r] # NoEvent => pending'[r] = pending[r] /\ handle'[r] = handle[r]
      BY <1>1
    <3>4. handle'[q] = handle[q]
      BY <1>1, <3>1
    <3>5. seen'[q] = seen[q] /\ todo'[q] = todo[q] /\ UNCHANGED <<log, job, path, files>>
      BY <1>9, <3>1
    <3>6. \A r \in Process : pending'[r] # NoEvent /\ handle'[r] = path' =>
            pending[r] # NoEvent /\ handle[r] = path /\ pending'[r] = pending[r]
      BY <3>3
    <3> QED BY <3>2, <3>4, <3>5, <3>6, SameBuilding
  <2> QED BY <2>1, <2>2
<1> QED BY <1>3, <1>4, <1>5, <1>6, <1>7, <1>8 DEF StoreInv

LEMMA EndsDir ==
  ASSUME DirInv, NEW p \in Process, CommandEnds(p) \/ Kill(p)
  PROVE  StoreInv'
<1>1. CASE CommandEnds(p)
  <2>1. pending' = [pending EXCEPT ![p] = NoEvent]
    BY <1>1 DEF CommandEnds, DirInv, StoreInv, DirTyped
  <2> QED BY <1>1, <2>1, LeavesDir, Roles DEF CommandEnds
<1>2. CASE Kill(p)
  BY <1>2, LeavesDir DEF Kill
<1> QED BY <1>1, <1>2

(* What a torn line leaves of the log, whoever is left to see it.           *)
LEMMA LineTorn ==
  ASSUME DirInv, NEW p \in Process, TearLine(p)
  PROVE  /\ log' \in Seq(Line) /\ Len(log') <= MaxLog /\ Len(log) <= Len(log')
         /\ \A i \in 1..Len(log) : log'[i] = log[i]
         /\ \A i \in 1..Len(log') : log'[i].id < nextId
         /\ \A i, j \in 1..Len(log') : i # j /\ log'[i].id # 0 => log'[i].id # log'[j].id
         /\ UNCHANGED <<seen, todo>> => TodoIsRead'
         /\ torn' /\ ~Clean' /\ (torn \/ Len(log) < Len(log'))
<1>0. /\ log \in Seq(Line) /\ Len(log) \in Nat /\ nextId \in Nat /\ nextId >= 1 /\ MaxLog \in Nat
      /\ \A i \in 1..Len(log) : log[i].id < nextId
  BY Roles DEF DirInv, StoreInv, DirTyped, IdsUsed
<1>1. Len(log) < MaxLog /\ torn' = TRUE
  BY DEF TearLine
<1>3. \/ log' = log /\ Len(log) > 0 /\ log[Len(log)] = Torn
      \/ /\ log' = Append(log, Torn)
         /\ Len(log') = Len(log) + 1 /\ log'[Len(log) + 1] = Torn
         /\ \A i \in 1..Len(log) : log'[i] = log[i]
  BY <1>0 DEF TearLine, Last
<1>4. /\ log' \in Seq(Line) /\ Len(log') <= MaxLog /\ Len(log') >= Len(log)
      /\ \A i \in 1..Len(log) : log'[i] = log[i]
      /\ \A i \in 1..Len(log') : i \in 1..Len(log) \/ log'[i] = Torn
  BY <1>0, <1>1, <1>3, LinesTyped
<1>5. Torn.id < nextId /\ Torn.id = 0
  BY <1>0 DEF Torn
<1>6. \A i \in 1..Len(log') : log'[i].id < nextId
  <2> TAKE i \in 1..Len(log')
  <2>1. CASE i \in 1..Len(log)
    BY <1>0, <1>4, <2>1
  <2>2. CASE log'[i] = Torn
    BY <1>5, <2>2
  <2> QED BY <1>4, <2>1, <2>2, Zenon
<1>7. \A i, j \in 1..Len(log') : i # j /\ log'[i].id # 0 => log'[i].id # log'[j].id
  <2> SUFFICES ASSUME NEW i \in 1..Len(log'), NEW j \in 1..Len(log'), i # j, log'[i].id # 0
               PROVE  log'[i].id # log'[j].id
    OBVIOUS
  <2>0. log'[i] # Torn
    BY <1>5
  <2>1. i \in 1..Len(log) /\ log'[i] = log[i]
    BY <1>4, <2>0, Zenon
  <2>2. CASE j \in 1..Len(log)
    BY <1>4, <2>1, <2>2 DEF DirInv, StoreInv, IdsDiffer
  <2>3. CASE log'[j] = Torn
    BY <1>5, <2>3
  <2> QED BY <1>4, <2>2, <2>3, Zenon
<1>8. ASSUME UNCHANGED <<seen, todo>> PROVE TodoIsRead'
  <2> SUFFICES ASSUME NEW q \in Process
               PROVE  /\ seen[q] <= Len(log') /\ Len(todo[q]) <= seen[q]
                      /\ \A i \in 1..Len(todo[q]) :
                           todo[q][i] = log'[seen[q] - Len(todo[q]) + i] /\ todo[q][i] # Torn
    BY <1>8 DEF TodoIsRead
  <2>1. /\ seen[q] \in Nat /\ Len(todo[q]) \in Nat /\ seen[q] <= Len(log)
        /\ Len(todo[q]) <= seen[q]
        /\ \A i \in 1..Len(todo[q]) :
             todo[q][i] = log[seen[q] - Len(todo[q]) + i] /\ todo[q][i] # Torn
    BY WhatWasRead
  <2>2. \A i \in 1..Len(todo[q]) : seen[q] - Len(todo[q]) + i \in 1..Len(log)
    BY <1>0, <2>1
  <2>3. \A i \in 1..Len(todo[q]) :
          log'[seen[q] - Len(todo[q]) + i] = log[seen[q] - Len(todo[q]) + i]
    BY <1>4, <2>2
  <2>4. Len(log') \in Nat
    BY <1>4
  <2> QED BY <1>0, <1>4, <2>1, <2>3, <2>4
<1>9. ~Clean'
  <2>1. Len(log') \in 1..Len(log') /\ log'[Len(log')] = Torn
    BY <1>0, <1>3
  <2> QED BY <2>1 DEF Clean
<1>10. torn \/ Len(log) < Len(log')
  <2>1. CASE log' = log /\ Len(log) > 0 /\ log[Len(log)] = Torn
    <3>1. ~Clean
      BY <1>0, <2>1 DEF Clean
    <3> QED BY <3>1 DEF DirInv, StoreInv, TornShows
  <2>2. CASE Len(log') = Len(log) + 1
    BY <1>0, <2>2
  <2> QED BY <1>3, <2>1, <2>2
<1> QED BY <1>1, <1>4, <1>6, <1>7, <1>8, <1>9, <1>10

(* A Write that fails part of the way: the others go on beside a torn log.  *)
LEMMA ShortWriteDir ==
  ASSUME DirInv, NEW p \in Process, ShortWrite(p)
  PROVE  StoreInv'
<1>1. /\ TearLine(p)
      /\ UNCHANGED <<files, path, half, handle, pending, job, seen, todo, nextId,
                     lockFile, phase, contended>>
  BY DEF ShortWrite, lockVars
<1>2. /\ log' \in Seq(Line) /\ Len(log') <= MaxLog /\ Len(log) <= Len(log')
      /\ \A i \in 1..Len(log) : log'[i] = log[i]
      /\ \A i \in 1..Len(log') : log'[i].id < nextId
      /\ \A i, j \in 1..Len(log') : i # j /\ log'[i].id # 0 => log'[i].id # log'[j].id
      /\ TodoIsRead' /\ torn' /\ ~Clean'
      /\ torn \/ Len(log) < Len(log')
  BY <1>1, LineTorn
<1>3. torn' \in BOOLEAN
  BY <1>1 DEF TearLine
<1>4. DirTyped'
  BY <1>1, <1>2, <1>3 DEF DirInv, StoreInv, DirTyped
<1>5. IdsUsed' /\ IdsDiffer'
  BY <1>1, <1>2 DEF DirInv, StoreInv, IdsUsed, IdsDiffer
<1>6. TornShows'
  BY <1>2 DEF TornShows
<1>7. ASSUME NEW q \in Process, torn => seen[q] # Len(log) PROVE seen[q] # Len(log')
  <2>1. seen[q] \in Nat /\ Len(log) \in Nat /\ Len(log') \in Nat /\ seen[q] <= Len(log)
    BY <1>2 DEF DirInv, StoreInv, DirTyped, TodoIsRead
  <2> QED BY <1>2, <1>7, <2>1
<1>8. OpenFiles'
  <2>1. \A q \in Process : Running(q)' = Running(q) /\ Replays(q)' = Replays(q)
    BY <1>1 DEF Running, Replays
  <2>2. \A q \in Process : Replays(q) /\ phase[q] = "held" => seen[q] # Len(log')
    BY <1>7 DEF DirInv, StoreInv, OpenFiles
  <2> QED BY <1>1, <2>1, <2>2 DEF DirInv, StoreInv, OpenFiles
<1>9. PartialHasBuilder'
  BY <1>1 DEF DirInv, StoreInv, PartialHasBuilder
<1>10. AloneBuilds'
  <2> SUFFICES ASSUME ~contended PROVE (DbDistinct /\ PendingIsNew)'
        /\ \A q \in Replayer : Replays(q) /\ phase[q] = "held" => Building(q)'
    BY <1>1 DEF AloneBuilds, Replays
  <2>1. (DbDistinct /\ PendingIsNew)'
    BY <1>1 DEF DirInv, StoreInv, AloneBuilds, DbDistinct, PendingIsNew
  <2>2. ASSUME NEW q \in Replayer, Replays(q), phase[q] = "held" PROVE Building(q)'
    <3>1. q \in Process /\ Building(q) /\ (torn => seen[q] # Len(log))
      BY <2>2, Roles DEF DirInv, StoreInv, AloneBuilds, OpenFiles
    <3>2. seen[q] # Len(log') /\ \A i \in 1..seen[q] : log'[i] = log[i]
      <4>1. seen[q] \in Nat /\ Len(log) \in Nat /\ seen[q] <= Len(log)
        BY <3>1 DEF DirInv, StoreInv, DirTyped, TodoIsRead
      <4> QED BY <1>2, <1>7, <3>1, <4>1
    <3>3. \A i \in 1..Len(log) : log[i].id < nextId
      BY DEF DirInv, StoreInv, IdsUsed
    <3> QED BY <1>1, <2>2, <3>1, <3>2, <3>3, StillBuilding
  <2> QED BY <2>1, <2>2
<1> QED BY <1>2, <1>4, <1>5, <1>6, <1>8, <1>9, <1>10 DEF StoreInv

(* The machine goes down: every process dies, and the log is torn.          *)
LEMMA CrashDir ==
  ASSUME DirInv, MachineCrash
  PROVE  StoreInv'
<1>0. phase \in [Process -> Phase] /\ nextId \in Nat /\ nextId >= 1
  BY DEF DirInv, StoreInv, DirTyped, LockInv, LockTypeOK
<1>1. /\ \A q \in Process : handle'[q] = 0 /\ pending'[q] = NoEvent
      /\ handle' \in [Process -> 0..Len(files)] /\ pending' \in [Process -> Line]
      /\ \A q \in Process : seen'[q] = 0 /\ todo'[q] = << >>
      /\ seen' \in [Process -> Nat] /\ todo' \in [Process -> Seq(Line)]
      /\ UNCHANGED <<files, path, half, job, nextId, contended>>
  <2>1. handle' = [q \in Process |-> 0] /\ pending' = [q \in Process |-> NoEvent]
    BY DEF MachineCrash
  <2>2. 0 \in 0..Len(files)
    BY DEF DirInv, StoreInv, DirTyped
  <2> QED BY <2>1, <2>2, LinesTyped DEF MachineCrash
<1>2. \A q \in Process : phase'[q] \notin Engaged /\ phase'[q] # "held"
                         /\ (phase[q] \in {"held", "dead"} => phase'[q] = "dead")
  BY <1>0 DEF MachineCrash, ProcessAlive, Engaged, Claiming
<1>3. PICK p \in Process : TearLine(p)
  BY DEF MachineCrash
<1>4. /\ log' \in Seq(Line) /\ Len(log') <= MaxLog
      /\ \A i \in 1..Len(log') : log'[i].id < nextId
      /\ \A i, j \in 1..Len(log') : i # j /\ log'[i].id # 0 => log'[i].id # log'[j].id
      /\ torn' /\ ~Clean'
  BY <1>3, LineTorn
<1>7. TodoIsRead'
  BY <1>1, <1>4 DEF TodoIsRead
<1>5. DirTyped'
  <2>1. torn' \in BOOLEAN
    BY <1>3 DEF TearLine
  <2> QED BY <1>1, <1>4, <2>1 DEF DirInv, StoreInv, DirTyped
<1>6. IdsUsed' /\ IdsDiffer'
  <2>1. NoEvent.id < nextId
    BY <1>0 DEF NoEvent
  <2>2. IdsUsed'
    BY <1>1, <1>4, <2>1 DEF DirInv, StoreInv, IdsUsed
  <2>3. IdsDiffer'
    BY <1>1, <1>4 DEF IdsDiffer
  <2> QED BY <2>2, <2>3
<1>8. TornShows'
  BY <1>4 DEF TornShows
<1>9. OpenFiles'
  <2>1. \A q \in Process : Replays(q)' = Replays(q)
    BY <1>1 DEF Replays
  <2>2. \A q \in Process : Replays(q) => phase'[q] = "dead"
    BY <1>2 DEF DirInv, StoreInv, OpenFiles
  <2> QED BY <1>1, <1>2, <2>1, <2>2 DEF OpenFiles
<1>10. PartialHasBuilder'
  <2> SUFFICES ASSUME path \in half
               PROVE  \E q \in Replayer : job[q] = "rebuild" /\ phase'[q] = "dead"
    BY <1>1 DEF PartialHasBuilder
  <2>1. PICK q \in Replayer : job[q] = "rebuild"
    BY DEF DirInv, StoreInv, PartialHasBuilder
  <2>2. q \in Process /\ Replays(q)
    BY <2>1, Roles DEF Replays
  <2> QED BY <1>2, <2>1, <2>2 DEF DirInv, StoreInv, OpenFiles
<1>11. AloneBuilds'
  <2>1. ~contended => (DbDistinct /\ PendingIsNew)'
    BY <1>1 DEF DirInv, StoreInv, AloneBuilds, DbDistinct, PendingIsNew
  <2> QED BY <1>1, <1>2, <2>1, Roles DEF AloneBuilds
<1> QED BY <1>5, <1>6, <1>7, <1>8, <1>9, <1>10, <1>11 DEF StoreInv

LEMMA HolderIsAlone ==
  ASSUME DirInv, ~contended, NEW p \in Process, NEW q \in Process,
         phase[p] = "held", phase[q] = "held"
  PROVE  p = q
BY DEF DirInv, LockInv, OneEngaged, Engaged

(* The first step of a replay: a log it can read, or none of it.            *)
LEMMA ReadsDir ==
  ASSUME DirInv, NEW p \in Process, ReplayReads(p)
  PROVE  StoreInv'
<1>1. /\ p \in Replayer /\ phase[p] = "held" /\ job[p] = "lock"
      /\ UNCHANGED <<log, files, path, half, handle, pending, nextId, torn,
                     lockFile, phase, contended>>
  BY Roles DEF ReplayReads, Running, lockVars
<1>0. /\ job \in [Process -> {"lock", "backup", "open", "rebuild", "end"}]
      /\ seen \in [Process -> Nat] /\ todo \in [Process -> Seq(Line)]
      /\ log \in Seq(Line) /\ Len(log) \in Nat
  BY DEF DirInv, StoreInv, DirTyped
<1>2. \/ /\ job' = [job EXCEPT ![p] = "end"] /\ seen' = seen /\ todo' = todo
      \/ /\ job' = [job EXCEPT ![p] = "backup"]
         /\ seen' = [seen EXCEPT ![p] = Len(log)] /\ todo' = [todo EXCEPT ![p] = log]
         /\ \A i \in 1..Len(log) : Readable(log[i])
  BY DEF ReplayReads
<1>3. /\ job' \in [Process -> {"lock", "backup", "open", "rebuild", "end"}]
      /\ seen' \in [Process -> Nat] /\ todo' \in [Process -> Seq(Line)]
      /\ \A q \in Process : q # p => job'[q] = job[q] /\ seen'[q] = seen[q] /\ todo'[q] = todo[q]
      /\ \/ job'[p] = "end" /\ seen'[p] = seen[p] /\ todo'[p] = todo[p]
         \/ /\ job'[p] = "backup" /\ seen'[p] = Len(log) /\ todo'[p] = log
            /\ \A i \in 1..Len(log) : log[i] # Torn /\ log[i] # Corrupt
  <2>1. CASE /\ job' = [job EXCEPT ![p] = "end"] /\ seen' = seen /\ todo' = todo
    BY <1>0, <2>1
  <2>2. CASE /\ job' = [job EXCEPT ![p] = "backup"]
             /\ seen' = [seen EXCEPT ![p] = Len(log)] /\ todo' = [todo EXCEPT ![p] = log]
             /\ \A i \in 1..Len(log) : Readable(log[i])
    <3>1. ~Readable(Torn) /\ ~Readable(Corrupt)
      BY DEF Readable, Torn, Corrupt
    <3>2. \A i \in 1..Len(log) : log[i] # Torn /\ log[i] # Corrupt
      BY <2>2, <3>1
    <3> QED BY <1>0, <2>2, <3>2
  <2> QED BY <1>2, <2>1, <2>2
<1>4. DirTyped'
  BY <1>1, <1>3 DEF DirInv, StoreInv, DirTyped
<1>5. IdsUsed' /\ IdsDiffer' /\ PartialHasBuilder'
  <2>1. IdsUsed' /\ IdsDiffer'
    BY <1>1 DEF DirInv, StoreInv, IdsUsed, IdsDiffer
  <2>2. \A q \in Process : job[q] = "rebuild" => job'[q] = "rebuild"
    BY <1>1, <1>3
  <2>3. PartialHasBuilder'
    BY <1>1, <2>2, Roles DEF DirInv, StoreInv, PartialHasBuilder
  <2> QED BY <2>1, <2>3
<1>6. TodoIsRead'
  <2> SUFFICES ASSUME NEW q \in Process
               PROVE  /\ seen'[q] <= Len(log) /\ Len(todo'[q]) <= seen'[q]
                      /\ \A i \in 1..Len(todo'[q]) :
                           /\ todo'[q][i] = log[seen'[q] - Len(todo'[q]) + i]
                           /\ todo'[q][i] # Torn
    BY <1>1 DEF TodoIsRead
  <2>1. CASE seen'[q] = seen[q] /\ todo'[q] = todo[q]
    BY <2>1 DEF DirInv, StoreInv, TodoIsRead
  <2>2. CASE /\ seen'[q] = Len(log) /\ todo'[q] = log
             /\ \A i \in 1..Len(log) : log[i] # Torn /\ log[i] # Corrupt
    <3>1. \A i \in 1..Len(log) : Len(log) - Len(log) + i = i
      BY <1>0
    <3> QED BY <1>0, <2>2, <3>1
  <2> QED BY <1>3, <2>1, <2>2
<1>7. TornShows'
  BY <1>1 DEF DirInv, StoreInv, TornShows, Clean, Logged
<1>8. OpenFiles'
  <2>1. \A q \in Process : Running(q)' = Running(q)
    BY <1>1 DEF Running
  <2>2. job'[p] = "backup" => ~torn
    BY <1>3 DEF DirInv, StoreInv, TornShows, Clean
  <2>3. ASSUME NEW q \in Process, Replays(q)'
        PROVE  /\ phase[q] \in {"held", "dead"}
               /\ phase[q] = "held" => (torn => seen'[q] # Len(log))
                                   /\ (job'[q] = "rebuild" => handle[q] # 0)
    <3>1. CASE q = p
      <4>1. job'[q] = "backup"
        BY <1>3, <2>3, <3>1 DEF Replays
      <4> QED BY <1>1, <2>2, <3>1, <4>1
    <3>2. CASE q # p
      BY <1>3, <2>3, <3>2 DEF DirInv, StoreInv, OpenFiles, Replays
    <3> QED BY <3>1, <3>2
  <2> QED BY <1>1, <2>1, <2>3 DEF DirInv, StoreInv, OpenFiles
<1>9. AloneBuilds'
  <2> SUFFICES ASSUME ~contended PROVE (DbDistinct /\ PendingIsNew)'
        /\ \A q \in Replayer : Replays(q)' /\ phase[q] = "held" => Building(q)'
    BY <1>1 DEF AloneBuilds
  <2>1. (DbDistinct /\ PendingIsNew)'
    BY <1>1 DEF DirInv, StoreInv, AloneBuilds, DbDistinct, PendingIsNew
  <2>2. ASSUME NEW q \in Replayer, Replays(q)', phase[q] = "held" PROVE Building(q)'
    <3>1. q = p
      BY <1>1, <2>2, HolderIsAlone, Roles
    <3>2. job'[q] = "backup" /\ Len(todo'[q]) = seen'[q]
      BY <1>3, <2>2, <3>1 DEF Replays
    <3> QED BY <3>2 DEF Building
  <2> QED BY <2>1, <2>2
<1> QED BY <1>4, <1>5, <1>6, <1>7, <1>8, <1>9 DEF StoreInv

(* The end of a replay's part in the directory: it gives up, or is done.    *)
(* What it leaves at vxd.db is not partial, if it is there at all.          *)
LEMMA ReplayEndsDir ==
  ASSUME DirInv, NEW p \in Replayer, phase[p] = "held", job' = [job EXCEPT ![p] = "end"],
         path' \in {0, path}, half' \subseteq half,
         path' \in half' => job[p] # "rebuild" \/ handle[p] # path,
         UNCHANGED <<log, files, handle, pending, seen, todo, nextId, torn, phase, contended>>
  PROVE  StoreInv'
<1>0. /\ job \in [Process -> {"lock", "backup", "open", "rebuild", "end"}] /\ p \in Process
      /\ path \in 0..Len(files) /\ half \subseteq 1..Len(files) /\ Len(files) \in Nat
  BY Roles DEF DirInv, StoreInv, DirTyped
<1>1. /\ job'[p] = "end" /\ \A q \in Process : q # p => job'[q] = job[q]
      /\ job' \in [Process -> {"lock", "backup", "open", "rebuild", "end"}]
  BY <1>0
<1>2. DirTyped'
  <2>1. path' \in 0..Len(files) /\ half' \subseteq 1..Len(files)
    BY <1>0
  <2> QED BY <1>1, <2>1 DEF DirInv, StoreInv, DirTyped
<1>3. IdsUsed' /\ IdsDiffer' /\ TodoIsRead' /\ TornShows'
  <2>1. IdsUsed' /\ IdsDiffer'
    BY DEF DirInv, StoreInv, IdsUsed, IdsDiffer
  <2>2. TodoIsRead' /\ TornShows'
    BY DEF DirInv, StoreInv, TodoIsRead, TornShows, Clean, Logged
  <2> QED BY <2>1, <2>2
<1>4. OpenFiles'
  <2>1. \A q \in Process : Running(q)' = Running(q)
    BY DEF Running
  <2>2. \A q \in Process : Replays(q)' => Replays(q) /\ job'[q] = job[q]
    BY <1>1 DEF Replays
  <2> QED BY <2>1, <2>2 DEF DirInv, StoreInv, OpenFiles
<1>5. PartialHasBuilder'
  <2> SUFFICES ASSUME path' \in half'
               PROVE  \E q \in Replayer : job'[q] = "rebuild" /\ (phase[q] = "dead" \/ handle[q] = path')
    BY DEF PartialHasBuilder
  <2>1. path' # 0 /\ path' = path /\ path \in half
    BY <1>0
  <2>2. PICK q \in Replayer : job[q] = "rebuild" /\ (phase[q] = "dead" \/ handle[q] = path)
    BY <2>1 DEF DirInv, StoreInv, PartialHasBuilder
  <2>3. q # p /\ q \in Process
    BY <2>2, Roles
  <2> QED BY <1>1, <2>1, <2>2, <2>3
<1>6. AloneBuilds'
  <2> SUFFICES ASSUME ~contended PROVE (DbDistinct /\ PendingIsNew)'
        /\ \A q \in Replayer : ~(Replays(q)' /\ phase[q] = "held")
    BY DEF AloneBuilds
  <2>1. (DbDistinct /\ PendingIsNew)'
    BY DEF DirInv, StoreInv, AloneBuilds, DbDistinct, PendingIsNew
  <2>2. ASSUME NEW q \in Replayer, phase[q] = "held" PROVE ~Replays(q)'
    <3>1. q = p
      BY <1>0, <2>2, HolderIsAlone, Roles
    <3> QED BY <1>1, <3>1 DEF Replays
  <2> QED BY <2>1, <2>2
<1> QED BY <1>2, <1>3, <1>4, <1>5, <1>6 DEF StoreInv

LEMMA BackupDir ==
  ASSUME DirInv, NEW p \in Process, BackupProjectionDB(p)
  PROVE  StoreInv'
<1>1. /\ p \in Replayer /\ phase[p] = "held" /\ job[p] = "backup"
      /\ UNCHANGED <<log, files, half, handle, pending, seen, todo, nextId, torn,
                     lockFile, phase, contended>>
  BY Roles DEF BackupProjectionDB, Running, lockVars
<1>2. CASE job' = [job EXCEPT ![p] = "end"] /\ path' \in {0, path}
  <2>1. path' \in half' => job[p] # "rebuild" \/ handle[p] # path
    BY <1>1
  <2> QED BY <1>1, <1>2, <2>1, ReplayEndsDir
<1>3. CASE job' = [job EXCEPT ![p] = "open"] /\ path' = 0
  <2>0. /\ job \in [Process -> {"lock", "backup", "open", "rebuild", "end"}]
        /\ half \subseteq 1..Len(files) /\ Len(files) \in Nat
    BY DEF DirInv, StoreInv, DirTyped
  <2>1. /\ job'[p] = "open" /\ \A q \in Process : q # p => job'[q] = job[q]
        /\ job' \in [Process -> {"lock", "backup", "open", "rebuild", "end"}]
    BY <1>3, <2>0
  <2>2. DirTyped'
    BY <1>1, <1>3, <2>0, <2>1 DEF DirInv, StoreInv, DirTyped
  <2>3. IdsUsed' /\ IdsDiffer' /\ TodoIsRead' /\ TornShows'
    <3>1. IdsUsed' /\ IdsDiffer'
      BY <1>1 DEF DirInv, StoreInv, IdsUsed, IdsDiffer
    <3>2. TodoIsRead' /\ TornShows'
      BY <1>1 DEF DirInv, StoreInv, TodoIsRead, TornShows, Clean, Logged
    <3> QED BY <3>1, <3>2
  <2>4. OpenFiles'
    <3>1. \A q \in Process : Running(q)' = Running(q)
      BY <1>1 DEF Running
    <3>2. \A q \in Process : Replays(q)' => Replays(q) /\ (job'[q] = "rebuild" => job[q] = "rebuild")
      BY <1>1, <2>1 DEF Replays
    <3> QED BY <1>1, <3>1, <3>2 DEF DirInv, StoreInv, OpenFiles
  <2>5. PartialHasBuilder'
    BY <1>1, <1>3, <2>0 DEF PartialHasBuilder
  <2>6. AloneBuilds'
    <3> SUFFICES ASSUME ~contended PROVE (DbDistinct /\ PendingIsNew)'
          /\ \A q \in Replayer : Replays(q)' /\ phase[q] = "held" => Building(q)'
      BY <1>1 DEF AloneBuilds
    <3>1. (DbDistinct /\ PendingIsNew)'
      BY <1>1 DEF DirInv, StoreInv, AloneBuilds, DbDistinct, PendingIsNew
    <3>2. ASSUME NEW q \in Replayer, phase[q] = "held" PROVE Building(q)'
      <4>1. q = p
        BY <1>1, <3>2, HolderIsAlone, Roles
      <4>2. Building(q)
        BY <1>1, <4>1 DEF DirInv, StoreInv, AloneBuilds, Replays
      <4>3. Len(todo[q]) = seen[q]
        BY <1>1, <4>1, <4>2 DEF Building
      <4> QED BY <1>1, <1>3, <2>1, <4>1, <4>3 DEF Building
    <3> QED BY <3>1, <3>2
  <2> QED BY <2>2, <2>3, <2>4, <2>5, <2>6 DEF StoreInv
<1> QED BY <1>2, <1>3 DEF BackupProjectionDB

LEMMA DoneDir ==
  ASSUME DirInv, NEW p \in Process, RebuildDone(p) \/ RebuildFails(p)
  PROVE  StoreInv'
<1>1. /\ p \in Replayer /\ phase[p] = "held" /\ job' = [job EXCEPT ![p] = "end"]
      /\ UNCHANGED <<log, files, handle, pending, seen, todo, nextId, torn,
                     lockFile, phase, contended>>
  BY Roles DEF RebuildDone, RebuildFails, Running, lockVars
<1>2. half' \subseteq half /\ path' \in {0, path}
  BY DEF RebuildDone, RebuildFails
<1>3. path' \in half' => job[p] # "rebuild" \/ handle[p] # path
  <2>1. CASE RebuildDone(p)
    BY <2>1 DEF RebuildDone
  <2>2. CASE RebuildFails(p)
    <3>1. path' = 0 /\ half \subseteq 1..Len(files)
      BY <2>2 DEF RebuildFails, DirInv, StoreInv, DirTyped
    <3> QED BY <1>2, <3>1
  <2> QED BY <2>1, <2>2
<1> QED BY <1>1, <1>2, <1>3, ReplayEndsDir

LEMMA OpenDir ==
  ASSUME DirInv, NEW p \in Process, OpenProjection(p)
  PROVE  StoreInv'
<1>1. /\ p \in Replayer /\ phase[p] = "held" /\ job[p] = "open" /\ OpenPath(p)
      /\ half' = half \cup {handle'[p]} /\ job' = [job EXCEPT ![p] = "rebuild"]
      /\ UNCHANGED <<log, pending, seen, todo, nextId, torn, lockFile, phase, contended>>
  BY Roles DEF OpenProjection, Running, lockVars
<1>0. /\ job \in [Process -> {"lock", "backup", "open", "rebuild", "end"}]
      /\ handle \in [Process -> 0..Len(files)] /\ path \in 0..Len(files)
      /\ half \subseteq 1..Len(files) /\ Len(files) \in Nat
  BY DEF DirInv, StoreInv, DirTyped
<1>2. /\ files' \in Seq(Seq(Line)) /\ Len(files) <= Len(files')
      /\ \A f \in 1..Len(files) : files'[f] = files[f]
      /\ path' \in 1..Len(files')
      /\ handle' = [handle EXCEPT ![p] = path']
      /\ handle' \in [Process -> 0..Len(files')]
      /\ \/ path # 0 /\ path' = path /\ files' = files
         \/ /\ path = 0 /\ path' = Len(files) + 1 /\ Len(files') = Len(files) + 1
            /\ files'[path'] = << >>
  BY <1>1, FileOpened DEF DirInv, StoreInv
<1>3. /\ handle'[p] = path' /\ \A q \in Process : q # p => handle'[q] = handle[q]
      /\ job'[p] = "rebuild" /\ \A q \in Process : q # p => job'[q] = job[q]
      /\ job' \in [Process -> {"lock", "backup", "open", "rebuild", "end"}]
  BY <1>0, <1>1, <1>2
<1>4. pending[p] = NoEvent
  BY <1>1 DEF DirInv, StoreInv, OpenFiles
<1>5. \A f \in 1..Len(files') : (f \in 1..Len(files) /\ files'[f] = files[f]) \/ files'[f] = << >>
  BY <1>0, <1>2
<1>6. DirTyped'
  <2>0. Len(files') \in Nat
    BY <1>2
  <2>1. half' \subseteq 1..Len(files') /\ path' \in 0..Len(files')
    <3>1. half' = half \cup {path'}
      BY <1>1, <1>3
    <3>2. 1..Len(files) \subseteq 1..Len(files')
      BY <1>0, <1>2, <2>0
    <3>3. path' \in 0..Len(files')
      BY <1>2, <2>0
    <3> QED BY <1>0, <1>2, <3>1, <3>2, <3>3, Zenon
  <2> QED BY <1>1, <1>2, <1>3, <2>1 DEF DirInv, StoreInv, DirTyped
<1>7. IdsUsed' /\ IdsDiffer' /\ TodoIsRead'
  <2>1. \A f \in 1..Len(files') : \A i \in 1..Len(files'[f]) : files'[f][i].id < nextId
    BY <1>5 DEF DirInv, StoreInv, IdsUsed
  <2>2. IdsUsed'
    BY <1>1, <2>1 DEF DirInv, StoreInv, IdsUsed
  <2>3. IdsDiffer' /\ TodoIsRead'
    BY <1>1 DEF DirInv, StoreInv, IdsDiffer, TodoIsRead
  <2> QED BY <2>2, <2>3
<1>8. TornShows'
  <2>1. Clean' = Clean /\ torn' = torn /\ \A x : Logged(x)' = Logged(x)
    BY <1>1 DEF Clean, Logged
  <2>2. ASSUME ~torn PROVE \A f \in 1..Len(files') : \A i \in 1..Len(files'[f]) :
                             files'[f][i].type # "ARCHIVE" => Logged(files'[f][i])
    <3> SUFFICES ASSUME NEW f \in 1..Len(files'), NEW i \in 1..Len(files'[f]),
                        files'[f][i].type # "ARCHIVE"
                 PROVE  Logged(files'[f][i])
      OBVIOUS
    <3>1. f \in 1..Len(files) /\ files'[f] = files[f]
      BY <1>5
    <3> QED BY <2>2, <3>1 DEF DirInv, StoreInv, TornShows
  <2> QED BY <1>1, <2>1, <2>2 DEF DirInv, StoreInv, TornShows
<1>9. OpenFiles'
  <2>1. \A q \in Process : q # p => (Running(q)' <=> Running(q))
    BY <1>1, <1>3 DEF Running
  <2>2. \A q \in Process : handle[q] # 0 => handle'[q] # 0
    BY <1>0, <1>2, <1>3
  <2>3. \A q \in Process : Replays(q)' => Replays(q) /\ (job'[q] = "rebuild" => job[q] = "rebuild" \/ q = p)
    BY <1>1, <1>3 DEF Replays
  <2>4. handle'[p] # 0
    BY <1>2, <1>3
  <2>5. \A q \in Process : pending'[q] # NoEvent => q \notin Replayer /\ Running(q)'
    BY <1>1, <1>4, <2>1 DEF DirInv, StoreInv, OpenFiles
  <2>6. \A q \in Process : q \in Resumer /\ phase'[q] \in Engaged => handle'[q] # 0
    BY <1>1, <2>2 DEF DirInv, StoreInv, OpenFiles
  <2>7. ASSUME NEW q \in Process, Replays(q)'
        PROVE  /\ phase'[q] \in {"held", "dead"}
               /\ phase'[q] = "held" => (torn' => seen'[q] # Len(log'))
                                    /\ (job'[q] = "rebuild" => handle'[q] # 0)
    BY <1>1, <2>2, <2>3, <2>4, <2>7 DEF DirInv, StoreInv, OpenFiles
  <2> QED BY <2>5, <2>6, <2>7 DEF OpenFiles
<1>10. PartialHasBuilder'
  BY <1>1, <1>3 DEF PartialHasBuilder
<1>11. AloneBuilds'
  <2> SUFFICES ASSUME ~contended PROVE (DbDistinct /\ PendingIsNew)'
        /\ \A q \in Replayer : phase[q] = "held" => Building(q)'
    BY <1>1 DEF AloneBuilds, Replays
  <2>1. DbDistinct'
    <3> SUFFICES ASSUME NEW f \in 1..Len(files'), NEW i \in 1..Len(files'[f]),
                        NEW j \in 1..Len(files'[f]), i # j, files'[f][i].id # 0
                 PROVE  files'[f][i].id # files'[f][j].id
      BY DEF DbDistinct
    <3>1. f \in 1..Len(files) /\ files'[f] = files[f]
      BY <1>5
    <3> QED BY <3>1 DEF DirInv, StoreInv, AloneBuilds, DbDistinct
  <2>2. PendingIsNew'
    <3> SUFFICES ASSUME NEW q \in Process, pending[q] # NoEvent
                 PROVE  \A i \in 1..Len(files'[handle'[q]]) :
                          files'[handle'[q]][i].id # pending[q].id
      BY <1>1 DEF PendingIsNew
    <3>1. handle'[q] = handle[q] /\ handle[q] \in 1..Len(files)
      BY <1>3, <1>4, PendingHasDatabase
    <3>2. files'[handle'[q]] = files[handle[q]]
      BY <1>2, <3>1
    <3> QED BY <3>2 DEF DirInv, StoreInv, AloneBuilds, PendingIsNew
  <2>3. ASSUME NEW q \in Replayer, phase[q] = "held" PROVE Building(q)'
    <3>1. q = p
      BY <1>1, <2>3, HolderIsAlone, Roles
    <3>2. Building(p) /\ Len(todo[p]) = seen[p] /\ seen[p] \in Nat
      BY <1>1 DEF DirInv, StoreInv, DirTyped, AloneBuilds, Replays, Building
    <3>3. /\ \A i \in 1..Len(files'[path']) : \A k \in 1..Len(todo[p]) :
               files'[path'][i].id # 0 => files'[path'][i].id # todo[p][k].id
          /\ \A r \in Process : pending[r] # NoEvent /\ handle'[r] = path' =>
               \A k \in 1..seen[p] : log[k].id # pending[r].id
          /\ seen[p] = Len(log) =>
               /\ Len(files'[path']) + Len(todo[p]) = seen[p]
               /\ \A i \in 1..Len(files'[path']) : files'[path'][i] = log[i]
      <4>1. CASE path # 0
        <5>1. path' = path /\ files' = files
          BY <1>2, <4>1
        <5>2. \A r \in Process : pending[r] # NoEvent => handle'[r] = handle[r]
          BY <1>3, <1>4
        <5>3. /\ \A i \in 1..Len(files[path]) : \A k \in 1..Len(todo[p]) :
                   files[path][i].id # 0 => files[path][i].id # todo[p][k].id
              /\ \A r \in Process : pending[r] # NoEvent /\ handle[r] = path =>
                   \A k \in 1..seen[p] : log[k].id # pending[r].id
              /\ seen[p] = Len(log) =>
                   /\ Len(files[path]) + Len(todo[p]) = seen[p]
                   /\ \A i \in 1..Len(files[path]) : files[path][i] = log[i]
          BY <1>1, <3>2, <4>1 DEF Building
        <5> QED BY <5>1, <5>2, <5>3
      <4>2. CASE path = 0
        <5>1. Len(files'[path']) = 0
          BY <1>2, <4>2
        <5>2. \A r \in Process : pending[r] # NoEvent => handle'[r] # path'
          BY <1>0, <1>2, <1>3, <1>4, <4>2
        <5> QED BY <3>2, <5>1, <5>2
      <4> QED BY <4>1, <4>2
    <3> QED BY <1>1, <1>3, <3>1, <3>3 DEF Building
  <2> QED BY <2>1, <2>2, <2>3
<1> QED BY <1>6, <1>7, <1>8, <1>9, <1>10, <1>11 DEF StoreInv

(* A replay projects the next event it read.                                *)
LEMMA RebuildDir ==
  ASSUME DirInv, NEW p \in Process, RebuildOne(p)
  PROVE  StoreInv'
<1> DEFINE e == Head(todo[p])
           h == handle[p]
           n == Len(todo[p])
<1>1. /\ p \in Replayer /\ phase[p] = "held" /\ job[p] = "rebuild" /\ todo[p] # << >>
      /\ files' = [files EXCEPT ![h] = Append(@, e)] /\ todo' = [todo EXCEPT ![p] = Tail(@)]
      /\ UNCHANGED <<log, path, half, handle, pending, job, seen, nextId, torn,
                     lockFile, phase, contended>>
  BY Roles DEF RebuildOne, Running, lockVars
<1>0. /\ files \in Seq(Seq(Line)) /\ todo \in [Process -> Seq(Line)] /\ log \in Seq(Line)
      /\ seen[p] \in Nat /\ Len(log) \in Nat /\ handle \in [Process -> 0..Len(files)]
      /\ nextId \in Nat
  BY DEF DirInv, StoreInv, DirTyped
<1>2. h \in 1..Len(files)
  <2>1. handle[p] # 0
    BY <1>1 DEF DirInv, StoreInv, OpenFiles, Replays
  <2> QED BY <1>0, <2>1
<1>3. /\ n \in Nat /\ n >= 1 /\ e = todo[p][1] /\ e \in Line
      /\ Tail(todo[p]) \in Seq(Line) /\ Len(Tail(todo[p])) = n - 1
      /\ \A i \in 1..(n - 1) : Tail(todo[p])[i] = todo[p][i + 1]
  <2>1. todo[p] \in Seq(Line)
    BY <1>0
  <2> QED BY <1>1, <2>1
<1>4. /\ todo'[p] = Tail(todo[p]) /\ \A q \in Process : q # p => todo'[q] = todo[q]
      /\ todo' \in [Process -> Seq(Line)]
  BY <1>0, <1>1, <1>3
<1>5. /\ seen[p] <= Len(log) /\ n <= seen[p]
      /\ \A i \in 1..n : todo[p][i] = log[seen[p] - n + i] /\ todo[p][i] # Torn
  BY DEF DirInv, StoreInv, TodoIsRead
<1> HIDE DEF e, h, n
<1>6. seen[p] - n + 1 \in 1..seen[p] /\ e = log[seen[p] - n + 1]
  BY <1>0, <1>3, <1>5
<1>7. e.id < nextId /\ Logged(e)
  <2>1. seen[p] - n + 1 \in 1..Len(log)
    BY <1>0, <1>5, <1>6
  <2> QED BY <1>6, <2>1 DEF DirInv, StoreInv, IdsUsed, Logged
<1>8. /\ files' \in Seq(Seq(Line)) /\ Len(files') = Len(files)
      /\ \A f \in 1..Len(files) : f # h => files'[f] = files[f]
      /\ \A f \in 1..Len(files) : \A i \in 1..Len(files'[f]) :
           \/ i \in 1..Len(files[f]) /\ files'[f][i] = files[f][i]
           \/ f = h /\ i = Len(files[h]) + 1 /\ files'[f][i] = e
      /\ Len(files'[h]) = Len(files[h]) + 1
  BY <1>1, <1>2, <1>3, DatabaseGrew DEF DirInv, StoreInv
<1>9. nextId' = nextId /\ nextId' >= nextId /\ nextId' \in Nat
  BY <1>0, <1>1
<1>10. /\ \A f \in 1..Len(files') : \A i \in 1..Len(files'[f]) : files'[f][i].id < nextId'
       /\ DbDistinct /\ (e.id # 0 => \A i \in 1..Len(files[h]) : files[h][i].id # e.id)
            => DbDistinct'
       /\ ~torn /\ (e.type # "ARCHIVE" => Logged(e)) =>
            \A f \in 1..Len(files') : \A i \in 1..Len(files'[f]) :
              files'[f][i].type # "ARCHIVE" => Logged(files'[f][i])
  BY <1>1, <1>2, <1>3, <1>7, <1>9, GrewKeeps
<1>11. DirTyped'
  BY <1>1, <1>4, <1>8 DEF DirInv, StoreInv, DirTyped
<1>12. IdsUsed' /\ IdsDiffer'
  BY <1>1, <1>10 DEF DirInv, StoreInv, IdsUsed, IdsDiffer
<1>13. TodoIsRead'
  <2> SUFFICES ASSUME NEW q \in Process
               PROVE  /\ seen[q] <= Len(log) /\ Len(todo'[q]) <= seen[q]
                      /\ \A i \in 1..Len(todo'[q]) :
                           /\ todo'[q][i] = log[seen[q] - Len(todo'[q]) + i]
                           /\ todo'[q][i] # Torn
    BY <1>1 DEF TodoIsRead
  <2>1. CASE q # p
    BY <1>4, <2>1 DEF DirInv, StoreInv, TodoIsRead
  <2>2. CASE q = p
    <3>1. Len(todo'[p]) = n - 1 /\ n - 1 <= seen[p]
      BY <1>0, <1>3, <1>4, <1>5
    <3>2. ASSUME NEW i \in 1..(n - 1)
          PROVE  todo'[p][i] = log[seen[p] - (n - 1) + i] /\ todo'[p][i] # Torn
      <4>0. \A s \in Nat : i + 1 \in 1..n /\ s - n + (i + 1) = s - (n - 1) + i
        BY <1>3
      <4>1. i + 1 \in 1..n /\ seen[p] - n + (i + 1) = seen[p] - (n - 1) + i
        BY <1>0, <4>0, Zenon
      <4>2. todo'[p][i] = todo[p][i + 1]
        BY <1>3, <1>4
      <4>3. todo[p][i + 1] = log[seen[p] - n + (i + 1)] /\ todo[p][i + 1] # Torn
        BY <1>5, <4>1
      <4> QED BY <4>1, <4>2, <4>3
    <3> QED BY <1>5, <2>2, <3>1, <3>2
  <2> QED BY <2>1, <2>2
<1>14. TornShows'
  <2>1. Clean' = Clean /\ torn' = torn /\ \A x : Logged(x)' = Logged(x)
    BY <1>1 DEF Clean, Logged
  <2>2. ~torn => \A f \in 1..Len(files') : \A i \in 1..Len(files'[f]) :
          files'[f][i].type # "ARCHIVE" => Logged(files'[f][i])
    BY <1>7, <1>10
  <2> QED BY <1>1, <2>1, <2>2 DEF DirInv, StoreInv, TornShows
<1>15. OpenFiles'
  <2>1. \A q \in Process : Running(q)' = Running(q)
    BY <1>1 DEF Running
  <2> QED BY <1>1, <2>1 DEF DirInv, StoreInv, OpenFiles, Replays
<1>16. PartialHasBuilder'
  BY <1>1 DEF DirInv, StoreInv, PartialHasBuilder
<1>17. AloneBuilds'
  <2> SUFFICES ASSUME ~contended PROVE (DbDistinct /\ PendingIsNew)'
        /\ \A q \in Replayer : phase[q] = "held" => Building(q)'
    BY <1>1 DEF AloneBuilds, Replays
  <2>0. DbDistinct /\ PendingIsNew /\ Building(p)
    BY <1>1 DEF DirInv, StoreInv, AloneBuilds, Replays
  <2>1. path = h /\ path # 0 /\ path \in 1..Len(files)
    BY <1>1, <1>2, <2>0 DEF Building, h
  <2>2. /\ \A i \in 1..Len(files[h]) : \A k \in 1..n :
             files[h][i].id # 0 => files[h][i].id # todo[p][k].id
        /\ \A r \in Process : pending[r] # NoEvent /\ handle[r] = h =>
             \A k \in 1..seen[p] : log[k].id # pending[r].id
        /\ seen[p] = Len(log) =>
             /\ Len(files[h]) + n = seen[p]
             /\ \A i \in 1..Len(files[h]) : files[h][i] = log[i]
    BY <1>1, <2>0, <2>1 DEF Building, n
  <2>3. DbDistinct'
    <3>1. ASSUME e.id # 0, NEW i \in 1..Len(files[h]) PROVE files[h][i].id # e.id
      <4>1. 1 \in 1..n
        BY <1>3
      <4> QED BY <1>3, <2>2, <3>1, <4>1
    <3> QED BY <1>10, <2>0, <3>1
  <2>4. PendingIsNew'
    <3> SUFFICES ASSUME NEW q \in Process, pending[q] # NoEvent,
                        NEW i \in 1..Len(files'[handle[q]])
                 PROVE  files'[handle[q]][i].id # pending[q].id
      BY <1>1 DEF PendingIsNew
    <3>1. handle[q] \in 1..Len(files)
      BY PendingHasDatabase
    <3>2. CASE i \in 1..Len(files[handle[q]]) /\ files'[handle[q]][i] = files[handle[q]][i]
      BY <2>0, <3>2 DEF PendingIsNew
    <3>3. CASE handle[q] = h /\ files'[handle[q]][i] = e
      BY <1>6, <2>2, <3>3
    <3> QED BY <1>8, <3>1, <3>2, <3>3
  <2>5. ASSUME NEW q \in Replayer, phase[q] = "held" PROVE Building(q)'
    <3>1. q = p
      BY <1>1, <2>5, HolderIsAlone, Roles
    <3>2. Len(todo'[p]) = n - 1 /\ \A i \in 1..(n - 1) : todo'[p][i] = todo[p][i + 1]
      BY <1>3, <1>4
    <3>3. \A i \in 1..Len(files'[h]) : \A k \in 1..(n - 1) :
            files'[h][i].id # 0 => files'[h][i].id # todo'[p][k].id
      <4> SUFFICES ASSUME NEW i \in 1..Len(files'[h]), NEW k \in 1..(n - 1),
                          files'[h][i].id # 0
                   PROVE  files'[h][i].id # todo'[p][k].id
        OBVIOUS
      <4>1. k + 1 \in 1..n /\ todo'[p][k] = todo[p][k + 1]
        BY <1>3, <3>2
      <4>2. CASE i \in 1..Len(files[h]) /\ files'[h][i] = files[h][i]
        BY <2>2, <4>1, <4>2
      <4>3. CASE files'[h][i] = e
        <5>1. todo[p][k + 1] = log[seen[p] - n + (k + 1)]
          BY <1>5, <4>1
        <5>2. /\ seen[p] - n + (k + 1) \in 1..Len(log) /\ seen[p] - n + 1 \in 1..Len(log)
              /\ seen[p] - n + (k + 1) # seen[p] - n + 1
          BY <1>0, <1>3, <1>5
        <5> QED BY <1>6, <4>1, <4>3, <5>1, <5>2 DEF DirInv, StoreInv, IdsDiffer
      <4> QED BY <1>2, <1>8, <4>2, <4>3
    <3>4. seen[p] = Len(log) =>
            /\ Len(files'[h]) + (n - 1) = seen[p]
            /\ \A i \in 1..Len(files'[h]) : files'[h][i] = log[i]
      <4> SUFFICES ASSUME seen[p] = Len(log)
                   PROVE  /\ Len(files'[h]) + (n - 1) = seen[p]
                          /\ \A i \in 1..Len(files'[h]) : files'[h][i] = log[i]
        OBVIOUS
      <4>1. Len(files[h]) \in Nat /\ Len(files[h]) + n = seen[p]
        BY <1>0, <1>2, <2>2
      <4>2. Len(files'[h]) + (n - 1) = seen[p]
        <5>1. \A m \in Nat : (m + 1) + (n - 1) = m + n
          BY <1>3
        <5>2. Len(files'[h]) = Len(files[h]) + 1
          BY <1>8, Zenon
        <5>3. (Len(files[h]) + 1) + (n - 1) = Len(files[h]) + n
          BY <4>1, <5>1, Zenon
        <5> QED BY <4>1, <5>2, <5>3, Zenon
      <4>3. Len(files[h]) + 1 = seen[p] - n + 1
        <5>1. \A m, s \in Nat : m + n = s => m + 1 = s - n + 1
          BY <1>3
        <5> QED BY <1>0, <4>1, <5>1, Zenon
      <4>4. \A i \in 1..Len(files'[h]) : files'[h][i] = log[i]
        BY <1>2, <1>6, <1>8, <2>2, <4>3
      <4> QED BY <4>2, <4>4
    <3>5. handle'[p] = h /\ path' = h /\ job'[p] = "rebuild"
      BY <1>1, <2>1 DEF h
    <3>6. \A r \in Process : pending'[r] # NoEvent /\ handle'[r] = h =>
            \A k \in 1..seen'[p] : log'[k].id # pending'[r].id
      BY <1>1, <2>2
    <3>7. seen'[p] = seen[p] /\ log' = log
      BY <1>1
    <3>8. path' = handle'[p] /\ job'[p] # "backup" /\ job'[p] # "open"
      BY <3>5
    <3>9. \A i \in 1..Len(files'[path']) : \A k \in 1..Len(todo'[p]) :
            files'[path'][i].id # 0 => files'[path'][i].id # todo'[p][k].id
      BY <3>2, <3>3, <3>5, Zenon
    <3>10. \A r \in Process : pending'[r] # NoEvent /\ handle'[r] = path' =>
             \A k \in 1..seen'[p] : log'[k].id # pending'[r].id
      BY <3>5, <3>6, Zenon
    <3>11. seen'[p] = Len(log') =>
             /\ Len(files'[path']) + Len(todo'[p]) = seen'[p]
             /\ \A i \in 1..Len(files'[path']) : files'[path'][i] = log'[i]
      BY <3>2, <3>4, <3>5, <3>7, Zenon
    <3> QED BY <3>1, <3>8, <3>9, <3>10, <3>11, Zenon DEF Building
  <2> QED BY <2>3, <2>4, <2>5
<1> QED BY <1>11, <1>12, <1>13, <1>14, <1>15, <1>16, <1>17 DEF StoreInv

(* A command archives: the database grows by a row change of no event, the  *)
(* log by an event that is not projected, and the command ends.             *)
LEMMA ArchiveDir ==
  ASSUME DirInv, NEW p \in Process, Archive(p)
  PROVE  StoreInv'
<1> DEFINE e == Event(nextId, "REQ_COMPLETED", "none", 0)
           a == Event(0, "ARCHIVE", "none", 0)
           h == handle[p]
<1>1. /\ p \in Command /\ Running(p) /\ pending[p] = NoEvent /\ Len(log) < MaxLog
      /\ files' = [files EXCEPT ![h] = Append(@, a)] /\ AppendLine(e)
      /\ nextId' = nextId + 1 /\ phase' = [phase EXCEPT ![p] = "done"]
      /\ handle' = [handle EXCEPT ![p] = 0]
      /\ UNCHANGED <<path, half, pending, job, seen, todo, torn, contended>>
  BY DEF Archive
<1>0. /\ pending \in [Process -> Line] /\ handle \in [Process -> 0..Len(files)]
      /\ nextId \in Nat /\ nextId >= 1 /\ files \in Seq(Seq(Line)) /\ log \in Seq(Line)
      /\ phase \in [Process -> Phase]
  BY DEF DirInv, StoreInv, DirTyped, LockInv, LockTypeOK
<1>2. /\ e \in Line /\ a \in Line /\ e.id = nextId /\ a.id = 0 /\ a.type = "ARCHIVE"
  BY <1>0, LinesTyped DEF Event
<1>3. h \in 1..Len(files)
  BY <1>0, <1>1, Roles DEF Running
<1>4. p \notin Replayer /\ p \notin Resumer
  BY <1>1, Roles
<1>5. /\ handle'[p] = 0 /\ phase'[p] = "done"
      /\ \A q \in Process : q # p => handle'[q] = handle[q] /\ phase'[q] = phase[q]
      /\ handle' \in [Process -> 0..Len(files)]
  BY <1>0, <1>1
<1> HIDE DEF e, a, h
<1>6. /\ log' \in Seq(Line) /\ Len(log') <= MaxLog /\ Len(log) <= Len(log')
      /\ \A i \in 1..Len(log') : log'[i].id < nextId'
      /\ \A i, j \in 1..Len(log') : i # j /\ log'[i].id # 0 => log'[i].id # log'[j].id
      /\ TodoIsRead' /\ (torn' <=> ~Clean')
      /\ \A i \in 1..Len(log) : i # Len(log) => log'[i] = log[i]
      /\ ~torn => /\ Len(log') = Len(log) + 1
                  /\ \A i \in 1..Len(log) : log'[i] = log[i]
                  /\ log'[Len(log) + 1] = e
  BY <1>1, <1>2, EventLogged
<1>7. /\ files' \in Seq(Seq(Line)) /\ Len(files') = Len(files)
      /\ \A f \in 1..Len(files) : f # h => files'[f] = files[f]
      /\ \A f \in 1..Len(files) : \A i \in 1..Len(files'[f]) :
           \/ i \in 1..Len(files[f]) /\ files'[f][i] = files[f][i]
           \/ f = h /\ i = Len(files[h]) + 1 /\ files'[f][i] = a
  <2>1. DirTyped /\ a \in Line /\ files' = [files EXCEPT ![h] = Append(@, a)]
    BY <1>1, <1>2 DEF DirInv, StoreInv
  <2> QED BY <1>3, <2>1, DatabaseGrew
<1>8. nextId' \in Nat /\ nextId' >= nextId /\ a.id < nextId
  BY <1>0, <1>1, <1>2
<1>9. /\ \A f \in 1..Len(files') : \A i \in 1..Len(files'[f]) : files'[f][i].id < nextId'
      /\ DbDistinct /\ (a.id # 0 => \A i \in 1..Len(files[h]) : files[h][i].id # a.id)
           => DbDistinct'
  BY <1>1, <1>2, <1>3, <1>8, GrewKeeps
<1>10. DirTyped'
  BY <1>1, <1>5, <1>6, <1>7, <1>8 DEF DirInv, StoreInv, DirTyped
<1>11. IdsUsed'
  <2>1. \A q \in Process : pending'[q].id < nextId'
    <3> TAKE q \in Process
    <3>1. pending[q].id \in Nat /\ pending[q].id < nextId /\ pending' = pending
      BY <1>1, IdsAreNumbers DEF DirInv, StoreInv, IdsUsed
    <3> QED BY <1>0, <1>8, <3>1
  <2> QED BY <1>6, <1>9, <2>1 DEF IdsUsed
<1>12. IdsDiffer'
  BY <1>1, <1>6 DEF DirInv, StoreInv, IdsDiffer
<1>13. TornShows'
  <2> SUFFICES ASSUME ~torn
               PROVE  /\ \A q \in Process : pending[q] # NoEvent =>
                           \E j \in 1..Len(log') : log'[j] = pending[q]
                      /\ \A f \in 1..Len(files') : \A i \in 1..Len(files'[f]) :
                           files'[f][i].type # "ARCHIVE" =>
                             \E j \in 1..Len(log') : log'[j] = files'[f][i]
    BY <1>1, <1>6 DEF TornShows, Logged
  <2>0. ASSUME NEW x, Logged(x) PROVE \E j \in 1..Len(log') : log'[j] = x
    <3>1. PICK j \in 1..Len(log) : log[j] = x
      BY <2>0 DEF Logged
    <3>2. j \in 1..Len(log') /\ log'[j] = x
      BY <1>0, <1>6, <3>1
    <3> QED BY <3>2
  <2>1. ASSUME NEW q \in Process, pending[q] # NoEvent
        PROVE  \E j \in 1..Len(log') : log'[j] = pending[q]
    <3>1. Logged(pending[q])
      BY <2>1 DEF DirInv, StoreInv, TornShows
    <3> QED BY <2>0, <3>1
  <2>2. ASSUME NEW f \in 1..Len(files'), NEW i \in 1..Len(files'[f]),
               files'[f][i].type # "ARCHIVE"
        PROVE  \E j \in 1..Len(log') : log'[j] = files'[f][i]
    <3>1. f \in 1..Len(files) /\ i \in 1..Len(files[f]) /\ files'[f][i] = files[f][i]
      BY <1>2, <1>7, <2>2
    <3>2. Logged(files'[f][i])
      BY <2>2, <3>1 DEF DirInv, StoreInv, TornShows
    <3> QED BY <2>0, <3>2
  <2> QED BY <2>1, <2>2
<1>14. OpenFiles'
  <2>1. \A q \in Process : q # p => (Running(q)' <=> Running(q))
    BY <1>5 DEF Running
  <2>2. \A q \in Process : pending'[q] # NoEvent => q \notin Replayer /\ Running(q)'
    BY <1>1, <2>1 DEF DirInv, StoreInv, OpenFiles
  <2>3. \A q \in Process : q \in Resumer /\ phase'[q] \in Engaged => handle'[q] # 0
    BY <1>4, <1>5 DEF DirInv, StoreInv, OpenFiles
  <2>4. ASSUME NEW q \in Process, Replays(q)'
        PROVE  /\ phase'[q] \in {"held", "dead"}
               /\ phase'[q] = "held" => (torn' => seen'[q] # Len(log'))
                                    /\ (job'[q] = "rebuild" => handle'[q] # 0)
    <3>1. Replays(q) /\ q # p
      BY <1>1, <1>4, <2>4 DEF Replays
    <3>2. (torn => seen[q] # Len(log)) => (torn => seen[q] # Len(log'))
      BY <1>6, ReadUntouched
    <3> QED BY <1>1, <1>5, <3>1, <3>2 DEF DirInv, StoreInv, OpenFiles
  <2> QED BY <2>2, <2>3, <2>4 DEF OpenFiles
<1>15. PartialHasBuilder'
  <2>1. \A q \in Replayer : q # p /\ q \in Process
    BY <1>4, Roles
  <2>2. \A q \in Replayer : phase'[q] = phase[q] /\ handle'[q] = handle[q]
    BY <1>5, <2>1
  <2>3. path \in half => \E q \in Replayer :
          job[q] = "rebuild" /\ (phase[q] = "dead" \/ handle[q] = path)
    BY DEF DirInv, StoreInv, PartialHasBuilder
  <2> QED BY <1>1, <2>2, <2>3 DEF PartialHasBuilder
<1>16. AloneBuilds'
  <2> SUFFICES ASSUME ~contended PROVE (DbDistinct /\ PendingIsNew)'
        /\ \A q \in Replayer : Replays(q) /\ phase[q] = "held" => Building(q)'
    <3>1. \A q \in Replayer : phase'[q] = phase[q]
      BY <1>4, <1>5, Roles
    <3> QED BY <1>1, <3>1 DEF AloneBuilds, Replays
  <2>1. DbDistinct'
    BY <1>2, <1>9 DEF DirInv, StoreInv, AloneBuilds
  <2>2. PendingIsNew'
    <3> SUFFICES ASSUME NEW q \in Process, pending[q] # NoEvent,
                        NEW i \in 1..Len(files'[handle'[q]])
                 PROVE  files'[handle'[q]][i].id # pending[q].id
      BY <1>1 DEF PendingIsNew
    <3>1. handle'[q] = handle[q] /\ handle[q] \in 1..Len(files) /\ pending[q].id # 0
      BY <1>1, <1>5, PendingHasDatabase DEF DirInv, StoreInv, IdsDiffer
    <3>2. CASE i \in 1..Len(files[handle[q]]) /\ files'[handle[q]][i] = files[handle[q]][i]
      BY <3>1, <3>2 DEF DirInv, StoreInv, AloneBuilds, PendingIsNew
    <3>3. CASE files'[handle[q]][i] = a
      BY <1>2, <3>1, <3>3
    <3> QED BY <1>7, <3>1, <3>2, <3>3
  <2>3. ASSUME NEW q \in Replayer, Replays(q), phase[q] = "held" PROVE Building(q)'
    <3>1. q \in Process /\ q # p /\ Building(q) /\ (torn => seen[q] # Len(log))
      BY <1>4, <2>3, Roles DEF DirInv, StoreInv, AloneBuilds, OpenFiles
    <3>2. seen[q] # Len(log') /\ \A i \in 1..seen[q] : log'[i] = log[i]
      BY <1>6, <3>1, ReadUntouched
    <3>3. \A i \in 1..Len(log) : log[i].id < nextId
      BY DEF DirInv, StoreInv, IdsUsed
    <3>4. \A r \in Process : pending'[r] = NoEvent \/ pending'[r].id >= nextId
                            \/ (pending'[r] = pending[r] /\ handle'[r] = handle[r])
      BY <1>1, <1>5
    <3>5. path # 0 => \A i \in 1..Len(files'[path]) :
            files'[path][i].id = 0
            \/ (i \in 1..Len(files[path]) /\ files'[path][i] = files[path][i])
      <4>1. path # 0 => path \in 1..Len(files)
        BY DEF DirInv, StoreInv, DirTyped
      <4> QED BY <1>2, <1>7, <4>1
    <3> QED BY <1>1, <1>5, <2>3, <3>1, <3>2, <3>3, <3>4, <3>5, StillBuilding
  <2> QED BY <2>1, <2>2, <2>3
<1> QED BY <1>6, <1>10, <1>11, <1>12, <1>13, <1>14, <1>15, <1>16 DEF StoreInv

LEMMA DirInvStep == DirInv /\ [DirNext]_dirVars => DirInv'
<1> SUFFICES ASSUME DirInv, [DirNext]_dirVars PROVE DirInv'
  OBVIOUS
<1>1. LockInv'
  BY DirStepKeeps DEF DirInv
<1>2. CASE UNCHANGED dirVars
  <2>1. UNCHANGED <<log, files, path, half, handle, pending, job, seen, todo, nextId, torn,
                    lockFile, phase, contended>>
    BY <1>2 DEF dirVars, lockVars, storeVars
  <2>2. DirTyped' /\ IdsUsed' /\ IdsDiffer' /\ TodoIsRead'
    BY <2>1 DEF DirInv, StoreInv, DirTyped, IdsUsed, IdsDiffer, TodoIsRead
  <2>3. TornShows'
    BY <2>1 DEF DirInv, StoreInv, TornShows, Clean, Logged
  <2>4. OpenFiles' /\ PartialHasBuilder'
    BY <2>1 DEF DirInv, StoreInv, OpenFiles, Replays, Running, PartialHasBuilder
  <2>5. AloneBuilds'
    <3>1. DbDistinct' = DbDistinct /\ PendingIsNew' = PendingIsNew
      BY <2>1 DEF DbDistinct, PendingIsNew
    <3>2. ASSUME NEW q \in Replayer PROVE Building(q) => Building(q)'
      BY <2>1, SameBuilding
    <3>3. \A q \in Replayer : Replays(q)' = Replays(q)
      BY <2>1 DEF Replays
    <3> QED BY <2>1, <3>1, <3>2, <3>3 DEF DirInv, StoreInv, AloneBuilds
  <2> QED BY <1>1, <2>2, <2>3, <2>4, <2>5 DEF DirInv, StoreInv
<1>3. CASE MachineCrash
  BY <1>1, <1>3, CrashDir DEF DirInv
<1>4. ASSUME NEW p \in Process,
             \/ LoadStores(p) \/ LockStep(p) \/ AppendEvent(p) \/ ShortWrite(p)
             \/ ProjectPending(p)
      PROVE  DirInv'
  BY <1>1, <1>4, LoadStoresDir, LockStepDir, AppendDir, ShortWriteDir, ProjectDir DEF DirInv
<1>5. ASSUME NEW p \in Process, Archive(p) \/ CommandEnds(p) \/ Kill(p)
      PROVE  DirInv'
  BY <1>1, <1>5, ArchiveDir, EndsDir DEF DirInv
<1>6. ASSUME NEW p \in Process,
             \/ ReplayReads(p) \/ BackupProjectionDB(p) \/ OpenProjection(p)
             \/ RebuildOne(p) \/ RebuildDone(p) \/ RebuildFails(p)
      PROVE  DirInv'
  BY <1>1, <1>6, ReadsDir, BackupDir, OpenDir, RebuildDir, DoneDir DEF DirInv
<1> QED BY <1>2, <1>3, <1>4, <1>5, <1>6 DEF DirNext

LEMMA DirInvHolds == DirSpec => []DirInv
BY DirInitially, DirInvStep, PTL DEF DirSpec

(* The types and the bounds of DirTypeOK.                                   *)
THEOREM DirectoryTyped == DirSpec => []DirTypeOK
<1>1. DirInv => DirTypeOK
  <2> SUFFICES ASSUME DirInv PROVE DirTypeOK
    OBVIOUS
  <2>1. \A p \in Process : seen[p] \in Nat /\ seen[p] <= MaxLog
    BY Roles DEF DirInv, StoreInv, DirTyped, TodoIsRead
  <2>2. seen \in [Process -> 0..MaxLog]
    BY <2>1, Roles DEF DirInv, StoreInv, DirTyped
  <2> QED BY <2>2 DEF DirTypeOK, DirInv, StoreInv, DirTyped, LockInv
<1> QED BY <1>1, DirInvHolds, PTL

(* A projection that was only partly rebuilt is at vxd.db only while the    *)
(* replay is at work, or after it was killed: a failed replay removes it.   *)
THEOREM NoPartialProjection == DirSpec => []PartialOnlyIfInterrupted
<1>1. DirInv => PartialOnlyIfInterrupted
  BY DEF DirInv, StoreInv, PartialHasBuilder, PartialOnlyIfInterrupted
<1> QED BY <1>1, DirInvHolds, PTL

(* Without a torn line, whatever any database shows of events is in the     *)
(* log, for any number of processes, lines and databases.                   *)
THEOREM LogIsTheSource == DirSpec => []ProjectedIsLogged
<1>1. DirInv => ProjectedIsLogged
  <2> SUFFICES ASSUME DirInv, ~torn, NEW db \in Databases, NEW i \in 1..Len(db),
                      db[i].type # "ARCHIVE"
               PROVE  \E j \in 1..Len(log) : log[j] = db[i]
    BY DEF ProjectedIsLogged
  <2>1. PICK f \in 1..Len(files) : db = files[f]
    BY DEF Databases
  <2>2. Logged(files[f][i])
    BY <2>1 DEF DirInv, StoreInv, TornShows
  <2> QED BY <2>1, <2>2 DEF Logged
<1> QED BY <1>1, DirInvHolds, PTL

(* No database has an event projected into it twice, unless the lock was    *)
(* taken beside or over another process.                                    *)
THEOREM ProjectedOnce == DirSpec => []NoDoubleProjection
<1>1. DirInv => NoDoubleProjection
  <2> SUFFICES ASSUME DirInv, ~contended, NEW db \in Databases,
                      NEW i \in 1..Len(db), NEW j \in 1..Len(db), i # j, db[i].id # 0
               PROVE  db[i].id # db[j].id
    BY DEF NoDoubleProjection
  <2>1. PICK f \in 1..Len(files) : db = files[f]
    BY DEF Databases
  <2> QED BY <2>1 DEF DirInv, StoreInv, AloneBuilds, DbDistinct
<1> QED BY <1>1, DirInvHolds, PTL

(* A replay that ends well has, in the database at vxd.db, the log.         *)
LEMMA RebuiltIsLog ==
  ASSUME DirInv, ~contended, NEW p \in Replayer, RebuildDone(p), seen[p] = Len(log)
  PROVE  path # 0 => path = handle[p] /\ files[path] = log
<1> SUFFICES ASSUME path # 0 PROVE path = handle[p] /\ files[path] = log
  OBVIOUS
<1>1. phase[p] = "held" /\ job[p] = "rebuild" /\ todo[p] = << >>
  BY Roles DEF RebuildDone, Running
<1>2. Building(p)
  BY <1>1 DEF DirInv, StoreInv, AloneBuilds, Replays
<1>3. /\ path = handle[p] /\ Len(files[path]) + Len(todo[p]) = Len(log)
      /\ \A i \in 1..Len(files[path]) : files[path][i] = log[i]
  BY <1>1, <1>2 DEF Building
<1>4. files[path] \in Seq(Line) /\ log \in Seq(Line)
  BY DEF DirInv, StoreInv, DirTyped
<1>5. Len(files[path]) = Len(log)
  BY <1>1, <1>3, <1>4
<1> QED BY <1>3, <1>4, <1>5

(* When a replay reports success, nobody appended since it read the log and *)
(* nobody took the lock beside another process, vxd.db shows exactly the    *)
(* log, whatever lost projections, kills and failed replays came before.    *)
THEOREM ReplayIsRepair == DirSpec => ReplayRepairs
<1> DEFINE Repairs ==
      \A p \in Replayer :
        /\ job[p] = "rebuild" /\ job'[p] = "end" /\ half' # half /\ path' # 0
        /\ seen[p] = Len(log) /\ ~contended
        => path' = handle[p] /\ Tables(files'[path']) = Tables(log)
<1>1. DirInv /\ [DirNext]_dirVars => [Repairs]_dirVars
  <2> SUFFICES ASSUME DirInv, DirNext, NEW p \in Replayer,
                      job[p] = "rebuild", job'[p] = "end", half' # half, path' # 0,
                      seen[p] = Len(log), ~contended
               PROVE  path' = handle[p] /\ Tables(files'[path']) = Tables(log)
    OBVIOUS
  <2>1. RebuildDone(p)
    <3>1. p \in Process /\ job \in [Process -> {"lock", "backup", "open", "rebuild", "end"}]
      BY Roles DEF DirInv, StoreInv, DirTyped
    <3>2. ~MachineCrash
      BY DEF MachineCrash
    <3>3. ASSUME NEW q \in Process,
                 \/ LoadStores(q) \/ LockStep(q) \/ AppendEvent(q) \/ ShortWrite(q)
                 \/ ProjectPending(q) \/ Archive(q) \/ CommandEnds(q) \/ Kill(q) \/ ReplayReads(q)
                 \/ BackupProjectionDB(q) \/ RebuildOne(q)
          PROVE  FALSE
      BY <3>3 DEF LoadStores, LockStep, AppendEvent, ShortWrite, ProjectPending, Archive,
                  CommandEnds, Kill, ReplayReads, BackupProjectionDB, RebuildOne, storeVars
    <3>4. ASSUME NEW q \in Process, OpenProjection(q) \/ RebuildFails(q) PROVE FALSE
      BY <3>1, <3>4 DEF OpenProjection, RebuildFails
    <3>5. ASSUME NEW q \in Process, RebuildDone(q) PROVE q = p
      BY <3>1, <3>5 DEF RebuildDone
    <3> QED BY <3>2, <3>3, <3>4, <3>5 DEF DirNext
  <2>2. path' = path /\ files' = files
    BY <2>1 DEF RebuildDone
  <2>3. path = handle[p] /\ files[path] = log
    BY <2>1, <2>2, RebuiltIsLog
  <2> QED BY <2>2, <2>3
<1> QED BY <1>1, DirInvHolds, PTL DEF DirSpec, ReplayRepairs
=============================================================================

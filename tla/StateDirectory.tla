--------------------------- MODULE StateDirectory ---------------------------
(***************************************************************************)
(* A project directory: the event log (events.jsonl), the SQLite           *)
(* projection at vxd.db, the run lock, and the processes that use them.    *)
(* vxd resume opens the stores and then takes the lock; commands such as   *)
(* approve open the stores and take no lock; vxd replay takes the lock and *)
(* rebuilds the projection from the log.                                   *)
(*                                                                         *)
(* A database file is the sequence of what was projected into it; its rows *)
(* are Tables of that sequence.  A process keeps the file it has opened    *)
(* even when replay moves it aside.                                        *)
(***************************************************************************)
EXTENDS RunLock, ProjectionTables

CONSTANTS
  Resumer, Command, Replayer,   \* what each process runs
  Candidate,                    \* what may be appended: <<type, story, arg>>
  MaxLog, MaxFiles              \* bounds of the model: log lines, database files

ASSUME ProcessAssumption ==
  /\ Process = Resumer \cup Command \cup Replayer
  /\ Resumer \cap Command = {} /\ Resumer \cap Replayer = {} /\ Command \cap Replayer = {}
  /\ MaxLog \in Nat /\ MaxFiles \in Nat

VARIABLES
  log,      \* the lines of events.jsonl
  files,    \* every vxd.db that ever existed, as the sequence projected into it
  path,     \* which of them is at vxd.db; 0 is none
  half,     \* the files a replay left partly rebuilt
  handle,   \* the file each process has open; 0 is none
  pending,  \* what each process appended and has not projected yet
  job,      \* where each replay is
  seen,     \* how much of the log each replay read
  todo,     \* what of it each replay has not projected yet
  nextId,   \* ULIDs
  torn      \* history: a machine crash or a short Write tore a line

storeVars == <<log, files, path, half, handle, pending, job, seen, todo, nextId, torn>>
dirVars == <<lockVars, storeVars>>

NoEvent == [id |-> 0, type |-> "none", story |-> "none", arg |-> 0]

(* A torn line has no newline, so the next line continues it.              *)
Torn    == [id |-> 0, type |-> "torn", story |-> "none", arg |-> 0]
Corrupt == [id |-> 0, type |-> "corrupt", story |-> "none", arg |-> 0]
Readable(e) == e.type \notin {"torn", "corrupt"}

(* FileStore.List and Count skip what does not decode.                     *)
Readables(lines) == SelectSeq(lines, Readable)

Running(p) ==
  \/ p \in Command /\ phase[p] = "new" /\ handle[p] # 0
  \/ p \notin Command /\ phase[p] = "held"

DirInit ==
  /\ LockInit
  /\ log = << >> /\ files = << >> /\ path = 0 /\ half = {}
  /\ handle = [p \in Process |-> 0]
  /\ pending = [p \in Process |-> NoEvent]
  /\ job = [p \in Process |-> "lock"]
  /\ seen = [p \in Process |-> 0]
  /\ todo = [p \in Process |-> << >>]
  /\ nextId = 1 /\ torn = FALSE

(* Mistake: the name is taken, the database is not created.                *)
OpenPathUncreated(p) ==
  /\ path' = IF path = 0 THEN Len(files) + 1 ELSE path
  /\ handle' = [handle EXCEPT ![p] = path']
  /\ UNCHANGED files

(* NewSQLiteStore creates vxd.db when it is missing.                       *)
OpenPath(p) ==
  IF path = 0
  THEN /\ Len(files) < MaxFiles
       /\ files' = Append(files, << >>)
       /\ path' = Len(files) + 1
       /\ handle' = [handle EXCEPT ![p] = Len(files) + 1]
  ELSE handle' = [handle EXCEPT ![p] = path] /\ UNCHANGED <<files, path>>

(* loadStores: every command but replay, and before resume locks.          *)
LoadStores(p) ==
  /\ p \in Resumer \cup Command
  /\ phase[p] = "new" /\ handle[p] = 0
  /\ OpenPath(p)
  /\ UNCHANGED <<log, half, pending, job, seen, todo, nextId, torn, lockVars>>

LockStep(p) ==
  /\ \/ p \in Resumer /\ handle[p] # 0 /\ (AcquireLock(p) \/ ForceAcquireLock(p))
     \/ p \in Replayer /\ AcquireLock(p)
     \/ TruncateLock(p) \/ WriteLock(p) \/ WriteUnlinked(p)
     \/ /\ pending[p] = NoEvent /\ (p \in Replayer => job[p] = "end")
        /\ ReleaseLock(p)
  /\ UNCHANGED storeVars

(* FileStore.Append.  The line is written by one Write (ShortWrite is one  *)
(* that fails); if the Sync after it fails the caller gets an error and    *)
(* does not project.                                                       *)
AppendLine(e) ==
  log' = IF log # << >> /\ Last(log) = Torn
         THEN [log EXCEPT ![Len(log)] = Corrupt] ELSE Append(log, e)

(* Mistake: a failed write is not reported, and the event is projected.    *)
AppendEventUnchecked(p) ==
  /\ Running(p) /\ p \notin Replayer /\ pending[p] = NoEvent /\ nextId <= MaxLog
  /\ \E c \in Candidate :
       pending' = [pending EXCEPT ![p] = Event(nextId, c[1], c[2], c[3])]
  /\ nextId' = nextId + 1
  /\ UNCHANGED <<log, files, path, half, handle, job, seen, todo, torn, lockVars>>

AppendEvent(p) ==
  /\ Running(p) /\ p \notin Replayer /\ pending[p] = NoEvent
  /\ Len(log) < MaxLog /\ nextId <= MaxLog
  /\ \E c \in Candidate :
       LET e == Event(nextId, c[1], c[2], c[3]) IN
       /\ AppendLine(e)
       /\ \E synced \in BOOLEAN :
            pending' = [pending EXCEPT ![p] = IF synced THEN e ELSE NoEvent]
  /\ nextId' = nextId + 1
  /\ UNCHANGED <<files, path, half, handle, job, seen, todo, torn, lockVars>>

(* Project after Append: an error is logged or returned, the event stays   *)
(* in the log.                                                             *)
ProjectPending(p) ==
  /\ pending[p] # NoEvent
  /\ pending' = [pending EXCEPT ![p] = NoEvent]
  /\ \/ files' = [files EXCEPT ![handle[p]] =
                    IF Rejects(Tables(@), pending[p]) THEN @ ELSE Append(@, pending[p])]
     \/ UNCHANGED files
  /\ UNCHANGED <<log, path, half, handle, job, seen, todo, nextId, torn, lockVars>>

(* runArchive: both tables are written directly, then REQ_COMPLETED is     *)
(* appended and not projected.                                             *)
Archive(p) ==
  /\ p \in Command /\ Running(p) /\ pending[p] = NoEvent
  /\ Tables(files[handle[p]]).req # "none"
  /\ Len(log) < MaxLog /\ nextId <= MaxLog
  /\ files' = [files EXCEPT ![handle[p]] = Append(@, Event(0, "ARCHIVE", "none", 0))]
  /\ AppendLine(Event(nextId, "REQ_COMPLETED", "none", 0))
  /\ nextId' = nextId + 1
  /\ phase' = [phase EXCEPT ![p] = "done"]
  /\ handle' = [handle EXCEPT ![p] = 0]
  /\ UNCHANGED <<path, half, pending, job, seen, todo, torn, lockFile, contended>>

CommandEnds(p) ==
  /\ p \in Command /\ Running(p) /\ pending[p] = NoEvent
  /\ phase' = [phase EXCEPT ![p] = "done"]
  /\ handle' = [handle EXCEPT ![p] = 0]
  /\ UNCHANGED <<log, files, path, half, pending, job, seen, todo, nextId, torn,
                 lockFile, contended>>

(* readEventsFile: corrupt lines end the replay before it touches the       *)
(* database, and so does a log that is not there, because nobody has opened *)
(* the stores; one that is there and empty is replayed like any other.  (A  *)
(* log that cannot be read, and --dry-run, end it as a failed backup does.) *)
ReplayReads(p) ==
  /\ p \in Replayer /\ Running(p) /\ job[p] = "lock"
  /\ IF files = << >> \/ \E i \in 1..Len(log) : ~Readable(log[i])
     THEN job' = [job EXCEPT ![p] = "end"] /\ UNCHANGED <<seen, todo>>
     ELSE /\ job' = [job EXCEPT ![p] = "backup"]
          /\ seen' = [seen EXCEPT ![p] = Len(log)]
          /\ todo' = [todo EXCEPT ![p] = log]
  /\ UNCHANGED <<log, files, path, half, handle, pending, nextId, torn, lockVars>>

(* Mistake: the old database is left in place and projected into again.    *)
NoBackup(p) ==
  /\ p \in Replayer /\ Running(p) /\ job[p] = "backup"
  /\ job' = [job EXCEPT ![p] = "open"]
  /\ UNCHANGED <<log, files, path, half, handle, pending, seen, todo, nextId, torn, lockVars>>

(* backupProjectionDB: the database, if any, is renamed.  It refuses to    *)
(* reuse the name of a backup of the same second, and the move of a        *)
(* sidecar may fail after the database itself has moved.                   *)
BackupProjectionDB(p) ==
  /\ p \in Replayer /\ Running(p) /\ job[p] = "backup"
  /\ \/ path' = 0 /\ job' = [job EXCEPT ![p] = "open"]
     \/ path' = 0 /\ job' = [job EXCEPT ![p] = "end"]
     \/ path # 0 /\ job' = [job EXCEPT ![p] = "end"] /\ UNCHANGED path
  /\ UNCHANGED <<log, files, half, handle, pending, seen, todo, nextId, torn, lockVars>>

(* openProjection: a command may have re-created an empty vxd.db.          *)
OpenProjection(p) ==
  /\ p \in Replayer /\ Running(p) /\ job[p] = "open"
  /\ OpenPath(p)
  /\ half' = half \cup {handle'[p]}
  /\ job' = [job EXCEPT ![p] = "rebuild"]
  /\ UNCHANGED <<log, pending, seen, todo, nextId, torn, lockVars>>

(* Mistake: an event that cannot be projected is skipped.                  *)
RebuildOneTolerant(p) ==
  /\ p \in Replayer /\ Running(p) /\ job[p] = "rebuild" /\ todo[p] # << >>
  /\ \/ files' = [files EXCEPT ![handle[p]] = Append(@, Head(todo[p]))]
     \/ UNCHANGED files
  /\ todo' = [todo EXCEPT ![p] = Tail(@)]
  /\ UNCHANGED <<log, path, half, handle, pending, job, seen, nextId, torn, lockVars>>

(* rebuildAndClose, one event at a time.                                   *)
RebuildOne(p) ==
  /\ p \in Replayer /\ Running(p) /\ job[p] = "rebuild" /\ todo[p] # << >>
  /\ ~Rejects(Tables(files[handle[p]]), Head(todo[p]))
  /\ files' = [files EXCEPT ![handle[p]] = Append(@, Head(todo[p]))]
  /\ todo' = [todo EXCEPT ![p] = Tail(@)]
  /\ UNCHANGED <<log, path, half, handle, pending, job, seen, nextId, torn, lockVars>>

RebuildDone(p) ==
  /\ p \in Replayer /\ Running(p) /\ job[p] = "rebuild"
  /\ todo[p] = << >>
  /\ half' = half \ {handle[p]}
  /\ job' = [job EXCEPT ![p] = "end"]
  /\ UNCHANGED <<log, files, path, handle, pending, seen, todo, nextId, torn, lockVars>>

(* Mistake: what was built before the failure is left at vxd.db.           *)
RebuildFailsInPlace(p) ==
  /\ p \in Replayer /\ Running(p) /\ job[p] = "rebuild"
  /\ job' = [job EXCEPT ![p] = "end"]
  /\ UNCHANGED <<log, files, path, half, handle, pending, seen, todo, nextId, torn, lockVars>>

(* failedRebuildErr: opening, projecting or closing failed; whatever is at *)
(* vxd.db is removed.                                                      *)
RebuildFails(p) ==
  /\ p \in Replayer /\ Running(p) /\ job[p] \in {"open", "rebuild"}
  /\ path' = 0
  /\ half' = half \ {path}
  /\ job' = [job EXCEPT ![p] = "end"]
  /\ UNCHANGED <<log, files, handle, pending, seen, todo, nextId, torn, lockVars>>

(* kill -9, or a panic: nothing deferred runs, and the memory is gone.     *)
Kill(p) ==
  /\ ProcessAlive(p) \/ (p \in Command /\ Running(p))
  /\ phase' = [phase EXCEPT ![p] = "dead"]
  /\ handle' = [handle EXCEPT ![p] = 0]
  /\ pending' = [pending EXCEPT ![p] = NoEvent]
  /\ seen' = [seen EXCEPT ![p] = 0] /\ todo' = [todo EXCEPT ![p] = << >>]
  /\ UNCHANGED <<log, files, path, half, job, nextId, torn, lockFile, contended>>

(* A part of a line reaches the file.                                      *)
TearLine(p) ==
  /\ Running(p) /\ p \notin Replayer /\ pending[p] = NoEvent
  /\ Len(log) < MaxLog
  /\ log' = IF log # << >> /\ Last(log) = Torn THEN log ELSE Append(log, Torn)
  /\ torn' = TRUE

(* The Write fails after a part of the line, on a full disk; the process   *)
(* gets an error, does not project, and goes on.                           *)
ShortWrite(p) ==
  /\ TearLine(p)
  /\ UNCHANGED <<files, path, half, handle, pending, job, seen, todo, nextId, lockVars>>

(* The machine goes down in the middle of an append.                       *)
MachineCrash ==
  /\ \E p \in Process : TearLine(p)
  /\ phase' = [p \in Process |->
                 IF ProcessAlive(p) \/ (p \in Command /\ handle[p] # 0)
                 THEN "dead" ELSE phase[p]]
  /\ handle' = [p \in Process |-> 0]
  /\ pending' = [p \in Process |-> NoEvent]
  /\ seen' = [p \in Process |-> 0] /\ todo' = [p \in Process |-> << >>]
  /\ UNCHANGED <<files, path, half, job, nextId, lockFile, contended>>

DirNext ==
  \/ MachineCrash
  \/ \E p \in Process :
       \/ LoadStores(p) \/ LockStep(p) \/ AppendEvent(p) \/ ShortWrite(p)
       \/ ProjectPending(p) \/ Archive(p) \/ CommandEnds(p)
       \/ ReplayReads(p) \/ BackupProjectionDB(p) \/ OpenProjection(p)
       \/ RebuildOne(p) \/ RebuildDone(p) \/ RebuildFails(p)
       \/ Kill(p)

DirSpec == DirInit /\ [][DirNext]_dirVars

---------------------------------------------------------------------------

Databases == {files[i] : i \in 1..Len(files)}

DirTypeOK ==
  /\ LockTypeOK
  /\ path \in 0..Len(files) /\ half \subseteq 1..Len(files)
  /\ handle \in [Process -> 0..Len(files)]
  /\ job \in [Process -> {"lock", "backup", "open", "rebuild", "end"}]
  /\ Len(log) <= MaxLog /\ seen \in [Process -> 0..MaxLog]

(* Unless two replays got past the lock, no database has an event          *)
(* projected into it twice, whatever commands and crashes overlap: a       *)
(* replay never goes into a database that already holds a part of the log, *)
(* and no process that still has to project can have opened the database a *)
(* replay builds (runReplay, backupProjectionDB, loadStores).              *)
NoDoubleProjection ==
  contended \/ \A db \in Databases : \A i, j \in 1..Len(db) :
    i # j /\ db[i].id # 0 => db[i].id # db[j].id

(* The log is the source of truth: what a database shows is in the log,    *)
(* unless a machine crash or a failed Write tore a line, which swallows    *)
(* the event that is appended after it as well (FileStore.Append,          *)
(* Project).                                                               *)
ProjectedIsLogged ==
  torn \/ \A db \in Databases : \A i \in 1..Len(db) :
            db[i].type # "ARCHIVE" => \E j \in 1..Len(log) : log[j] = db[i]

(* A database that was only partly rebuilt is not at vxd.db, where every   *)
(* command would take it for the projection, unless the replay that builds *)
(* it is still at work or was killed (failedRebuildErr,                    *)
(* discardFailedRebuild).                                                  *)
PartialOnlyIfInterrupted ==
  path \in half => \E p \in Replayer : job[p] = "rebuild"

(* Whatever lost projections, kills and failed replays came before: when a *)
(* replay reports success and nothing was appended since it read the log,  *)
(* vxd.db shows exactly the log (runReplay, rebuildAndClose).              *)
ReplayRepairs ==
  [][\A p \in Replayer :
       /\ job[p] = "rebuild" /\ job'[p] = "end" /\ half' # half /\ path' # 0
       /\ seen[p] = Len(log) /\ ~contended
       => path' = handle[p] /\ Tables(files'[path']) = Tables(log)]_dirVars

Archived == \E db \in Databases : \E i \in 1..Len(db) : db[i].type = "ARCHIVE"

(* "Archived requirements are hidden from the dashboard" and "the          *)
(* projection is disposable": an archived requirement is still archived in *)
(* the database a replay has rebuilt (runArchive, runReplay).              *)
ArchivedSurvivesReplay ==
  \A p \in Replayer :
    job[p] = "end" /\ handle[p] # 0 /\ handle[p] = path /\ Archived
    /\ seen[p] = Len(log) => Tables(files[path]).req = "archived"
=============================================================================

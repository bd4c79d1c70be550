----------------------------- MODULE Directory -----------------------------
(***************************************************************************)
(* The mining directories of one running rule (logmining/directory.go): a  *)
(* Directory object for the rule's directory and one for each subdirectory.*)
(* Each object has                                                         *)
(*   start     the call that reads the directory when the object is made,  *)
(*             run by whoever made it,                                     *)
(*   track     a goroutine that takes events of the directory's watch and  *)
(*             the request to close,                                       *)
(*   monitor   a goroutine that lets go of files of another day,           *)
(*   flusher   a goroutine that saves the positions of the listed files,   *)
(* and the last two outlive it.  mu is held from addDir to the end of the  *)
(* new object's start, and all through removeDir; what addFile, removeFile *)
(* and asyncFlush do under it is one step.  What a tail does with its file *)
(* is module Follower; here it lives until it takes a request to close, or *)
(* dies once it finds nothing at its path or one of its calls fails.  The  *)
(* calls for the file system, the watch and the positions may fail.        *)
(***************************************************************************)
EXTENDS Naturals, Sequences, FiniteSets

CONSTANTS
  Root,       \* the directory of the rule
  Subs,       \* paths of possible subdirectories of it
  Files,      \* paths of possible log files that match filePattern
  In,         \* the directory each file is in
  Date,       \* the day in each file's name
  LastDay,    \* bound: days that may come
  MaxMishaps, \* bound: creations, removals of subdirectories and failing calls
  DirIds,     \* identities for Directory objects
  FileIds,    \* identities for file objects
  Events,     \* what may happen to the files
  None

(* An event of a watch, a Directory object and a file object.              *)
EventRecs == [op : {"create", "remove"}, name : Files \cup Subs]
DirRecs   == [path : Subs \cup {Root}, listed : BOOLEAN, watching : BOOLEAN,
              evq : Seq(EventRecs),
              start : {"read", "list", "newDir"}, todo : SUBSET (Files \cup Subs),
              track : {"select", "addFile", "addDir", "newDir", "rmFile", "rmDir",
                       "rmDirFiles", "closing", "closeFile", "end"},
              arg : Files \cup Subs \cup FileIds \cup {None},
              left : SUBSET FileIds, mu : DirIds \cup {None}]
FileRecs  == [path : Files, dir : DirIds, listed : BOOLEAN, tail : {"live", "dead"},
              asked : BOOLEAN]

ASSUME DirectoryAssumption ==
  /\ Files \cap (Subs \cup {Root}) = {}
  /\ Root \notin Subs
  /\ DirIds # {}
  /\ In \in [Files -> Subs \cup {Root}]
  /\ LastDay \in Nat \ {0} /\ Date \in [Files -> 1 .. LastDay]
  /\ MaxMishaps \in Nat
  /\ Events \subseteq {"unlink", "rmdir", "rename", "early", "midnight", "stop"}
  /\ None \notin Subs \cup {Root} \cup Files \cup DirIds \cup FileIds

ASSUME NoneIsNoObject == None \notin DirRecs /\ None \notin FileRecs

VARIABLES
  day,      \* the date
  born,     \* the day on which the file at a path was created, 0 if there is none
  there,    \* the subdirectories that exist
  mishaps,  \* creations, removals of subdirectories and failing calls so far
  stopped,  \* the server asks the rule's directory to close
  dirs,     \* the Directory objects
  files,    \* the file objects
  pos,      \* the files with a saved position other than 0
  kept,     \* history: those whose position was saved before this START, or
            \* which a failing DEL has left there
  lost      \* history: the files that a failing call has left unfollowed

fs    == <<day, born, there, stopped>>
store == <<pos, kept>>
fails == <<mishaps, lost>>
vars  == <<fs, dirs, files, store, fails>>

(* listed: in the parent's dirMap; mu: the subdirectory object for which   *)
(* the mutex is held across steps; todo: the entries start has still to    *)
(* look at; arg: what track works on; left: the files it has still to      *)
(* close, remove or pass.                                                  *)
NewDir(p) == [path |-> p, listed |-> p = Root, watching |-> TRUE, evq |-> <<>>,
              start |-> "read", todo |-> {}, track |-> "select", arg |-> None,
              left |-> {}, mu |-> None]
NewFile(f, o) == [path |-> f, dir |-> o, listed |-> TRUE, tail |-> "live",
                  asked |-> FALSE]

Objs   == {o \in DirIds : dirs[o] # None}
Tails  == {i \in FileIds : files[i] # None}
FileMap(o) == {i \in Tails : files[i].dir = o /\ files[i].listed}
DirMap(o)  == IF dirs[o].path = Root
              THEN {c \in Objs : dirs[c].path # Root /\ dirs[c].listed} ELSE {}
Unlocked(o) == dirs[o].mu = None
Started(o)  == dirs[o].start = "list" /\ dirs[o].todo = {}

(* Objects are made only while identities are left: bounds of the model.   *)
DirLeft  == \E o \in DirIds : dirs[o] = None
FileLeft == \E i \in FileIds : files[i] = None
FreeDir  == CHOOSE o \in DirIds : dirs[o] = None
FreeFile == CHOOSE i \in FileIds : files[i] = None

-----------------------------------------------------------------------------
(* Pieces of the code, each with a slip that the properties must notice.   *)

(* isExpired compares the date in the name with today's.                   *)
NeverExpired(f) == FALSE
DayOfStart(f) == Date[f] # 1
Expired(f) == Date[f] # day

-----------------------------------------------------------------------------
(* The file system, seen through the watch of each directory.              *)

Mishap == mishaps < MaxMishaps /\ mishaps' = mishaps + 1

Event(op, n) == [op |-> op, name |-> n]

Notified(ds, p, e) ==
  [o \in DirIds |-> IF ds[o] # None /\ ds[o].path = p /\ ds[o].watching
                    THEN [ds[o] EXCEPT !.evq = Append(@, e)] ELSE ds[o]]

Exists(p) == p = Root \/ p \in there
Reading(p) == \E o \in Objs : dirs[o].path = p /\ ~Started(o)

(* A file is created on the day in its name or later.                      *)
CreateFile(f) ==
  /\ born[f] = 0 /\ Date[f] <= day
  /\ Exists(In[f])
  /\ Mishap
  /\ Reading(In[f]) => "early" \in Events
  /\ born' = [born EXCEPT ![f] = day]
  /\ dirs' = Notified(dirs, In[f], Event("create", f))
  /\ UNCHANGED <<day, there, stopped, files, store, lost>>

(* A file is removed or renamed; track has no case for a Rename event.     *)
Leave(f, how) ==
  /\ how \in Events
  /\ born[f] # 0
  /\ born' = [born EXCEPT ![f] = 0]
  /\ dirs' = IF how = "unlink" THEN Notified(dirs, In[f], Event("remove", f)) ELSE dirs
  /\ UNCHANGED <<day, there, stopped, files, store, fails>>

MakeDir(s) ==
  /\ s \notin there
  /\ Mishap
  /\ Reading(Root) => "early" \in Events
  /\ there' = there \cup {s}
  /\ dirs' = Notified(dirs, Root, Event("create", s))
  /\ UNCHANGED <<day, born, stopped, files, store, lost>>

Unwatched(ds, s) ==
  [o \in DirIds |-> IF ds[o] # None /\ ds[o].path = s
                    THEN [ds[o] EXCEPT !.watching = FALSE] ELSE ds[o]]

RemoveEmptyDir(s) ==
  /\ "rmdir" \in Events
  /\ s \in there
  /\ Reading(Root) => "early" \in Events
  /\ \A f \in Files : In[f] = s => born[f] = 0
  /\ Mishap
  /\ there' = there \ {s}
  /\ dirs' = Notified(Unwatched(dirs, s), Root, Event("remove", s))
  /\ UNCHANGED <<day, born, stopped, files, store, lost>>

Midnight ==
  /\ "midnight" \in Events
  /\ day < LastDay
  /\ day' = day + 1
  /\ UNCHANGED <<born, there, stopped, dirs, files, store, fails>>

StopRule ==
  /\ "stop" \in Events
  /\ ~stopped
  /\ \A o \in Objs : dirs[o].path = Root => Started(o)
  /\ stopped' = TRUE
  /\ UNCHANGED <<day, born, there, dirs, files, store, fails>>

-----------------------------------------------------------------------------
(* What objects leave behind.  A file object is forgotten when its tail    *)
(* has ended or been asked to, and neither fileMap nor a waiting track     *)
(* refers to it; a Directory object when its track has returned and it     *)
(* lists nothing.                                                          *)

Swept(fl, ds) ==
  [i \in FileIds |->
     IF /\ fl[i] # None /\ ~fl[i].listed
        /\ fl[i].tail = "dead" \/ fl[i].asked
        /\ \A o \in DirIds : ds[o] # None => ds[o].arg # i
     THEN None ELSE fl[i]]

Lists(fl, o) == \E i \in FileIds : fl[i] # None /\ fl[i].dir = o /\ fl[i].listed

Collected(ds, fl) ==
  [o \in DirIds |-> IF /\ ds[o] # None /\ ds[o].track = "end"
                       /\ ~ds[o].listed /\ ~Lists(fl, o)
                    THEN None ELSE ds[o]]

Become(ds, fl) == /\ files' = Swept(fl, ds)
                  /\ dirs' = Collected(ds, files')

Track(o, pc, a) == [dirs EXCEPT ![o].track = pc, ![o].arg = a]

-----------------------------------------------------------------------------
(* What is done under the mutex of o.                                      *)

(* newFile opens the file, and fails if it is gone; the map entry of the   *)
(* name is overwritten.                                                    *)
WithFile(f, o) ==
  IF born[f] = 0 THEN files
  ELSE [i \in FileIds |->
          IF i = FreeFile THEN NewFile(f, o)
          ELSE IF i \in FileMap(o) /\ files[i].path = f
               THEN [files[i] EXCEPT !.listed = FALSE] ELSE files[i]]

(* Positions.  addFile and addEventFile save 0 for a file that begins; a   *)
(* flush or a close saves what the tail has read, which may be nothing,    *)
(* unless the call fails.                                                  *)
Zeroed(f) == pos' = pos \ {f} /\ kept' = kept \ {f}
Saved(f) == \/ UNCHANGED store \/ Zeroed(f)
            \/ pos' = pos \cup {f} /\ kept' = kept \ {f}

(* A file added, or not: the call that saves its position reports an error *)
(* (and may be applied) or newFile fails though the file is there.  If the *)
(* latter is for a bad expression it leaves a tail that stops at its first *)
(* line, as nobody receives it: an open file and no more (file.go:44-60).  *)
Fails(F) == Mishap /\ lost' = lost \cup F
FileAdded(f, o, ds) == FileLeft /\ Become(ds, WithFile(f, o)) /\ UNCHANGED fails
FileRefused(f, ds) == /\ Fails({f})
                      /\ Zeroed(f) \/ UNCHANGED store
                      /\ dirs' = ds /\ UNCHANGED files

(* removeFile: close in a goroutine, delete the position and the entry.    *)
OnlyUnlisted(i) == [files EXCEPT ![i].listed = FALSE]
WithoutFile(i) == [files EXCEPT ![i].asked = TRUE, ![i].listed = FALSE]

(* NewDirectory makes the directory if it is not there (any more).         *)
Made(s, ds) == IF s \in there THEN ds ELSE Notified(ds, Root, Event("create", s))
WithDir(s, o, ds) == [Made(s, ds) EXCEPT ![FreeDir] = NewDir(s), ![o].mu = FreeDir]

(* It fails when that fails, or when the directory cannot be watched.      *)
DirRefused(s, ds) ==
  /\ Fails({f \in Files : In[f] = s})
  /\ \/ there' = there /\ dirs' = ds
     \/ there' = there \cup {s} /\ dirs' = Made(s, ds)

-----------------------------------------------------------------------------
(* start.                                                                  *)

FoundIn(p) == {f \in Files : In[f] = p /\ born[f] # 0}
                \cup (IF p = Root THEN there ELSE {})
ReadDir(o) ==
  /\ dirs[o].start = "read"
  /\ \/ /\ dirs' = [dirs EXCEPT ![o].start = "list", ![o].todo = FoundIn(dirs[o].path)]
        /\ UNCHANGED fails
     \/ /\ dirs' = [dirs EXCEPT ![o].start = "list", ![o].todo = {}]
        /\ Fails({f \in Files : dirs[o].path \in {In[f], Root}})
  /\ UNCHANGED <<fs, files, store>>

(* addFile takes up a saved position that it finds.                        *)
StartFile(o, f) ==
  /\ dirs[o].start = "list"
  /\ f \in dirs[o].todo \cap Files
  /\ LET ds == [dirs EXCEPT ![o].todo = @ \ {f}] IN
     \/ Expired(f) /\ dirs' = ds /\ UNCHANGED <<files, store, fails>>
     \/ /\ ~Expired(f) /\ Unlocked(o)
        /\ \/ f \in pos /\ FileAdded(f, o, ds) /\ UNCHANGED store
           \/ FileAdded(f, o, ds) /\ Zeroed(f)
           \/ FileRefused(f, ds)
  /\ UNCHANGED fs

StartDir(o, s) ==
  /\ dirs[o].start = "list"
  /\ s \in dirs[o].todo \cap Subs
  /\ Unlocked(o)
  /\ LET ds == [dirs EXCEPT ![o].todo = @ \ {s}] IN
     \/ /\ DirLeft
        /\ dirs' = WithDir(s, o, [ds EXCEPT ![o].start = "newDir"])
        /\ there' = there \cup {s}
        /\ UNCHANGED fails
     \/ DirRefused(s, ds)
  /\ UNCHANGED <<day, born, stopped, files, store>>

(* The subdirectory's NewDirectory returns to the addDir that called it.   *)
DirAdded(o) ==
  LET c == dirs[o].mu IN
  /\ "newDir" \in {dirs[o].start, dirs[o].track}
  /\ Started(c)
  /\ LET ds == [d \in DirIds |->
                  IF d = c THEN [dirs[c] EXCEPT !.listed = TRUE]
                  ELSE IF d \in Objs /\ dirs[d].path = dirs[c].path
                       THEN [dirs[d] EXCEPT !.listed = FALSE] ELSE dirs[d]]
         os == IF dirs[o].start = "newDir"
               THEN [dirs[o] EXCEPT !.start = "list", !.mu = None]
               ELSE [dirs[o] EXCEPT !.track = "select", !.arg = None, !.mu = None]
     IN Become([ds EXCEPT ![o] = os], files)
  /\ UNCHANGED <<fs, store, fails>>

-----------------------------------------------------------------------------
(* track: events.                                                          *)

(* What an event makes track do next: add what is there and wanted, remove *)
(* what it lists under the name.                                           *)
Wanted(o, e) ==
  CASE e.op = "create" /\ e.name \in Files ->
         IF born[e.name] # 0 /\ ~Expired(e.name) THEN "addFile" ELSE "select"
    [] e.op = "create" /\ e.name \in Subs ->
         IF e.name \in there THEN "addDir" ELSE "select"
    [] e.op = "remove" ->
         IF \E i \in FileMap(o) : files[i].path = e.name THEN "rmFile"
         ELSE IF \E c \in DirMap(o) : dirs[c].path = e.name THEN "rmDir" ELSE "select"

TakeEvent(o) ==
  /\ dirs[o].track = "select"
  /\ dirs[o].evq # <<>>
  /\ LET e  == Head(dirs[o].evq)
         pc == Wanted(o, e)
     IN dirs' = [dirs EXCEPT ![o].evq = Tail(@), ![o].track = pc,
                             ![o].arg = IF pc = "select" THEN None ELSE e.name]
  /\ UNCHANGED <<fs, files, store, fails>>

AddEventFile(o) ==
  /\ dirs[o].track = "addFile"
  /\ Unlocked(o)
  /\ LET f  == dirs[o].arg
         ds == Track(o, "select", None)
     IN \/ FileAdded(f, o, ds) /\ Zeroed(f)
        \/ FileRefused(f, ds)
  /\ UNCHANGED fs

AddEventDir(o) ==
  /\ dirs[o].track = "addDir"
  /\ Unlocked(o)
  /\ LET s == dirs[o].arg IN
     \/ /\ DirLeft
        /\ dirs' = WithDir(s, o, Track(o, "newDir", s))
        /\ there' = there \cup {s}
        /\ UNCHANGED fails
     \/ DirRefused(s, Track(o, "select", None))
  /\ UNCHANGED <<day, born, stopped, files, store>>

(* A DEL that fails is only logged.                                        *)
Keep(i) == UNCHANGED store
Forget(i) == \/ Zeroed(files[i].path)
             \/ UNCHANGED pos /\ kept' = kept \cup (pos \cap {files[i].path})

RemoveFile(o) ==
  /\ dirs[o].track = "rmFile"
  /\ Unlocked(o)
  /\ LET gone == {i \in FileMap(o) : files[i].path = dirs[o].arg} IN
     IF gone = {}
     THEN dirs' = Track(o, "select", None) /\ UNCHANGED <<files, store>>
     ELSE \E i \in gone : Forget(i) /\ Become(Track(o, "select", None), WithoutFile(i))
  /\ UNCHANGED <<fs, fails>>

(* removeDir: remove the files of the subdirectory, then close it.  A file *)
(* that the subdirectory adds meanwhile may be passed over.                *)
RemoveDir(o, c) ==
  /\ dirs[o].track = "rmDir"
  /\ c \in DirMap(o) /\ dirs[c].path = dirs[o].arg
  /\ Unlocked(o)
  /\ dirs' = [Track(o, "rmDirFiles", dirs[o].arg)
                EXCEPT ![o].mu = c, ![o].left = FileMap(c)]
  /\ UNCHANGED <<fs, files, store, fails>>

RemoveDirFile(o, i) ==
  LET c == dirs[o].mu IN
  /\ dirs[o].track = "rmDirFiles"
  /\ i \in FileMap(c)
  /\ Unlocked(c)
  /\ Forget(i)
  /\ Become([dirs EXCEPT ![o].left = @ \ {i}], WithoutFile(i))
  /\ UNCHANGED <<fs, fails>>

Closing(ds, o) == [ds EXCEPT ![o].track = "closing", ![o].left = FileMap(o)]

(* Close is received by the track of the subdirectory.                     *)
DirRemoved(o) ==
  LET c == dirs[o].mu IN
  /\ dirs[o].track = "rmDirFiles"
  /\ dirs[o].left \cap FileMap(c) = {}
  /\ Unlocked(c)
  /\ dirs[c].track = "select"
  /\ dirs' = [Closing(dirs, c) EXCEPT ![c].listed = FALSE, ![o].mu = None,
                ![o].track = "select", ![o].arg = None, ![o].left = {}]
  /\ UNCHANGED <<fs, files, store, fails>>

-----------------------------------------------------------------------------
(* track: the request to close.  It walks its maps without the mutex.      *)

TakeStop(o) ==
  /\ stopped
  /\ dirs[o].path = Root
  /\ dirs[o].track = "select"
  /\ dirs' = Closing(dirs, o)
  /\ UNCHANGED <<fs, files, store, fails>>

CloseFile(o, i) ==
  /\ dirs[o].track = "closing"
  /\ i \in dirs[o].left \cap FileMap(o)
  /\ dirs' = [Track(o, "closeFile", i) EXCEPT ![o].left = @ \ {i}]
  /\ UNCHANGED <<fs, files, store, fails>>

FileClosed(o) ==
  LET i == dirs[o].arg IN
  /\ dirs[o].track = "closeFile"
  /\ files[i].tail = "live"
  /\ Saved(files[i].path)
  /\ Become(Track(o, "closing", None), [files EXCEPT ![i].tail = "dead"])
  /\ UNCHANGED <<fs, fails>>

FilesClosed(o) == dirs[o].track = "closing" /\ dirs[o].left \cap FileMap(o) = {}
NotWaited(o) == TRUE
SubsTold(o) == \A c \in DirMap(o) : dirs[c].track \in {"closing", "closeFile", "end"}

CloseDir(o, c) ==
  /\ FilesClosed(o)
  /\ c \in DirMap(o)
  /\ dirs[c].track = "select"
  /\ dirs' = Closing(dirs, c)
  /\ UNCHANGED <<fs, files, store, fails>>

TrackEnd(o) ==
  /\ FilesClosed(o)
  /\ SubsTold(o)
  /\ Become([Track(o, "end", None) EXCEPT ![o].watching = FALSE, ![o].evq = <<>>,
                                          ![o].left = {}], files)
  /\ UNCHANGED <<fs, store, fails>>

-----------------------------------------------------------------------------
(* monitor, flusher and tails.                                             *)

LetGo(o, i) ==
  /\ Started(o)
  /\ i \in FileMap(o)
  /\ Expired(files[i].path)
  /\ Unlocked(o)
  /\ Forget(i)
  /\ Become(dirs, WithoutFile(i))
  /\ UNCHANGED <<fs, fails>>

(* asyncFlush saves the position of each file of o and of its              *)
(* subdirectories, one call after the other, the mutex of each taken under *)
(* that of o; the ticks that follow may do the same to the next file.      *)
KeyedByDir(i) == dirs[files[i].dir].path
Key(i) == files[i].path
Flush(o, i) ==
  /\ Started(o)
  /\ \A d \in {o} \cup DirMap(o) : Unlocked(d)
  /\ i \in UNION {FileMap(d) : d \in {o} \cup DirMap(o)}
  /\ Saved(Key(i))
  /\ UNCHANGED <<fs, dirs, files, fails>>

TailTakesClose(i) ==
  /\ files[i].tail = "live"
  /\ files[i].asked
  /\ Become(dirs, [files EXCEPT ![i].tail = "dead"])
  /\ UNCHANGED <<fs, store, fails>>

(* A tail ends when it finds nothing at its path, or when its watch, a     *)
(* read or a seek fails (follower.go:219).                                 *)
TailDies(i) ==
  /\ files[i].tail = "live"
  /\ IF born[files[i].path] = 0 THEN UNCHANGED fails ELSE Fails({files[i].path})
  /\ Become(dirs, [files EXCEPT ![i].tail = "dead"])
  /\ UNCHANGED <<fs, store>>

-----------------------------------------------------------------------------
(* START makes the object of the rule's directory, whatever is in it.      *)
Init ==
  /\ day = 1
  /\ there \in SUBSET Subs
  /\ born \in {b \in [Files -> {0, 1}] :
                 \A f \in Files : b[f] # 0 => Date[f] <= day /\ In[f] \in there \cup {Root}}
  /\ mishaps = 0
  /\ stopped = FALSE
  /\ dirs = [o \in DirIds |-> IF o = CHOOSE d \in DirIds : TRUE
                              THEN NewDir(Root) ELSE None]
  /\ files = [i \in FileIds |-> None]
  /\ pos \in SUBSET Files /\ kept = pos
  /\ lost = {}

World == \/ \E f \in Files : \/ CreateFile(f)
                             \/ \E how \in {"unlink", "rename"} : Leave(f, how)
         \/ \E s \in Subs : MakeDir(s) \/ RemoveEmptyDir(s)
         \/ Midnight \/ StopRule

StartNext(o) == \/ ReadDir(o) \/ DirAdded(o)
                \/ \E f \in Files : StartFile(o, f)
                \/ \E s \in Subs : StartDir(o, s)
TrackNext(o) == \/ TakeEvent(o) \/ AddEventFile(o) \/ AddEventDir(o) \/ RemoveFile(o)
                \/ \E c \in Objs : RemoveDir(o, c) \/ CloseDir(o, c)
                \/ \E i \in Tails : RemoveDirFile(o, i) \/ CloseFile(o, i)
                \/ DirRemoved(o) \/ TakeStop(o) \/ FileClosed(o) \/ TrackEnd(o)
Monitor(o) == \E i \in Tails : LetGo(o, i)
Flusher(o) == \E i \in Tails : Flush(o, i)
TailNext(i) == TailTakesClose(i) \/ TailDies(i)

Next == \/ World
        \/ \E o \in Objs : StartNext(o) \/ TrackNext(o) \/ Monitor(o) \/ Flusher(o)
        \/ \E i \in Tails : TailNext(i)

Spec == Init /\ [][Next]_vars

(* The goroutines do not all stand still while one of them can go on.  The *)
(* Go scheduler, select and mutex give more (each goroutine goes on in the *)
(* end), but this is all the properties need.  Every step of Work changes  *)
(* the objects; the flusher's steps are no progress, and nothing makes a   *)
(* tail find its file gone.                                                *)
Work == \/ \E o \in Objs : StartNext(o) \/ TrackNext(o) \/ Monitor(o)
        \/ \E i \in Tails : TailTakesClose(i)
Fairness == WF_<<dirs, files>>(Work)

FairSpec == Spec /\ Fairness

-----------------------------------------------------------------------------
(* Properties.                                                             *)

TypeOK ==
  /\ day \in 1 .. LastDay
  /\ born \in [Files -> 0 .. LastDay]
  /\ there \subseteq Subs
  /\ mishaps \in 0 .. MaxMishaps
  /\ stopped \in BOOLEAN
  /\ dirs \in [DirIds -> DirRecs \cup {None}]
  /\ files \in [FileIds -> FileRecs \cup {None}]
  /\ pos \subseteq Files /\ kept \subseteq pos
  /\ lost \subseteq Files

(* A directory somebody tends: it is reachable from the rule's directory   *)
(* and its track has not returned, or it is closing its files.             *)
Reachable(o) == \/ dirs[o].listed
                \/ \E p \in Objs : dirs[p].mu = o
Tended(o) == \/ dirs[o].track \in {"closing", "closeFile"}
             \/ Reachable(o) /\ dirs[o].track # "end"

(* A tail that nobody has asked to end is listed in a directory that is    *)
(* tended: STOP, a removal and the date monitor can reach it.  Otherwise   *)
(* the lines of its file are recorded twice, or after a STOP               *)
(* (directory.go:201, 226, 240, 148, 163).                                 *)
NoOrphanTail ==
  \A i \in Tails : files[i].tail = "live" /\ ~files[i].asked =>
    files[i].listed /\ Tended(files[i].dir)

(* Once every removal has been dealt with, the positions left are those of *)
(* files somebody lists, those a DEL failed to delete and those saved      *)
(* before this START: no flush and no close brings back a position that    *)
(* was deleted, so a new file of that name is read from its beginning.     *)
(* The close of a removed subdirectory may bring back the position of a    *)
(* file whose day is over, but nobody reads that file again                *)
(* (directory.go:113-128, 231-246, 341-343).                               *)
Quiet == \A o \in Objs : /\ dirs[o].evq = <<>> /\ dirs[o].track = "select"
                         /\ Started(o)
RemovedForgotten ==
  Quiet => \A f \in pos \ kept :
    \/ Date[f] < day
    \/ \E o \in Objs : Reachable(o) /\ \E i \in FileMap(o) : files[i].path = f

(* A file created on the day in its name is followed, for as long as that  *)
(* day lasts, the file stays and the rule is not stopped, unless a call    *)
(* for it or for its directory has failed: nothing tries such a call again *)
(* (directory.go:64-67, 190-200, 218-225, 279-283; follower.go:219).       *)
Followed(f) == \E i \in Tails : /\ files[i].path = f /\ files[i].tail = "live"
                                /\ ~files[i].asked
FollowedEventually ==
  \A f \in Files :
    born[f] = Date[f] ~> \/ Followed(f) \/ f \in lost
                         \/ born[f] # Date[f] \/ day # Date[f] \/ stopped

(* The tail of a file whose day is over ends, in a stopped rule too.       *)
ExpiredLetGo ==
  \A f \in Files :
    day # Date[f] ~> \A i \in Tails : files[i].path = f => files[i].tail = "dead"

(* A STOP ends every tail and the track of every directory, unless one of  *)
(* them waits for a tail that has ended by itself or by another request:   *)
(* that is the only thing it can wait for (directory.go:337-357).          *)
BlockedByDeadTail ==
  \E o \in Objs : dirs[o].track = "closeFile" /\ files[dirs[o].arg].tail = "dead"
StopEndsAll ==
  stopped ~> \/ BlockedByDeadTail
             \/ /\ \A o \in Objs : dirs[o].track = "end"
                /\ \A i \in Tails : files[i].tail = "dead"
=============================================================================

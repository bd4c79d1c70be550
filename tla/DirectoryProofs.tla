-------------------------- MODULE DirectoryProofs --------------------------
(* The invariant of Directory and its types.  An object is related to the  *)
(* others by the mutex that addDir and removeDir hold across steps and by  *)
(* the requests to close, to the files by its file map and by what a       *)
(* closing track has still to close, and the saved positions to the files  *)
(* that are listed.                                                        *)
EXTENDS Directory, TLAPS

DirMaps  == [DirIds -> DirRecs \cup {None}]
FileMaps == [FileIds -> FileRecs \cup {None}]

(* NewDirectory makes a Directory object as its type says                  *)
(* (directory.go:69-80).                                                   *)
LEMMA NewDirType ==
  ASSUME NEW p \in Subs \cup {Root}
  PROVE  NewDir(p) \in DirRecs
  BY DirectoryAssumption DEF NewDir, DirRecs

(* newFile makes a file object as its type says (directory.go:197, 222).   *)
LEMMA NewFileType ==
  ASSUME NEW f \in Files, NEW o \in DirIds
  PROVE  NewFile(f, o) \in FileRecs
  BY DEF NewFile, FileRecs

(* While identities are left, a new Directory object gets one that is not  *)
(* in use.                                                                 *)
LEMMA FreeDirType ==
  ASSUME DirLeft
  PROVE  FreeDir \in DirIds /\ dirs[FreeDir] = None
  BY DEF DirLeft, FreeDir

(* While identities are left, a new file object gets one that is not in    *)
(* use.                                                                    *)
LEMMA FreeFileType ==
  ASSUME FileLeft
  PROVE  FreeFile \in FileIds /\ files[FreeFile] = None
  BY DEF FileLeft, FreeFile

(* What the step that forgets objects does: every object either stays as   *)
(* it is or, when nothing refers to it any more, goes.                     *)
LEMMA BecomeFacts ==
  ASSUME NEW ds \in DirMaps, NEW fl \in FileMaps, Become(ds, fl)
  PROVE  /\ dirs' \in DirMaps /\ files' \in FileMaps
         /\ \A i \in FileIds :
              \/ files'[i] = fl[i]
              \/ /\ files'[i] = None /\ fl[i] # None /\ ~fl[i].listed
                 /\ fl[i].tail = "dead" \/ fl[i].asked
                 /\ \A o \in DirIds : ds[o] # None => ds[o].arg # i
         /\ \A o \in DirIds :
              \/ dirs'[o] = ds[o]
              \/ /\ dirs'[o] = None /\ ds[o] # None /\ ds[o].track = "end" /\ ~ds[o].listed
                 /\ \A i \in FileIds : fl[i] # None /\ fl[i].listed => fl[i].dir # o
<1>1. /\ files' \in FileMaps
      /\ \A i \in FileIds :
              \/ files'[i] = fl[i]
              \/ /\ files'[i] = None /\ fl[i] # None /\ ~fl[i].listed
                 /\ fl[i].tail = "dead" \/ fl[i].asked
                 /\ \A o \in DirIds : ds[o] # None => ds[o].arg # i
  BY DEF Become, Swept, FileMaps
<1>2. /\ dirs' \in DirMaps
      /\ \A o \in DirIds :
              \/ dirs'[o] = ds[o]
              \/ /\ dirs'[o] = None /\ ds[o] # None /\ ds[o].track = "end" /\ ~ds[o].listed
                 /\ \A i \in FileIds : fl[i] # None /\ fl[i].listed => fl[i].dir # o
  BY <1>1 DEF Become, Collected, DirMaps, Lists
<1> QED
  BY <1>1, <1>2

(* What addFile leaves in the file map: the new object, and its            *)
(* predecessor under the same name out of the map (directory.go:168-229).  *)
LEMMA WithFileFacts ==
  ASSUME files \in FileMaps, FileLeft, NEW f \in Files, NEW o \in DirIds
  PROVE  /\ WithFile(f, o) \in FileMaps
         /\ born[f] = 0 => WithFile(f, o) = files
         /\ born[f] # 0 => WithFile(f, o)[FreeFile] = NewFile(f, o)
         /\ \A i \in FileIds : born[f] # 0 /\ i # FreeFile =>
              WithFile(f, o)[i] =
                IF files[i] # None /\ files[i].dir = o /\ files[i].listed /\ files[i].path = f
                THEN [files[i] EXCEPT !.listed = FALSE] ELSE files[i]
<1>1. NewFile(f, o) \in FileRecs
  BY NewFileType
<1>2. FreeFile \in FileIds
  BY FreeFileType
<1>3. \A i \in FileIds : files[i] # None => [files[i] EXCEPT !.listed = FALSE] \in FileRecs
  BY DEF FileMaps, FileRecs
<1> QED
  BY <1>1, <1>2, <1>3 DEF WithFile, FileMaps, FileMap, Tails

(* What removeFile leaves in the file map (directory.go:231-246).          *)
LEMMA WithoutFileFacts ==
  ASSUME files \in FileMaps, NEW i \in Tails
  PROVE  /\ WithoutFile(i) \in FileMaps
         /\ WithoutFile(i)[i] = [files[i] EXCEPT !.asked = TRUE, !.listed = FALSE]
         /\ \A j \in FileIds \ {i} : WithoutFile(i)[j] = files[j]
  BY DEF WithoutFile, FileMaps, FileRecs, Tails

(* An object whose queue of events changes is still one.                   *)
LEMMA SetQueue ==
  ASSUME NEW r \in DirRecs, NEW q \in Seq(EventRecs)
  PROVE  [r EXCEPT !.evq = q] \in DirRecs
  BY DEF DirRecs

(* An object whose track goes elsewhere is still one.                      *)
LEMMA SetTrack ==
  ASSUME NEW r \in DirRecs,
         NEW pc \in {"select", "addFile", "addDir", "newDir", "rmFile", "rmDir",
                     "rmDirFiles", "closing", "closeFile", "end"},
         NEW a \in Files \cup Subs \cup FileIds \cup {None}
  PROVE  [r EXCEPT !.track = pc, !.arg = a] \in DirRecs
  BY DEF DirRecs

(* An object whose watch ends is still one.                                *)
LEMMA SetWatch ==
  ASSUME NEW r \in DirRecs, NEW w \in BOOLEAN
  PROVE  [r EXCEPT !.watching = w] \in DirRecs
  BY DEF DirRecs

(* An object that holds its mutex for c is still one.                      *)
LEMMA SetHold ==
  ASSUME NEW r \in DirRecs, NEW c \in DirIds, NEW h, h = [r EXCEPT !.mu = c]
  PROVE  /\ h \in DirRecs /\ h.mu = c
         /\ h.path = r.path /\ h.listed = r.listed /\ h.watching = r.watching /\ h.evq = r.evq
         /\ h.start = r.start /\ h.todo = r.todo /\ h.track = r.track /\ h.arg = r.arg /\ h.left = r.left
  BY DEF DirRecs

(* What Track does to the objects: only o changes, and only in its track   *)
(* and what that works on.                                                 *)
LEMMA TrackType ==
  ASSUME dirs \in DirMaps, NEW o \in Objs,
         NEW pc \in {"select", "addFile", "addDir", "newDir", "rmFile", "rmDir",
                       "rmDirFiles", "closing", "closeFile", "end"},
         NEW a \in Files \cup Subs \cup FileIds \cup {None}
  PROVE  /\ Track(o, pc, a) \in DirMaps
         /\ Track(o, pc, a)[o] = [dirs[o] EXCEPT !.track = pc, !.arg = a]
         /\ \A p \in DirIds \ {o} : Track(o, pc, a)[p] = dirs[p]
<1>1. dirs[o] \in DirRecs
  BY DEF DirMaps, Objs
<1>2. [dirs[o] EXCEPT !.track = pc, !.arg = a] \in DirRecs
  BY <1>1, SetTrack
<1>3. Track(o, pc, a) = [dirs EXCEPT ![o] = [dirs[o] EXCEPT !.track = pc, !.arg = a]]
  BY <1>1 DEF Track, DirMaps, DirRecs, Objs
<1> QED
  BY <1>2, <1>3 DEF DirMaps, Objs

(* A file system event goes to the queues of the objects that watch its    *)
(* directory.                                                              *)
LEMMA NotifiedFacts ==
  ASSUME NEW ds \in DirMaps, NEW p, NEW e \in EventRecs
  PROVE  /\ Notified(ds, p, e) \in DirMaps
         /\ \A o \in DirIds : Notified(ds, p, e)[o] =
              IF ds[o] # None /\ ds[o].path = p /\ ds[o].watching
              THEN [ds[o] EXCEPT !.evq = Append(@, e)] ELSE ds[o]
<1>1. \A o \in DirIds : ds[o] # None => [ds[o] EXCEPT !.evq = Append(@, e)] \in DirRecs
  <2> SUFFICES ASSUME NEW o \in DirIds, ds[o] # None
               PROVE  [ds[o] EXCEPT !.evq = Append(ds[o].evq, e)] \in DirRecs
    OBVIOUS
  <2>1. ds[o] \in DirRecs /\ ds[o].evq \in Seq(EventRecs)
    BY DEF DirMaps, DirRecs
  <2>2. Append(ds[o].evq, e) \in Seq(EventRecs)
    BY <2>1
  <2> QED
    BY <2>1, <2>2, SetQueue
<1> QED
  BY <1>1 DEF Notified, DirMaps

(* The goroutines of a record that has a file or subdirectory to be seen.  *)
Shut  == {"closing", "closeFile", "end"}
Busy  == {"newDir", "rmDirFiles"}
OfFile == {"addFile", "rmFile"}
OfDir  == {"addDir", "newDir", "rmDir", "rmDirFiles"}

Names(p) == {f \in Files : In[f] = p} \cup {s \in Subs : p = Root}
Begun(r) == r.start = "list" /\ r.todo = {}
Obj(ds)  == {o \in DirIds : ds[o] # None}
File(fl) == {i \in FileIds : fl[i] # None}

(* What each object satisfies by itself: the names in its queue and in     *)
(* what start has still to look at are entries of its directory; its track *)
(* works on something of the right kind; a mutex is held across steps by   *)
(* addDir and removeDir of the rule's directory only; it closes only once  *)
(* its start is over; and a subdirectory is listed only once its start is  *)
(* over.                                                                   *)
Local(r) ==
  /\ r.path = Root => r.listed
  /\ \A k \in DOMAIN r.evq : r.evq[k].name \in Names(r.path)
  /\ r.todo \subseteq Names(r.path)
  /\ r.track \in OfFile => r.arg \in Files /\ r.arg \in Names(r.path)
  /\ r.track \in OfDir => r.arg \in Subs /\ r.path = Root
  /\ r.mu = None => r.start # "newDir" /\ r.track \notin Busy
  /\ r.mu # None => r.path = Root /\ (r.start = "newDir" <=> r.track \notin Busy)
  /\ r.track \in Shut => Begun(r)
  /\ r.listed /\ r.path # Root => Begun(r)

Locals(ds) == \A o \in Obj(ds) : Local(ds[o])

(* There is one object for the rule's directory.                           *)
OneRoot(ds) == \A o, p \in Obj(ds) : ds[o].path = Root /\ ds[p].path = Root => o = p

(* What the object in hand of a running addDir or removeDir satisfies: it  *)
(* is another directory's, it has not been told to close, and it is listed *)
(* exactly in removeDir.                                                   *)
Held(ds, o) ==
  LET c == ds[o].mu IN
  /\ c \in Obj(ds)
  /\ ds[c].path # Root
  /\ ds[c].track \notin Shut
  /\ ds[o].track = "rmDirFiles" <=> ds[c].listed
  /\ ds[o].track \in Busy => ds[o].arg = ds[c].path
Holding(ds) == \A o \in Obj(ds) : ds[o].mu # None => Held(ds, o)

(* A STOP comes once the rule's directory has been read.                   *)
Stops(ds, st) == st => \A o \in Obj(ds) : ds[o].path = Root => Begun(ds[o])

(* A listed subdirectory is told to close only by the rule's directory,    *)
(* closing itself.                                                         *)
Told(ds) == \A o, c \in Obj(ds) :
  /\ ds[o].path = Root
  /\ ds[c].path # Root /\ ds[c].listed /\ ds[c].track \in Shut
  => ds[o].track \in Shut

DirInv(ds, st) == Locals(ds) /\ OneRoot(ds) /\ Holding(ds) /\ Stops(ds, st) /\ Told(ds)

(* Only the object o changes, and neither its place, nor what is held for  *)
(* it, nor what its track has closed is undone: what relates the objects   *)
(* to each other stays true.                                               *)
LEMMA OneRecord ==
  ASSUME NEW ds \in DirMaps, NEW st, DirInv(ds, st), NEW o \in Obj(ds),
         NEW es \in DirMaps, NEW r \in DirRecs, es[o] = r,
         \A p \in DirIds \ {o} : es[p] = ds[p],
         Local(r), r.path = ds[o].path, r.listed = ds[o].listed,
         r.mu = ds[o].mu, (r.start = "newDir") <=> (ds[o].start = "newDir"),
         Begun(ds[o]) => Begun(r),
         r.track \in Busy \/ ds[o].track \in Busy => r.track = ds[o].track /\ r.arg = ds[o].arg,
         ds[o].track \in Shut => r.track \in Shut,
         r.track \in Shut => \/ ds[o].track \in Shut
                            \/ \A p \in Obj(ds) : ds[p].mu # o /\ (ds[p].path = Root => p = o \/ ds[p].track \in Shut)
  PROVE  DirInv(es, st)
<1>0. o \in DirIds /\ ds[o] # None /\ ds[o] \in DirRecs /\ r # None
  BY NoneIsNoObject DEF Obj, DirMaps
<1>1. Obj(es) = Obj(ds)
  BY <1>0 DEF Obj
<1>2. \A p \in Obj(ds) : es[p].path = ds[p].path /\ es[p].listed = ds[p].listed /\ es[p].mu = ds[p].mu
  BY DEF Obj
<1>3. Locals(es)
  BY <1>1 DEF DirInv, Locals, Obj
<1>4. OneRoot(es)
  BY <1>1, <1>2 DEF DirInv, OneRoot
<1>5. Holding(es)
  <2> SUFFICES ASSUME NEW p \in Obj(es), es[p].mu # None PROVE Held(es, p)
    BY DEF Holding
  <2>1. Held(ds, p)
    BY <1>1, <1>2 DEF DirInv, Holding
  <2>2. es[p].mu = ds[p].mu /\ p \in Obj(ds)
    BY <1>1, <1>2
  <2>3. es[p].track \in Busy \/ ds[p].track \in Busy => es[p].track = ds[p].track /\ es[p].arg = ds[p].arg
    BY <2>2 DEF Obj
  <2>4. es[ds[p].mu].track \notin Shut
    BY <2>1, <2>2 DEF Held, Obj
  <2> QED
    BY <1>1, <1>2, <2>1, <2>2, <2>3, <2>4 DEF Held, Busy
<1>6. Stops(es, st)
  BY <1>1, <1>2 DEF DirInv, Stops, Obj
<1>7. Told(es)
  BY <1>0, <1>1, <1>2 DEF DirInv, Told, OneRoot, Obj
<1> QED
  BY <1>3, <1>4, <1>5, <1>6, <1>7 DEF DirInv

(* A tail that nobody has asked to end.                                    *)
Live(r) == r.tail = "live" /\ ~r.asked

(* A listed file is in the map of an object, for a file of its directory.  *)
Placed(ds, fl) == \A i \in File(fl) : fl[i].listed =>
  /\ fl[i].dir \in Obj(ds)
  /\ fl[i].path \in Names(ds[fl[i].dir].path)

(* A closing directory has still to close, or waits for, every live tail   *)
(* it lists, and has none of them when its track returns.                  *)
Closers(ds, fl) == \A o \in Obj(ds) :
  /\ ds[o].track = "closeFile" => ds[o].arg \in File(fl) /\ fl[ds[o].arg].dir = o
  /\ ds[o].track \in Shut => \A i \in File(fl) :
       fl[i].dir = o /\ fl[i].listed /\ Live(fl[i]) =>
         /\ ds[o].track # "end"
         /\ i \in ds[o].left \/ (ds[o].track = "closeFile" /\ i = ds[o].arg)

(* A file is listed only when its day has come, and one that a closing     *)
(* directory waits for is listed or of a day that is over.                 *)
Dated(ds, fl, d) ==
  /\ \A i \in File(fl) : fl[i].listed => Date[fl[i].path] =< d
  /\ \A o \in Obj(ds) : ds[o].track = "addFile" => Date[ds[o].arg] =< d
  /\ \A o \in Obj(ds) : ds[o].track = "closeFile" =>
       fl[ds[o].arg].listed \/ Date[fl[ds[o].arg].path] < d

(* A position is saved for a listed file, or for a file whose day is over. *)
Accounted(fl, d, ps) ==
  \A f \in ps : /\ f \in Files
                /\ Date[f] < d \/ \E i \in File(fl) : fl[i].listed /\ fl[i].path = f

FileInv(ds, fl, d, ps) == Placed(ds, fl) /\ Closers(ds, fl) /\ Dated(ds, fl, d) /\ Accounted(fl, d, ps)

(* The invariant, as a formula about any objects and files.                *)
InvOf(ds, fl, d, st, ps) ==
  /\ ds \in DirMaps /\ fl \in FileMaps
  /\ DirInv(ds, st)
  /\ FileInv(ds, fl, d, ps)

(* Forgetting the objects nothing refers to keeps the invariant.           *)
LEMMA BecomeKeeps ==
  ASSUME NEW ds, NEW fl, NEW d, NEW st, NEW ps, InvOf(ds, fl, d, st, ps), Become(ds, fl)
  PROVE  InvOf(dirs', files', d, st, ps)
<1>0. ds \in DirMaps /\ fl \in FileMaps
  BY DEF InvOf
<1>1. /\ dirs' \in DirMaps /\ files' \in FileMaps
      /\ \A i \in FileIds :
              \/ files'[i] = fl[i]
              \/ /\ files'[i] = None /\ fl[i] # None /\ ~fl[i].listed
                 /\ fl[i].tail = "dead" \/ fl[i].asked
                 /\ \A o \in DirIds : ds[o] # None => ds[o].arg # i
      /\ \A o \in DirIds :
              \/ dirs'[o] = ds[o]
              \/ /\ dirs'[o] = None /\ ds[o] # None /\ ds[o].track = "end" /\ ~ds[o].listed
                 /\ \A i \in FileIds : fl[i] # None /\ fl[i].listed => fl[i].dir # o
  BY <1>0, BecomeFacts
<1>2. \A o \in Obj(dirs') : o \in Obj(ds) /\ dirs'[o] = ds[o]
  BY <1>1 DEF Obj
<1>3. \A i \in File(files') : i \in File(fl) /\ files'[i] = fl[i]
  BY <1>1 DEF File
<1>4. \A o \in Obj(ds) : ds[o].track # "end" \/ ds[o].listed => o \in Obj(dirs')
  BY <1>1 DEF Obj
<1>5. \A i \in File(fl) : fl[i].listed => i \in File(files') /\ fl[i].dir \in Obj(dirs')
  BY <1>1, <1>0 DEF File, Obj, InvOf, FileInv, Placed
<1>6. Locals(dirs') /\ OneRoot(dirs') /\ Stops(dirs', st) /\ Told(dirs')
  BY <1>2 DEF InvOf, DirInv, Locals, OneRoot, Stops, Told
<1>7. Holding(dirs')
  BY <1>2, <1>4 DEF InvOf, DirInv, Holding, Held, Shut
<1>8. Placed(dirs', files')
  BY <1>2, <1>3, <1>5 DEF InvOf, FileInv, Placed
<1>9. Closers(dirs', files')
  <2>1. \A o \in Obj(dirs') : dirs'[o].track = "closeFile" => dirs'[o].arg \in File(files')
    BY <1>1, <1>2 DEF InvOf, FileInv, Closers, Obj, File
  <2> QED
    BY <1>2, <1>3, <2>1 DEF InvOf, FileInv, Closers
<1>10. Dated(dirs', files', d)
  <2>1. \A o \in Obj(dirs') : dirs'[o].track = "closeFile" => dirs'[o].arg \in File(files')
    BY <1>9 DEF Closers
  <2> QED
    BY <1>2, <1>3, <2>1 DEF InvOf, FileInv, Dated
<1>11. Accounted(files', d, ps)
  BY <1>3, <1>5 DEF InvOf, FileInv, Accounted
<1> QED
  BY <1>1, <1>6, <1>7, <1>8, <1>9, <1>10, <1>11 DEF InvOf, DirInv, FileInv

(* Only the object o changes, and its track does not close files or goes   *)
(* on closing them: what relates objects and files stays true.             *)
LEMMA OneRecordFiles ==
  ASSUME NEW ds \in DirMaps, NEW fl \in FileMaps, NEW d, NEW ps, FileInv(ds, fl, d, ps),
         NEW o \in Obj(ds), NEW es \in DirMaps, NEW r \in DirRecs, es[o] = r,
         \A p \in DirIds \ {o} : es[p] = ds[p],
         r.path = ds[o].path,
         \/ r.track = ds[o].track /\ r.arg = ds[o].arg /\ ds[o].left \subseteq r.left
         \/ r.track = ds[o].track /\ r.track \notin Shut /\ r.track # "addFile"
         \/ r.track \notin Shut /\ (r.track = "addFile" => Date[r.arg] =< d)
  PROVE  FileInv(es, fl, d, ps)
<1>0. o \in DirIds /\ ds[o] # None /\ r # None
  BY NoneIsNoObject DEF Obj
<1>1. Obj(es) = Obj(ds)
  BY <1>0 DEF Obj
<1>2. \A p \in Obj(ds) : es[p].path = ds[p].path
  BY DEF Obj
<1>3. Placed(es, fl)
  BY <1>1, <1>2 DEF FileInv, Placed
<1>4. Closers(es, fl)
  <2> SUFFICES ASSUME NEW p \in Obj(es)
               PROVE  /\ es[p].track = "closeFile" => es[p].arg \in File(fl) /\ fl[es[p].arg].dir = p
                      /\ es[p].track \in Shut => \A i \in File(fl) :
                           fl[i].dir = p /\ fl[i].listed /\ Live(fl[i]) =>
                             /\ es[p].track # "end"
                             /\ i \in es[p].left \/ (es[p].track = "closeFile" /\ i = es[p].arg)
    BY DEF Closers
  <2>1. CASE p = o
    BY <1>0, <2>1 DEF FileInv, Closers, Shut
  <2>2. CASE p # o
    BY <1>0, <1>1, <2>2 DEF FileInv, Closers, Obj
  <2> QED
    BY <2>1, <2>2
<1>5. Dated(es, fl, d)
  BY <1>0, <1>1 DEF FileInv, Dated, Shut, Obj
<1> QED
  BY <1>3, <1>4, <1>5 DEF FileInv

(* removeFile keeps the invariant if the position of the file is deleted   *)
(* with its map entry (directory.go:239-245).                              *)
LEMMA WithoutFileKeeps ==
  ASSUME NEW ds, NEW d, NEW st, NEW ps, InvOf(ds, files, d, st, ps), NEW i \in Tails,
         \A o \in Obj(ds) : ds[o].track = "closeFile" /\ ds[o].arg = i => Date[files[i].path] < d
  PROVE  InvOf(ds, WithoutFile(i), d, st, ps \ {files[i].path})
<1> DEFINE fl == WithoutFile(i)
<1>0. ds \in DirMaps /\ files \in FileMaps /\ i \in FileIds /\ files[i] # None
  BY DEF InvOf, Tails
<1>1. /\ fl \in FileMaps
      /\ fl[i] = [files[i] EXCEPT !.asked = TRUE, !.listed = FALSE]
      /\ \A j \in FileIds \ {i} : fl[j] = files[j]
  BY <1>0, WithoutFileFacts
<1>2. /\ fl[i] \in FileRecs /\ ~fl[i].listed /\ ~Live(fl[i])
      /\ fl[i].path = files[i].path /\ fl[i].dir = files[i].dir
  <2>1. files[i] \in FileRecs
    BY <1>0 DEF FileMaps
  <2>2. fl[i] \in FileRecs
    BY <1>0, <1>1, <2>1 DEF FileRecs
  <2>3. /\ ~fl[i].listed /\ fl[i].asked
        /\ fl[i].path = files[i].path /\ fl[i].dir = files[i].dir
    BY <1>1, <2>1 DEF FileRecs
  <2> HIDE DEF fl
  <2> QED
    BY <2>2, <2>3 DEF Live
<1> HIDE DEF fl
<1>3. File(fl) = File(files)
  BY <1>0, <1>1, <1>2, NoneIsNoObject DEF File
<1>4. \A j \in File(fl) : fl[j].path = files[j].path /\ fl[j].dir = files[j].dir
                          /\ (fl[j].listed => j # i /\ fl[j] = files[j])
  BY <1>1, <1>2, <1>3 DEF File
<1>5. Placed(ds, fl)
  BY <1>3, <1>4 DEF InvOf, FileInv, Placed
<1>6. Closers(ds, fl)
  BY <1>3, <1>4 DEF InvOf, FileInv, Closers
<1>7. Dated(ds, fl, d)
  <2>1. \A o \in Obj(ds) : ds[o].track = "closeFile" => ds[o].arg \in File(files)
    BY DEF InvOf, FileInv, Closers
  <2>2. \A j \in File(fl) : j # i => fl[j] = files[j]
    BY <1>1 DEF File
  <2> QED
    BY <1>3, <1>4, <2>1, <2>2 DEF InvOf, FileInv, Dated
<1>8. Accounted(fl, d, ps \ {files[i].path})
  <2>1. \A j \in File(files) : j # i => j \in File(fl) /\ fl[j] = files[j]
    BY <1>1, <1>3 DEF File
  <2> QED
    BY <2>1 DEF InvOf, FileInv, Accounted
<1> QED
  BY <1>0, <1>1, <1>5, <1>6, <1>7, <1>8 DEF InvOf, FileInv, fl

(* The end of a tail keeps the invariant.                                  *)
LEMMA DeadKeeps ==
  ASSUME NEW ds, NEW d, NEW st, NEW ps, InvOf(ds, files, d, st, ps), NEW i \in Tails
  PROVE  InvOf(ds, [files EXCEPT ![i].tail = "dead"], d, st, ps)
<1> DEFINE fl == [files EXCEPT ![i].tail = "dead"]
<1>0. ds \in DirMaps /\ files \in FileMaps /\ i \in FileIds /\ files[i] # None
  BY DEF InvOf, Tails
<1>1. /\ fl[i] = [files[i] EXCEPT !.tail = "dead"]
      /\ \A j \in FileIds \ {i} : fl[j] = files[j]
  BY <1>0 DEF FileMaps
<1>2. /\ fl[i] \in FileRecs /\ ~Live(fl[i]) /\ fl[i].listed = files[i].listed
      /\ fl[i].path = files[i].path /\ fl[i].dir = files[i].dir
  BY <1>0, <1>1 DEF FileMaps, FileRecs, Live
<1>9. fl \in FileMaps
  BY <1>0, <1>2, <1>1 DEF FileMaps
<1> HIDE DEF fl
<1>3. File(fl) = File(files)
  BY <1>0, <1>1, <1>2, NoneIsNoObject DEF File
<1>4. \A j \in File(fl) : /\ fl[j].path = files[j].path /\ fl[j].dir = files[j].dir
                          /\ fl[j].listed = files[j].listed /\ (Live(fl[j]) => Live(files[j]))
  BY <1>1, <1>2, <1>3 DEF File
<1>5. Placed(ds, fl)
  BY <1>3, <1>4 DEF InvOf, FileInv, Placed
<1>6. Closers(ds, fl)
  BY <1>3, <1>4 DEF InvOf, FileInv, Closers
<1>7. Dated(ds, fl, d)
  <2>1. \A o \in Obj(ds) : ds[o].track = "closeFile" => ds[o].arg \in File(files)
    BY DEF InvOf, FileInv, Closers
  <2> QED
    BY <1>3, <1>4, <2>1 DEF InvOf, FileInv, Dated
<1>8. Accounted(fl, d, ps)
  BY <1>3, <1>4 DEF InvOf, FileInv, Accounted
<1> QED
  BY <1>0, <1>9, <1>5, <1>6, <1>7, <1>8 DEF InvOf, FileInv, fl

(* addFile keeps the invariant if the file's day has come                  *)
(* (directory.go:168-229).                                                 *)
LEMMA WithFileKeeps ==
  ASSUME NEW ds, NEW d, NEW st, NEW ps, InvOf(ds, files, d, st, ps), FileLeft,
         NEW o \in Obj(ds), ds[o].track \notin Shut,
         NEW f \in Files, f \in Names(ds[o].path), Date[f] =< d
  PROVE  InvOf(ds, WithFile(f, o), d, st, ps)
<1> DEFINE fl == WithFile(f, o)
<1>0. ds \in DirMaps /\ files \in FileMaps /\ o \in DirIds
  BY DEF InvOf, Obj
<1>1. CASE born[f] = 0
  BY <1>0, <1>1, WithFileFacts
<1>2. CASE born[f] # 0
  <2>1. /\ fl \in FileMaps
        /\ fl[FreeFile] = NewFile(f, o)
        /\ \A j \in FileIds : j # FreeFile =>
              fl[j] =
                IF files[j] # None /\ files[j].dir = o /\ files[j].listed /\ files[j].path = f
                THEN [files[j] EXCEPT !.listed = FALSE] ELSE files[j]
    BY <1>0, <1>2, WithFileFacts
  <2>2. /\ FreeFile \in FileIds /\ files[FreeFile] = None
        /\ fl[FreeFile].path = f /\ fl[FreeFile].dir = o /\ fl[FreeFile].listed /\ fl[FreeFile] # None
    BY <2>1, FreeFileType, NewFileType, NoneIsNoObject, <1>0 DEF NewFile
  <2> HIDE DEF fl
  <2>3. \A j \in File(files) :
          /\ j \in File(fl) /\ j # FreeFile
          /\ fl[j].path = files[j].path /\ fl[j].dir = files[j].dir
          /\ fl[j].tail = files[j].tail /\ fl[j].asked = files[j].asked
          /\ fl[j].listed => files[j].listed
          /\ ~fl[j].listed /\ files[j].listed => files[j].dir = o /\ files[j].path = f
    <3> SUFFICES ASSUME NEW j \in File(files) PROVE
          /\ j \in File(fl) /\ j # FreeFile
          /\ fl[j].path = files[j].path /\ fl[j].dir = files[j].dir
          /\ fl[j].tail = files[j].tail /\ fl[j].asked = files[j].asked
          /\ fl[j].listed => files[j].listed
          /\ ~fl[j].listed /\ files[j].listed => files[j].dir = o /\ files[j].path = f
      OBVIOUS
    <3>1. j \in FileIds /\ j # FreeFile /\ files[j] \in FileRecs
      BY <1>0, <2>2 DEF File, FileMaps
    <3>2. [files[j] EXCEPT !.listed = FALSE] \in FileRecs
      BY <3>1 DEF FileRecs
    <3> QED
      BY <3>1, <3>2, <2>1, NoneIsNoObject DEF File, FileRecs
  <2>4. \A j \in File(fl) : j = FreeFile \/ j \in File(files)
    BY <2>1 DEF File
  <2>5. FreeFile \in File(fl)
    BY <2>2 DEF File
  <2>6. Placed(ds, fl)
    BY <2>2, <2>3, <2>4 DEF InvOf, FileInv, Placed
  <2>7. Closers(ds, fl)
    BY <2>2, <2>3, <2>4 DEF InvOf, FileInv, Closers, Shut, Live
  <2>8. Dated(ds, fl, d)
    <3>1. \A p \in Obj(ds) : ds[p].track = "closeFile" =>
             ds[p].arg \in File(files) /\ files[ds[p].arg].dir = p /\ p # o
      BY DEF InvOf, FileInv, Closers, Shut
    <3> QED
      BY <2>2, <2>3, <2>4, <3>1 DEF InvOf, FileInv, Dated
  <2>9. Accounted(fl, d, ps)
    BY <2>2, <2>3, <2>5 DEF InvOf, FileInv, Accounted
  <2> QED
    BY <1>0, <2>1, <2>6, <2>7, <2>8, <2>9 DEF InvOf, FileInv, fl
<1> QED
  BY <1>1, <1>2

(* Only what is in the queues of events changes, or a watch ends.          *)
LEMMA QueuesKeep ==
  ASSUME NEW ds, NEW fl, NEW d, NEW st, NEW ps, InvOf(ds, fl, d, st, ps),
         NEW es \in DirMaps,
         \A o \in DirIds : es[o] = None <=> ds[o] = None,
         \A o \in Obj(ds) :
           /\ es[o].path = ds[o].path /\ es[o].listed = ds[o].listed
           /\ es[o].start = ds[o].start /\ es[o].todo = ds[o].todo
           /\ es[o].track = ds[o].track /\ es[o].arg = ds[o].arg
           /\ es[o].left = ds[o].left /\ es[o].mu = ds[o].mu
           /\ \A k \in DOMAIN es[o].evq : es[o].evq[k].name \in Names(ds[o].path)
  PROVE  InvOf(es, fl, d, st, ps)
<1>1. Obj(es) = Obj(ds)
  BY DEF Obj
<1>2. Locals(es)
  BY <1>1 DEF InvOf, DirInv, Locals, Local, Begun
<1>3. OneRoot(es) /\ Stops(es, st) /\ Told(es)
  BY <1>1 DEF InvOf, DirInv, OneRoot, Stops, Told, Begun
<1>4. Holding(es)
  BY <1>1 DEF InvOf, DirInv, Holding, Held
<1>5. Placed(es, fl)
  BY <1>1 DEF InvOf, FileInv, Placed
<1>6. Closers(es, fl) /\ Dated(es, fl, d)
  BY <1>1 DEF InvOf, FileInv, Closers, Dated
<1> QED
  BY <1>2, <1>3, <1>4, <1>5, <1>6 DEF InvOf, DirInv, FileInv

(* An event about an entry of the directory p, heard by its watches, keeps *)
(* the invariant.                                                          *)
LEMMA NotifiedKeeps ==
  ASSUME NEW ds, NEW fl, NEW d, NEW st, NEW ps, InvOf(ds, fl, d, st, ps),
         NEW p, NEW e \in EventRecs, e.name \in Names(p)
  PROVE  InvOf(Notified(ds, p, e), fl, d, st, ps)
<1> DEFINE es == Notified(ds, p, e)
<1>0. ds \in DirMaps
  BY DEF InvOf
<1>1. /\ es \in DirMaps
      /\ \A o \in DirIds : es[o] =
              IF ds[o] # None /\ ds[o].path = p /\ ds[o].watching
              THEN [ds[o] EXCEPT !.evq = Append(@, e)] ELSE ds[o]
  BY <1>0, NotifiedFacts
<1> HIDE DEF es
<1>2. \A o \in Obj(ds) :
        /\ es[o] # None
        /\ es[o].path = ds[o].path /\ es[o].listed = ds[o].listed
           /\ es[o].start = ds[o].start /\ es[o].todo = ds[o].todo
           /\ es[o].track = ds[o].track /\ es[o].arg = ds[o].arg
           /\ es[o].left = ds[o].left /\ es[o].mu = ds[o].mu
           /\ \A k \in DOMAIN es[o].evq : es[o].evq[k].name \in Names(ds[o].path)
  <2> SUFFICES ASSUME NEW o \in Obj(ds) PROVE
        /\ es[o] # None
        /\ es[o].path = ds[o].path /\ es[o].listed = ds[o].listed
           /\ es[o].start = ds[o].start /\ es[o].todo = ds[o].todo
           /\ es[o].track = ds[o].track /\ es[o].arg = ds[o].arg
           /\ es[o].left = ds[o].left /\ es[o].mu = ds[o].mu
           /\ \A k \in DOMAIN es[o].evq : es[o].evq[k].name \in Names(ds[o].path)
    OBVIOUS
  <2>1. ds[o] \in DirRecs /\ o \in DirIds /\ ds[o].evq \in Seq(EventRecs)
    BY <1>0 DEF DirMaps, Obj, DirRecs
  <2>2. \A k \in DOMAIN ds[o].evq : ds[o].evq[k].name \in Names(ds[o].path)
    BY DEF InvOf, DirInv, Locals, Local
  <2>3. CASE ds[o].path = p /\ ds[o].watching
    <3>1. es[o] = [ds[o] EXCEPT !.evq = Append(ds[o].evq, e)]
      BY <2>3, <1>1, <2>1 DEF Obj
    <3>2. \A k \in DOMAIN Append(ds[o].evq, e) : Append(ds[o].evq, e)[k].name \in Names(ds[o].path)
      BY <2>1, <2>2, <2>3
    <3>3. Append(ds[o].evq, e) \in Seq(EventRecs)
      BY <2>1
    <3>4. es[o] \in DirRecs
      BY <3>1, <3>3, <2>1, SetQueue
    <3> QED
      BY <3>1, <3>2, <3>4, <2>1, NoneIsNoObject DEF DirRecs
  <2>4. CASE ~(ds[o].path = p /\ ds[o].watching)
    BY <1>1, <2>1, <2>2, <2>4 DEF Obj
  <2> QED
    BY <2>3, <2>4
<1>3. \A o \in DirIds : es[o] = None <=> ds[o] = None
  BY <1>1, <1>2 DEF Obj
<1> QED
  BY <1>1, <1>2, <1>3, QueuesKeep DEF es

(* What the removal of a directory does to the objects that watch it.      *)
LEMMA UnwatchedFacts ==
  ASSUME NEW ds \in DirMaps, NEW s
  PROVE  /\ Unwatched(ds, s) \in DirMaps
         /\ \A o \in DirIds : Unwatched(ds, s)[o] =
              IF ds[o] # None /\ ds[o].path = s THEN [ds[o] EXCEPT !.watching = FALSE] ELSE ds[o]
<1>1. \A o \in DirIds : ds[o] # None => [ds[o] EXCEPT !.watching = FALSE] \in DirRecs
  BY SetWatch DEF DirMaps
<1> QED
  BY <1>1 DEF Unwatched, DirMaps

(* The end of a watch keeps the invariant.                                 *)
LEMMA UnwatchedKeeps ==
  ASSUME NEW ds, NEW fl, NEW d, NEW st, NEW ps, InvOf(ds, fl, d, st, ps), NEW s
  PROVE  InvOf(Unwatched(ds, s), fl, d, st, ps)
<1> DEFINE es == Unwatched(ds, s)
<1>0. ds \in DirMaps
  BY DEF InvOf
<1>1. /\ es \in DirMaps
      /\ \A o \in DirIds : es[o] =
              IF ds[o] # None /\ ds[o].path = s THEN [ds[o] EXCEPT !.watching = FALSE] ELSE ds[o]
  BY <1>0, UnwatchedFacts
<1> HIDE DEF es
<1>2. \A o \in Obj(ds) :
        /\ es[o] # None
        /\ es[o].path = ds[o].path /\ es[o].listed = ds[o].listed
           /\ es[o].start = ds[o].start /\ es[o].todo = ds[o].todo
           /\ es[o].track = ds[o].track /\ es[o].arg = ds[o].arg
           /\ es[o].left = ds[o].left /\ es[o].mu = ds[o].mu
           /\ es[o].evq = ds[o].evq
  <2> SUFFICES ASSUME NEW o \in Obj(ds) PROVE
        /\ es[o] # None
        /\ es[o].path = ds[o].path /\ es[o].listed = ds[o].listed
           /\ es[o].start = ds[o].start /\ es[o].todo = ds[o].todo
           /\ es[o].track = ds[o].track /\ es[o].arg = ds[o].arg
           /\ es[o].left = ds[o].left /\ es[o].mu = ds[o].mu
           /\ es[o].evq = ds[o].evq
    OBVIOUS
  <2>1. ds[o] \in DirRecs /\ o \in DirIds
    BY <1>0 DEF DirMaps, Obj
  <2>2. [ds[o] EXCEPT !.watching = FALSE] \in DirRecs
    BY <2>1 DEF DirRecs
  <2> QED
    BY <1>1, <2>1, <2>2, NoneIsNoObject DEF DirRecs
<1>3. \A o \in DirIds : es[o] = None <=> ds[o] = None
  BY <1>1, <1>2 DEF Obj
<1>4. \A o \in Obj(ds) : \A k \in DOMAIN es[o].evq : es[o].evq[k].name \in Names(ds[o].path)
  BY <1>2 DEF InvOf, DirInv, Locals, Local
<1> QED
  BY <1>1, <1>2, <1>3, <1>4, QueuesKeep DEF es

(* The positions that this START owes to files: all but those that were    *)
(* there before it or that a failing DEL has left.                         *)
Ours == pos \ kept

Inv == InvOf(dirs, files, day, stopped, Ours)

(* What the calls for positions do to those that are owed                  *)
(* (directory.go:168-246, 113-128, 343).                                   *)
LEMMA PositionsMove ==
  /\ UNCHANGED store => Ours' = Ours
  /\ \A f : Zeroed(f) => Ours' = Ours \ {f}
  /\ \A f : Saved(f) => Ours' \subseteq Ours \cup {f}
  /\ \A i : Forget(i) => Ours' = Ours \ {files[i].path}
<1>1. UNCHANGED store => Ours' = Ours
  BY DEF store, Ours
<1>2. \A f : Zeroed(f) => Ours' = Ours \ {f}
  BY DEF Zeroed, Ours
<1>3. \A f : Saved(f) => Ours' \subseteq Ours \cup {f}
  BY DEF Saved, Zeroed, store, Ours
<1>4. ASSUME NEW i, Forget(i) PROVE Ours' = Ours \ {files[i].path}
  <2>1. CASE Zeroed(files[i].path)
    BY <1>2, <2>1
  <2>2. CASE pos' = pos /\ kept' = kept \cup (pos \cap {files[i].path})
    BY <2>2 DEF Ours
  <2> QED
    BY <1>4, <2>1, <2>2 DEF Forget
<1> QED
  BY <1>1, <1>2, <1>3, <1>4

(* CreateFile keeps the invariant.                                         *)
LEMMA CreateFileInv ==
  ASSUME Inv, NEW f \in Files, CreateFile(f)
  PROVE  Inv'
<1>1. Event("create", f) \in EventRecs /\ Event("create", f).name \in Names(In[f])
  BY DEF Event, EventRecs, Names
<1> QED
  BY <1>1, NotifiedKeeps DEF Inv, CreateFile, store, Ours

(* Leave keeps the invariant.                                              *)
LEMMA LeaveInv ==
  ASSUME Inv, NEW f \in Files, NEW how, Leave(f, how)
  PROVE  Inv'
<1>1. Event("remove", f) \in EventRecs /\ Event("remove", f).name \in Names(In[f])
  BY DEF Event, EventRecs, Names
<1> QED
  BY <1>1, NotifiedKeeps DEF Inv, Leave, store, Ours

(* MakeDir keeps the invariant.                                            *)
LEMMA MakeDirInv == ASSUME Inv, NEW s \in Subs, MakeDir(s) PROVE Inv'
<1>1. Event("create", s) \in EventRecs /\ Event("create", s).name \in Names(Root)
  BY DEF Event, EventRecs, Names
<1> QED
  BY <1>1, NotifiedKeeps DEF Inv, MakeDir, store, Ours

(* RemoveEmptyDir keeps the invariant.                                     *)
LEMMA RemoveEmptyDirInv ==
  ASSUME Inv, NEW s \in Subs, RemoveEmptyDir(s)
  PROVE  Inv'
<1>1. Event("remove", s) \in EventRecs /\ Event("remove", s).name \in Names(Root)
  BY DEF Event, EventRecs, Names
<1>2. InvOf(Unwatched(dirs, s), files, day, stopped, Ours)
  BY UnwatchedKeeps DEF Inv
<1> QED
  BY <1>1, <1>2, NotifiedKeeps DEF Inv, RemoveEmptyDir, store, Ours

(* Midnight keeps the invariant: dates in names are compared with a day    *)
(* that only moves on (directory.go:265-276).                              *)
LEMMA MidnightInv == ASSUME Inv, day \in 1 .. LastDay, Midnight PROVE Inv'
<1>1. day' = day + 1 /\ day \in Nat /\ UNCHANGED <<dirs, files, stopped, Ours>>
  BY DirectoryAssumption, PositionsMove DEF Midnight
<1>0. \A i \in File(files) : files[i].path \in Files
  BY DEF Inv, InvOf, FileMaps, FileRecs, File
<1>2. Dated(dirs, files, day + 1)
  <2>1. \A f \in Files : Date[f] \in Nat
    BY DirectoryAssumption
  <2>2. \A o \in Obj(dirs) : dirs[o].track = "closeFile" => dirs[o].arg \in File(files)
    BY DEF Inv, InvOf, FileInv, Closers
  <2>3. \A o \in Obj(dirs) : dirs[o].track = "addFile" => dirs[o].arg \in Files
    BY DEF Inv, InvOf, DirInv, Locals, Local, OfFile
  <2> QED
    BY <1>0, <1>1, <2>1, <2>2, <2>3 DEF Inv, InvOf, FileInv, Dated
<1>3. Accounted(files, day + 1, Ours)
  <2> SUFFICES ASSUME NEW f \in Ours
               PROVE  f \in Files /\ (Date[f] < day + 1 \/ \E i \in File(files) : files[i].listed /\ files[i].path = f)
    BY DEF Accounted
  <2>1. f \in Files /\ (Date[f] < day \/ \E i \in File(files) : files[i].listed /\ files[i].path = f)
    BY DEF Inv, InvOf, FileInv, Accounted
  <2>2. Date[f] < day => Date[f] < day + 1
    BY <2>1, <1>1, DirectoryAssumption
  <2> QED
    BY <2>1, <2>2
<1> QED
  BY <1>1, <1>2, <1>3 DEF Inv, InvOf, FileInv, DirInv

(* StopRule keeps the invariant.                                           *)
LEMMA StopRuleInv == ASSUME Inv, StopRule PROVE Inv'
<1>1. Stops(dirs, TRUE)
  BY DEF StopRule, Stops, Obj, Objs, Started, Begun
<1> QED
  BY <1>1 DEF Inv, InvOf, DirInv, StopRule, store, Ours

(* The objects of the current state.                                       *)
LEMMA ObjsSame == Objs = Obj(dirs) /\ Tails = File(files)
  BY DEF Objs, Obj, Tails, File

(* Fewer saved positions need fewer files to account for them.             *)
LEMMA LessSaved ==
  ASSUME NEW ds, NEW fl, NEW d, NEW st, NEW ps, InvOf(ds, fl, d, st, ps), NEW qs, qs \subseteq ps
  PROVE  InvOf(ds, fl, d, st, qs)
  BY DEF InvOf, FileInv, Accounted

(* A step that changes the object o alone keeps the invariant.             *)
LEMMA Change ==
  ASSUME NEW ds, NEW fl, NEW d, NEW st, NEW ps, InvOf(ds, fl, d, st, ps),
         NEW o \in Obj(ds), NEW r \in DirRecs,
         Local(r), r.path = ds[o].path, r.listed = ds[o].listed,
         r.mu = ds[o].mu, (r.start = "newDir") <=> (ds[o].start = "newDir"),
         Begun(ds[o]) => Begun(r),
         r.track \in Busy \/ ds[o].track \in Busy => r.track = ds[o].track /\ r.arg = ds[o].arg,
         r.track \in Shut \/ ds[o].track \in Shut => r.track = ds[o].track,
         \/ r.track = ds[o].track /\ r.arg = ds[o].arg /\ (r.left = ds[o].left \/ r.track \notin Shut)
         \/ r.track \notin Shut /\ (r.track = "addFile" => Date[r.arg] =< d)
  PROVE  InvOf([ds EXCEPT ![o] = r], fl, d, st, ps)
<1> DEFINE es == [ds EXCEPT ![o] = r]
<1>0. ds \in DirMaps /\ fl \in FileMaps /\ o \in DirIds
  BY DEF InvOf, Obj
<1>1. es \in DirMaps /\ es[o] = r /\ \A p \in DirIds \ {o} : es[p] = ds[p]
  BY <1>0 DEF DirMaps
<1> HIDE DEF es
<1>2. DirInv(es, st)
  BY <1>0, <1>1, OneRecord DEF InvOf
<1>3. FileInv(es, fl, d, ps)
  <2>1. \/ r.track = ds[o].track /\ r.arg = ds[o].arg /\ ds[o].left \subseteq r.left
        \/ r.track = ds[o].track /\ r.track \notin Shut /\ r.track # "addFile"
        \/ r.track \notin Shut /\ (r.track = "addFile" => Date[r.arg] =< d)
    BY DEF InvOf, FileInv, Dated
  <2> QED
    BY <1>0, <1>1, <2>1, OneRecordFiles DEF InvOf
<1> QED
  BY <1>0, <1>1, <1>2, <1>3 DEF InvOf, es

(* ReadDir keeps the invariant.                                            *)
LEMMA ReadDirInv ==
  ASSUME Inv, there \subseteq Subs, NEW o \in Objs, ReadDir(o)
  PROVE  Inv'
<1> SUFFICES ASSUME NEW td \in {FoundIn(dirs[o].path), {}},
                    dirs' = [dirs EXCEPT ![o].start = "list", ![o].todo = td]
             PROVE  Inv'
  BY DEF ReadDir
<1> DEFINE r == [dirs[o] EXCEPT !.start = "list", !.todo = td]
<1>0. o \in Obj(dirs) /\ dirs[o] \in DirRecs /\ o \in DirIds /\ Local(dirs[o])
  BY DEF Inv, InvOf, Objs, Obj, DirMaps, DirInv, Locals
<1>1. td \subseteq Files \cup Subs /\ td \subseteq Names(dirs[o].path)
  BY DEF Names, FoundIn
<1>2. r \in DirRecs /\ r.start = "list" /\ r.todo = td /\ r.path = dirs[o].path /\ r.listed = dirs[o].listed
      /\ r.mu = dirs[o].mu /\ r.track = dirs[o].track /\ r.arg = dirs[o].arg /\ r.left = dirs[o].left
      /\ r.evq = dirs[o].evq
  BY <1>0, <1>1 DEF DirRecs
<1>3. dirs' = [dirs EXCEPT ![o] = r]
  BY <1>0 DEF Inv, InvOf, DirMaps, DirRecs
<1> HIDE DEF r
<1>4. ~Begun(dirs[o])
  BY DEF ReadDir, Begun
<1>5. Local(r)
  BY <1>0, <1>1, <1>2, <1>4 DEF Local, Begun, ReadDir
<1>6. InvOf([dirs EXCEPT ![o] = r], files, day, stopped, Ours)
  BY <1>0, <1>2, <1>4, <1>5, Change DEF ReadDir, Inv, Local
<1> QED
  BY <1>3, <1>6 DEF ReadDir, Inv, fs, store, Ours

(* What the invariant says of one object.                                  *)
LEMMA Known == ASSUME Inv, NEW o \in Objs
               PROVE /\ o \in Obj(dirs) /\ dirs[o] \in DirRecs /\ o \in DirIds /\ Local(dirs[o])
                     /\ dirs \in DirMaps /\ files \in FileMaps
  BY DEF Inv, InvOf, Objs, Obj, DirMaps, DirInv, Locals

(* StartFile keeps the invariant.                                          *)
LEMMA StartFileInv ==
  ASSUME Inv, NEW o \in Objs, NEW f \in Files, StartFile(o, f)
  PROVE  Inv'
<1> DEFINE td == dirs[o].todo \ {f}
           r == [dirs[o] EXCEPT !.todo = td]
           ds == [dirs EXCEPT ![o] = r]
<1>0. /\ o \in Obj(dirs) /\ dirs[o] \in DirRecs /\ o \in DirIds /\ Local(dirs[o])
      /\ dirs \in DirMaps /\ files \in FileMaps
  BY Known
<1>2. /\ r \in DirRecs /\ r.start = dirs[o].start /\ r.todo = td /\ r.path = dirs[o].path
      /\ r.listed = dirs[o].listed
      /\ r.mu = dirs[o].mu /\ r.track = dirs[o].track /\ r.arg = dirs[o].arg /\ r.left = dirs[o].left
      /\ r.evq = dirs[o].evq
  BY <1>0 DEF DirRecs
<1>3. ds = [dirs EXCEPT ![o].todo = @ \ {f}]
  BY <1>0 DEF DirMaps, DirRecs
<1>31. ds[o] = r /\ o \in Obj(ds)
  BY <1>0, <1>2, NoneIsNoObject DEF DirMaps, Obj
<1> HIDE DEF r, td
<1>4. ~Begun(dirs[o]) /\ dirs[o].start = "list" /\ f \in dirs[o].todo
  BY DEF StartFile, Begun
<1>5. Local(r)
  BY <1>0, <1>2, <1>4 DEF Local, Begun, td
<1>6. InvOf(ds, files, day, stopped, Ours)
  BY <1>0, <1>2, <1>4, <1>5, Change DEF StartFile, Inv, Local
<1>61. InvOf(ds, files, day, stopped, Ours \ {f})
  BY <1>6, LessSaved
<1>7. CASE dirs' = ds /\ UNCHANGED files /\ (Zeroed(f) \/ UNCHANGED store)
  BY <1>6, <1>61, <1>7, PositionsMove DEF StartFile, Inv, fs
<1>8. CASE /\ ~Expired(f) /\ FileLeft /\ Become(ds, WithFile(f, o))
           /\ Zeroed(f) \/ UNCHANGED store
  <2>1. ds[o].track \notin Shut /\ f \in Names(ds[o].path)
    BY <1>0, <1>2, <1>31, <1>4 DEF Local
  <2>2. Date[f] =< day
    BY <1>8, DirectoryAssumption DEF Expired
  <2>3. InvOf(ds, WithFile(f, o), day, stopped, Ours)
    BY <1>6, <1>8, <1>31, <2>1, <2>2, WithFileKeeps
  <2>4. InvOf(ds, WithFile(f, o), day, stopped, Ours')
    BY <1>8, <2>3, LessSaved, PositionsMove
  <2> QED
    BY <1>8, <2>4, BecomeKeeps DEF StartFile, Inv, fs
<1> QED
  BY <1>3, <1>7, <1>8 DEF StartFile, FileAdded, FileRefused

(* TakeEvent keeps the invariant.                                          *)
LEMMA TakeEventInv == ASSUME Inv, NEW o \in Objs, TakeEvent(o) PROVE Inv'
<1> DEFINE e == Head(dirs[o].evq)
           pc == Wanted(o, e)
           a == IF pc = "select" THEN None ELSE e.name
           q == Tail(dirs[o].evq)
           r == [dirs[o] EXCEPT !.evq = q, !.track = pc, !.arg = a]
<1>0. /\ o \in Obj(dirs) /\ dirs[o] \in DirRecs /\ o \in DirIds /\ Local(dirs[o])
      /\ dirs \in DirMaps /\ files \in FileMaps
  BY Known
<1>1. dirs[o].evq \in Seq(EventRecs) /\ dirs[o].evq # <<>> /\ dirs[o].track = "select"
  BY <1>0 DEF TakeEvent, DirRecs
<1>2. /\ e \in EventRecs /\ e.name \in Names(dirs[o].path)
      /\ q \in Seq(EventRecs) /\ \A k \in DOMAIN q : q[k].name \in Names(dirs[o].path)
  BY <1>0, <1>1 DEF Local
<1>3. /\ e.op \in {"create", "remove"} /\ e.name \in Files \cup Subs
      /\ Files \cap Subs = {} /\ Root \notin Subs
      /\ (e.name \in Subs => dirs[o].path = Root)
  BY <1>2, DirectoryAssumption DEF EventRecs, Names
<1>4. /\ pc \in {"select", "addFile", "rmFile", "addDir", "rmDir"}
      /\ pc \in {"addFile", "rmFile"} => e.name \in Files
      /\ pc \in {"addDir", "rmDir"} => e.name \in Subs
      /\ pc = "addFile" => ~Expired(e.name)
  <2>1. CASE e.op = "create" /\ e.name \in Files
    BY <1>3, <2>1 DEF Wanted
  <2>2. CASE e.op = "create" /\ e.name \in Subs
    BY <1>3, <2>2 DEF Wanted
  <2>3. CASE e.op = "remove"
    <3>1. pc = IF \E i \in FileMap(o) : files[i].path = e.name THEN "rmFile"
         ELSE IF \E c \in DirMap(o) : dirs[c].path = e.name THEN "rmDir" ELSE "select"
      BY <2>3 DEF Wanted
    <3>2. \A i \in FileMap(o) : files[i].path \in Files
      BY <1>0 DEF FileMap, Tails, FileMaps, FileRecs
    <3>3. \A c \in DirMap(o) : dirs[c].path \in Subs
      BY <1>0 DEF DirMap, Objs, DirMaps, DirRecs
    <3> QED
      BY <3>1, <3>2, <3>3
  <2> QED
    BY <1>3, <2>1, <2>2, <2>3
<1>5. a \in Files \cup Subs \cup FileIds \cup {None}
  BY <1>3
<1> HIDE DEF e, pc, a, q
<1>6. /\ r \in DirRecs /\ r.start = dirs[o].start /\ r.todo = dirs[o].todo /\ r.path = dirs[o].path
      /\ r.listed = dirs[o].listed
      /\ r.mu = dirs[o].mu /\ r.track = pc /\ r.arg = a /\ r.left = dirs[o].left
      /\ r.evq = q
  BY <1>0, <1>2, <1>4, <1>5, ZenonT(60) DEF DirRecs
<1>7. dirs' = [dirs EXCEPT ![o] = r]
  BY <1>0 DEF DirMaps, DirRecs, TakeEvent, e, pc, a, q
<1> HIDE DEF r
<1>8. pc # "select" => a = e.name
  BY DEF a
<1>9. Local(r)
  BY <1>0, <1>1, <1>2, <1>3, <1>4, <1>6, <1>8 DEF Local, Begun, OfFile, OfDir, Busy, Shut
<1>10. pc = "addFile" => Date[a] =< day
  BY <1>4, <1>8, DirectoryAssumption DEF Expired
<1>11. r.track \notin Shut /\ r.track \notin Busy /\ dirs[o].track \notin Busy /\ dirs[o].track \notin Shut
  BY <1>1, <1>4, <1>6 DEF Shut, Busy
<1>12. InvOf([dirs EXCEPT ![o] = r], files, day, stopped, Ours)
  BY <1>0, <1>6, <1>9, <1>10, <1>11, Change DEF Inv, Begun
<1> QED
  BY <1>7, <1>12 DEF TakeEvent, Inv, fs, store, Ours

(* The track of o goes back to its select, from a call on a file.          *)
LEMMA ToSelect ==
  ASSUME Inv, NEW o \in Objs, dirs[o].track \notin Busy, dirs[o].track \notin Shut
  PROVE  /\ InvOf(Track(o, "select", None), files, day, stopped, Ours)
         /\ Track(o, "select", None)[o] = [dirs[o] EXCEPT !.track = "select", !.arg = None]
         /\ \A p \in DirIds \ {o} : Track(o, "select", None)[p] = dirs[p]
         /\ Obj(Track(o, "select", None)) = Obj(dirs)
         /\ Track(o, "select", None)[o].track = "select"
         /\ Track(o, "select", None)[o].path = dirs[o].path
<1> DEFINE r == [dirs[o] EXCEPT !.track = "select", !.arg = None]
<1>0. /\ o \in Obj(dirs) /\ dirs[o] \in DirRecs /\ o \in DirIds /\ Local(dirs[o])
      /\ dirs \in DirMaps /\ files \in FileMaps
  BY Known
<1>6. /\ r \in DirRecs /\ r.start = dirs[o].start /\ r.todo = dirs[o].todo /\ r.path = dirs[o].path
      /\ r.listed = dirs[o].listed
      /\ r.mu = dirs[o].mu /\ r.track = "select" /\ r.arg = None /\ r.left = dirs[o].left
      /\ r.evq = dirs[o].evq
  BY <1>0 DEF DirRecs
<1>7. Track(o, "select", None) = [dirs EXCEPT ![o] = r]
  BY <1>0 DEF DirMaps, DirRecs, Track
<1> HIDE DEF r
<1>9. Local(r)
  BY <1>0, <1>6 DEF Local, Begun, OfFile, OfDir, Busy, Shut
<1>11. r.track \notin Shut /\ r.track \notin Busy
  BY <1>6 DEF Shut, Busy
<1>12. InvOf([dirs EXCEPT ![o] = r], files, day, stopped, Ours)
  BY <1>0, <1>6, <1>9, <1>11, Change DEF Inv, Begun
<1>13. /\ Track(o, "select", None)[o] = r
       /\ \A p \in DirIds \ {o} : Track(o, "select", None)[p] = dirs[p]
  BY <1>7, <1>0 DEF DirMaps
<1>14. Obj(Track(o, "select", None)) = Obj(dirs)
  BY <1>0, <1>13, <1>6, NoneIsNoObject DEF Obj
<1> QED
  BY <1>7, <1>12, <1>13, <1>14, <1>6 DEF r

(* AddEventFile keeps the invariant.                                       *)
LEMMA AddEventFileInv ==
  ASSUME Inv, NEW o \in Objs, AddEventFile(o)
  PROVE  Inv'
<1> DEFINE ds == Track(o, "select", None)
           f == dirs[o].arg
<1>0. /\ o \in Obj(dirs) /\ dirs[o] \in DirRecs /\ o \in DirIds /\ Local(dirs[o])
  BY Known
<1>1. /\ dirs[o].track = "addFile" /\ UNCHANGED fs
      /\ \/ FileLeft /\ Become(ds, WithFile(f, o))
         \/ dirs' = ds /\ files' = files
      /\ Ours' \subseteq Ours
  BY PositionsMove DEF AddEventFile, FileAdded, FileRefused
<1>2. f \in Files /\ f \in Names(dirs[o].path) /\ Date[f] =< day
  BY <1>0, <1>1 DEF Local, OfFile, Inv, InvOf, FileInv, Dated
<1>3. /\ InvOf(ds, files, day, stopped, Ours) /\ Obj(ds) = Obj(dirs)
      /\ ds[o].track = "select" /\ ds[o].path = dirs[o].path
  BY <1>1, ToSelect DEF Busy, Shut
<1> HIDE DEF ds, f
<1>4. CASE FileLeft /\ Become(ds, WithFile(f, o))
  <2>1. InvOf(ds, WithFile(f, o), day, stopped, Ours)
    BY <1>0, <1>4, <1>1, <1>2, <1>3, WithFileKeeps DEF Shut
  <2>2. InvOf(ds, WithFile(f, o), day, stopped, Ours')
    BY <1>1, <2>1, LessSaved
  <2> QED
    BY <1>1, <1>4, <2>2, BecomeKeeps DEF Inv, fs
<1>5. CASE dirs' = ds /\ files' = files
  <2>1. InvOf(ds, files, day, stopped, Ours')
    BY <1>1, <1>3, LessSaved
  <2> QED
    BY <1>1, <1>5, <2>1 DEF Inv, fs
<1> QED
  BY <1>1, <1>4, <1>5

(* RemoveFile keeps the invariant.                                         *)
LEMMA RemoveFileInv == ASSUME Inv, NEW o \in Objs, RemoveFile(o) PROVE Inv'
<1> DEFINE ds == Track(o, "select", None)
           gone == {i \in FileMap(o) : files[i].path = dirs[o].arg}
<1>0. /\ o \in Obj(dirs) /\ dirs[o] \in DirRecs /\ o \in DirIds /\ Local(dirs[o])
  BY Known
<1>1. dirs[o].track = "rmFile" /\ UNCHANGED fs
  BY DEF RemoveFile
<1>3. /\ InvOf(ds, files, day, stopped, Ours) /\ Obj(ds) = Obj(dirs)
      /\ ds[o].track = "select" /\ ds[o].path = dirs[o].path
      /\ \A p \in DirIds \ {o} : ds[p] = dirs[p]
  BY <1>1, ToSelect DEF Busy, Shut
<1>4. CASE gone = {}
  BY <1>3, <1>4 DEF RemoveFile, Inv, fs, store, Ours
<1>5. CASE gone # {}
  <2>1. PICK i \in gone : Forget(i) /\ Become(ds, WithoutFile(i))
    BY <1>5 DEF RemoveFile
  <2> HIDE DEF ds
  <2>2. i \in Tails /\ files[i].dir = o
    BY <2>1 DEF FileMap
  <2>3. \A p \in Obj(ds) : ds[p].track = "closeFile" /\ ds[p].arg = i => Date[files[i].path] < day
    BY <1>3, <2>2 DEF InvOf, FileInv, Closers
  <2>4. InvOf(ds, WithoutFile(i), day, stopped, Ours \ {files[i].path})
    BY <1>3, <2>2, <2>3, WithoutFileKeeps
  <2> QED
    BY <2>1, <2>4, BecomeKeeps, PositionsMove, <1>1 DEF Inv, fs
<1> QED
  BY <1>4, <1>5

(* LetGo keeps the invariant: the position it deletes is the last use of   *)
(* the file (directory.go:248-263, 231-246).                               *)
LEMMA LetGoInv ==
  ASSUME Inv, day \in 1 .. LastDay, NEW o \in Objs, NEW i \in Tails, LetGo(o, i)
  PROVE  Inv'
<1>1. Date[files[i].path] =< day /\ files[i].path \in Files /\ Date[files[i].path] # day
  BY DEF LetGo, FileMap, Expired, Inv, InvOf, FileInv, Dated, File, Tails, FileMaps, FileRecs
<1>2. Become(dirs, WithoutFile(i)) /\ Forget(i) /\ UNCHANGED fs
  BY DEF LetGo
<1>3. Date[files[i].path] < day
  BY <1>1, DirectoryAssumption
<1>4. InvOf(dirs, WithoutFile(i), day, stopped, Ours \ {files[i].path})
  BY <1>3, WithoutFileKeeps DEF Inv
<1> QED
  BY <1>4, <1>2, BecomeKeeps, PositionsMove DEF Inv, fs

(* A tail's own steps keep the invariant.                                  *)
LEMMA TailInv == ASSUME Inv, NEW i \in Tails, TailNext(i) PROVE Inv'
<1>1. Become(dirs, [files EXCEPT ![i].tail = "dead"]) /\ UNCHANGED <<fs, store>>
  BY DEF TailNext, TailTakesClose, TailDies
<1> QED
  BY <1>1, DeadKeeps, BecomeKeeps DEF Inv, fs, store, Ours

(* Flush keeps the invariant: it saves positions of listed files only      *)
(* (directory.go:113-128).                                                 *)
LEMMA FlushInv == ASSUME Inv, NEW o \in Objs, NEW i \in Tails, Flush(o, i) PROVE Inv'
<1>1. i \in File(files) /\ files[i].listed /\ files[i].path \in Files
  BY DEF Flush, FileMap, Tails, File, Inv, InvOf, FileMaps, FileRecs
<1>2. Ours' \subseteq Ours \cup {files[i].path}
  BY PositionsMove DEF Flush, Key
<1>3. Accounted(files, day, Ours')
  BY <1>1, <1>2 DEF Inv, InvOf, FileInv, Accounted
<1> QED
  BY <1>3 DEF Inv, InvOf, FileInv, Flush, fs

(* RemoveDirFile keeps the invariant.                                      *)
LEMMA RemoveDirFileInv ==
  ASSUME Inv, NEW o \in Objs, NEW i \in Tails, RemoveDirFile(o, i)
  PROVE  Inv'
<1> DEFINE c == dirs[o].mu
           lf == dirs[o].left \ {i}
           r == [dirs[o] EXCEPT !.left = lf]
           ds == [dirs EXCEPT ![o] = r]
<1>0. /\ o \in Obj(dirs) /\ dirs[o] \in DirRecs /\ o \in DirIds /\ Local(dirs[o])
      /\ dirs \in DirMaps /\ files \in FileMaps
  BY Known
<1>1. dirs[o].track = "rmDirFiles" /\ i \in FileMap(c) /\ Forget(i) /\ UNCHANGED fs
  BY DEF RemoveDirFile
<1>2. dirs[c].track \notin Shut /\ files[i].dir = c
  BY <1>0, <1>1 DEF Inv, InvOf, DirInv, Holding, Held, Local, Busy, FileMap
<1>3. ds = [dirs EXCEPT ![o].left = @ \ {i}]
  BY <1>0 DEF DirMaps, DirRecs
<1>4. /\ r \in DirRecs /\ r.start = dirs[o].start /\ r.todo = dirs[o].todo /\ r.path = dirs[o].path
      /\ r.listed = dirs[o].listed
      /\ r.mu = dirs[o].mu /\ r.track = dirs[o].track /\ r.arg = dirs[o].arg /\ r.left = lf
      /\ r.evq = dirs[o].evq
  BY <1>0 DEF DirRecs
<1>5. ds[o] = r /\ \A p \in DirIds \ {o} : ds[p] = dirs[p]
  BY <1>0 DEF DirMaps
<1>51. Become(ds, WithoutFile(i))
  BY <1>3 DEF RemoveDirFile
<1> HIDE DEF r, lf
<1>6. Local(r)
  BY <1>0, <1>4 DEF Local, Begun
<1>7. InvOf(ds, files, day, stopped, Ours)
  BY <1>0, <1>1, <1>4, <1>6, Change DEF Inv, Begun, Shut
<1>8. \A p \in Obj(ds) : ds[p].track = "closeFile" /\ ds[p].arg = i => Date[files[i].path] < day
  BY <1>7, <1>0, <1>1, <1>2, <1>4, <1>5 DEF InvOf, FileInv, Closers, Shut, Obj
<1> HIDE DEF ds
<1>9. InvOf(ds, WithoutFile(i), day, stopped, Ours \ {files[i].path})
  BY <1>7, <1>8, WithoutFileKeeps
<1> QED
  BY <1>1, <1>9, <1>51, BecomeKeeps, PositionsMove DEF Inv, fs

(* Only the object o changes, its track starts closing or goes on with it, *)
(* and it still means to close every file it lists.                        *)
LEMMA Shuts ==
  ASSUME NEW ds, NEW fl, NEW d, NEW st, NEW ps, InvOf(ds, fl, d, st, ps),
         NEW o \in Obj(ds), NEW r \in DirRecs, NEW es, es = [ds EXCEPT ![o] = r],
         r.path = ds[o].path, r.listed = ds[o].listed, r.start = ds[o].start, r.todo = ds[o].todo,
         r.mu = ds[o].mu,
         \A k \in DOMAIN r.evq : r.evq[k].name \in Names(r.path),
         Begun(ds[o]), ds[o].track \notin Busy, r.track \in Shut,
         \/ ds[o].track \in Shut
         \/ \A p \in Obj(ds) : ds[p].mu # o /\ (ds[p].path = Root => p = o \/ ds[p].track \in Shut),
         r.track = "closeFile" => r.arg \in File(fl) /\ fl[r.arg].dir = o /\ fl[r.arg].listed,
         \A i \in File(fl) : fl[i].dir = o /\ fl[i].listed /\ Live(fl[i]) =>
           /\ r.track # "end"
           /\ i \in r.left \/ (r.track = "closeFile" /\ i = r.arg)
  PROVE  InvOf(es, fl, d, st, ps)
<1>0. ds \in DirMaps /\ fl \in FileMaps /\ o \in DirIds /\ Local(ds[o]) /\ r # None /\ ds[o] # None
  BY NoneIsNoObject DEF InvOf, Obj, DirInv, Locals
<1>1. es \in DirMaps /\ es[o] = r /\ \A p \in DirIds \ {o} : es[p] = ds[p]
  BY <1>0 DEF DirMaps
<1>11. Obj(es) = Obj(ds)
  BY <1>0, <1>1 DEF Obj
<1>2. Local(r)
  BY <1>0 DEF Local, Begun, Shut, OfFile, OfDir, Busy
<1>3. r.track \notin Busy /\ (Begun(ds[o]) => Begun(r))
  BY DEF Shut, Busy, Begun
<1>4. DirInv(es, st)
  <2>1. DirInv(ds, st)
    BY DEF InvOf
  <2>2. r.track \in Busy \/ ds[o].track \in Busy => r.track = ds[o].track /\ r.arg = ds[o].arg
    BY <1>3
  <2>3. (r.start = "newDir") <=> (ds[o].start = "newDir")
    OBVIOUS
  <2>4. r.track \in Shut => \/ ds[o].track \in Shut
                            \/ \A p \in Obj(ds) : ds[p].mu # o /\ (ds[p].path = Root => p = o \/ ds[p].track \in Shut)
    OBVIOUS
  <2>5. ds[o].track \in Shut => r.track \in Shut
    OBVIOUS
  <2> QED
    BY ONLY o \in Obj(ds), r \in DirRecs,
         r.path = ds[o].path, r.listed = ds[o].listed, r.mu = ds[o].mu,
         <1>0, <1>1, <1>2, <1>3, <2>1, <2>2, <2>3, <2>4, <2>5, OneRecord
<1>5. Placed(es, fl)
  BY <1>0, <1>1, <1>11 DEF InvOf, FileInv, Placed, Obj
<1>6. Closers(es, fl)
  <2> SUFFICES ASSUME NEW p \in Obj(es)
               PROVE  /\ es[p].track = "closeFile" => es[p].arg \in File(fl) /\ fl[es[p].arg].dir = p
                      /\ es[p].track \in Shut => \A i \in File(fl) :
                           fl[i].dir = p /\ fl[i].listed /\ Live(fl[i]) =>
                             /\ es[p].track # "end"
                             /\ i \in es[p].left \/ (es[p].track = "closeFile" /\ i = es[p].arg)
    BY DEF Closers
  <2>1. CASE p = o
    BY <1>1, <2>1
  <2>2. CASE p # o
    BY <1>0, <1>1, <1>11, <2>2 DEF InvOf, FileInv, Closers, Obj
  <2> QED
    BY <2>1, <2>2
<1>7. Dated(es, fl, d)
  BY <1>0, <1>1, <1>11 DEF InvOf, FileInv, Dated, Shut, Obj
<1> QED
  BY <1>0, <1>1, <1>4, <1>5, <1>6, <1>7 DEF InvOf, FileInv

(* The track of c takes the request to close (directory.go:337-352).       *)
LEMMA ClosingKeeps ==
  ASSUME Inv, NEW o \in Objs, dirs[o].track = "select", Begun(dirs[o]),
         \A p \in Objs : dirs[p].mu # o /\ (dirs[p].path = Root => p = o \/ dirs[p].track \in Shut)
  PROVE  InvOf(Closing(dirs, o), files, day, stopped, Ours)
<1> DEFINE r == [dirs[o] EXCEPT !.track = "closing", !.left = FileMap(o)]
<1>0. /\ o \in Obj(dirs) /\ dirs[o] \in DirRecs /\ o \in DirIds /\ Local(dirs[o])
      /\ dirs \in DirMaps /\ files \in FileMaps
  BY Known
<1>1. FileMap(o) \subseteq FileIds
  BY DEF FileMap, Tails
<1>2. /\ r \in DirRecs /\ r.start = dirs[o].start /\ r.todo = dirs[o].todo /\ r.path = dirs[o].path
      /\ r.listed = dirs[o].listed
      /\ r.mu = dirs[o].mu /\ r.track = "closing" /\ r.arg = dirs[o].arg /\ r.left = FileMap(o)
      /\ r.evq = dirs[o].evq
  BY <1>0, <1>1 DEF DirRecs
<1>3. Closing(dirs, o) = [dirs EXCEPT ![o] = r]
  BY <1>0 DEF DirMaps, DirRecs, Closing
<1> HIDE DEF r
<1>4. \A i \in File(files) : files[i].dir = o /\ files[i].listed /\ Live(files[i]) =>
         r.track # "end" /\ (i \in r.left \/ (r.track = "closeFile" /\ i = r.arg))
  <2> SUFFICES ASSUME NEW i \in File(files), files[i].dir = o, files[i].listed, Live(files[i])
               PROVE  r.track # "end" /\ (i \in r.left \/ (r.track = "closeFile" /\ i = r.arg))
    BY Zenon
  <2>1. i \in FileMap(o)
    BY DEF FileMap, File, Tails
  <2>2. r.track # "end"
    BY <1>2
  <2>3. i \in r.left
    BY <1>2, <2>1
  <2> QED
    BY <2>2, <2>3
<1>41. r.track # "closeFile" /\ Obj(dirs) = Objs
  BY <1>2, ObjsSame
<1>5. dirs[o].track \notin Busy /\ r.track \in Shut
  BY <1>2 DEF Busy, Shut
<1>6. \A k \in DOMAIN r.evq : r.evq[k].name \in Names(r.path)
  BY <1>0, <1>2 DEF Local
<1> QED
  BY <1>0, <1>2, <1>3, <1>4, <1>41, <1>5, <1>6, Shuts DEF Inv

(* TakeStop keeps the invariant.                                           *)
LEMMA TakeStopInv == ASSUME Inv, NEW o \in Objs, TakeStop(o) PROVE Inv'
<1>1. Begun(dirs[o]) /\ \A p \in Objs : dirs[p].mu # o /\ (dirs[p].path = Root => p = o)
  BY Known, ObjsSame, NoneIsNoObject, DirectoryAssumption
     DEF TakeStop, Inv, InvOf, DirInv, Stops, OneRoot, Holding, Held, Obj
<1> QED
  BY <1>1, ClosingKeeps DEF TakeStop, Inv, fs, store, Ours

(* CloseDir keeps the invariant.                                           *)
LEMMA CloseDirInv ==
  ASSUME Inv, NEW o \in Objs, NEW c, CloseDir(o, c)
  PROVE  Inv'
<1>1. /\ dirs[o].track = "closing" /\ dirs[o].path = Root
      /\ c \in Objs /\ dirs[c].path # Root /\ dirs[c].listed /\ dirs[c].track = "select"
  BY DEF CloseDir, FilesClosed, DirMap
<1>2. Local(dirs[o]) /\ Local(dirs[c]) /\ Begun(dirs[c])
  BY <1>1, Known DEF Local
<1>3. dirs[o].mu = None
  BY <1>1, <1>2 DEF Local, Shut, Busy, Begun
<1>4. \A p \in Objs : dirs[p].mu # c
  <2> SUFFICES ASSUME NEW p \in Objs, dirs[p].mu = c PROVE FALSE
    OBVIOUS
  <2>1. c # None
    BY <1>1, DirectoryAssumption DEF Objs
  <2>2. p = o
    BY <1>1, <2>1, Known, ObjsSame DEF Local, Inv, InvOf, DirInv, OneRoot
  <2> QED
    BY <2>1, <2>2, <1>3
<1>5. \A p \in Objs : dirs[p].path = Root => dirs[p].track \in Shut
  BY <1>1, Known, ObjsSame DEF Inv, InvOf, DirInv, OneRoot, Shut
<1> QED
  BY <1>1, <1>2, <1>4, <1>5, ClosingKeeps DEF CloseDir, Inv, fs, store, Ours

(* CloseFile keeps the invariant.                                          *)
LEMMA CloseFileInv ==
  ASSUME Inv, NEW o \in Objs, NEW i \in Tails, CloseFile(o, i)
  PROVE  Inv'
<1> DEFINE lf == dirs[o].left \ {i}
           r == [dirs[o] EXCEPT !.track = "closeFile", !.arg = i, !.left = lf]
<1>0. /\ o \in Obj(dirs) /\ dirs[o] \in DirRecs /\ o \in DirIds /\ Local(dirs[o])
      /\ dirs \in DirMaps /\ files \in FileMaps
  BY Known
<1>1. i \in FileIds /\ files[i].dir = o /\ files[i].listed /\ dirs[o].track = "closing" /\ i \in File(files)
  BY DEF CloseFile, FileMap, Tails, File
<1>2. /\ r \in DirRecs /\ r.start = dirs[o].start /\ r.todo = dirs[o].todo /\ r.path = dirs[o].path
      /\ r.listed = dirs[o].listed
      /\ r.mu = dirs[o].mu /\ r.track = "closeFile" /\ r.arg = i /\ r.left = lf
      /\ r.evq = dirs[o].evq
  BY <1>0, <1>1 DEF DirRecs
<1>3. dirs' = [dirs EXCEPT ![o] = r]
  BY <1>0 DEF DirMaps, DirRecs, CloseFile, Track
<1> HIDE DEF r
<1>5. dirs[o].track \notin Busy /\ r.track \in Shut /\ dirs[o].track \in Shut /\ Begun(dirs[o])
  BY <1>0, <1>1, <1>2 DEF Busy, Shut, Local
<1>4. \A j \in File(files) : files[j].dir = o /\ files[j].listed /\ Live(files[j]) =>
         r.track # "end" /\ (j \in r.left \/ (r.track = "closeFile" /\ j = r.arg))
  <2> SUFFICES ASSUME NEW j \in File(files), files[j].dir = o, files[j].listed, Live(files[j])
               PROVE  r.track # "end" /\ (j \in r.left \/ (r.track = "closeFile" /\ j = r.arg))
    BY Zenon
  <2>1. j \in dirs[o].left
    BY <1>0, <1>1, <1>5 DEF Inv, InvOf, FileInv, Closers
  <2> HIDE DEF lf
  <2>2. j \in lf \/ j = i
    BY <2>1 DEF lf
  <2>3. r.track # "end"
    BY <1>2
  <2>4. CASE j \in lf
    <3>1. j \in r.left
      BY <1>2, <2>4
    <3> QED
      BY <2>3, <3>1
  <2>5. CASE j = i
    BY <1>2, <2>3, <2>5
  <2> QED
    BY <2>2, <2>4, <2>5
<1>6. \A k \in DOMAIN r.evq : r.evq[k].name \in Names(r.path)
  BY <1>0, <1>2 DEF Local
<1>7. InvOf([dirs EXCEPT ![o] = r], files, day, stopped, Ours)
  BY <1>0, <1>1, <1>2, <1>4, <1>5, <1>6, Shuts DEF Inv
<1> QED
  BY <1>3, <1>7 DEF CloseFile, Inv, fs, store, Ours

(* TrackEnd keeps the invariant: no listed file is left behind             *)
(* (directory.go:337-357).                                                 *)
LEMMA TrackEndInv == ASSUME Inv, NEW o \in Objs, TrackEnd(o) PROVE Inv'
<1> DEFINE r == [dirs[o] EXCEPT !.track = "end", !.arg = None, !.watching = FALSE, !.evq = <<>>, !.left = {}]
<1>0. /\ o \in Obj(dirs) /\ dirs[o] \in DirRecs /\ o \in DirIds /\ Local(dirs[o])
      /\ dirs \in DirMaps /\ files \in FileMaps
  BY Known
<1>1. dirs[o].track = "closing" /\ dirs[o].left \cap FileMap(o) = {}
  BY DEF TrackEnd, FilesClosed
<1>11. <<>> \in Seq(EventRecs)
  OBVIOUS
<1>2. /\ r \in DirRecs /\ r.start = dirs[o].start /\ r.todo = dirs[o].todo /\ r.path = dirs[o].path
      /\ r.listed = dirs[o].listed
      /\ r.mu = dirs[o].mu /\ r.track = "end"
      /\ r.evq = <<>>
  BY <1>0, <1>1, <1>11 DEF DirRecs
<1>3. Become([dirs EXCEPT ![o] = r], files) /\ UNCHANGED <<fs, store>>
  <2>1. [dirs EXCEPT ![o] = r] = [Track(o, "end", None) EXCEPT ![o].watching = FALSE, ![o].evq = <<>>,
                                          ![o].left = {}]
    BY <1>0 DEF DirMaps, DirRecs, Track
  <2> QED
    BY <2>1 DEF TrackEnd
<1> HIDE DEF r
<1>5. dirs[o].track \notin Busy /\ r.track \in Shut /\ dirs[o].track \in Shut /\ Begun(dirs[o])
  BY <1>0, <1>1, <1>2 DEF Busy, Shut, Local
<1>4. \A j \in File(files) : ~(files[j].dir = o /\ files[j].listed /\ Live(files[j]))
  BY <1>0, <1>1, <1>5 DEF Inv, InvOf, FileInv, Closers, FileMap, Tails, File
<1>6. \A k \in DOMAIN r.evq : r.evq[k].name \in Names(r.path)
  BY <1>2
<1>7. InvOf([dirs EXCEPT ![o] = r], files, day, stopped, Ours)
  BY <1>0, <1>1, <1>2, <1>4, <1>5, <1>6, Shuts DEF Inv
<1> QED
  BY <1>3, <1>7, BecomeKeeps DEF Inv, fs, store, Ours

(* FileClosed keeps the invariant.                                         *)
LEMMA FileClosedInv == ASSUME Inv, NEW o \in Objs, FileClosed(o) PROVE Inv'
<1> DEFINE i == dirs[o].arg
           fl == [files EXCEPT ![i].tail = "dead"]
           r == [dirs[o] EXCEPT !.track = "closing", !.arg = None]
           ps == Ours \cup {files[i].path}
<1>0. /\ o \in Obj(dirs) /\ dirs[o] \in DirRecs /\ o \in DirIds /\ Local(dirs[o])
      /\ dirs \in DirMaps /\ files \in FileMaps
  BY Known
<1>1. dirs[o].track = "closeFile" /\ i \in Tails
  BY <1>0, ObjsSame DEF FileClosed, Inv, InvOf, FileInv, Closers
<1>2. /\ r \in DirRecs /\ r.start = dirs[o].start /\ r.todo = dirs[o].todo /\ r.path = dirs[o].path
      /\ r.listed = dirs[o].listed
      /\ r.mu = dirs[o].mu /\ r.track = "closing" /\ r.left = dirs[o].left
      /\ r.evq = dirs[o].evq
  BY <1>0, <1>1 DEF DirRecs
<1>3. Become([dirs EXCEPT ![o] = r], fl) /\ UNCHANGED fs /\ Ours' \subseteq ps
  <2>1. [dirs EXCEPT ![o] = r] = Track(o, "closing", None)
    BY <1>0 DEF DirMaps, DirRecs, Track
  <2> QED
    BY <2>1, PositionsMove DEF FileClosed
<1> HIDE DEF r
<1>5. dirs[o].track \notin Busy /\ r.track \in Shut /\ dirs[o].track \in Shut /\ Begun(dirs[o])
  BY <1>0, <1>1, <1>2 DEF Busy, Shut, Local
<1>6. \A k \in DOMAIN r.evq : r.evq[k].name \in Names(r.path)
  BY <1>0, <1>2 DEF Local
<1>7. InvOf(dirs, fl, day, stopped, Ours)
  BY <1>1, DeadKeeps DEF Inv
<1>8. fl[i].path = files[i].path /\ fl[i].listed = files[i].listed /\ ~Live(fl[i]) /\ i \in File(fl)
  BY <1>0, <1>1, <1>7, NoneIsNoObject DEF Tails, FileMaps, FileRecs, Live, File, InvOf
<1>9. InvOf(dirs, fl, day, stopped, ps)
  <2>1. files[i].path \in Files /\ (fl[i].listed \/ Date[files[i].path] < day)
    BY <1>0, <1>1, <1>8 DEF Tails, FileMaps, FileRecs, Inv, InvOf, FileInv, Dated
  <2>2. Accounted(fl, day, ps)
    BY <1>7, <1>8, <2>1 DEF InvOf, FileInv, Accounted
  <2> QED
    BY <1>7, <2>2 DEF InvOf, FileInv
<1>4. \A j \in File(fl) : fl[j].dir = o /\ fl[j].listed /\ Live(fl[j]) =>
         r.track # "end" /\ (j \in r.left \/ (r.track = "closeFile" /\ j = r.arg))
  BY <1>0, <1>1, <1>2, <1>5, <1>8, <1>9 DEF InvOf, FileInv, Closers
<1>41. r.track # "closeFile"
  BY <1>2
<1> HIDE DEF fl, ps, i
<1>10. InvOf([dirs EXCEPT ![o] = r], fl, day, stopped, ps)
  BY <1>0, <1>1, <1>2, <1>4, <1>41, <1>5, <1>6, <1>9, Shuts
<1>11. InvOf([dirs EXCEPT ![o] = r], fl, day, stopped, Ours')
  BY <1>3, <1>10, LessSaved
<1> QED
  BY <1>3, <1>11, BecomeKeeps DEF Inv, fs

(* The fields of a new object for a subdirectory.                          *)
LEMMA NewDirFields ==
  ASSUME NEW s \in Subs
  PROVE  /\ NewDir(s).path = s /\ ~NewDir(s).listed /\ NewDir(s).watching
         /\ NewDir(s).evq = <<>> /\ NewDir(s).start = "read"
         /\ NewDir(s).todo = {} /\ NewDir(s).track = "select" /\ NewDir(s).arg = None
         /\ NewDir(s).left = {} /\ NewDir(s).mu = None
<1>1. (s = Root) = FALSE
  BY DirectoryAssumption
<1>2. NewDir(s).listed = FALSE
  BY <1>1 DEF NewDir
<1>3. /\ NewDir(s).path = s /\ NewDir(s).evq = <<>> /\ NewDir(s).start = "read"
      /\ NewDir(s).todo = {} /\ NewDir(s).track = "select" /\ NewDir(s).arg = None
      /\ NewDir(s).left = {} /\ NewDir(s).mu = None
  BY DEF NewDir
<1>4. NewDir(s).watching
  BY DEF NewDir
<1> QED BY <1>2, <1>3, <1>4

(* The objects get a new one, F, for a subdirectory, whose start the root  *)
(* waits for.                                                              *)
LEMMA AddSub ==
  ASSUME NEW ds, NEW fl, NEW d, NEW st, NEW ps, InvOf(ds, fl, d, st, ps),
         NEW o \in Obj(ds), NEW F \in DirIds, ds[F] = None, NEW s \in Subs,
         NEW r \in DirRecs, NEW es \in DirMaps,
         es[F] = NewDir(s), es[o] = r, \A p \in DirIds \ {o, F} : es[p] = ds[p],
         Local(r), r.path = Root, ds[o].path = Root, r.mu = F,
         ~Begun(ds[o]) \/ Begun(r), ds[o].track \notin Shut, r.track \notin Shut,
         r.track \in Busy => r.track = "newDir" /\ r.arg = s,
         r.track = "addFile" => Date[r.arg] =< d
  PROVE  InvOf(es, fl, d, st, ps)
<1>0. /\ ds \in DirMaps /\ fl \in FileMaps /\ o \in DirIds /\ o # F /\ r # None /\ Root \notin Subs
      /\ NewDir(s) # None /\ F # None
  BY NoneIsNoObject, NewDirType, DirectoryAssumption DEF InvOf, Obj
<1>1. /\ es[F].path = s /\ ~es[F].listed /\ es[F].evq = <<>> /\ es[F].start = "read" /\ es[F].todo = {}
      /\ es[F].track = "select" /\ es[F].mu = None
  BY NewDirFields
<1>2. Obj(es) = Obj(ds) \cup {F}
  BY <1>0 DEF Obj
<1>3. \A p \in Obj(ds) : p # o => es[p] = ds[p] /\ p # F
  BY <1>0 DEF Obj
<1>4. \A p \in Obj(ds) : es[p].path = ds[p].path
  BY <1>3
<1>5. Local(es[F])
  BY <1>0, <1>1 DEF Local, Shut, Busy, OfFile, OfDir
<1>6. Locals(es)
  BY <1>2, <1>3, <1>5 DEF Locals, InvOf, DirInv
<1>7. OneRoot(es)
  BY <1>0, <1>1, <1>2, <1>4 DEF OneRoot, InvOf, DirInv
<1>8. \A p \in Obj(es) : p # o => es[p].mu = None
  BY <1>0, <1>1, <1>2, <1>3 DEF Locals, Local, InvOf, DirInv, OneRoot
<1>9. Held(es, o)
  BY <1>0, <1>1, <1>2 DEF Held, Shut, Busy
<1>10. Holding(es)
  BY <1>8, <1>9 DEF Holding
<1>11. Stops(es, st)
  BY <1>0, <1>1, <1>2, <1>3 DEF Stops, InvOf, DirInv
<1>12. Told(es)
  BY <1>0, <1>1, <1>2, <1>3 DEF Told, InvOf, DirInv, Shut
<1>13. Placed(es, fl)
  BY <1>2, <1>4 DEF Placed, InvOf, FileInv
<1>14. Closers(es, fl)
  BY <1>1, <1>2, <1>3 DEF Closers, InvOf, FileInv, Shut
<1>15. Dated(es, fl, d)
  BY <1>1, <1>2, <1>3 DEF Dated, InvOf, FileInv, Shut
<1> QED
  BY <1>0, <1>6, <1>7, <1>10, <1>11, <1>12, <1>13, <1>14, <1>15 DEF InvOf, DirInv, FileInv

(* What a notification does to one object. *)
Heard(r, p, e) == IF r # None /\ r.path = p /\ r.watching
                  THEN [r EXCEPT !.evq = Append(@, e)] ELSE r
HeardMade(s, r) == IF s \in there THEN r ELSE Heard(r, Root, Event("create", s))

(* The fields of an object that has heard an event.                        *)
LEMMA HeardFields ==
  ASSUME NEW r \in DirRecs, NEW p, NEW e \in EventRecs
  PROVE  /\ Heard(r, p, e) \in DirRecs
         /\ Heard(r, p, e).path = r.path /\ Heard(r, p, e).listed = r.listed
         /\ Heard(r, p, e).watching = r.watching /\ Heard(r, p, e).start = r.start
         /\ Heard(r, p, e).todo = r.todo /\ Heard(r, p, e).track = r.track
         /\ Heard(r, p, e).arg = r.arg /\ Heard(r, p, e).left = r.left
         /\ Heard(r, p, e).mu = r.mu
         /\ r.path = p /\ r.watching => Heard(r, p, e).evq = Append(r.evq, e)
         /\ r.path # p \/ ~r.watching => Heard(r, p, e).evq = r.evq
<1>1. r.evq \in Seq(EventRecs) /\ r # None
  BY NoneIsNoObject DEF DirRecs
<1>2. Append(r.evq, e) \in Seq(EventRecs)
  BY <1>1
<1>3. CASE r.path = p /\ r.watching
  <2> DEFINE h == [r EXCEPT !.evq = Append(r.evq, e)]
  <2>1. Heard(r, p, e) = h
    BY <1>1, <1>3 DEF Heard
  <2>2. h \in DirRecs
    BY <1>2, SetQueue
  <2>3. /\ h.path = r.path /\ h.listed = r.listed /\ h.watching = r.watching /\ h.start = r.start
        /\ h.todo = r.todo /\ h.track = r.track /\ h.arg = r.arg /\ h.left = r.left /\ h.mu = r.mu
        /\ h.evq = Append(r.evq, e)
    BY DEF DirRecs
  <2> HIDE DEF h
  <2> QED
    BY <1>3, <2>1, <2>2, <2>3
<1>4. CASE ~(r.path = p /\ r.watching)
  BY <1>1, <1>4 DEF Heard
<1> QED
  BY <1>3, <1>4

(* The fields of an object that has heard NewDirectory make the directory, *)
(* if it had to.                                                           *)
LEMMA HeardMadeFields ==
  ASSUME NEW r \in DirRecs, NEW s \in Subs
  PROVE  /\ HeardMade(s, r) \in DirRecs
         /\ HeardMade(s, r).path = r.path /\ HeardMade(s, r).listed = r.listed
         /\ HeardMade(s, r).watching = r.watching /\ HeardMade(s, r).start = r.start
         /\ HeardMade(s, r).todo = r.todo /\ HeardMade(s, r).track = r.track
         /\ HeardMade(s, r).arg = r.arg /\ HeardMade(s, r).left = r.left
         /\ HeardMade(s, r).mu = r.mu
         /\ s \notin there /\ r.path = Root /\ r.watching =>
               HeardMade(s, r).evq = Append(r.evq, Event("create", s))
         /\ s \in there \/ r.path # Root \/ ~r.watching => HeardMade(s, r).evq = r.evq
<1>1. Event("create", s) \in EventRecs
  BY DEF Event, EventRecs
<1>2. CASE s \in there
  BY <1>2 DEF HeardMade
<1>3. CASE s \notin there
  BY <1>1, <1>3, HeardFields DEF HeardMade
<1> QED
  BY <1>2, <1>3

(* What NewDirectory's MkdirAll does to the objects (directory.go:57-62).  *)
LEMMA MadeFacts ==
  ASSUME NEW ds \in DirMaps, NEW s \in Subs
  PROVE  /\ Made(s, ds) \in DirMaps
         /\ \A o \in DirIds : Made(s, ds)[o] = HeardMade(s, ds[o])
<1>1. Event("create", s) \in EventRecs
  BY DEF Event, EventRecs
<1>2. CASE s \in there
  BY <1>2 DEF Made, HeardMade
<1>3. CASE s \notin there
  BY <1>1, <1>3, NotifiedFacts DEF Made, HeardMade, Heard
<1> QED
  BY <1>2, <1>3

(* NewDirectory's MkdirAll keeps the invariant.                            *)
LEMMA MadeKeeps ==
  ASSUME NEW ds, NEW fl, NEW d, NEW st, NEW ps, InvOf(ds, fl, d, st, ps), NEW s \in Subs
  PROVE  InvOf(Made(s, ds), fl, d, st, ps)
<1>1. Event("create", s) \in EventRecs /\ Event("create", s).name \in Names(Root)
  BY DEF Event, EventRecs, Names
<1> QED
  BY <1>1, NotifiedKeeps DEF Made

(* addDir, up to the start of the new object, keeps the invariant          *)
(* (directory.go:140-152).                                                 *)
LEMMA WithDirKeeps ==
  ASSUME Inv, DirLeft, NEW o \in Objs, NEW s \in Subs, NEW b \in DirRecs, NEW bs, bs = [dirs EXCEPT ![o] = b],
         b.path = dirs[o].path, b.listed = dirs[o].listed, b.watching = dirs[o].watching,
         b.evq = dirs[o].evq, b.todo \subseteq dirs[o].todo,
         dirs[o].path = Root, b.mu = None, dirs[o].mu = None, ~Begun(dirs[o]) \/ Begun(b),
         dirs[o].track \notin Shut, b.track \notin Shut,
         b.track \in OfFile => b.track = dirs[o].track /\ b.arg = dirs[o].arg,
         b.track \in OfDir => b.arg \in Subs,
         b.track \in Busy => b.track = "newDir" /\ b.arg = s,
         b.start = "newDir" <=> b.track \notin Busy
  PROVE  InvOf(WithDir(s, o, bs), files, day, stopped, Ours)
<1> DEFINE F == FreeDir
           ns == Made(s, dirs)
           ms == Made(s, bs)
           r == [ms[o] EXCEPT !.mu = F]
           es == [ms EXCEPT ![F] = NewDir(s), ![o].mu = F]
<1>0. /\ o \in Obj(dirs) /\ dirs[o] \in DirRecs /\ o \in DirIds /\ Local(dirs[o])
      /\ dirs \in DirMaps /\ files \in FileMaps
  BY Known
<1>1. WithDir(s, o, bs) = es
  BY DEF WithDir
<1>2. F \in DirIds /\ dirs[F] = None /\ o # F /\ s \notin {None}
  BY <1>0, FreeDirType, DirectoryAssumption DEF Obj
<1>5. bs \in DirMaps /\ bs[o] = b /\ \A p \in DirIds \ {o} : bs[p] = dirs[p]
  BY <1>0 DEF DirMaps
<1>6. InvOf(ns, files, day, stopped, Ours) /\ ns \in DirMaps
  BY MadeKeeps DEF Inv, InvOf
<1>7. /\ ms \in DirMaps
      /\ \A p \in DirIds : ms[p] = HeardMade(s, bs[p]) /\ ns[p] = HeardMade(s, dirs[p])
  BY <1>0, <1>5, MadeFacts
<1> HIDE DEF ms, ns
<1>8. ns[F] = None
  BY <1>2, <1>7 DEF HeardMade, Heard
<1>9. /\ ns[o] \in DirRecs /\ ms[o] \in DirRecs
      /\ ns[o].path = Root /\ ns[o].track = dirs[o].track /\ ns[o].listed = dirs[o].listed
      /\ ns[o].start = dirs[o].start /\ ns[o].todo = dirs[o].todo /\ ns[o].arg = dirs[o].arg
      /\ ms[o].start = b.start /\ ms[o].todo = b.todo /\ ms[o].path = Root /\ ms[o].listed = ns[o].listed
      /\ ms[o].track = b.track /\ ms[o].arg = b.arg /\ ms[o].left = b.left
  BY <1>0, <1>5, <1>7, HeardMadeFields
<1>10. ms[o].evq = ns[o].evq
  <2>1. ms[o] = HeardMade(s, b) /\ ns[o] = HeardMade(s, dirs[o])
    BY <1>0, <1>5, <1>7
  <2>4. b.path = Root /\ b.watching = dirs[o].watching /\ b.evq = dirs[o].evq
    OBVIOUS
  <2>2. CASE s \notin there /\ b.watching
    <3>1. HeardMade(s, b).evq = Append(b.evq, Event("create", s))
      BY <2>2, <2>4, HeardMadeFields
    <3>2. HeardMade(s, dirs[o]).evq = Append(dirs[o].evq, Event("create", s))
      BY <1>0, <2>2, <2>4, HeardMadeFields
    <3> QED
      BY <2>1, <2>4, <3>1, <3>2
  <2>3. CASE s \in there \/ ~b.watching
    <3>1. HeardMade(s, b).evq = b.evq
      BY <2>3, HeardMadeFields
    <3>2. HeardMade(s, dirs[o]).evq = dirs[o].evq
      BY <1>0, <2>3, <2>4, HeardMadeFields
    <3> QED
      BY <2>1, <2>4, <3>1, <3>2
  <2> QED
    BY <2>2, <2>3
<1>11. /\ r \in DirRecs /\ r.start = b.start /\ r.todo = b.todo /\ r.path = Root
      /\ r.listed = ns[o].listed
      /\ r.mu = F /\ r.track = b.track /\ r.arg = b.arg
      /\ r.evq = ns[o].evq
  BY <1>2, <1>9, <1>10 DEF DirRecs
<1>12. es \in DirMaps /\ es[F] = NewDir(s) /\ es[o] = r /\ \A p \in DirIds \ {o, F} : es[p] = ns[p]
  BY <1>0, <1>2, <1>5, <1>7, <1>11, NewDirType DEF DirMaps
<1>13. o \in Obj(ns) /\ Local(ns[o])
  BY <1>0, <1>6, <1>9, NoneIsNoObject DEF Obj, InvOf, DirInv, Locals
<1> HIDE DEF r, es, F
<1>14. F # None
  BY <1>2, DirectoryAssumption
<1>15. Local(r)
  BY <1>2, <1>9, <1>11, <1>13, <1>14, DirectoryAssumption DEF Local
<1>16. r.track = "addFile" => Date[r.arg] =< day
  BY <1>6, <1>9, <1>11, <1>13 DEF InvOf, FileInv, Dated, OfFile
<1>17. ~Begun(ns[o]) \/ Begun(r)
  BY <1>9, <1>11 DEF Begun
<1>18. InvOf(es, files, day, stopped, Ours)
  BY <1>2, <1>6, <1>8, <1>9, <1>11, <1>12, <1>13, <1>15, <1>16, <1>17, AddSub
<1> QED
  BY <1>1, <1>18

(* A NewDirectory that fails keeps the invariant (directory.go:57-67).     *)
LEMMA RefusedKeeps ==
  ASSUME NEW ds, InvOf(ds, files, day, stopped, Ours), NEW s \in Subs, DirRefused(s, ds),
         UNCHANGED <<day, stopped, files, store>>
  PROVE  Inv'
<1>1. InvOf(Made(s, ds), files, day, stopped, Ours)
  BY MadeKeeps
<1> QED
  BY <1>1, PositionsMove DEF DirRefused, Inv

(* start goes on to its next entry.                                        *)
LEMMA EntryPassed ==
  ASSUME Inv, NEW o \in Objs, dirs[o].start = "list", NEW n \in dirs[o].todo
  PROVE  InvOf([dirs EXCEPT ![o].todo = @ \ {n}], files, day, stopped, Ours)
<1> DEFINE td == dirs[o].todo \ {n}
           r == [dirs[o] EXCEPT !.todo = td]
<1>0. /\ o \in Obj(dirs) /\ dirs[o] \in DirRecs /\ o \in DirIds /\ Local(dirs[o])
      /\ dirs \in DirMaps /\ files \in FileMaps
  BY Known
<1>2. /\ r \in DirRecs /\ r.start = dirs[o].start /\ r.todo = td /\ r.path = dirs[o].path
      /\ r.listed = dirs[o].listed
      /\ r.mu = dirs[o].mu /\ r.track = dirs[o].track /\ r.arg = dirs[o].arg /\ r.left = dirs[o].left
      /\ r.evq = dirs[o].evq
  BY <1>0 DEF DirRecs
<1>3. [dirs EXCEPT ![o] = r] = [dirs EXCEPT ![o].todo = @ \ {n}]
  BY <1>0 DEF DirMaps, DirRecs
<1> HIDE DEF r, td
<1>4. ~Begun(dirs[o])
  BY DEF Begun
<1>5. Local(r)
  BY <1>0, <1>2, <1>4 DEF Local, Begun, td
<1>6. InvOf([dirs EXCEPT ![o] = r], files, day, stopped, Ours)
  BY <1>0, <1>2, <1>4, <1>5, Change DEF Inv, Local
<1> QED
  BY <1>3, <1>6

(* StartDir keeps the invariant.                                           *)
LEMMA StartDirInv ==
  ASSUME Inv, NEW o \in Objs, NEW s \in Subs, StartDir(o, s)
  PROVE  Inv'
<1> DEFINE td == dirs[o].todo \ {s}
           b == [dirs[o] EXCEPT !.start = "newDir", !.todo = td]
           bs == [dirs EXCEPT ![o] = b]
           ts == [dirs EXCEPT ![o].todo = @ \ {s}]
<1>0. /\ o \in Obj(dirs) /\ dirs[o] \in DirRecs /\ o \in DirIds /\ Local(dirs[o])
      /\ dirs \in DirMaps /\ files \in FileMaps
  BY Known
<1>9. CASE DirRefused(s, ts)
  <2>1. dirs[o].start = "list" /\ s \in dirs[o].todo
    BY DEF StartDir
  <2>2. InvOf(ts, files, day, stopped, Ours)
    BY <2>1, EntryPassed
  <2> HIDE DEF ts
  <2> QED
    BY <1>9, <2>2, RefusedKeeps DEF StartDir
<1> SUFFICES ASSUME ~DirRefused(s, ts) PROVE Inv'
  BY <1>9
<1>1. /\ dirs[o].start = "list" /\ s \in dirs[o].todo /\ dirs[o].mu = None /\ DirLeft
      /\ dirs' = WithDir(s, o, bs)
  <2>1. bs = [dirs EXCEPT ![o].start = "newDir", ![o].todo = @ \ {s}]
    BY <1>0 DEF DirMaps, DirRecs
  <2> QED
    BY <2>1 DEF StartDir, Unlocked
<1>3. dirs[o].path = Root
  BY <1>0, <1>1, DirectoryAssumption DEF Local, Names
<1>4. /\ b \in DirRecs /\ b.start = "newDir" /\ b.todo = td /\ b.path = dirs[o].path
      /\ b.listed = dirs[o].listed /\ b.watching = dirs[o].watching
      /\ b.mu = dirs[o].mu /\ b.track = dirs[o].track /\ b.arg = dirs[o].arg /\ b.left = dirs[o].left
      /\ b.evq = dirs[o].evq
  BY <1>0 DEF DirRecs
<1> HIDE DEF b
<1>5. dirs[o].track \notin Shut /\ dirs[o].track \notin Busy /\ ~Begun(dirs[o])
  BY <1>0, <1>1 DEF Local, Begun
<1>6. b.track \in OfDir => b.arg \in Subs
  BY <1>0, <1>4 DEF Local
<1>7. InvOf(WithDir(s, o, bs), files, day, stopped, Ours)
  BY <1>0, <1>1, <1>3, <1>4, <1>5, <1>6, WithDirKeeps
<1> QED
  BY <1>1, <1>7, PositionsMove DEF StartDir, Inv

(* AddEventDir keeps the invariant.                                        *)
LEMMA AddEventDirInv ==
  ASSUME Inv, NEW o \in Objs, AddEventDir(o)
  PROVE  Inv'
<1> DEFINE s == dirs[o].arg
           b == [dirs[o] EXCEPT !.track = "newDir"]
           bs == [dirs EXCEPT ![o] = b]
           ts == Track(o, "select", None)
<1>0. /\ o \in Obj(dirs) /\ dirs[o] \in DirRecs /\ o \in DirIds /\ Local(dirs[o])
      /\ dirs \in DirMaps /\ files \in FileMaps
  BY Known
<1>9. CASE DirRefused(s, ts)
  <2>1. dirs[o].track = "addDir" /\ s \in Subs
    BY <1>0 DEF AddEventDir, Local, OfDir
  <2>2. InvOf(ts, files, day, stopped, Ours)
    BY <2>1, ToSelect DEF Busy, Shut
  <2> HIDE DEF ts, s
  <2> QED
    BY <1>9, <2>1, <2>2, RefusedKeeps DEF AddEventDir
<1> SUFFICES ASSUME ~DirRefused(s, ts) PROVE Inv'
  BY <1>9
<1>1. /\ dirs[o].track = "addDir" /\ dirs[o].mu = None /\ DirLeft
      /\ dirs' = WithDir(s, o, bs)
  <2>1. bs = Track(o, "newDir", dirs[o].arg)
    BY <1>0 DEF DirMaps, DirRecs, Track
  <2> QED
    BY <2>1 DEF AddEventDir, Unlocked
<1>3. dirs[o].path = Root /\ s \in Subs /\ dirs[o].start # "newDir"
  BY <1>0, <1>1 DEF Local, OfDir
<1>4. /\ b \in DirRecs /\ b.start = dirs[o].start /\ b.todo = dirs[o].todo /\ b.path = dirs[o].path
      /\ b.listed = dirs[o].listed /\ b.watching = dirs[o].watching
      /\ b.mu = dirs[o].mu /\ b.track = "newDir" /\ b.arg = dirs[o].arg /\ b.left = dirs[o].left
      /\ b.evq = dirs[o].evq
  BY <1>0 DEF DirRecs
<1> HIDE DEF b
<1>5. dirs[o].track \notin Shut /\ b.track \in Busy /\ b.track \notin Shut /\ b.track \notin OfFile
  BY <1>1, <1>4 DEF Shut, Busy, OfFile
<1>6. ~Begun(dirs[o]) \/ Begun(b)
  BY <1>4 DEF Begun
<1>7. InvOf(WithDir(s, o, bs), files, day, stopped, Ours)
  BY <1>0, <1>1, <1>3, <1>4, <1>5, <1>6, WithDirKeeps
<1> QED
  BY <1>1, <1>7, PositionsMove DEF AddEventDir, Inv

(* The objects when the addDir of o has listed the new object c.           *)
Added(o, c, es) ==
  /\ es \in DirMaps /\ Obj(es) = Obj(dirs)
  /\ es[o].path = Root /\ es[o].listed = dirs[o].listed /\ es[o].evq = dirs[o].evq
  /\ es[o].watching = dirs[o].watching
  /\ es[o].todo = dirs[o].todo /\ es[o].mu = None /\ es[o].left = dirs[o].left
  /\ es[o].start = IF dirs[o].start = "newDir" THEN "list" ELSE dirs[o].start
  /\ es[o].track = IF dirs[o].start = "newDir" THEN dirs[o].track ELSE "select"
  /\ dirs[o].start = "newDir" => es[o].arg = dirs[o].arg
  /\ es[c].listed
  /\ \A d \in Obj(dirs) : d # o =>
        /\ es[d] \in DirRecs /\ es[d].path = dirs[d].path /\ es[d].evq = dirs[d].evq
        /\ es[d].watching = dirs[d].watching
        /\ es[d].start = dirs[d].start /\ es[d].todo = dirs[d].todo /\ es[d].track = dirs[d].track
        /\ es[d].arg = dirs[d].arg /\ es[d].left = dirs[d].left /\ es[d].mu = dirs[d].mu
        /\ d # c => (es[d].listed => dirs[d].listed)
        /\ d # c /\ es[d].listed => es[d].path # dirs[c].path
        /\ d # c /\ dirs[d].listed /\ dirs[d].path # dirs[c].path => es[d].listed

(* What the end of addDir does to the objects (directory.go:145-151).      *)
LEMMA DirAddedFacts ==
  ASSUME Inv, NEW o \in Objs, DirAdded(o), NEW c, c = dirs[o].mu
  PROVE  /\ dirs[o].path = Root /\ c # None /\ dirs[o].track # "rmDirFiles"
         /\ "newDir" \in {dirs[o].start, dirs[o].track}
         /\ c \in Obj(dirs) /\ dirs[c].path # Root /\ dirs[c].track \notin Shut /\ c # o
         /\ dirs[c] \in DirRecs /\ c \in DirIds /\ Begun(dirs[c])
         /\ \E es : Added(o, c, es) /\ Become(es, files) /\ UNCHANGED <<fs, store>>
<1> DEFINE ds == [d \in DirIds |->
                  IF d = c THEN [dirs[c] EXCEPT !.listed = TRUE]
                  ELSE IF d \in Objs /\ dirs[d].path = dirs[c].path
                       THEN [dirs[d] EXCEPT !.listed = FALSE] ELSE dirs[d]]
           os == IF dirs[o].start = "newDir"
               THEN [dirs[o] EXCEPT !.start = "list", !.mu = None]
               ELSE [dirs[o] EXCEPT !.track = "select", !.arg = None, !.mu = None]
           es == [ds EXCEPT ![o] = os]
<1>0. /\ o \in Obj(dirs) /\ dirs[o] \in DirRecs /\ o \in DirIds /\ Local(dirs[o])
      /\ dirs \in DirMaps /\ files \in FileMaps /\ Objs = Obj(dirs)
  BY Known, ObjsSame
<1>1. "newDir" \in {dirs[o].start, dirs[o].track} /\ Started(c) /\ Become(es, files) /\ UNCHANGED <<fs, store>>
  BY DEF DirAdded
<1>2. dirs[o].path = Root /\ dirs[o].mu # None /\ dirs[o].track # "rmDirFiles"
  BY <1>0, <1>1 DEF Local, Busy
<1>3. /\ c \in Obj(dirs) /\ dirs[c].path # Root /\ dirs[c].track \notin Shut /\ c # o
      /\ dirs[c] \in DirRecs /\ c \in DirIds /\ Begun(dirs[c])
  BY <1>0, <1>1, <1>2 DEF Inv, InvOf, DirInv, Holding, Held, Obj, DirMaps, Started, Begun
<1>4. /\ os \in DirRecs /\ os.path = Root /\ os.listed = dirs[o].listed /\ os.evq = dirs[o].evq
      /\ os.watching = dirs[o].watching
      /\ os.todo = dirs[o].todo /\ os.mu = None /\ os.left = dirs[o].left
      /\ os.start = IF dirs[o].start = "newDir" THEN "list" ELSE dirs[o].start
      /\ os.track = IF dirs[o].start = "newDir" THEN dirs[o].track ELSE "select"
      /\ dirs[o].start = "newDir" => os.arg = dirs[o].arg
  BY <1>0, <1>2 DEF DirRecs
<1> HIDE DEF os
<1>5. \A d \in Obj(dirs) : d # o =>
        /\ es[d] \in DirRecs /\ es[d].path = dirs[d].path /\ es[d].evq = dirs[d].evq /\ es[d].watching = dirs[d].watching
        /\ es[d].start = dirs[d].start /\ es[d].todo = dirs[d].todo /\ es[d].track = dirs[d].track
        /\ es[d].arg = dirs[d].arg /\ es[d].left = dirs[d].left /\ es[d].mu = dirs[d].mu
        /\ d # c => (es[d].listed => dirs[d].listed)
        /\ d # c /\ es[d].listed => es[d].path # dirs[c].path
        /\ d # c /\ dirs[d].listed /\ dirs[d].path # dirs[c].path => es[d].listed
        /\ d = c => es[d].listed
  <2> SUFFICES ASSUME NEW d \in Obj(dirs), d # o PROVE
        /\ es[d] \in DirRecs /\ es[d].path = dirs[d].path /\ es[d].evq = dirs[d].evq /\ es[d].watching = dirs[d].watching
        /\ es[d].start = dirs[d].start /\ es[d].todo = dirs[d].todo /\ es[d].track = dirs[d].track
        /\ es[d].arg = dirs[d].arg /\ es[d].left = dirs[d].left /\ es[d].mu = dirs[d].mu
        /\ d # c => (es[d].listed => dirs[d].listed)
        /\ d # c /\ es[d].listed => es[d].path # dirs[c].path
        /\ d # c /\ dirs[d].listed /\ dirs[d].path # dirs[c].path => es[d].listed
        /\ d = c => es[d].listed
    OBVIOUS
  <2>1. es[d] = IF d = c THEN [dirs[c] EXCEPT !.listed = TRUE]
                  ELSE IF d \in Objs /\ dirs[d].path = dirs[c].path
                       THEN [dirs[d] EXCEPT !.listed = FALSE] ELSE dirs[d]
    BY DEF Obj
  <2>2. dirs[d] \in DirRecs
    BY <1>0 DEF Obj, DirMaps
  <2>3. CASE d = c
    <3>1. es[d] = [dirs[d] EXCEPT !.listed = TRUE]
      BY <2>1, <2>3
    <3> HIDE DEF es
    <3>2. /\ es[d] \in DirRecs /\ es[d].path = dirs[d].path /\ es[d].evq = dirs[d].evq /\ es[d].watching = dirs[d].watching
          /\ es[d].start = dirs[d].start /\ es[d].todo = dirs[d].todo /\ es[d].track = dirs[d].track
          /\ es[d].arg = dirs[d].arg /\ es[d].left = dirs[d].left /\ es[d].mu = dirs[d].mu
      BY <2>2, <3>1 DEF DirRecs
    <3> QED
      BY ONLY <2>3, <3>2, <3>1, <2>2 DEF DirRecs
  <2>4. CASE d # c /\ dirs[d].path = dirs[c].path
    <3>1. es[d] = [dirs[d] EXCEPT !.listed = FALSE]
      BY <1>0, <2>1, <2>4
    <3> HIDE DEF es
    <3>2. ~es[d].listed
      BY <2>2, <3>1 DEF DirRecs
    <3>3. /\ es[d] \in DirRecs /\ es[d].path = dirs[d].path /\ es[d].evq = dirs[d].evq /\ es[d].watching = dirs[d].watching
          /\ es[d].start = dirs[d].start /\ es[d].todo = dirs[d].todo /\ es[d].track = dirs[d].track
          /\ es[d].arg = dirs[d].arg /\ es[d].left = dirs[d].left /\ es[d].mu = dirs[d].mu
      BY <2>2, <3>1 DEF DirRecs
    <3> QED
      BY ONLY <2>4, <3>2, <3>3
  <2>5. CASE d # c /\ dirs[d].path # dirs[c].path
    <3>1. es[d] = dirs[d]
      BY <2>1, <2>5
    <3> HIDE DEF es
    <3> QED
      BY <2>2, <2>5, <3>1
  <2> QED
    BY <2>3, <2>4, <2>5
<1>6. es[o] = os /\ \A d \in DirIds : dirs[d] = None => es[d] = None
  BY <1>0, <1>3 DEF Obj
<1>61. es \in [DirIds -> DirRecs \cup {None}]
  <2>1. DOMAIN es = DirIds /\ es = [d \in DirIds |-> es[d]]
    BY DEF DirMaps
  <2>2. \A d \in DirIds : es[d] \in DirRecs \cup {None}
    BY <1>4, <1>5, <1>6 DEF Obj
  <2> QED
    BY <2>1, <2>2
<1> HIDE DEF es
<1>7. Obj(es) = Obj(dirs) /\ es \in DirMaps
  BY <1>4, <1>5, <1>6, <1>61, NoneIsNoObject DEF Obj, DirMaps
<1>8. Added(o, c, es)
  BY <1>3, <1>4, <1>5, <1>6, <1>7 DEF Added
<1> QED
  BY <1>1, <1>2, <1>3, <1>8

(* DirAdded keeps the invariant.                                           *)
LEMMA DirAddedInv == ASSUME Inv, NEW o \in Objs, DirAdded(o) PROVE Inv'
<1> DEFINE c == dirs[o].mu
<1>0. /\ o \in Obj(dirs) /\ dirs[o] \in DirRecs /\ o \in DirIds /\ Local(dirs[o])
      /\ dirs \in DirMaps /\ files \in FileMaps /\ Objs = Obj(dirs)
  BY Known, ObjsSame
<1>1. /\ dirs[o].path = Root /\ c # None /\ dirs[o].track # "rmDirFiles"
      /\ "newDir" \in {dirs[o].start, dirs[o].track}
      /\ c \in Obj(dirs) /\ dirs[c].path # Root /\ dirs[c].track \notin Shut /\ c # o
      /\ dirs[c] \in DirRecs /\ c \in DirIds /\ Begun(dirs[c])
      /\ \E es : Added(o, c, es) /\ Become(es, files) /\ UNCHANGED <<fs, store>>
  BY DirAddedFacts
<1> HIDE DEF c
<1>2. c = dirs[o].mu
  BY DEF c
<1>3. PICK es : Added(o, c, es) /\ Become(es, files) /\ UNCHANGED <<fs, store>>
  BY <1>1
<1>4. /\ es \in DirMaps /\ Obj(es) = Obj(dirs)
      /\ es[o].path = Root /\ es[o].listed = dirs[o].listed /\ es[o].evq = dirs[o].evq
      /\ es[o].todo = dirs[o].todo /\ es[o].mu = None /\ es[o].left = dirs[o].left
      /\ es[o].start = IF dirs[o].start = "newDir" THEN "list" ELSE dirs[o].start
      /\ es[o].track = IF dirs[o].start = "newDir" THEN dirs[o].track ELSE "select"
      /\ dirs[o].start = "newDir" => es[o].arg = dirs[o].arg
  BY <1>3 DEF Added
<1>5. \A d \in Obj(dirs) : d # o =>
        /\ es[d] \in DirRecs /\ es[d].path = dirs[d].path /\ es[d].evq = dirs[d].evq
        /\ es[d].start = dirs[d].start /\ es[d].todo = dirs[d].todo /\ es[d].track = dirs[d].track
        /\ es[d].arg = dirs[d].arg /\ es[d].left = dirs[d].left /\ es[d].mu = dirs[d].mu
        /\ d # c => (es[d].listed => dirs[d].listed)
  BY <1>3 DEF Added
<1>8. Local(es[o])
  BY <1>1, <1>2, <1>4, <1>0 DEF Local, Busy, Shut, Begun, OfFile, OfDir
<1>9. \A d \in Obj(dirs) : d # o => Local(es[d])
  <2> SUFFICES ASSUME NEW d \in Obj(dirs), d # o PROVE Local(es[d])
    OBVIOUS
  <2>1. Local(dirs[d]) /\ dirs[d].path # Root
    BY <1>1, <1>2, <1>4, <1>0 DEF Inv, InvOf, DirInv, Locals, OneRoot
  <2>2. es[d].listed => Begun(es[d])
    BY <1>1, <1>2, <1>4, <1>5, <2>1 DEF Local, Begun
  <2> QED
    BY <1>1, <1>2, <1>4, <1>5, <2>1, <2>2 DEF Local, Begun
<1>10. Locals(es)
  BY <1>1, <1>2, <1>4, <1>8, <1>9 DEF Locals
<1>11. \A d \in Obj(dirs) : es[d].path = dirs[d].path /\ (d # o => es[d].mu = None)
  BY <1>1, <1>2, <1>4, <1>0, <1>5 DEF Inv, InvOf, DirInv, Locals, Local, OneRoot
<1>12. OneRoot(es)
  BY <1>1, <1>2, <1>4, <1>11 DEF OneRoot, Inv, InvOf, DirInv
<1>13. Holding(es)
  BY <1>1, <1>2, <1>4, <1>11 DEF Holding
<1>14. Stops(es, stopped)
  BY <1>1, <1>2, <1>4, <1>0, <1>11 DEF Stops, Inv, InvOf, DirInv, OneRoot, Begun
<1>15. Told(es)
  <2> SUFFICES ASSUME NEW d \in Obj(dirs), es[d].path # Root, es[d].listed, es[d].track \in Shut
               PROVE  es[o].track \in Shut
    BY <1>1, <1>2, <1>4, <1>11, <1>0 DEF Told, Inv, InvOf, DirInv, OneRoot
  <2>1. d # o /\ d # c
    BY <1>1, <1>2, <1>4, <1>5, <1>11
  <2>2. dirs[o].track \in Shut
    BY <1>1, <1>2, <1>4, <1>0, <1>5, <2>1 DEF Told, Inv, InvOf, DirInv
  <2>3. dirs[o].start = "list" /\ dirs[o].track \notin Busy
    BY <1>1, <1>2, <1>4, <1>0, <2>2 DEF Local, Begun, Shut, Busy
  <2> QED
    BY <1>1, <1>2, <1>4, <2>2, <2>3 DEF Shut, Busy
<1>16. Placed(es, files)
  BY <1>1, <1>2, <1>4, <1>11 DEF Placed, Inv, InvOf, FileInv
<1>17. dirs[o].track \notin Shut
  BY <1>1, <1>2, <1>4, <1>0 DEF Local, Begun, Shut
<1>18. Closers(es, files)
  BY <1>1, <1>2, <1>4, <1>5, <1>17 DEF Closers, Inv, InvOf, FileInv, Shut
<1>19. Dated(es, files, day)
  BY <1>1, <1>2, <1>4, <1>5, <1>17 DEF Dated, Inv, InvOf, FileInv, Shut
<1>20. InvOf(es, files, day, stopped, Ours)
  BY <1>1, <1>2, <1>4, <1>0, <1>10, <1>12, <1>13, <1>14, <1>15, <1>16, <1>18, <1>19 DEF Inv, InvOf, DirInv, FileInv
<1> QED
  BY <1>3, <1>20, BecomeKeeps DEF Inv, fs, store, Ours

(* RemoveDir keeps the invariant.                                          *)
LEMMA RemoveDirInv ==
  ASSUME Inv, NEW o \in Objs, NEW c, RemoveDir(o, c)
  PROVE  Inv'
<1> DEFINE r == [dirs[o] EXCEPT !.track = "rmDirFiles", !.mu = c, !.left = FileMap(c)]
           es == [dirs EXCEPT ![o] = r]
<1>0. /\ o \in Obj(dirs) /\ dirs[o] \in DirRecs /\ o \in DirIds /\ Local(dirs[o])
      /\ dirs \in DirMaps /\ files \in FileMaps /\ Objs = Obj(dirs)
  BY Known, ObjsSame
<1>1. /\ dirs[o].track = "rmDir" /\ c \in Obj(dirs) /\ dirs[c].path # Root /\ dirs[c].listed
      /\ dirs[o].path = Root /\ dirs[c].path = dirs[o].arg /\ dirs[o].mu = None
      /\ c \in DirIds /\ c # o /\ FileMap(c) \subseteq FileIds
  BY <1>0 DEF RemoveDir, DirMap, Unlocked, Obj, FileMap, Tails
<1>2. dirs' = es
  BY <1>0 DEF RemoveDir, Track, DirMaps, DirRecs
<1>3. /\ r \in DirRecs /\ r.path = dirs[o].path /\ r.listed = dirs[o].listed /\ r.evq = dirs[o].evq
      /\ r.start = dirs[o].start /\ r.todo = dirs[o].todo /\ r.track = "rmDirFiles" /\ r.mu = c
      /\ r.arg = dirs[o].arg /\ r.left = FileMap(c)
  BY <1>0, <1>1 DEF DirRecs
<1> HIDE DEF r
<1>4. es \in DirMaps /\ es[o] = r /\ \A d \in DirIds \ {o} : es[d] = dirs[d]
  BY <1>0, <1>3 DEF DirMaps
<1> HIDE DEF es
<1>5. Obj(es) = Obj(dirs) /\ (\A d \in Obj(dirs) : d # o => es[d] = dirs[d]) /\ c # None
  BY <1>0, <1>1, <1>3, <1>4, NoneIsNoObject, DirectoryAssumption DEF Obj
<1>6. dirs[c].track \notin Shut
  BY <1>0, <1>1 DEF Inv, InvOf, DirInv, Told, Shut
<1>7. Local(r)
  BY <1>0, <1>1, <1>3, <1>5 DEF Local, OfFile, OfDir, Busy, Shut, Begun
<1>8. Locals(es)
  BY <1>4, <1>5, <1>7 DEF Locals, Inv, InvOf, DirInv
<1>9. OneRoot(es) /\ Stops(es, stopped) /\ Told(es)
  BY <1>1, <1>3, <1>4, <1>5 DEF OneRoot, Stops, Told, Inv, InvOf, DirInv, Begun, Shut
<1>10. Holding(es)
  <2>1. \A d \in Obj(dirs) : d # o => es[d].mu = None
    BY <1>0, <1>1, <1>5 DEF Inv, InvOf, DirInv, Locals, Local, OneRoot
  <2>2. Held(es, o)
    BY <1>1, <1>3, <1>4, <1>5, <1>6 DEF Held
  <2> QED
    BY <1>5, <2>1, <2>2 DEF Holding
<1>11. Placed(es, files)
  BY <1>3, <1>4, <1>5 DEF Placed, Inv, InvOf, FileInv
<1>12. Closers(es, files) /\ Dated(es, files, day)
  BY <1>1, <1>3, <1>4, <1>5 DEF Closers, Dated, Inv, InvOf, FileInv, Shut
<1> QED
  BY <1>0, <1>2, <1>4, <1>8, <1>9, <1>10, <1>11, <1>12, PositionsMove DEF RemoveDir, Inv, InvOf, DirInv, FileInv, fs

(* What the end of removeDir does to the objects (directory.go:154-166).   *)
LEMMA DirRemovedFacts ==
  ASSUME Inv, NEW o \in Objs, DirRemoved(o), NEW c, c = dirs[o].mu
  PROVE  /\ dirs[o].path = Root /\ c # None /\ dirs[o].start # "newDir"
         /\ dirs[o].track = "rmDirFiles" /\ dirs[c].track = "select"
         /\ c \in Obj(dirs) /\ dirs[c].path # Root /\ dirs[c].listed /\ c # o
         /\ dirs[c] \in DirRecs /\ c \in DirIds /\ Local(dirs[c]) /\ Begun(dirs[c])
         /\ dirs[c].path = dirs[o].arg
         /\ UNCHANGED <<fs, files, store>>
         /\ dirs' \in DirMaps /\ Obj(dirs') = Obj(dirs)
         /\ dirs'[o].path = dirs[o].path /\ dirs'[o].listed = dirs[o].listed /\ dirs'[o].evq = dirs[o].evq
         /\ dirs'[o].watching = dirs[o].watching
         /\ dirs'[o].start = dirs[o].start /\ dirs'[o].todo = dirs[o].todo /\ dirs'[o].track = "select" /\ dirs'[o].mu = None
         /\ dirs'[c].path = dirs[c].path /\ ~dirs'[c].listed /\ dirs'[c].evq = dirs[c].evq
         /\ dirs'[c].start = dirs[c].start /\ dirs'[c].todo = dirs[c].todo /\ dirs'[c].track = "closing" /\ dirs'[c].mu = dirs[c].mu
         /\ dirs'[c].arg = dirs[c].arg /\ dirs'[c].left = FileMap(c)
         /\ \A d \in Obj(dirs) : d # o /\ d # c => dirs'[d] = dirs[d]
<1> DEFINE rc == [dirs[c] EXCEPT !.track = "closing", !.left = FileMap(c), !.listed = FALSE]
           r == [dirs[o] EXCEPT !.mu = None, !.track = "select", !.arg = None, !.left = {}]
           es == [dirs EXCEPT ![c] = rc, ![o] = r]
<1>0. /\ o \in Obj(dirs) /\ dirs[o] \in DirRecs /\ o \in DirIds /\ Local(dirs[o])
      /\ dirs \in DirMaps /\ files \in FileMaps /\ Objs = Obj(dirs)
  BY Known, ObjsSame
<1>1. dirs[o].track = "rmDirFiles" /\ dirs[c].track = "select" /\ UNCHANGED <<fs, files, store>>
  BY DEF DirRemoved
<1>2. dirs[o].path = Root /\ dirs[o].mu # None /\ dirs[o].start # "newDir"
  BY <1>0, <1>1 DEF Local, Busy
<1>3. /\ c \in Obj(dirs) /\ dirs[c].path # Root /\ dirs[c].listed /\ c # o
      /\ dirs[c] \in DirRecs /\ c \in DirIds /\ Local(dirs[c]) /\ Begun(dirs[c])
      /\ FileMap(c) \subseteq FileIds /\ dirs[c].path = dirs[o].arg
  BY <1>0, <1>1, <1>2 DEF Inv, InvOf, DirInv, Locals, Local, Holding, Held, Busy, Obj, DirMaps, FileMap, Tails
<1>4. dirs' = es
  <2>1. Closing(dirs, c) = [dirs EXCEPT ![c] = [dirs[c] EXCEPT !.track = "closing", !.left = FileMap(c)]]
    BY <1>0, <1>3 DEF Closing, DirMaps, DirRecs
  <2>2. dirs' = [Closing(dirs, c) EXCEPT ![c].listed = FALSE, ![o].mu = None,
                ![o].track = "select", ![o].arg = None, ![o].left = {}]
    BY DEF DirRemoved
  <2> QED
    BY <1>0, <1>3, <2>1, <2>2 DEF DirMaps, DirRecs
<1>5. /\ r \in DirRecs /\ r.path = dirs[o].path /\ r.listed = dirs[o].listed /\ r.evq = dirs[o].evq
      /\ r.watching = dirs[o].watching
      /\ r.start = dirs[o].start /\ r.todo = dirs[o].todo /\ r.track = "select" /\ r.mu = None
  BY <1>0, <1>1 DEF DirRecs
<1>6. /\ rc \in DirRecs /\ rc.path = dirs[c].path /\ ~rc.listed /\ rc.evq = dirs[c].evq
      /\ rc.start = dirs[c].start /\ rc.todo = dirs[c].todo /\ rc.track = "closing" /\ rc.mu = dirs[c].mu
      /\ rc.arg = dirs[c].arg /\ rc.left = FileMap(c)
  BY <1>3 DEF DirRecs
<1> HIDE DEF r, rc
<1>7. es \in DirMaps /\ es[o] = r /\ es[c] = rc /\ \A d \in DirIds \ {o, c} : es[d] = dirs[d]
  BY <1>0, <1>3, <1>5, <1>6 DEF DirMaps
<1> HIDE DEF es
<1>8. Obj(es) = Obj(dirs) /\ (\A d \in Obj(dirs) : d # o /\ d # c => es[d] = dirs[d])
  BY <1>0, <1>3, <1>5, <1>6, <1>7, NoneIsNoObject DEF Obj
<1> QED
  BY <1>0, <1>1, <1>2, <1>3, <1>4, <1>5, <1>6, <1>7, <1>8

(* DirRemoved keeps the invariant.                                         *)
LEMMA DirRemovedInv == ASSUME Inv, NEW o \in Objs, DirRemoved(o) PROVE Inv'
<1> DEFINE c == dirs[o].mu
<1>0. /\ o \in Obj(dirs) /\ dirs[o] \in DirRecs /\ o \in DirIds /\ Local(dirs[o])
      /\ dirs \in DirMaps /\ files \in FileMaps /\ Objs = Obj(dirs)
  BY Known, ObjsSame
<1>1. /\ dirs[o].path = Root /\ c # None /\ dirs[o].start # "newDir"
      /\ dirs[o].track = "rmDirFiles" /\ dirs[c].track = "select"
      /\ c \in Obj(dirs) /\ dirs[c].path # Root /\ dirs[c].listed /\ c # o
      /\ dirs[c] \in DirRecs /\ c \in DirIds /\ Local(dirs[c]) /\ Begun(dirs[c])
      /\ dirs[c].path = dirs[o].arg
      /\ UNCHANGED <<fs, files, store>>
      /\ dirs' \in DirMaps /\ Obj(dirs') = Obj(dirs)
      /\ dirs'[o].path = dirs[o].path /\ dirs'[o].listed = dirs[o].listed /\ dirs'[o].evq = dirs[o].evq
      /\ dirs'[o].watching = dirs[o].watching
      /\ dirs'[o].start = dirs[o].start /\ dirs'[o].todo = dirs[o].todo /\ dirs'[o].track = "select" /\ dirs'[o].mu = None
      /\ dirs'[c].path = dirs[c].path /\ ~dirs'[c].listed /\ dirs'[c].evq = dirs[c].evq
      /\ dirs'[c].start = dirs[c].start /\ dirs'[c].todo = dirs[c].todo /\ dirs'[c].track = "closing" /\ dirs'[c].mu = dirs[c].mu
      /\ dirs'[c].arg = dirs[c].arg /\ dirs'[c].left = FileMap(c)
      /\ \A d \in Obj(dirs) : d # o /\ d # c => dirs'[d] = dirs[d]
  BY DirRemovedFacts
<1> HIDE DEF c
<1>9. Local(dirs'[o])
  BY <1>0, <1>1 DEF Local, OfFile, OfDir, Busy, Shut, Begun
<1>10. Local(dirs'[c])
  BY <1>0, <1>1 DEF Local, OfFile, OfDir, Busy, Shut, Begun
<1>11. Locals(dirs')
  BY <1>0, <1>1, <1>9, <1>10 DEF Locals, Inv, InvOf, DirInv
<1>12. OneRoot(dirs')
  BY <1>0, <1>1 DEF OneRoot, Inv, InvOf, DirInv
<1>13. Stops(dirs', stopped)
  BY <1>0, <1>1 DEF Stops, Inv, InvOf, DirInv, Begun
<1>14. Holding(dirs')
  <2>1. \A d \in Obj(dirs) : dirs'[d].mu = None
    BY <1>0, <1>1 DEF Inv, InvOf, DirInv, Locals, Local, OneRoot
  <2> QED
    BY <1>0, <1>1, <2>1 DEF Holding
<1>15. Told(dirs')
  BY <1>0, <1>1 DEF Told, Inv, InvOf, DirInv, OneRoot, Shut
<1>16. Placed(dirs', files)
  BY <1>0, <1>1 DEF Placed, Inv, InvOf, FileInv
<1>17. Closers(dirs', files)
  <2> SUFFICES ASSUME NEW p \in Obj(dirs')
               PROVE  /\ dirs'[p].track = "closeFile" => dirs'[p].arg \in File(files) /\ files[dirs'[p].arg].dir = p
                      /\ dirs'[p].track \in Shut => \A i \in File(files) :
                           files[i].dir = p /\ files[i].listed /\ Live(files[i]) =>
                             /\ dirs'[p].track # "end"
                             /\ i \in dirs'[p].left \/ (dirs'[p].track = "closeFile" /\ i = dirs'[p].arg)
    BY DEF Closers
  <2>1. CASE p = o
    BY <1>0, <1>1, <2>1 DEF Shut
  <2>2. CASE p = c
    BY <1>0, <1>1, <2>2 DEF FileMap, File, Tails
  <2>3. CASE p # o /\ p # c
    BY <1>0, <1>1, <2>3 DEF Closers, Inv, InvOf, FileInv
  <2> QED
    BY <2>1, <2>2, <2>3
<1>18. Dated(dirs', files, day)
  BY <1>0, <1>1 DEF Dated, Inv, InvOf, FileInv
<1> QED
  BY <1>0, <1>1, <1>11, <1>12, <1>13, <1>14, <1>15, <1>16, <1>17, <1>18, PositionsMove DEF Inv, InvOf, DirInv, FileInv, fs

(* What is not about objects. *)
WorldOK ==
  /\ day \in 1 .. LastDay
  /\ born \in [Files -> 0 .. LastDay]
  /\ there \subseteq Subs
  /\ mishaps \in 0 .. MaxMishaps
  /\ stopped \in BOOLEAN
  /\ pos \subseteq Files /\ kept \subseteq pos
  /\ lost \subseteq Files

(* The invariant holds when START has made the rule's directory.           *)
LEMMA InitInv == Init => Inv /\ WorldOK
<1> SUFFICES ASSUME Init PROVE Inv /\ WorldOK
  OBVIOUS
<1> DEFINE o0 == CHOOSE d \in DirIds : TRUE
<1>1. o0 \in DirIds
  BY DirectoryAssumption
<1>2. NewDir(Root) \in DirRecs /\ NewDir(Root) # None
  BY NewDirType, NoneIsNoObject
<1>3. /\ NewDir(Root).path = Root /\ NewDir(Root).evq = <<>> /\ NewDir(Root).start = "read"
      /\ NewDir(Root).todo = {} /\ NewDir(Root).track = "select" /\ NewDir(Root).mu = None
  BY DEF NewDir
<1>4. NewDir(Root).listed
  BY DEF NewDir
<1> HIDE DEF o0
<1>5. dirs = [o \in DirIds |-> IF o = o0 THEN NewDir(Root) ELSE None]
  BY DEF Init, o0
<1>6. dirs \in DirMaps /\ files \in FileMaps
  BY <1>2, <1>5 DEF DirMaps, FileMaps, Init
<1>7. Obj(dirs) = {o0} /\ dirs[o0] = NewDir(Root) /\ File(files) = {}
  BY <1>1, <1>2, <1>5 DEF Obj, File, Init
<1>8. Local(NewDir(Root))
  BY <1>3, <1>4 DEF Local, OfFile, OfDir, Busy, Shut, Begun
<1>9. DirInv(dirs, stopped)
  BY <1>3, <1>7, <1>8 DEF DirInv, Locals, OneRoot, Holding, Stops, Told, Init
<1>10. FileInv(dirs, files, day, Ours)
  BY <1>3, <1>7 DEF FileInv, Placed, Closers, Dated, Accounted, Shut, Init, Ours
<1>11. WorldOK
  <2>1. LastDay \in Nat /\ LastDay >= 1 /\ MaxMishaps \in Nat
    BY DirectoryAssumption
  <2>2. born \in [Files -> 0 .. LastDay]
    BY <2>1 DEF Init
  <2>3. day \in 1 .. LastDay /\ mishaps \in 0 .. MaxMishaps
    BY <2>1 DEF Init
  <2>4. /\ there \subseteq Subs /\ stopped \in BOOLEAN
        /\ pos \subseteq Files /\ kept \subseteq pos /\ lost \subseteq Files
    BY DEF Init
  <2> QED
    BY <2>2, <2>3, <2>4 DEF WorldOK
<1> QED
  BY <1>6, <1>9, <1>10, <1>11 DEF Inv, InvOf

(* No step takes the date, the file system, the positions and the counters *)
(* out of their bounds.                                                    *)
PositionsOK == pos \subseteq Files /\ kept \subseteq pos
FailuresOK  == mishaps \in 0 .. MaxMishaps /\ lost \subseteq Files

LEMMA StoreSteps ==
  ASSUME pos \subseteq Files, kept \subseteq pos
  PROVE  /\ UNCHANGED store => PositionsOK'
         /\ \A f : Zeroed(f) => PositionsOK'
         /\ \A f \in Files : Saved(f) => PositionsOK'
         /\ \A i : Forget(i) => PositionsOK'
<1>1. UNCHANGED store => PositionsOK'
  BY DEF store, PositionsOK
<1>2. \A f : Zeroed(f) => PositionsOK'
  BY DEF Zeroed, PositionsOK
<1>3. \A f \in Files : Saved(f) => PositionsOK'
  BY <1>1, <1>2 DEF Saved, PositionsOK
<1>4. \A i : Forget(i) => PositionsOK'
  BY <1>2 DEF Forget, PositionsOK
<1> QED
  BY <1>1, <1>2, <1>3, <1>4

(* What is counted and noted of failing calls stays within its bounds.     *)
LEMMA FailSteps ==
  ASSUME mishaps \in 0 .. MaxMishaps, lost \subseteq Files
  PROVE  /\ UNCHANGED fails => FailuresOK'
         /\ Mishap => mishaps' \in 0 .. MaxMishaps
         /\ \A F \in SUBSET Files : Fails(F) => FailuresOK'
<1>1. UNCHANGED fails => FailuresOK'
  BY DEF fails, FailuresOK
<1>2. Mishap => mishaps' \in 0 .. MaxMishaps
  BY DirectoryAssumption DEF Mishap
<1>3. \A F \in SUBSET Files : Fails(F) => FailuresOK'
  BY <1>2 DEF Fails, FailuresOK
<1> QED
  BY <1>1, <1>2, <1>3

(* The steps that leave the date and the file system alone.                *)
LEMMA QuietSteps ==
  ASSUME WorldOK, UNCHANGED fs, PositionsOK', FailuresOK'
  PROVE  WorldOK'
  BY DEF WorldOK, fs, PositionsOK, FailuresOK

LEMMA WorldSteps ==
  ASSUME Inv, WorldOK, Next
  PROVE  WorldOK'
<1>0. /\ LastDay \in Nat /\ MaxMishaps \in Nat
      /\ mishaps \in 0 .. MaxMishaps /\ lost \subseteq Files
      /\ pos \subseteq Files /\ kept \subseteq pos
      /\ \A i \in Tails : files[i].path \in Files
  BY DirectoryAssumption DEF WorldOK, Inv, InvOf, Tails, FileMaps, FileRecs
<1>1. ASSUME NEW f \in Files, CreateFile(f) PROVE WorldOK'
  BY <1>0, <1>1, FailSteps DEF WorldOK, CreateFile, store
<1>2. ASSUME NEW f \in Files, NEW how, Leave(f, how) PROVE WorldOK'
  BY <1>0, <1>2 DEF WorldOK, Leave, store, fails
<1>3. ASSUME NEW s \in Subs, MakeDir(s) PROVE WorldOK'
  BY <1>0, <1>3, FailSteps DEF WorldOK, MakeDir, store
<1>4. ASSUME NEW s \in Subs, RemoveEmptyDir(s) PROVE WorldOK'
  BY <1>0, <1>4, FailSteps DEF WorldOK, RemoveEmptyDir, store
<1>5. CASE Midnight
  BY <1>0, <1>5 DEF WorldOK, Midnight, store, fails
<1>6. CASE StopRule
  BY <1>0, <1>6 DEF WorldOK, StopRule, store, fails
<1>61. ASSUME NEW s \in Subs, NEW ds, DirRefused(s, ds), UNCHANGED <<day, born, stopped, files, store>>
       PROVE  WorldOK'
  <2>1. FailuresOK' /\ PositionsOK'
    BY <1>0, <1>61, FailSteps, StoreSteps DEF DirRefused
  <2>2. there' \subseteq Subs
    BY <1>61 DEF DirRefused, WorldOK
  <2> QED
    BY <1>61, <2>1, <2>2 DEF WorldOK, PositionsOK, FailuresOK
<1>62. ASSUME NEW s \in Subs, there' = there \cup {s}, UNCHANGED fails, UNCHANGED <<day, born, stopped, files, store>>
       PROVE  WorldOK'
  BY <1>62 DEF WorldOK, fails, store
<1>7. ASSUME NEW o \in Objs, NEW s \in Subs, StartDir(o, s) PROVE WorldOK'
  BY <1>7, <1>61, <1>62 DEF StartDir
<1>8. ASSUME NEW o \in Objs, AddEventDir(o) PROVE WorldOK'
  <2>1. dirs[o].arg \in Subs
    BY <1>8, Known DEF AddEventDir, Local, OfDir
  <2> QED
    BY <1>8, <2>1, <1>61, <1>62 DEF AddEventDir
<1>81. ASSUME NEW o \in Objs, ReadDir(o) PROVE WorldOK'
  <2>1. {f \in Files : dirs[o].path \in {In[f], Root}} \in SUBSET Files
    OBVIOUS
  <2>2. FailuresOK' /\ PositionsOK' /\ UNCHANGED fs
    BY <1>0, <1>81, <2>1, FailSteps, StoreSteps DEF ReadDir
  <2> QED
    BY <2>2, QuietSteps
<1>82. ASSUME NEW f \in Files, NEW ds, FileRefused(f, ds), UNCHANGED fs PROVE WorldOK'
  <2>1. FailuresOK' /\ PositionsOK'
    BY <1>0, <1>82, FailSteps, StoreSteps DEF FileRefused
  <2> QED
    BY <1>82, <2>1, QuietSteps
<1>83. ASSUME UNCHANGED fails, UNCHANGED fs, PositionsOK' PROVE WorldOK'
  BY <1>0, <1>83, FailSteps, QuietSteps
<1>84. CASE UNCHANGED <<fs, store, fails>>
  BY <1>0, <1>83, <1>84, StoreSteps
<1>9. ASSUME NEW o \in Objs, NEW f \in Files, StartFile(o, f) PROVE WorldOK'
  BY <1>0, <1>9, <1>82, <1>83, StoreSteps DEF StartFile, FileAdded
<1>91. ASSUME NEW o \in Objs, AddEventFile(o) PROVE WorldOK'
  <2>1. dirs[o].arg \in Files
    BY <1>91, Known DEF AddEventFile, Local, OfFile
  <2> QED
    BY <1>0, <1>91, <2>1, <1>82, <1>83, StoreSteps DEF AddEventFile, FileAdded
<1>92. ASSUME NEW o \in Objs, RemoveFile(o) \/ FileClosed(o) PROVE WorldOK'
  <2>1. CASE RemoveFile(o)
    BY <1>0, <2>1, <1>83, StoreSteps DEF RemoveFile
  <2>2. CASE FileClosed(o)
    <3>1. dirs[o].arg \in Tails
      BY <2>2, Known, ObjsSame DEF FileClosed, Inv, InvOf, FileInv, Closers
    <3>2. Saved(files[dirs[o].arg].path) /\ UNCHANGED <<fs, fails>>
      BY <2>2 DEF FileClosed
    <3> QED
      BY <1>0, <3>1, <3>2, <1>83, StoreSteps
  <2> QED
    BY <1>92, <2>1, <2>2
<1>93. ASSUME NEW o \in Objs, NEW i \in Tails, RemoveDirFile(o, i) \/ LetGo(o, i) \/ Flush(o, i) PROVE WorldOK'
  BY <1>0, <1>93, <1>83, StoreSteps DEF RemoveDirFile, LetGo, Flush, Key
<1>94. ASSUME NEW i \in Tails, TailNext(i) PROVE WorldOK'
  <2>1. {files[i].path} \in SUBSET Files
    BY <1>0
  <2>2. FailuresOK' /\ PositionsOK' /\ UNCHANGED fs
    BY <1>0, <1>94, <2>1, FailSteps, StoreSteps DEF TailNext, TailTakesClose, TailDies
  <2> QED
    BY <2>2, QuietSteps
<1>95. ASSUME NEW o \in Objs, StartNext(o) PROVE WorldOK'
  BY <1>7, <1>81, <1>84, <1>9, <1>95 DEF StartNext, DirAdded
<1>96. ASSUME NEW o \in Objs, TrackNext(o) PROVE WorldOK'
  BY <1>8, <1>84, <1>91, <1>92, <1>93, <1>96
     DEF TrackNext, TakeEvent, RemoveDir, CloseDir, CloseFile, DirRemoved, TakeStop, TrackEnd
<1>97. ASSUME NEW o \in Objs, Monitor(o) \/ Flusher(o) PROVE WorldOK'
  BY <1>93, <1>97 DEF Monitor, Flusher
<1> QED
  BY <1>1, <1>2, <1>3, <1>4, <1>5, <1>6, <1>94, <1>95, <1>96, <1>97 DEF Next, World

(* Every step keeps the invariant.                                         *)
LEMMA NextInv ==
  ASSUME Inv, WorldOK, Next
  PROVE  Inv'
<1>0. there \subseteq Subs /\ day \in 1 .. LastDay
  BY DEF WorldOK
<1>1. CASE World
  BY <1>0, <1>1, CreateFileInv, LeaveInv, MakeDirInv, RemoveEmptyDirInv, MidnightInv, StopRuleInv DEF World
<1>2. ASSUME NEW o \in Objs, StartNext(o) PROVE Inv'
  BY <1>0, <1>2, ReadDirInv, DirAddedInv, StartFileInv, StartDirInv DEF StartNext
<1>3. ASSUME NEW o \in Objs, TrackNext(o) PROVE Inv'
  BY <1>3, TakeEventInv, AddEventFileInv, AddEventDirInv, RemoveFileInv, RemoveDirInv, CloseDirInv,
     RemoveDirFileInv, CloseFileInv, DirRemovedInv, TakeStopInv, FileClosedInv, TrackEndInv DEF TrackNext
<1>4. ASSUME NEW o \in Objs, Monitor(o) \/ Flusher(o) PROVE Inv'
  BY <1>0, <1>4, LetGoInv, FlushInv DEF Monitor, Flusher
<1>5. ASSUME NEW i \in Tails, TailNext(i) PROVE Inv'
  BY <1>5, TailInv
<1> QED
  BY <1>1, <1>2, <1>3, <1>4, <1>5 DEF Next

(* The objects of a rule's directories, the mutexes held across steps, the *)
(* file map and the saved positions agree in every reachable state,        *)
(* whatever happens to the files (directory.go:51-359).                    *)
THEOREM Invariance == Spec => [](Inv /\ WorldOK)
<1>1. Inv /\ WorldOK /\ [Next]_vars => (Inv /\ WorldOK)'
  <2> SUFFICES ASSUME Inv, WorldOK, [Next]_vars PROVE (Inv /\ WorldOK)'
    OBVIOUS
  <2>1. CASE Next
    BY <2>1, WorldSteps, NextInv
  <2>2. CASE UNCHANGED vars
    BY <2>2, PositionsMove DEF vars, fs, store, fails, WorldOK, Inv
  <2> QED
    BY <2>1, <2>2
<1> QED
  BY <1>1, InitInv, PTL DEF Spec

(* Every reachable state is of the kind its type says: a file map never    *)
(* holds an entry without a file object, a track never works on something  *)
(* of another kind than its call takes (directory.go:305-335).             *)
THEOREM TypeCorrect == Spec => []TypeOK
<1>1. Inv /\ WorldOK => TypeOK
  BY DEF Inv, InvOf, WorldOK, TypeOK, DirMaps, FileMaps, FileInv, Accounted
<1> QED
  BY <1>1, Invariance, PTL
=============================================================================

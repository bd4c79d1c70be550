------------------------------ MODULE Follower ------------------------------
(***************************************************************************)
(* One file object of a mining directory: the goroutines that follow one   *)
(* log file, record its lines and save how far they got.                   *)
(*   T  Tailfollower.follow        reads lines, waits for changes          *)
(*   W  Tailfollower.watchFileEvents   hands inotify events to T           *)
(*   P  file.tailing               parses a line, hands it to D, updates   *)
(*                                 lastPosition                            *)
(*   D  the goroutine of newFile   inserts the record into the database    *)
(*   F  Directory.async2second     saves lastPosition, and never ends      *)
(*   K  Directory.track            closes the file and saves lastPosition  *)
(* A position is counted in half lines, so that a writer can leave half a  *)
(* line at the end of a file; a line is named by the position it starts    *)
(* at.  The reader's buffer is not modelled: a line is taken from the file *)
(* when T reads it.                                                        *)
(***************************************************************************)
EXTENDS Naturals, Sequences

CONSTANTS
  MaxSize,      \* bound: half lines a file may hold
  MaxFiles,     \* bound: files that may be created at the path
  MaxCuts,      \* bound: how often a file may be truncated
  Unparsable,   \* lines no record can be made of
  Events,       \* what may happen to the process and its files
  None          \* no line, no position

ASSUME FollowerAssumption ==
  /\ MaxSize \in Nat
  /\ MaxFiles \in Nat \ {0}
  /\ MaxCuts \in Nat
  /\ Unparsable \subseteq Nat
  /\ Events \subseteq {"stop", "crash", "dbfail", "watcherr",
                       "rename", "unlink", "truncate"}
  /\ None \notin Nat

Files == 1 .. MaxFiles

VARIABLES
  \* the file system
  path,     \* the file at the path the rule follows, 0 if there is none
  made,     \* files created at the path so far
  size,     \* half lines in each file
  cuts,     \* truncations so far
  replaced, \* history: the file at the path has been moved, removed or cut
  \* T and W
  tpc,      \* where T is
  fd,       \* the file T has open
  rpos,     \* where T reads next
  toff,     \* Tailfollower.offset
  line,     \* the line T holds
  watch,    \* the file whose events W gets, 0 if there is none
  evq,      \* events W has not handed over
  \* P, D and F
  ppc,      \* where P is
  pline,    \* the line P holds
  lpos,     \* lastPosition.Offset
  dline,    \* the record D is inserting
  orphans,  \* records the writers of closed file objects are inserting
  fcopy,    \* the copy of lastPosition F is saving
  leaked,   \* positions the flushers of closed directories still save
  \* K
  kpc,      \* where K is
  \* the database
  posDB,    \* the saved position; 0 also if there is none
  stored,   \* lines recorded
  lost      \* history: lines whose insert failed or was cut off by a crash

disk   == <<path, made, size, cuts, replaced>>
tail   == <<tpc, fd, rpos, toff, line, watch, evq>>
parser == <<ppc, pline, lpos>>
writer == <<dline, orphans, stored, lost>>
saver  == <<fcopy, leaked, posDB>>
vars   == <<disk, tail, parser, writer, saver, kpc>>

EventKinds == {"write", "chmod", "gone"}

(* Where the line that starts at or around p ends.                         *)
LineEnd(p) == p + 2 - (p % 2)

-----------------------------------------------------------------------------
(* Pieces of the code, each with a slip that the properties must notice.   *)

(* At the end of the file T goes back to the start of a partial line.      *)
PartialConsumed == IF size[fd] > rpos THEN size[fd] ELSE rpos
AfterEOF == rpos

(* P records how far T had got when it last reached the end of the file.   *)
ReadSoFar == rpos
ReachedEOF == toff

(* T looks after 10 seconds whether the path still leads to its file.      *)
AlwaysSame == TRUE
SameFile == fd = path

(* T wakes up by itself when nothing happens.                              *)
NoTimer == FALSE
Expired == tpc = "select"

-----------------------------------------------------------------------------
(* The file system, seen through inotify: identical consecutive events are *)
(* merged, and a file that is removed while T has it open only changes its *)
(* link count (Chmod).                                                     *)

Pushed(q, e) == IF q # <<>> /\ q[Len(q)] = e THEN q ELSE Append(q, e)
Notify(f, e) == evq' = IF watch = f THEN Pushed(evq, e) ELSE evq
Unseen == UNCHANGED <<tpc, fd, rpos, toff, line, watch, parser, writer, saver, kpc>>

AppendTo(f) ==
  /\ f <= made
  /\ size[f] < MaxSize
  /\ size' = [size EXCEPT ![f] = @ + 1]
  /\ Notify(f, "write")
  /\ UNCHANGED <<path, made, cuts, replaced>>
  /\ Unseen

Truncate ==
  /\ "truncate" \in Events
  /\ path # 0
  /\ size[path] > 0
  /\ cuts < MaxCuts
  /\ cuts' = cuts + 1
  /\ size' = [size EXCEPT ![path] = 0]
  /\ replaced' = TRUE
  /\ Notify(path, "write")
  /\ UNCHANGED <<path, made>>
  /\ Unseen

Rename ==
  /\ "rename" \in Events
  /\ path # 0
  /\ path' = 0
  /\ replaced' = TRUE
  /\ Notify(path, "gone")
  /\ UNCHANGED <<made, size, cuts>>
  /\ Unseen

Unlink ==
  /\ "unlink" \in Events
  /\ path # 0
  /\ path' = 0
  /\ replaced' = TRUE
  /\ Notify(path, IF fd = path THEN "chmod" ELSE "gone")
  /\ UNCHANGED <<made, size, cuts>>
  /\ Unseen

Create ==
  /\ path = 0
  /\ made < MaxFiles
  /\ made' = made + 1
  /\ path' = made + 1
  /\ UNCHANGED <<size, cuts, replaced, evq>>
  /\ Unseen

-----------------------------------------------------------------------------
(* Directory.addFile: look up the saved position (a failed lookup counts   *)
(* as none), save 0 if there is none, and start the goroutines.  What a    *)
(* closed file object of the path left behind goes on: its flusher, and    *)
(* the insert its writer had begun.                                        *)

Open(p) ==
  /\ path # 0
  /\ kpc \in {"none", "done"}
  /\ kpc' = "run"
  /\ fd' = path
  /\ rpos' = p
  /\ lpos' = p
  /\ toff' = 0
  /\ tpc' = "watch"
  /\ ppc' = "select"
  /\ line' = None
  /\ pline' = None
  /\ watch' = 0
  /\ evq' = <<>>
  /\ orphans' = orphans \cup ({dline} \ {None})
  /\ dline' = None
  /\ leaked' = IF kpc = "done" THEN leaked \cup ({lpos, fcopy} \ {None}) ELSE leaked
  /\ fcopy' = None
  /\ UNCHANGED <<disk, stored, lost>>

Resume == posDB # 0 /\ Open(posDB) /\ UNCHANGED posDB

FromStart == /\ posDB = 0 \/ "dbfail" \in Events
             /\ Open(0)
             /\ posDB' = 0

-----------------------------------------------------------------------------
(* T.                                                                      *)

(* watcher.Add; its error is ignored.                                      *)
TWatch ==
  /\ tpc = "watch"
  /\ watch' = path
  /\ tpc' = "read"
  /\ UNCHANGED <<fd, rpos, toff, line, evq, disk, parser, writer, saver, kpc>>

TRead ==
  /\ tpc = "read"
  /\ LineEnd(rpos) <= size[fd]
  /\ line' = rpos
  /\ rpos' = LineEnd(rpos)
  /\ tpc' = "send"
  /\ UNCHANGED <<fd, toff, watch, evq, disk, parser, writer, saver, kpc>>

TEndOfFile ==
  /\ tpc = "read"
  /\ LineEnd(rpos) > size[fd]
  /\ toff' = AfterEOF
  /\ rpos' = AfterEOF
  /\ tpc' = "eof"
  /\ UNCHANGED <<fd, line, watch, evq, disk, parser, writer, saver, kpc>>

(* Between the end of the file and the select a Write event finds nobody.  *)
TSelect ==
  /\ tpc = "eof"
  /\ tpc' = "select"
  /\ UNCHANGED <<fd, rpos, toff, line, watch, evq, disk, parser, writer, saver, kpc>>

(* Write and Chmod: Stat on the open file cannot report it missing, so the *)
(* rewatch in that branch is never reached.                                *)
TChanged ==
  /\ tpc = "select"
  /\ evq # <<>>
  /\ Head(evq) \in {"write", "chmod"}
  /\ evq' = Tail(evq)
  /\ IF toff > size[fd]
     THEN toff' = 0 /\ rpos' = 0
     ELSE UNCHANGED <<toff, rpos>>
  /\ tpc' = "read"
  /\ UNCHANGED <<fd, line, watch, disk, parser, writer, saver, kpc>>

TGone ==
  /\ tpc = "select"
  /\ evq # <<>>
  /\ Head(evq) = "gone"
  /\ evq' = Tail(evq)
  /\ tpc' = "open"
  /\ UNCHANGED <<fd, rpos, toff, line, watch, disk, parser, writer, saver, kpc>>

TTimeout ==
  /\ Expired
  /\ tpc = "select"
  /\ tpc' = IF SameFile THEN "read" ELSE "open"
  /\ UNCHANGED <<fd, rpos, toff, line, watch, evq, disk, parser, writer, saver, kpc>>

(* rewatch drops the watch and opens the path again, at its start; offset  *)
(* keeps its value.  Events read before the watch was dropped may arrive.  *)
TReopen ==
  /\ tpc = "open"
  /\ watch' = 0
  /\ evq' \in {<<>>, evq}
  /\ fd' = path
  /\ IF path = 0
     THEN tpc' = "dead" /\ UNCHANGED rpos
     ELSE tpc' = "watch" /\ rpos' = 0
  /\ UNCHANGED <<toff, line, disk, parser, writer, saver, kpc>>

TWatchError ==
  /\ "watcherr" \in Events
  /\ tpc = "select"
  /\ tpc' = "dead"
  /\ watch' = 0
  /\ fd' = 0
  /\ UNCHANGED <<rpos, toff, line, evq, disk, parser, writer, saver, kpc>>

(* W offers a Write event only once; fsnotify itself drops Write and Chmod *)
(* events of a path that no longer exists.                                 *)
WDrop ==
  /\ evq # <<>>
  /\ \/ Head(evq) = "write" /\ tpc # "select"
     \/ Head(evq) \in {"write", "chmod"} /\ path = 0
  /\ evq' = Tail(evq)
  /\ UNCHANGED <<tpc, fd, rpos, toff, line, watch, disk, parser, writer, saver, kpc>>

-----------------------------------------------------------------------------
(* P, D and F.                                                             *)

PReceive ==
  /\ tpc = "send"
  /\ ppc = "select"
  /\ pline' = line
  /\ line' = None
  /\ ppc' = IF line \in Unparsable THEN "update" ELSE "emit"
  /\ tpc' = "read"
  /\ UNCHANGED <<fd, rpos, toff, watch, evq, lpos, disk, writer, saver, kpc>>

PEmit ==
  /\ ppc = "emit"
  /\ dline = None
  /\ dline' = pline
  /\ ppc' = "update"
  /\ UNCHANGED <<pline, lpos, orphans, stored, lost, disk, tail, saver, kpc>>

PUpdate ==
  /\ ppc = "update"
  /\ lpos' = ReachedEOF
  /\ pline' = None
  /\ ppc' = "select"
  /\ UNCHANGED <<disk, tail, writer, saver, kpc>>

(* T has returned and closed the channel of lines.                         *)
PEnd ==
  /\ ppc = "select"
  /\ tpc = "dead"
  /\ ppc' = "dead"
  /\ UNCHANGED <<pline, lpos, disk, tail, writer, saver, kpc>>

(* An insert that fails is only logged.                                    *)
Inserted(l) ==
  \/ stored' = stored \cup {l} /\ UNCHANGED lost
  \/ "dbfail" \in Events /\ lost' = lost \cup {l} /\ UNCHANGED stored

DInsert ==
  /\ dline # None
  /\ Inserted(dline)
  /\ dline' = None
  /\ UNCHANGED <<orphans, disk, tail, parser, saver, kpc>>

DInsertOrphan(l) ==
  /\ l \in orphans
  /\ Inserted(l)
  /\ orphans' = orphans \ {l}
  /\ UNCHANGED <<dline, disk, tail, parser, saver, kpc>>

(* The flusher copies lastPosition and then calls the database; a failed   *)
(* call leaves the saved position as it is.                                *)
FCopy ==
  /\ kpc # "none"
  /\ fcopy = None
  /\ fcopy' = lpos
  /\ UNCHANGED <<leaked, posDB, disk, tail, parser, writer, kpc>>

FSave ==
  /\ fcopy # None
  /\ posDB' = fcopy \/ ("dbfail" \in Events /\ UNCHANGED posDB)
  /\ fcopy' = None
  /\ UNCHANGED <<leaked, disk, tail, parser, writer, kpc>>

FLeaked(p) ==
  /\ p \in leaked
  /\ posDB' = p
  /\ UNCHANGED <<fcopy, leaked, disk, tail, parser, writer, kpc>>

-----------------------------------------------------------------------------
(* K, the close branch of Directory.track: file.close() hands P the        *)
(* request, then the position is saved.  P passes the request on to T and  *)
(* ends.                                                                   *)

KStop ==
  /\ "stop" \in Events
  /\ kpc = "run"
  /\ kpc' = "close"
  /\ UNCHANGED <<disk, tail, parser, writer, saver>>

KClose ==
  /\ kpc = "close"
  /\ ppc = "select"
  /\ ppc' = "tclose"
  /\ kpc' = "save"
  /\ UNCHANGED <<pline, lpos, disk, tail, writer, saver>>

KSave ==
  /\ kpc = "save"
  /\ posDB' = lpos \/ ("dbfail" \in Events /\ UNCHANGED posDB)
  /\ kpc' = "done"
  /\ UNCHANGED <<fcopy, leaked, disk, tail, parser, writer>>

PCloseTail ==
  /\ ppc = "tclose"
  /\ tpc = "select"
  /\ ppc' = "dead"
  /\ tpc' = "dead"
  /\ watch' = 0
  /\ fd' = 0
  /\ UNCHANGED <<rpos, toff, line, evq, pline, lpos, disk, writer, saver, kpc>>

Crash ==
  /\ "crash" \in Events
  /\ kpc # "none"
  /\ kpc' = "none"
  /\ tpc' = "none" /\ ppc' = "none"
  /\ fd' = 0 /\ watch' = 0 /\ rpos' = 0 /\ toff' = 0 /\ lpos' = 0
  /\ line' = None /\ pline' = None /\ dline' = None /\ fcopy' = None
  /\ evq' = <<>>
  /\ orphans' = {} /\ leaked' = {}
  /\ lost' = lost \cup orphans \cup ({dline} \ {None})
  /\ UNCHANGED <<disk, stored, posDB>>

-----------------------------------------------------------------------------
Init ==
  /\ path = 1 /\ made = 1
  /\ size = [f \in Files |-> 0]
  /\ cuts = 0 /\ replaced = FALSE
  /\ tpc = "none" /\ ppc = "none" /\ kpc = "none"
  /\ fd = 0 /\ watch = 0 /\ rpos = 0 /\ toff = 0 /\ lpos = 0
  /\ line = None /\ pline = None /\ dline = None /\ fcopy = None
  /\ evq = <<>>
  /\ orphans = {} /\ leaked = {} /\ stored = {} /\ lost = {}
  /\ posDB = 0

World == (\E f \in Files : AppendTo(f)) \/ Truncate \/ Rename \/ Unlink \/ Create

TNext == TWatch \/ TRead \/ TEndOfFile \/ TSelect \/ TTimeout \/ TReopen
WNext == TChanged \/ TGone \/ WDrop
PNext == PReceive \/ PEmit \/ PUpdate \/ PEnd
FNext == FCopy \/ FSave \/ \E p \in leaked : FLeaked(p)
KNext == KClose \/ KSave

Next == \/ World
        \/ Resume \/ FromStart
        \/ TNext \/ WNext \/ PNext \/ FNext \/ KNext
        \/ DInsert \/ \E l \in orphans : DInsertOrphan(l)
        \/ TWatchError \/ KStop \/ PCloseTail \/ Crash

Spec == Init /\ [][Next]_vars

(* Every goroutine that follows the file goes on when it can, and the      *)
(* database answers.  A server that is down or a rule that is stopped need *)
(* not come back, and nobody need write to the file.                       *)
Fairness == /\ WF_vars(TNext) /\ WF_vars(WNext) /\ WF_vars(PNext)
            /\ WF_vars(DInsert)

FairSpec == Spec /\ Fairness
-----------------------------------------------------------------------------
(* Properties.  Those about positions are stated while the file at the     *)
(* path is still the first one and has only grown: positions carry no      *)
(* identity of the file they were taken in.                                *)

Positions == 0 .. MaxSize
Lines     == {p \in Positions : p % 2 = 0 /\ p + 2 <= MaxSize}

TypeOK ==
  /\ path \in Files \cup {0}
  /\ made \in Files
  /\ size \in [Files -> Positions]
  /\ cuts \in 0 .. MaxCuts
  /\ replaced \in BOOLEAN
  /\ tpc \in {"none", "watch", "read", "send", "eof", "select", "open", "dead"}
  /\ fd \in Files \cup {0}
  /\ rpos \in Positions
  /\ toff \in Positions
  /\ line \in Lines \cup {None}
  /\ watch \in Files \cup {0}
  /\ evq \in Seq(EventKinds)
  /\ ppc \in {"none", "select", "emit", "update", "tclose", "dead"}
  /\ pline \in Lines \cup {None}
  /\ lpos \in Positions
  /\ dline \in Lines \cup {None}
  /\ orphans \subseteq Lines
  /\ fcopy \in Positions \cup {None}
  /\ leaked \subseteq Positions
  /\ kpc \in {"none", "run", "close", "save", "done"}
  /\ posDB \in Positions
  /\ stored \subseteq Lines
  /\ lost \subseteq Lines

(* The lines that end at or before p, and those that need no further care: *)
(* recorded, unparsable, being inserted, or lost with their insert.        *)
LinesBelow(p) == {l \in Lines : l + 2 <= p}
Handled == stored \cup Unparsable \cup lost \cup orphans \cup ({dline} \ {None})

(* What T has passed on to P.                                              *)
Sent == IF tpc = "send" THEN line ELSE rpos

(* The lines T has passed are whole lines with no gap: each is handled or  *)
(* the one in P's hands (follower.go:150-166, file.go:92-108).             *)
NothingSkipped ==
  ~replaced /\ kpc # "none" =>
    /\ Sent % 2 = 0
    /\ LinesBelow(Sent) \subseteq Handled \cup {pline}

(* Whatever position is saved, by the flusher of this directory or of one  *)
(* closed before, by a close or by addFile, a restart from it skips no     *)
(* line that was not handled: a crash loses at most the records that were  *)
(* being inserted (file.go:107-111, directory.go:113-124, 341-343).        *)
SavedPositionCovered ==
  ~replaced => LinesBelow(posDB) \subseteq Handled

(* While the file at the path only grows, the goroutines of a file object *)
(* and those left behind by earlier ones deliver its lines in order and at *)
(* least once, as LineDelivery says (file.go:85-121, 67-80).  A line is    *)
(* taken when P hands it to D, or finds it unparsable.                     *)
Following == kpc \in {"run", "close"}
Delivery == INSTANCE LineDelivery WITH
  Width     <- 2,
  same      <- ~replaced,
  length    <- size[1],
  following <- Following,
  next      <- IF ~Following THEN 0 ELSE IF ppc = "emit" THEN pline ELSE Sent,
  flying    <- orphans \cup ({dline} \ {None}),
  mark      <- posDB
ImplementsDelivery == Delivery!Spec

(* A line in the file of a running rule is recorded or found unparsable,   *)
(* unless the file is replaced: the Write events that W throws away are    *)
(* made up for by the 10 second timeout (follower.go:227-239, 303-306).    *)
LinesEventuallyStored ==
  \A l \in Lines :
    kpc = "run" /\ ~replaced /\ l + 2 <= size[1]
      ~> l \in stored \cup Unparsable \/ replaced

(* A running tail ends up with the file that is at the path, or ends, even *)
(* if the path changes hands between its open and its watch                *)
(* (follower.go:228-246, 251-259).                                         *)
FollowsPath ==
  kpc = "run" ~> (tpc = "dead" \/ path = 0 \/ fd = path)
=============================================================================

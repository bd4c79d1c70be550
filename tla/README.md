# A verification of logauditer

logauditer is a log auditing server. A user defines *rules*: JSON documents
that say which directory to watch, which files in it to follow and how to take
an audit record out of a line. While a rule is started, the server follows the
files, stores a record per line in MongoDB and remembers how far it got in each
file. A web page queries the records.

This directory holds TLA+ models of the parts of it that are hard to test, TLC
configurations that check them on small instances, and TLAPS proofs of their
central properties for every instance.

| Module | Contents |
|---|---|
| `RuleServer` | gRPC handlers, scheduler, rule cache, rule documents, restart |
| `RuleRegistry` | abstract: what a client that sends one request at a time may rely on |
| `Follower` | one log file: tail, parser, record writer, saved position, close |
| `LineDelivery` | abstract: what following a file promises |
| `Directory` | the tree of Directory objects of a rule: files and subdirectories that come and go |
| `AuditRecord` | how a line becomes a record and a query finds it: parser, TEST, writer, collections |
| `CommandLine`, `NulDiscard`, `Download` | three loops: command arguments, NUL bytes, sheets of a download |
| `MCRuleServer`, `MCFollower`, `MCDirectory`, `MCAuditRecord`, `MCInputs` | instances of these for TLC |
| `RuleServerProofs` | type invariant, mutual exclusion, lifetime of workers |
| `RuleServerSerialProofs` | what one request at a time guarantees |
| `RuleServerRefinement` | `RuleServer` implements `RuleRegistry` |
| `FollowerProofs` | type invariant, no line skipped, restarts skip nothing; `Follower` implements `LineDelivery` |
| `DirectoryProofs` | type invariant; mutexes, requests to close, file maps and saved positions agree |
| `DirectoryOwnership` | no tail without an owner, removed files are forgotten |
| `AuditRecordProofs` | type invariant, what ends the process, records are of their own line |
| `InputsProofs` | the three loops lose nothing, and cut commands at their words |

`PROJECT.json` lists, for every definition, the source lines it stands for, and
the runs, the hazards, the disagreements found and the theorems.

## 1. Inventory

### The parts and what they keep

| Part | State | Operations |
|---|---|---|
| server, `server/server.go` | `Scheduler.workers` (map, written under `mu`, read without) | `Execute`: parse, run the command, act on its reply; `NewServer`: load and resume rules |
| commands, `command/` | none | one `Execute` per command; `extractArgs` splits the line |
| rule cache, `cache/cache.go` | `data` (map; writes under a *read* lock) | `Get`, `Set`, `Del`, `Keys` |
| database access, `dbapi/` | the `StorageParts` map | `AccessDatabase`: GET, SET, DEL, KEYS, INSERT, REMOVEALL, DROP, LIST, MV |
| directory, `logmining/directory.go` | `fileMap`, `dirMap`, watcher | `NewDirectory`, `start`, `track`, `addFile`, `addEventFile`, `removeFile`, `addDir`, `removeDir`, `asyncFlush`, expiry, `Close` |
| file object, `logmining/file.go`, `dbwrite.go` | `lastPosition`, channels, the collection of the day | `newFile`, `tailing`, `close`, `Write` |
| tail, `logmining/follower.go` | open file, reader, `offset`, watcher | `follow`, `watchFileEvents`, `rewatch`, `Close` |
| line parser, `internal/` | two scratch fields of `RuntimeOptions`, the `Content` of `LogParts` | `Handle`, `ColumnPattern.unMarshal`, the visitor, `Send` |
| web, `web/srv.go` | none | `Query`, `GetDown` |
| client, gRPC interface, `raw`, `insecure` | none | |

MongoDB holds what survives a restart: `audit_rule.data` (one document per
rule: text and `isopen`), `audit_lib.<rule>` (a saved position per file) and
`logrecord.log_<date>` (the records).

### How they interact

A client's command is one gRPC call; each call runs in its own goroutine. A
handler asks the cache, the database and the scheduler one after the other with
no lock held over the whole of it. `Scheduler.Add` and `Del` hold the mutex
while they create a directory or wait for it to take a request to close.

A directory has a goroutine for the events of its watch and for the request to
close (`track`), one that saves positions every 2 seconds and one that looks for
expired files every second; the last two never end. A subdirectory is a
Directory of its own with all of these, kept in its parent's `dirMap`. Each file
has four goroutines connected by unbuffered channels:

    inotify -> watchFileEvents -> follow -> tailing -> newFile's goroutine -> MongoDB
                                    ^          ^
                                 closeCh    closeCh <- track

`lastPosition` is written by `tailing` and read by the flusher and by `track`,
with no lock; `Tailfollower.offset` is written by `follow` and read by
`tailing`, with no lock. The files of a directory share one `RuntimeOptions`,
and all TESTs share one `LogParts`.

### What is hard, and what makes each part correct

* *Server*: handlers interleave between unlocked steps; database calls fail
  half way through a command; the process dies between two steps; a handler
  waits for another goroutine while it holds the mutex. Correct means: a rule
  has at most one miner and STOP can reach it; a dropped rule is gone; only
  COMMIT decides what is persisted; a restart does what the documents say, and
  they say what is running; every request is answered.
* *File*: events are thrown away on purpose, a file is cut, moved or replaced
  while it is read, a line is half written, a stop comes at any moment, an
  insert fails, a position is saved while lines are in flight. Correct means:
  no line is skipped, a restart from any saved position skips none, every line
  is recorded in the end, the tail follows the path.
* *Directory*: events against the initial listing, expiry against events, three
  goroutines per object on two maps, a recursive close. Correct means: no tail
  that nobody can end, today's files followed and yesterday's let go, removed
  files forgotten, and everything closed by a STOP.
* *Parser*: goroutines share scratch fields; a column number at its edge panics.
  Correct means: a record is made of one line, with the fields the rule says,
  and no line ends the process.
* *Records*: written by the day of writing, queried by the date in the file's
  name. Correct means: a query finds what was written.
* *Commands, NUL bytes, downloads*: boundaries of loops. Correct means: nothing
  is lost and nothing invented.

`PROJECT.json` lists each hazard at its line with the properties that cover it.

## 2. The modules

### RuleServer

Every access of a handler to a shared store is one action, because anything
may happen between two of them. `pc[h]` is where handler `h` is, `call[h]` its
request and local variables (`p` is the document `RunnerGet` read, `d` the
directory in hand, `text` the text read from the cache).

| Code | Actions |
|---|---|
| `Execute` of SET, COMMIT, START/STOP, DROP, LIST | `ExecSet`, `ExecCommit`, `ExecRunner`, `ExecDrop`, `ExecList` |
| reply to COMMIT | `CommitSet` |
| reply to START | `RunnerGet`, `StartExists`, `AddRun`, `AddInsert`, `StartSet`; if that fails `DelLock`, `TrackClose`, `DelDelete` |
| reply to STOP | `RunnerGet`, `StopExists`, `DelLock`, `TrackClose`, `DelDelete`, `StopSet` |
| reply to DROP | `DropExists`, `DropGet`, `DropDel`, `DropLib`, `DropRollback`, `DropDoc` |
| reply to LIST | `ListExists`, `ListRead` (panics on a worker that is gone) |
| directories | `FinishClose`, `Flush` |
| `main`, `NewServer`, the end of the process | `Boot`, `BootRule`, `Serve`, `Crash` |

A database call is applied, refused, or applied while the client sees an error
(`Outcomes`). The goroutine that receives a request to close is part of
`TrackClose`: a send on an unbuffered channel and its receive are one step.
`FinishClose` stands for the rest of `track`'s close branch; it need not happen,
and nothing on the server's side waits for it. TOP, DESC, RULES and HELP change
no state; TEST is in `AuditRecord`. Two handlers that write the cache at once
end the process (a map written under a read lock); `Crash`, possible at any
time, covers that.

Two history variables say what a property may expect. `dropped`: the rules
whose DROP answered OK and that have not been SET since. `unrecorded`: the rules
whose document need not say what is mined, because they were committed while
they ran (`cmds.go:64` marks them stopped), were started with a text that was
not committed, or because the SET of a START or STOP reported an error
(`server.go:374`, `:411`); a START, STOP or DROP that succeeds and a restart end
this. `Remembered` are the rules whose history is kept: none in the runs whose
properties do not use it.

### RuleRegistry

What is left of the server if every request took effect in one moment: a rule
has a definition, perhaps a document, and the texts it is mined with. No mutex,
no worker map, no half executed request. `RuleServer!ImplementsRegistry` maps
`up` to serving, `def` to the cache, `doc` to the documents, and `running[r]`
to the texts of the directories of `r` that have not taken a request to close.

It says what is *not* atomic to a client: a DROP undefines first and erases the
document later; a START or STOP mines or ends first and records later; a failed
one may be taken back or recorded by accident. It also says what always holds:
`Start` needs a rule that is not mined, `Erase` one that is neither mined nor
defined, and `Record` makes `isopen` the truth and leaves the text alone.
`Start` mines the definition, `Load` the document: they may differ, because
START runs the text in the cache whatever was committed (`server.go:90`), and
`Commit` writes a document that is closed even while the rule is mined
(`cmds.go:64`), so that a crash does not resume it.

The refinement holds for one request at a time. With two, each conflict of
§3 breaks it.

### Follower

One file object. A position counts half lines, so that a line can be half
written; a line is named by the position it starts at.

| Goroutine | Actions |
|---|---|
| the system | `AppendTo`, `Truncate`, `Rename`, `Unlink`, `Create` |
| `addFile` | `Resume` (a position was saved), `FromStart` |
| `follow` | `TWatch`, `TRead`, `TEndOfFile`, `TSelect`, `TTimeout`, `TReopen`, `TWatchError` |
| `watchFileEvents` with `follow` | `TChanged`, `TGone`, and `WDrop`, which throws a Write away |
| `tailing` | `PReceive`, `PEmit`, `PUpdate`, `PEnd`, `PCloseTail` |
| `newFile`'s goroutine | `DInsert`; of a closed file object `DInsertOrphan` |
| flusher | `FCopy`, `FSave`; of a closed directory `FLeaked` |
| `track` | `KStop`, `KClose`, `KSave` |

Each hand-over on an unbuffered channel is one step of both goroutines.
`orphans` are the inserts that file objects closed earlier had begun, `leaked`
the positions that flushers of closed directories still save. What a tail of a
closed file object that got stuck in its close goes on doing touches nothing
shared, and is dropped at the next `Open`.

inotify is modelled as documented: identical events in a row are merged, and
removing a file that is open only reports a change of attributes.

Left out: the 4 KB reader (a line is taken from the file when it is read, not
when it is buffered), the content of a line beyond whether a record can be made
of it, NUL bytes (`NulDiscard`), and the overlap of a directory that is still
closing with the next one of the same rule.

### LineDelivery

At-least-once delivery: lines are `Take`n in order, each is `Record`ed or lost,
and a `mark` never lies beyond a line that was not dealt with, though it may
move backwards. `Follower!ImplementsDelivery` maps `next` to what the tail has
passed on, except that a line in the parser's hands is not taken yet, `flying`
to the inserts under way, those of earlier file objects included, and `mark` to
the position in the database. Once the file at the path is replaced, `same` is
false and nothing more is promised: positions carry no identity of the file
they were taken in, and a reopened tail keeps its old offset for a while
(`follower.go:251`).

### Directory

| Goroutine | Actions |
|---|---|
| the system, the server | `CreateFile`, `Leave` (removed or renamed), `MakeDir`, `RemoveEmptyDir`, `Midnight`, `StopRule` |
| `NewDirectory`, `start` | `ReadDir`, `StartFile`, `StartDir`, `DirAdded` |
| `track`, events | `TakeEvent`, `AddEventFile`, `AddEventDir`, `RemoveFile`, `RemoveDir`, `RemoveDirFile`, `DirRemoved` |
| `track`, close | `TakeStop`, `CloseFile`, `FileClosed`, `CloseDir`, `TrackEnd` |
| `monitorCurrentDateFile` | `LetGo` |
| `asyncFlush` | `Flush` |
| tails | `TailTakesClose`, `TailDies` |

Calls fail where the code looks at their error or should: the GET of a saved
position (then the file begins anew), the SET of the first one and `newFile`
(`FileRefused`), `MkdirAll` and the watch of a directory (`DirRefused`),
`ReadDir`, a flush or a close (each saves a position or does not), the DEL of a
position, which is only logged (`Forget`), and the watch, a read or a seek of a
tail (`TailDies`). A SET or DEL that reports an error may have been applied.
Nothing in the code tries again. Two history variables record what that leaves
behind: `lost`, the files a failed call has left unfollowed, and `kept`, the
files whose position was saved before this START or whose DEL failed. `newFile`
can fail after it has begun a tail (a bad `host` or `logDate` expression,
`file.go:44-60`); nobody receives from that tail, so it stops at its first line
and is an open file that takes no part in anything.

A Directory object records what each of its goroutines is doing; `mu` is held
across steps only while a subdirectory is made or removed, and then names it.
Events of a watch queue up in order; a Rename has no case in `track` and is not
queued. `newFile` on a name that is in the map overwrites the entry, and the
object overwritten is no longer `listed`; `NewDirectory` makes its directory if
it is gone, which is an event for the parent like any other.

A tail is live or dead here and takes one request to close; how it dies by
itself is `Follower`'s concern. Objects nobody refers to any more are forgotten
(`Swept`, `Collected`), so that identities are enough; `DirLeft` and `FileLeft`,
guards of the steps that make objects, are the bounds that remain, and
`MaxMishaps`, which bounds creations, removals of the subdirectory and failing
calls together (a failing GET, flush or DEL costs nothing). `filePattern` is a
constant: `Files` are the names that match. A flusher saves one position per
step, so a tick may stop anywhere. START may find any files, subdirectories and
saved positions, also of files that are gone. A file is created on the day in
its name or later (`CreateFile`): see §3 for one that comes before.

`"early"` among the `Events` allows changes to a directory while the object's
`start` has not finished with it. `track` is already running then
(`directory.go:88`), so a file or subdirectory created at that moment is added
twice, and `NoOrphanTail` falls at once. The runs leave it out, to tell other
ways to an orphan from it.

### AuditRecord

The actors are the goroutines of the files of a running rule (`file.tailing`)
and TESTs of the same rule. A step reads or writes one variable that goroutines
may share: `RuntimeOptions.o` is a string, so it is stored and loaded in two
halves, pointer and length (`Store`, `Load`); `Content` of the `LogParts` is set
(`Publish`) and read (`Send`) apart. `OptionsOf` says who shares an options
object (`Clone` makes one per directory, TEST one of its own), `PartsOf` who
shares parts (a file has its own, TESTs share the server's).

`FillColumns` is `ColumnPattern.unMarshal`: it walks the four columns in the
order of the code, and each is absent, an expression or any integer (a rule is
JSON, so a column number may be negative). An expression that is not found ends
the walk; a number beyond the columns is skipped, except that those below 1 and
the one next to the last panic (`TooFar`). A rule without
`columnPattern` leaves the pattern nil, which TEST does not (`Columns`).
`RowOf` and `Fatal` say the same without the loop, and the properties compare.

`Pass` hands the record to the file's writer, which `Write`s it into the
collection that a ticker (`Tick`) renames after midnight. `Query` is the web
query: a form must have a date, which names the collection. One rule text
stands for each way a text can behave.

### CommandLine, NulDiscard, Download

`extractArgs` one character per step; the discarding of NUL bytes one window
per step; `GetDown` one record per step, and none if `Query` fails: it
looks at no error and dereferences the nil result, which ends the request
(`srv.go:121`, `:127`, `:141`). Each loop is compared with a definition that does
not mention it: the words between the separators, the NULs at the beginning and
those after a byte of text, the numbers of the records. `MCInputs` composes them so that
one input is enumerated at a time.

What the definitions had to admit: white space after an empty buffer is kept, so
extra spaces go to the beginning of the next argument (`parse.go:74`); a NUL
that is alone at the beginning of a window stays, because index 0 is not
discarded (`follower.go:140`), and text before a NUL in a window is discarded
with it, where the comment at `follower.go:133` says "discard leading NUL bytes".
`NulsDiscarded` bounds both: at most one of the leading NULs is left, and every
byte of text discarded has a NUL after it within a window. Code that does just
what the comment says would satisfy it too.

## 3. What is checked

A run marked *violated* checks what a comment or the README of the repository
says, and TLC shows a behaviour of the code that does otherwise.

| Run | Bounds | Shows |
|---|---|---|
| `server_serial` | 1 rule, 1 handler, 2 directories, 4 texts, all outcomes | `TypeOK`, `NoOrphanMiner`, `DroppedIsGone`, `RestartResumesRunning`, `OnlyCommitWritesText`, `RestartFollowsDocuments`, `ImplementsRegistry` |
| `server_concurrent` | 1 rule, 2 handlers, 2 directories, 1 text, calls applied or refused | `MutexHeld`, `ListedWorkerIsLive`, `CloseIsReceived`, `RequestsAnswered` |
| `server_two_starts` | 2 handlers | *violated*: `NoOrphanMiner` |
| `server_lost_commit` | 2 handlers, 2 texts | *violated*: `OnlyCommitWritesText` |
| `server_stale_positions` | 1 handler | *violated*: `DroppedLeavesNoPositions` |
| `follower_failures` | 3 lines (the 2nd unparsable), 1 file; stops, crashes, database and watch errors | `TypeOK`, `NothingSkipped`, `SavedPositionCovered`, `ImplementsDelivery` |
| `follower_rotation` | 1 line, 2 files, renames, removals, 1 truncation | `LinesEventuallyStored`, `FollowsPath` |
| `directory_removals` | 1 file in the directory, 1 in a subdirectory, 2 days, 1 STOP, 2 creations, removals of the subdirectory and failing calls taken together; 3 Directory and 3 file objects alive at a time | `TypeOK`, `NoOrphanTail`, `RemovedForgotten`, `FollowedEventually`, `ExpiredLetGo`, `StopEndsAll` |
| `directory_rotation` | the same files, renames, 1 creation or failing call | *violated*: `NoOrphanTail` |
| `record` | 2 files in 2 directories and 1 TEST, 4 lines, 6 rule texts, 2 days | `TypeOK`, `OwnRecord`, `DiesOnlyAtTheEdge`, `TakenThenFound` |
| `record_mixed` | 2 files in 1 directory, 2 lines, 1 rule text | *violated*: `OwnRecord` |
| `inputs` | commands of up to 7 characters, files of up to 7 bytes with a window of 3, up to 10 records on sheets of 4 | `ArgsAreWords`, `ArgsLoseNothing`, `NulsDiscarded`, `SheetsHoldAll` |

`NoOrphanMiner`, `OnlyCommitWritesText`, `NoOrphanTail` and `OwnRecord` are
checked both ways: where nothing conflicts they hold, even with failing calls
and crashes; the violated runs show what is lost where two requests, a rotation
or two files of a directory meet. `DroppedIsGone` and `ImplementsRegistry` fail
with two handlers for the same reasons and have no runs of their own for that.

### Where the code does otherwise

* `server.go:356`: two STARTs both find no worker and both start a directory; the
  overwritten one mines on and neither STOP nor TOP sees it.
* `server.go:363`, `:400`: START and STOP write back the whole document they read
  earlier, over a COMMIT (or a DROP) made since.
* `directory.go:100`: the flusher never ends, and brings back positions that DROP
  has removed. One request at a time is enough.
* `directory.go:226`: a file renamed and created anew is put into `fileMap` over
  its old file object, whose tail lives on, follows the same path, and cannot be
  stopped.
* `runtime.go:159`: files of one directory keep the rest of their line in the same
  field; a record can get the operation of another file's line, or a string with
  the pointer of one and the length of the other.

Seen while modelling, with no run of their own:

* `cmds.go:64`: COMMIT of a running rule marks it stopped, and a crash later does
  not resume it; a STOP whose SET fails leaves the document open, and the rule is
  resumed. Both are exceptions of `RestartResumesRunning`.
* `directory.go:218`, `:223`, `:64`, `:281`: an error there leaves the file, or all
  files of the directory, unfollowed until the next START; `track` does not even
  log that of `addEventFile`. A tail that ends on a watch or read error
  (`follower.go:219`) is not begun again either. These are `lost`, the exception
  of `FollowedEventually`.
* `directory.go:241`: a DEL that fails is logged and the entry forgotten. The
  position stays, and a START after the file is created anew resumes in the
  middle of it.
* `follower.go:140`: a lone NUL at the start of a window is kept, and text before
  a NUL of its window is lost, unlike the comment at `follower.go:133` says.
* `srv.go:127`: `GetDown` drops the error of `Query` and uses its nil result.

* `server.go:439`: LIST uses a worker that a STOP removed since the check, and
  the panic ends the server.
* `server.go:246`: TEST begins with an empty `ColumnPattern`, START with none: a
  rule without `columnPattern` passes its TEST and ends the process at the first
  line it matches (`DiesOnlyAtTheEdge` names it). A line that ends the process
  is read again after each restart.
* `server.go:262`: two TESTs at once share `s.logParts`, and one can get the
  other's answer. The runs have one TEST at a time.
* `directory.go:88`: what is created while `start` reads the directory is added
  twice (see `"early"` above).
* `directory.go:318`: a file created before the day in its name is thrown away
  and never followed; `FollowedEventually` is about files created on their day.
* `directory.go:343`: the close of a removed subdirectory saves the position of
  each of its files, also of one that the date monitor has let go of meanwhile
  and whose position is deleted (`directory.go:241`), so the position is back.
  `RemovedForgotten` leaves these out: the day of the file is over, and it is not
  read again.
* `directory.go:341`: `track` closes a file whose tail has ended and waits for
  ever; it is the one exception in `StopEndsAll` (`BlockedByDeadTail`).
* `file.go:115`: closing a tail that is handing over a line blocks both, for good.
* `file.go:111`: `Tailfollower.Offset()` is 0 after a resume until the end of the
  file is reached, and that 0 can be saved: the next restart records lines twice,
  but skips none.
* `follower.go:227`: a truncation whose Write event was thrown away is not noticed
  by the timeout.
* `dbwrite.go:53`: a line written after midnight goes to the collection of the
  new day with the date of its file's name, and no query finds it;
  `TakenThenFound` is about the day itself.

### Why the bounds are enough

* One rule: handlers of different rules share only the mutex and the maps, and
  no step on one rule's entries reads another's. The proofs are for any set.
* Two handlers: every conflict is between two requests. Two directories: one
  closes while the other mines, or two are made for one rule. `DirsLeft` keeps a
  START from being accepted when no identity is left, so no handler blocks for a
  reason the code does not have. `server_concurrent` leaves out calls that are
  applied though they report an error: to the mutex and the workers they are the
  same as refused ones. Its invariants are proved for all outcomes.
* Four texts: one that starts, another to tell a reverted commit, one
  `NewDirectory` refuses, one that is not JSON.
* Three lines and half lines: one line before, one at and one after any
  position; the middle one gives no record. Two files: the one followed and its
  successor. `MaxCuts` = 1: what a second truncation could do starts from the
  same states.
* `Directory`: a parent and a child are all the kinds of object there are, as no
  step looks further than one level. The file in the directory is dated the
  first day and the one in the subdirectory the second, so that one expires
  while the other begins; two mishaps let a file or the subdirectory be removed
  and come back under its name, or come once and meet one failing call. The
  proofs put no bound on them. Three identities each let an object be made
  while another of its name is still closing; what nobody refers to is
  forgotten.
* `AuditRecord`: interference needs two goroutines; the third actor is a TEST of
  the same rule. The lines have one or two columns, so that a column number is
  inside, next to the last, further off and 0; the six texts have each kind of
  column in front of each other, no columns, and a `systemType` no part knows.
* `Inputs`: 7 characters hold two quoted words with a space in and between them;
  7 bytes hold two whole windows of 3 and a part of a third; 10 records fill
  three sheets of 3 and begin a fourth.
* Deadlock is checked where the system goes on for ever. It is not where it may
  stop: a tail whose path is gone and no file comes any more
  (`follower_rotation`), a stopped rule (`directory_removals`), all lines dealt
  with or a dead process (`record`, `record_mixed`), an input used up
  (`inputs`).

### Fairness

`RuleServer`: a handler that can step does (Go runs every goroutine that is
ready); the two steps that lock the mutex are strongly fair, because Go's mutex
hands over to a waiter that starves. Clients need not ask, processes need not
die or start.

`Follower`: the tail, the event goroutine, the parser and the writer go on when
they can, and the database answers. Nobody need write, stop or restart anything.
The timeout is an ordinary step of `follow`: 10 seconds pass when nothing else
happens. `FollowsPath` depends on the file being written finitely often, as it
is in the model (`MaxSize`): where the watched file is not the one that is open
and events for it come more often than every 10 seconds, the timeout never fires.

`Directory`: weak fairness of all the work taken together, `start`, `track`, the
date monitor and tails that have been asked to close, as far as it changes the
objects. That is weaker than what the scheduler gives each goroutine and is
enough here. Neither the flusher, nor the system, nor a tail's death is fair.

`AuditRecord`: each actor and each writer goes on when it can. The ticker and
midnight are not fair: what the properties promise must not need them.

## 4. What is proved

Every theorem is for any sets of rules, texts, handlers, directories, lines and
files and any failures; the only assumptions are the named `ASSUME`s of the
modules (a malformed text cannot be started, `None` is no value, sizes are
natural numbers) and, where it is stated, a hypothesis of the theorem.

### The server, any number of handlers (`RuleServerProofs`)

* `TypeCorrect`: `TypeOK`. Holds that no malformed text gets anywhere.
* `SchedulerLock`: `MutexHeld`.
* `WorkersAreLive`: `ListedWorkerIsLive`.
* `CloseNeverHangs`: `CloseIsReceived`.

The inductive invariant `IInv` adds to these what the holder of the mutex knows:
`Stopping` (the directory Del is stopping is the one listed), `Adding` (the one
Add is about to list is new, its own and mining), `Locals` (a handler's
variables are set where it reads them) and `Quiet` and `Loading` (no handler
runs before the server serves). None of the safety properties is inductive
alone: `CloseIsReceived` needs `ListedWorkerIsLive` when Del takes the lock,
which needs `Stopping` when Del is done, which needs `MutexHeld`. `StepKinds`
splits the steps into those of handlers inside and outside the critical
sections, so that the many outside need one proof.

### One request at a time (`RuleServerSerialProofs`, `RuleServerRefinement`)

The hypothesis is `OneAtATime`: no two handlers. With two, TLC finds a
counterexample to each theorem that has it.

* `EveryMinerListed`: `NoOrphanMiner`.
* `DropIsFinal`: `DroppedIsGone`.
* `RestartIsFaithful`: `RestartFollowsDocuments`; without the hypothesis.
* `RestartChangesNothing`: `RestartResumesRunning`.
* `TextsAreCommitted`: `OnlyCommitWritesText`.
* `ServesRegistry`: `ImplementsRegistry`.

`SInv` adds two things to `IInv`. `Known` says that what the handler has found
out is still so when it acts on it: there is no worker where START adds one or
DROP removes a rule, the cache is empty between DROP's deletions, the document
has the text that was read. This is what a second handler would spoil: the first
two findings of §3 are two of its conjuncts. `BootInv` says that while
NewServer loads, every rule is untouched or resumed as its document says, and
that a dead process has left nothing but documents. `RestartChangesNothing` adds
`Told` (a rule's document says what is mined unless a START or STOP is between
the worker and its SET, or the rule is `unrecorded`; a START that takes its
worker back is one that could not record it) and `Asking` (which request can be
at which step).

The refinement proof rests on what is mined in each situation: nothing for a
rule without worker (`NothingMined`), something for one with a worker
(`SomethingMined`), exactly one text more after Add (`NewMine`) and nothing after
Del's request was taken (`MineClosed`). With these each step of the server is a
step of the registry or a stutter: `AddRun` is `Start`, `TrackClose` is `Stop`,
`StartSet` and `StopSet` are `Record`, `DropDel` is `Undefine`, `DropDoc` is
`Erase`, `DropRollback` is `Define`, `BootRule` is `Load`.

### The file (`FollowerProofs`)

* `TypeCorrect`: `TypeOK`.
* `NoLineSkipped`: `NothingSkipped`.
* `RestartSkipsNothing`: `SavedPositionCovered`.
* `DeliversLines`: `ImplementsDelivery`.

A saved position comes from `lastPosition`, a flusher's copy, a flusher of an
earlier directory, or `Tailfollower.offset` through `lastPosition`. `IInv`
therefore says of *all* of these that the lines below them are handled
(`SavedCovered`, and `ReadCovered` for `lastPosition` itself). `ReadCovered` also
says of the tail that the lines it has passed are handled or in the hands of a
parser that has not handed them on yet, and that `offset` is not beyond them.
The step that needs this is `PUpdate`, where `lastPosition` takes over `offset`:
the tail may have reached the end of the file since, but the parser has handed
on its line by then, so all lines up to `offset` are handled. `Evens` says that
every position is the start of a line, `Hands` who holds a line when,
`SameFileAlways` that a file that was not replaced is the open one, and the
lemma `HandledGrows` that what is handled stays so.

The refinement needs two more facts. `WithinFile`: until the file is replaced no
position, saved, copied or in use, is behind its end; so the tail never takes
the file for one that was cut, which would make it take lines again from the
start in the middle of a run. `Passing`: a line in the parser's hands can be
recorded and is the last one the tail has passed on, so that taking it is the
next `Take`.

### Directories (`DirectoryProofs`, `DirectoryOwnership`)

For any tree of files and subdirectories, any dates and any number of objects:

* `TypeCorrect`: `TypeOK`, whatever happens to the files.
* `Forgotten`: `RemovedForgotten`, if `"early" \notin Events`, whatever calls fail.
* `NoOrphans`: `NoOrphanTail`, if `"early"` and `"rename"` are not in `Events`.

The hypotheses are about the surroundings, and are needed: `directory_rotation`
shows an orphan after a rename, and one created while `start` reads a directory
is added twice (`directory.go:88`).

Each step changes one object, or two on both sides of a mutex or a request to
close, and then objects nobody refers to are forgotten. The first invariant,
`Inv`, is therefore made of what an object satisfies by itself (`Local`: `track`
works on something its call takes, a mutex is held across steps by the rule's
directory only) and of what relates objects: the subdirectory a mutex is held
for is in hand, not told to close and listed exactly in `removeDir` (`Held`); a
listed subdirectory is told to close only by its parent (`Told`); a closing
`track` has still to close every live file it lists (`Closers`); a saved position
that is not among the `kept` belongs to a listed file or to one whose day is over
(`Accounted`). The last holds whatever DELs fail because a failing one adds to
`kept` what it leaves. It is written as
a formula about any objects and files, so that the lemmas about a changed object
and about forgetting are proved once and used by one lemma per action.
`Invariance` states it without any hypothesis.

None of that tells why there is one object per subdirectory and one tail per
file. `addDir` and `addEventFile` overwrite whatever is in the map
(`directory.go:149`, `:226`), so it depends on the events: a creation must never
be dealt with by a directory that knows of the name already. The second
invariant, `Owns`, says of each queue that the events about a name alternate
with what the directory has heard (`Alternates`): there is a removal between two
creations, one before the first if the name is known, and one after the last if
the name is gone. Events are queued in order and a directory that is no longer
watched hears nothing, so this is kept by every step; the head of the queue is
then a creation only of a name that is not in the map. `Reads` says the same
while `start` still reads the directory: no creation waits and nothing it has
still to look at is listed, which is what `"early"` would spoil. A subdirectory
that `NewDirectory` makes again after its removal (`directory.go:57`) fits in:
its creation is queued behind the removal. For files the argument needs that
every loss is reported, hence the second hypothesis. `Ownership` states this
invariant, and `NoOrphanTail` and `RemovedForgotten` follow from the two
together.

### Records (`AuditRecordProofs`)

* `TypeCorrect`: `TypeOK`.
* `OnlyTheEdgeKills`: `DiesOnlyAtTheEdge`, whatever goroutines share.
* `RecordsAreOwn`: `OwnRecord`, if no two actors share an options object or parts
  (`NothingShared`): one file in each directory, and one TEST at a time.
  `record_mixed` shows that without this it does not hold.

The lemma `UnMarshal` says that the walk over the columns, with its early
returns, gives `RowOf` and panics exactly if `Fatal`, for every rule, line and
column number: the row so far is right for the columns before (`Filled`) at each
of the four turns, until an expression is not found or a number is at the edge.
The first invariant adds to the types that an actor's line is one it has taken
and can be visited (`Held`); it needs no hypothesis, as nothing shared decides
what panics. The second, `Own`, follows the line through the options object half
by half, the local variables, the parts, the writer's hands and the database
(`Carried`, `Inserting`, `Recorded`); another actor's step changes none of these
if nothing is shared.

### The loops (`InputsProofs`)

* `ArgsAreWhole`: `ArgsLoseNothing`.
* `WordsAreKept`: `ArgsAreWords`.
* `NulsAreDiscarded`: `NulsDiscarded`.
* `DownloadIsWhole`: `SheetsHoldAll`.

For texts, files and downloads of any length, windows and sheets of any size.
`NothingIsLost` states them for the composition that TLC runs. A download's
counter is where the last sheet ends (`AtEnd`). Of the NUL bytes (`NInv`), the loop never
passes the last NUL of the file, each turn discards up to a NUL of its window,
and it goes on only after a window that ends with one; the last NUL of a window
is the least position that none comes after (`LastNulIs`).
`ArgsLoseNothing` compares two texts given by recursive functions, `Text` and
`FlattenSeq`. What such a function is for a longer input is known only once it
is shown to exist and to be unique (`WithoutExists`, `WithoutUnique`, `FlatExists`,
`FlatUnique`), both from a least counterexample; then one more character or
argument is one step of the function (`TextAppend`, `FlatAppend`) and the
invariant is immediate.

`ArgsAreWords` speaks of the positions of the separators, the white space that
is not quoted: the number of a word is that of the separators before its end.
It is not inductive, for it says nothing before the end of the command. Its
strengthening `WordsSoFar` says what holds at every character: the parser is
between quotes when it has passed an odd number of them, every word that a
separator has ended is the argument of its number, and the buffer is what has
been read of the word after the last separator. Each of the three is known to
grow by one character at a time (`QuotedTurns`, `NumberTurns`, `WordTurns`), so
that a character read either is one more of the last word (`MoreOfAWord`) or
ends it (`EndOfAWord`). Where white space follows an empty buffer the code
keeps it; in a command with one space between words this cannot happen, which
is the only use of that hypothesis (`WordsStep`).

### What TLC alone shows

* Liveness (`RequestsAnswered`, `LinesEventuallyStored`, `FollowsPath`,
  `FollowedEventually`, `ExpiredLetGo`, `StopEndsAll`, `TakenThenFound`), out of
  the prover's reach like anything with ENABLED.

Every invariant, every other action property and both refinements that the
passing runs check are theorems. What a recursive function computes is proved
without an induction theorem of the library, from least counterexamples (above).
The theorems with a hypothesis hold where TLC finds the property, and TLC finds
it violated without the hypothesis: two handlers for `OneAtATime`, a rename for
`NoOrphans`, two files of a directory for `RecordsAreOwn`.

## 5. What is not modelled, and the plan

Done: `RuleServer` and `RuleRegistry`, `Follower` and `LineDelivery` with the
proofs of both refinements, `Directory` and `AuditRecord` with the proofs of
their invariants, the input loops with theirs.

Next: the overlap of a directory that is still closing with the next one of the
same rule, which only `RuleServer` sees now, at the level of `Follower`'s
positions.

Not modelled of directories: an overflow of the inotify queue, which loses
events (`d.watcher.Errors` has no reader, so fsnotify's own goroutine would stop
there), an `os.Stat` in `ftype` that fails for a file that exists, and a
`NewDirectory` or a regular expression that cannot be made for the rule as a
whole, which ends a START (`RuleServer`'s `Unstartable`).

Not modelled at all: `logmining/library.go` and the RDBMS half of `dbapi` (no caller);
MV, which `StorageParts` does not dispatch; `Cache.Marshal`/`UnMarshal` (no
caller); the generated gRPC code; the client (prints one reply per request and
keeps nothing); `raw` and `insecure` (helpers without state); the pages and cell
layout of the web server; TOP, DESC, RULES, HELP and `Directory.List`, which read
only; the command line flags of the two `main`s.

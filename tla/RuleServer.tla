----------------------------- MODULE RuleServer -----------------------------
(***************************************************************************)
(* The rule server of logauditer: gRPC handlers (server/server.go) that    *)
(* execute the commands of package command against three shared stores,    *)
(*   - the rule cache (cache/cache.go), lost when the process dies,        *)
(*   - the rule documents audit_rule.data in MongoDB, which survive it,    *)
(*   - the Scheduler's map of running workers, written under its mutex but *)
(*     read without it,                                                    *)
(* and against the directories the workers run.  Every handler runs in a   *)
(* goroutine of its own, so each access to a shared store is one step and  *)
(* the steps of different handlers interleave.  A directory is seen here   *)
(* only as far as the server sees it: it mines from NewDirectory on, its   *)
(* track goroutine takes one request to close, and its flusher goroutine   *)
(* never ends.                                                             *)
(***************************************************************************)
EXTENDS Naturals, FiniteSets

CONSTANTS
  Rules,        \* rule names
  Texts,        \* rule texts a client may send
  Malformed,    \* texts json.Unmarshal rejects
  Unstartable,  \* well-formed texts NewDirectory refuses (pattern, directory)
  Handlers,     \* gRPC handlers that may run at the same time
  Dirs,         \* identities for the Directory objects of one process
  DBOutcomes,   \* what a database call may do, see Outcomes
  Remembered,   \* rules whose history is kept, for the properties about it
  None          \* no value

(* A call is applied ("ok"), fails before it is applied ("refused"), or is *)
(* applied although the client sees a network error ("unacked").           *)
Outcomes == {"ok", "refused", "unacked"}

(* A document of audit_rule.data, and a Directory.                          *)
Docs    == [value : Texts, isopen : BOOLEAN]
DirRecs == [rule : Rules, text : Texts, st : {"mining", "closing"}]

ASSUME RuleServerAssumption ==
  /\ Malformed \subseteq Texts
  /\ Unstartable \subseteq Texts \ Malformed
  /\ DBOutcomes \subseteq Outcomes
  /\ "ok" \in DBOutcomes
  /\ Remembered \subseteq Rules
  /\ None \notin Rules \cup Texts \cup Handlers \cup Dirs

ASSUME NoneIsNoRecord == None \notin Docs /\ None \notin DirRecs

VARIABLES
  phase,     \* "down", "boot" (NewServer is loading) or "up" (serving)
  toLoad,    \* rules NewServer has still to load
  cache,     \* Cache.data: the text of each defined rule
  doc,       \* audit_rule.data: the Persist document of each rule
  lib,       \* rules whose collection audit_lib.<rule> may hold positions
  workers,   \* Scheduler.workers: the directory of each listed worker
  dir,       \* the live Directory objects
  leaked,    \* rules of closed directories whose flusher still ticks
  mu,        \* holder of Scheduler.mu
  pc,        \* where each handler is
  call,      \* the request and local variables of each handler
  dropped,   \* history: remembered rules whose DROP answered OK, not
             \* SET since
  unrecorded \* history: remembered rules mined or stopped without their
             \* document being told, see Recorded

vars == <<phase, toLoad, cache, doc, lib, workers, dir, leaked, mu, pc, call, dropped,
          unrecorded>>

(* What dies with the process and what only a handler changes.             *)
mining  == <<workers, dir, leaked>>
handler == <<mu, pc, call>>
boot    == <<phase, toLoad>>

NoCall  == [op |-> "NONE", rule |-> None, text |-> None, p |-> None, d |-> None]
Labels  == {"idle", "commitSet", "runnerGet", "startExists", "addRun",
            "addInsert", "startSet", "delLock", "delSend", "delDelete",
            "stopExists", "stopSet", "dropExists", "dropGet", "dropDel",
            "dropLib", "dropRollback", "dropDoc", "listExists", "listRead"}
Ops     == {"NONE", "COMMIT", "START", "STOP", "DROP", "LIST"}
Calls   == [op : Ops, rule : Rules \cup {None}, text : Texts \cup {None},
            p : Docs \cup {None}, d : Dirs \cup {None}]

WellFormed == Texts \ Malformed

-----------------------------------------------------------------------------
(* Handler control.                                                        *)

Begin(h, op, r, text, label) ==
  /\ pc' = [pc EXCEPT ![h] = label]
  /\ call' = [call EXCEPT ![h] = [op |-> op, rule |-> r, text |-> text,
                                  p |-> None, d |-> None]]

Goto(h, label) == pc' = [pc EXCEPT ![h] = label] /\ UNCHANGED call

Reply(h) == /\ pc' = [pc EXCEPT ![h] = "idle"]
            /\ call' = [call EXCEPT ![h] = NoCall]

At(h, label) == phase = "up" /\ pc[h] = label

(* A new request is accepted only while enough directory identities are    *)
(* left for every START under way: the bound of the model on Dirs.         *)
DirsLeft == Cardinality({d \in Dirs : dir[d] = None})
              > Cardinality({h \in Handlers : call[h].op = "START"})

-----------------------------------------------------------------------------
(* Pieces of the handlers, each with the slips a change to the code could  *)
(* make; the variants are used to show that the properties notice them.    *)

(* Set.Execute refuses a text that json.Unmarshal rejects.                 *)
NeverRejected(t) == FALSE
Rejected(t) == t \in Malformed

(* Scheduler.Exists reads the map without the mutex.                       *)
ExistsBlind(r) == FALSE
Exists(r) == workers[r] # None

(* Scheduler.Add and Del lock the mutex first.                             *)
Unguarded == TRUE
LockFree == mu = None

(* The deferred unlock of Add also runs when run() failed.                 *)
KeptLock(h) == h
MuAfterFailedAdd(h) == None

(* Del forgets the worker it stopped.                                      *)
StillListed(r) == workers
Unlisted(r) == [workers EXCEPT ![r] = None]

(* START and STOP write back the document they read, with another isopen.  *)
StatusDocFromCache(h, open) == [value |-> cache[call[h].rule], isopen |-> open]
StatusDocKept(h, open) == call[h].p
StatusDoc(h, open) == [value |-> call[h].p.value, isopen |-> open]

(* DROP reports an error when the rule's document was not removed; mgo's   *)
(* Remove also fails when there is no such document.                       *)
OnlyMissingFails(r, out) == doc[r] = None
RemoveFails(r, out) == out # "ok" \/ doc[r] = None

(* NewServer starts the rules whose document says they were running.       *)
ResumeAll(r) == TRUE
ResumeAtBoot(r) == doc[r].isopen

(* The history of what documents are told: a START or STOP that recorded   *)
(* what it did tells the document of r, and so does a restart; a COMMIT    *)
(* tells it that r does not run, which may be wrong.                       *)
Recorded(r, told) == (unrecorded \ {r}) \cup IF told THEN {} ELSE {r} \cap Remembered

Startable(t) == t \in WellFormed \ Unstartable
Stored(out, new, old) == IF out = "refused" THEN old ELSE new
NewDir(d, r, t) == [dir EXCEPT ![d] = [rule |-> r, text |-> t, st |-> "mining"]]

-----------------------------------------------------------------------------
(* Command.Execute: what a request does before the server looks at the     *)
(* reply.  SET is complete with it; the others go on in the server.        *)

ExecSet(h, r, t) ==
  /\ At(h, "idle")
  /\ ~Rejected(t)
  /\ cache' = [cache EXCEPT ![r] = t]
  /\ dropped' = dropped \ {r}
  /\ UNCHANGED <<boot, doc, lib, mining, handler, unrecorded>>

ExecCommit(h, r) ==
  /\ At(h, "idle")
  /\ cache[r] # None
  /\ Begin(h, "COMMIT", r, cache[r], "commitSet")
  /\ UNCHANGED <<boot, cache, doc, lib, mining, mu, dropped, unrecorded>>

ExecRunner(h, op, r) ==
  /\ At(h, "idle")
  /\ cache[r] # None
  /\ op = "START" => DirsLeft
  /\ Begin(h, op, r, None, "runnerGet")
  /\ UNCHANGED <<boot, cache, doc, lib, mining, mu, dropped, unrecorded>>

ExecDrop(h, r) ==
  /\ At(h, "idle")
  /\ Begin(h, "DROP", r, None, "dropExists")
  /\ UNCHANGED <<boot, cache, doc, lib, mining, mu, dropped, unrecorded>>

ExecList(h, r) ==
  /\ At(h, "idle")
  /\ cache[r] # None
  /\ Begin(h, "LIST", r, None, "listExists")
  /\ UNCHANGED <<boot, cache, doc, lib, mining, mu, dropped, unrecorded>>

-----------------------------------------------------------------------------
(* COMMIT: the Persist record built by Commit.Execute never sets Isopen,   *)
(* and the upsert replaces the whole document.                             *)

CommitSet(h) ==
  /\ At(h, "commitSet")
  /\ LET r == call[h].rule IN
     \E out \in DBOutcomes :
       /\ doc' = [doc EXCEPT ![r] =
                    Stored(out, [value |-> call[h].text, isopen |-> FALSE], @)]
       /\ unrecorded' = Stored(out, Recorded(r, ~Exists(r)), unrecorded)
  /\ Reply(h)
  /\ UNCHANGED <<boot, cache, lib, mining, mu, dropped>>

-----------------------------------------------------------------------------
(* START and STOP.                                                         *)

RunnerGet(h) ==
  /\ At(h, "runnerGet")
  /\ \E out \in DBOutcomes :
       IF out # "ok" \/ doc[call[h].rule] = None
       THEN Reply(h)
       ELSE /\ call' = [call EXCEPT ![h].p = doc[call[h].rule]]
            /\ pc' = [pc EXCEPT ![h] = IF call[h].op = "START"
                                       THEN "startExists" ELSE "stopExists"]
  /\ UNCHANGED <<boot, cache, doc, lib, mining, mu, dropped, unrecorded>>

StartExists(h) ==
  /\ At(h, "startExists")
  /\ IF Exists(call[h].rule) THEN Reply(h) ELSE Goto(h, "addRun")
  /\ UNCHANGED <<boot, cache, doc, lib, mining, mu, dropped, unrecorded>>

(* Scheduler.Add locks, then Worker.run reads the cache and creates the    *)
(* directory, which mines from here on.                                    *)
AddRun(h) ==
  /\ At(h, "addRun")
  /\ LockFree
  /\ LET r == call[h].rule IN
     \/ /\ ~Startable(cache[r])
        /\ mu' = MuAfterFailedAdd(h)
        /\ Reply(h)
        /\ UNCHANGED dir
     \/ /\ Startable(cache[r])
        /\ \E d \in Dirs :
             /\ dir[d] = None
             /\ dir' = NewDir(d, r, cache[r])
             /\ call' = [call EXCEPT ![h].d = d]
        /\ mu' = h
        /\ pc' = [pc EXCEPT ![h] = "addInsert"]
  /\ UNCHANGED <<boot, cache, doc, lib, workers, leaked, dropped, unrecorded>>

AddInsert(h) ==
  /\ At(h, "addInsert")
  /\ workers' = [workers EXCEPT ![call[h].rule] = call[h].d]
  /\ mu' = None
  /\ call' = [call EXCEPT ![h].d = None]
  /\ pc' = [pc EXCEPT ![h] = "startSet"]
  /\ UNCHANGED <<boot, cache, doc, lib, dir, leaked, dropped, unrecorded>>

StartSet(h) ==
  /\ At(h, "startSet")
  /\ \E out \in DBOutcomes :
       /\ doc' = [doc EXCEPT ![call[h].rule] = Stored(out, StatusDoc(h, TRUE), @)]
       /\ unrecorded' = Recorded(call[h].rule,
                                 out = "ok" /\ call[h].p.value = cache[call[h].rule])
       /\ IF out = "ok" THEN Reply(h) ELSE Goto(h, "delLock")
  /\ UNCHANGED <<boot, cache, lib, mining, mu, dropped>>

StopExists(h) ==
  /\ At(h, "stopExists")
  /\ IF Exists(call[h].rule) THEN Goto(h, "delLock") ELSE Reply(h)
  /\ UNCHANGED <<boot, cache, doc, lib, mining, mu, dropped, unrecorded>>

(* Where a handler goes when Scheduler.Del has returned true: STOP records *)
(* it, a START that could not be recorded answers with an error.           *)
AfterDel(h) == IF call[h].op = "STOP"
               THEN /\ call' = [call EXCEPT ![h].d = None]
                    /\ pc' = [pc EXCEPT ![h] = "stopSet"]
               ELSE Reply(h)

DelLock(h) ==
  /\ At(h, "delLock")
  /\ LockFree
  /\ LET w == workers[call[h].rule] IN
     IF w = None
     THEN mu' = None /\ AfterDel(h)
     ELSE /\ mu' = h
          /\ call' = [call EXCEPT ![h].d = w]
          /\ pc' = [pc EXCEPT ![h] = "delSend"]
  /\ UNCHANGED <<boot, cache, doc, lib, mining, dropped, unrecorded>>

(* Directory.Close sends on an unbuffered channel: it returns when the     *)
(* track goroutine receives, which it does once and only while it mines.   *)
TrackClose(h) ==
  /\ At(h, "delSend")
  /\ dir[call[h].d] # None
  /\ dir[call[h].d].st = "mining"
  /\ dir' = [dir EXCEPT ![call[h].d].st = "closing"]
  /\ Goto(h, "delDelete")
  /\ UNCHANGED <<boot, cache, doc, lib, workers, leaked, mu, dropped, unrecorded>>

DelDelete(h) ==
  /\ At(h, "delDelete")
  /\ workers' = Unlisted(call[h].rule)
  /\ mu' = None
  /\ AfterDel(h)
  /\ UNCHANGED <<boot, cache, doc, lib, dir, leaked, dropped, unrecorded>>

StopSet(h) ==
  /\ At(h, "stopSet")
  /\ \E out \in DBOutcomes :
       /\ doc' = [doc EXCEPT ![call[h].rule] = Stored(out, StatusDoc(h, FALSE), @)]
       /\ unrecorded' = Recorded(call[h].rule, out = "ok")
  /\ Reply(h)
  /\ UNCHANGED <<boot, cache, lib, mining, mu, dropped>>

-----------------------------------------------------------------------------
(* DROP.  Cache.Del never fails, so that branch of the code is not taken.  *)

DropExists(h) ==
  /\ At(h, "dropExists")
  /\ IF Exists(call[h].rule) THEN Reply(h) ELSE Goto(h, "dropGet")
  /\ UNCHANGED <<boot, cache, doc, lib, mining, mu, dropped, unrecorded>>

DropGet(h) ==
  /\ At(h, "dropGet")
  /\ IF cache[call[h].rule] = None
     THEN Reply(h)
     ELSE /\ call' = [call EXCEPT ![h].text = cache[call[h].rule]]
          /\ pc' = [pc EXCEPT ![h] = "dropDel"]
  /\ UNCHANGED <<boot, cache, doc, lib, mining, mu, dropped, unrecorded>>

DropDel(h) ==
  /\ At(h, "dropDel")
  /\ cache' = [cache EXCEPT ![call[h].rule] = None]
  /\ Goto(h, "dropLib")
  /\ UNCHANGED <<boot, doc, lib, mining, mu, dropped, unrecorded>>

DropLib(h) ==
  /\ At(h, "dropLib")
  /\ \E out \in DBOutcomes :
       /\ lib' = Stored(out, lib \ {call[h].rule}, lib)
       /\ Goto(h, IF out = "ok" THEN "dropDoc" ELSE "dropRollback")
  /\ UNCHANGED <<boot, cache, doc, mining, mu, dropped, unrecorded>>

DropRollback(h) ==
  /\ At(h, "dropRollback")
  /\ cache' = [cache EXCEPT ![call[h].rule] = call[h].text]
  /\ Reply(h)
  /\ UNCHANGED <<boot, doc, lib, mining, mu, dropped, unrecorded>>

DropDoc(h) ==
  /\ At(h, "dropDoc")
  /\ LET r == call[h].rule IN
     \E out \in DBOutcomes :
       /\ doc' = [doc EXCEPT ![r] = Stored(out, None, @)]
       /\ IF RemoveFails(r, out)
          THEN UNCHANGED <<dropped, unrecorded>>
          ELSE /\ dropped' = dropped \cup ({r} \cap Remembered)
               /\ unrecorded' = Recorded(r, TRUE)
  /\ Reply(h)
  /\ UNCHANGED <<boot, cache, lib, mining, mu>>

-----------------------------------------------------------------------------
(* The process ends: everything but the database is gone.                  *)
Die ==
  /\ phase' = "down"
  /\ toLoad' = {}
  /\ cache' = [r \in Rules |-> None]
  /\ workers' = [r \in Rules |-> None]
  /\ dir' = [d \in Dirs |-> None]
  /\ leaked' = {}
  /\ mu' = None
  /\ pc' = [h \in Handlers |-> "idle"]
  /\ call' = [h \in Handlers |-> NoCall]

ListExists(h) ==
  /\ At(h, "listExists")
  /\ IF Exists(call[h].rule) THEN Goto(h, "listRead") ELSE Reply(h)
  /\ UNCHANGED <<boot, cache, doc, lib, mining, mu, dropped, unrecorded>>

(* LIST reads the map a second time; a worker removed in between makes it  *)
(* nil, w.list() dereferences it, and the panic ends the process.          *)
ListRead(h) ==
  /\ At(h, "listRead")
  /\ IF Exists(call[h].rule)
     THEN Reply(h) /\ UNCHANGED <<boot, cache, mining, mu>>
     ELSE Die
  /\ UNCHANGED <<doc, lib, dropped, unrecorded>>

-----------------------------------------------------------------------------
(* Directories, as the server's stores see them.                           *)

(* The track goroutine has closed its files and watcher and returns; the   *)
(* goroutine started by async2second goes on.                              *)
FinishClose(d) ==
  /\ dir[d] # None
  /\ dir[d].st = "closing"
  /\ leaked' = leaked \cup {dir[d].rule}
  /\ dir' = [dir EXCEPT ![d] = None]
  /\ UNCHANGED <<boot, cache, doc, lib, workers, handler, dropped, unrecorded>>

HasFlusher(r) == \/ r \in leaked
                 \/ \E d \in Dirs : dir[d] # None /\ dir[d].rule = r

(* Directory.asyncFlush and addFile upsert positions in audit_lib.<rule>.  *)
Flush(r) ==
  /\ HasFlusher(r)
  /\ lib' = lib \cup {r}
  /\ UNCHANGED <<boot, cache, doc, mining, handler, dropped, unrecorded>>

-----------------------------------------------------------------------------
(* Crash and restart: main and NewServer.                                  *)

Crash ==
  /\ phase # "down"
  /\ Die
  /\ UNCHANGED <<doc, lib, dropped, unrecorded>>

Boot ==
  /\ phase = "down"
  /\ phase' = "boot"
  /\ toLoad' = {r \in Rules : doc[r] # None}
  /\ UNCHANGED <<cache, doc, lib, mining, handler, dropped, unrecorded>>

BootRule(r) ==
  /\ phase = "boot"
  /\ r \in toLoad
  /\ toLoad' = toLoad \ {r}
  /\ cache' = [cache EXCEPT ![r] = doc[r].value]
  /\ IF ResumeAtBoot(r) /\ Startable(doc[r].value)
     THEN \E d \in Dirs :
            /\ dir[d] = None
            /\ dir' = NewDir(d, r, doc[r].value)
            /\ workers' = [workers EXCEPT ![r] = d]
     ELSE UNCHANGED <<dir, workers>>
  /\ unrecorded' = Recorded(r, TRUE)
  /\ UNCHANGED <<phase, doc, lib, leaked, handler, dropped>>

Serve ==
  /\ phase = "boot"
  /\ toLoad = {}
  /\ phase' = "up"
  /\ UNCHANGED <<toLoad, cache, doc, lib, mining, handler, dropped, unrecorded>>

-----------------------------------------------------------------------------
Init ==
  /\ phase = "down"
  /\ toLoad = {}
  /\ cache = [r \in Rules |-> None]
  /\ doc = [r \in Rules |-> None]
  /\ lib = {}
  /\ workers = [r \in Rules |-> None]
  /\ dir = [d \in Dirs |-> None]
  /\ leaked = {}
  /\ mu = None
  /\ pc = [h \in Handlers |-> "idle"]
  /\ call = [h \in Handlers |-> NoCall]
  /\ dropped = {}
  /\ unrecorded = {}

(* What a client asks for.                                                 *)
Request(h) ==
  \E r \in Rules :
    \/ \E t \in Texts : ExecSet(h, r, t)
    \/ ExecCommit(h, r)
    \/ \E op \in {"START", "STOP"} : ExecRunner(h, op, r)
    \/ ExecDrop(h, r)
    \/ ExecList(h, r)

(* The steps of a handler that wait for nobody.                            *)
Run(h) ==
  \/ CommitSet(h)
  \/ RunnerGet(h) \/ StartExists(h) \/ AddInsert(h) \/ StartSet(h)
  \/ StopExists(h) \/ DelDelete(h) \/ StopSet(h)
  \/ DropExists(h) \/ DropGet(h) \/ DropDel(h) \/ DropLib(h)
  \/ DropRollback(h) \/ DropDoc(h)
  \/ ListExists(h) \/ ListRead(h)

Next ==
  \/ \E h \in Handlers :
       Request(h) \/ Run(h) \/ AddRun(h) \/ DelLock(h) \/ TrackClose(h)
  \/ \E d \in Dirs : FinishClose(d)
  \/ \E r \in Rules : Flush(r) \/ BootRule(r)
  \/ Crash \/ Boot \/ Serve

Spec == Init /\ [][Next]_vars

(* Go schedules every runnable goroutine (weak fairness), its mutex hands  *)
(* over to the longest waiter once one starves (strong fairness for the    *)
(* two steps that lock), and a track goroutine returns to its select.      *)
(* Nothing makes clients ask, directories finish closing or processes die. *)
Fairness ==
  \A h \in Handlers :
    /\ WF_vars(Run(h) \/ TrackClose(h))
    /\ SF_vars(AddRun(h) \/ DelLock(h))

FairSpec == Spec /\ Fairness

-----------------------------------------------------------------------------
(* Properties.                                                             *)

(* Type invariant.  It includes that no text json.Unmarshal rejects ever   *)
(* gets into the cache, a document or a directory: Worker.run and NewServer*)
(* rely on the check SET made.                                             *)
TypeOK ==
  /\ phase \in {"down", "boot", "up"}
  /\ toLoad \subseteq Rules
  /\ cache \in [Rules -> WellFormed \cup {None}]
  /\ doc \in [Rules -> [value : WellFormed, isopen : BOOLEAN] \cup {None}]
  /\ lib \subseteq Rules
  /\ workers \in [Rules -> Dirs \cup {None}]
  /\ dir \in [Dirs -> DirRecs \cup {None}]
  /\ leaked \subseteq Rules
  /\ mu \in Handlers \cup {None}
  /\ pc \in [Handlers -> Labels]
  /\ call \in [Handlers -> Calls]
  /\ dropped \subseteq Rules
  /\ unrecorded \subseteq Rules

(* Scheduler.Add and Del are critical sections: the handlers between the   *)
(* lock and the deferred unlock (server.go:56, 68) are exactly the holder. *)
Critical == {"addInsert", "delSend", "delDelete"}
MutexHeld == \A h \in Handlers : pc[h] \in Critical <=> mu = h

(* A worker that TOP, LIST and the Exists checks can see runs a directory  *)
(* made for that rule, and one that still takes a request to close, except *)
(* while the Del that stopped it is about to remove it (server.go:71-76).  *)
ListedWorkerIsLive ==
  \A r \in Rules : workers[r] # None =>
    \/ /\ dir[workers[r]] # None
       /\ dir[workers[r]].rule = r
       /\ dir[workers[r]].st = "mining"
    \/ \E h \in Handlers : /\ pc[h] = "delDelete"
                           /\ call[h].rule = r
                           /\ call[h].d = workers[r]

(* Directory.Close (directory.go:96) is never sent to a track goroutine    *)
(* that has already returned: the sender holds Scheduler.mu, so one such   *)
(* send would block every later START and STOP for ever.                   *)
CloseIsReceived ==
  \A h \in Handlers : pc[h] = "delSend" =>
    dir[call[h].d] # None /\ dir[call[h].d].st = "mining"

(* A directory that mines is the one listed for its rule, or is about to   *)
(* be listed by the Add that made it: STOP can reach it.  Otherwise the    *)
(* rule's lines are recorded twice and nothing but a restart ends it.      *)
NoOrphanMiner ==
  \A d \in Dirs : dir[d] # None /\ dir[d].st = "mining" =>
    \/ workers[dir[d].rule] = d
    \/ \E h \in Handlers : pc[h] = "addInsert" /\ call[h].d = d

(* After DROP answered OK, and until the rule is SET again, nothing defines*)
(* it: not the cache, not its document (so not a restart), not a worker.   *)
DroppedIsGone ==
  \A r \in dropped : cache[r] = None /\ doc[r] = None /\ workers[r] = None

(* DROP leaves no saved positions either (server.go:298 removes them all): *)
(* a rule defined again under the name would resume in the middle.         *)
DroppedLeavesNoPositions == dropped \cap lib = {}

(* Only COMMIT decides what text is persisted: START and STOP, which write *)
(* the whole document back to record isopen, neither revert a commit nor   *)
(* bring back a dropped rule.                                              *)
TextChanges(r) == /\ doc'[r] # None
                  /\ doc[r] = None \/ doc'[r].value # doc[r].value
OnlyCommitWritesText ==
  [][\A r \in Rules : TextChanges(r) =>
       \E h \in Handlers : pc[h] = "commitSet" /\ call[h].rule = r]_vars

(* When NewServer is done every persisted rule is in the cache, and those  *)
(* that run are the ones whose document is marked open and whose text      *)
(* starts, each with that text, however the process ended.                 *)
RestartFollowsDocuments ==
  [][phase = "boot" /\ phase' = "up" =>
       \A r \in Rules :
         /\ cache[r] = IF doc[r] = None THEN None ELSE doc[r].value
         /\ IF doc[r] # None /\ doc[r].isopen /\ Startable(doc[r].value)
            THEN workers[r] # None /\ dir[workers[r]].text = doc[r].value
            ELSE workers[r] = None]_vars

(* The texts directories of a rule mine, until their track goroutines have *)
(* taken the request to close, and those a restart would have mined.       *)
Mined(r) == {dir[d].text : d \in {e \in Dirs : /\ dir[e] # None
                                              /\ dir[e].rule = r
                                              /\ dir[e].st = "mining"}}
ToResume(r) == {doc[r].value : p \in {q \in {doc[r]} : /\ q # None
                                                      /\ q.isopen
                                                      /\ Startable(q.value)}}

(* A crash between requests loses no running rule and starts no stopped    *)
(* one: what is mined is at any such time what a restart would resume.  The*)
(* exceptions are a rule that was COMMITted while it ran (cmds.go:64 marks *)
(* it stopped), that was STARTed with a text not committed, or whose START *)
(* or STOP could not be recorded (server.go:374, 411), until a START, STOP *)
(* or DROP succeeds or the server is restarted.                            *)
AtRest(r) == \A h \in Handlers : ~(call[h].op \in {"START", "STOP"} /\ call[h].rule = r)
RestartResumesRunning ==
  phase = "up" => \A r \in Remembered \ unrecorded : AtRest(r) => Mined(r) = ToResume(r)

(* As long as requests come one at a time the server implements the        *)
(* registry of RuleRegistry: what a client sees of it is what a server     *)
(* would show whose requests take effect in one step each.                 *)
Registry == INSTANCE RuleRegistry WITH
  Runnable <- WellFormed \ Unstartable,
  up       <- phase = "up",
  def      <- cache,
  running  <- [r \in Rules |-> Mined(r)]
ImplementsRegistry == Registry!Spec

(* Every request is answered, or the process dies with it: no handler      *)
(* waits for ever for the mutex or for a track goroutine.                  *)
RequestsAnswered == \A h \in Handlers : pc[h] # "idle" ~> pc[h] = "idle"
=============================================================================
